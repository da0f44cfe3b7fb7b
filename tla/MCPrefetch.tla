----------------------------- MODULE MCPrefetch -----------------------------
\* The prefetch model on a small source, for TLC.
EXTENDS Prefetch

const_QueueSizes == {1, 2}
=============================================================================
