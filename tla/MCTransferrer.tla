--------------------------- MODULE MCTransferrer ----------------------------
\* The transfer run on two items, with room in the engine for both, or for one.
EXTENDS Transferrer
=============================================================================
