----------------------------- MODULE MCDeleter ------------------------------
\* The deleter on three entries in batches of up to two: two plain keys or one
\* key twice, then a key that XML cannot carry.
EXTENDS Deleter

CONSTANTS k1, k2, k3

const_KeyMaps == {<<k1, k2, k3>>, <<k1, k1, k3>>}

const_TwoKeys == {<<k1, k2>>}

const_Postures ==
  {[crt |-> FALSE, resend |-> TRUE, capture |-> FALSE],
   [crt |-> FALSE, resend |-> FALSE, capture |-> TRUE],
   [crt |-> TRUE, resend |-> TRUE, capture |-> TRUE]}
=============================================================================
