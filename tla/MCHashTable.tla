------------------------------ MODULE MCHashTable ------------------------------
EXTENDS HashTable, TLC

\* The hashes: three keys start in the same group of every table, of which one
\* is pushed on, two in another; most share the hash bits of the control bytes.
CONSTANTS k1, k2, k3, k4, k5, k6

MCH1 == k1 :> 0 @@ k2 :> 4 @@ k3 :> 0 @@ k4 :> 1 @@ k5 :> 3 @@ k6 :> 1
MCH2 == k1 :> 1 @@ k2 :> 1 @@ k3 :> 1 @@ k4 :> 2 @@ k5 :> 1 @@ k6 :> 1

=============================================================================
