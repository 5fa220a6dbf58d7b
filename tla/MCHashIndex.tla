---------------------------- MODULE MCHashIndex ----------------------------
(***************************************************************************)
(* Model values and the hash function for checking HashIndex with TLC.    *)
(* Two-bit hashes: each of the four keys has its own low bits, so a       *)
(* directory of depth 2 can always separate them.                          *)
(***************************************************************************)
EXTENDS HashIndex, TLC

CONSTANTS k1, k2, k3, k4, v1, t1, t2

MCKeys == {k1, k2, k3, k4}
\* Three keys: hashes 0, 1 and 2, so slot 0 splits twice and slot 1 once.
MCKeys3 == {k1, k2, k3}
\* The two threads run the same code: a permutation of them is a symmetry.
ThreadSymmetry == Permutations({t1, t2})

MCHash == (k1 :> 0) @@ (k2 :> 1) @@ (k3 :> 2) @@ (k4 :> 3)

\* Three-bit hashes under a header of depth 1: k1..k3 (hashes 0, 1, 2)
\* share directory 0, k4 (hash 4, top bit set) gets directory 1.
MCHashTwoDirs == (k1 :> 0) @@ (k2 :> 1) @@ (k3 :> 2) @@ (k4 :> 4)

\* A compact view of a state for reading traces: each directory in use up
\* to its global depth, the allocated bucket pages, and what lookups find.
TraceView ==
  [dirs |-> [p \in DirPages |->
               LET d == ht.dir[p] IN
               [gd |-> d.gd,
                slots |-> [i \in 0..2^d.gd - 1 |-> <<d.bucket[i], d.ld[i]>>]]],
   pages |-> [p \in 1..ht.next - 1 |-> ht.bkt[p]],
   found |-> Contents(ht), pc |-> pc, arg |-> arg, ret |-> ret]

=============================================================================
