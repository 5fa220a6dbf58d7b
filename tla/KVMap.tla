------------------------------- MODULE KVMap -------------------------------
(***************************************************************************)
(* What an index promises its callers (spec 4.6, 7): a map from keys to   *)
(* values with unique keys.  Each call is one atomic step of a thread and *)
(* leaves its result in ret[t].  An insert of an absent key may be        *)
(* refused (a full index), but a refused insert changes nothing.           *)
(***************************************************************************)
CONSTANTS Keys, Values, Threads, NoValue, NoResult

VARIABLES kv, ret

Results == BOOLEAN \cup Values \cup {NoValue, NoResult}

KVInit ==
  /\ kv = [k \in Keys |-> NoValue]
  /\ ret = [t \in Threads |-> NoResult]

\* An insert of an absent key that succeeds.
Put(t, k, v) ==
  /\ kv[k] = NoValue
  /\ kv' = [kv EXCEPT ![k] = v]
  /\ ret' = [ret EXCEPT ![t] = TRUE]

\* An insert that returns false: a duplicate, or no room for a new key.
Refuse(t) ==
  /\ ret' = [ret EXCEPT ![t] = FALSE]
  /\ UNCHANGED kv

Delete(t, k) ==
  /\ kv[k] # NoValue
  /\ kv' = [kv EXCEPT ![k] = NoValue]
  /\ ret' = [ret EXCEPT ![t] = TRUE]

DeleteAbsent(t, k) ==
  /\ kv[k] = NoValue
  /\ ret' = [ret EXCEPT ![t] = FALSE]
  /\ UNCHANGED kv

Get(t, k) ==
  /\ ret' = [ret EXCEPT ![t] = kv[k]]
  /\ UNCHANGED kv

KVNext ==
  \E t \in Threads, k \in Keys :
    \/ \E v \in Values : Put(t, k, v)
    \/ Refuse(t)
    \/ Delete(t, k)
    \/ DeleteAbsent(t, k)
    \/ Get(t, k)

KVSpec == KVInit /\ [][KVNext]_<<kv, ret>>

=============================================================================
