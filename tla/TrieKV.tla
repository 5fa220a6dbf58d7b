------------------------------- MODULE TrieKV -------------------------------
(***************************************************************************)
(* What the trie store promises (spec 4.5, 5): a map from keys to typed    *)
(* values in which every put, remove and get takes effect at one instant, *)
(* writes in one total order, a get seeing the map of that instant.        *)
(***************************************************************************)
CONSTANTS Keys, Values, ValueType, Types, Threads, NoValue, NoResult

VARIABLES kv, ret

KVInit ==
  /\ kv = [k \in Keys |-> NoValue]
  /\ ret = [t \in Threads |-> NoResult]

\* put<T> replaces the value whatever its type.
StorePut(k, v) ==
  /\ kv' = [kv EXCEPT ![k] = v]
  /\ UNCHANGED ret

StoreRemove(k) ==
  /\ kv' = [kv EXCEPT ![k] = NoValue]
  /\ UNCHANGED ret

\* get<T> finds nothing when the value has another type.
StoreGet(t, k, T) ==
  /\ ret' = [ret EXCEPT ![t] = IF kv[k] # NoValue /\ ValueType[kv[k]] = T
                                 THEN kv[k] ELSE NoValue]
  /\ UNCHANGED kv

KVNext ==
  \E k \in Keys :
    \/ \E v \in Values : StorePut(k, v)
    \/ StoreRemove(k)
    \/ \E t \in Threads, T \in Types : StoreGet(t, k, T)

KVSpec == KVInit /\ [][KVNext]_<<kv, ret>>

=============================================================================
