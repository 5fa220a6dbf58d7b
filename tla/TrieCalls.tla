------------------------------ MODULE TrieCalls ------------------------------
(***************************************************************************)
(* A caller of the trie: one trie handle `root`, replaced by the result of *)
(* each Put or Remove (trie.cpp), and the map `ref` that spec 4.4 says the *)
(* trie stands for, updated by the same call.                              *)
(***************************************************************************)
EXTENDS Trie

CONSTANTS
  Keys,    \* the keys a caller passes, sequences over Chars
  Types    \* the value types T a caller asks Get<T> for

VARIABLES root, ref, last   \* last: the key of the latest call

vars == <<root, ref, last>>

\* A node and its descendants, as the set of keys leading to them.
NodeKeys == {k \in Keys : Walk(root, k) # Null}

Init ==
  /\ root = Null
  /\ ref = [k \in Keys |-> NoValue]
  /\ last = Null

\* root = root.Put<T>(key, value); put<T> replaces whatever the key held.
CallPut(k, v) ==
  /\ root' = Put(root, k, v)
  /\ ref' = [ref EXCEPT ![k] = v]
  /\ last' = k

\* root = root.Remove(key).
CallRemove(k) ==
  /\ root' = Remove(root, k)
  /\ ref' = [ref EXCEPT ![k] = NoValue]
  /\ last' = k

Next ==
  \E k \in Keys :
    \/ \E v \in Values : CallPut(k, v)
    \/ CallRemove(k)

Spec == Init /\ [][Next]_vars

-----------------------------------------------------------------------------

TypeOK ==
  /\ ref \in [Keys -> Values \cup {NoValue}]
  /\ root = Null \/ DOMAIN root = {"ch", "val"}
  /\ last \in Keys \cup {Null}

\* Get<T> answers for every key and type what the map holds: the value put
\* last if it has type T, nothing after a Remove or for another T (spec 4.4,
\* 8: T.put(k,v).get(k) = v, T.put(k,v).remove(k).get(k) = None).
TrieMatchesMap ==
  \A k \in Keys, T \in Types :
    Get(root, k, T) = IF ref[k] # NoValue /\ ValueType[ref[k]] = T
                        THEN ref[k] ELSE NoValue

\* Every node reachable from the root holds a value or has a child (spec
\* 4.4): Put never leaves an empty node behind, and Remove prunes every
\* ancestor it leaves plain and childless, the root included.
NoUselessNodes ==
  \A k \in NodeKeys :
    LET n == Walk(root, k) IN IsValueNode(n) \/ n.ch # NoChildren

=============================================================================
