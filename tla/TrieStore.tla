------------------------------ MODULE TrieStore ------------------------------
(***************************************************************************)
(* The concurrent store over the trie (src/.../primer/trie_store.cpp,      *)
(* trie_store.h in src/unnamed/part_003).                                  *)
(*                                                                         *)
(* root_ is read and written only under root_lock_, so each of those      *)
(* blocks is one atomic step.  Put and Remove hold write_lock_ for the    *)
(* whole call: they copy root_ (one step), then build the new trie from    *)
(* the copy outside root_lock_ and publish it (one step; the building is  *)
(* local to the thread).  Get copies root_ (one step) and then walks its   *)
(* own copy; the ValueGuard it returns keeps that copy, which no later    *)
(* write can change (Trie values are immutable, see Trie.tla).            *)
(***************************************************************************)
EXTENDS Trie

CONSTANTS
  Keys,       \* the keys callers pass
  Types,      \* the value types T of get<T>
  Threads,    \* the threads calling the store
  NoThread,   \* write_lock_ is free
  NoResult    \* a thread's result before its first Get

VARIABLES
  root,    \* root_
  wlock,   \* the thread holding write_lock_, or NoThread
  pc,      \* where each thread is in its call
  op,      \* the call a thread is in: kind, key, value or type
  snap,    \* each thread's local copy of root_ (Null outside a call)
  ret      \* the value each thread's last Get returned

vars == <<root, wlock, pc, op, snap, ret>>

Calls ==
  [kind : {"put"}, key : Keys, val : Values] \cup
  [kind : {"remove"}, key : Keys] \cup
  [kind : {"get"}, key : Keys, type : Types]

Init ==
  /\ root = Null
  /\ wlock = NoThread
  /\ pc = [t \in Threads |-> "idle"]
  /\ op = [t \in Threads |-> NoResult]
  /\ snap = [t \in Threads |-> Null]
  /\ ret = [t \in Threads |-> NoResult]

\* Get: { scoped_lock(root_lock_); root = root_; }
GetSnapshot(t, k, T) ==
  /\ pc[t] = "idle"
  /\ snap' = [snap EXCEPT ![t] = root]
  /\ op' = [op EXCEPT ![t] = [kind |-> "get", key |-> k, type |-> T]]
  /\ pc' = [pc EXCEPT ![t] = "get"]
  /\ UNCHANGED <<root, wlock, ret>>

\* Get: root.Get<T>(key) on the copy, and the ValueGuard or nullopt.
GetReturn(t) ==
  /\ pc[t] = "get"
  /\ ret' = [ret EXCEPT ![t] = Get(snap[t], op[t].key, op[t].type)]
  /\ pc' = [pc EXCEPT ![t] = "idle"]
  /\ snap' = [snap EXCEPT ![t] = Null]
  /\ op' = [op EXCEPT ![t] = NoResult]
  /\ UNCHANGED <<root, wlock>>

\* Variant: the writer does not wait for write_lock_.
WriteLockNoExclusion(t, c) ==
  /\ pc[t] = "idle"
  /\ wlock' = t
  /\ op' = [op EXCEPT ![t] = c]
  /\ pc' = [pc EXCEPT ![t] = "copy"]
  /\ UNCHANGED <<root, snap, ret>>

\* Put / Remove: unique_lock(write_lock_) blocks while another writer
\* holds it.
WriteLock(t, c) ==
  /\ pc[t] = "idle"
  /\ wlock = NoThread
  /\ wlock' = t
  /\ op' = [op EXCEPT ![t] = c]
  /\ pc' = [pc EXCEPT ![t] = "copy"]
  /\ UNCHANGED <<root, snap, ret>>

\* { scoped_lock(root_lock_); root_ptr = make_unique<Trie>(root_); }
WriteSnapshot(t) ==
  /\ pc[t] = "copy"
  /\ snap' = [snap EXCEPT ![t] = root]
  /\ pc' = [pc EXCEPT ![t] = "publish"]
  /\ UNCHANGED <<root, wlock, op, ret>>

\* The new trie from the copy, Put or Remove.
Apply(r, c) == IF c.kind = "put" THEN Put(r, c.key, c.val) ELSE Remove(r, c.key)

\* new_root = root_ptr->Put/Remove(...); { scoped_lock(root_lock_);
\* root_ = new_root; } and write_lock_ released on return.
WritePublish(t) ==
  /\ pc[t] = "publish"
  /\ root' = Apply(snap[t], op[t])
  /\ wlock' = NoThread
  /\ pc' = [pc EXCEPT ![t] = "idle"]
  /\ snap' = [snap EXCEPT ![t] = Null]
  /\ op' = [op EXCEPT ![t] = NoResult]
  /\ UNCHANGED ret

Next ==
  \E t \in Threads :
    \/ \E k \in Keys, T \in Types : GetSnapshot(t, k, T)
    \/ GetReturn(t)
    \/ \E c \in Calls : c.kind # "get" /\ WriteLock(t, c)
    \/ WriteSnapshot(t)
    \/ WritePublish(t)

Spec == Init /\ [][Next]_vars

-----------------------------------------------------------------------------

\* The map a trie holds.
Contents(r) ==
  [k \in Keys |-> IF Walk(r, k) = Null THEN NoValue ELSE Walk(r, k).val]

\* A Get takes effect when it copies root_: from then on its answer is
\* fixed, whatever writers publish before it returns.
RetView ==
  [t \in Threads |-> IF pc[t] = "get"
                       THEN Get(snap[t], op[t].key, op[t].type)
                       ELSE ret[t]]

KV == INSTANCE TrieKV WITH kv <- Contents(root), ret <- RetView

\* The store is linearizable (spec 5): each Put and Remove takes effect
\* when it publishes root_, applied to the map of that instant (write_lock_
\* keeps its copy of root_ current), and each Get answers from the map at
\* the instant it copied root_, even if a writer publishes before it walks.
ImplementsTrieKV == KV!KVSpec

=============================================================================
