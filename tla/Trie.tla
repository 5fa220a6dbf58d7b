-------------------------------- MODULE Trie --------------------------------
(***************************************************************************)
(* The copy-on-write trie of BusTub (src/.../primer/trie.cpp, trie.h in    *)
(* src/unnamed/part_003).                                                  *)
(*                                                                         *)
(* A trie is immutable: Put and Remove return a new root and never change  *)
(* a node reachable from the old one, so a TLA+ value is a faithful        *)
(* picture of a node: a record with its children map (char -> node) and    *)
(* its value (NoValue for a plain TrieNode, is_value_node_ = false).      *)
(* Null stands for an empty shared_ptr (root_ of an empty trie).          *)
(* Keys are sequences of characters; NulChar is the character '\0'.        *)
(***************************************************************************)
EXTENDS Integers, Sequences, TLC

CONSTANTS
  Chars,       \* the characters keys are made of
  NulChar,     \* '\0', which Put also uses for "the key is empty"
  Values,      \* values stored in the trie
  ValueType,   \* the C++ type T each value was put with
  NoValue,     \* no value: a plain TrieNode, or Get returning nullptr
  Null         \* an empty std::shared_ptr<const TrieNode>

\* TrieNode(children) and TrieNodeWithValue<T>(children, value).
PlainNode(ch)    == [ch |-> ch, val |-> NoValue]
ValueNode(v, ch) == [ch |-> ch, val |-> v]
NoChildren       == [c \in {} |-> Null]

IsValueNode(n) == n.val # NoValue

\* children_[c] = m, and children_.erase(c).
SetChild(n, c, m) == [n EXCEPT !.ch = (c :> m) @@ n.ch]
EraseChild(n, c)  == [n EXCEPT !.ch = [x \in DOMAIN n.ch \ {c} |-> n.ch[x]]]

\* The node reached from n along key, or Null once a character is missing.
RECURSIVE Walk(_, _)
Walk(n, key) ==
  IF n = Null \/ key = <<>> THEN n
  ELSE IF Head(key) \in DOMAIN n.ch THEN Walk(n.ch[Head(key)], Tail(key))
  ELSE Null

\* Get<T>: nullptr when the key's node is missing, is a plain node, or holds
\* a value of another type (the dynamic_cast to TrieNodeWithValue<T> fails).
Get(root, key, T) ==
  LET n == Walk(root, key)
  IN  IF n # Null /\ IsValueNode(n) /\ ValueType[n.val] = T THEN n.val
      ELSE NoValue

\* The loop of Put over key_head and its last step: every node on the path
\* is a clone of the old one (or a new TrieNode past the end of the old
\* path), and the node at key_back becomes a TrieNodeWithValue keeping the
\* children of the node it replaces (CreateNodeWithValueAndCopyChild).
RECURSIVE PutPath(_, _, _, _)

\* Variant: the new value node does not copy the children of the node it
\* replaces.
PutPathDropChildren(old, path, kb, v) ==
  LET cur == IF old = Null THEN PlainNode(NoChildren) ELSE old
      Next(c) == IF old # Null /\ c \in DOMAIN old.ch THEN old.ch[c] ELSE Null
  IN  IF path = <<>> THEN SetChild(cur, kb, ValueNode(v, NoChildren))
      ELSE SetChild(cur, Head(path), PutPath(Next(Head(path)), Tail(path), kb, v))

PutPath(old, path, kb, v) ==
  LET cur == IF old = Null THEN PlainNode(NoChildren) ELSE old
      Next(c) == IF old # Null /\ c \in DOMAIN old.ch THEN old.ch[c] ELSE Null
  IN  IF path = <<>>
        THEN SetChild(cur, kb,
                      ValueNode(v, IF Next(kb) = Null THEN NoChildren ELSE Next(kb).ch))
        ELSE SetChild(cur, Head(path), PutPath(Next(Head(path)), Tail(path), kb, v))

\* Put: key_back is '\0' for the empty key and for a key ending in '\0'; in
\* both cases the new root is a value node with the children of the old
\* node at key_head.
Put(root, key, v) ==
  LET keyHead == SubSeq(key, 1, Len(key) - 1)
      keyBack == IF key = <<>> THEN NulChar ELSE key[Len(key)]
      old     == Walk(root, keyHead)
  IN  IF keyBack = NulChar
        THEN ValueNode(v, IF old = Null THEN NoChildren ELSE old.ch)
        ELSE PutPath(root, keyHead, keyBack, v)

\* Remove below n, whose key node is a value node.  The key node becomes a
\* plain TrieNode if it has children, otherwise it is erased and each parent
\* that is left plain and childless is erased in turn (the father_nodes
\* loop, which reaches the root through the head entry).  Null: erased.
RECURSIVE RemoveAt(_, _)

\* Variant: no parent is pruned after the key node is erased.
RemoveAtNoPrune(n, key) ==
  IF key = <<>>
    THEN IF n.ch # NoChildren THEN PlainNode(n.ch) ELSE Null
    ELSE LET child == RemoveAt(n.ch[Head(key)], Tail(key))
         IN  IF child # Null THEN SetChild(n, Head(key), child)
             ELSE EraseChild(n, Head(key))

RemoveAt(n, key) ==
  IF key = <<>>
    THEN IF n.ch # NoChildren THEN PlainNode(n.ch) ELSE Null
    ELSE LET child == RemoveAt(n.ch[Head(key)], Tail(key))
             m     == EraseChild(n, Head(key))
         IN  IF child # Null THEN SetChild(n, Head(key), child)
             ELSE IF ~IsValueNode(m) /\ m.ch = NoChildren THEN Null
             ELSE m

\* Remove returns the trie unchanged when it is empty, a character of the
\* key is missing, or the key's node holds no value.
Remove(root, key) ==
  LET n == Walk(root, key)
  IN  IF root = Null \/ n = Null \/ ~IsValueNode(n) THEN root
      ELSE RemoveAt(root, key)

=============================================================================
