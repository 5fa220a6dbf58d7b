-------------------------------- MODULE TopN --------------------------------
(***************************************************************************)
(* The TopN executor (src/.../execution/topn_executor.cpp).               *)
(*                                                                         *)
(* Init drains the child into a std::priority_queue bounded to N entries  *)
(* and then pops the queue into tuples_; Next walks tuples_ backwards.    *)
(* The queue is modelled by the algorithms the build runs: a vector with  *)
(* libstdc++'s push_heap / pop_heap (__push_heap, __adjust_heap), so the  *)
(* order the code really produces is what is checked, also when its       *)
(* comparator is no strict weak order.                                    *)
(*                                                                         *)
(* A tuple is a record of column values; Null is SQL NULL.  An order-by   *)
(* entry is [type |-> "ASC" | "DESC" | "DEFAULT", col |-> column name].   *)
(***************************************************************************)
EXTENDS Integers, Sequences

LOCAL SX == INSTANCE SequencesExt

CONSTANT Null

\* Value::CompareLessThan(...) == CmpTrue: false when either side is NULL
\* (the comparison is CmpNull).
CmpLess(a, b) == a # Null /\ b # Null /\ a < b

\* The compare lambda of TopNExecutor::Init: the first order-by column on
\* which the two tuples differ decides; tuples equal on all of them give
\* true.  pq's top is a greatest tuple under this "less".
RECURSIVE Compare(_, _, _)
Compare(t1, t2, orderBy) ==
  IF orderBy = <<>> THEN TRUE
  ELSE LET o == Head(orderBy)
       IN  IF CmpLess(t1[o.col], t2[o.col]) THEN o.type # "DESC"
           ELSE IF CmpLess(t2[o.col], t1[o.col]) THEN o.type = "DESC"
           ELSE Compare(t1, t2, Tail(orderBy))

\* The heap is a sequence; At/Put index it from 0 as the C++ vector is.
At(c, i)     == c[i + 1]
Set(c, i, v) == [c EXCEPT ![i + 1] = v]

\* __push_heap(first, hole, top, value): move the hole up past every parent
\* that compares less than value, then store value in it.
RECURSIVE PushUp(_, _, _, _, _)
PushUp(c, hole, top, v, ob) ==
  LET parent == (hole - 1) \div 2
  IN  IF hole > top /\ Compare(At(c, parent), v, ob)
        THEN PushUp(Set(c, hole, At(c, parent)), parent, top, v, ob)
        ELSE Set(c, hole, v)

\* priority_queue::push: push_back, then push_heap.
PqPush(c, v, ob) == PushUp(Append(c, v), Len(c), 0, v, ob)

\* The first loop of __adjust_heap: the hole moves down to the larger child
\* (the right one unless it compares less than the left one) while it has
\* two children.  Returns <<heap, hole, secondChild>>.
RECURSIVE SiftDown(_, _, _, _, _)
SiftDown(c, hole, second, len, ob) ==
  IF second < (len - 1) \div 2
    THEN LET s0 == 2 * (second + 1)
             s  == IF Compare(At(c, s0), At(c, s0 - 1), ob) THEN s0 - 1 ELSE s0
         IN  SiftDown(Set(c, hole, At(c, s)), s, s, len, ob)
    ELSE <<c, hole, second>>

\* __adjust_heap(first, hole, len, value): sift down, take a lone left
\* child at the bottom of an even-length heap, then __push_heap.
AdjustHeap(c, hole, len, v, ob) ==
  LET d      == SiftDown(c, hole, hole, len, ob)
      lone   == len % 2 = 0 /\ d[3] = (len - 2) \div 2
      s      == 2 * (d[3] + 1)
      c2     == IF lone THEN Set(d[1], d[2], At(d[1], s - 1)) ELSE d[1]
      hole2  == IF lone THEN s - 1 ELSE d[2]
  IN  PushUp(c2, hole2, hole, v, ob)

\* Variant: the pop drops the last element instead of the top.
PqPopBack(c, ob) == SubSeq(c, 1, Len(c) - 1)

\* priority_queue::pop: pop_heap (if more than one element: the last
\* element is moved out, the top put in its place and the last value
\* re-inserted from the root), then pop_back.
PqPop(c, ob) ==
  IF Len(c) > 1
    THEN LET last == Len(c) - 1
         IN  SubSeq(AdjustHeap(Set(c, last, At(c, 0)), 0, last, At(c, last), ob),
                    1, last)
    ELSE <<>>

\* while (child Next) { pq.emplace(tuple); if (pq.size() > N) pq.pop(); }
PqFill(rows, n, ob) ==
  SX!FoldLeft(LAMBDA c, r : LET c1 == PqPush(c, r, ob)
                            IN  IF Len(c1) > n THEN PqPop(c1, ob) ELSE c1,
              <<>>, rows)

\* while (!pq.empty()) { tuples_.emplace_back(pq.top()); pq.pop(); }
RECURSIVE Drain(_, _)
Drain(c, ob) == IF c = <<>> THEN <<>> ELSE <<At(c, 0)>> \o Drain(PqPop(c, ob), ob)

\* The tuples Next returns, in order: tuples_ from rbegin() to rend().
TopNOutput(rows, n, ob) == SX!Reverse(Drain(PqFill(rows, n, ob), ob))

=============================================================================
