------------------------------ MODULE Executors ------------------------------
(***************************************************************************)
(* The executors of one table with one index on column k                  *)
(* (src/.../execution/*_executor.cpp, src/unnamed/part_000..part_002).    *)
(*                                                                         *)
(* A statement runs to completion in one step: its executor tree is a     *)
(* Volcano pipeline pulled by one thread, so no other statement runs      *)
(* between its Next calls.  What the model keeps is the order inside the  *)
(* pipeline: SeqScan snapshots the rids at Init and reads each row only    *)
(* when Next reaches it, after the DML executor above it has changed the  *)
(* rows before it.  A row is [tup |-> [k, n], deleted |-> TupleMeta's     *)
(* is_deleted_]; the rid of heap[r] is r.  The index is the set of its    *)
(* <<key, rid>> entries.  Queries (TopN, Aggregation) read the table      *)
(* through a SeqScan without filter and are checked as invariants.        *)
(***************************************************************************)
EXTENDS Integers, Sequences, FiniteSets, TopN

LOCAL SX == INSTANCE SequencesExt

CONSTANTS
  KeyVals,    \* values of column k (never NULL)
  NVals,      \* non-NULL values of column n
  MaxRows,    \* bound on the rows the heap holds, deleted ones included
  NoFilter,   \* a SeqScan without filter_predicate_
  NoStatement,\* before the first statement
  AggTypes,   \* the aggregate types of the aggregation queries, all over n
  GroupBys,   \* the group-by lists (sequences of columns) queries use
  OrderBys,   \* the order-by lists ([type, col] sequences) queries use
  UB          \* a run of the code with undefined behaviour

VARIABLES
  heap,    \* the TableHeap: rid -> [tup, deleted]
  index,   \* the index on k: a set of <<key, rid>>
  count,   \* the count the last DML statement returned
  last     \* the last statement run

vars == <<heap, index, count, last>>

Tuples == [k : KeyVals, n : NVals \cup {Null}]

\* Filters pushed into SeqScan: k = c.  Update target lists: SET col = c.
Preds == {NoFilter} \cup [col : {"k"}, val : KeyVals]
Sets  == [col : {"k"}, val : KeyVals] \cup [col : {"n"}, val : NVals \cup {Null}]

\* filter_predicate_->Evaluate(...).GetAs<bool>(): NULL = c is not true.
Holds(p, t) == p = NoFilter \/ t[p.col] = p.val

\* Variant: the scan does not skip deleted rows.
EmitsDeleted(e, p) == Holds(p, e.tup)

\* SeqScanExecutor::Next returns the row at a snapshot rid unless it is
\* deleted or the filter rejects it.
Emits(e, p) == ~e.deleted /\ Holds(p, e.tup)

\* Variant: the index entry takes the rid before the new tuple's slot.
InsertRowRidBeforeAppend(s, t) ==
  [s EXCEPT !.heap  = Append(@, [tup |-> t, deleted |-> FALSE]),
            !.index = @ \cup {<<t.k, Len(s.heap)>>}]

\* TableHeap::InsertTuple (a fresh rid at the end) and, for the index,
\* InsertEntry(KeyFromTuple(t), rid).
InsertRow(s, t) ==
  [s EXCEPT !.heap  = Append(@, [tup |-> t, deleted |-> FALSE]),
            !.index = @ \cup {<<t.k, Len(s.heap) + 1>>}]

\* DeleteExecutor, per child row: UpdateTupleMeta(deleted) and
\* DeleteEntry(old_key, child_rid).
DeleteRow(s, rid) ==
  [s EXCEPT !.heap[rid].deleted = TRUE,
            !.index = @ \ {<<s.heap[rid].tup.k, rid>>}]

\* Variant: the index entry removed is the new key's, not the old one's.
UpdateRowDeleteNewKey(s, rid, set) ==
  LET t   == s.heap[rid].tup
      new == [t EXCEPT ![set.col] = set.val]
  IN  [s EXCEPT !.heap  = Append([s.heap EXCEPT ![rid].deleted = TRUE],
                                 [tup |-> new, deleted |-> FALSE]),
                !.index = (@ \ {<<new.k, rid>>}) \cup {<<new.k, Len(s.heap) + 1>>}]

\* UpdateExecutor, per child row: mark it deleted, build the new tuple from
\* the target expressions, InsertTuple it at a fresh rid, then
\* DeleteEntry(old_key, child_rid) and InsertEntry(new_key, new_rid).
UpdateRow(s, rid, set) ==
  LET t   == s.heap[rid].tup
      new == [t EXCEPT ![set.col] = set.val]
  IN  [s EXCEPT !.heap  = Append([s.heap EXCEPT ![rid].deleted = TRUE],
                                 [tup |-> new, deleted |-> FALSE]),
                !.index = (@ \ {<<t.k, rid>>}) \cup {<<new.k, Len(s.heap) + 1>>}]

\* The body of the DML loop for one child row: count++ and the row's change.
DmlRow(s, rid, st) ==
  LET s1 == [s EXCEPT !.count = @ + 1]
  IN  CASE st.kind = "insert" -> InsertRow(s1, s.heap[rid].tup)
        [] st.kind = "delete" -> DeleteRow(s1, rid)
        [] st.kind = "update" -> UpdateRow(s1, rid, st.set)

\* while (child_executor_->Next(...)) { ... } over a SeqScan of this table:
\* rids 1..end were snapshot at Init, each is read when the loop gets to it.
RECURSIVE DmlLoop(_, _, _, _)
DmlLoop(s, rid, end, st) ==
  IF rid > end THEN s
  ELSE DmlLoop(IF Emits(s.heap[rid], st.pred) THEN DmlRow(s, rid, st) ELSE s,
               rid + 1, end, st)

\* Live rows, in rid order, and those of them a filter keeps or rejects.
Live(h)         == LET r == SelectSeq(h, LAMBDA e : ~e.deleted)
                   IN  [i \in DOMAIN r |-> r[i].tup]
Matched(h, p)   == SelectSeq(Live(h), LAMBDA t : Holds(p, t))
Unmatched(h, p) == SelectSeq(Live(h), LAMBDA t : ~Holds(p, t))

\* Run a statement whose child is a SeqScan of the table: Init snapshots
\* the rids, Next runs the loop, the count is the one result tuple.  The
\* statement runs only if the rows it adds stay within MaxRows.
RunScanned(st, grows) ==
  LET s == DmlLoop([heap |-> heap, index |-> index, count |-> 0], 1, Len(heap), st)
  IN  /\ grows => Len(heap) + Len(Matched(heap, st.pred)) <= MaxRows
      /\ heap' = s.heap
      /\ index' = s.index
      /\ count' = s.count
      /\ last' = st

Init ==
  /\ heap = <<>>
  /\ index = {}
  /\ count = 0
  /\ last = NoStatement

\* INSERT INTO t VALUES (t): the child is a Values executor of one row.
InsertValues(t) ==
  /\ Len(heap) < MaxRows
  /\ LET s == InsertRow([heap |-> heap, index |-> index], t)
     IN  /\ heap' = s.heap
         /\ index' = s.index
  /\ count' = 1
  /\ last' = [kind |-> "values", tup |-> t]

\* INSERT INTO t SELECT * FROM t WHERE p.
InsertSelect(p) == RunScanned([kind |-> "insert", pred |-> p], TRUE)

\* DELETE FROM t WHERE p.
Delete(p) == RunScanned([kind |-> "delete", pred |-> p], FALSE)

\* UPDATE t SET set WHERE p.
Update(p, set) == RunScanned([kind |-> "update", pred |-> p, set |-> set], TRUE)

Next ==
  \/ \E t \in Tuples : InsertValues(t)
  \/ \E p \in Preds : InsertSelect(p) \/ Delete(p)
  \/ \E p \in Preds, set \in Sets : Update(p, set)

Spec == Init /\ [][Next]_vars

-----------------------------------------------------------------------------
(* Aggregation (aggregation_executor.cpp, SimpleAggregationHashTable in    *)
(* aggregation_executor.h, AggregateKey in src/unnamed/part_004).  The     *)
(* hash table is a sequence of <<key, aggregates>> entries; its iteration  *)
(* order does not matter, the output is compared as a set of rows.        *)

\* GenerateInitialAggregateValue: COUNT(*) starts at 0, the others at NULL.
GenerateInitialAggregateValue ==
  [i \in DOMAIN AggTypes |-> IF AggTypes[i] = "COUNT_STAR" THEN 0 ELSE Null]

\* old_val = (old_val NULL ? 0 : old_val) + 1.
Inc(old) == IF old = Null THEN 1 ELSE old + 1

\* Variant: COUNT counts NULL inputs as well.
CombineValueCountNulls(type, old, new) ==
  IF type \in {"COUNT_STAR", "COUNT"} THEN Inc(old)
  ELSE IF new = Null THEN old
  ELSE IF old = Null THEN new
  ELSE IF type = "SUM" THEN old + new
  ELSE IF type = "MIN" THEN IF CmpLess(new, old) THEN new ELSE old
  ELSE IF CmpLess(old, new) THEN new ELSE old

\* One case of the switch in CombineAggregateValues.
CombineValue(type, old, new) ==
  IF type = "COUNT_STAR" THEN Inc(old)
  ELSE IF new = Null THEN old
  ELSE IF type = "COUNT" THEN Inc(old)
  ELSE IF old = Null THEN new
  ELSE IF type = "SUM" THEN old + new
  ELSE IF type = "MIN" THEN IF CmpLess(new, old) THEN new ELSE old
  ELSE IF CmpLess(old, new) THEN new ELSE old

\* CombineAggregateValues indexes result->aggregates_[i] for every
\* aggregate: on an empty vector that is out of bounds.
CombineAggregateValues(result, input) ==
  IF Len(result) < Len(AggTypes) THEN UB
  ELSE [i \in DOMAIN AggTypes |-> CombineValue(AggTypes[i], result[i], input[i])]

\* AggregateKey::operator==: CompareEquals is CmpTrue on every group-by
\* value, which it is not when either value is NULL.
KeyEq(k1, k2) == \A i \in DOMAIN k2 : k1[i] # Null /\ k1[i] = k2[i]

\* The entries of ht whose key is == key.
Find(ht, key) == {i \in DOMAIN ht : KeyEq(ht[i][1], key)}

\* InsertCombine: if ht_.count(key) == 0 insert (key, initial); then
\* CombineAggregateValues(&ht_[key], val), where operator[] inserts a
\* default-constructed AggregateValue (no aggregates) when no key is ==.
InsertCombine(ht, key, val) ==
  LET ht1 == IF Find(ht, key) = {}
               THEN Append(ht, <<key, GenerateInitialAggregateValue>>) ELSE ht
      ht2 == IF Find(ht1, key) = {} THEN Append(ht1, <<key, <<>>>>) ELSE ht1
      i   == IF Find(ht1, key) = {} THEN Len(ht2)
             ELSE CHOOSE j \in Find(ht1, key) : TRUE
      res == CombineAggregateValues(ht2[i][2], val)
  IN  IF res = UB THEN UB ELSE [ht2 EXCEPT ![i][2] = res]

\* MakeAggregateKey / MakeAggregateValue of a child tuple.
MakeAggregateKey(t, gb) == [i \in DOMAIN gb |-> t[gb[i]]]
MakeAggregateValue(t)   == [i \in DOMAIN AggTypes |-> t.n]

\* AggregationExecutor::Init: InsertCombine for every child row.
AggregationInit(rows, gb) ==
  SX!FoldLeft(LAMBDA ht, t : IF ht = UB THEN UB
                             ELSE InsertCombine(ht, MakeAggregateKey(t, gb),
                                                MakeAggregateValue(t)),
              <<>>, rows)

\* AggregationExecutor::Next: a row (group-bys, then aggregates) per entry;
\* on an empty table, one row of initial values if there is no group-by.
AggregationOutput(rows, gb) ==
  LET ht == AggregationInit(rows, gb)
  IN  IF ht = UB THEN UB
      ELSE IF ht # <<>> THEN {ht[i][1] \o ht[i][2] : i \in DOMAIN ht}
      ELSE IF gb = <<>> THEN {GenerateInitialAggregateValue}
      ELSE {}

-----------------------------------------------------------------------------
(* Properties.  Queries read the table through a SeqScan without filter:  *)
(* its rows are Live(heap), in rid order.                                  *)

TypeOK ==
  /\ \A r \in DOMAIN heap : heap[r] \in [tup : Tuples, deleted : BOOLEAN]
  /\ Len(heap) <= MaxRows
  /\ index \subseteq KeyVals \X DOMAIN heap
  /\ count \in 0..MaxRows

\* Every index holds exactly one entry <<k, rid>> per live row, and none
\* for a deleted row: Insert adds, Delete removes and Update moves the
\* entry in step with the table, whatever statements ran before (spec 4.7).
IndexMatchesTable ==
  index = {<<heap[r].tup.k, r>> : r \in {r \in DOMAIN heap : ~heap[r].deleted}}

\* A statement acts on the rows the table held when it started, once each,
\* and returns their number: INSERT ... SELECT adds a copy of each matching
\* row, DELETE removes them, UPDATE replaces each by its updated copy at
\* the end, even though the scan feeding the statement reads rows that the
\* statement itself has just inserted or marked deleted (spec 4.7).
StatementMatchesSnapshot ==
  [][last'.kind = "values"
     \/ LET m   == Matched(heap, last'.pred)
            upd == [i \in DOMAIN m |-> [m[i] EXCEPT ![last'.set.col] = last'.set.val]]
        IN  /\ count' = Len(m)
            /\ Live(heap') = CASE last'.kind = "insert" -> Live(heap) \o m
                               [] last'.kind = "delete" -> Unmatched(heap, last'.pred)
                               [] last'.kind = "update" -> Unmatched(heap, last'.pred) \o upd]_vars

\* t1 sorts strictly before t2 under an order-by list: the first column on
\* which they compare less or greater decides; NULL decides nothing.
RECURSIVE Before(_, _, _)
Before(t1, t2, ob) ==
  IF ob = <<>> THEN FALSE
  ELSE LET o == Head(ob)
           lt == IF o.type = "DESC" THEN CmpLess(t2[o.col], t1[o.col])
                 ELSE CmpLess(t1[o.col], t2[o.col])
           gt == IF o.type = "DESC" THEN CmpLess(t1[o.col], t2[o.col])
                 ELSE CmpLess(t2[o.col], t1[o.col])
       IN  lt \/ (~gt /\ Before(t1, t2, Tail(ob)))

Occurs(s, t) == Cardinality({i \in DOMAIN s : s[i] = t})

\* out is a correct answer to top-N of rows under ob: min(N, rows) of the
\* rows, sorted, and no row left out sorts strictly before a returned one.
IsTopN(out, rows, n, ob) ==
  /\ Len(out) = IF n < Len(rows) THEN n ELSE Len(rows)
  /\ \A i, j \in DOMAIN out : i < j => ~Before(out[j], out[i], ob)
  /\ \A t \in SX!Range(rows) :
       /\ Occurs(out, t) <= Occurs(rows, t)
       /\ Occurs(out, t) < Occurs(rows, t) =>
            \A o \in SX!Range(out) : ~Before(t, o, ob)

\* TopN(N, order-by) over the table returns min(N, rows) of its rows, in
\* order (no row comes after a row it sorts strictly before), and leaves
\* out no row that sorts strictly before one it returns (spec 4.7, 8
\* scenario 5), for every N up to the table's size.
TopNSorted ==
  \A n \in 0..MaxRows, ob \in OrderBys :
    IsTopN(TopNOutput(Live(heap), n, ob), Live(heap), n, ob)

\* An aggregate over the rows of one group, by SQL's definition.
RefAggregate(type, g) ==
  LET vs == {i \in DOMAIN g : g[i].n # Null}
  IN  IF type = "COUNT_STAR" THEN Len(g)
      ELSE IF vs = {} THEN Null
      ELSE CASE type = "COUNT" -> Cardinality(vs)
             [] type = "SUM"   -> SX!FoldSet(LAMBDA i, acc : acc + g[i].n, 0, vs)
             [] type = "MIN"   -> SX!Min({g[i].n : i \in vs})
             [] type = "MAX"   -> SX!Max({g[i].n : i \in vs})

\* The aggregation returns one row per group of rows with equal group-by
\* values, NULLs forming one group as in SQL, holding the group-by values
\* and each aggregate over the group's rows; with no group-by, one row even
\* for an empty table (spec 4.7, 8 scenario 6 and boundary behaviours).
AggregationMatchesGroups ==
  LET rows == Live(heap)
  IN  \A gb \in GroupBys :
        LET keys  == IF gb = <<>> THEN {<<>>}
                     ELSE {MakeAggregateKey(t, gb) : t \in SX!Range(rows)}
            group(key) == SelectSeq(rows, LAMBDA t : MakeAggregateKey(t, gb) = key)
        IN  AggregationOutput(rows, gb) =
              {key \o [i \in DOMAIN AggTypes |-> RefAggregate(AggTypes[i], group(key))]
                 : key \in keys}

=============================================================================
