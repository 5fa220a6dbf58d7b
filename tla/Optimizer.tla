----------------------------- MODULE Optimizer -----------------------------
(***************************************************************************)
(* The three rewrite rules of src/optimizer/ (sort_limit_as_topn.cpp,      *)
(* which also holds the NLJ rule, and seqscan_as_indexscan.cpp) over plan  *)
(* trees, and the plans' answers over the table of module Executors.  A    *)
(* plan node is a record with its PlanType and its children_ sequence; an  *)
(* expression is a column reference (tuple index, column), a constant, a   *)
(* comparison or a logic node (three-valued, src/unnamed/part_004).  The   *)
(* Projection (part_002) and Aggregation executors run over the rows of    *)
(* the plans below them.  The executors the rules produce plans for        *)
(* (NestedLoopJoin, HashJoin, IndexScan, Sort, Limit) are not under src/:  *)
(* their answers are modelled from spec 4.7-4.8.                           *)
(***************************************************************************)
EXTENDS Executors, TLC

LOCAL SX == INSTANCE SequencesExt

CONSTANTS
  Queries,  \* plan trees handed to the optimizer
  NoKey,    \* the nullptr pred_key of an IndexScanPlanNode
  BadCast   \* the std::bad_cast a reference dynamic_cast throws

-----------------------------------------------------------------------------
(* Expressions and plan nodes.                                             *)

\* AbstractExpression: a node with its children_ (GetChildAt(i) is ch[i+1]).
ExprNode(e, cs) == [e |-> e, ch |-> cs]

Col(idx, c)      == [e |-> "col", idx |-> idx, col |-> c]
Const(v)         == [e |-> "const", val |-> v]
Cmp(op, a, b)    == ExprNode("cmp", <<a, b>>) @@ [op |-> op]
Logic(op, a, b)  == ExprNode("logic", <<a, b>>) @@ [op |-> op]

\* AbstractPlanNode: its PlanType and its children_.
PlanNode(type, cs) == [type |-> type, ch |-> cs]

SeqScanPlan(pred)      == PlanNode("SeqScan", <<>>) @@ [pred |-> pred]
IndexScanPlan(pred, k) == PlanNode("IndexScan", <<>>) @@ [pred |-> pred, key |-> k]
NLJPlan(l, r, pred)    == PlanNode("NestedLoopJoin", <<l, r>>) @@ [pred |-> pred]
HashJoinPlan(l, r, lk, rk) ==
  PlanNode("HashJoin", <<l, r>>) @@ [lkeys |-> lk, rkeys |-> rk]
SortPlan(ob, c)        == PlanNode("Sort", <<c>>) @@ [ob |-> ob]
LimitPlan(n, c)        == PlanNode("Limit", <<c>>) @@ [n |-> n]
TopNPlan(ob, n, c)     == PlanNode("TopN", <<c>>) @@ [ob |-> ob, n |-> n]
\* exprs: output column -> expression over the child's row.
ProjectionPlan(exprs, c)  == PlanNode("Projection", <<c>>) @@ [exprs |-> exprs]
\* One child; group_bys_ as a sequence of columns, aggregates_ all over n.
AggregationPlan(gb, c)    == PlanNode("Aggregation", <<c>>) @@ [gb |-> gb]

\* CloneWithChildren: the same node with children_ replaced.
CloneWithChildren(p, cs) == [p EXCEPT !.ch = cs]

\* A rewrite of a child that threw aborts the whole rewrite.
Throws(cs) == \E i \in DOMAIN cs : cs[i] = BadCast

\* The catalog's indexes on the table, by key attributes: one, on k.
TableIndexes == {<<"k">>}

-----------------------------------------------------------------------------
(* Sort+Limit -> TopN.  The TopN's child is children_[0] of the Limit,     *)
(* which is the Sort node itself.                                          *)

RECURSIVE OptimizeSortLimitAsTopN(_)
OptimizeSortLimitAsTopN(p) ==
  LET q == CloneWithChildren(p, [i \in DOMAIN p.ch |-> OptimizeSortLimitAsTopN(p.ch[i])])
  IN  IF q.type = "Limit" /\ q.ch[1].type = "Sort"
      THEN TopNPlan(q.ch[1].ob, q.n, q.ch[1])
      ELSE q

-----------------------------------------------------------------------------
(* NLJ -> HashJoin.  A pair <<left keys, right keys>>, or BadCast.         *)

\* One comparison: child 0 is cast to a column (throws if it is not one);
\* its tuple index alone decides which side each operand keys.
ComparisonKeysNoSwap(c) ==
  IF c.ch[1].e # "col" THEN BadCast ELSE <<<<c.ch[1]>>, <<c.ch[2]>>>>

ComparisonKeys(c) ==
  IF c.ch[1].e # "col" THEN BadCast
  ELSE IF c.ch[1].idx = 0 THEN <<<<c.ch[1]>>, <<c.ch[2]>>>>
  ELSE <<<<c.ch[2]>>, <<c.ch[1]>>>>

ConcatKeys(a, b) ==
  IF a = BadCast \/ b = BadCast THEN BadCast ELSE <<a[1] \o b[1], a[2] \o b[2]>>

\* Any logic node (AND or OR alike) contributes its children's keys; any
\* comparison (of any operator) contributes one key pair.
RECURSIVE ParseAndExpression(_)
ParseAndExpression(e) ==
  CASE e.e = "logic" -> ConcatKeys(ParseAndExpression(e.ch[1]), ParseAndExpression(e.ch[2]))
    [] e.e = "cmp"   -> ComparisonKeys(e)
    [] OTHER         -> <<<<>>, <<>>>>

RECURSIVE OptimizeNLJAsHashJoin(_)
OptimizeNLJAsHashJoin(p) ==
  LET cs == [i \in DOMAIN p.ch |-> OptimizeNLJAsHashJoin(p.ch[i])]
      q  == CloneWithChildren(p, cs)
      k  == ParseAndExpression(q.pred)
  IN  CASE Throws(cs)                                  -> BadCast
        [] q.type = "NestedLoopJoin" /\ k = BadCast   -> BadCast
        [] q.type = "NestedLoopJoin"                  -> HashJoinPlan(q.ch[1], q.ch[2], k[1], k[2])
        [] OTHER                                      -> q

-----------------------------------------------------------------------------
(* SeqScan + equality -> IndexScan.                                        *)

RECURSIVE OptimizeSeqScanAsIndexScan(_)
OptimizeSeqScanAsIndexScan(p) ==
  LET cs == [i \in DOMAIN p.ch |-> OptimizeSeqScanAsIndexScan(p.ch[i])]
      q  == CloneWithChildren(p, cs)
      e  == q.pred
      Candidate == /\ q.type = "SeqScan"
                   /\ e # NoFilter
                   /\ TableIndexes # {}
                   /\ e.e # "logic"
                   /\ e.e = "cmp"
                   /\ e.op = "="
  IN  CASE Throws(cs)                         -> BadCast
        [] Candidate /\ e.ch[1].e # "col"     -> BadCast
        [] Candidate /\ <<e.ch[1].col>> \in TableIndexes ->
             IndexScanPlan(e, IF e.ch[2].e = "const" THEN e.ch[2].val ELSE NoKey)
        [] OTHER                              -> q

\* The custom rules, in the order spec 4.8 lists them.
Optimize(p) ==
  LET a == OptimizeNLJAsHashJoin(OptimizeSortLimitAsTopN(p))
  IN  IF a = BadCast THEN BadCast ELSE OptimizeSeqScanAsIndexScan(a)

-----------------------------------------------------------------------------
(* Answers of plans over the table (spec 4.7).  A join row is <<l, r>>.    *)

\* A column reads tuple l or r by its tuple index; a key expression is
\* evaluated against one tuple, so its tuple index is not consulted.
Val(x, l, r) == IF x.e = "const" THEN x.val ELSE IF x.idx = 0 THEN l[x.col] ELSE r[x.col]

\* The CmpBool a predicate evaluates to.  A BOOLEAN Value built by
\* GetBooleanValue from CmpNull is NULL, so GetBoolAsCmpBool gives each
\* child's CmpBool back unchanged.
CmpBools == {"CmpTrue", "CmpFalse", "CmpNull"}

\* LogicExpression::PerformComputation: SQL's three-valued AND and OR.
PerformComputation(op, l, r) ==
  IF op = "AND"
  THEN CASE "CmpFalse" \in {l, r}              -> "CmpFalse"
         [] l = "CmpTrue" /\ r = "CmpTrue"     -> "CmpTrue"
         [] OTHER                              -> "CmpNull"
  ELSE CASE l = "CmpFalse" /\ r = "CmpFalse"   -> "CmpFalse"
         [] "CmpTrue" \in {l, r}               -> "CmpTrue"
         [] OTHER                              -> "CmpNull"

\* A comparison is CmpNull when either side is NULL.
CompareValues(op, a, b) ==
  IF a = Null \/ b = Null THEN "CmpNull"
  ELSE IF (IF op = "=" THEN a = b ELSE a < b) THEN "CmpTrue" ELSE "CmpFalse"

\* Evaluate / EvaluateJoin: children first, left then right.
RECURSIVE EvaluateExpr(_, _, _)
EvaluateExpr(x, l, r) ==
  IF x.e = "cmp" THEN CompareValues(x.op, Val(x.ch[1], l, r), Val(x.ch[2], l, r))
  ELSE PerformComputation(x.op, EvaluateExpr(x.ch[1], l, r), EvaluateExpr(x.ch[2], l, r))

\* A filter or join predicate keeps a row when its value is not NULL and
\* true.
Truth(x, l, r) == EvaluateExpr(x, l, r) = "CmpTrue"

\* Hash keys match when every key pair is equal and not NULL.
KeysMatch(p, l, r) ==
  \A i \in DOMAIN p.lkeys :
    LET a == Val(p.lkeys[i], l, l)
        b == Val(p.rkeys[i], r, r)
    IN  a # Null /\ b # Null /\ a = b

\* Join p pairs l and r: the NLJ's predicate is true, or the hash keys match.
Joins(p, l, r) == IF p.type = "NestedLoopJoin" THEN Truth(p.pred, l, r) ELSE KeysMatch(p, l, r)

\* For every l of ls in order, every r of rs in order that join p pairs.
Pairs(p, ls, rs) ==
  SX!FoldLeft(LAMBDA acc, l :
                LET m == SelectSeq(rs, LAMBDA r : Joins(p, l, r))
                IN  acc \o [i \in DOMAIN m |-> <<l, m[i]>>],
              <<>>, ls)

\* The live rows the index holds under key, in rid order.
IndexLookup(key) ==
  LET rids == SelectSeq([i \in DOMAIN heap |-> i], LAMBDA i : <<key, i>> \in index)
  IN  [j \in DOMAIN rids |-> heap[rids[j]].tup]

\* ProjectionExecutor::Next: each expression Evaluated against the child's
\* row, a column read by its position in the child's schema (a join row
\* is the left tuple's columns, then the right's).
ProjectRow(p, row) ==
  [c \in DOMAIN p.exprs |->
     IF DOMAIN row = 1..2 THEN Val(p.exprs[c], row[1], row[2]) ELSE Val(p.exprs[c], row, row)]

\* A stable insertion sort under an order-by list.
RECURSIVE SortRows(_, _)
SortRows(s, ob) ==
  IF s = <<>> THEN <<>>
  ELSE LET r   == SortRows(Tail(s), ob)
           pos == {j \in DOMAIN r : ~Before(r[j], Head(s), ob)}
           at  == IF pos = {} THEN Len(r) + 1 ELSE SX!Min(pos)
       IN  SubSeq(r, 1, at - 1) \o <<Head(s)>> \o SubSeq(r, at, Len(r))

RECURSIVE Eval(_)
Eval(p) ==
  IF p = BadCast THEN BadCast
  ELSE LET cs == [i \in DOMAIN p.ch |-> Eval(p.ch[i])]
       IN  CASE \E i \in DOMAIN cs : cs[i] \in {BadCast, UB} -> UB
             [] p.type = "SeqScan" ->
                  SelectSeq(Live(heap), LAMBDA t : p.pred = NoFilter \/ Truth(p.pred, t, t))
             [] p.type = "IndexScan" -> IF p.key = NoKey THEN UB ELSE IndexLookup(p.key)
             [] p.type \in {"NestedLoopJoin", "HashJoin"} -> Pairs(p, cs[1], cs[2])
             [] p.type = "Sort"  -> SortRows(cs[1], p.ob)
             [] p.type = "Limit" -> SubSeq(cs[1], 1, IF p.n < Len(cs[1]) THEN p.n ELSE Len(cs[1]))
             [] p.type = "TopN"  -> TopNOutput(cs[1], p.n, p.ob)
             [] p.type = "Projection" -> [i \in DOMAIN cs[1] |-> ProjectRow(p, cs[1][i])]
             [] p.type = "Aggregation" -> AggregationOutput(cs[1], p.gb)

-----------------------------------------------------------------------------
(* Properties.                                                             *)

\* The optimizer never changes a query's answer: the rewritten plan runs
\* without throwing, returns the same rows as the original for a join or
\* a scan (the NLJ->HashJoin key split by tuple index, the IndexScan key
\* taken from the constant), and for Limit over Sort returns a correct
\* top-N of the sorted rows (the TopN built over the Sort node).
OptimizerKeepsAnswers ==
  \A p \in Queries :
    LET o == Eval(Optimize(p))
    IN  /\ o \notin {UB, BadCast}
        /\ IF p.type = "Limit"
           THEN IsTopN(o, Eval(p.ch[1].ch[1]), p.n, p.ch[1].ob)
           ELSE IF p.type = "Aggregation" THEN o = Eval(p)
           ELSE SX!ToBag(o) = SX!ToBag(Eval(p))

====
