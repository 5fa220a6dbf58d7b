---------------------------- MODULE MCExecutors ----------------------------
EXTENDS Optimizer

\* Every aggregate type, as in SELECT COUNT(*), COUNT(n), SUM(n), MIN(n),
\* MAX(n) FROM t.
MCAggTypes == <<"COUNT_STAR", "COUNT", "SUM", "MIN", "MAX">>

\* No GROUP BY, and GROUP BY k (k is never NULL).
MCGroupByK == {<<>>, <<"k">>}

\* GROUP BY n, a column that may be NULL.
MCGroupByN == {<<"n">>}

\* ORDER BY k, in each direction.
MCOrderByK == {<<[type |-> "DEFAULT", col |-> "k"]>>,
               <<[type |-> "DESC", col |-> "k"]>>}

\* ORDER BY n DESC, a column that may be NULL.
MCOrderByN == {<<[type |-> "DESC", col |-> "n"]>>}

\* Column references of the left (tuple index 0) and right (1) input.
L(c) == Col(0, c)
R(c) == Col(1, c)

MCScan == SeqScanPlan(NoFilter)

\* A disjunction that may be NULL, columns of a join projected in swapped
\* order, and GROUP BY the right k of a join whose left input
\* is an indexable scan (all three rules rewrite it).
MCQueriesProjected ==
  { SeqScanPlan(Logic("OR", Cmp("=", L("k"), Const(1)), Cmp("=", L("n"), Const(1)))),
    ProjectionPlan([k |-> R("k"), n |-> L("n")],
                   NLJPlan(MCScan, MCScan, Cmp("=", L("k"), R("n")))),
    AggregationPlan(<<"k">>,
      ProjectionPlan([k |-> R("k"), n |-> R("n")],
                     NLJPlan(SeqScanPlan(Cmp("=", L("k"), Const(1))), MCScan,
                             Cmp("=", L("n"), R("k"))))) }

\* Queries within the rules' preconditions (spec 4.8): LIMIT over ORDER BY,
\* scans filtered by k = c (indexed), n = c (not indexed), k < c and a
\* conjunction, and self-joins on an AND tree of column equalities, with
\* the right-side column first in one comparison and an indexable scan as
\* the left input in another.
MCQueries ==
  { LimitPlan(n, SortPlan(ob, MCScan)) : n \in {1, 2}, ob \in MCOrderByK }
  \cup
  { SeqScanPlan(Cmp("=", L("k"), Const(1))),
    SeqScanPlan(Cmp("=", L("n"), Const(1))),
    SeqScanPlan(Cmp("<", L("k"), Const(2))),
    SeqScanPlan(Logic("AND", Cmp("=", L("k"), Const(1)), Cmp("=", L("n"), Const(2)))),
    NLJPlan(MCScan, MCScan, Cmp("=", L("k"), R("k"))),
    NLJPlan(MCScan, MCScan, Cmp("=", R("k"), L("n"))),
    NLJPlan(MCScan, MCScan,
            Logic("AND", Cmp("=", L("k"), R("n")), Cmp("=", R("k"), L("n")))),
    NLJPlan(SeqScanPlan(Cmp("=", L("k"), Const(2))), MCScan, Cmp("=", L("n"), R("k"))) }
  \cup
  MCQueriesProjected

\* Joins whose predicate is not an AND tree of equalities: t1.k < t2.k,
\* and t1.k = t2.k OR t1.n = t2.n.
MCQueriesNonEqui ==
  { NLJPlan(MCScan, MCScan, Cmp("<", L("k"), R("k"))),
    NLJPlan(MCScan, MCScan,
            Logic("OR", Cmp("=", L("k"), R("k")), Cmp("=", L("n"), R("n")))) }

====
