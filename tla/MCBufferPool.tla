---------------------------- MODULE MCBufferPool ----------------------------
(* Two threads over a pool of two frames and three pages, so that both     *)
(* frames can be pinned at once, a third page forces eviction, and         *)
(* FetchPage can return nullptr.                                           *)
EXTENDS BufferPool, TLC

CONSTANTS t1, t2, t3

MCThreads     == {t1, t2, t3}
MCPoolSize    == 2
MCReplacerK   == 2
MCMaxPages    == 3
MCMaxVersion  == 1
MCMaxAccesses == 5

\* Threads are interchangeable: no action or property names one.
Symm == Permutations(MCThreads)
=============================================================================
