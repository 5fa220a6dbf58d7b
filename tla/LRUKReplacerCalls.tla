------------------------- MODULE LRUKReplacerCalls -------------------------
(***************************************************************************)
(* The replacer used on its own by a caller (as in the replacer tests):    *)
(* any sequence of calls on the frames in `Accessed`.  `hist` is a ghost:  *)
(* every access timestamp of a frame since it was last evicted or          *)
(* removed; the reference definition of LRU-K below is computed from it.   *)
(***************************************************************************)
EXTENDS LRUKReplacer

CONSTANTS
  Accessed,       \* frame ids the caller passes
  MaxAccesses     \* bound on current_timestamp_

VARIABLES rep, hung, hist

vars == <<rep, hung, hist>>

Init ==
  /\ rep = InitReplacer
  /\ hung = FALSE
  /\ hist = [f \in FrameIds |-> <<>>]

RecordAccessStep(f) ==
  /\ ~hung
  /\ rep.ts < MaxAccesses
  /\ hist' = [hist EXCEPT ![f] = Append(@, rep.ts + 1)]
  /\ IF RecordAccessHangs(rep, f)
       THEN rep' = RecordAccessPrefix(rep, f) /\ hung' = TRUE
       ELSE rep' = RecordAccess(rep, f) /\ hung' = FALSE

SetEvictableStep(f, b) ==
  /\ ~hung
  /\ rep' = SetEvictable(rep, f, b)
  /\ UNCHANGED <<hung, hist>>

EvictStep ==
  /\ ~hung
  /\ IF EvictSucceeds(rep)
       THEN /\ rep' = Evict(rep)
            /\ hist' = [hist EXCEPT ![EvictVictim(rep)] = <<>>]
       ELSE UNCHANGED <<rep, hist>>
  /\ UNCHANGED hung

RemoveStep(f) ==
  /\ ~hung
  /\ rep' = Remove(rep, f)
  /\ hist' = IF rep.cnt[f] = 0 \/ RemoveThrows(rep, f) THEN hist
             ELSE [hist EXCEPT ![f] = <<>>]
  /\ UNCHANGED hung

Next ==
  \/ \E f \in Accessed : RecordAccessStep(f)
  \/ \E f \in Accessed, b \in BOOLEAN : SetEvictableStep(f, b)
  \/ EvictStep
  \/ \E f \in Accessed : RemoveStep(f)

Spec == Init /\ [][Next]_vars

-----------------------------------------------------------------------------
(* Reference definition of LRU-K over the ghost history.                   *)

Tracked(f)   == rep.cnt[f] > 0
Candidates   == {f \in FrameIds : Tracked(f) /\ rep.evictable[f]}
InfDistance(f) == Len(hist[f]) < K
KthRecent(f) == hist[f][Len(hist[f]) - K + 1]

\* f is at least as good a victim as g: +inf distance beats finite; among
\* +inf the earliest first access wins; among finite the oldest k-th access.
AtLeastAsOld(f, g) ==
  \/ InfDistance(f) /\ ~InfDistance(g)
  \/ InfDistance(f) /\ InfDistance(g) /\ hist[f][1] <= hist[g][1]
  \/ ~InfDistance(f) /\ ~InfDistance(g) /\ KthRecent(f) <= KthRecent(g)

IsLRUKVictim(v) == v \in Candidates /\ \A g \in Candidates : AtLeastAsOld(v, g)

-----------------------------------------------------------------------------
(* Properties                                                              *)

TypeOK ==
  /\ rep.cnt \in [FrameIds -> 0..MaxAccesses]
  /\ rep.time \in [FrameIds -> Seq(1..MaxAccesses)]
  /\ rep.evictable \in [FrameIds -> BOOLEAN]
  /\ rep.newFrame \in Seq(FrameIds)
  /\ rep.cacheFrame \in Seq(FrameIds \X (1..MaxAccesses))
  /\ rep.currSize \in 0..Cardinality(FrameIds)
  /\ rep.maxSize \in 0..Cardinality(FrameIds)
  /\ rep.ts \in 0..MaxAccesses
  /\ hung \in BOOLEAN
  /\ hist \in [FrameIds -> Seq(1..MaxAccesses)]

\* Evict (and its callers) trust curr_size_: it must be the number of
\* tracked evictable frames after any sequence of RecordAccess,
\* SetEvictable, Evict and Remove calls.
CurrSizeCountsEvictable == rep.currSize = Cardinality(Candidates)

\* The two lists mirror the access counts and the kept timestamps: each
\* tracked frame with fewer than k accesses is in new_frame_ once, ordered
\* newest first access first; each frame with k or more is in cache_frame_
\* once, keyed by its k-th most recent access and sorted by that key; the
\* kept history is the last min(cnt, k) accesses.
ListsMirrorHistory ==
  /\ \A f \in FrameIds :
       /\ rep.time[f] = SubSeq(hist[f], Len(hist[f]) - Len(rep.time[f]) + 1, Len(hist[f]))
       /\ Len(rep.time[f]) = IF rep.cnt[f] < K THEN rep.cnt[f] ELSE K
       /\ Len(hist[f]) = rep.cnt[f]
  /\ Len(rep.newFrame) = Cardinality({f \in FrameIds : Tracked(f) /\ rep.cnt[f] < K})
  /\ \A i \in 1..Len(rep.newFrame) :
       Tracked(rep.newFrame[i]) /\ rep.cnt[rep.newFrame[i]] < K
  /\ \A i, j \in 1..Len(rep.newFrame) :
       i < j => hist[rep.newFrame[i]][1] > hist[rep.newFrame[j]][1]
  /\ Len(rep.cacheFrame) = Cardinality({f \in FrameIds : rep.cnt[f] >= K})
  /\ \A i \in 1..Len(rep.cacheFrame) :
       LET e == rep.cacheFrame[i]
       IN  rep.cnt[e[1]] >= K /\ e[2] = KthRecent(e[1])
  /\ SX!IsSorted(rep.cacheFrame, LAMBDA x, y : x[2] < y[2])

\* Every Evict call evicts the evictable frame with the largest backward
\* k-distance (earliest first access among +inf), fails only when no frame
\* is evictable, and forgets only the victim's history.
EvictChoosesLargestKDistance ==
  [][EvictStep =>
       IF Candidates = {} THEN rep' = rep
       ELSE \E v \in Candidates :
              /\ IsLRUKVictim(v)
              /\ ~Tracked(v)'
              /\ \A g \in FrameIds \ {v} : rep'.cnt[g] = rep.cnt[g]]_vars

=============================================================================
