---------------------------- MODULE LRUKReplacer ----------------------------
(***************************************************************************)
(* The LRU-K replacer of BusTub (class LRUKReplacer, lru_k_replacer.h in   *)
(* src/unnamed/part_005, implementation appended to                        *)
(* src/.../buffer/buffer_pool_manager.cpp).                                *)
(*                                                                         *)
(* The replacer's members are one record `rep`; every public method is an *)
(* operator from a replacer record to the next one, so that the buffer     *)
(* pool module can compose them inside its own atomic actions.  Every     *)
(* method runs under the replacer's mutex `latch_`, so each call is one    *)
(* atomic step.  RecordAccess on an untracked frame while                  *)
(* curr_size_ = max_size_ calls Evict, which locks `latch_` again: the     *)
(* thread blocks on a mutex it holds (`hung`).                             *)
(***************************************************************************)
EXTENDS Integers, Sequences, FiniteSets

SX == INSTANCE SequencesExt

CONSTANTS
  ReplacerSize,   \* replacer_size_ = max_size_ at construction (num_frames)
  K               \* k_

ASSUME ReplacerSize \in Nat \ {0} /\ K \in Nat \ {0}

\* RecordAccess and Remove reject only frame_id > replacer_size_.
FrameIds == 0..ReplacerSize

\* A cache_frame_ entry: <<frame, timestamp of its k-th most recent access>>.
KTime(f, t) == <<f, t>>

\* The members of LRUKReplacer right after the constructor.
InitReplacer ==
  [ cnt        |-> [f \in FrameIds |-> 0],      \* recorded_cnt_
    time       |-> [f \in FrameIds |-> <<>>],   \* time_frame_
    evictable  |-> [f \in FrameIds |-> FALSE],  \* evictable_
    newFrame   |-> <<>>,                        \* new_frame_ (front = Head)
    cacheFrame |-> <<>>,                        \* cache_frame_
    currSize   |-> 0,                           \* curr_size_
    maxSize    |-> ReplacerSize,                \* max_size_
    ts         |-> 0 ]                          \* current_timestamp_

\* Variant: the entry always appended at the back of cache_frame_.
UpperBoundAtEnd(s, e) == Len(s) + 1

\* std::upper_bound with CmpTimestamp: the position of the first entry whose
\* timestamp is greater than e's, or the end of the list.
UpperBound(s, e) ==
  LET i == SX!SelectInSeq(s, LAMBDA x : e[2] < x[2])
  IN  IF i = 0 THEN Len(s) + 1 ELSE i

\* cache_frame_.insert(upper_bound(...), e)
InsertSorted(s, e) == SX!InsertAt(s, UpperBound(s, e), e)

\* Variant: new_frame_ scanned from begin() (newest first) instead of rbegin().
HistoryVictimIdxFront(r) == SX!SelectInSeq(r.newFrame, LAMBDA f : r.evictable[f])

\* Evict: the newest-first history list is scanned from its back (oldest
\* first access), then the cache list from its front (oldest k-th access).
HistoryVictimIdx(r) == SX!SelectLastInSeq(r.newFrame, LAMBDA f : r.evictable[f])
CacheVictimIdx(r)   == SX!SelectInSeq(r.cacheFrame, LAMBDA e : r.evictable[e[1]])

EvictSucceeds(r) ==
  /\ r.currSize # 0
  /\ HistoryVictimIdx(r) # 0 \/ CacheVictimIdx(r) # 0

EvictVictim(r) ==
  IF HistoryVictimIdx(r) # 0 THEN r.newFrame[HistoryVictimIdx(r)]
                             ELSE r.cacheFrame[CacheVictimIdx(r)][1]

\* The replacer after a successful Evict.
Evict(r) ==
  LET v == EvictVictim(r)
      r1 == [r EXCEPT !.cnt[v] = 0, !.time[v] = <<>>, !.currSize = @ - 1]
  IN  IF HistoryVictimIdx(r) # 0
        THEN [r1 EXCEPT !.newFrame = SX!Remove(@, v)]
        ELSE [r1 EXCEPT !.cacheFrame = SX!RemoveAt(@, CacheVictimIdx(r))]

\* RecordAccess on an untracked frame calls Evict while holding latch_.
RecordAccessHangs(r, f) == r.cnt[f] = 0 /\ r.currSize = r.maxSize

\* The state RecordAccess leaves behind when it blocks in that nested Evict.
RecordAccessPrefix(r, f) ==
  [r EXCEPT !.ts = @ + 1, !.cnt[f] = @ + 1, !.time[f] = Append(@, r.ts + 1)]

\* RecordAccess when it does not hang: a first access puts the frame at the
\* front of the history list, evictable; the k-th moves it to the cache list
\* keyed by its oldest kept timestamp; later ones drop the oldest timestamp
\* and re-insert the frame at its new rank.
RecordAccess(r, f) ==
  LET r1  == RecordAccessPrefix(r, f)
      cnt == r1.cnt[f]
      r2  == IF cnt = 1
               THEN [r1 EXCEPT !.evictable[f] = TRUE, !.currSize = @ + 1,
                               !.newFrame = <<f>> \o @]
               ELSE r1
      t3  == Tail(r2.time[f])
  IN  IF cnt = K
        THEN [r2 EXCEPT !.newFrame = SX!Remove(@, f),
                        !.cacheFrame = InsertSorted(@, KTime(f, Head(r2.time[f])))]
      ELSE IF cnt > K
        THEN [r2 EXCEPT !.time[f] = t3,
                        !.cacheFrame =
                           InsertSorted(SelectSeq(@, LAMBDA e : e[1] # f),
                                        KTime(f, Head(t3)))]
      ELSE r2

\* Variant: curr_size_ only ever incremented by SetEvictable.
SetEvictableNoDecrement(r, f, b) ==
  LET was == r.evictable[f]
  IN  IF r.cnt[f] = 0 THEN r
      ELSE [r EXCEPT !.evictable[f] = b,
                     !.maxSize  = @ + (IF was = b THEN 0 ELSE IF b THEN 1 ELSE -1),
                     !.currSize = @ + (IF ~was /\ b THEN 1 ELSE 0)]

\* Variant: ++max_size_ on both transitions (copy of the other branch).
SetEvictableMaxAlwaysUp(r, f, b) ==
  LET was == r.evictable[f]
  IN  IF r.cnt[f] = 0 THEN r
      ELSE [r EXCEPT !.evictable[f] = b,
                     !.maxSize  = @ + (IF was = b THEN 0 ELSE 1),
                     !.currSize = @ + (IF was = b THEN 0 ELSE IF b THEN 1 ELSE -1)]

\* SetEvictable: untracked frames are ignored; size and max size follow a
\* real transition of the flag.
SetEvictable(r, f, b) ==
  LET was   == r.evictable[f]
      delta == IF was = b THEN 0 ELSE IF b THEN 1 ELSE -1
  IN  IF r.cnt[f] = 0 THEN r
      ELSE [r EXCEPT !.evictable[f] = b, !.maxSize = @ + delta,
                     !.currSize = @ + delta]

\* Variant: Remove forgets curr_size_--.
RemoveKeepsSize(r, f) ==
  IF r.cnt[f] = 0 \/ (r.cnt[f] # 0 /\ ~r.evictable[f]) THEN r
  ELSE LET r1 == [r EXCEPT !.cnt[f] = 0, !.time[f] = <<>>]
       IN  IF r.cnt[f] < K
             THEN [r1 EXCEPT !.newFrame = SX!Remove(@, f)]
             ELSE [r1 EXCEPT !.cacheFrame = SelectSeq(@, LAMBDA e : e[1] # f)]

\* Remove throws on a tracked frame that is not evictable.
RemoveThrows(r, f) == r.cnt[f] # 0 /\ ~r.evictable[f]

Remove(r, f) ==
  IF r.cnt[f] = 0 \/ RemoveThrows(r, f) THEN r
  ELSE LET r1 == [r EXCEPT !.cnt[f] = 0, !.time[f] = <<>>, !.currSize = @ - 1]
       IN  IF r.cnt[f] < K
             THEN [r1 EXCEPT !.newFrame = SX!Remove(@, f)]
             ELSE [r1 EXCEPT !.cacheFrame = SelectSeq(@, LAMBDA e : e[1] # f)]

=============================================================================
