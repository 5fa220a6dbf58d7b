----------------------------- MODULE BufferPool -----------------------------
(***************************************************************************)
(* BufferPoolManager (buffer_pool_manager.cpp) with the page guards of     *)
(* page_guard.cpp (src/unnamed/part_008) used by concurrent threads.       *)
(*                                                                         *)
(* Every BPM method holds the pool mutex `latch_` from start to end and    *)
(* waits for its disk requests under it (Schedule + future.get()), so a    *)
(* BPM call, disk I/O and replacer calls included, is one atomic step.     *)
(* The page latch (Page::RLatch/WLatch) is taken after FetchPage returns,  *)
(* and a guard's Drop releases it before calling UnpinPage: those are      *)
(* separate steps of the thread.  Page contents are abstracted to a        *)
(* version number: a write stores the next version of its page; the ghost  *)
(* `latest` records the last version written to each page.                *)
(***************************************************************************)
EXTENDS Integers, Sequences, FiniteSets

SX == INSTANCE SequencesExt

CONSTANTS
  PoolSize,     \* pool_size_
  ReplacerK,    \* replacer_k
  Threads,      \* client threads
  MaxPages,     \* bound on next_page_id_
  MaxVersion,   \* bound on the versions written to one page
  MaxAccesses,  \* bound on the replacer's current_timestamp_
  NoThread      \* no thread holds the write latch

R == INSTANCE LRUKReplacer WITH ReplacerSize <- PoolSize, K <- ReplacerK

Frames   == 0..PoolSize - 1
PageIds  == 0..MaxPages - 1
INVALID  == -1                     \* INVALID_PAGE_ID
NoFrame  == -1                     \* page_table_ has no entry
Versions == 0..MaxVersion


\* Program counter of a thread using one page guard.
\* "null": the guard returned around a nullptr page.
PCs == {"idle", "basic", "rlatch", "wlatch", "read", "write", "unpin", "null"}

VARIABLES
  pageId,       \* pages_[f].page_id_
  pinCount,     \* pages_[f].pin_count_
  isDirty,      \* pages_[f].is_dirty_
  data,         \* pages_[f].data_ (a version)
  pageTable,    \* page_table_
  freeList,     \* free_list_
  nextPageId,   \* next_page_id_
  rep,          \* *replacer_
  disk,         \* the DiskManager's copy of each page
  readers,      \* holders of pages_[f].rwlatch_ in shared mode
  writer,       \* holder of pages_[f].rwlatch_ in exclusive mode
  pc,           \* what each thread's guard is doing
  gframe,       \* the guard's page_ (a frame)
  gdirty,       \* the guard's is_dirty_
  gpage,        \* ghost: the page id the guard was obtained for
  latest,       \* ghost: last version written to each page
  deleted       \* ghost: pages passed to DeletePage

frameVars  == <<pageId, pinCount, isDirty, data>>
poolVars   == <<frameVars, pageTable, freeList, nextPageId, rep, disk>>
threadVars == <<readers, writer, pc, gframe, gdirty, gpage>>
vars       == <<poolVars, threadVars, latest, deleted>>

\* Pages a client may name: allocated and not deleted.
Live == (0..nextPageId - 1) \ deleted

Init ==
  /\ pageId     = [f \in Frames |-> INVALID]
  /\ pinCount   = [f \in Frames |-> 0]
  /\ isDirty    = [f \in Frames |-> FALSE]
  /\ data       = [f \in Frames |-> 0]
  /\ pageTable  = [p \in PageIds |-> NoFrame]
  /\ freeList   = [i \in 1..PoolSize |-> i - 1]
  /\ nextPageId = 0
  /\ rep        = R!InitReplacer
  /\ disk       = [p \in PageIds |-> 0]
  /\ readers    = [f \in Frames |-> {}]
  /\ writer     = [f \in Frames |-> NoThread]
  /\ pc         = [t \in Threads |-> "idle"]
  /\ gframe     = [t \in Threads |-> NoFrame]
  /\ gdirty     = [t \in Threads |-> FALSE]
  /\ gpage      = [t \in Threads |-> INVALID]
  /\ latest     = [p \in PageIds |-> 0]
  /\ deleted    = {}

-----------------------------------------------------------------------------
(* Frame acquisition shared by NewPage and the miss path of FetchPage.     *)

\* Variant: only the free list is tried, Evict is never called.
CanGetFrameFreeListOnly == freeList # <<>>

\* A frame can be had from the back of the free list or from Evict.
CanGetFrame == freeList # <<>> \/ R!EvictSucceeds(rep)

VictimFrame == IF freeList # <<>> THEN SX!Last(freeList) ELSE R!EvictVictim(rep)

\* Variant: page_id_ assigned before page_table_.erase(page->GetPageId()).
LoadFrameEraseAfterAssign(f, p, content) ==
  LET r0 == IF freeList # <<>> THEN rep ELSE R!Evict(rep)
  IN
  /\ freeList'  = IF freeList # <<>> THEN SX!Front(freeList) ELSE freeList
  /\ disk'      = IF isDirty[f] THEN [disk EXCEPT ![pageId[f]] = data[f]]
                                ELSE disk
  /\ isDirty'   = [isDirty EXCEPT ![f] = FALSE]
  /\ pageTable' = [pageTable EXCEPT ![p] = f]
  /\ pageId'    = [pageId EXCEPT ![f] = p]
  /\ pinCount'  = [pinCount EXCEPT ![f] = 1]
  /\ data'      = [data EXCEPT ![f] = content]
  /\ rep'       = R!SetEvictable(R!RecordAccess(r0, f), f, FALSE)

\* Put page p into frame f = VictimFrame: write back a dirty old page,
\* move the page_table_ entry, pin once, load `content`, RecordAccess and
\* SetEvictable(false).  `content` may use disk' (read after write-back).
LoadFrame(f, p, content) ==
  LET r0 == IF freeList # <<>> THEN rep ELSE R!Evict(rep)
  IN
  /\ freeList'  = IF freeList # <<>> THEN SX!Front(freeList) ELSE freeList
  /\ disk'      = IF isDirty[f] THEN [disk EXCEPT ![pageId[f]] = data[f]]
                                ELSE disk
  /\ isDirty'   = [isDirty EXCEPT ![f] = FALSE]
  /\ pageTable' = [q \in PageIds |->
                     IF q = p THEN f
                     ELSE IF q = pageId[f] THEN NoFrame ELSE pageTable[q]]
  /\ pageId'    = [pageId EXCEPT ![f] = p]
  /\ pinCount'  = [pinCount EXCEPT ![f] = 1]
  /\ data'      = [data EXCEPT ![f] = content]
  /\ rep'       = R!SetEvictable(R!RecordAccess(r0, f), f, FALSE)

\* NewPage: a new id from AllocatePage, zeroed memory.
NewPage(p) ==
  /\ nextPageId < MaxPages
  /\ CanGetFrame
  /\ LoadFrame(VictimFrame, p, 0)
  /\ nextPageId' = nextPageId + 1

\* Variant: the hit path without SetEvictable(frame_id, false).
FetchPageHitStillEvictable(p) ==
  LET f == pageTable[p] IN
  /\ f # NoFrame
  /\ rep' = R!RecordAccess(rep, f)
  /\ pinCount' = [pinCount EXCEPT ![f] = @ + 1]
  /\ UNCHANGED <<pageId, isDirty, data, pageTable, freeList, nextPageId, disk>>

\* Variant: the hit path without pin_count_ += 1.
FetchPageHitNoPin(p) ==
  LET f == pageTable[p] IN
  /\ f # NoFrame
  /\ rep' = R!SetEvictable(R!RecordAccess(rep, f), f, FALSE)
  /\ UNCHANGED <<pageId, pinCount, isDirty, data, pageTable, freeList, nextPageId, disk>>

\* FetchPage of a page already in the pool: RecordAccess, pin it.
FetchPageHit(p) ==
  LET f == pageTable[p] IN
  /\ f # NoFrame
  /\ rep' = R!SetEvictable(R!RecordAccess(rep, f), f, FALSE)
  /\ pinCount' = [pinCount EXCEPT ![f] = @ + 1]
  /\ UNCHANGED <<pageId, isDirty, data, pageTable, freeList, nextPageId, disk>>

\* FetchPage of a page not in the pool: load it from disk.
FetchPageMiss(p) ==
  /\ pageTable[p] = NoFrame
  /\ CanGetFrame
  /\ LoadFrame(VictimFrame, p, disk'[p])
  /\ UNCHANGED nextPageId

\* The frame FetchPage(p) returns (defined when it does not return nullptr).
FetchedFrame(p) == IF pageTable[p] # NoFrame THEN pageTable[p] ELSE VictimFrame

FetchPage(p) == FetchPageHit(p) \/ FetchPageMiss(p)

\* Variant: is_dirty_ = is_dirty instead of is_dirty || is_dirty_.
UnpinPageOverwriteDirty(p, dirty) ==
  LET f == pageTable[p] IN
  /\ f # NoFrame
  /\ isDirty' = [isDirty EXCEPT ![f] = dirty]
  /\ IF pinCount[f] = 0
       THEN UNCHANGED <<pinCount, rep>>
       ELSE /\ pinCount' = [pinCount EXCEPT ![f] = @ - 1]
            /\ rep' = IF pinCount[f] = 1 THEN R!SetEvictable(rep, f, TRUE)
                                         ELSE rep
  /\ UNCHANGED <<pageId, data, pageTable, freeList, nextPageId, disk>>

\* UnpinPage of a page in the pool: OR the dirty flag, then unpin; the
\* frame becomes evictable when its pin count reaches 0.
UnpinPage(p, dirty) ==
  LET f == pageTable[p] IN
  /\ f # NoFrame
  /\ isDirty' = [isDirty EXCEPT ![f] = dirty \/ @]
  /\ IF pinCount[f] = 0
       THEN UNCHANGED <<pinCount, rep>>
       ELSE /\ pinCount' = [pinCount EXCEPT ![f] = @ - 1]
            /\ rep' = IF pinCount[f] = 1 THEN R!SetEvictable(rep, f, TRUE)
                                         ELSE rep
  /\ UNCHANGED <<pageId, data, pageTable, freeList, nextPageId, disk>>

\* FlushPage writes the frame back whatever its dirty flag, then cleans it.
FlushPage(p) ==
  LET f == pageTable[p] IN
  /\ f # NoFrame
  /\ disk' = [disk EXCEPT ![p] = data[f]]
  /\ isDirty' = [isDirty EXCEPT ![f] = FALSE]
  /\ UNCHANGED <<pageId, pinCount, data, pageTable, freeList, nextPageId, rep>>

\* FlushAllPages writes back every frame holding a page.
FlushAllPages ==
  /\ disk' = [q \in PageIds |->
                LET holders == {f \in Frames : pageId[f] = q}
                    last    == CHOOSE f \in holders : \A g \in holders : g <= f
                IN  IF holders = {} THEN disk[q] ELSE data[last]]
  /\ isDirty' = [f \in Frames |-> IF pageId[f] = INVALID THEN isDirty[f]
                                                        ELSE FALSE]
  /\ UNCHANGED <<pageId, pinCount, data, pageTable, freeList, nextPageId, rep>>

\* Variant: free_list_.push_back(page_id) instead of the frame id.
DeletePagePushesPageId(p) ==
  LET f == pageTable[p] IN
  \/ /\ f # NoFrame
     /\ pinCount[f] = 0
     /\ pageTable' = [pageTable EXCEPT ![p] = NoFrame]
     /\ freeList'  = Append(freeList, p)
     /\ rep'       = R!Remove(rep, f)
     /\ data'      = [data EXCEPT ![f] = 0]
     /\ pageId'    = [pageId EXCEPT ![f] = INVALID]
     /\ isDirty'   = [isDirty EXCEPT ![f] = FALSE]
     /\ pinCount'  = [pinCount EXCEPT ![f] = 0]
     /\ UNCHANGED <<nextPageId, disk>>
  \/ /\ f = NoFrame
     /\ UNCHANGED poolVars

\* Variant: DeletePage without replacer_->Remove(frame_id).
DeletePageKeepsTracking(p) ==
  LET f == pageTable[p] IN
  \/ /\ f # NoFrame
     /\ pinCount[f] = 0
     /\ pageTable' = [pageTable EXCEPT ![p] = NoFrame]
     /\ freeList'  = Append(freeList, f)
     /\ data'      = [data EXCEPT ![f] = 0]
     /\ pageId'    = [pageId EXCEPT ![f] = INVALID]
     /\ isDirty'   = [isDirty EXCEPT ![f] = FALSE]
     /\ pinCount'  = [pinCount EXCEPT ![f] = 0]
     /\ UNCHANGED <<nextPageId, disk, rep>>
  \/ /\ f = NoFrame
     /\ UNCHANGED poolVars

\* DeletePage of an unpinned page in the pool frees its frame; a page not
\* in the pool only goes to DeallocatePage (a no-op).  A pinned page is
\* refused (returns false): that case is a stuttering step.
DeletePage(p) ==
  LET f == pageTable[p] IN
  \/ /\ f # NoFrame
     /\ pinCount[f] = 0
     /\ pageTable' = [pageTable EXCEPT ![p] = NoFrame]
     /\ freeList'  = Append(freeList, f)
     /\ rep'       = R!Remove(rep, f)
     /\ data'      = [data EXCEPT ![f] = 0]
     /\ pageId'    = [pageId EXCEPT ![f] = INVALID]
     /\ isDirty'   = [isDirty EXCEPT ![f] = FALSE]
     /\ pinCount'  = [pinCount EXCEPT ![f] = 0]
     /\ UNCHANGED <<nextPageId, disk>>
  \/ /\ f = NoFrame
     /\ UNCHANGED poolVars

-----------------------------------------------------------------------------
(* Threads.  A thread holds at most one guard; BPM calls made outside a    *)
(* guard (FlushPage, FlushAllPages, DeletePage) are made by idle threads.  *)

SetPC(t, s) == pc' = [pc EXCEPT ![t] = s]

\* FetchPageRead / FetchPageWrite: FetchPage under latch_, the page latch
\* is taken in the next step.
FetchPageGuarded(t, p, mode) ==
  /\ pc[t] = "idle"
  /\ p \in Live
  /\ rep.ts < MaxAccesses
  /\ FetchPage(p)
  /\ SetPC(t, mode)
  /\ gframe' = [gframe EXCEPT ![t] = FetchedFrame(p)]
  /\ gpage'  = [gpage EXCEPT ![t] = p]
  /\ gdirty' = [gdirty EXCEPT ![t] = FALSE]
  /\ UNCHANGED <<readers, writer, latest, deleted>>

\* NewPageGuarded: a BasicPageGuard on a new page.
NewPageGuarded(t) ==
  /\ pc[t] = "idle"
  /\ rep.ts < MaxAccesses
  /\ NewPage(nextPageId)
  /\ SetPC(t, "basic")
  /\ gframe' = [gframe EXCEPT ![t] = VictimFrame]
  /\ gpage'  = [gpage EXCEPT ![t] = nextPageId]
  /\ gdirty' = [gdirty EXCEPT ![t] = FALSE]
  /\ UNCHANGED <<readers, writer, latest, deleted>>

\* FetchPageRead / FetchPageWrite of a page not in the pool when the free
\* list is empty and Evict fails: FetchPage returns nullptr under latch_,
\* changing nothing, and the caller gets a guard around nullptr (no latch).
FetchPageNull(t, p) ==
  /\ pc[t] = "idle"
  /\ p \in Live
  /\ pageTable[p] = NoFrame
  /\ ~CanGetFrame
  /\ SetPC(t, "null")
  /\ UNCHANGED <<poolVars, readers, writer, gframe, gdirty, gpage, latest, deleted>>

\* NewPageGuarded when NewPage returns nullptr (before AllocatePage).
NewPageNull(t) ==
  /\ pc[t] = "idle"
  /\ ~CanGetFrame
  /\ SetPC(t, "null")
  /\ UNCHANGED <<poolVars, readers, writer, gframe, gdirty, gpage, latest, deleted>>

\* Drop of a guard around nullptr: no RUnlatch/WUnlatch, no UnpinPage.
NullGuardDrop(t) ==
  /\ pc[t] = "null"
  /\ SetPC(t, "idle")
  /\ UNCHANGED <<poolVars, readers, writer, gframe, gdirty, gpage, latest, deleted>>

\* BasicPageGuard::UpgradeRead / UpgradeWrite: RLatch or WLatch, then the
\* basic guard's page is handed to a ReadPageGuard or WritePageGuard.
UpgradeRead(t) ==
  /\ pc[t] = "basic"
  /\ SetPC(t, "rlatch")
  /\ UNCHANGED <<poolVars, readers, writer, gframe, gdirty, gpage, latest, deleted>>

UpgradeWrite(t) ==
  /\ pc[t] = "basic"
  /\ SetPC(t, "wlatch")
  /\ UNCHANGED <<poolVars, readers, writer, gframe, gdirty, gpage, latest, deleted>>

\* Page::RLatch / Page::WLatch (a std::shared_mutex) block until granted.
RLatch(t) ==
  LET f == gframe[t] IN
  /\ pc[t] = "rlatch"
  /\ writer[f] = NoThread
  /\ readers' = [readers EXCEPT ![f] = @ \cup {t}]
  /\ SetPC(t, "read")
  /\ UNCHANGED <<poolVars, writer, gframe, gdirty, gpage, latest, deleted>>

WLatch(t) ==
  LET f == gframe[t] IN
  /\ pc[t] = "wlatch"
  /\ writer[f] = NoThread /\ readers[f] = {}
  /\ writer' = [writer EXCEPT ![f] = t]
  /\ SetPC(t, "write")
  /\ UNCHANGED <<poolVars, readers, gframe, gdirty, gpage, latest, deleted>>

\* WritePageGuard::AsMut: a write into the frame under the write latch.
WriteData(t) ==
  LET f == gframe[t]
      p == pageId[f]
  IN
  /\ pc[t] = "write"
  /\ latest[p] < MaxVersion
  /\ data'   = [data EXCEPT ![f] = latest[p] + 1]
  /\ latest' = [latest EXCEPT ![p] = @ + 1]
  /\ UNCHANGED <<pageId, pinCount, isDirty, pageTable, freeList, nextPageId,
                 rep, disk, threadVars, deleted>>

\* ReadPageGuard::Drop / WritePageGuard::Drop, first half: release the page
\* latch (a write guard also sets is_dirty_).
RUnlatch(t) ==
  /\ pc[t] = "read"
  /\ readers' = [readers EXCEPT ![gframe[t]] = @ \ {t}]
  /\ SetPC(t, "unpin")
  /\ UNCHANGED <<poolVars, writer, gframe, gdirty, gpage, latest, deleted>>

WUnlatch(t) ==
  /\ pc[t] = "write"
  /\ writer' = [writer EXCEPT ![gframe[t]] = NoThread]
  /\ gdirty' = [gdirty EXCEPT ![t] = TRUE]
  /\ SetPC(t, "unpin")
  /\ UNCHANGED <<poolVars, readers, gframe, gpage, latest, deleted>>

\* BasicPageGuard::Drop: UnpinPage(page_->GetPageId(), is_dirty_), then
\* the guard forgets its page.  Reached from "unpin", or from "basic"
\* when a new page's guard is dropped without an upgrade.
GuardUnpin(t) ==
  /\ pc[t] \in {"unpin", "basic"}
  /\ UnpinPage(pageId[gframe[t]], gdirty[t])
  /\ SetPC(t, "idle")
  /\ gframe' = [gframe EXCEPT ![t] = NoFrame]
  /\ gpage'  = [gpage EXCEPT ![t] = INVALID]
  /\ gdirty' = [gdirty EXCEPT ![t] = FALSE]
  /\ UNCHANGED <<readers, writer, latest, deleted>>

\* Calls made without a guard.
FlushPageCall(t, p) ==
  /\ pc[t] = "idle" /\ p \in Live
  /\ FlushPage(p)
  /\ UNCHANGED <<threadVars, latest, deleted>>

FlushAllPagesCall(t) ==
  /\ pc[t] = "idle"
  /\ FlushAllPages
  /\ UNCHANGED <<threadVars, latest, deleted>>

DeletePageCall(t, p) ==
  /\ pc[t] = "idle" /\ p \in Live
  /\ DeletePage(p)
  /\ deleted' = deleted \cup {p}
  /\ UNCHANGED <<threadVars, latest>>

Next ==
  \E t \in Threads :
    \/ \E p \in PageIds : FetchPageGuarded(t, p, "rlatch")
    \/ \E p \in PageIds : FetchPageGuarded(t, p, "wlatch")
    \/ NewPageGuarded(t)
    \/ \E p \in PageIds : FetchPageNull(t, p)
    \/ NewPageNull(t)
    \/ NullGuardDrop(t)
    \/ UpgradeRead(t) \/ UpgradeWrite(t)
    \/ RLatch(t) \/ WLatch(t)
    \/ WriteData(t)
    \/ RUnlatch(t) \/ WUnlatch(t)
    \/ GuardUnpin(t)
    \/ \E p \in PageIds : FlushPageCall(t, p)
    \/ FlushAllPagesCall(t)
    \/ \E p \in PageIds : DeletePageCall(t, p)

Spec == Init /\ [][Next]_vars

-----------------------------------------------------------------------------
(* Properties.                                                             *)

TypeOK ==
  /\ pageId \in [Frames -> PageIds \cup {INVALID}]
  /\ pinCount \in [Frames -> 0..Cardinality(Threads)]
  /\ isDirty \in [Frames -> BOOLEAN]
  /\ data \in [Frames -> Versions]
  /\ pageTable \in [PageIds -> Frames \cup {NoFrame}]
  /\ freeList \in Seq(Frames)
  /\ nextPageId \in 0..MaxPages
  /\ disk \in [PageIds -> Versions]
  /\ readers \in [Frames -> SUBSET Threads]
  /\ writer \in [Frames -> Threads \cup {NoThread}]
  /\ pc \in [Threads -> PCs]
  /\ gframe \in [Threads -> Frames \cup {NoFrame}]
  /\ latest \in [PageIds -> Versions]

\* page_table_, the frames' page ids and free_list_ agree: a page is in at
\* most one frame, each frame is either on the free list (no page) or holds
\* the page that page_table_ maps to it, and no frame is on the free list
\* twice.  NewPage/FetchPage take frames from the free list or Evict, and
\* DeletePage returns them; the replacer must never hand out a free frame.
PageTableConsistent ==
  /\ \A p \in PageIds : pageTable[p] # NoFrame => pageId[pageTable[p]] = p
  /\ \A f \in Frames : pageId[f] # INVALID => pageTable[pageId[f]] = f
  /\ SX!ToSet(freeList) = {f \in Frames : pageId[f] = INVALID}
  /\ Len(freeList) = Cardinality(SX!ToSet(freeList))

\* While a thread holds a guard, its frame still holds the page the guard
\* was obtained for: a pinned frame is never chosen by Evict (FetchPage and
\* NewPage SetEvictable(false); UnpinPage makes it evictable only at pin 0).
GuardedPageStaysResident ==
  \A t \in Threads :
    pc[t] \notin {"idle", "null"} => pageId[gframe[t]] = gpage[t] /\ pinCount[gframe[t]] > 0

\* No write is lost: every live page's newest version is in its frame if it
\* is in the pool, and on disk otherwise.  This depends on the dirty flag
\* set by WritePageGuard::Drop surviving until the write-back done when the
\* frame is reused, across FlushPage and other threads' UnpinPage calls.
NoLostWrite ==
  \A p \in Live :
    IF pageTable[p] # NoFrame THEN data[pageTable[p]] = latest[p]
                              ELSE disk[p] = latest[p]

\* The replacer's RecordAccess on a frame it does not track never meets
\* curr_size_ = max_size_, where it would call Evict under its own latch_
\* and block forever while the BPM holds latch_.
ReplacerNeverBlocks ==
  \A f \in Frames : ~R!RecordAccessHangs(rep, f)

\* The replacer tracks exactly the frames that hold a page, and a frame is
\* evictable in it exactly when its pin count is 0.  FetchPage, NewPage,
\* UnpinPage, Evict and DeletePage each update the frame in the pool and in
\* the replacer separately; if they ever disagreed, Evict could take a
\* pinned page, or DeletePage's replacer_->Remove would throw on a frame
\* still tracked as non-evictable after page_table_ and free_list_ were
\* already changed.
ReplacerTracksPins ==
  \A f \in Frames :
    IF pageId[f] = INVALID
    THEN rep.cnt[f] = 0
    ELSE rep.cnt[f] > 0 /\ (rep.evictable[f] <=> pinCount[f] = 0)

\* Threads holding a guard on frame f (a guard around nullptr holds none).
HeldGuards(f) == {t \in Threads : pc[t] \notin {"idle", "null"} /\ gframe[t] = f}

\* Every pin is held by exactly one live guard: FetchPage and NewPage pin
\* once per guard handed out, and each guard's Drop unpins once.  A pin
\* taken without a guard to drop it, or dropped twice, would leave a frame
\* pinned forever or let Evict take a page still in use.
PinsMatchGuards ==
  \A f \in Frames : pinCount[f] = Cardinality(HeldGuards(f))

\* FetchPage and NewPage return nullptr only when the pool is really
\* exhausted: every frame is pinned by a guard another thread holds.  A
\* frame leaked by the free list or by the replacer (resident, unpinned,
\* yet not evictable) would make them fail with frames to spare.
NullOnlyWhenExhausted ==
  [][\A t \in Threads :
       pc[t] = "idle" /\ pc'[t] = "null" => \A f \in Frames : HeldGuards(f) # {}]_pc

=============================================================================
