----------------------------- MODULE HashIndex -----------------------------
(***************************************************************************)
(* The disk extendible hash table (disk_extendible_hash_table.cpp) with   *)
(* its header page (src/unnamed/part_009), directory page                 *)
(* (src/unnamed/part_007) and bucket page                                  *)
(* (extendible_htable_bucket_page.cpp).                                    *)
(*                                                                         *)
(* The pages are one record `ht`: the header's directory ids, the        *)
(* directory pages and the bucket pages allocated so far, and the next     *)
(* page id the buffer pool hands out.  A key's 32-bit hash is HashBits   *)
(* wide here: the header uses its top HeaderMaxDepth bits, a directory    *)
(* its low global-depth bits.                                              *)
(* Every page is reached through a page guard, and every change of a       *)
(* directory or bucket is made under the directory's write latch, so      *)
(* GetValue, one pass of Insert and Remove are each one atomic step.       *)
(* Insert releases all latches between its GetValue and its write pass,   *)
(* and again before it calls itself after a split.                         *)
(***************************************************************************)
EXTENDS Integers, Sequences, FiniteSets, TLC, Bitwise

CONSTANTS
  Keys, Values,
  Hash,            \* hash_fn_: Keys -> 0..2^HashBits-1
  HashBits,
  HeaderMaxDepth,  \* header_max_depth_
  DirMaxDepth,     \* directory_max_depth_
  BucketMaxSize,   \* bucket_max_size_
  MaxPages,        \* bound on the page ids the buffer pool hands out
  Threads,
  RemoveKeys,      \* the keys threads may Remove (none in insert-only runs)
  NoValue, NoResult

INVALID == -1
PageIds == 0..MaxPages - 1
HeaderPageId == 0   \* the constructor's NewPageGuarded on a fresh pool

\* The slots of local_depths_ and bucket_page_ids_ the code can touch.  A
\* split at local depth < global depth writes up to slot 2^(gd+1) - 1, past
\* the directory; the range keeps those writes, as an array sized for a
\* larger maximum depth than directory_max_depth_ does.
ArraySlots == 0..2^(DirMaxDepth + 1) - 1

\* ExtendibleHTableDirectoryPage::Init on a fresh page (NewPage zeroes it):
\* slots past 2^max_depth keep the zero bytes.
DirInit ==
  [gd |-> 0,
   ld |-> [i \in ArraySlots |-> 0],
   bucket |-> [i \in ArraySlots |-> IF i < 2^DirMaxDepth THEN INVALID ELSE 0]]

\* The header page (part_009): MaxSize is 1 << max_depth_; Init sets every
\* directory id INVALID; out-of-range indexes read INVALID and are not
\* written.
HeaderMaxSize == 2^HeaderMaxDepth

HeaderInit == [i \in 0..HeaderMaxSize - 1 |-> INVALID]

GetDirectoryPageId(t, di) == IF di >= HeaderMaxSize THEN INVALID ELSE t.hdr[di]

SetDirectoryPageId(t, di, dp) == IF di >= HeaderMaxSize THEN t ELSE [t EXCEPT !.hdr[di] = dp]

HashToDirectoryIndex(h) ==
  IF HeaderMaxDepth = 0 THEN 0 ELSE h \div 2^(HashBits - HeaderMaxDepth)

HashToBucketIndex(d, h) == h & (2^d.gd - 1)

GetSplitImageIndex(d, i) == i + 2^(d.gd - 1)

\* IncrGlobalDepth: slot 2^gd + i copies slot i, then gd grows.
IncrGlobalDepth(d) ==
  IF d.gd >= DirMaxDepth THEN d
  ELSE LET h == 2^d.gd
       IN  [d EXCEPT
              !.gd = @ + 1,
              !.ld = [i \in ArraySlots |-> IF h <= i /\ i < 2 * h THEN @[i - h] ELSE @[i]],
              !.bucket = [i \in ArraySlots |-> IF h <= i /\ i < 2 * h THEN @[i - h] ELSE @[i]]]

IncrLocalDepth(d, i) == IF d.ld[i] < d.gd THEN [d EXCEPT !.ld[i] = @ + 1] ELSE d
DecrLocalDepth(d, i) == IF d.ld[i] > 0 THEN [d EXCEPT !.ld[i] = @ - 1] ELSE d

\* Variant: a slot blocks shrinking only if its local depth exceeds the
\* global depth (> for ==).
CanShrinkAboveOnly(d) == d.gd # 0 /\ \A i \in 0..2^d.gd - 1 : ~(d.ld[i] > d.gd)

CanShrink(d) == d.gd # 0 /\ \A i \in 0..2^d.gd - 1 : d.ld[i] # d.gd

RECURSIVE Shrink(_)
Shrink(d) == IF CanShrink(d) THEN Shrink([d EXCEPT !.gd = @ - 1]) ELSE d

\* GetLocalDepthMask returns 1 << (ld - 1).  At ld = 0 the shift count is
\* 0xFFFFFFFF, undefined in C++; x86 masks it to 31, so the mask is 2^31,
\* a bit no slot index has: 2^(DirMaxDepth + 1) stands for it.
GetLocalDepthMask(d, i) ==
  IF d.ld[i] = 0 THEN 2^(DirMaxDepth + 1) ELSE 2^(d.ld[i] - 1)

\* Bucket page operations on its entry sequence.
Lookup(b, k) ==
  IF \E j \in DOMAIN b : b[j][1] = k
    THEN b[CHOOSE j \in DOMAIN b : b[j][1] = k][2] ELSE NoValue

\* Variant: IsFull tested as size_ > max_size_.
BucketCanInsertOffByOne(b, k) == Len(b) <= BucketMaxSize /\ Lookup(b, k) = NoValue

BucketCanInsert(b, k) == Len(b) < BucketMaxSize /\ Lookup(b, k) = NoValue

BucketRemove(b, k) == SelectSeq(b, LAMBDA e : e[1] # k)

\* GetValue: header -> directory -> bucket, each INVALID id a miss.
GetValue(t, k) ==
  LET h  == Hash[k]
      dp == GetDirectoryPageId(t, HashToDirectoryIndex(h))
      d  == t.dir[dp]
      bp == d.bucket[HashToBucketIndex(d, h)]
  IN  IF dp = INVALID \/ bp = INVALID THEN NoValue ELSE Lookup(t.bkt[bp], k)

\* What every key maps to: the contents the index exposes.
Contents(t) == [k \in Keys |-> GetValue(t, k)]

\* NewPageGuarded: the next page id of the buffer pool.
NewPage(t) == [t EXCEPT !.next = @ + 1]

InsertToNewBucket(t, dp, bi, k, v) ==
  LET bp == t.next
  IN  [NewPage(t) EXCEPT !.bkt = (bp :> <<<<k, v>>>>) @@ @, !.dir[dp].bucket[bi] = bp]

InsertToNewDirectory(t, di, h, k, v) ==
  LET dp == t.next
      t1 == SetDirectoryPageId([NewPage(t) EXCEPT !.dir = (dp :> DirInit) @@ @], di, dp)
  IN  InsertToNewBucket(t1, dp, HashToBucketIndex(DirInit, h), k, v)

\* Variant: the image slot gets the new page, but no entry is moved to it.
SplitBucketNoMove(t, dp, bp, bi) ==
  LET sp == t.next
      d0 == t.dir[dp]
      si == GetSplitImageIndex(d0, bi)
  IN  [NewPage(t) EXCEPT
         !.dir[dp] = [d0 EXCEPT !.bucket[si] = sp, !.ld[si] = d0.ld[bi]],
         !.bkt = (sp :> <<>>) @@ @]

\* SplitBucket: the image slot gets a new page and the local depth of
\* bucket_idx; the entries are put back by the new global depth's index
\* into the old page or the new one, and dropped if it is neither.
SplitBucket(t, dp, bp, bi) ==
  LET sp == t.next
      d0 == t.dir[dp]
      si == GetSplitImageIndex(d0, bi)
      d  == [d0 EXCEPT !.bucket[si] = sp, !.ld[si] = d0.ld[bi]]
      Target(e) == d.bucket[HashToBucketIndex(d, Hash[e[1]])]
      es == t.bkt[bp]
  IN  [NewPage(t) EXCEPT
         !.dir[dp] = d,
         !.bkt = (sp :> SelectSeq(es, LAMBDA e : Target(e) = sp))
                   @@ [@ EXCEPT ![bp] = SelectSeq(es, LAMBDA e : Target(e) = bp)]]

\* One pass of Insert after its GetValue missed: the new table, the result,
\* and whether it split (then Insert calls itself).
InsertPass(t, k, v) ==
  LET h  == Hash[k]
      di == HashToDirectoryIndex(h)
      dp == GetDirectoryPageId(t, di)
      d  == t.dir[dp]
      bi == HashToBucketIndex(d, h)
      bp == d.bucket[bi]
      hh == 2^d.gd
      grown == IF d.ld[bi] = d.gd THEN IncrGlobalDepth(d) ELSE d
      split == IncrLocalDepth(IncrLocalDepth(grown, bi), bi + hh)
  IN  IF dp = INVALID
        THEN [t |-> InsertToNewDirectory(t, di, h, k, v), res |-> TRUE, split |-> FALSE]
      ELSE IF bp = INVALID
        THEN [t |-> InsertToNewBucket(t, dp, bi, k, v), res |-> TRUE, split |-> FALSE]
      ELSE IF BucketCanInsert(t.bkt[bp], k)
        THEN [t |-> [t EXCEPT !.bkt[bp] = Append(@, <<k, v>>)], res |-> TRUE, split |-> FALSE]
      ELSE IF d.ld[bi] = d.gd /\ d.gd >= DirMaxDepth
        THEN [t |-> t, res |-> FALSE, split |-> FALSE]
      ELSE [t |-> SplitBucket([t EXCEPT !.dir[dp] = split], dp, bp, bi),
            res |-> FALSE, split |-> TRUE]

\* UpdateDirectoryMapping: every slot holding the page of slot nbi gets the
\* new local depth, and is repointed to npid if its bit under mask is set.
RECURSIVE MapSlots(_, _, _, _, _, _)
MapSlots(d, i, nbi, npid, nld, mask) ==
  IF i >= 2^d.gd THEN d
  ELSE LET d1 == IF d.bucket[i] # d.bucket[nbi] THEN d
                 ELSE IF (i & mask) # 0
                   THEN [d EXCEPT !.bucket[i] = npid, !.ld[i] = nld]
                 ELSE [d EXCEPT !.ld[i] = nld]
       IN  MapSlots(d1, i + 1, nbi, npid, nld, mask)

UpdateDirectoryMapping(d, nbi, npid, nld, mask) == MapSlots(d, 0, nbi, npid, nld, mask)

\* The loop of Remove over update_count = 2^(gd - ld) slots (i << ld) + mask_idx.
RECURSIVE UpdateSlots(_, _, _, _, _, _, _)
UpdateSlots(d, i, cnt, ld, maskIdx, npid, gd) ==
  IF i >= cnt THEN d
  ELSE UpdateSlots(UpdateDirectoryMapping(d, i * 2^ld + maskIdx, npid, ld, 0),
                   i + 1, cnt, ld, maskIdx, npid, gd)

\* The merge loop of Remove.  DeletePage is called on a page whose guard
\* (check_guard or merge_guard) still pins it, so the buffer pool refuses
\* and the page keeps its contents.
RECURSIVE MergeLoop(_, _, _, _, _, _)
MergeLoop(d, bkt, bi, check, ld, gd) ==
  IF ld = 0 THEN d
  ELSE LET mi  == bi ^^ (2^(ld - 1))
           mp  == d.bucket[mi]
       IN  IF d.ld[mi] # ld \/ (bkt[check] # <<>> /\ bkt[mp] # <<>>) THEN d
           ELSE LET check1  == IF bkt[check] = <<>> THEN mp ELSE check
                    d1      == DecrLocalDepth(d, bi)
                    ld1     == d1.ld[bi]
                    maskIdx == bi & GetLocalDepthMask(d1, bi)
                    d2      == UpdateSlots(d1, 0, 2^(gd - ld1), ld1, maskIdx, check1, gd)
                IN  MergeLoop(d2, bkt, bi, check1, ld1, gd)

\* Variant: the merge runs and true is returned whether or not the bucket
\* held the key.
RemoveOpIgnoresResult(t, k) ==
  LET h  == Hash[k]
      dp == GetDirectoryPageId(t, HashToDirectoryIndex(h))
      d  == t.dir[dp]
      bi == HashToBucketIndex(d, h)
      bp == d.bucket[bi]
      bkt == [t.bkt EXCEPT ![bp] = BucketRemove(@, k)]
  IN  IF dp = INVALID \/ bp = INVALID
        THEN [t |-> t, res |-> FALSE]
      ELSE [t |-> [t EXCEPT !.bkt = bkt,
                            !.dir[dp] = Shrink(MergeLoop(d, bkt, bi, bp, d.ld[bi], d.gd))],
            res |-> TRUE]

\* Remove: the new table and the result.
RemoveOp(t, k) ==
  LET h  == Hash[k]
      dp == GetDirectoryPageId(t, HashToDirectoryIndex(h))
      d  == t.dir[dp]
      bi == HashToBucketIndex(d, h)
      bp == d.bucket[bi]
      bkt == [t.bkt EXCEPT ![bp] = BucketRemove(@, k)]
  IN  IF dp = INVALID \/ bp = INVALID \/ Lookup(t.bkt[bp], k) = NoValue
        THEN [t |-> t, res |-> FALSE]
      ELSE [t |-> [t EXCEPT !.bkt = bkt,
                            !.dir[dp] = Shrink(MergeLoop(d, bkt, bi, bp, d.ld[bi], d.gd))],
            res |-> TRUE, split |-> FALSE]

-----------------------------------------------------------------------------
(* Threads calling the index.                                              *)

VARIABLES
  ht,    \* the pages: [hdr, dir, bkt, next]
  pc,    \* "idle" | "write" (GetValue missed) | "retry" (after a split)
  arg,   \* the key and value of the Insert a thread is in
  ret    \* the result of each thread's last call

vars == <<ht, pc, arg, ret>>

Results == BOOLEAN \cup Values \cup {NoValue, NoResult}

\* The constructor: a header page with every directory id INVALID.
Init ==
  /\ ht = [hdr  |-> HeaderInit,
           dir  |-> [p \in {} |-> DirInit],
           bkt  |-> [p \in {} |-> <<>>],
           next |-> HeaderPageId + 1]
  /\ pc = [t \in Threads |-> "idle"]
  /\ arg = [t \in Threads |-> <<CHOOSE k \in Keys : TRUE, CHOOSE v \in Values : TRUE>>]
  /\ ret = [t \in Threads |-> NoResult]

\* Insert starts with GetValue under read latches, and so does each of its
\* recursive calls after a split; a key already present returns false.
InsertGetValue(t, k, v) ==
  /\ \/ pc[t] = "idle"
     \/ pc[t] = "retry" /\ arg[t] = <<k, v>>
  /\ IF GetValue(ht, k) # NoValue
       THEN pc' = [pc EXCEPT ![t] = "idle"] /\ ret' = [ret EXCEPT ![t] = FALSE]
       ELSE pc' = [pc EXCEPT ![t] = "write"] /\ UNCHANGED ret
  /\ arg' = [arg EXCEPT ![t] = <<k, v>>]
  /\ UNCHANGED ht

\* The rest of Insert, under the header's and then the directory's write
\* latch.  A split ends the pass: the guards are dropped and Insert is
\* called again.  The buffer pool hands out at most MaxPages page ids.
InsertWrite(t) ==
  LET r == InsertPass(ht, arg[t][1], arg[t][2])
  IN  /\ pc[t] = "write"
      /\ r.t.next <= MaxPages
      /\ ht' = r.t
      /\ IF r.split
           THEN pc' = [pc EXCEPT ![t] = "retry"] /\ UNCHANGED ret
           ELSE pc' = [pc EXCEPT ![t] = "idle"] /\ ret' = [ret EXCEPT ![t] = r.res]
      /\ UNCHANGED arg

Remove(t, k) ==
  LET r == RemoveOp(ht, k)
  IN  /\ pc[t] = "idle"
      /\ ht' = r.t
      /\ ret' = [ret EXCEPT ![t] = r.res]
      /\ UNCHANGED <<pc, arg>>

\* GetValue called on its own; its value (or NoValue) is the result.
GetValueCall(t, k) ==
  /\ pc[t] = "idle"
  /\ ret' = [ret EXCEPT ![t] = GetValue(ht, k)]
  /\ UNCHANGED <<ht, pc, arg>>

Next ==
  \E t \in Threads :
    \/ \E k \in Keys, v \in Values : InsertGetValue(t, k, v)
    \/ InsertWrite(t)
    \/ \E k \in RemoveKeys : Remove(t, k)
    \/ \E k \in Keys : GetValueCall(t, k)

Spec == Init /\ [][Next]_vars

-----------------------------------------------------------------------------
(* Properties.                                                             *)

DirPages == {ht.hdr[i] : i \in DOMAIN ht.hdr} \ {INVALID}

TypeOK ==
  /\ ht.next \in 1..MaxPages
  /\ ht.hdr \in [0..2^HeaderMaxDepth - 1 -> PageIds \cup {INVALID}]
  /\ DOMAIN ht.dir \cup DOMAIN ht.bkt \subseteq PageIds
  /\ \A p \in DOMAIN ht.dir : ht.dir[p].gd \in 0..DirMaxDepth
  /\ \A p \in DOMAIN ht.bkt :
       ht.bkt[p] \in Seq(Keys \X Values) /\ Len(ht.bkt[p]) <= BucketMaxSize
  /\ pc \in [Threads -> {"idle", "write", "retry"}]
  /\ arg \in [Threads -> Keys \X Values]
  /\ ret \in [Threads -> Results]

\* The index implements a key/value map: what GetValue finds changes only
\* by the insert or remove of that key, a true Insert adds an absent key,
\* a true Remove removes a present one, and a false one changes nothing.
\* Splits, directory growth, merges and shrinking never change what a
\* lookup finds.
KV == INSTANCE KVMap WITH kv <- Contents(ht), ret <- ret
ImplementsKVMap == KV!KVSpec

\* Spec 4.6 invariants of every directory in use: each slot of the
\* directory points to a bucket page, its local depth is at most the
\* global depth, and two slots point to the same page exactly when they
\* agree on the low local-depth bits, with the same local depth.
DirectoryIntegrity ==
  \A dp \in DirPages :
    LET d == ht.dir[dp]
        S == 0..2^d.gd - 1
    IN  /\ \A i \in S : d.bucket[i] # INVALID /\ d.ld[i] <= d.gd
        /\ \A i, j \in S :
             d.bucket[i] = d.bucket[j] <=>
               (d.ld[i] = d.ld[j] /\ i % 2^d.ld[i] = j % 2^d.ld[i])

\* Spec 4.6: every slot of a directory in use points to a bucket page and
\* has a local depth of at most the global depth, whatever Insert, the
\* merges and the shrinking of Remove have done.
DirectorySlotsValid ==
  \A dp \in DirPages :
    \A i \in 0..2^ht.dir[dp].gd - 1 :
      /\ ht.dir[dp].bucket[i] \in DOMAIN ht.bkt
      /\ ht.dir[dp].ld[i] <= ht.dir[dp].gd

\* What Remove(k) does promise: it returns true exactly when GetValue
\* found k, GetValue no longer finds k afterwards, and no key becomes
\* visible or changes its value.
RemoveOnlyRemoves ==
  [][\A t \in Threads, k \in RemoveKeys :
       Remove(t, k) =>
         /\ ret'[t] = (Contents(ht)[k] # NoValue)
         /\ Contents(ht')[k] = NoValue
         /\ \A k2 \in Keys : Contents(ht')[k2] # NoValue =>
                               Contents(ht')[k2] = Contents(ht)[k2]]_vars

=============================================================================
