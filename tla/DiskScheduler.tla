---------------------------- MODULE DiskScheduler ----------------------------
(***************************************************************************)
(* DiskScheduler (disk_scheduler.cpp, declared in src/unnamed/part_006).   *)
(*                                                                         *)
(* Callers Schedule DiskRequests into `request_queue_` (a Channel: a       *)
(* blocking FIFO queue) and wait on the request's future.  One background *)
(* thread takes requests in order, runs them against the DiskManager and   *)
(* fulfils the promise.  The destructor puts std::nullopt into the queue   *)
(* and joins the worker.  A request's data buffer belongs to its caller:   *)
(* `buffer[c]` is what the caller's page buffer holds.                     *)
(***************************************************************************)
EXTENDS Integers, Sequences, FiniteSets

CONSTANTS
  Callers,     \* threads that call Schedule
  Pages,       \* page ids
  Values,      \* page contents
  MaxRequests  \* bound on the number of Schedule calls

\* The std::nullopt sentinel put by the destructor.
Stop == [stop |-> TRUE]

\* A DiskRequest: direction, page, the caller's buffer (identified by the
\* caller) and, for a write, the contents of that buffer when scheduled.
Requests == [isWrite : BOOLEAN, page : Pages, data : Values, owner : Callers,
             id : 1..MaxRequests]

VARIABLES
  queue,      \* request_queue_
  disk,       \* the DiskManager's pages
  buffer,     \* each caller's page buffer
  waiting,    \* the request each caller waits on (0: none)
  completed,  \* ids whose promise was fulfilled
  worker,     \* "running" | "exited"
  dtor,       \* "none" | "joining" | "done"
  issued      \* ghost: requests in Schedule order

vars == <<queue, disk, buffer, waiting, completed, worker, dtor, issued>>

Init ==
  /\ queue = <<>>
  /\ disk = [p \in Pages |-> CHOOSE v \in Values : TRUE]
  /\ buffer \in [Callers -> Values]
  /\ waiting = [c \in Callers |-> 0]
  /\ completed = {}
  /\ worker = "running"
  /\ dtor = "none"
  /\ issued = <<>>

\* Schedule: Put the request into the channel; the caller then waits on
\* the future.  Schedule is not called once the destructor has started.
Schedule(c, isWrite, p) ==
  LET r == [isWrite |-> isWrite, page |-> p, data |-> buffer[c], owner |-> c,
            id |-> Len(issued) + 1]
  IN
  /\ dtor = "none"
  /\ waiting[c] = 0
  /\ Len(issued) < MaxRequests
  /\ queue' = Append(queue, r)
  /\ issued' = Append(issued, r)
  /\ waiting' = [waiting EXCEPT ![c] = r.id]
  /\ UNCHANGED <<disk, buffer, completed, worker, dtor>>

\* future.get() returns once the worker has set the promise's value.
AwaitFuture(c) ==
  /\ waiting[c] # 0
  /\ waiting[c] \in completed
  /\ waiting' = [waiting EXCEPT ![c] = 0]
  /\ UNCHANGED <<queue, disk, buffer, completed, worker, dtor, issued>>

\* A caller may change its buffer while no request of its own is pending.
FillBuffer(c, v) ==
  /\ waiting[c] = 0
  /\ buffer' = [buffer EXCEPT ![c] = v]
  /\ UNCHANGED <<queue, disk, waiting, completed, worker, dtor, issued>>

\* Variant: the worker takes the newest request (a stack, not a queue).
WorkerStepNewestFirst ==
  /\ worker = "running"
  /\ queue # <<>>
  /\ queue' = SubSeq(queue, 1, Len(queue) - 1)
  /\ LET r == queue[Len(queue)] IN
     IF r = Stop
       THEN /\ worker' = "exited"
            /\ UNCHANGED <<disk, buffer, completed>>
       ELSE /\ disk' = IF r.isWrite THEN [disk EXCEPT ![r.page] = r.data]
                                    ELSE disk
            /\ buffer' = IF r.isWrite THEN buffer
                         ELSE [buffer EXCEPT ![r.owner] = disk[r.page]]
            /\ completed' = completed \cup {r.id}
            /\ UNCHANGED worker
  /\ UNCHANGED <<waiting, dtor, issued>>

\* One iteration of StartWorkerThread's loop: Get the head of the channel;
\* a request is run (WritePage or ReadPage) and its promise set; the
\* sentinel ends the loop.
WorkerStep ==
  /\ worker = "running"
  /\ queue # <<>>
  /\ queue' = Tail(queue)
  /\ LET r == Head(queue) IN
     IF r = Stop
       THEN /\ worker' = "exited"
            /\ UNCHANGED <<disk, buffer, completed>>
       ELSE /\ disk' = IF r.isWrite THEN [disk EXCEPT ![r.page] = r.data]
                                    ELSE disk
            /\ buffer' = IF r.isWrite THEN buffer
                         ELSE [buffer EXCEPT ![r.owner] = disk[r.page]]
            /\ completed' = completed \cup {r.id}
            /\ UNCHANGED worker
  /\ UNCHANGED <<waiting, dtor, issued>>

\* Variant: the sentinel jumps the queue.
DestructorPutFront ==
  /\ dtor = "none"
  /\ queue' = <<Stop>> \o queue
  /\ dtor' = "joining"
  /\ UNCHANGED <<disk, buffer, waiting, completed, worker, issued>>

\* ~DiskScheduler: put std::nullopt, then join the worker.
DestructorPut ==
  /\ dtor = "none"
  /\ queue' = Append(queue, Stop)
  /\ dtor' = "joining"
  /\ UNCHANGED <<disk, buffer, waiting, completed, worker, issued>>

\* Variant: the destructor returns without joining the worker.
DestructorJoinNoWait ==
  /\ dtor = "joining"
  /\ dtor' = "done"
  /\ UNCHANGED <<queue, disk, buffer, waiting, completed, worker, issued>>

DestructorJoin ==
  /\ dtor = "joining"
  /\ worker = "exited"
  /\ dtor' = "done"
  /\ UNCHANGED <<queue, disk, buffer, waiting, completed, worker, issued>>

Next ==
  \/ \E c \in Callers, w \in BOOLEAN, p \in Pages : Schedule(c, w, p)
  \/ \E c \in Callers : AwaitFuture(c)
  \/ \E c \in Callers, v \in Values : FillBuffer(c, v)
  \/ WorkerStep
  \/ DestructorPut
  \/ DestructorJoin

\* The worker thread and each caller are scheduled by the OS: a thread that
\* can run eventually runs.  The destructor is not forced to run.
Fairness ==
  /\ WF_vars(WorkerStep)
  /\ WF_vars(DestructorJoin)
  /\ \A c \in Callers : WF_vars(AwaitFuture(c))

Spec == Init /\ [][Next]_vars /\ Fairness

-----------------------------------------------------------------------------
(* Properties.                                                             *)

TypeOK ==
  /\ queue \in Seq(Requests \cup {Stop})
  /\ disk \in [Pages -> Values]
  /\ buffer \in [Callers -> Values]
  /\ waiting \in [Callers -> 0..MaxRequests]
  /\ completed \subseteq 1..MaxRequests
  /\ worker \in {"running", "exited"}
  /\ dtor \in {"none", "joining", "done"}

\* The disk holds, for every page, what the last write among the completed
\* requests wrote (in Schedule order): requests run strictly in the order
\* they were scheduled, so a later write is never overwritten by an
\* earlier one and a read never sees a write scheduled after it.
LastWrite(p, n) ==
  LET ws == {i \in 1..n : issued[i].isWrite /\ issued[i].page = p}
  IN  IF ws = {} THEN 0 ELSE CHOOSE i \in ws : \A j \in ws : j <= i

RunInScheduleOrder ==
  /\ completed = 1..Cardinality(completed)
  /\ \A p \in Pages :
       LET w == LastWrite(p, Cardinality(completed))
       IN  w # 0 => disk[p] = issued[w].data

\* When the destructor's join returns, every request scheduled before it
\* has been run and its promise fulfilled: the sentinel drains the queue.
JoinAfterDrain ==
  dtor = "done" => completed = 1..Len(issued) /\ queue = <<>>

\* Every caller waiting on a future eventually gets it.
EveryRequestCompletes ==
  \A c \in Callers : waiting[c] # 0 ~> waiting[c] = 0

=============================================================================
