--------------------------- MODULE ThreadPoolProofs --------------------------
(***************************************************************************)
(* Proofs about ThreadPool, for any number of threads and jobs: jobs go    *)
(* round robin to threads that are awake, no thread sleeps on a job, and   *)
(* each job is with one thread, in order.                                  *)
(*                                                                         *)
(* The index of addJob runs through the first m_working_num threads, which *)
(* are those that create_threads gave work to (Created, Indexed); so only  *)
(* they get jobs (IdleHaveNoJob), and the shares are what the position of  *)
(* the index says (Shares).  A job's way through addJob, the queue and the *)
(* handler leaves JobsOf as it is: only the choice of a thread adds to it, *)
(* at the end, a number that nobody has yet (Jobs).                        *)
(*                                                                         *)
(* With the managing thread (module Pools) the threads awake are the first *)
(* k, and k may exceed m_working_num: a falling trend lets the threads     *)
(* below it run on.  The excess stays within m_gradient, so that the walks *)
(* of run(), which cover m_gradient threads, always reach the first        *)
(* sleeping thread; and m_working_num does not fall below 0, because a     *)
(* walk takes off at most m_gradient while it is above m_min_threads.      *)
(* Hence the assumption GradientFits, which ThreadPool::init's defaults (4 *)
(* and 10) satisfy.                                                        *)
(***************************************************************************)
EXTENDS Pools, FiniteSetTheorems, SequenceTheorems, TLAPS

(* create_threads has given work to the first MinThreads it has made.      *)
Created ==
  /\ \A t \in Thread : work[t] <=> t <= created /\ t <= MinThreads
  /\ working = IF created <= MinThreads THEN created ELSE MinThreads
  /\ mainPc = "create" => created < MaxThreads
  /\ mainPc = "init" => created >= 1
  /\ mainPc = "run" => created = MaxThreads

Indexed ==
  /\ mainPc # "run" => target = NoThread /\ next = 0 /\ index = 0
  /\ index = 0 \/ index < working
  /\ target # NoThread => next >= 1

IdleHaveNoJob == \A t \in Thread : ~work[t] => buf[t] = <<>> /\ target # t

ParkedAreIdle == \A t \in Thread : pc[t] \in {"park", "parked"} => ~work[t]

(* Every working thread has had q jobs, those from the second up to the    *)
(* index one more; the others none.                                        *)
Ahead(t) == IF 2 <= t /\ t <= index + 1 THEN 1 ELSE 0
Shares ==
  /\ \E q \in 0..next : /\ index > 0 => q < next
                        /\ \A t \in Thread : work[t] => Share(t) = q + Ahead(t)
  /\ \A t \in Thread : ~work[t] => given[t] = 0

(* A worker has a job in hand exactly while its handler runs, and does     *)
(* nothing before it is created.                                           *)
InHand ==
  \A t \in Thread : /\ pc[t] = "work" <=> job[t] # 0
                    /\ created < t => pc[t] = "none"

IInv ==
  /\ TypeOK /\ Created /\ Indexed /\ InHand
  /\ IdleHaveNoJob /\ ParkedAreIdle /\ NoSleepOnJob /\ Shares

LEMMA Constants == MaxThreads \in Nat \ {0} /\ MinThreads \in Nat \ {0} /\ MaxJob \in Nat
BY ThreadPoolAssumption DEF ThreadPoolAssumption

LEMMA InitInv == Init => IInv
<1>. SUFFICES ASSUME Init PROVE IInv
  OBVIOUS
<1>1. TypeOK
  <2>1. /\ work \in [Thread -> BOOLEAN] /\ buf \in [Thread -> Seq(Job)]
        /\ done \in [Thread -> Seq(Job)]
    BY EmptySeq DEF Init
  <2>2. /\ pc \in [Thread -> {"none", "top", "park", "parked", "get", "wait", "orphan",
                              "work", "exited"}]
        /\ job \in [Thread -> Job \cup {0}] /\ given \in [Thread -> 0..MaxJob]
    BY Constants DEF Init
  <2>3. /\ mainPc \in {"create", "init", "run"} /\ created \in 0..MaxThreads
        /\ working \in 0..MaxThreads /\ index \in 0..(MaxThreads - 1)
        /\ target \in Thread \cup {NoThread} /\ next \in 0..MaxJob
    BY Constants DEF Init, NoThread
  <2>4. stop \in BOOLEAN
    BY DEF Init
  <2>. QED
    BY <2>1, <2>2, <2>3, <2>4 DEF TypeOK
<1>2. Created /\ Indexed
  BY Constants DEF Init, Created, Indexed, Thread
<1>3. InHand /\ IdleHaveNoJob /\ ParkedAreIdle /\ NoSleepOnJob
  BY DEF Init, InHand, IdleHaveNoJob, ParkedAreIdle, NoSleepOnJob, NoThread, Thread
<1>4. Shares
  BY DEF Init, Shares
<1>. QED
  BY <1>1, <1>2, <1>3, <1>4 DEF IInv

(* A step that touches neither the creation of threads nor addJob.         *)
LEMMA WorkerKeeps ==
  ASSUME IInv, TypeOK',
         UNCHANGED <<mainPc, created, work, working, index, target, next, given>>,
         InHand', IdleHaveNoJob', ParkedAreIdle', NoSleepOnJob'
  PROVE  IInv'
BY DEF IInv, Created, Indexed, Shares, Share, Ahead

LEMMA CreateThreadStep ==
  ASSUME IInv, CreateThread
  PROVE  IInv'
<1>. DEFINE t == created + 1
<1>1. /\ mainPc = "create" /\ created < MaxThreads /\ created \in 0..MaxThreads /\ t \in Thread
  BY Constants DEF CreateThread, IInv, TypeOK, Thread
<1>2. /\ work' = [work EXCEPT ![t] = created < MinThreads]
      /\ working' = IF created < MinThreads THEN working + 1 ELSE working
      /\ pc' = [pc EXCEPT ![t] = "top"] /\ created' = t /\ mainPc' = "init"
      /\ UNCHANGED <<index, target, next, buf, job, done, given, stop>>
  BY DEF CreateThread
<1>3. \A u \in Thread : work'[u] <=> (IF u = t THEN created < MinThreads ELSE work[u])
  BY <1>2 DEF IInv, TypeOK
<1>4. Created'
  <2>1. \A u \in Thread : u # t => ((work[u] <=> u <= t /\ u <= MinThreads))
    BY <1>1, Constants DEF IInv, Created, Thread
  <2>2. \A u \in Thread : work'[u] <=> u <= t /\ u <= MinThreads
    BY <1>1, <1>3, <2>1, Constants DEF Thread
  <2>3. working' = IF t <= MinThreads THEN t ELSE MinThreads
    BY <1>1, <1>2, Constants DEF IInv, Created
  <2>. QED
    BY <1>1, <1>2, <2>2, <2>3, Constants DEF Created
<1>5. TypeOK'
  BY <1>1, <1>2, <1>4, Constants DEF IInv, TypeOK, Created
<1>6. Indexed'
  BY <1>1, <1>2, Constants DEF IInv, Indexed
<1>7. ~work[t] /\ \A u \in Thread : u # t => (work'[u] <=> work[u])
  BY <1>1, <1>3, Constants DEF IInv, Created
<1>8. InHand' /\ IdleHaveNoJob' /\ NoSleepOnJob' /\ ParkedAreIdle'
  <2>1. pc[t] = "none" /\ \A u \in Thread : created + 1 < u => created < u
    BY <1>1, Constants DEF IInv, InHand, Thread
  <2>2. InHand'
    BY <1>1, <1>2, <2>1 DEF IInv, TypeOK, InHand
  <2>3. IdleHaveNoJob'
    BY <1>1, <1>2, <1>7 DEF IInv, IdleHaveNoJob
  <2>4. NoSleepOnJob' /\ ParkedAreIdle'
    BY <1>1, <1>2, <1>7 DEF IInv, TypeOK, NoSleepOnJob, ParkedAreIdle
  <2>. QED
    BY <2>2, <2>3, <2>4
<1>9. Shares'
  <2>1. next = 0 /\ index = 0 /\ target = NoThread
    BY <1>1 DEF IInv, Indexed
  <2>2. \A u \in Thread : given[u] = 0
    BY <2>1, Constants DEF IInv, Shares, Share, Ahead, TypeOK, Thread, NoThread
  <2>. QED
    BY <1>2, <2>1, <2>2, Constants DEF Shares, Share, Ahead, Thread, NoThread
<1>. QED
  BY <1>4, <1>5, <1>6, <1>8, <1>9 DEF IInv

LEMMA InitThreadStep ==
  ASSUME IInv, InitThread
  PROVE  IInv'
<1>1. /\ mainPc = "init" /\ created \in 0..MaxThreads /\ created \in Thread
  BY Constants DEF InitThread, IInv, TypeOK, Created, Thread
<1>2. /\ pc' = [pc EXCEPT ![created] = IF @ = "wait" THEN "orphan" ELSE @]
      /\ mainPc' = (IF created < MaxThreads THEN "create" ELSE "run")
      /\ UNCHANGED <<created, work, working, index, target, next, buf, job, done, given, stop>>
  BY DEF InitThread
<1>3. TypeOK'
  BY <1>1, <1>2 DEF IInv, TypeOK
<1>4. Created' /\ Indexed'
  BY <1>1, <1>2, Constants DEF IInv, Created, Indexed
<1>5. InHand' /\ IdleHaveNoJob' /\ NoSleepOnJob' /\ ParkedAreIdle'
  BY <1>1, <1>2 DEF IInv, TypeOK, InHand, IdleHaveNoJob, NoSleepOnJob, ParkedAreIdle
<1>6. Shares'
  BY <1>2 DEF IInv, Shares, Share, Ahead
<1>. QED
  BY <1>3, <1>4, <1>5, <1>6 DEF IInv

(* The next thread in turn is one that works, and its share grows.         *)
LEMMA ChooseThreadStep ==
  ASSUME IInv, ChooseThread
  PROVE  IInv'
<1>1. /\ mainPc = "run" /\ target = NoThread /\ next < MaxJob /\ next \in 0..MaxJob
      /\ index' = (IF index + 1 >= working THEN 0 ELSE index + 1)
      /\ target' = index' + 1 /\ next' = next + 1
      /\ UNCHANGED <<mainPc, created, work, working, buf, pc, job, done, given, stop>>
  BY DEF ChooseThread, IInv, TypeOK
<1>2. /\ working \in 1..MaxThreads /\ index \in 0..(working - 1)
      /\ \A t \in Thread : work[t] <=> t <= working
  BY <1>1, Constants DEF IInv, TypeOK, Created, Indexed, Thread
<1>3. index' \in 0..(working - 1) /\ target' \in Thread /\ work[target']
  BY <1>1, <1>2, Constants DEF Thread
<1>4. TypeOK'
  BY <1>1, <1>2, <1>3, Constants DEF IInv, TypeOK
<1>5. Created' /\ Indexed'
  BY <1>1, <1>2, <1>3, Constants DEF IInv, Created, Indexed
<1>6. InHand' /\ IdleHaveNoJob' /\ NoSleepOnJob' /\ ParkedAreIdle'
  BY <1>1, <1>3 DEF IInv, InHand, IdleHaveNoJob, NoSleepOnJob, ParkedAreIdle
<1>7. Shares'
  <2>1. PICK q \in 0..next : /\ index > 0 => q < next
                             /\ \A t \in Thread : work[t] => Share(t) = q + Ahead(t)
    BY DEF IInv, Shares
  <2>2. \A t \in Thread : given[t] \in Nat /\ Share(t) = given[t]
    BY <1>1, Constants DEF IInv, TypeOK, Share, Thread, NoThread
  <2>3. \A t \in Thread : Share(t)' = given[t] + (IF t = index' + 1 THEN 1 ELSE 0)
    BY <1>1 DEF Share
  <2>4. CASE index + 1 >= working
    <3>1. index' = 0 /\ index = working - 1
      BY <1>1, <1>2, <2>4
    <3>2. \A t \in Thread : work[t] => Share(t)' = q + 1
      BY <1>2, <2>1, <2>2, <2>3, <3>1 DEF Ahead, Thread
    <3>3. \A t \in Thread : Ahead(t)' = 0
      BY <3>1 DEF Ahead, Thread
    <3>4. q + 1 \in 0..next'
      BY <1>1, <2>1
    <3>5. \A t \in Thread : work'[t] => Share(t)' = (q + 1) + Ahead(t)'
      BY <1>1, <2>1, <3>2, <3>3
    <3>. QED
      BY <1>1, <3>1, <3>4, <3>5 DEF IInv, Shares
  <2>5. CASE index + 1 < working
    <3>1. index' = index + 1
      BY <1>1, <1>2, <2>5
    <3>2. \A t \in Thread : work[t] => Share(t)' = q + Ahead(t)'
      BY <1>2, <2>1, <2>2, <2>3, <3>1 DEF Ahead, Thread
    <3>3. q \in 0..next' /\ q < next'
      BY <1>1, <2>1
    <3>. QED
      BY <1>1, <3>2, <3>3 DEF IInv, Shares
  <2>. QED
    BY <1>2, <2>4, <2>5
<1>. QED
  BY <1>4, <1>5, <1>6, <1>7 DEF IInv
(* Pushing moves the job from addJob to the queue, and wakes the thread.   *)
LEMMA PushJobStep ==
  ASSUME IInv, PushJob
  PROVE  IInv'
<1>. DEFINE t == target
<1>1. /\ t \in Thread /\ t # NoThread /\ next \in Job /\ work[t] /\ mainPc = "run"
      /\ next \in 0..MaxJob
  BY Constants DEF PushJob, IInv, TypeOK, Indexed, IdleHaveNoJob, Thread, Job, NoThread
<1>2. /\ buf' = [buf EXCEPT ![t] = Append(@, next)]
      /\ pc' = [pc EXCEPT ![t] = IF @ = "wait" THEN "get" ELSE @]
      /\ given' = [given EXCEPT ![t] = @ + 1]
      /\ target' = NoThread
      /\ UNCHANGED <<mainPc, created, work, working, index, next, job, done, stop>>
  BY DEF PushJob
<1>3. \A u \in Thread : given[u] \in Nat
  BY Constants DEF IInv, TypeOK
<1>4. \A u \in Thread : Share(u)' = Share(u)
  BY <1>1, <1>2, <1>3 DEF IInv, TypeOK, Share, Thread, NoThread
<1>5. PICK q \in 0..next : /\ index > 0 => q < next
                           /\ \A u \in Thread : work[u] => Share(u) = q + Ahead(u)
  BY DEF IInv, Shares
<1>6. Shares'
  <2>1. \A u \in Thread : Ahead(u)' = Ahead(u)
    BY <1>2 DEF Ahead
  <2>2. \A u \in Thread : ~work[u] => u # t /\ given'[u] = 0
    BY <1>1, <1>2 DEF IInv, TypeOK, Shares
  <2>. QED
    BY <1>2, <1>4, <1>5, <2>1, <2>2 DEF Shares
<1>7. given'[t] \in 0..MaxJob
  <2>1. Share(t) = given[t] + 1
    BY <1>1 DEF Share
  <2>2. q + Ahead(t) <= next
    <3>1. q \in Nat /\ q <= next /\ index \in Nat /\ t \in Nat
      BY <1>1, <1>5, Constants DEF IInv, TypeOK, Thread
    <3>2. CASE index = 0
      BY <1>1, <3>1, <3>2 DEF Ahead
    <3>3. CASE index > 0
      BY <1>1, <1>5, <3>1, <3>3 DEF Ahead
    <3>. QED
      BY <3>1, <3>2, <3>3
  <2>. QED
    BY <1>1, <1>2, <1>3, <1>5, <2>1, <2>2, Constants DEF IInv, TypeOK
<1>8. TypeOK'
  <2>1. buf' \in [Thread -> Seq(Job)]
    BY <1>1, <1>2 DEF IInv, TypeOK
  <2>2. given' \in [Thread -> 0..MaxJob]
    BY <1>1, <1>2, <1>7 DEF IInv, TypeOK
  <2>. QED
    BY <1>1, <1>2, <2>1, <2>2 DEF IInv, TypeOK
<1>9. Created' /\ Indexed'
  BY <1>1, <1>2 DEF IInv, Created, Indexed
<1>10. InHand' /\ IdleHaveNoJob' /\ NoSleepOnJob' /\ ParkedAreIdle'
  BY <1>1, <1>2 DEF IInv, TypeOK, InHand, IdleHaveNoJob, NoSleepOnJob, ParkedAreIdle, Thread, NoThread
<1>. QED
  BY <1>6, <1>8, <1>9, <1>10 DEF IInv

LEMMA StopStep ==
  ASSUME IInv, Stop
  PROVE  IInv'
<1>1. TypeOK' /\ InHand' /\ IdleHaveNoJob' /\ ParkedAreIdle' /\ NoSleepOnJob'
  BY DEF Stop, IInv, TypeOK, InHand, IdleHaveNoJob, ParkedAreIdle, NoSleepOnJob
<1>. QED
  BY <1>1, WorkerKeeps DEF Stop

(* A worker moves only itself, and takes only from its own queue.          *)
LEMMA WorkerInv ==
  ASSUME IInv, NEW t \in Thread, WorkerStep(t)
  PROVE  IInv'
<1>1. CASE LoopTop(t)
  <2>1. TypeOK' /\ InHand' /\ IdleHaveNoJob' /\ ParkedAreIdle' /\ NoSleepOnJob'
    BY <1>1 DEF LoopTop, IInv, TypeOK, InHand, IdleHaveNoJob, ParkedAreIdle, NoSleepOnJob
  <2>. QED
    BY <1>1, <2>1, WorkerKeeps DEF LoopTop
<1>2. CASE Park(t)
  <2>1. TypeOK' /\ InHand' /\ IdleHaveNoJob' /\ ParkedAreIdle' /\ NoSleepOnJob'
    BY <1>2 DEF Park, IInv, TypeOK, InHand, IdleHaveNoJob, ParkedAreIdle, NoSleepOnJob
  <2>. QED
    BY <1>2, <2>1, WorkerKeeps DEF Park
<1>3. CASE AwaitJob(t)
  <2>1. TypeOK' /\ InHand' /\ IdleHaveNoJob' /\ ParkedAreIdle' /\ NoSleepOnJob'
    BY <1>3 DEF AwaitJob, IInv, TypeOK, InHand, IdleHaveNoJob, ParkedAreIdle, NoSleepOnJob
  <2>. QED
    BY <1>3, <2>1, WorkerKeeps DEF AwaitJob
<1>4. CASE TakeJob(t)
  <2>1. /\ pc[t] = "get" /\ buf[t] \in Seq(Job) /\ buf[t] # <<>>
        /\ job' = [job EXCEPT ![t] = Head(buf[t])] /\ buf' = [buf EXCEPT ![t] = Tail(buf[t])]
        /\ pc' = [pc EXCEPT ![t] = "work"]
        /\ UNCHANGED <<mainPc, created, work, working, index, target, next, done, given, stop>>
    BY <1>4 DEF TakeJob, IInv, TypeOK
  <2>2. Head(buf[t]) \in Job /\ Tail(buf[t]) \in Seq(Job)
    BY <2>1
  <2>3. TypeOK'
    BY <2>1, <2>2 DEF IInv, TypeOK
  <2>4. InHand'
    BY <2>1, <2>2 DEF IInv, TypeOK, InHand, Job
  <2>5. IdleHaveNoJob' /\ ParkedAreIdle' /\ NoSleepOnJob'
    BY <2>1 DEF IInv, TypeOK, IdleHaveNoJob, ParkedAreIdle, NoSleepOnJob
  <2>. QED
    BY <2>1, <2>3, <2>4, <2>5, WorkerKeeps
<1>5. CASE Handle(t)
  <2>1. /\ pc[t] = "work" /\ done[t] \in Seq(Job) /\ job[t] \in Job
        /\ done' = [done EXCEPT ![t] = Append(done[t], job[t])] /\ job' = [job EXCEPT ![t] = 0]
        /\ pc' = [pc EXCEPT ![t] = "top"]
        /\ UNCHANGED <<mainPc, created, work, working, index, target, next, buf, given, stop>>
    BY <1>5 DEF Handle, IInv, TypeOK, InHand
  <2>2. TypeOK'
    <3>1. done' \in [Thread -> Seq(Job)]
      BY <2>1 DEF IInv, TypeOK
    <3>. QED
      BY <2>1, <3>1 DEF IInv, TypeOK
  <2>3. InHand'
    BY <2>1 DEF IInv, TypeOK, InHand
  <2>4. IdleHaveNoJob' /\ ParkedAreIdle' /\ NoSleepOnJob'
    BY <2>1 DEF IInv, TypeOK, IdleHaveNoJob, ParkedAreIdle, NoSleepOnJob
  <2>. QED
    BY <2>1, <2>2, <2>3, <2>4, WorkerKeeps
<1>. QED
  BY <1>1, <1>2, <1>3, <1>4, <1>5 DEF WorkerStep

LEMMA NextInv == IInv /\ [Next]_vars => IInv'
<1>. SUFFICES ASSUME IInv, [Next]_vars PROVE IInv'
  OBVIOUS
<1>1. CASE UNCHANGED vars
  <2>1. TypeOK' /\ InHand' /\ IdleHaveNoJob' /\ ParkedAreIdle' /\ NoSleepOnJob'
    BY <1>1 DEF vars, IInv, TypeOK, InHand, IdleHaveNoJob, ParkedAreIdle, NoSleepOnJob
  <2>. QED
    BY <1>1, <2>1, WorkerKeeps DEF vars
<1>. QED
  BY <1>1, CreateThreadStep, InitThreadStep, ChooseThreadStep, PushJobStep, StopStep,
     WorkerInv DEF Next

(* The pool never leaves its invariant.                                    *)
THEOREM Invariance == Spec => []IInv
BY InitInv, NextInv, PTL DEF Spec

(* Every variable of the pool has its type: addJob's index is within       *)
(* m_threads_vct, and a thread is never given more jobs than were sent.    *)
THEOREM TypeCorrect == Spec => []TypeOK
<1>1. IInv => TypeOK
  BY DEF IInv
<1>. QED
  BY <1>1, Invariance, PTL

(* No wake-up is lost between addJob and the wait of the thread it chose.  *)
THEOREM NobodySleepsOnAJob == Spec => []NoSleepOnJob
<1>1. IInv => NoSleepOnJob
  BY DEF IInv
<1>. QED
  BY <1>1, Invariance, PTL

(* A thread that create_threads left parked, which nobody wakes, never     *)
(* gets a job.                                                             *)
THEOREM ParkedGetNothing == Spec => []ParkedHaveNoJob
<1>1. IInv => ParkedHaveNoJob
  BY DEF IInv, ParkedAreIdle, IdleHaveNoJob, ParkedHaveNoJob
<1>. QED
  BY <1>1, Invariance, PTL

(* addJob's round robin is fair: shares differ by at most one job.         *)
THEOREM SharesAreEven == Spec => []Balanced
<1>1. IInv => Balanced
  <2>. SUFFICES ASSUME IInv, NEW t \in Thread, NEW u \in Thread, work[t], work[u]
                PROVE  Share(t) - Share(u) \in {-1, 0, 1}
    BY DEF Balanced
  <2>1. PICK q \in 0..next : Share(t) = q + Ahead(t) /\ Share(u) = q + Ahead(u)
    BY DEF IInv, Shares
  <2>2. Ahead(t) \in {0, 1} /\ Ahead(u) \in {0, 1} /\ q \in Nat
    BY Constants DEF Ahead, IInv, TypeOK
  <2>. QED
    BY <2>1, <2>2
<1>. QED
  BY <1>1, Invariance, PTL

-----------------------------------------------------------------------------
(* Each job with one thread, in order                                      *)

InHandOf(t) == IF job[t] = 0 THEN <<>> ELSE <<job[t]>>
ComingTo(t) == IF target = t THEN <<next>> ELSE <<>>

LEMMA JobsTyped ==
  ASSUME IInv, NEW t \in Thread
  PROVE  /\ done[t] \in Seq(Job) /\ InHandOf(t) \in Seq(Job) /\ buf[t] \in Seq(Job)
         /\ ComingTo(t) \in Seq(Job)
         /\ JobsOf(t) = ((done[t] \o InHandOf(t)) \o buf[t]) \o ComingTo(t)
<1>1. done[t] \in Seq(Job) /\ buf[t] \in Seq(Job)
  BY DEF IInv, TypeOK
<1>2. InHandOf(t) \in Seq(Job)
  BY DEF IInv, TypeOK, InHandOf
<1>3. ComingTo(t) \in Seq(Job)
  <2>1. target = t => next \in Job
    BY Constants DEF IInv, TypeOK, Indexed, Job, Thread, NoThread
  <2>. QED
    BY <2>1 DEF ComingTo
<1>. QED
  BY <1>1, <1>2, <1>3 DEF JobsOf, InHandOf, ComingTo

(* The three ways a job moves along: into the queue, into the worker's     *)
(* hand, and into its past.                                                *)
LEMMA MoveToQueue ==
  ASSUME NEW S, NEW a \in Seq(S), NEW b \in Seq(S), NEW e \in S
  PROVE  (a \o Append(b, e)) \o <<>> = (a \o b) \o <<e>>
<1>1. Append(b, e) = b \o <<e>> /\ <<e>> \in Seq(S)
  BY AppendIsConcat
<1>2. (a \o b) \o <<e>> = a \o (b \o <<e>>) /\ (a \o b) \o <<e>> \in Seq(S)
  BY <1>1, ConcatAssociative, ConcatProperties
<1>. QED
  BY <1>1, <1>2, ConcatEmptySeq

LEMMA MoveToHand ==
  ASSUME NEW S, NEW a \in Seq(S), NEW b \in Seq(S), b # <<>>
  PROVE  (a \o <<Head(b)>>) \o Tail(b) = (a \o <<>>) \o b
<1>1. Head(b) \in S /\ Tail(b) \in Seq(S) /\ <<Head(b)>> \in Seq(S)
  BY HeadTailProperties
<1>2. b = <<Head(b)>> \o Tail(b)
  BY <1>1, HeadTailProperties, SMT
<1>3. (a \o <<Head(b)>>) \o Tail(b) = a \o (<<Head(b)>> \o Tail(b))
  BY <1>1, ConcatAssociative
<1>. QED
  BY <1>2, <1>3, ConcatEmptySeq

LEMMA MoveToPast ==
  ASSUME NEW S, NEW a \in Seq(S), NEW e \in S
  PROVE  Append(a, e) \o <<>> = a \o <<e>>
<1>1. Append(a, e) = a \o <<e>> /\ Append(a, e) \in Seq(S)
  BY AppendIsConcat, AppendProperties
<1>. QED
  BY <1>1, ConcatEmptySeq

(* Only the choice of a thread changes what is with whom.                  *)
LEMMA JobsKept ==
  ASSUME IInv, IInv', [Next]_vars, ~ChooseThread, NEW t \in Thread
  PROVE  JobsOf(t)' = JobsOf(t)
<1>. DEFINE D == done[t]
            B == buf[t]
<1>1. /\ D \in Seq(Job) /\ InHandOf(t) \in Seq(Job) /\ B \in Seq(Job)
      /\ ComingTo(t) \in Seq(Job) /\ D \o InHandOf(t) \in Seq(Job)
      /\ JobsOf(t) = ((D \o InHandOf(t)) \o B) \o ComingTo(t)
  BY JobsTyped, ConcatProperties
<1>2. JobsOf(t)' = ((done'[t] \o InHandOf(t)') \o buf'[t]) \o ComingTo(t)'
  BY DEF JobsOf, InHandOf, ComingTo
<1>3. CASE UNCHANGED <<done, job, buf, target, next>>
  BY <1>3 DEF JobsOf
<1>4. CASE PushJob
  <2>1. CASE target = t
    <3>1. /\ done'[t] = D /\ InHandOf(t)' = InHandOf(t) /\ buf'[t] = Append(B, next)
          /\ ComingTo(t)' = <<>> /\ ComingTo(t) = <<next>> /\ next \in Job
      BY <1>4, <2>1, Constants
      DEF PushJob, InHandOf, ComingTo, IInv, TypeOK, Indexed, Thread, NoThread, Job
    <3>2. ((D \o InHandOf(t)) \o Append(B, next)) \o <<>>
            = ((D \o InHandOf(t)) \o B) \o <<next>>
      <4>. HIDE DEF D, B
      <4>. QED
        BY <1>1, <3>1, MoveToQueue
    <3>. QED
      BY <1>1, <1>2, <3>1, <3>2
  <2>2. CASE target # t
    <3>1. /\ done'[t] = D /\ InHandOf(t)' = InHandOf(t) /\ buf'[t] = B
          /\ ComingTo(t)' = ComingTo(t)
      BY <1>4, <2>2 DEF PushJob, InHandOf, ComingTo, IInv, TypeOK, Thread, NoThread
    <3>. QED
      BY <1>1, <1>2, <3>1
  <2>. QED
    BY <2>1, <2>2
<1>5. ASSUME NEW u \in Thread, TakeJob(u)
      PROVE  JobsOf(t)' = JobsOf(t)
  <2>1. CASE u = t
    <3>1. /\ done'[t] = D /\ InHandOf(t) = <<>> /\ B # <<>>
          /\ job'[t] = Head(B) /\ buf'[t] = Tail(B) /\ ComingTo(t)' = ComingTo(t)
      BY <1>5, <2>1 DEF TakeJob, InHandOf, ComingTo, IInv, TypeOK, InHand
    <3>2. Head(B) # 0
      <4>1. Head(B) \in Job
        BY <1>1, <3>1
      <4>. QED
        BY <4>1 DEF Job
    <3>3. InHandOf(t)' = <<Head(B)>>
      BY <3>1, <3>2 DEF InHandOf
    <3>4. (D \o <<Head(B)>>) \o Tail(B) = (D \o <<>>) \o B
      BY <1>1, <3>1, MoveToHand
    <3>. QED
      BY <1>1, <1>2, <3>1, <3>3, <3>4
  <2>2. CASE u # t
    BY <1>5, <2>2 DEF TakeJob, JobsOf, IInv, TypeOK
  <2>. QED
    BY <2>1, <2>2
<1>6. ASSUME NEW u \in Thread, Handle(u)
      PROVE  JobsOf(t)' = JobsOf(t)
  <2>1. CASE u = t
    <3>1. /\ job[t] \in Job /\ job[t] # 0 /\ done'[t] = Append(D, job[t])
          /\ job'[t] = 0 /\ buf'[t] = B /\ ComingTo(t)' = ComingTo(t)
      BY <1>6, <2>1 DEF Handle, ComingTo, IInv, TypeOK, InHand
    <3>2. InHandOf(t) = <<job[t]>> /\ InHandOf(t)' = <<>>
      BY <3>1 DEF InHandOf
    <3>3. Append(D, job[t]) \o <<>> = D \o <<job[t]>>
      BY <1>1, <3>1, MoveToPast
    <3>. QED
      BY <1>1, <1>2, <3>1, <3>2, <3>3
  <2>2. CASE u # t
    BY <1>6, <2>2 DEF Handle, JobsOf, IInv, TypeOK
  <2>. QED
    BY <2>1, <2>2
<1>. QED
  BY <1>3, <1>4, <1>5, <1>6
  DEF Next, vars, CreateThread, InitThread, Stop, WorkerStep, LoopTop, Park, AwaitJob

(* The jobs dispatched are 1..next, each with one thread, in order.        *)
Jobs ==
  /\ \A t \in Thread : \A i \in 1..Len(JobsOf(t)) : JobsOf(t)[i] \in 1..next
  /\ EachJobOnceInOrder

LEMMA JobsInit == Init => Jobs
<1>. SUFFICES ASSUME Init PROVE Jobs
  OBVIOUS
<1>1. \A t \in Thread : JobsOf(t) = <<>> /\ next = 0
  BY EmptySeq, ConcatEmptySeq DEF Init, JobsOf, Thread, NoThread
<1>. QED
  BY <1>1 DEF Jobs, EachJobOnceInOrder, Init

(* The thread addJob chose gets a job newer than all there are.            *)
LEMMA JobsChosen ==
  ASSUME IInv, IInv', Jobs, ChooseThread
  PROVE  Jobs'
<1>1. /\ next \in Nat /\ next' = next + 1 /\ target' \in Thread /\ target = NoThread
      /\ UNCHANGED <<done, job, buf>>
  BY Constants DEF ChooseThread, IInv, TypeOK, NoThread, Indexed
<1>2. PICK c \in Thread : c = target'
  BY <1>1
<1>3. \A t \in Thread : JobsOf(t) \in Seq(Job)
  <2>. SUFFICES ASSUME NEW t \in Thread PROVE JobsOf(t) \in Seq(Job)
    OBVIOUS
  <2>1. /\ done[t] \o InHandOf(t) \in Seq(Job) /\ buf[t] \in Seq(Job)
        /\ ComingTo(t) \in Seq(Job)
        /\ JobsOf(t) = ((done[t] \o InHandOf(t)) \o buf[t]) \o ComingTo(t)
    BY JobsTyped, ConcatProperties
  <2>2. (done[t] \o InHandOf(t)) \o buf[t] \in Seq(Job)
    BY <2>1, ConcatProperties
  <2>. QED
    BY <2>1, <2>2, ConcatProperties
<1>4. JobsOf(c)' = Append(JobsOf(c), next + 1)
  <2>. DEFINE X == (done[c] \o InHandOf(c)) \o buf[c]
  <2>1. X \in Seq(Job)
    <3>1. done[c] \o InHandOf(c) \in Seq(Job) /\ buf[c] \in Seq(Job)
      BY JobsTyped, ConcatProperties
    <3>. QED
      BY <3>1, ConcatProperties
  <2>2. JobsOf(c) = X \o <<>>
    <3>1. target # c
      BY <1>1 DEF Thread, NoThread
    <3>. QED
      BY <3>1 DEF JobsOf, InHandOf
  <2>3. JobsOf(c)' = X \o <<next + 1>>
    BY <1>1, <1>2 DEF JobsOf, InHandOf
  <2>4. next + 1 \in Job
    BY <1>1, Constants DEF IInv, TypeOK, Job
  <2>5. X \o <<>> = X /\ X \o <<next + 1>> = Append(X, next + 1)
    <3>. HIDE DEF X
    <3>. QED
      BY <2>1, <2>4, ConcatEmptySeq, AppendIsConcat
  <2>. QED
    BY <2>2, <2>3, <2>5
<1>5. \A t \in Thread : t # c => JobsOf(t)' = JobsOf(t)
  <2>1. \A t \in Thread : target # t
    BY <1>1 DEF Thread, NoThread
  <2>. QED
    BY <1>1, <1>2, <2>1 DEF JobsOf
<1>6. /\ Len(JobsOf(c)) \in Nat /\ Len(JobsOf(c)') = Len(JobsOf(c)) + 1
      /\ JobsOf(c)'[Len(JobsOf(c)) + 1] = next + 1
      /\ \A i \in 1..Len(JobsOf(c)) : JobsOf(c)'[i] = JobsOf(c)[i]
  <2>1. \A s \in Seq(Job) : \A e : /\ Len(s) \in Nat /\ Len(Append(s, e)) = Len(s) + 1
                                  /\ Append(s, e)[Len(s) + 1] = e
                                  /\ \A i \in 1..Len(s) : Append(s, e)[i] = s[i]
    OBVIOUS
  <2>. QED
    BY <1>1, <1>3, <1>4, <2>1
(* What stands at place i of thread t's jobs is old, or is the new job.    *)
<1>7. \A t \in Thread : \A i \in 1..Len(JobsOf(t)') :
        \/ i \in 1..Len(JobsOf(t)) /\ JobsOf(t)'[i] = JobsOf(t)[i]
        \/ t = c /\ i = Len(JobsOf(c)) + 1 /\ JobsOf(t)'[i] = next + 1
  BY <1>5, <1>6
<1>8. \A t \in Thread : \A i \in 1..Len(JobsOf(t)) :
        i \in 1..Len(JobsOf(t)') /\ JobsOf(t)'[i] = JobsOf(t)[i]
  BY <1>5, <1>6
<1>9. \A t \in Thread : \A i \in 1..Len(JobsOf(t)) : JobsOf(t)[i] \in 1..next
  BY DEF Jobs
<1>10. \A t \in Thread : \A i \in 1..Len(JobsOf(t)') : JobsOf(t)'[i] \in 1..(next + 1)
  BY <1>1, <1>7, <1>9
<1>11. \A j \in 1..(next + 1) :
         \E t \in Thread : \E i \in 1..Len(JobsOf(t)') : JobsOf(t)'[i] = j
  <2>. SUFFICES ASSUME NEW j \in 1..(next + 1)
                PROVE  \E t \in Thread : \E i \in 1..Len(JobsOf(t)') : JobsOf(t)'[i] = j
    OBVIOUS
  <2>1. CASE j = next + 1
    BY <1>6, <2>1
  <2>2. CASE j \in 1..next
    BY <1>8, <2>2 DEF Jobs, EachJobOnceInOrder
  <2>. QED
    BY <1>1, <2>1, <2>2
<1>12. ASSUME NEW t \in Thread,
              NEW i \in 1..Len(JobsOf(t)'), NEW k \in 1..Len(JobsOf(t)'), i < k
       PROVE  JobsOf(t)'[i] < JobsOf(t)'[k]
  <2>1. CASE k \in 1..Len(JobsOf(t)) /\ JobsOf(t)'[k] = JobsOf(t)[k]
    <3>1. i \in 1..Len(JobsOf(t))
      BY <1>12, <2>1
    <3>. QED
      BY <1>8, <1>12, <2>1, <3>1 DEF Jobs, EachJobOnceInOrder
  <2>2. CASE t = c /\ k = Len(JobsOf(c)) + 1 /\ JobsOf(t)'[k] = next + 1
    <3>1. i \in 1..Len(JobsOf(t)) /\ JobsOf(t)'[i] = JobsOf(t)[i]
      BY <1>6, <1>12, <2>2
    <3>. QED
      BY <1>1, <1>9, <2>2, <3>1
  <2>. QED
    BY <1>7, <2>1, <2>2
<1>13. ASSUME NEW t \in Thread, NEW u \in Thread, t # u,
              NEW i \in 1..Len(JobsOf(t)'), NEW k \in 1..Len(JobsOf(u)')
       PROVE  JobsOf(t)'[i] # JobsOf(u)'[k]
  <2>1. CASE t # c /\ u # c
    BY <1>5, <1>13, <2>1 DEF Jobs, EachJobOnceInOrder
  <2>2. CASE t = c
    <3>1. k \in 1..Len(JobsOf(u)) /\ JobsOf(u)'[k] = JobsOf(u)[k] /\ JobsOf(u)[k] \in 1..next
      BY <1>5, <1>9, <1>13, <2>2
    <3>2. CASE i \in 1..Len(JobsOf(t)) /\ JobsOf(t)'[i] = JobsOf(t)[i]
      BY <1>13, <3>1, <3>2 DEF Jobs, EachJobOnceInOrder
    <3>3. CASE JobsOf(t)'[i] = next + 1
      BY <1>1, <3>1, <3>3
    <3>. QED
      BY <1>7, <1>13, <3>2, <3>3
  <2>3. CASE u = c
    BY <1>1, <1>5, <1>7, <1>9, <1>13, <2>3 DEF Jobs, EachJobOnceInOrder
  <2>. QED
    BY <2>1, <2>2, <2>3
<1>. QED
  BY <1>1, <1>10, <1>11, <1>12, <1>13 DEF Jobs, EachJobOnceInOrder

LEMMA JobsNext == IInv /\ IInv' /\ Jobs /\ [Next]_vars => Jobs'
<1>. SUFFICES ASSUME IInv, IInv', Jobs, [Next]_vars PROVE Jobs'
  OBVIOUS
<1>1. CASE ChooseThread
  BY <1>1, JobsChosen
<1>2. CASE ~ChooseThread
  <2>1. \A t \in Thread : JobsOf(t)' = JobsOf(t)
    BY <1>2, JobsKept
  <2>2. next' = next
    BY <1>2 DEF Next, vars, CreateThread, InitThread, PushJob, Stop, WorkerStep, LoopTop,
                Park, AwaitJob, TakeJob, Handle
  <2>. QED
    BY <2>1, <2>2 DEF Jobs, EachJobOnceInOrder
<1>. QED
  BY <1>1, <1>2

(* Every packet handed to addJob is with exactly one thread from then to   *)
(* the end of its handler, and a thread handles its packets in order.      *)
THEOREM EachJobOnce == Spec => []EachJobOnceInOrder
<1>1. Spec => []Jobs
  BY Invariance, JobsInit, JobsNext, PTL DEF Spec
<1>2. Jobs => EachJobOnceInOrder
  BY DEF Jobs
<1>. QED
  BY <1>1, <1>2, PTL

-----------------------------------------------------------------------------
(* With the managing thread                                                *)

GradientFits == Gradient <= LeastThreads + 1

Awake(k) ==
  /\ \A t \in Scaling!Thread : awake[t] <=> t < k
  /\ wakeNum <= k /\ k <= size
  /\ manager \notin {"last", "ended"} => k <= wakeNum + Gradient

(* A round that adjusts has taken its sample.                              *)
Sampled == manager = "adjust" => sample \in Samples

ScalingInv == Scaling!TypeOK /\ Sampled /\ \E k \in 0..MostThreads : Awake(k)

-----------------------------------------------------------------------------
(* Arithmetic of run()                                                     *)

LEMMA ScalingConstants ==
  /\ MostThreads \in Nat \ {0} /\ LeastThreads \in Nat \ {0} /\ LeastThreads <= MostThreads
  /\ Gradient \in Nat /\ Word \in Nat /\ Word > MostThreads
BY PoolsAssumption DEF Scaling!PoolScalingAssumption

(* m_working_num stays far below the modulus of unsigned int.              *)
LEMMA NoWrap == \A n \in 0..MostThreads : n % Word = n
BY ScalingConstants

LEMMA IntervalSize == \A a, n \in Nat : Cardinality(a..(a + n - 1)) = n
<1>. SUFFICES ASSUME NEW a \in Nat, NEW n \in Nat PROVE Cardinality(a..(a + n - 1)) = n
  OBVIOUS
<1>1. a \in Int /\ a + n - 1 \in Int
  OBVIOUS
<1>2. Cardinality(a..(a + n - 1)) = IF a > a + n - 1 THEN 0 ELSE (a + n - 1) - a + 1
  BY <1>1, FS_Interval
<1>. QED
  BY <1>2

(* A walk covers the threads from m_working_num up to all that there are,  *)
(* or m_gradient of them.                                                  *)
LEMMA Walks ==
  ASSUME Scaling!TypeOK
  PROVE  \E w \in Nat :
           /\ w <= Gradient /\ w <= size - wakeNum
           /\ w = Gradient \/ w = size - wakeNum
           /\ Scaling!Walked = wakeNum..(wakeNum + w - 1)
           /\ Cardinality(Scaling!Walked) = w
<1>. DEFINE w == Scaling!AtMost(size - wakeNum, Gradient)
<1>1. size \in Nat /\ size <= MostThreads /\ wakeNum \in Nat /\ wakeNum <= size
  BY ScalingConstants DEF Scaling!TypeOK
<1>2. /\ w \in Nat /\ w <= Gradient /\ w <= size - wakeNum
      /\ w = Gradient \/ w = size - wakeNum
  BY <1>1, ScalingConstants DEF Scaling!AtMost
<1>3. Scaling!Walked = wakeNum..(wakeNum + w - 1)
  BY <1>1, <1>2, ScalingConstants DEF Scaling!Walked, Scaling!Thread
<1>. HIDE DEF w
<1>4. Cardinality(wakeNum..(wakeNum + w - 1)) = w
  BY <1>1, <1>2, IntervalSize
<1>. QED
  BY <1>2, <1>3, <1>4

-----------------------------------------------------------------------------
(* Steps that leave the number of threads and their m_work alone           *)

LEMMA QuietStep ==
  ASSUME ScalingInv, Scaling!TypeOK', Sampled', UNCHANGED <<size, awake, wakeNum>>,
         manager' \in {"last", "ended"} \/ manager \notin {"last", "ended"}
  PROVE  ScalingInv'
<1>1. PICK k \in 0..MostThreads : Awake(k)
  BY DEF ScalingInv
<1>2. Awake(k)'
  BY <1>1 DEF Awake
<1>. QED
  BY <1>2 DEF ScalingInv

LEMMA CreateStep ==
  ASSUME ScalingInv, Scaling!Create
  PROVE  ScalingInv'
<1>. DEFINE n == size + Scaling!AtMost(MostThreads - size, LeastThreads)
<1>1. PICK k \in 0..MostThreads : Awake(k)
  BY DEF ScalingInv
<1>2. size \in Nat /\ LeastThreads <= size /\ size <= MostThreads
  BY ScalingConstants DEF ScalingInv, Scaling!TypeOK
<1>3. n \in Nat /\ size <= n /\ n <= MostThreads
  BY <1>2, ScalingConstants DEF Scaling!AtMost
<1>4. /\ Scaling!AtMost(n, LeastThreads) = LeastThreads
      /\ Scaling!AtMost(size, LeastThreads) = LeastThreads
  BY <1>2, <1>3, ScalingConstants DEF Scaling!AtMost
<1>5. size' = n /\ wakeNum' = wakeNum /\ manager' = "loop" /\ manager = "create"
  BY <1>4, ScalingConstants DEF Scaling!Create, ScalingInv, Scaling!TypeOK
<1>6. awake' = awake
  <2>1. awake' = [t \in Scaling!Thread |->
                    IF t \in size..(n - 1) THEN t < LeastThreads ELSE awake[t]]
    BY DEF Scaling!Create
  <2>2. \A t \in Scaling!Thread : t \in size..(n - 1) => (t < LeastThreads) = awake[t]
    BY <1>1, <1>2, <1>3, ScalingConstants
       DEF Awake, Scaling!Thread, ScalingInv, Scaling!TypeOK
  <2>. QED
    BY <2>1, <2>2 DEF ScalingInv, Scaling!TypeOK
<1>7. Scaling!TypeOK' /\ Sampled'
  BY <1>2, <1>3, <1>5, <1>6, ScalingConstants
     DEF ScalingInv, Scaling!TypeOK, Scaling!Create, Sampled
<1>8. Awake(k)'
  BY <1>1, <1>2, <1>3, <1>5, <1>6 DEF Awake
<1>. QED
  BY <1>7, <1>8 DEF ScalingInv

(* The two copies of FiniteSets count alike.                               *)
LEMMA SameCardinality == \A S : Scaling!Cardinality(S) = Cardinality(S)
BY DEF Scaling!Cardinality, Cardinality

LEMMA ScaleUpStep ==
  ASSUME ScalingInv, Scaling!ScaleUp
  PROVE  ScalingInv'
<1>1. PICK k \in 0..MostThreads : Awake(k)
  BY DEF ScalingInv
<1>2. PICK w \in Nat :
        /\ w <= Gradient /\ w <= size - wakeNum
        /\ w = Gradient \/ w = size - wakeNum
        /\ Scaling!Walked = wakeNum..(wakeNum + w - 1)
  BY Walks DEF ScalingInv
<1>3. /\ size \in Nat /\ size <= MostThreads /\ wakeNum \in Nat /\ wakeNum <= k
      /\ k <= size /\ k <= wakeNum + Gradient
  BY <1>1, ScalingConstants DEF ScalingInv, Scaling!TypeOK, Awake, Scaling!ScaleUp
<1>4. k <= wakeNum + w
  BY <1>2, <1>3, ScalingConstants
<1>5. {t \in Scaling!Walked : ~awake[t]} = k..(wakeNum + w - 1)
  BY <1>1, <1>2, <1>3, <1>4, ScalingConstants DEF Awake, Scaling!Thread
<1>6. Cardinality({t \in Scaling!Walked : ~awake[t]}) = wakeNum + w - k
  <2>1. PICK n \in Nat : n = wakeNum + w - k
    BY <1>2, <1>3, <1>4
  <2>2. {t \in Scaling!Walked : ~awake[t]} = k..(k + n - 1)
    BY <1>2, <1>3, <1>5, <2>1
  <2>3. Cardinality(k..(k + n - 1)) = n
    BY IntervalSize, ScalingConstants
  <2>. QED
    BY <2>1, <2>2, <2>3
<1>7. wakeNum' = wakeNum + (wakeNum + w - k)
  <2>1. wakeNum + (wakeNum + w - k) \in 0..MostThreads
    BY <1>2, <1>3, <1>4, ScalingConstants
  <2>2. (wakeNum + (wakeNum + w - k)) % Word = wakeNum + (wakeNum + w - k)
    BY <2>1, NoWrap
  <2>3. wakeNum' = (wakeNum + Cardinality({t \in Scaling!Walked : ~awake[t]})) % Word
    BY SameCardinality, Zenon DEF Scaling!ScaleUp
  <2>. QED
    BY <1>6, <2>2, <2>3, Zenon
<1>8. \A t \in Scaling!Thread : awake'[t] <=> t < wakeNum + w
  <2>1. \A t \in Scaling!Thread : awake'[t] <=> (awake[t] \/ t \in Scaling!Walked)
    BY DEF Scaling!ScaleUp
  <2>2. \A t \in Scaling!Thread : t \in Scaling!Walked <=> wakeNum <= t /\ t < wakeNum + w
    BY <1>2, <1>3, ScalingConstants DEF Scaling!Thread
  <2>. QED
    BY <1>1, <1>2, <1>3, <1>4, <2>1, <2>2, ScalingConstants DEF Awake, Scaling!Thread
<1>9. Scaling!TypeOK'
  <2>1. wakeNum' \in 0..size'
    BY <1>2, <1>3, <1>4, <1>7, ScalingConstants DEF Scaling!ScaleUp
  <2>2. awake' \in [Scaling!Thread -> BOOLEAN]
    BY DEF Scaling!ScaleUp, ScalingInv, Scaling!TypeOK
  <2>3. sample \in Samples \cup {0} /\ temp' = sample
    BY DEF Scaling!ScaleUp, ScalingInv, Scaling!TypeOK
  <2>4. temp' \in Samples \cup {Scaling!Nobody}
    BY <2>3 DEF Scaling!ScaleUp, ScalingInv, Sampled
  <2>. QED
    BY <2>1, <2>2, <2>4 DEF Scaling!ScaleUp, ScalingInv, Scaling!TypeOK
<1>10. Sampled'
  BY DEF Scaling!ScaleUp, Sampled
<1>11. PICK j \in 0..MostThreads : j = wakeNum + w
  BY <1>2, <1>3, ScalingConstants
<1>12. Awake(j)'
  BY <1>2, <1>3, <1>4, <1>7, <1>8, <1>11, ScalingConstants DEF Awake, Scaling!ScaleUp
<1>. QED
  BY <1>9, <1>10, <1>12 DEF ScalingInv

LEMMA ScaleDownStep ==
  ASSUME GradientFits, ScalingInv, Scaling!ScaleDown
  PROVE  ScalingInv'
<1>1. PICK k \in 0..MostThreads : Awake(k)
  BY DEF ScalingInv
<1>2. PICK w \in Nat :
        /\ w <= Gradient /\ w <= size - wakeNum
        /\ w = Gradient \/ w = size - wakeNum
        /\ Scaling!Walked = wakeNum..(wakeNum + w - 1)
        /\ Cardinality(Scaling!Walked) = w
  BY Walks DEF ScalingInv
<1>3. /\ size \in Nat /\ size <= MostThreads /\ wakeNum \in Nat /\ wakeNum <= k
      /\ k <= size /\ k <= wakeNum + Gradient /\ LeastThreads < wakeNum
  BY <1>1, ScalingConstants
     DEF ScalingInv, Scaling!TypeOK, Awake, Scaling!ScaleDown, Scaling!Down
<1>4. w <= wakeNum
  BY <1>2, <1>3, ScalingConstants DEF GradientFits
<1>5. wakeNum' = wakeNum - w
  <2>1. wakeNum - w \in 0..MostThreads
    BY <1>2, <1>3, <1>4, ScalingConstants
  <2>2. (wakeNum - w) % Word = wakeNum - w
    BY <2>1, NoWrap
  <2>3. wakeNum' = (wakeNum - Cardinality(Scaling!Walked)) % Word
    BY SameCardinality, Zenon DEF Scaling!ScaleDown
  <2>. QED
    BY <1>2, <2>2, <2>3, Zenon
<1>6. \A t \in Scaling!Thread : awake'[t] <=> t < wakeNum
  <2>1. \A t \in Scaling!Thread : awake'[t] <=> (awake[t] /\ t \notin Scaling!Walked)
    BY DEF Scaling!ScaleDown, Scaling!PutToSleep
  <2>2. \A t \in Scaling!Thread : t \in Scaling!Walked <=> wakeNum <= t /\ t < wakeNum + w
    BY <1>2, <1>3, ScalingConstants DEF Scaling!Thread
  <2>. QED
    BY <1>1, <1>2, <1>3, <2>1, <2>2, ScalingConstants DEF Awake, Scaling!Thread
<1>7. Scaling!TypeOK' /\ Sampled'
  <2>1. size' = size /\ wakeNum' \in 0..size'
    <3>1. size' = size
      BY DEF Scaling!ScaleDown
    <3>. QED
      BY <1>2, <1>3, <1>4, <1>5, <3>1
  <2>2. awake' \in [Scaling!Thread -> BOOLEAN]
    BY DEF Scaling!ScaleDown, Scaling!PutToSleep, ScalingInv, Scaling!TypeOK
  <2>3. temp' \in Samples \cup {Scaling!Nobody} /\ Sampled'
    BY DEF Scaling!ScaleDown, ScalingInv, Sampled
  <2>. QED
    BY <2>1, <2>2, <2>3 DEF Scaling!ScaleDown, ScalingInv, Scaling!TypeOK
<1>8. PICK j \in 0..MostThreads : j = wakeNum
  BY <1>3, ScalingConstants
<1>9. Awake(j)'
  <2>1. size' = size /\ manager' = "loop"
    BY DEF Scaling!ScaleDown
  <2>2. j <= wakeNum' + Gradient
    BY <1>2, <1>3, <1>4, <1>5, <1>8, ScalingConstants
  <2>. QED
    BY <1>2, <1>3, <1>4, <1>5, <1>6, <1>8, <2>1, <2>2 DEF Awake
<1>. QED
  BY <1>7, <1>9 DEF ScalingInv

LEMMA WakeAllStep ==
  ASSUME ScalingInv, Scaling!WakeAll
  PROVE  ScalingInv'
<1>1. PICK k \in 0..MostThreads : Awake(k)
  BY DEF ScalingInv
<1>2. /\ size \in Nat /\ size <= MostThreads /\ wakeNum \in Nat /\ wakeNum <= size
      /\ k <= size
  BY <1>1, ScalingConstants DEF ScalingInv, Scaling!TypeOK, Awake
<1>3. \A t \in Scaling!Thread : awake'[t] <=> t < size
  <2>1. \A t \in Scaling!Thread : awake'[t] <=> (awake[t] \/ t < size)
    BY DEF Scaling!WakeAll
  <2>. QED
    BY <1>1, <1>2, <2>1, ScalingConstants DEF Awake, Scaling!Thread
<1>4. Scaling!TypeOK' /\ Sampled'
  BY DEF Scaling!WakeAll, ScalingInv, Scaling!TypeOK, Sampled
<1>5. PICK j \in 0..MostThreads : j = size
  BY <1>2, ScalingConstants
<1>6. Awake(j)'
  BY <1>2, <1>3, <1>5, ScalingConstants DEF Awake, Scaling!WakeAll
<1>. QED
  BY <1>4, <1>6 DEF ScalingInv

-----------------------------------------------------------------------------
(* All steps                                                               *)

LEMMA ScalingInit == Scaling!Init => ScalingInv
<1>. SUFFICES ASSUME Scaling!Init PROVE ScalingInv
  OBVIOUS
<1>1. /\ size = LeastThreads /\ wakeNum = LeastThreads
      /\ awake = [t \in Scaling!Thread |-> t < LeastThreads]
  BY DEF Scaling!Init
<1>2. Scaling!TypeOK /\ Sampled
  <2>1. size \in LeastThreads..MostThreads /\ wakeNum \in 0..size
    BY <1>1, ScalingConstants
  <2>2. awake \in [Scaling!Thread -> BOOLEAN]
    BY <1>1
  <2>3. at \in [Scaling!Thread -> {"none", "top", "test", "wait", "parked", "run", "exited"}]
    BY DEF Scaling!Init
  <2>. QED
    BY <2>1, <2>2, <2>3 DEF Scaling!Init, Scaling!TypeOK, Sampled
<1>3. Awake(LeastThreads)
  <2>1. \A t \in Scaling!Thread : awake[t] <=> t < LeastThreads
    BY <1>1
  <2>. QED
    BY <1>1, <2>1, ScalingConstants DEF Awake
<1>4. LeastThreads \in 0..MostThreads
  BY ScalingConstants
<1>. QED
  BY <1>2, <1>3, <1>4 DEF ScalingInv

LEMMA ManagerStep ==
  ASSUME GradientFits, ScalingInv, Scaling!Manager
  PROVE  ScalingInv'
<1>1. CASE Scaling!Sample
  BY <1>1, QuietStep DEF Scaling!Sample, ScalingInv, Scaling!TypeOK, Sampled
<1>2. CASE Scaling!Keep
  BY <1>2, QuietStep DEF Scaling!Keep, ScalingInv, Scaling!TypeOK, Sampled
<1>3. CASE Scaling!BroadcastAfterUp
  BY <1>3, QuietStep
     DEF Scaling!BroadcastAfterUp, Scaling!Broadcast, ScalingInv, Scaling!TypeOK, Sampled
<1>4. CASE Scaling!LastBroadcast
  BY <1>4, QuietStep
     DEF Scaling!LastBroadcast, Scaling!Broadcast, ScalingInv, Scaling!TypeOK, Sampled
<1>. QED
  BY <1>1, <1>2, <1>3, <1>4, CreateStep, ScaleUpStep, ScaleDownStep, WakeAllStep
     DEF Scaling!Manager

LEMMA ScalingWorkerStep ==
  ASSUME ScalingInv, NEW t \in Scaling!Thread, Scaling!Worker(t)
  PROVE  ScalingInv'
<1>1. Scaling!Unmanaged /\ chosen' = chosen
  BY DEF Scaling!Worker, Scaling!LoopTop, Scaling!Test, Scaling!Park, Scaling!RunJob
<1>2. waiting' \subseteq Scaling!Thread
  BY DEF Scaling!Worker, Scaling!LoopTop, Scaling!Test, Scaling!Park,
         Scaling!RunJob, ScalingInv, Scaling!TypeOK
<1>3. mutex' \in Scaling!Thread \cup {Scaling!Nobody}
  BY DEF Scaling!Worker, Scaling!LoopTop, Scaling!Test, Scaling!Park,
         Scaling!RunJob, Scaling!Step, ScalingInv, Scaling!TypeOK
<1>4. at' \in [Scaling!Thread -> {"none", "top", "test", "wait", "parked", "run", "exited"}]
  BY DEF Scaling!Worker, Scaling!LoopTop, Scaling!Test, Scaling!Park,
         Scaling!RunJob, Scaling!Step, ScalingInv, Scaling!TypeOK
<1>5. Scaling!TypeOK' /\ Sampled'
  BY <1>1, <1>2, <1>3, <1>4 DEF Scaling!Unmanaged, ScalingInv, Scaling!TypeOK, Sampled
<1>. QED
  BY <1>1, <1>5, QuietStep DEF Scaling!Unmanaged

LEMMA ScalingNext == GradientFits /\ ScalingInv /\ [Scaling!Next]_(Scaling!vars) => ScalingInv'
<1>. SUFFICES ASSUME GradientFits, ScalingInv, [Scaling!Next]_(Scaling!vars) PROVE ScalingInv'
  OBVIOUS
<1>1. CASE UNCHANGED Scaling!vars
  BY <1>1, QuietStep DEF Scaling!vars, ScalingInv, Scaling!TypeOK, Sampled
<1>2. CASE Scaling!ChooseThread
  <2>1. Scaling!TypeOK' /\ Sampled'
    BY <1>2 DEF Scaling!ChooseThread, Scaling!Unmanaged, ScalingInv, Scaling!TypeOK, Sampled
  <2>. QED
    BY <1>2, <2>1, QuietStep DEF Scaling!ChooseThread, Scaling!Unmanaged
<1>3. CASE Scaling!PushJob
  <2>1. Scaling!TypeOK' /\ Sampled'
    BY <1>3 DEF Scaling!PushJob, Scaling!Unmanaged, ScalingInv, Scaling!TypeOK, Sampled
  <2>. QED
    BY <1>3, <2>1, QuietStep DEF Scaling!PushJob, Scaling!Unmanaged
<1>4. CASE Scaling!Stop
  <2>1. Scaling!TypeOK' /\ Sampled'
    BY <1>4 DEF Scaling!Stop, ScalingInv, Scaling!TypeOK, Sampled
  <2>. QED
    BY <1>4, <2>1, QuietStep DEF Scaling!Stop
<1>. QED
  BY <1>1, <1>2, <1>3, <1>4, ManagerStep, ScalingWorkerStep DEF Scaling!Next

-----------------------------------------------------------------------------
(* Theorems                                                                *)

(* The inductive invariant of ThreadPool::run() and the workers it wakes   *)
(* and parks, when the gradient is small enough (ThreadPool.cpp).          *)
THEOREM ScalingInvariance == ASSUME GradientFits PROVE Scaling!Spec => []ScalingInv
BY ScalingInit, ScalingNext, PTL DEF Scaling!Spec

(* Types; m_working_num stays between 0 and the number of threads, although *)
(* run() computes it in unsigned arithmetic.                               *)
THEOREM ScalingTypeCorrect == ASSUME GradientFits PROVE Scaling!Spec => []Scaling!TypeOK
<1>1. ScalingInv => Scaling!TypeOK
  BY DEF ScalingInv
<1>. QED
  BY <1>1, ScalingInvariance, PTL

(* A thread addJob may choose, one below m_working_num, is awake, whatever *)
(* run() has done to m_working_num.                                        *)
THEOREM ChosenThreadsAwake == ASSUME GradientFits PROVE Scaling!Spec => []ChosenAreAwake
<1>1. ScalingInv => ChosenAreAwake
  BY ScalingConstants DEF ScalingInv, Scaling!TypeOK, Awake, ChosenAreAwake,
     Scaling!ChosenAreAwake, Scaling!Thread
<1>. QED
  BY <1>1, ScalingInvariance, PTL

(* No thread sleeps in front of one that is awake: the walks of run() pass *)
(* none over.                                                              *)
THEOREM AwakeThreadsFirst == ASSUME GradientFits PROVE Scaling!Spec => []AwakeFirst
<1>1. ScalingInv => AwakeFirst
  BY ScalingConstants DEF ScalingInv, Scaling!TypeOK, Awake, AwakeFirst, Scaling!AwakeFirst,
     Scaling!Thread
<1>. QED
  BY <1>1, ScalingInvariance, PTL

-----------------------------------------------------------------------------
(* Both                                                                    *)

(* Whatever start's argument, each of the two descriptions of the pool     *)
(* holds: the one that does not run stays as it is.                        *)
LEMMA BothPools == PoolsSpec => Spec /\ Scaling!Spec
<1>1. PoolsInit => Init /\ Scaling!Init
  BY DEF PoolsInit
<1>2. [PoolsNext]_poolsVars => [Next]_vars
  <2>. SUFFICES ASSUME [PoolsNext]_poolsVars PROVE [Next]_vars
    OBVIOUS
  <2>1. CASE PoolStep
    BY <2>1 DEF PoolStep
  <2>2. CASE ScalingStep
    BY <2>2 DEF ScalingStep, poolVars
  <2>3. CASE UNCHANGED poolsVars
    BY <2>3 DEF poolsVars, poolVars
  <2>. QED
    BY <2>1, <2>2, <2>3 DEF PoolsNext
<1>3. [PoolsNext]_poolsVars => [Scaling!Next]_(Scaling!vars)
  <2>. SUFFICES ASSUME [PoolsNext]_poolsVars PROVE [Scaling!Next]_(Scaling!vars)
    OBVIOUS
  <2>1. CASE PoolStep
    BY <2>1 DEF PoolStep, scalingVars, Scaling!vars
  <2>2. CASE ScalingStep
    BY <2>2 DEF ScalingStep
  <2>3. CASE UNCHANGED poolsVars
    BY <2>3 DEF poolsVars, scalingVars, Scaling!vars
  <2>. QED
    BY <2>1, <2>2, <2>3 DEF PoolsNext
<1>. QED
  BY <1>1, <1>2, <1>3, PTL DEF PoolsSpec, Spec, Scaling!Spec

(* What the run checks of the pool, started either way: jobs are handled   *)
(* once and in order by threads that are awake, nobody sleeps on one, and  *)
(* addJob's choices are awake, whatever run() does meanwhile.              *)
THEOREM PoolsCorrect ==
  ASSUME GradientFits
  PROVE  PoolsSpec => [](/\ EachJobOnceInOrder /\ NoSleepOnJob /\ ParkedHaveNoJob
                         /\ ChosenAreAwake /\ AwakeFirst)
BY BothPools, EachJobOnce, NobodySleepsOnAJob, ParkedGetNothing, ChosenThreadsAwake,
   AwakeThreadsFirst, PTL
=============================================================================
