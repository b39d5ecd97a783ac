----------------------------- MODULE ThreadPool -----------------------------
(***************************************************************************)
(* The pool that runs the protocol handlers: ThreadPool as Recver uses it  *)
(* (Recver::start calls start(false): all threads are created at once and  *)
(* the managing thread run() is not started), and Recver::addData, which   *)
(* the event thread calls for every packet.                                *)
(*                                                                         *)
(* create_threads creates a thread before it initialises the mutex and the *)
(* condition variable the thread is going to use.  thread_info is          *)
(* zero-allocated, so an early thread can lock the mutex and wait; the     *)
(* later init_cond makes the condition variable forget it, and no signal   *)
(* reaches it any more: the state "orphan".                                *)
(***************************************************************************)
EXTENDS Integers, Sequences, FiniteSets

CONSTANTS
  MaxThreads,  \* ProcessThread of the configuration
  MinThreads,  \* the min_threads of ThreadPool::init, 10 by default
  MaxJob       \* bound: jobs dispatched

ASSUME ThreadPoolAssumption ==
  /\ MaxThreads \in Nat \ {0} /\ MinThreads \in Nat \ {0} /\ MaxJob \in Nat

Thread == 1..MaxThreads
Job == 1..MaxJob
NoThread == 0

VARIABLES
  mainPc,   \* the main thread: "create", "init", then "run" (the event loop)
  created,  \* pthread_create calls so far; m_threads_vct.size() once "init" is done
  work,     \* thread_info::m_work
  working,  \* m_working_num
  index,    \* m_index
  target,   \* addJob between its two critical sections: the thread chosen
  next,     \* jobs dispatched so far: the number of the last one
  buf,      \* thread_info::m_buf
  pc,       \* where each worker is
  job,      \* the job each worker handles
  done,     \* history: the jobs each worker has handled, oldest first
  given,    \* history: how many jobs each worker was given
  stop      \* m_stop

vars == <<mainPc, created, work, working, index, target, next, buf, pc, job,
          done, given, stop>>

Init ==
  /\ mainPc = "create" /\ created = 0
  /\ work = [t \in Thread |-> FALSE] /\ working = 0
  /\ index = 0 /\ target = NoThread /\ next = 0
  /\ buf = [t \in Thread |-> <<>>]
  /\ pc = [t \in Thread |-> "none"]
  /\ job = [t \in Thread |-> 0]
  /\ done = [t \in Thread |-> <<>>]
  /\ given = [t \in Thread |-> 0]
  /\ stop = FALSE

-----------------------------------------------------------------------------
(* Main thread: create_threads, under m_threads_mutex                      *)

CreateThread ==
  LET t == created + 1 IN
  /\ mainPc = "create" /\ created < MaxThreads
  /\ work' = [work EXCEPT ![t] = created < MinThreads]
  /\ working' = IF created < MinThreads THEN working + 1 ELSE working
  /\ pc' = [pc EXCEPT ![t] = "top"]
  /\ created' = t
  /\ mainPc' = "init"
  /\ UNCHANGED <<index, target, next, buf, job, done, given, stop>>

(* init_mutex, init_cond, push_back.                                       *)
InitThread ==
  /\ mainPc = "init"
  /\ pc' = [pc EXCEPT ![created] = IF @ = "wait" THEN "orphan" ELSE @]
  /\ mainPc' = IF created < MaxThreads THEN "create" ELSE "run"
  /\ UNCHANGED <<created, work, working, index, target, next, buf, job, done,
                 given, stop>>

-----------------------------------------------------------------------------
(* Event thread: addJob                                                    *)

(* Wrong version: the bound test comes before the increment.               *)
ChooseThreadOffByOne ==
  /\ mainPc = "run" /\ target = NoThread /\ next < MaxJob
  /\ LET i == IF index >= working THEN 0 ELSE index + 1 IN
       /\ index' = i
       /\ target' = IF i + 1 \in Thread THEN i + 1 ELSE 1
  /\ next' = next + 1
  /\ UNCHANGED <<mainPc, created, work, working, buf, pc, job, done, given, stop>>

(* Under m_threads_mutex: the next thread, round robin over the working ones. *)
ChooseThread ==
  /\ mainPc = "run" /\ target = NoThread /\ next < MaxJob
  /\ index' = IF index + 1 >= working THEN 0 ELSE index + 1
  /\ target' = index' + 1
  /\ next' = next + 1
  /\ UNCHANGED <<mainPc, created, work, working, buf, pc, job, done, given, stop>>

(* Wrong version: push without signal_cond.                                *)
PushJobNoSignal ==
  /\ target # NoThread
  /\ buf' = [buf EXCEPT ![target] = Append(@, next)]
  /\ given' = [given EXCEPT ![target] = @ + 1]
  /\ target' = NoThread
  /\ UNCHANGED <<mainPc, created, work, working, index, next, pc, job, done, stop>>

(* Under the thread's m_mutex: push and signal.                            *)
PushJob ==
  /\ target # NoThread
  /\ buf' = [buf EXCEPT ![target] = Append(@, next)]
  /\ pc' = [pc EXCEPT ![target] = IF @ = "wait" THEN "get" ELSE @]
  /\ given' = [given EXCEPT ![target] = @ + 1]
  /\ target' = NoThread
  /\ UNCHANGED <<mainPc, created, work, working, index, next, job, done, stop>>

(* ThreadPool::stop.                                                       *)
Stop ==
  /\ mainPc = "run" /\ ~stop
  /\ stop' = TRUE
  /\ UNCHANGED <<mainPc, created, work, working, index, target, next, buf, pc,
                 job, done, given>>

-----------------------------------------------------------------------------
(* Workers: run(arg)                                                       *)

(* while (!m_stop), and the unlocked test whether to sleep.                *)
LoopTop(t) ==
  /\ pc[t] = "top"
  /\ pc' = [pc EXCEPT ![t] = IF stop THEN "exited"
                             ELSE IF ~work[t] /\ buf[t] = <<>> THEN "park"
                             ELSE "get"]
  /\ UNCHANGED <<mainPc, created, work, working, index, target, next, buf, job,
                 done, given, stop>>

(* Under m_threads_mutex, which create_threads holds until it is finished: *)
(* a thread that is not to work waits on m_threads_cond.                   *)
Park(t) ==
  /\ pc[t] = "park" /\ mainPc = "run"
  /\ pc' = [pc EXCEPT ![t] = IF work[t] THEN "get" ELSE "parked"]
  /\ UNCHANGED <<mainPc, created, work, working, index, target, next, buf, job,
                 done, given, stop>>

(* Under the thread's m_mutex: wait on m_cond while there is no job.       *)
AwaitJob(t) ==
  /\ pc[t] = "get" /\ buf[t] = <<>>
  /\ pc' = [pc EXCEPT ![t] = "wait"]
  /\ UNCHANGED <<mainPc, created, work, working, index, target, next, buf, job,
                 done, given, stop>>

(* Wrong version: the newest job first.                                    *)
TakeNewestJob(t) ==
  /\ pc[t] = "get" /\ buf[t] # <<>>
  /\ job' = [job EXCEPT ![t] = buf[t][Len(buf[t])]]
  /\ buf' = [buf EXCEPT ![t] = SubSeq(@, 1, Len(@) - 1)]
  /\ pc' = [pc EXCEPT ![t] = "work"]
  /\ UNCHANGED <<mainPc, created, work, working, index, target, next, done,
                 given, stop>>

TakeJob(t) ==
  /\ pc[t] = "get" /\ buf[t] # <<>>
  /\ job' = [job EXCEPT ![t] = Head(buf[t])]
  /\ buf' = [buf EXCEPT ![t] = Tail(@)]
  /\ pc' = [pc EXCEPT ![t] = "work"]
  /\ UNCHANGED <<mainPc, created, work, working, index, target, next, done,
                 given, stop>>

(* Recver::getData: the protocol handler runs to its end.                  *)
Handle(t) ==
  /\ pc[t] = "work"
  /\ done' = [done EXCEPT ![t] = Append(@, job[t])]
  /\ job' = [job EXCEPT ![t] = 0]
  /\ pc' = [pc EXCEPT ![t] = "top"]
  /\ UNCHANGED <<mainPc, created, work, working, index, target, next, buf, given,
                 stop>>

-----------------------------------------------------------------------------

WorkerStep(t) ==
  LoopTop(t) \/ Park(t) \/ AwaitJob(t) \/ TakeJob(t) \/ Handle(t)

Next ==
  \/ CreateThread \/ InitThread
  \/ ChooseThread \/ PushJob \/ Stop
  \/ \E t \in Thread : WorkerStep(t)

Spec == Init /\ [][Next]_vars

(* The scheduler runs every thread; nothing forces jobs or stop to come.   *)
FairSpec ==
  /\ Spec
  /\ WF_vars(CreateThread \/ InitThread) /\ WF_vars(PushJob)
  /\ \A t \in Thread : WF_vars(WorkerStep(t))

-----------------------------------------------------------------------------
(* Properties                                                              *)

(* Every variable has its type: in particular the index of addJob is       *)
(* within m_threads_vct.                                                   *)
TypeOK ==
  /\ mainPc \in {"create", "init", "run"} /\ created \in 0..MaxThreads
  /\ work \in [Thread -> BOOLEAN] /\ working \in 0..MaxThreads
  /\ index \in 0..(MaxThreads - 1)
  /\ target \in Thread \cup {NoThread} /\ next \in 0..MaxJob
  /\ buf \in [Thread -> Seq(Job)]
  /\ pc \in [Thread -> {"none", "top", "park", "parked", "get", "wait", "orphan",
                        "work", "exited"}]
  /\ job \in [Thread -> Job \cup {0}]
  /\ done \in [Thread -> Seq(Job)]
  /\ given \in [Thread -> 0..MaxJob]
  /\ stop \in BOOLEAN

(* The jobs of thread t that are not lost: handled, in hand, waiting.      *)
JobsOf(t) ==
  done[t] \o (IF job[t] = 0 THEN <<>> ELSE <<job[t]>>) \o buf[t]
    \o (IF target = t THEN <<next>> ELSE <<>>)

(* Every packet handed to addJob is with exactly one thread, once, from    *)
(* addJob to the end of its handler, and each thread handles its packets   *)
(* in the order they arrived.                                              *)
EachJobOnceInOrder ==
  /\ \A j \in 1..next : \E t \in Thread : \E i \in 1..Len(JobsOf(t)) : JobsOf(t)[i] = j
  /\ \A t \in Thread : \A i, k \in 1..Len(JobsOf(t)) :
       i < k => JobsOf(t)[i] < JobsOf(t)[k]
  /\ \A t, u \in Thread : t # u =>
       \A i \in 1..Len(JobsOf(t)), k \in 1..Len(JobsOf(u)) : JobsOf(t)[i] # JobsOf(u)[k]

(* No lost wake-up between addJob and the worker's wait: a worker sleeps   *)
(* on its condition variable only while it has no job.                     *)
NoSleepOnJob == \A t \in Thread : pc[t] = "wait" => buf[t] = <<>>

(* Only threads that were woken get jobs: one that is parked on            *)
(* m_threads_cond, which nobody signals without the managing thread, never *)
(* holds a job.                                                            *)
ParkedHaveNoJob ==
  \A t \in Thread : pc[t] \in {"park", "parked"} => buf[t] = <<>> /\ target # t

(* Round robin: the working threads' shares differ by at most one job.     *)
Share(t) == given[t] + (IF target = t THEN 1 ELSE 0)
Balanced ==
  \A t, u \in Thread : work[t] /\ work[u] => Share(t) - Share(u) \in {-1, 0, 1}

(* A job is eventually handled, unless the pool is stopped or the job went *)
(* to a thread that the late init_cond of create_threads orphaned.         *)
EventuallyHandled ==
  \A t \in Thread : buf[t] # <<>> ~> (buf[t] = <<>> \/ stop \/ pc[t] = "orphan")

(* ThreadPool.cpp:78 says of stop(): "stop all threads".                   *)
StopStopsAllThreads ==
  stop ~> \A t \in Thread : pc[t] = "exited"
=============================================================================
