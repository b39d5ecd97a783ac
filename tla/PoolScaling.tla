---------------------------- MODULE PoolScaling ----------------------------
(***************************************************************************)
(* The thread pool with its managing thread, as ThreadPool::start(true)    *)
(* runs it: MinThreads threads at first, the rest created parked, and a    *)
(* loop that samples how many jobs wait and moves m_working_num up or      *)
(* down.  The order of the jobs and the round robin of addJob are left to  *)
(* module ThreadPool; here a worker has jobs or not, looks whether it is   *)
(* to sleep, and parks on m_threads_cond.                                  *)
(***************************************************************************)
EXTENDS Integers, FiniteSets

CONSTANTS
  MaxThreads, MinThreads, Gradient, \* the arguments of ThreadPool::init
  Word,     \* the modulus of unsigned int, 2^32
  Samples,  \* numbers of jobs the managing thread may find waiting
  High, Low \* 50000 and 10000 jobs

PoolScalingAssumption ==
  /\ MaxThreads \in Nat \ {0} /\ MinThreads \in 1..MaxThreads
  /\ Gradient \in Nat
  /\ Word \in Nat /\ Word > MaxThreads
  /\ Samples \subseteq 0..(Word - 1) /\ High \in Nat /\ Low \in Nat

Thread == 0..(MaxThreads - 1)
Nobody == -1

VARIABLES
  size,     \* m_threads_vct.size()
  work,     \* thread_info::m_work
  working,  \* m_working_num
  target,   \* addJob between its two critical sections: the thread chosen
  waiting,  \* the threads whose m_buf is not empty
  temp,     \* the static variable of run(): the sample before
  sample,   \* size in run(), the sample of this round
  mutex,    \* who holds m_threads_mutex across a step, if anyone does
  manager,  \* where the managing thread is
  pc,       \* where each worker is
  stop      \* m_stop

vars == <<size, work, working, target, waiting, temp, sample, mutex, manager, pc, stop>>

(* start(true) has called create_threads and startThread.                  *)
Init ==
  /\ size = MinThreads
  /\ work = [t \in Thread |-> t < MinThreads]
  /\ working = MinThreads /\ target = Nobody /\ waiting = {}
  /\ temp = Nobody /\ sample = 0 /\ mutex = Nobody
  /\ manager = "loop" /\ stop = FALSE
  /\ pc = [t \in Thread |-> IF t < MinThreads THEN "top" ELSE "none"]

-----------------------------------------------------------------------------
(* The managing thread: run()                                              *)

AtMost(a, b) == IF a > b THEN b ELSE a

(* (size - temp) % 100 > 3, in unsigned arithmetic.                        *)
Trend == ((sample - temp) % Word) % 100 > 3
Up == (Trend /\ sample > temp) \/ sample > High

Down == Trend /\ sample < Low /\ sample < temp /\ working > MinThreads

(* Wrong version: the walk leaves the first sleeping thread out.           *)
WalkedFromNext == {t \in Thread : working < t /\ t <= working + AtMost(size - working, Gradient)}

(* The threads both loops walk over.                                       *)
Walked == {t \in Thread : working <= t /\ t < working + AtMost(size - working, Gradient)}

Sample ==
  /\ manager = "loop" /\ ~stop
  /\ sample' \in Samples
  /\ temp' = IF temp = Nobody THEN sample' ELSE temp
  /\ manager' = IF MaxThreads > size THEN "create" ELSE "adjust"
  /\ UNCHANGED <<size, work, working, target, waiting, mutex, pc, stop>>

(* create_threads: new threads work only while there are fewer than        *)
(* MinThreads.                                                             *)
Create ==
  LET n == size + AtMost(MaxThreads - size, MinThreads)
      started == size..(n - 1)
  IN
  /\ manager = "create" /\ mutex = Nobody
  /\ size' = n
  /\ work' = [t \in Thread |-> IF t \in started THEN t < MinThreads ELSE work[t]]
  /\ working' = working + AtMost(n, MinThreads) - AtMost(size, MinThreads)
  /\ pc' = [t \in Thread |-> IF t \in started THEN "top" ELSE pc[t]]
  /\ manager' = "loop"
  /\ UNCHANGED <<target, waiting, temp, sample, mutex, stop>>

(* Threads that were left awake when m_working_num sank are not counted.   *)
ScaleUp ==
  /\ manager = "adjust" /\ Up /\ size > working /\ mutex = Nobody
  /\ work' = [t \in Thread |-> work[t] \/ t \in Walked]
  /\ working' = (working + Cardinality({t \in Walked : ~work[t]})) % Word
  /\ temp' = sample
  /\ manager' = "broadcast"
  /\ UNCHANGED <<size, target, waiting, sample, mutex, pc, stop>>

(* Wrong version: the walk starts at the first thread.                     *)
PutToSleepFromFirst == [t \in Thread |-> work[t] /\ t >= Cardinality(Walked)]

(* The walk goes up from m_working_num, over threads that sleep already.   *)
PutToSleep == [t \in Thread |-> work[t] /\ t \notin Walked]

ScaleDown ==
  /\ manager = "adjust" /\ Down /\ mutex = Nobody
  /\ work' = PutToSleep
  /\ working' = (working - Cardinality(Walked)) % Word
  /\ temp' = sample /\ manager' = "loop"
  /\ UNCHANGED <<size, target, waiting, sample, mutex, pc, stop>>

Keep ==
  /\ manager = "adjust" /\ ~Down /\ ~(Up /\ size > working)
  /\ temp' = sample /\ manager' = "loop"
  /\ UNCHANGED <<size, work, working, target, waiting, sample, mutex, pc, stop>>

(* broadcast_cond: every parked thread competes for the mutex again.       *)
Woken == {t \in Thread : pc[t] = "parked"}
Broadcast(next) ==
  /\ pc' = [t \in Thread |-> IF t \in Woken THEN "test" ELSE pc[t]]
  /\ manager' = next

BroadcastAfterUp ==
  /\ manager = "broadcast"
  /\ Broadcast("loop")
  /\ UNCHANGED <<size, work, working, target, waiting, temp, sample, mutex, stop>>

(* The loop has ended: every m_work is set, without m_threads_mutex.       *)
WakeAll ==
  /\ manager = "loop" /\ stop
  /\ work' = [t \in Thread |-> work[t] \/ t < size]
  /\ manager' = "last"
  /\ UNCHANGED <<size, working, target, waiting, temp, sample, mutex, pc, stop>>

LastBroadcast ==
  /\ manager = "last"
  /\ Broadcast("ended")
  /\ UNCHANGED <<size, work, working, target, waiting, temp, sample, mutex, stop>>

-----------------------------------------------------------------------------
(* Workers: run(arg); other threads                                        *)

Step(t, from, to) == pc[t] = from /\ pc' = [pc EXCEPT ![t] = to]
Unmanaged == UNCHANGED <<size, work, working, temp, sample, manager, stop>>

(* while (!m_stop), and the unlocked look at m_work and m_buf.             *)
LoopTop(t) ==
  /\ Step(t, "top", IF stop THEN "exited"
                    ELSE IF ~work[t] /\ t \notin waiting THEN "test" ELSE "run")
  /\ UNCHANGED <<mutex, target, waiting>> /\ Unmanaged

(* Wrong version: the mutex is only taken for wait_cond.                   *)
TestUnlocked(t) ==
  /\ mutex = Nobody
  /\ Step(t, "test", IF ~work[t] THEN "wait" ELSE IF stop THEN "exited" ELSE "run")
  /\ UNCHANGED <<target, waiting, mutex>> /\ Unmanaged

(* Under m_threads_mutex: on with the work, or on to wait_cond.            *)
Test(t) ==
  /\ mutex = Nobody
  /\ IF work[t] THEN Step(t, "test", IF stop THEN "exited" ELSE "run") /\ mutex' = Nobody
     ELSE Step(t, "test", "wait") /\ mutex' = t
  /\ UNCHANGED <<target, waiting>> /\ Unmanaged

(* wait_cond: sleeps and releases the mutex in one.                        *)
Park(t) ==
  /\ Step(t, "wait", "parked")
  /\ mutex' = Nobody
  /\ UNCHANGED <<target, waiting>> /\ Unmanaged

(* The worker waits for a job and handles it.                              *)
RunJob(t) ==
  /\ t \in waiting /\ Step(t, "run", "top")
  /\ waiting' = waiting \ {t}
  /\ UNCHANGED <<mutex, target>> /\ Unmanaged

(* addJob: a thread is chosen under m_threads_mutex ...                    *)
ChooseThread ==
  /\ mutex = Nobody /\ target = Nobody
  /\ \E t \in Thread : (t < working \/ t = 0) /\ target' = t
  /\ UNCHANGED <<waiting, mutex, pc>> /\ Unmanaged

(* ... and given the job under its own mutex.                              *)
PushJob ==
  /\ target # Nobody
  /\ waiting' = waiting \cup {target} /\ target' = Nobody
  /\ UNCHANGED <<mutex, pc>> /\ Unmanaged

Stop == ~stop /\ stop' = TRUE
        /\ UNCHANGED <<size, work, working, target, waiting, temp, sample, mutex, manager, pc>>

-----------------------------------------------------------------------------

Manager ==
  \/ Sample \/ Create \/ ScaleUp \/ ScaleDown \/ Keep
  \/ BroadcastAfterUp \/ WakeAll \/ LastBroadcast
Worker(t) == LoopTop(t) \/ Test(t) \/ Park(t) \/ RunJob(t)

Next == Manager \/ ChooseThread \/ PushJob \/ Stop \/ \E t \in Thread : Worker(t)

(* The scheduler runs every thread; a mutex is granted to who waits for it *)
(* again and again.  Nothing forces jobs or stop to come.                  *)
Fairness ==
  /\ SF_vars(Manager)
  /\ \A t \in Thread : WF_vars(LoopTop(t) \/ Park(t)) /\ SF_vars(Test(t))

Spec == Init /\ [][Next]_vars
FairSpec == Spec /\ Fairness

-----------------------------------------------------------------------------
(* Properties                                                              *)

(* Types; threads exist from the first on, up to m_threads_vct.size().     *)
TypeOK ==
  /\ size \in MinThreads..MaxThreads
  /\ work \in [Thread -> BOOLEAN] /\ working \in 0..size
  /\ target \in Thread \cup {Nobody} /\ waiting \subseteq Thread
  /\ temp \in Samples \cup {Nobody} /\ sample \in Samples \cup {0}
  /\ mutex \in Thread \cup {Nobody}
  /\ manager \in {"loop", "create", "adjust", "broadcast", "last", "ended"}
  /\ pc \in [Thread -> {"none", "top", "test", "wait", "parked", "run", "exited"}]
  /\ stop \in BOOLEAN

(* However the managing thread moves m_working_num, and whenever it does,  *)
(* the threads that addJob chooses from are awake: a job does not go to a  *)
(* thread that stays parked.                                               *)
ChosenAreAwake == \A t \in Thread : t < working => work[t]

(* The threads awake are the first ones of m_threads_vct: the walk from    *)
(* m_working_num on passes no sleeping thread over.                        *)
AwakeFirst == \A t, u \in Thread : t < u /\ work[u] => work[t]

(* A thread the managing thread wants awake does not stay parked: no       *)
(* wake-up is lost between its look at m_work and wait_cond.               *)
NoLostWakeUp ==
  \A t \in Thread : (pc[t] = "parked" /\ work[t]) ~> (pc[t] # "parked" \/ stop)

(* ThreadPool.cpp:28 calls m_working_num the "wake up num": the number of  *)
(* threads that are awake.                                                 *)
WorkingIsWakeUpNum ==
  manager = "loop" /\ ~stop => working = Cardinality({t \in Thread : work[t]})

(* "check should sleep?" (ThreadPool.cpp:126): a worker sleeps only while  *)
(* it is not to work and has no job.                                       *)
SleepsWithoutJob == \A t \in Thread : pc[t] = "parked" => t \notin waiting

(* ThreadPool.cpp:220 ff. wakes all threads when the loop has ended, after *)
(* stop(), which is to "stop all threads": none is left parked.            *)
NoneParkedAtEnd == manager = "ended" => \A t \in Thread : pc[t] # "parked"
=============================================================================
