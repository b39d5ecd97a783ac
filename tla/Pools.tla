-------------------------------- MODULE Pools --------------------------------
(***************************************************************************)
(* ThreadPool::start(managed): without the managing thread, as Recver      *)
(* starts the pool, it is module ThreadPool; with it, PoolScaling.  The    *)
(* two look at the pool in different detail, so that each has variables of *)
(* its own; those of the other one stay as they are at the start.          *)
(***************************************************************************)
EXTENDS ThreadPool

CONSTANTS
  MostThreads, LeastThreads, Gradient, Word, Samples, High, Low \* see PoolScaling

VARIABLES
  managed,  \* the argument of start
  size, awake, wakeNum, chosen, waiting, temp, sample, mutex, manager, at, ended

poolVars == vars
scalingVars ==
  <<size, awake, wakeNum, chosen, waiting, temp, sample, mutex, manager, at, ended>>

Scaling == INSTANCE PoolScaling
  WITH MaxThreads <- MostThreads, MinThreads <- LeastThreads,
       work <- awake, working <- wakeNum, target <- chosen, pc <- at, stop <- ended

ASSUME PoolsAssumption == Scaling!PoolScalingAssumption

PoolsInit == managed \in BOOLEAN /\ Init /\ Scaling!Init

PoolStep == ~managed /\ Next /\ UNCHANGED <<managed, scalingVars>>
ScalingStep == managed /\ Scaling!Next /\ UNCHANGED <<managed, poolVars>>

PoolsNext == PoolStep \/ ScalingStep

(* The fairness of each; see ThreadPool and PoolScaling.                   *)
PoolsFairness ==
  /\ WF_poolVars(~managed /\ (CreateThread \/ InitThread)) /\ WF_poolVars(~managed /\ PushJob)
  /\ \A t \in Thread : WF_poolVars(~managed /\ WorkerStep(t))
  /\ SF_scalingVars(managed /\ Scaling!Manager)
  /\ \A t \in Scaling!Thread :
       /\ WF_scalingVars(managed /\ (Scaling!LoopTop(t) \/ Scaling!Park(t)))
       /\ SF_scalingVars(managed /\ Scaling!Test(t))

poolsVars == <<managed, poolVars, scalingVars>>
PoolsSpec == PoolsInit /\ [][PoolsNext]_poolsVars /\ PoolsFairness

-----------------------------------------------------------------------------
(* Properties of the pool with its managing thread                         *)

(* However the managing thread moves m_working_num, and whenever it does,  *)
(* the threads that addJob chooses from are awake: a job does not go to a  *)
(* thread that stays parked.                                               *)
ChosenAreAwake == Scaling!ChosenAreAwake

(* The threads awake are the first ones of m_threads_vct: the walk from    *)
(* m_working_num on passes no sleeping thread over.                        *)
AwakeFirst == Scaling!AwakeFirst

(* A thread the managing thread wants awake does not stay parked: no       *)
(* wake-up is lost between its look at m_work and wait_cond.               *)
NoLostWakeUp == Scaling!NoLostWakeUp
=============================================================================
