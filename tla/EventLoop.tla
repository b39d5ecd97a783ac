------------------------------ MODULE EventLoop ------------------------------
(***************************************************************************)
(* The event thread's loop, the timers it runs once a second, the lock     *)
(* that guards their list, and stop(), called by any thread.               *)
(*                                                                         *)
(* Timer has one event at libevent, serverCron; it calls everything in     *)
(* m_timers, with m_lock held for reading.  Handlers on the event thread   *)
(* (NodeMgr::start) and on workers add timers, with m_lock for writing.    *)
(***************************************************************************)
EXTENDS Naturals

CONSTANTS
  Worker,    \* threads that run handlers
  MaxTimers, \* bound: how many timers there may be
  Stoppers   \* where stop() is called: a subset of {"callback", "event", "worker"}

EventLoopAssumption == MaxTimers \in Nat \ {0} /\ "none" \notin Worker

VARIABLES
  pc,       \* the event thread: "test", "enter", "poll", "locking", "cron", "left"
  wpc,      \* each worker: "idle", "locking", "adding", "stopping"
  m_timers, \* how many timers there are; they are 1..m_timers
  it,       \* serverCron's iterator
  readers,  \* m_lock: the event thread reads
  writer,   \* m_lock: who writes, "none" if nobody does
  m_stop,   \* NetManager::m_stop
  brk,      \* libevent's event_break
  asked,    \* timers handlers have asked for
  ran       \* timers that have been called at least once

vars == <<pc, wpc, m_timers, it, readers, writer, m_stop, brk, asked, ran>>

Init ==  \* IMServer::start: startTimer, addTimer(counter)
  /\ pc = "test" /\ wpc = [w \in Worker |-> "idle"]
  /\ m_timers = 1 /\ asked = 1 /\ ran = {}
  /\ it = 1 /\ readers = FALSE /\ writer = "none"
  /\ m_stop = FALSE /\ brk = FALSE

-----------------------------------------------------------------------------
(* The loop                                                                *)

(* NetManager::loop                                                        *)
Test ==
  /\ pc = "test"
  /\ pc' = IF m_stop THEN "left" ELSE "enter"
  /\ UNCHANGED <<wpc, m_timers, it, readers, writer, m_stop, brk, asked, ran>>

(* event_base_dispatch begins.                                             *)
Enter ==
  /\ pc = "enter"
  /\ pc' = "poll" /\ brk' = FALSE
  /\ UNCHANGED <<wpc, m_timers, it, readers, writer, m_stop, asked, ran>>

(* It returns after loopbreak.                                             *)
Break ==
  /\ pc = "poll" /\ brk
  /\ pc' = "test"
  /\ UNCHANGED <<wpc, m_timers, it, readers, writer, m_stop, brk, asked, ran>>

-----------------------------------------------------------------------------
(* Timers                                                                  *)

(* The timer's event: serverCron waits for m_lock, then reads.             *)
Tick ==
  /\ pc = "poll" /\ ~brk
  /\ pc' = "locking"
  /\ UNCHANGED <<wpc, m_timers, it, readers, writer, m_stop, brk, asked, ran>>

CronLocks ==
  /\ pc = "locking" /\ writer = "none"
  /\ readers' = TRUE /\ it' = 1 /\ pc' = "cron"
  /\ UNCHANGED <<wpc, m_timers, writer, m_stop, brk, asked, ran>>

(* NetServer::stop and NetManager::stop by the event thread.               *)
StopHere(where) ==
  IF where \in Stoppers /\ ~m_stop
    THEN \/ m_stop' = TRUE /\ brk' = TRUE
         \/ UNCHANGED <<m_stop, brk>>
    ELSE UNCHANGED <<m_stop, brk>>

CallBack ==
  /\ pc = "cron" /\ it <= m_timers
  /\ ran' = ran \cup {it}
  /\ it' = it + 1
  /\ StopHere("callback")
  /\ UNCHANGED <<pc, wpc, m_timers, readers, writer, asked>>

(* Wrong version: the lock is not released.                                *)
CronEndsLocked ==
  /\ pc = "cron" /\ it > m_timers
  /\ pc' = "poll"
  /\ UNCHANGED <<wpc, m_timers, it, readers, writer, m_stop, brk, asked, ran>>

CronEnds ==
  /\ pc = "cron" /\ it > m_timers
  /\ readers' = FALSE /\ pc' = "poll"
  /\ UNCHANGED <<wpc, m_timers, it, writer, m_stop, brk, asked, ran>>

CanAsk == asked < MaxTimers

(* A handler on the event thread adds a timer (NodeMgr::start), or stops.  *)
Handler ==
  /\ pc = "poll" /\ ~brk
  /\ \/ /\ CanAsk /\ writer = "none"
        /\ asked' = asked + 1 /\ m_timers' = m_timers + 1
        /\ UNCHANGED <<m_stop, brk>>
     \/ "event" \in Stoppers /\ StopHere("event") /\ UNCHANGED <<asked, m_timers>>
  /\ UNCHANGED <<pc, wpc, it, readers, writer, ran>>

(* A handler on a worker calls addTimer.                                   *)
WorkerAsks(w) ==
  /\ wpc[w] = "idle" /\ CanAsk
  /\ wpc' = [wpc EXCEPT ![w] = "locking"]
  /\ asked' = asked + 1
  /\ UNCHANGED <<pc, m_timers, it, readers, writer, m_stop, brk, ran>>

(* Wrong version: addTimer locks for reading.                              *)
MayWriteAsReader == writer = "none"

MayWrite == writer = "none" /\ ~readers

WorkerLocks(w) ==
  /\ wpc[w] = "locking" /\ MayWrite
  /\ writer' = w /\ wpc' = [wpc EXCEPT ![w] = "adding"]
  /\ UNCHANGED <<pc, m_timers, it, readers, m_stop, brk, asked, ran>>

WorkerAdds(w) ==
  /\ wpc[w] = "adding"
  /\ m_timers' = m_timers + 1
  /\ writer' = "none" /\ wpc' = [wpc EXCEPT ![w] = "idle"]
  /\ UNCHANGED <<pc, it, readers, m_stop, brk, asked, ran>>

-----------------------------------------------------------------------------
(* stop() on a worker                                                      *)

WorkerStops(w) ==
  /\ wpc[w] = "idle" /\ "worker" \in Stoppers /\ ~m_stop
  /\ m_stop' = TRUE /\ wpc' = [wpc EXCEPT ![w] = "stopping"]
  /\ UNCHANGED <<pc, m_timers, it, readers, writer, brk, asked, ran>>

WorkerBreaks(w) ==
  /\ wpc[w] = "stopping"
  /\ brk' = TRUE /\ wpc' = [wpc EXCEPT ![w] = "idle"]
  /\ UNCHANGED <<pc, m_timers, it, readers, writer, m_stop, asked, ran>>

Event == Test \/ Enter \/ Break \/ Tick \/ CronLocks \/ CallBack \/ CronEnds
Next == Event \/ Handler
        \/ \E w \in Worker : WorkerAsks(w) \/ WorkerLocks(w) \/ WorkerAdds(w)
                             \/ WorkerStops(w) \/ WorkerBreaks(w)

(* The threads run; a waiting writer gets the lock in one of the pauses    *)
(* of about a second between two crons.                                    *)
Fairness ==
  /\ WF_vars(Event)
  /\ \A w \in Worker : WF_vars(WorkerAdds(w)) /\ WF_vars(WorkerBreaks(w))
                       /\ SF_vars(WorkerLocks(w))

Spec == Init /\ [][Next]_vars /\ Fairness

-----------------------------------------------------------------------------
(* Properties                                                              *)

(* Types; and the lock is held by a writer or by readers.                  *)
TypeOK ==
  /\ pc \in {"test", "enter", "poll", "locking", "cron", "left"}
  /\ wpc \in [Worker -> {"idle", "locking", "adding", "stopping"}]
  /\ it \in 1..(MaxTimers + 1) /\ 1 <= m_timers /\ m_timers <= asked /\ asked <= MaxTimers
  /\ readers = (pc = "cron") /\ (writer # "none" => ~readers)

(* A round of serverCron calls the timers that were there when it began:   *)
(* no element is linked into the list while the iterator is in it.         *)
ListIsStill == [][pc = "cron" => m_timers' = m_timers]_vars

(* Whoever adds a timer, it is called, again and again, unless the loop is *)
(* stopped: neither the cron's hold on the lock nor a stream of writers    *)
(* keeps it out.                                                           *)
TimersRun == \A n \in 1..MaxTimers : asked >= n ~> n \in ran \/ m_stop

(* "Stop the event loop" (NetServer.h:34): after stop() the loop ends.     *)
StopEndsLoop == m_stop ~> pc = "left"
=============================================================================
