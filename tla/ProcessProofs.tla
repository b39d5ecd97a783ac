--------------------------- MODULE ProcessProofs ----------------------------
(***************************************************************************)
(* Proofs about Process: for any number of processes, commands, workers,   *)
(* timers, sockets, queries and failures, with and without a daemon and an *)
(* http port, and any files.  The inductive invariant IInv has one part    *)
(* for each of the four things a process does.                             *)
(*                                                                         *)
(* ServerInv: WritePid keeps PidFileNamesServer because the ports are a    *)
(* lock: whoever gets as far as the pid file listens on "tcp", and so does *)
(* whoever serves; hence they are the same process.                        *)
(*                                                                         *)
(* LoopInv: m_lock, seen from where its holders are, and a count of the    *)
(* timers that have been asked for.                                        *)
(*                                                                         *)
(* QueryInv: a context and a socket inside connect never exist together,   *)
(* and the two pieces of a command and of its reply are in one of a few    *)
(* places, all of them empty when no query is under way.                   *)
(*                                                                         *)
(* ConfigInv: between two pieces of a file whose lines fit the buffer,     *)
(* pos is at a line's beginning or end and the map holds the settings of   *)
(* the lines before it (Loading); values have no blanks around them, so    *)
(* that behind a blank in the list another word begins, and the tokens so  *)
(* far are the words that begin before the cursor (Cutting).               *)
(***************************************************************************)
EXTENDS Process, FiniteSetTheorems, SequenceTheorems, WellFoundedInduction, TLAPS

-----------------------------------------------------------------------------
(* Start and stop                                                          *)

PcState == {"none", "foreign", "signal", "daemon", "tcp", "http", "pidfile",
            "serving", "done"}

(* Who has passed a port listens on it.                                    *)
Listens ==
  \A p \in Pid :
    /\ pc[p] \in {"http", "pidfile", "serving"} => owner["tcp"] = p
    /\ pc[p] \in {"pidfile", "serving"} => \A t \in Port : owner[t] = p

ServerTypes ==
  /\ pc \in [Pid -> PcState] /\ cmd \in [Pid -> Command]
  /\ dying \subseteq Pid /\ pidfile \in Pid \cup {NoPid}
  /\ owner \in [Port -> Pid \cup {NoPid}]

ServerInv == ServerTypes /\ Listens /\ PidFileNamesServer

-----------------------------------------------------------------------------
(* The order of IMServer::init                                             *)

LEMMA AfterIs ==
  /\ Steps[1] = "tcp"
  /\ After("tcp") = IF Http THEN "http" ELSE "pidfile"
  /\ Http => After("http") = "pidfile"
  /\ After("pidfile") = "serving"
<1>1. CASE Http
  <2>1. Steps = <<"tcp", "http", "pidfile">>
    BY <1>1 DEF Steps
  <2>2. DOMAIN Steps = 1..3 /\ Len(Steps) = 3
    BY <2>1
  <2>3. (CHOOSE j \in DOMAIN Steps : Steps[j] = "tcp") = 1
    BY <2>1, <2>2
  <2>4. (CHOOSE j \in DOMAIN Steps : Steps[j] = "http") = 2
    BY <2>1, <2>2
  <2>5. (CHOOSE j \in DOMAIN Steps : Steps[j] = "pidfile") = 3
    BY <2>1, <2>2
  <2>. QED
    BY <1>1, <2>1, <2>2, <2>3, <2>4, <2>5 DEF After
<1>2. CASE ~Http
  <2>1. Steps = <<"tcp", "pidfile">>
    BY <1>2 DEF Steps
  <2>2. DOMAIN Steps = 1..2 /\ Len(Steps) = 2
    BY <2>1
  <2>3. (CHOOSE j \in DOMAIN Steps : Steps[j] = "tcp") = 1
    BY <2>1, <2>2
  <2>4. (CHOOSE j \in DOMAIN Steps : Steps[j] = "pidfile") = 2
    BY <2>1, <2>2
  <2>. QED
    BY <1>2, <2>1, <2>2, <2>3, <2>4 DEF After
<1>. QED
  BY <1>1, <1>2

-----------------------------------------------------------------------------
(* The invariant                                                           *)

LEMMA ServerInit == Init => ServerInv
BY LifecycleAssumption
  DEF Init, ServerInv, ServerTypes, Listens, PidFileNamesServer, PcState, Command, Port

(* A process that ends gives up its ports and passes through no state.     *)
LEMMA EndsStep ==
  ASSUME ServerInv, NEW p \in Pid, Ends(p), UNCHANGED <<cmd, pidfile>>
  PROVE  ServerInv'
BY LifecycleAssumption
  DEF ServerInv, Ends, ServerTypes, Listens, PidFileNamesServer, PcState, Port

(* A step that moves processes into states before the ports.               *)
LEMMA EarlyStep ==
  ASSUME ServerInv, UNCHANGED <<pidfile, owner>>, dying' \subseteq Pid,
         cmd' \in [Pid -> Command], pc' \in [Pid -> PcState],
         \A p \in Pid : pc'[p] = pc[p] \/ pc'[p] \notin {"http", "pidfile", "serving"}
  PROVE  ServerInv'
BY DEF ServerInv, ServerTypes, Listens, PidFileNamesServer

LEMMA HandlerSignalStep ==
  ASSUME ServerInv, NEW p \in Pid, HandlerSignal(p)
  PROVE  ServerInv'
<1>1. CASE Exit(p)
  BY <1>1, EndsStep DEF Exit
<1>2. CASE ~Exit(p)
  <2>1. /\ dying' \subseteq Pid /\ UNCHANGED <<cmd, pidfile, owner>>
        /\ pc' = [pc EXCEPT ![p] = IF cmd[p] = "restart" THEN "daemon" ELSE "done"]
    BY <1>2 DEF HandlerSignal, GoesOn, ServerInv, ServerTypes
  <2>. QED
    BY <2>1, EarlyStep DEF ServerInv, ServerTypes, PcState
<1>. QED
  BY <1>1, <1>2

LEMMA ForkStep ==
  ASSUME ServerInv, NEW p \in Pid, Fork(p)
  PROVE  ServerInv'
<1>1. /\ UNCHANGED <<dying, pidfile, owner>>
      /\ pc \in [Pid -> PcState] /\ cmd \in [Pid -> Command] /\ dying \subseteq Pid
  BY DEF Fork, ServerInv, ServerTypes
<1>2. CASE Daemon
  <2>1. PICK q \in Pid : /\ pc' = [pc EXCEPT ![p] = "done", ![q] = "tcp"]
                         /\ cmd' = [cmd EXCEPT ![q] = cmd[p]]
    BY <1>2, AfterIs DEF Fork
  <2>. QED
    BY <1>1, <2>1, EarlyStep DEF PcState
<1>3. CASE ~Daemon
  <2>1. pc' = [pc EXCEPT ![p] = "tcp"] /\ UNCHANGED cmd
    BY <1>3, AfterIs DEF Fork
  <2>. QED
    BY <1>1, <2>1, EarlyStep DEF PcState
<1>. QED
  BY <1>2, <1>3

(* No one who has passed "tcp" exists when the port is free; what the      *)
(* process goes on to, it may.                                             *)
LEMMA BindStep ==
  ASSUME ServerInv, NEW p \in Pid, NEW t \in Port, Bind(p, t)
  PROVE  ServerInv'
<1>1. CASE Exit(p)
  BY <1>1, EndsStep DEF Exit
<1>2. CASE ~Exit(p)
  <2>1. /\ pc[p] = t /\ owner[t] = NoPid
        /\ owner' = [owner EXCEPT ![t] = p] /\ pc' = [pc EXCEPT ![p] = After(t)]
        /\ UNCHANGED <<cmd, dying, pidfile>>
    BY <1>2 DEF Bind, Runs
  <2>2. \/ t = "tcp" /\ After(t) = (IF Http THEN "http" ELSE "pidfile")
        \/ Http /\ t = "http" /\ After(t) = "pidfile"
    BY AfterIs DEF Port
  <2>3. ServerTypes'
    BY <2>1, <2>2 DEF ServerInv, ServerTypes, PcState
  <2>4. \A q \in Pid : q # p /\ pc[q] \in {"pidfile", "serving"} => owner[t] = q
    BY DEF ServerInv, Listens
  <2>5. t = "tcp" => \A q \in Pid : pc[q] \notin {"http", "pidfile", "serving"}
    BY <2>1, LifecycleAssumption DEF ServerInv, Listens
  <2>6. Listens'
    BY <2>1, <2>2, <2>5, LifecycleAssumption DEF ServerInv, ServerTypes, Listens, Port
  <2>7. PidFileNamesServer'
    BY <2>1, <2>2 DEF ServerInv, ServerTypes, PidFileNamesServer
  <2>. QED
    BY <2>3, <2>6, <2>7 DEF ServerInv
<1>. QED
  BY <1>1, <1>2

LEMMA WritePidStep ==
  ASSUME ServerInv, NEW p \in Pid, WritePid(p)
  PROVE  ServerInv'
<1>1. /\ pc[p] = "pidfile" /\ pidfile' = p
      /\ pc' = [pc EXCEPT ![p] = "serving"] /\ UNCHANGED <<cmd, dying, owner>>
  BY AfterIs DEF WritePid, Runs
<1>2. ServerTypes'
  BY <1>1 DEF ServerInv, ServerTypes, PcState
<1>3. Listens'
  BY <1>1 DEF ServerInv, ServerTypes, Listens
<1>4. \A q \in Pid : pc[q] = "serving" => q = p
  BY <1>1 DEF ServerInv, Listens
<1>5. PidFileNamesServer'
  BY <1>1, <1>4 DEF ServerInv, ServerTypes, PidFileNamesServer
<1>. QED
  BY <1>2, <1>3, <1>5 DEF ServerInv

LEMMA ServerNext == ServerInv /\ [Next]_vars => ServerInv'
<1>. SUFFICES ASSUME ServerInv, [Next]_vars PROVE ServerInv'
  OBVIOUS
<1>0. /\ pc \in [Pid -> PcState] /\ cmd \in [Pid -> Command] /\ dying \subseteq Pid
  BY DEF ServerInv, ServerTypes
<1>1. CASE UNCHANGED vars
  BY <1>1 DEF vars, ServerInv, ServerTypes, Listens, PidFileNamesServer
<1>2. ASSUME NEW p \in Pid, Step(p) PROVE ServerInv'
  <2>1. CASE Done(p)
    BY <2>1, EndsStep DEF Done, Exit
  <2>. QED
    BY <1>2, <2>1, HandlerSignalStep, ForkStep, WritePidStep, BindStep DEF Step
<1>3. ASSUME NEW p \in Pid, Dies(p) \/ Crash(p) \/ ForeignEnds(p) PROVE ServerInv'
  BY <1>3, EndsStep DEF Dies, Crash, ForeignEnds
<1>4. ASSUME NEW p \in Pid, Foreign(p) PROVE ServerInv'
  <2>1. pc' = [pc EXCEPT ![p] = "foreign"] /\ UNCHANGED <<cmd, dying, pidfile, owner>>
    BY <1>4 DEF Foreign
  <2>. QED
    BY <1>0, <2>1, EarlyStep DEF PcState
<1>5. ASSUME NEW p \in Pid, NEW c \in Command, Launch(p, c) PROVE ServerInv'
  <2>1. /\ pc' = [pc EXCEPT ![p] = IF c = "start" THEN "daemon" ELSE "signal"]
        /\ cmd' = [cmd EXCEPT ![p] = c] /\ UNCHANGED <<dying, pidfile, owner>>
    BY <1>5 DEF Launch
  <2>. QED
    BY <1>0, <2>1, EarlyStep DEF PcState
<1>. QED
  BY <1>1, <1>2, <1>3, <1>4, <1>5 DEF Next


-----------------------------------------------------------------------------
(* The event loop                                                          *)

(* Workers whose call of addTimer has begun and has not yet added.         *)
Adders == {w \in Worker : wpc[w] \in {"locking", "adding"}}

LoopTypes ==
  /\ loopPc \in {"test", "enter", "poll", "locking", "cron", "left"}
  /\ wpc \in [Worker -> {"idle", "locking", "adding", "stopping"}]
  /\ m_timers \in Nat \ {0} /\ asked \in Nat /\ asked <= MaxTimers
  /\ it \in 1..(m_timers + 1) /\ readers \in BOOLEAN

(* m_lock: whoever is inside a part it guards holds it.                    *)
Lock ==
  /\ readers <=> loopPc = "cron"
  /\ writer # "none" => ~readers
  /\ \A w \in Worker : wpc[w] = "adding" => writer = w

(* Every timer asked for is in the list, or one worker is about to add it. *)
Counted == asked = m_timers + Cardinality(Adders)

LoopInv == LoopTypes /\ Lock /\ Counted

LEMMA AddersFinite == IsFiniteSet(Adders) /\ Cardinality(Adders) \in Nat
<1>1. IsFiniteSet(Worker)
  BY ProcessAssumption
<1>2. Adders \subseteq Worker
  BY DEF Adders
<1>. QED
  BY <1>1, <1>2, FS_Subset, FS_CardinalityType

LEMMA LoopInit == Loop!Init => LoopInv
<1>. SUFFICES ASSUME Loop!Init PROVE LoopInv
  OBVIOUS
<1>1. Adders = {}
  BY DEF Loop!Init, Adders
<1>2. Cardinality(Adders) = 0
  BY <1>1, FS_EmptySet
<1>3. LoopTypes
  <2>1. MaxTimers >= 1
    BY ProcessAssumption DEF Loop!EventLoopAssumption
  <2>2. readers \in BOOLEAN /\ wpc \in [Worker -> {"idle", "locking", "adding", "stopping"}]
    BY DEF Loop!Init
  <2>. QED
    BY <2>1, <2>2 DEF LoopTypes, Loop!Init
<1>4. Lock
  BY DEF Lock, Loop!Init
<1>5. Counted
  BY <1>2 DEF Counted, Loop!Init
<1>. QED
  BY <1>3, <1>4, <1>5 DEF LoopInv

(* Where stop() is called from only adds to what may happen.               *)
LEMMA LoopIsThreads == Loop!Next => Threads!Next
BY DEF Loop!Next, Loop!Event, Loop!Test, Loop!Enter, Loop!Break, Loop!Tick, Loop!CronLocks,
  Loop!CallBack, Loop!CronEnds, Loop!Handler, Loop!StopHere, Loop!CanAsk, Loop!WorkerAsks,
  Loop!WorkerLocks, Loop!WorkerAdds, Loop!WorkerStops, Loop!WorkerBreaks, Loop!MayWrite,
  Threads!Next, Threads!Event, Threads!Test, Threads!Enter, Threads!Break, Threads!Tick,
  Threads!CronLocks, Threads!CallBack, Threads!CronEnds, Threads!Handler, Threads!StopHere,
  Threads!CanAsk, Threads!WorkerAsks, Threads!WorkerLocks, Threads!WorkerAdds,
  Threads!WorkerStops, Threads!WorkerBreaks, Threads!MayWrite

LEMMA EventStep ==
  ASSUME LoopInv, Threads!Event
  PROVE  LoopInv'
<1>1. wpc' = wpc /\ m_timers' = m_timers /\ asked' = asked /\ writer' = writer
  BY DEF Threads!Event, Threads!Test, Threads!Enter, Threads!Break, Threads!Tick,
     Threads!CronLocks, Threads!CallBack, Threads!CronEnds
<1>2. Counted'
  BY <1>1 DEF LoopInv, Counted, Adders
<1>3. LoopTypes' /\ Lock'
  <2>1. CASE Threads!Test
    BY <2>1, <1>1 DEF Threads!Test, LoopInv, LoopTypes, Lock
  <2>2. CASE Threads!Enter \/ Threads!Break \/ Threads!Tick
    BY <2>2, <1>1 DEF Threads!Enter, Threads!Break, Threads!Tick, LoopInv, LoopTypes, Lock
  <2>3. CASE Threads!CronLocks
    BY <2>3, <1>1, ProcessAssumption
    DEF Threads!CronLocks, LoopInv, LoopTypes, Lock, Loop!EventLoopAssumption
  <2>4. CASE Threads!CallBack
    BY <2>4, <1>1 DEF Threads!CallBack, LoopInv, LoopTypes, Lock
  <2>5. CASE Threads!CronEnds
    BY <2>5, <1>1 DEF Threads!CronEnds, LoopInv, LoopTypes, Lock
  <2>. QED
    BY <2>1, <2>2, <2>3, <2>4, <2>5 DEF Threads!Event
<1>. QED
  BY <1>2, <1>3 DEF LoopInv

LEMMA HandlerStep ==
  ASSUME LoopInv, Threads!Handler
  PROVE  LoopInv'
<1>1. /\ loopPc = "poll" /\ UNCHANGED <<loopPc, wpc, it, readers, writer>>
      /\ \/ asked < MaxTimers /\ asked' = asked + 1 /\ m_timers' = m_timers + 1
         \/ UNCHANGED <<asked, m_timers>>
  BY DEF Threads!Handler, Threads!CanAsk
<1>2. Adders' = Adders
  BY <1>1 DEF Adders
<1>. QED
  BY <1>1, <1>2, AddersFinite, ProcessAssumption
  DEF LoopInv, LoopTypes, Lock, Counted, Loop!EventLoopAssumption

LEMMA WorkerAsksStep ==
  ASSUME LoopInv, NEW w \in Worker, Threads!WorkerAsks(w)
  PROVE  LoopInv'
<1>1. /\ wpc[w] = "idle" /\ asked < MaxTimers
      /\ wpc' = [wpc EXCEPT ![w] = "locking"] /\ asked' = asked + 1
      /\ UNCHANGED <<loopPc, m_timers, it, readers, writer>>
  BY DEF Threads!WorkerAsks, Threads!CanAsk
<1>2. Adders' = Adders \cup {w} /\ w \notin Adders
  BY <1>1 DEF Adders, LoopInv, LoopTypes
<1>3. Cardinality(Adders') = Cardinality(Adders) + 1
  BY <1>2, AddersFinite, FS_AddElement
<1>. QED
  BY <1>1, <1>3, AddersFinite, ProcessAssumption
  DEF LoopInv, LoopTypes, Lock, Counted, Loop!EventLoopAssumption

LEMMA WorkerLocksStep ==
  ASSUME LoopInv, NEW w \in Worker, Threads!WorkerLocks(w)
  PROVE  LoopInv'
<1>1. /\ wpc[w] = "locking" /\ writer = "none" /\ ~readers
      /\ writer' = w /\ wpc' = [wpc EXCEPT ![w] = "adding"]
      /\ UNCHANGED <<loopPc, m_timers, it, readers, asked>>
  BY DEF Threads!WorkerLocks, Threads!MayWrite
<1>2. Adders' = Adders
  BY <1>1 DEF Adders, LoopInv, LoopTypes
<1>3. "none" \notin Worker
  BY ProcessAssumption DEF Loop!EventLoopAssumption
<1>. QED
  BY <1>1, <1>2, <1>3 DEF LoopInv, LoopTypes, Lock, Counted

LEMMA WorkerAddsStep ==
  ASSUME LoopInv, NEW w \in Worker, Threads!WorkerAdds(w)
  PROVE  LoopInv'
<1>1. /\ wpc[w] = "adding" /\ writer' = "none" /\ wpc' = [wpc EXCEPT ![w] = "idle"]
      /\ m_timers' = m_timers + 1
      /\ UNCHANGED <<loopPc, it, readers, asked>>
  BY DEF Threads!WorkerAdds
<1>2. Adders' = Adders \ {w} /\ w \in Adders
  BY <1>1 DEF Adders, LoopInv, LoopTypes
<1>3. Cardinality(Adders') = Cardinality(Adders) - 1
  BY <1>2, AddersFinite, FS_RemoveElement
<1>4. writer = w
  BY <1>1 DEF LoopInv, Lock
<1>5. Counted'
  BY <1>1, <1>3, AddersFinite DEF LoopInv, LoopTypes, Counted
<1>6. LoopTypes' /\ Lock'
  BY <1>1, <1>4, ProcessAssumption DEF LoopInv, LoopTypes, Lock, Loop!EventLoopAssumption
<1>. QED
  BY <1>5, <1>6 DEF LoopInv

LEMMA WorkerStopsStep ==
  ASSUME LoopInv, NEW w \in Worker, Threads!WorkerStops(w) \/ Threads!WorkerBreaks(w)
  PROVE  LoopInv'
<1>1. /\ wpc[w] \in {"idle", "stopping"}
      /\ wpc' = [wpc EXCEPT ![w] = "stopping"] \/ wpc' = [wpc EXCEPT ![w] = "idle"]
      /\ UNCHANGED <<loopPc, m_timers, it, readers, writer, asked>>
  BY DEF Threads!WorkerStops, Threads!WorkerBreaks
<1>2. Adders' = Adders
  BY <1>1 DEF Adders, LoopInv, LoopTypes
<1>. QED
  BY <1>1, <1>2 DEF LoopInv, LoopTypes, Lock, Counted

LEMMA LoopNext == LoopInv /\ (Loop!Next \/ Threads!Next \/ UNCHANGED loopVars) => LoopInv'
<1>. SUFFICES ASSUME LoopInv, Threads!Next \/ UNCHANGED loopVars PROVE LoopInv'
  BY LoopIsThreads
<1>1. CASE UNCHANGED loopVars
  BY <1>1 DEF loopVars, LoopInv, LoopTypes, Lock, Counted, Adders
<1>2. CASE Threads!Next
  BY <1>2, EventStep, HandlerStep, WorkerAsksStep, WorkerLocksStep, WorkerAddsStep,
     WorkerStopsStep DEF Threads!Next
<1>. QED
  BY <1>1, <1>2

LEMMA LoopTypeOK == LoopInv => Loop!TypeOK
BY AddersFinite, ProcessAssumption
DEF LoopInv, LoopTypes, Lock, Counted, Loop!TypeOK, Loop!EventLoopAssumption

(* Who changes the list is in poll, or holds the lock for writing.         *)
LEMMA CronKeepsList ==
  ASSUME LoopInv, loopPc = "cron", Loop!Next \/ Threads!Next \/ UNCHANGED loopVars
  PROVE  m_timers' = m_timers
<1>1. CASE UNCHANGED loopVars
  BY <1>1 DEF loopVars
<1>2. ASSUME NEW w \in Worker, Threads!WorkerAdds(w) PROVE FALSE
  <2>1. wpc[w] = "adding"
    BY <1>2 DEF Threads!WorkerAdds
  <2>. QED
    BY <2>1, ProcessAssumption DEF LoopInv, LoopTypes, Lock, Loop!EventLoopAssumption
<1>3. CASE Threads!Next
  BY <1>2, <1>3
  DEF Threads!Next, Threads!Event, Threads!Test, Threads!Enter, Threads!Break, Threads!Tick,
    Threads!CronLocks, Threads!CallBack, Threads!CronEnds, Threads!Handler,
    Threads!WorkerAsks, Threads!WorkerLocks, Threads!WorkerStops, Threads!WorkerBreaks
<1>. QED
  BY <1>1, <1>3, LoopIsThreads
-----------------------------------------------------------------------------
(* Queries to Redis                                                        *)

Wire == [up : Seq(Redis!Piece), down : Seq(Redis!Piece), closed : BOOLEAN]

QueryTypes ==
  /\ queryPc \in Redis!States /\ query \in 0..MaxQuery /\ fails \in 0..MaxFail
  /\ queryPc \in {"write", "read", "failed"} => query \in Redis!Query
  /\ m_context \in Redis!Context \cup {None} /\ sock \in Redis!Sock \cup {None}
  /\ net \in [Redis!Sock -> Wire]
  /\ res \subseteq Redis!Query \X (Redis!Query \cup {None})

(* What exists in which state: a socket inside connect, a context in query,*)
(* and never both.                                                         *)
Held ==
  /\ queryPc \in Redis!Steps <=> sock # None
  /\ sock # None => m_context = None
  /\ queryPc \in {"write", "read", "failed"} => m_context # None
  /\ Redis!SocketsOwned

(* Where the two pieces of command c and of its reply are while obuf, in,  *)
(* up and down hold o, i, u and d.                                         *)
Fits(p, o, i, u, d, closed, c) ==
  LET first == <<<<c, 1>>>>
      last == <<<<c, 2>>>>
      both == <<<<c, 1>>, <<c, 2>>>>
  IN CASE p = "idle" -> o = <<>> /\ i = <<>> /\ u = <<>> /\ d = <<>>
       [] p = "write" -> /\ i = <<>> /\ d = <<>>
                         /\ \/ o = both /\ u = <<>>
                            \/ o = last /\ closed /\ u = <<>>
                            \/ o = last /\ ~closed /\ u = first
       [] p = "read" -> /\ o = <<>>
                        /\ \/ u = both /\ i = <<>> /\ d = <<>>
                           \/ u = <<>> /\ i = <<>> /\ d = <<>>
                           \/ u = <<>> /\ i = <<>> /\ d = both
                           \/ u = <<>> /\ i = first /\ d = last
                           \/ u = <<>> /\ i = both /\ d = <<>>
       [] OTHER -> TRUE

Travelling ==
  /\ sock # None => net[sock].up = <<>> /\ net[sock].down = <<>>
  /\ m_context # None =>
       Fits(queryPc, m_context.obuf, m_context.in, net[m_context.fd].up,
            net[m_context.fd].down, net[m_context.fd].closed, query)

QueryInv == QueryTypes /\ Held /\ Travelling /\ Redis!ReplyIsOwn

LEMMA Assumed ==
  /\ MaxSock \in Nat \ {0} /\ MaxQuery \in Nat /\ MaxFail \in Nat
  /\ None \notin Redis!Context /\ None \notin Redis!Sock /\ None \notin Redis!Query
BY ProcessAssumption DEF Redis!RedisClientAssumption, Redis!Sock, Redis!Query

(* A sequence of one or two elements is a tuple of them.                   *)
LEMMA ShortSequence ==
  ASSUME NEW S, NEW s \in Seq(S)
  PROVE  /\ Len(s) = 0 => s = <<>>
         /\ Len(s) = 1 => s = <<s[1]>>
         /\ Len(s) = 2 => s = <<s[1], s[2]>>
<1>1. CASE Len(s) = 0
  BY <1>1
<1>2. CASE Len(s) = 1
  <2>1. s[1] \in S
    BY <1>2
  <2>2. <<s[1]>> \in Seq(S) /\ Len(<<s[1]>>) = 1 /\ \A i \in 1..1 : s[i] = <<s[1]>>[i]
    BY <2>1
  <2>. QED
    BY <1>2, <2>2, SeqEqual
<1>3. CASE Len(s) = 2
  <2>1. \A i \in 1..2 : s[i] \in S
    BY <1>3
  <2>2. /\ <<s[1], s[2]>> \in Seq(S) /\ Len(<<s[1], s[2]>>) = 2
        /\ \A i \in 1..2 : s[i] = <<s[1], s[2]>>[i]
    BY <2>1
  <2>. QED
    BY <1>3, <2>2, SeqEqual
<1>. QED
  BY <1>1, <1>2, <1>3

(* What SubSeq and \o do to two pieces.                                    *)
LEMMA TwoPieces ==
  ASSUME NEW a, NEW b
  PROVE  /\ Len(<<>>) = 0 /\ Len(<<a>>) = 1 /\ Len(<<a, b>>) = 2
         /\ SubSeq(<<a, b>>, 1, 1) = <<a>> /\ SubSeq(<<a, b>>, 2, 2) = <<b>>
         /\ SubSeq(<<a, b>>, 1, 2) = <<a, b>> /\ SubSeq(<<a, b>>, 3, 2) = <<>>
         /\ SubSeq(<<a>>, 1, 1) = <<a>> /\ SubSeq(<<a>>, 2, 1) = <<>>
         /\ <<a>> \o <<b>> = <<a, b>> /\ <<>> \o <<a>> = <<a>> /\ <<>> \o <<a, b>> = <<a, b>>
<1>. DEFINE one == <<a>>
            last == <<b>>
            both == <<a, b>>
<1>1. /\ one \in Seq({a, b}) /\ Len(one) = 1 /\ one[1] = a
      /\ last \in Seq({a, b}) /\ Len(last) = 1 /\ last[1] = b
      /\ both \in Seq({a, b}) /\ Len(both) = 2 /\ both[1] = a /\ both[2] = b
      /\ Len(<<>>) = 0
  OBVIOUS
<1>. HIDE DEF one, last, both
<1>2. ASSUME NEW s \in Seq({a, b}), NEW n \in 1..Len(s)
      PROVE  SubSeq(s, n, n) = <<s[n]>>
  <2>1. \A i \in n..n : s[i] \in {a, b}
    OBVIOUS
  <2>2. /\ SubSeq(s, n, n) \in Seq({a, b}) /\ Len(SubSeq(s, n, n)) = 1
        /\ SubSeq(s, n, n)[1] = s[n]
    BY <2>1, SubSeqProperties
  <2>. QED
    BY <2>2, ShortSequence
<1>3. SubSeq(both, 3, 2) = <<>> /\ SubSeq(one, 2, 1) = <<>>
  BY <1>1, ShortSequence, SubSeqProperties
<1>4. SubSeq(both, 1, 2) = both
  BY <1>1, SubSeqFull
<1>5. one \o last = <<a, b>>
  <2>1. /\ one \o last \in Seq({a, b}) /\ Len(one \o last) = Len(one) + Len(last)
        /\ \A i \in 1..(Len(one) + Len(last)) :
             (one \o last)[i] = IF i <= Len(one) THEN one[i] ELSE last[i - Len(one)]
    BY <1>1, ConcatProperties
  <2>2. Len(one \o last) = 2 /\ (one \o last)[1] = a /\ (one \o last)[2] = b
    BY <2>1, <1>1
  <2>. QED
    BY <2>1, <2>2, ShortSequence
<1>6. <<>> \o one = one /\ <<>> \o both = both
  BY <1>1, ConcatEmptySeq
<1>7. SubSeq(both, 1, 1) = <<a>> /\ SubSeq(both, 2, 2) = <<b>> /\ SubSeq(one, 1, 1) = <<a>>
  <2>1. 1 \in 1..Len(both) /\ 2 \in 1..Len(both) /\ 1 \in 1..Len(one)
    BY <1>1
  <2>. QED
    BY <2>1, <1>1, <1>2, Zenon
<1>. QED
  BY <1>1, <1>3, <1>4, <1>5, <1>6, <1>7, Zenon DEF one, last, both

(* Any part of a sequence of pieces, and two such joined, is one.          *)
LEMMA PartsOfWires ==
  ASSUME NEW s \in Seq(Redis!Piece), NEW t \in Seq(Redis!Piece), NEW n \in 0..Len(s)
  PROVE  /\ SubSeq(s, n + 1, Len(s)) \in Seq(Redis!Piece)
         /\ SubSeq(s, 1, n) \in Seq(Redis!Piece)
         /\ s \o t \in Seq(Redis!Piece)
OBVIOUS

LEMMA PiecesTyped ==
  ASSUME NEW c \in Nat
  PROVE  Redis!Pieces(c) = <<<<c, 1>>, <<c, 2>>>> /\ Redis!Pieces(c) \in Seq(Redis!Piece)
BY DEF Redis!Pieces, Redis!Piece

LEMMA QueryInit == Redis!Init => QueryInv
<1>. SUFFICES ASSUME Redis!Init PROVE QueryInv
  OBVIOUS
<1>1. QueryTypes
  BY Assumed DEF Redis!Init, QueryTypes, Redis!States, Redis!Quiet, Wire
<1>2. Held
  BY DEF Redis!Init, Held, Redis!Steps, Redis!SocketsOwned
<1>3. Travelling /\ Redis!ReplyIsOwn
  BY DEF Redis!Init, Travelling, Redis!ReplyIsOwn
<1>. QED
  BY <1>1, <1>2, <1>3 DEF QueryInv
LEMMA CreateSocketStep ==
  ASSUME QueryInv, Redis!CreateSocket
  PROVE  QueryInv'
<1>1. PICK s \in Redis!Sock : /\ sock' = s /\ socks' = socks \cup {s}
                              /\ net' = [net EXCEPT ![s] = Redis!Quiet]
  BY DEF Redis!CreateSocket
<1>2. /\ queryPc = "idle" /\ m_context = None /\ queryPc' = "nonblock"
      /\ UNCHANGED <<m_context, query, res, fails>>
  BY DEF Redis!CreateSocket
<1>3. Redis!Quiet \in Wire /\ Redis!Quiet.up = <<>> /\ Redis!Quiet.down = <<>>
  BY DEF Redis!Quiet, Wire
<1>4. net \in [Redis!Sock -> Wire]
  BY DEF QueryInv, QueryTypes
<1>5. net' \in [Redis!Sock -> Wire] /\ net'[s] = Redis!Quiet
  BY <1>1, <1>3, <1>4
<1>6. QueryTypes'
  BY <1>1, <1>2, <1>5 DEF QueryInv, QueryTypes, Redis!States, Redis!Steps
<1>7. Held'
  BY <1>1, <1>2, Assumed DEF QueryInv, Held, Redis!Steps, Redis!SocketsOwned
<1>8. Travelling' /\ Redis!ReplyIsOwn'
  BY <1>1, <1>2, <1>3, <1>5, Zenon DEF QueryInv, Travelling, Redis!ReplyIsOwn
<1>. QED
  BY <1>6, <1>7, <1>8 DEF QueryInv

LEMMA StepDoneStep ==
  ASSUME QueryInv, Redis!StepDone
  PROVE  QueryInv'
<1>1. /\ queryPc \in Redis!Steps /\ queryPc' \in Redis!Steps
      /\ UNCHANGED <<m_context, sock, socks, net, query, res, fails>>
  BY DEF Redis!StepDone, Redis!NextStep, Redis!Steps
<1>2. QueryTypes'
  BY <1>1 DEF QueryInv, QueryTypes, Redis!States, Redis!Steps
<1>3. Held'
  BY <1>1 DEF QueryInv, Held, Redis!Steps, Redis!SocketsOwned
<1>4. sock # None /\ m_context = None
  BY <1>1 DEF QueryInv, Held
<1>5. Travelling' /\ Redis!ReplyIsOwn'
  BY <1>1, <1>4 DEF QueryInv, Travelling, Redis!ReplyIsOwn
<1>. QED
  BY <1>2, <1>3, <1>5 DEF QueryInv

LEMMA StepFailsStep ==
  ASSUME QueryInv, Redis!StepFails \/ Redis!WaitFails
  PROVE  QueryInv'
<1>1. /\ queryPc \in Redis!Steps /\ queryPc' = "idle"
      /\ socks' = socks \ {sock} /\ sock' = None /\ fails < MaxFail /\ fails' = fails + 1
      /\ UNCHANGED <<m_context, net, query, res>>
  BY DEF Redis!StepFails, Redis!WaitFails, Redis!MayFail, Redis!Steps
<1>2. sock # None /\ m_context = None
  BY <1>1 DEF QueryInv, Held
<1>3. QueryTypes'
  BY <1>1, Assumed DEF QueryInv, QueryTypes, Redis!States
<1>4. Held'
  BY <1>1, <1>2 DEF QueryInv, Held, Redis!Steps, Redis!SocketsOwned
<1>5. Travelling' /\ Redis!ReplyIsOwn'
  BY <1>1, <1>2 DEF QueryInv, Travelling, Redis!ReplyIsOwn
<1>. QED
  BY <1>3, <1>4, <1>5 DEF QueryInv

(* Nothing has travelled through the socket connect worked on.             *)
LEMMA ConnectedStep ==
  ASSUME QueryInv, Redis!Connected
  PROVE  QueryInv'
<1>1. /\ queryPc = "nodelay" /\ queryPc' = "idle"
      /\ m_context' = [fd |-> sock, obuf |-> <<>>, in |-> <<>>] /\ sock' = None
      /\ UNCHANGED <<socks, net, query, res, fails>>
  BY DEF Redis!Connected
<1>2. sock # None /\ m_context = None /\ sock \in Redis!Sock
  BY <1>1 DEF QueryInv, QueryTypes, Held, Redis!Steps
<1>3. /\ m_context' \in Redis!Context /\ m_context'.fd = sock
      /\ m_context'.obuf = <<>> /\ m_context'.in = <<>>
  BY <1>1, <1>2 DEF Redis!Context
<1>4. m_context' # None
  BY <1>3, Assumed
<1>5. QueryTypes'
  BY <1>1, <1>3 DEF QueryInv, QueryTypes, Redis!States
<1>6. Held'
  BY <1>1, <1>2, <1>3, <1>4 DEF QueryInv, Held, Redis!Steps, Redis!SocketsOwned
<1>7. net[sock].up = <<>> /\ net[sock].down = <<>>
  BY <1>2 DEF QueryInv, Travelling
<1>8. Travelling'
  BY <1>1, <1>3, <1>7 DEF Travelling, Fits
<1>9. Redis!ReplyIsOwn'
  BY <1>1 DEF QueryInv, Redis!ReplyIsOwn
<1>. QED
  BY <1>5, <1>6, <1>8, <1>9 DEF QueryInv

LEMMA QueryNullStep ==
  ASSUME QueryInv, Redis!QueryNull
  PROVE  QueryInv'
<1>1. /\ queryPc = "idle" /\ m_context = None /\ query < MaxQuery /\ query' = query + 1
      /\ res' = res \cup {<<query + 1, None>>}
      /\ UNCHANGED <<queryPc, m_context, sock, socks, net, fails>>
  BY DEF Redis!QueryNull
<1>2. query + 1 \in Redis!Query
  BY <1>1, Assumed DEF QueryInv, QueryTypes, Redis!Query
<1>3. QueryTypes'
  BY <1>1, <1>2, Assumed DEF QueryInv, QueryTypes, Redis!Query
<1>4. Held' /\ Travelling'
  BY <1>1 DEF QueryInv, Held, Travelling, Redis!SocketsOwned
<1>5. Redis!ReplyIsOwn'
  BY <1>1 DEF QueryInv, Redis!ReplyIsOwn
<1>. QED
  BY <1>3, <1>4, <1>5 DEF QueryInv

(* What a state between connect and query looks like, and what of the      *)
(* invariant does not change while the same context is used.               *)
LEMMA InQuery ==
  ASSUME QueryInv, m_context # None
  PROVE  /\ m_context \in Redis!Context /\ m_context.fd \in Redis!Sock
         /\ m_context.obuf \in Seq(Redis!Piece) /\ m_context.in \in Seq(Redis!Piece)
         /\ sock = None /\ socks = {m_context.fd} /\ queryPc \notin Redis!Steps
         /\ net \in [Redis!Sock -> Wire] /\ net[m_context.fd] \in Wire
         /\ query \in Nat
<1>1. m_context \in Redis!Context
  BY DEF QueryInv, QueryTypes
<1>2. /\ m_context.fd \in Redis!Sock
      /\ m_context.obuf \in Seq(Redis!Piece) /\ m_context.in \in Seq(Redis!Piece)
  BY <1>1 DEF Redis!Context
<1>3. sock = None /\ queryPc \notin Redis!Steps
  BY DEF QueryInv, Held
<1>4. socks = {m_context.fd}
  BY <1>3 DEF QueryInv, Held, Redis!SocketsOwned
<1>. QED
  BY <1>1, <1>2, <1>3, <1>4, Assumed DEF QueryInv, QueryTypes

LEMMA SameContext ==
  ASSUME QueryInv, m_context # None, UNCHANGED <<sock, socks>>,
         m_context' \in Redis!Context, m_context'.fd = m_context.fd,
         queryPc' \in {"idle", "write", "read", "failed"}
  PROVE  Held'
<1>1. m_context' # None
  BY Assumed
<1>2. sock = None /\ socks = {m_context.fd}
  BY InQuery
<1>. QED
  BY <1>1, <1>2 DEF Held, Redis!Steps, Redis!SocketsOwned
(* How many elements of one or two may be taken.                           *)
LEMMA OneOrTwo ==
  ASSUME NEW k, NEW n \in 1..k
  PROVE  /\ 1 + 1 = 2 /\ 2 + 1 = 3
         /\ k = 1 => n = 1
         /\ k = 2 => n = 1 \/ n = 2
OBVIOUS

(* The ways two pieces can be written, answered, read and lost.            *)
LEMMA FitsWritten ==
  ASSUME NEW c, NEW o, NEW i, NEW u, NEW d, NEW closed \in BOOLEAN,
         Fits("write", o, i, u, d, closed, c), NEW n \in 1..Len(o),
         NEW o2, o2 = SubSeq(o, n + 1, Len(o)),
         NEW u2, u2 = IF closed THEN u ELSE u \o SubSeq(o, 1, n),
         NEW p, p = IF o2 = <<>> THEN "read" ELSE "write"
  PROVE  Fits(p, o2, i, u2, d, closed, c)
<1>. DEFINE first == <<<<c, 1>>>>
            last == <<<<c, 2>>>>
            both == <<<<c, 1>>, <<c, 2>>>>
<1>1. /\ Len(last) = 1 /\ Len(both) = 2
      /\ SubSeq(both, 1, 1) = first /\ SubSeq(both, 2, 2) = last
      /\ SubSeq(both, 1, 2) = both /\ SubSeq(both, 3, 2) = <<>>
      /\ SubSeq(last, 1, 1) = last /\ SubSeq(last, 2, 1) = <<>>
      /\ first \o last = both /\ <<>> \o first = first /\ <<>> \o both = both
  BY TwoPieces, Zenon
<1>2. last # <<>>
  OBVIOUS
<1>3. /\ i = <<>> /\ d = <<>>
      /\ \/ o = both /\ u = <<>>
         \/ o = last /\ closed /\ u = <<>>
         \/ o = last /\ ~closed /\ u = first
  BY DEF Fits
<1>4. /\ closed => Fits("write", last, <<>>, <<>>, <<>>, closed, c)
      /\ ~closed => Fits("write", last, <<>>, first, <<>>, closed, c)
      /\ Fits("read", <<>>, <<>>, <<>>, <<>>, closed, c)
      /\ Fits("read", <<>>, <<>>, both, <<>>, closed, c)
  BY DEF Fits
<1>. HIDE DEF first, last, both
<1>5. /\ o = both => Len(o) = 2 /\ (n = 1 \/ n = 2) /\ 1 + 1 = 2 /\ 2 + 1 = 3
      /\ o = last => Len(o) = 1 /\ n = 1 /\ 1 + 1 = 2
  <2>1. Len(last) = 1 /\ Len(both) = 2
    BY <1>1
  <2>2. /\ Len(o) = 1 => n = 1
        /\ Len(o) = 2 => n = 1 \/ n = 2
    BY OneOrTwo
  <2>. QED
    BY <2>1, <2>2, OneOrTwo
<1>6. CASE o = both /\ u = <<>> /\ n = 1
  <2>1. o2 = last /\ p = "write" /\ u2 = IF closed THEN <<>> ELSE first
    BY <1>1, <1>2, <1>5, <1>6, Zenon
  <2>. QED
    BY <1>3, <1>4, <2>1, Zenon
<1>7. CASE o = both /\ u = <<>> /\ n = 2
  <2>1. o2 = <<>> /\ p = "read" /\ u2 = IF closed THEN <<>> ELSE both
    BY <1>1, <1>5, <1>7, Zenon
  <2>. QED
    BY <1>3, <1>4, <2>1, Zenon
<1>8. CASE o = last /\ ((closed /\ u = <<>>) \/ (~closed /\ u = first))
  <2>1. o2 = <<>> /\ p = "read" /\ u2 = IF closed THEN <<>> ELSE both
    BY <1>1, <1>5, <1>8, Zenon
  <2>. QED
    BY <1>3, <1>4, <2>1, Zenon
<1>9. \/ o = both /\ u = <<>> /\ n = 1
      \/ o = both /\ u = <<>> /\ n = 2
      \/ o = last /\ ((closed /\ u = <<>>) \/ (~closed /\ u = first))
  BY <1>3, <1>5, Zenon
<1>. QED
  BY <1>6, <1>7, <1>8, <1>9, Zenon

LEMMA FitsRead ==
  ASSUME NEW c, NEW o, NEW i, NEW u, NEW d, NEW closed \in BOOLEAN,
         Fits("read", o, i, u, d, closed, c), NEW n \in 1..Len(d),
         NEW i2, i2 = i \o SubSeq(d, 1, n), NEW d2, d2 = SubSeq(d, n + 1, Len(d))
  PROVE  Fits("read", o, i2, u, d2, closed, c)
<1>. DEFINE first == <<<<c, 1>>>>
            last == <<<<c, 2>>>>
            both == <<<<c, 1>>, <<c, 2>>>>
<1>1. /\ Len(<<>>) = 0 /\ Len(last) = 1 /\ Len(both) = 2
      /\ SubSeq(both, 1, 1) = first /\ SubSeq(both, 2, 2) = last
      /\ SubSeq(both, 1, 2) = both /\ SubSeq(both, 3, 2) = <<>>
      /\ SubSeq(last, 1, 1) = last /\ SubSeq(last, 2, 1) = <<>>
      /\ first \o last = both /\ <<>> \o first = first /\ <<>> \o both = both
  BY TwoPieces, Zenon
<1>2. /\ o = <<>>
      /\ \/ u = both /\ i = <<>> /\ d = <<>>
         \/ u = <<>> /\ i = <<>> /\ d = <<>>
         \/ u = <<>> /\ i = <<>> /\ d = both
         \/ u = <<>> /\ i = first /\ d = last
         \/ u = <<>> /\ i = both /\ d = <<>>
  BY DEF Fits
<1>3. /\ Fits("read", <<>>, first, <<>>, last, closed, c)
      /\ Fits("read", <<>>, both, <<>>, <<>>, closed, c)
  BY DEF Fits
<1>. HIDE DEF first, last, both
<1>4. /\ d = both => Len(d) = 2 /\ (n = 1 \/ n = 2) /\ 1 + 1 = 2 /\ 2 + 1 = 3
      /\ d = last => Len(d) = 1 /\ n = 1 /\ 1 + 1 = 2
      /\ d # <<>>
  <2>1. Len(<<>>) = 0 /\ Len(last) = 1 /\ Len(both) = 2
    BY <1>1
  <2>. QED
    BY <2>1
<1>5. CASE i = <<>> /\ d = both /\ n = 1
  <2>1. i2 = first /\ d2 = last
    BY <1>1, <1>4, <1>5, Zenon
  <2>. QED
    BY <1>2, <1>3, <1>4, <2>1, Zenon
<1>6. CASE i = <<>> /\ d = both /\ n = 2
  <2>1. i2 = both /\ d2 = <<>>
    BY <1>1, <1>4, <1>6, Zenon
  <2>. QED
    BY <1>2, <1>3, <1>4, <2>1, Zenon
<1>7. CASE i = first /\ d = last
  <2>1. i2 = both /\ d2 = <<>>
    BY <1>1, <1>4, <1>7, Zenon
  <2>. QED
    BY <1>2, <1>3, <1>4, <2>1, Zenon
<1>. QED
  BY <1>2, <1>4, <1>5, <1>6, <1>7, Zenon

LEMMA FitsReturned ==
  ASSUME NEW c, NEW o, NEW i, NEW u, NEW d, NEW closed \in BOOLEAN, NEW k,
         Fits("read", o, i, u, d, closed, c), Len(i) >= 2
  PROVE  i[1][1] = c /\ Fits("idle", o, SubSeq(i, 3, Len(i)), u, d, closed, k)
<1>. DEFINE first == <<<<c, 1>>>>
            both == <<<<c, 1>>, <<c, 2>>>>
<1>1. /\ Len(<<>>) = 0 /\ Len(first) = 1 /\ Len(both) = 2 /\ SubSeq(both, 3, 2) = <<>>
  BY TwoPieces, Zenon
<1>2. both[1][1] = c
  OBVIOUS
<1>3. /\ o = <<>>
      /\ \/ i = <<>>
         \/ i = first
         \/ u = <<>> /\ i = both /\ d = <<>>
  BY DEF Fits
<1>4. Fits("idle", <<>>, <<>>, <<>>, <<>>, closed, k)
  BY DEF Fits
<1>. HIDE DEF first, both
<1>5. o = <<>> /\ u = <<>> /\ i = both /\ d = <<>>
  BY <1>1, <1>3
<1>. QED
  BY <1>1, <1>2, <1>4, <1>5

LEMMA FitsAnswered ==
  ASSUME NEW c \in Nat, NEW o, NEW i, NEW u, NEW d, NEW closed \in BOOLEAN, NEW p,
         Fits(p, o, i, u, d, closed, c), Len(u) >= 2
  PROVE  Fits(p, o, i, SubSeq(u, 3, Len(u)), d \o Redis!Pieces(u[1][1]), closed, c)
<1>. DEFINE first == <<<<c, 1>>>>
            both == <<<<c, 1>>, <<c, 2>>>>
<1>1. /\ Len(<<>>) = 0 /\ Len(first) = 1 /\ Len(both) = 2 /\ SubSeq(both, 3, 2) = <<>>
      /\ <<>> \o both = both
  BY TwoPieces, Zenon
<1>2. both[1][1] = c
  OBVIOUS
<1>3. Redis!Pieces(c) = both
  BY PiecesTyped
<1>4. CASE p \in {"idle", "write", "read"}
  <2>1. \/ u = <<>>
        \/ u = first
        \/ p = "read" /\ o = <<>> /\ u = both /\ i = <<>> /\ d = <<>>
    BY <1>4 DEF Fits
  <2>2. Fits("read", <<>>, <<>>, <<>>, both, closed, c)
    BY DEF Fits
  <2>. HIDE DEF first, both
  <2>3. p = "read" /\ o = <<>> /\ u = both /\ i = <<>> /\ d = <<>>
    BY <2>1, <1>1
  <2>. QED
    BY <1>1, <1>2, <1>3, <2>2, <2>3
<1>5. CASE p \notin {"idle", "write", "read"}
  BY <1>5 DEF Fits
<1>. QED
  BY <1>4, <1>5

LEMMA FitsClosed ==
  ASSUME NEW c, NEW o, NEW i, NEW u, NEW d, NEW p,
         NEW closed \in BOOLEAN, Fits(p, o, i, u, d, closed, c), ~closed,
         NEW later \in BOOLEAN, later
  PROVE  Fits(p, o, i, <<>>, d, later, c)
BY DEF Fits
(* A step of query with the same context: what is left to show.            *)
LEMMA QueryGoesOn ==
  ASSUME QueryInv, m_context # None, UNCHANGED <<sock, socks, query, res>>,
         m_context' \in Redis!Context, m_context'.fd = m_context.fd,
         queryPc' \in {"idle", "write", "read", "failed"}, fails' \in 0..MaxFail,
         queryPc \in {"write", "read", "failed"},
         net' \in [Redis!Sock -> Wire],
         Fits(queryPc', m_context'.obuf, m_context'.in, net'[m_context.fd].up,
              net'[m_context.fd].down, net'[m_context.fd].closed, query)
  PROVE  QueryInv'
<1>1. Held'
  BY SameContext
<1>2. sock = None
  BY InQuery
<1>3. QueryTypes'
  BY <1>2 DEF QueryInv, QueryTypes, Redis!States
<1>4. Travelling'
  BY <1>2, Zenon DEF Travelling
<1>5. Redis!ReplyIsOwn'
  BY Zenon DEF QueryInv, Redis!ReplyIsOwn
<1>. QED
  BY <1>1, <1>3, <1>4, <1>5 DEF QueryInv

LEMMA QueryStartsStep ==
  ASSUME QueryInv, Redis!QueryStarts
  PROVE  QueryInv'
<1>1. /\ queryPc = "idle" /\ m_context # None /\ query < MaxQuery /\ query' = query + 1
      /\ m_context' = [m_context EXCEPT !.obuf = m_context.obuf \o Redis!Pieces(query + 1)]
      /\ queryPc' = IF Len(m_context.in) >= 2 THEN "read" ELSE "write"
      /\ UNCHANGED <<sock, socks, net, res, fails>>
  BY DEF Redis!QueryStarts
<1>2. /\ m_context \in Redis!Context /\ query \in Nat /\ sock = None
      /\ m_context.obuf \in Seq(Redis!Piece) /\ m_context.in \in Seq(Redis!Piece)
  BY <1>1, InQuery
<1>3. /\ m_context.obuf = <<>> /\ m_context.in = <<>>
      /\ net[m_context.fd].up = <<>> /\ net[m_context.fd].down = <<>>
  BY <1>1 DEF QueryInv, Travelling, Fits
<1>4. queryPc' = "write"
  BY <1>1, <1>3
<1>5. /\ query + 1 \in Redis!Query
      /\ Redis!Pieces(query + 1) = <<<<query + 1, 1>>, <<query + 1, 2>>>>
      /\ Redis!Pieces(query + 1) \in Seq(Redis!Piece)
  <2>1. query + 1 \in Redis!Query /\ query + 1 \in Nat
    BY <1>1, <1>2, Assumed DEF Redis!Query
  <2>. QED
    BY <2>1, PiecesTyped
<1>6. m_context.obuf \o Redis!Pieces(query + 1) = Redis!Pieces(query + 1)
  BY <1>3, <1>5, ConcatEmptySeq
<1>7. /\ m_context' \in Redis!Context /\ m_context'.fd = m_context.fd
      /\ m_context'.obuf = Redis!Pieces(query + 1) /\ m_context'.in = <<>>
  BY <1>1, <1>2, <1>3, <1>5, <1>6 DEF Redis!Context
<1>8. Held'
  BY <1>1, <1>4, <1>7, SameContext
<1>9. QueryTypes'
  <2>1. query' \in Redis!Query /\ query' \in 0..MaxQuery
    BY <1>1, <1>5, Assumed DEF Redis!Query
  <2>. QED
    BY <1>1, <1>4, <1>7, <2>1 DEF QueryInv, QueryTypes, Redis!States
<1>10. Travelling'
  BY <1>1, <1>2, <1>3, <1>4, <1>5, <1>7 DEF Travelling, Fits
<1>11. Redis!ReplyIsOwn'
  BY <1>1 DEF QueryInv, Redis!ReplyIsOwn
<1>. QED
  BY <1>8, <1>9, <1>10, <1>11 DEF QueryInv

LEMMA BufferWriteStep ==
  ASSUME QueryInv, Redis!BufferWrite
  PROVE  QueryInv'
<1>. DEFINE f == m_context.fd
            o == m_context.obuf
            u == net[f].up
            closed == net[f].closed
<1>1. /\ queryPc = "write" /\ UNCHANGED <<sock, socks, query, res, fails>>
      /\ queryPc' = IF m_context'.obuf = <<>> THEN "read" ELSE "write"
  BY DEF Redis!BufferWrite
<1>2. PICK n \in 1..Len(o) :
        /\ m_context' = [m_context EXCEPT !.obuf = SubSeq(o, n + 1, Len(o))]
        /\ net' = [net EXCEPT ![f].up = IF closed THEN u ELSE u \o SubSeq(o, 1, n)]
  BY DEF Redis!BufferWrite, Redis!Written, Redis!Fd, Redis!Peer
<1>3. m_context # None
  BY <1>1 DEF QueryInv, Held
<1>4. /\ m_context \in Redis!Context /\ f \in Redis!Sock /\ o \in Seq(Redis!Piece)
      /\ net \in [Redis!Sock -> Wire] /\ net[f] \in Wire
  BY <1>3, InQuery
<1>5. u \in Seq(Redis!Piece) /\ closed \in BOOLEAN
  BY <1>4 DEF Wire
<1>6. n \in 0..Len(o)
  BY <1>4
<1>7. /\ SubSeq(o, n + 1, Len(o)) \in Seq(Redis!Piece)
      /\ (IF closed THEN u ELSE u \o SubSeq(o, 1, n)) \in Seq(Redis!Piece)
  BY <1>4, <1>5, <1>6, PartsOfWires
<1>8. /\ m_context' \in Redis!Context /\ m_context'.fd = f
      /\ m_context'.obuf = SubSeq(o, n + 1, Len(o)) /\ m_context'.in = m_context.in
  BY <1>2, <1>4, <1>7 DEF Redis!Context
<1>9. /\ net' \in [Redis!Sock -> Wire]
      /\ net'[f].up = IF closed THEN u ELSE u \o SubSeq(o, 1, n)
      /\ net'[f].down = net[f].down /\ net'[f].closed = closed
  BY <1>2, <1>4, <1>7 DEF Wire
<1>10. Fits("write", o, m_context.in, u, net[f].down, closed, query)
  BY <1>1, <1>3 DEF QueryInv, Travelling
<1>11. Fits(queryPc', m_context'.obuf, m_context'.in, net'[f].up, net'[f].down,
            net'[f].closed, query)
  <2>. HIDE DEF f, o, u, closed
  <2>1. PICK o2, u2, p : o2 = m_context'.obuf /\ u2 = net'[f].up /\ p = queryPc'
    OBVIOUS
  <2>2. /\ o2 = SubSeq(o, n + 1, Len(o))
        /\ u2 = IF closed THEN u ELSE u \o SubSeq(o, 1, n)
        /\ p = IF o2 = <<>> THEN "read" ELSE "write"
    BY <1>1, <1>8, <1>9, <2>1, Zenon
  <2>3. Fits(p, o2, m_context.in, u2, net[f].down, closed, query)
    BY <1>5, <1>10, <2>2, FitsWritten
  <2>. QED
    BY <1>8, <1>9, <2>1, <2>3, Zenon
<1>12. fails' \in 0..MaxFail /\ queryPc' \in {"write", "read"}
  BY <1>1 DEF QueryInv, QueryTypes
<1>. QED
  BY <1>1, <1>3, <1>8, <1>9, <1>11, <1>12, QueryGoesOn

LEMMA BufferReadStep ==
  ASSUME QueryInv, Redis!BufferRead
  PROVE  QueryInv'
<1>. DEFINE f == m_context.fd
            i == m_context.in
            d == net[f].down
<1>1. queryPc = "read" /\ UNCHANGED <<queryPc, sock, socks, query, res, fails>>
  BY DEF Redis!BufferRead
<1>2. PICK n \in 1..Len(d) :
        /\ m_context' = [m_context EXCEPT !.in = i \o SubSeq(d, 1, n)]
        /\ net' = [net EXCEPT ![f].down = SubSeq(d, n + 1, Len(d))]
  BY DEF Redis!BufferRead, Redis!Fd, Redis!Peer
<1>3. m_context # None
  BY <1>1 DEF QueryInv, Held
<1>4. /\ m_context \in Redis!Context /\ f \in Redis!Sock /\ i \in Seq(Redis!Piece)
      /\ net \in [Redis!Sock -> Wire] /\ net[f] \in Wire
  BY <1>3, InQuery
<1>5. d \in Seq(Redis!Piece) /\ net[f].closed \in BOOLEAN
  BY <1>4 DEF Wire
<1>6. n \in 0..Len(d)
  BY <1>5
<1>7. SubSeq(d, 1, n) \in Seq(Redis!Piece) /\ SubSeq(d, n + 1, Len(d)) \in Seq(Redis!Piece)
  BY <1>5, <1>6, PartsOfWires
<1>8. i \o SubSeq(d, 1, n) \in Seq(Redis!Piece)
  BY <1>4, <1>7
<1>9. /\ m_context' \in Redis!Context /\ m_context'.fd = f
      /\ m_context'.obuf = m_context.obuf /\ m_context'.in = i \o SubSeq(d, 1, n)
  BY <1>2, <1>4, <1>8 DEF Redis!Context
<1>10. /\ net' \in [Redis!Sock -> Wire]
       /\ net'[f].up = net[f].up /\ net'[f].closed = net[f].closed
       /\ net'[f].down = SubSeq(d, n + 1, Len(d))
  BY <1>2, <1>4, <1>7 DEF Wire
<1>11. Fits("read", m_context.obuf, i, net[f].up, d, net[f].closed, query)
  BY <1>1, <1>3 DEF QueryInv, Travelling
<1>12. Fits("read", m_context'.obuf, m_context'.in, net'[f].up, net'[f].down,
            net'[f].closed, query)
  <2>. HIDE DEF f, i, d
  <2>. QED
    BY <1>5, <1>9, <1>10, <1>11, FitsRead
<1>13. fails' \in 0..MaxFail
  BY <1>1 DEF QueryInv, QueryTypes
<1>. QED
  BY <1>1, <1>3, <1>9, <1>10, <1>12, <1>13, QueryGoesOn

LEMMA IOFailsStep ==
  ASSUME QueryInv, Redis!IOFails
  PROVE  QueryInv'
<1>1. /\ queryPc \in {"write", "read"} /\ queryPc' = "failed"
      /\ (fails < MaxFail /\ fails' = fails + 1) \/ fails' = fails
      /\ UNCHANGED <<m_context, sock, socks, net, query, res>>
  BY DEF Redis!IOFails, Redis!MayFail
<1>2. m_context # None
  BY <1>1 DEF QueryInv, Held
<1>3. m_context \in Redis!Context /\ net \in [Redis!Sock -> Wire]
  BY <1>2, InQuery
<1>4. fails' \in 0..MaxFail
  BY <1>1, Assumed DEF QueryInv, QueryTypes
<1>5. Fits(queryPc', m_context'.obuf, m_context'.in, net'[m_context.fd].up,
           net'[m_context.fd].down, net'[m_context.fd].closed, query)
  BY <1>1 DEF Fits
<1>. QED
  BY <1>1, <1>2, <1>3, <1>4, <1>5, QueryGoesOn
(* The reply that is complete is that of this query, and nothing is left   *)
(* over.                                                                   *)
LEMMA QueryReturnsStep ==
  ASSUME QueryInv, Redis!QueryReturns
  PROVE  QueryInv'
<1>. DEFINE f == m_context.fd
            i == m_context.in
<1>1. /\ queryPc = "read" /\ Len(i) >= 2 /\ queryPc' = "idle"
      /\ res' = res \cup {<<query, i[1][1]>>}
      /\ m_context' = [m_context EXCEPT !.in = SubSeq(i, 3, Len(i))]
      /\ UNCHANGED <<sock, socks, net, query, fails>>
  BY DEF Redis!QueryReturns
<1>2. m_context # None /\ query \in Redis!Query
  BY <1>1 DEF QueryInv, QueryTypes, Held
<1>3. /\ m_context \in Redis!Context /\ f \in Redis!Sock /\ i \in Seq(Redis!Piece)
      /\ sock = None /\ net[f] \in Wire
  BY <1>2, InQuery
<1>4. SubSeq(i, 3, Len(i)) \in Seq(Redis!Piece)
  <2>1. 2 \in 0..Len(i) /\ 2 + 1 = 3
    BY <1>1, <1>3
  <2>2. SubSeq(i, 2 + 1, Len(i)) \in Seq(Redis!Piece)
    BY <1>3, <2>1, PartsOfWires
  <2>. QED
    BY <2>1, <2>2
<1>5. /\ m_context' \in Redis!Context /\ m_context'.fd = f
      /\ m_context'.obuf = m_context.obuf /\ m_context'.in = SubSeq(i, 3, Len(i))
  BY <1>1, <1>3, <1>4 DEF Redis!Context
<1>6. Fits("read", m_context.obuf, i, net[f].up, net[f].down, net[f].closed, query)
  BY <1>1, <1>2 DEF QueryInv, Travelling
<1>7. net[f].closed \in BOOLEAN
  BY <1>3 DEF Wire
<1>8. /\ i[1][1] = query
      /\ Fits("idle", m_context.obuf, SubSeq(i, 3, Len(i)), net[f].up, net[f].down,
              net[f].closed, query)
  <2>. HIDE DEF f, i
  <2>. QED
    BY <1>1, <1>6, <1>7, FitsReturned
<1>9. Held'
  BY <1>1, <1>2, <1>5, SameContext
<1>10. QueryTypes'
  <2>1. res' \subseteq Redis!Query \X (Redis!Query \cup {None})
    BY <1>1, <1>2, <1>8 DEF QueryInv, QueryTypes
  <2>. QED
    BY <1>1, <1>5, <2>1 DEF QueryInv, QueryTypes, Redis!States
<1>11. Travelling'
  BY <1>1, <1>3, <1>5, <1>8 DEF Travelling
<1>12. Redis!ReplyIsOwn'
  BY <1>1, <1>8 DEF QueryInv, Redis!ReplyIsOwn
<1>. QED
  BY <1>9, <1>10, <1>11, <1>12 DEF QueryInv

LEMMA QueryFailsStep ==
  ASSUME QueryInv, Redis!QueryFails
  PROVE  QueryInv'
<1>1. /\ queryPc = "failed" /\ queryPc' = "idle" /\ res' = res \cup {<<query, None>>}
      /\ socks' = socks \ {m_context.fd} /\ m_context' = None
      /\ UNCHANGED <<sock, net, query, fails>>
  BY DEF Redis!QueryFails, Redis!Fd
<1>2. m_context # None /\ query \in Redis!Query
  BY <1>1 DEF QueryInv, QueryTypes, Held
<1>3. sock = None /\ socks = {m_context.fd}
  BY <1>2, InQuery
<1>4. QueryTypes'
  BY <1>1, <1>2 DEF QueryInv, QueryTypes, Redis!States
<1>5. Held'
  BY <1>1, <1>3 DEF Held, Redis!Steps, Redis!SocketsOwned
<1>6. Travelling' /\ Redis!ReplyIsOwn'
  BY <1>1, <1>3 DEF QueryInv, Travelling, Redis!ReplyIsOwn
<1>. QED
  BY <1>4, <1>5, <1>6 DEF QueryInv

(* What the server does to one socket leaves the caller as it is.          *)
LEMMA ServerStepKeeps ==
  ASSUME QueryInv, NEW s \in Redis!Sock, s \in socks,
         UNCHANGED <<queryPc, m_context, sock, socks, query, res>>,
         fails' \in 0..MaxFail, net' \in [Redis!Sock -> Wire],
         \A r \in Redis!Sock \ {s} : net'[r] = net[r],
         s = sock => net'[s].up = <<>> /\ net'[s].down = <<>>,
         m_context # None /\ m_context.fd = s =>
           Fits(queryPc, m_context.obuf, m_context.in, net'[s].up, net'[s].down,
                net'[s].closed, query)
  PROVE  QueryInv'
<1>1. QueryTypes'
  BY DEF QueryInv, QueryTypes
<1>2. Held' /\ Redis!ReplyIsOwn'
  BY DEF QueryInv, Held, Redis!SocketsOwned, Redis!ReplyIsOwn
<1>3. CASE m_context = None
  <2>1. sock = s
    BY <1>3 DEF QueryInv, Held, Redis!SocketsOwned
  <2>. QED
    BY <1>1, <1>2, <1>3, <2>1 DEF QueryInv, Travelling
<1>4. CASE m_context # None
  <2>1. sock = None /\ m_context.fd = s
    BY <1>4, InQuery
  <2>. QED
    BY <1>1, <1>2, <1>4, <2>1 DEF QueryInv, Travelling
<1>. QED
  BY <1>3, <1>4

LEMMA OpenSocket ==
  ASSUME QueryInv, NEW s \in socks
  PROVE  /\ s \in Redis!Sock /\ net \in [Redis!Sock -> Wire]
         /\ net[s].up \in Seq(Redis!Piece) /\ net[s].down \in Seq(Redis!Piece)
         /\ net[s].closed \in BOOLEAN /\ query \in Nat /\ fails \in 0..MaxFail
         /\ s = sock => net[s].up = <<>> /\ net[s].down = <<>>
         /\ (m_context # None /\ m_context.fd = s) =>
              Fits(queryPc, m_context.obuf, m_context.in, net[s].up, net[s].down,
                   net[s].closed, query)
<1>1. s \in Redis!Sock
  <2>1. CASE m_context = None
    BY <2>1 DEF QueryInv, QueryTypes, Held, Redis!SocketsOwned
  <2>2. CASE m_context # None
    BY <2>2, InQuery
  <2>. QED
    BY <2>1, <2>2
<1>2. net \in [Redis!Sock -> Wire] /\ query \in Nat /\ fails \in 0..MaxFail
  BY Assumed DEF QueryInv, QueryTypes
<1>3. net[s] \in Wire
  BY <1>1, <1>2
<1>4. s = sock => net[s].up = <<>> /\ net[s].down = <<>>
  BY <1>1, Assumed DEF QueryInv, Travelling
<1>5. (m_context # None /\ m_context.fd = s) =>
        Fits(queryPc, m_context.obuf, m_context.in, net[s].up, net[s].down,
             net[s].closed, query)
  BY DEF QueryInv, Travelling
<1>. QED
  BY <1>1, <1>2, <1>3, <1>4, <1>5 DEF Wire

LEMMA ServerAnswersStep ==
  ASSUME QueryInv, NEW s \in Redis!Sock, Redis!ServerAnswers(s)
  PROVE  QueryInv'
<1>. DEFINE u == net[s].up
            d == net[s].down
            k == u[1][1]
<1>1. /\ s \in socks /\ Len(u) >= 2
      /\ net' = [net EXCEPT ![s].down = d \o Redis!Pieces(k), ![s].up = SubSeq(u, 3, Len(u))]
      /\ UNCHANGED <<queryPc, m_context, sock, socks, query, res, fails>>
  BY DEF Redis!ServerAnswers
<1>2. /\ net \in [Redis!Sock -> Wire] /\ u \in Seq(Redis!Piece) /\ d \in Seq(Redis!Piece)
      /\ net[s].closed \in BOOLEAN /\ query \in Nat /\ fails \in 0..MaxFail
      /\ s = sock => u = <<>>
      /\ (m_context # None /\ m_context.fd = s) =>
           Fits(queryPc, m_context.obuf, m_context.in, u, d, net[s].closed, query)
  BY <1>1, OpenSocket
<1>3. k \in Nat
  <2>1. 1 \in 1..Len(u)
    BY <1>1, <1>2
  <2>2. u[1] \in Redis!Piece
    BY <1>2, <2>1
  <2>. QED
    BY <2>2 DEF Redis!Piece
<1>4. d \o Redis!Pieces(k) \in Seq(Redis!Piece)
  BY <1>2, <1>3, PiecesTyped
<1>5. SubSeq(u, 3, Len(u)) \in Seq(Redis!Piece)
  <2>1. 2 \in 0..Len(u) /\ 2 + 1 = 3
    BY <1>1, <1>2
  <2>2. SubSeq(u, 2 + 1, Len(u)) \in Seq(Redis!Piece)
    BY <1>2, <2>1, PartsOfWires
  <2>. QED
    BY <2>1, <2>2
<1>6. /\ net' \in [Redis!Sock -> Wire]
      /\ \A r \in Redis!Sock \ {s} : net'[r] = net[r]
      /\ net'[s].up = SubSeq(u, 3, Len(u)) /\ net'[s].down = d \o Redis!Pieces(k)
      /\ net'[s].closed = net[s].closed
  BY <1>1, <1>2, <1>4, <1>5 DEF Wire
<1>7. s # sock
  BY <1>1, <1>2
<1>8. (m_context # None /\ m_context.fd = s) =>
        Fits(queryPc, m_context.obuf, m_context.in, SubSeq(u, 3, Len(u)),
             d \o Redis!Pieces(k), net[s].closed, query)
  BY <1>1, <1>2, FitsAnswered
<1>9. (m_context # None /\ m_context.fd = s) =>
        Fits(queryPc, m_context.obuf, m_context.in, net'[s].up, net'[s].down,
             net'[s].closed, query)
  BY <1>6, <1>8
<1>. QED
  BY <1>1, <1>2, <1>6, <1>7, <1>9, ServerStepKeeps

LEMMA ServerClosesStep ==
  ASSUME QueryInv, NEW s \in Redis!Sock, Redis!ServerCloses(s)
  PROVE  QueryInv'
<1>1. /\ s \in socks /\ ~net[s].closed /\ fails < MaxFail /\ fails' = fails + 1
      /\ net' = [net EXCEPT ![s].closed = TRUE, ![s].up = <<>>]
      /\ UNCHANGED <<queryPc, m_context, sock, socks, query, res>>
  BY DEF Redis!ServerCloses, Redis!MayFail
<1>2. /\ net \in [Redis!Sock -> Wire] /\ net[s].closed \in BOOLEAN /\ fails \in 0..MaxFail
      /\ s = sock => net[s].down = <<>>
      /\ (m_context # None /\ m_context.fd = s) =>
           Fits(queryPc, m_context.obuf, m_context.in, net[s].up, net[s].down,
                net[s].closed, query)
  BY <1>1, OpenSocket
<1>3. /\ net' \in [Redis!Sock -> Wire]
      /\ \A r \in Redis!Sock \ {s} : net'[r] = net[r]
      /\ net'[s].up = <<>> /\ net'[s].down = net[s].down
      /\ net'[s].closed \in BOOLEAN /\ net'[s].closed
  <2>1. net[s] \in Wire
    BY <1>2
  <2>2. net' = [net EXCEPT ![s] = [net[s] EXCEPT !.closed = TRUE, !.up = <<>>]]
    BY <1>1, <1>2
  <2>3. PICK w : w = [net[s] EXCEPT !.closed = TRUE, !.up = <<>>]
    OBVIOUS
  <2>4. w \in Wire /\ w.up = <<>> /\ w.down = net[s].down /\ w.closed \in BOOLEAN /\ w.closed
    <3>1. DOMAIN net[s] = {"up", "down", "closed"} /\ net[s].up \in Seq(Redis!Piece)
          /\ net[s].down \in Seq(Redis!Piece)
      BY <2>1 DEF Wire
    <3>2. w.up = <<>> /\ w.down = net[s].down
      BY <2>3, <3>1
    <3>3. w.closed = TRUE
      BY <2>3, <3>1, Zenon
    <3>4. PICK yes \in BOOLEAN : yes = TRUE
      OBVIOUS
    <3>5. w = [net[s] EXCEPT !.closed = yes, !.up = <<>>]
      BY <2>3, <3>4, Zenon
    <3>6. w \in Wire
      <4>1. <<>> \in Seq(Redis!Piece)
        OBVIOUS
      <4>2. [net[s] EXCEPT !.closed = yes] \in Wire
        BY <2>1 DEF Wire
      <4>3. [[net[s] EXCEPT !.closed = yes] EXCEPT !.up = <<>>] \in Wire
        BY <4>1, <4>2 DEF Wire
      <4>. QED
        BY <3>5, <4>3, Zenon
    <3>. QED
      BY <3>2, <3>3, <3>6, Zenon
  <2>5. /\ net' \in [Redis!Sock -> Wire] /\ net'[s] = w
        /\ \A r \in Redis!Sock \ {s} : net'[r] = net[r]
    BY <1>2, <2>2, <2>3, <2>4
  <2>. QED
    BY <2>4, <2>5, Zenon
<1>4. fails' \in 0..MaxFail
  BY <1>1, <1>2, Assumed
<1>5. (m_context # None /\ m_context.fd = s) =>
        Fits(queryPc, m_context.obuf, m_context.in, net'[s].up, net'[s].down,
             net'[s].closed, query)
  <2>1. PICK later \in BOOLEAN : later = net'[s].closed
    BY <1>3
  <2>2. later
    BY <1>3, <2>1, Zenon
  <2>3. PICK closed \in BOOLEAN : closed = net[s].closed
    BY <1>2
  <2>4. ~closed
    BY <1>1, <2>3, Zenon
  <2>5. (m_context # None /\ m_context.fd = s) =>
          Fits(queryPc, m_context.obuf, m_context.in, net[s].up, net[s].down, closed, query)
    BY <1>2, <2>3, Zenon
  <2>6. (m_context # None /\ m_context.fd = s) =>
          Fits(queryPc, m_context.obuf, m_context.in, <<>>, net[s].down, later, query)
    BY <2>2, <2>4, <2>5, FitsClosed
  <2>. QED
    BY <1>3, <2>1, <2>6, Zenon
<1>. QED
  BY <1>1, <1>2, <1>3, <1>4, <1>5, ServerStepKeeps

LEMMA QueryNext == QueryInv /\ (Redis!Next \/ UNCHANGED queryVars) => QueryInv'
<1>1. ASSUME QueryInv, UNCHANGED queryVars PROVE QueryInv'
  BY <1>1 DEF queryVars, QueryInv, QueryTypes, Held, Travelling, Redis!SocketsOwned,
    Redis!ReplyIsOwn
<1>2. ASSUME QueryInv, Redis!Next PROVE QueryInv'
  BY <1>2, CreateSocketStep, StepDoneStep, StepFailsStep, ConnectedStep, QueryNullStep,
     QueryStartsStep, BufferWriteStep, BufferReadStep, IOFailsStep, QueryReturnsStep,
     QueryFailsStep, ServerAnswersStep, ServerClosesStep DEF Redis!Next, Redis!Client
<1>. QED
  BY <1>1, <1>2

LEMMA QueryIsSafe == QueryInv => QueriesSafe
<1>. SUFFICES ASSUME QueryInv PROVE QueriesSafe
  OBVIOUS
<1>1. /\ queryPc \in Redis!States /\ query \in 0..MaxQuery /\ fails \in 0..MaxFail
      /\ res \subseteq Redis!Query \X (Redis!Query \cup {None})
  BY DEF QueryInv, QueryTypes
<1>2. sock \in socks \cup {None} /\ Redis!SocketsOwned
  BY DEF QueryInv, Held, Redis!SocketsOwned
<1>3. socks \subseteq Redis!Sock
  BY OpenSocket
<1>4. queryPc = "idle" /\ m_context # None => m_context.obuf = <<>> /\ m_context.in = <<>>
  BY DEF QueryInv, Travelling, Fits
<1>. QED
  BY <1>1, <1>2, <1>3, <1>4 DEF QueryInv, QueriesSafe, Redis!TypeOK
-----------------------------------------------------------------------------
(* The configuration: Find, SubSeq and _TrimSpace                          *)

LEMMA FilesAssumed == Conf!ConfigFileAssumption
BY ProcessAssumption

(* Every set of naturals that is not empty has a least element, and a      *)
(* greatest if it is bounded.                                              *)
LEMMA MinOfIs ==
  ASSUME NEW S \in SUBSET Nat, S # {}
  PROVE  Conf!MinOf(S) \in S /\ \A y \in S : Conf!MinOf(S) <= y
<1>. DEFINE R == {ss \in Nat \X Nat : ss[1] < ss[2]}
<1>1. IsWellFoundedOn(R, Nat)
  BY NatLessThanWellFounded DEF OpToRel
<1>2. PICK x \in S : \A y \in S : <<y, x>> \notin R
  BY <1>1, WFMin
<1>3. \A y \in S : ~(y < x)
  BY <1>2
<1>4. \A y \in S : x <= y
  BY <1>3
<1>. QED
  BY <1>2, <1>4 DEF Conf!MinOf

LEMMA MaxOfIs ==
  ASSUME NEW S \in SUBSET Nat, S # {}, NEW n \in Nat, \A y \in S : y <= n
  PROVE  Conf!MaxOf(S) \in S /\ \A y \in S : y <= Conf!MaxOf(S)
<1>. DEFINE T == {n - y : y \in S}
<1>1. T \subseteq Nat
  OBVIOUS
<1>2. T # {}
  OBVIOUS
<1>3. Conf!MinOf(T) \in T /\ \A t \in T : Conf!MinOf(T) <= t
  <2>. HIDE DEF T
  <2>. QED
    BY <1>1, <1>2, MinOfIs
<1>4. PICK x \in S : Conf!MinOf(T) = n - x
  BY <1>3
<1>5. ASSUME NEW y \in S PROVE y <= x
  <2>1. n - x <= n - y
    BY <1>3, <1>4
  <2>. QED
    BY <2>1
<1>. QED
  BY <1>4, <1>5 DEF Conf!MaxOf

LEMMA FindIs ==
  ASSUME NEW S, NEW s \in Seq(S), NEW c
  PROVE  /\ Conf!Find(s, c) \in 1..Len(s) + 1
         /\ Conf!Find(s, c) <= Len(s) => s[Conf!Find(s, c)] = c
         /\ \A i \in 1..Conf!Find(s, c) - 1 : i \in 1..Len(s) /\ s[i] # c
<1>. DEFINE T == {i \in 1..Len(s) : s[i] = c} \cup {Len(s) + 1}
<1>1. Len(s) \in Nat
  BY LenProperties
<1>2. T \subseteq Nat /\ T # {} /\ T \subseteq 1..Len(s) + 1
  BY <1>1
<1>3. /\ Conf!Find(s, c) \in T
      /\ \A y \in T : Conf!Find(s, c) <= y
  BY <1>2, MinOfIs DEF Conf!Find
<1>. QED
  BY <1>1, <1>2, <1>3

LEMMA SubSeqIs ==
  ASSUME NEW S, NEW s \in Seq(S), NEW m \in 1..Len(s) + 1, NEW n \in (m - 1)..Len(s)
  PROVE  /\ SubSeq(s, m, n) \in Seq(S) /\ Len(SubSeq(s, m, n)) = n - m + 1
         /\ \A i \in 1..(n - m + 1) : SubSeq(s, m, n)[i] = s[m + i - 1]
<1>1. Len(s) \in Nat /\ \A i \in 1..Len(s) : s[i] \in S
  BY ElementOfSeq, LenProperties
<1>. QED
  BY <1>1, SubSeqProperties

LEMMA SubSubSeq ==
  ASSUME NEW S, NEW s \in Seq(S), NEW a \in 1..Len(s) + 1, NEW b \in (a - 1)..Len(s),
         NEW i \in 1..(b - a + 2), NEW j \in (i - 1)..(b - a + 1)
  PROVE  SubSeq(SubSeq(s, a, b), i, j) = SubSeq(s, a + i - 1, a + j - 1)
<1>. DEFINE t == SubSeq(s, a, b)
            u == SubSeq(t, i, j)
            v == SubSeq(s, a + i - 1, a + j - 1)
<1>0. Len(s) \in Nat
  BY LenProperties
<1>1. /\ t \in Seq(S) /\ Len(t) = b - a + 1
      /\ \A k \in 1..(b - a + 1) : t[k] = s[a + k - 1]
  BY SubSeqIs
<1>. HIDE DEF t
<1>2. /\ u \in Seq(S) /\ Len(u) = j - i + 1
      /\ \A k \in 1..(j - i + 1) : u[k] = t[i + k - 1]
  <2>1. i \in 1..Len(t) + 1 /\ j \in (i - 1)..Len(t)
    BY <1>1, <1>0
  <2>. QED
    BY <1>1, <2>1, SubSeqIs
<1>3. /\ v \in Seq(S) /\ Len(v) = j - i + 1
      /\ \A k \in 1..(j - i + 1) : v[k] = s[a + i - 1 + k - 1]
  <2>1. /\ a + i - 1 \in 1..Len(s) + 1 /\ a + j - 1 \in (a + i - 1 - 1)..Len(s)
        /\ a + j - 1 - (a + i - 1) + 1 = j - i + 1
    BY <1>0
  <2>. QED
    BY <2>1, SubSeqIs
<1>4. ASSUME NEW k \in 1..(j - i + 1) PROVE u[k] = v[k]
  <2>1. /\ i + k - 1 \in 1..(b - a + 1)
        /\ a + (i + k - 1) - 1 = a + i - 1 + k - 1
    BY <1>0
  <2>. HIDE DEF u, v
  <2>. QED
    BY <2>1, <1>1, <1>2, <1>3
<1>5. u = v
  <2>. HIDE DEF u, v
  <2>. QED
    BY <1>2, <1>3, <1>4, SeqEqual
<1>. QED
  BY <1>5 DEF t

Blank == {"SP", "CR", "LF"}

(* _TrimSpace: f and l are the ends of what is left.                       *)
Trimmed(s, f, l) ==
  /\ f \in 1..Len(s) /\ l \in f..Len(s)
  /\ s[f] # "SP" /\ \A i \in 1..f - 1 : s[i] = "SP"
  /\ s[l] \notin Blank /\ \A i \in l + 1..Len(s) : s[i] \in Blank

LEMMA TrimIs ==
  ASSUME NEW s \in Seq(Chars)
  PROVE  \/ Conf!TrimSpace(s) = None /\ \A i \in 1..Len(s) : s[i] \in Blank
         \/ \E f, l : Trimmed(s, f, l) /\ Conf!TrimSpace(s) = SubSeq(s, f, l)
<1>. DEFINE I == {i \in 1..Len(s) : s[i] # "SP"}
            J == {j \in 1..Len(s) : s[j] \notin {"SP", "CR", "LF"}}
<1>0. Len(s) \in Nat
  BY LenProperties
<1>1. CASE J = {}
  BY <1>1 DEF Conf!TrimSpace, Blank
<1>2. CASE J # {}
  <2>1. I \in SUBSET Nat /\ J \in SUBSET Nat
    <3>1. 1..Len(s) \subseteq Nat
      BY <1>0
    <3>2. I \subseteq 1..Len(s)
      OBVIOUS
    <3>3. J \subseteq 1..Len(s)
      OBVIOUS
    <3>. QED
      BY <3>1, <3>2, <3>3
  <2>2. J \subseteq I
    OBVIOUS
  <2>3. ASSUME NEW j \in J PROVE j <= Len(s)
    <3>1. j \in 1..Len(s)
      OBVIOUS
    <3>. HIDE DEF J
    <3>. QED
      BY <1>0, <3>1
  <2>4. I # {}
    BY <1>2, <2>2
  <2>5. PICK f : f = Conf!MinOf(I) /\ f \in I /\ \A y \in I : f <= y
    <3>. HIDE DEF I, J
    <3>. QED
      BY <2>1, <2>4, MinOfIs
  <2>6. PICK l : l = Conf!MaxOf(J) /\ l \in J /\ \A y \in J : y <= l
    <3>. HIDE DEF I, J
    <3>. QED
      BY <1>0, <1>2, <2>1, <2>3, MaxOfIs
  <2>7. Conf!TrimSpace(s) = SubSeq(s, f, l)
    BY <1>2, <2>5, <2>6 DEF Conf!TrimSpace
  <2>8. f \in 1..Len(s) /\ l \in 1..Len(s) /\ f <= l
    BY <2>2, <2>5, <2>6
  <2>9. l \in f..Len(s)
    BY <2>8, <1>0
  <2>10. s[f] # "SP" /\ s[l] \notin Blank
    BY <2>5, <2>6 DEF Blank
  <2>11. ASSUME NEW i \in 1..f - 1 PROVE s[i] = "SP"
    <3>1. i \in 1..Len(s) /\ ~(f <= i)
      BY <2>8, <1>0
    <3>. QED
      BY <3>1, <2>5
  <2>12. ASSUME NEW i \in l + 1..Len(s) PROVE s[i] \in Blank
    <3>1. i \in 1..Len(s) /\ ~(i <= l)
      BY <2>8, <1>0
    <3>. QED
      BY <3>1, <2>6 DEF Blank
  <2>13. Trimmed(s, f, l)
    BY <2>8, <2>9, <2>10, <2>11, <2>12 DEF Trimmed
  <2>. QED
    BY <2>7, <2>13
<1>. QED
  BY <1>1, <1>2

LEMMA NoneIsNoText == None \notin Seq(Chars)
BY FilesAssumed DEF Conf!ConfigFileAssumption

(* What is left of a part of a line without its end.                       *)
CoreEnds(a, b) ==
  {ij \in (a..b) \X (a..b) :
     /\ ij[1] <= ij[2]
     /\ file[ij[1]] # "SP" /\ \A k \in a..ij[1] - 1 : file[k] = "SP"
     /\ file[ij[2]] \notin {"SP", "CR"} /\ \A k \in ij[2] + 1..b : file[k] \in {"SP", "CR"}}

LEMMA CoreIs ==
  ASSUME file \in Seq(Chars),
         NEW a \in 1..Len(file) + 1, NEW b \in (a - 1)..Len(file),
         \A i \in a..b : file[i] # "LF"
  PROVE  Conf!Core(a, b) = IF Conf!TrimSpace(SubSeq(file, a, b)) = None THEN {}
                      ELSE {Conf!TrimSpace(SubSeq(file, a, b))}
<1>. DEFINE s == SubSeq(file, a, b)
<1>0. Len(file) \in Nat
  BY LenProperties
<1>1. /\ s \in Seq(Chars) /\ Len(s) = b - a + 1
      /\ \A i \in 1..(b - a + 1) : s[i] = file[a + i - 1]
  BY SubSeqIs
<1>2. \A k \in a..b : k - a + 1 \in 1..Len(s) /\ s[k - a + 1] = file[k]
  BY <1>0, <1>1
<1>3. Conf!Core(a, b) = {SubSeq(file, w[1], w[2]) : w \in CoreEnds(a, b)}
  BY DEF Conf!Core, CoreEnds
<1>. HIDE DEF s
<1>4. CASE Conf!TrimSpace(s) = None /\ \A i \in 1..Len(s) : s[i] \in Blank
  <2>1. \A k \in a..b : file[k] \in {"SP", "CR"}
    BY <1>2, <1>4 DEF Blank
  <2>2. CoreEnds(a, b) = {}
    BY <2>1 DEF CoreEnds
  <2>. QED
    BY <1>3, <1>4, <2>2 DEF s
<1>5. ASSUME NEW f, NEW l, Trimmed(s, f, l), Conf!TrimSpace(s) = SubSeq(s, f, l)
      PROVE  Conf!Core(a, b) = {Conf!TrimSpace(s)} /\ Conf!TrimSpace(s) # None
  <2>0. f \in 1..Len(s) /\ l \in f..Len(s)
    BY <1>5 DEF Trimmed
  <2>1. /\ f \in 1..(b - a + 1) /\ l \in f..(b - a + 1) /\ f \in Int /\ l \in Int
        /\ f \in 1..Len(s) + 1 /\ l \in (f - 1)..Len(s)
    BY <2>0, <1>0, <1>1
  <2>2. PICK x \in a..b, y \in a..b : x = a + f - 1 /\ y = a + l - 1 /\ x <= y
    BY <2>1, <1>0
  <2>11. a \in Int /\ b \in Int /\ x \in Int /\ y \in Int
    BY <2>2, <1>0
  <2>3. file[x] # "SP" /\ file[y] \notin {"SP", "CR"}
    <3>1. s[f] = file[x] /\ s[l] = file[y]
      BY <2>1, <2>2, <1>1, <1>0
    <3>. QED
      BY <3>1, <1>5 DEF Trimmed, Blank
  <2>4. ASSUME NEW k \in a..x - 1 PROVE file[k] = "SP"
    <3>1. k \in a..b /\ k - a + 1 \in 1..f - 1
      BY <2>1, <2>2, <2>11
    <3>2. s[k - a + 1] = "SP"
      BY <3>1, <1>5 DEF Trimmed
    <3>. QED
      BY <3>1, <3>2, <1>2
  <2>5. ASSUME NEW k \in y + 1..b PROVE file[k] \in {"SP", "CR"}
    <3>1. k \in a..b /\ k - a + 1 \in l + 1..Len(s)
      BY <2>1, <2>2, <2>11, <1>1
    <3>2. s[k - a + 1] \in Blank
      BY <3>1, <1>5 DEF Trimmed
    <3>. QED
      BY <3>1, <3>2, <1>2 DEF Blank
  <2>6. <<x, y>> \in CoreEnds(a, b)
    BY <2>2, <2>3, <2>4, <2>5 DEF CoreEnds
  <2>7. ASSUME NEW v \in a..b, NEW w \in a..b, <<v, w>> \in CoreEnds(a, b)
        PROVE  v = x /\ w = y
    <3>1. /\ file[v] # "SP" /\ \A k \in a..v - 1 : file[k] = "SP"
          /\ file[w] \notin {"SP", "CR"} /\ \A k \in w + 1..b : file[k] \in {"SP", "CR"}
      BY <2>7 DEF CoreEnds
    <3>2. v \in Int /\ w \in Int
      BY <2>11
    <3>3. v \in a..x - 1 \/ x \in a..v - 1 \/ v = x
      BY <3>2, <2>11
    <3>4. w \in y + 1..b \/ y \in w + 1..b \/ w = y
      BY <3>2, <2>11
    <3>5. v \notin a..x - 1 /\ w \notin y + 1..b
      BY <3>1, <2>4, <2>5
    <3>6. x \notin a..v - 1 /\ y \notin w + 1..b
      BY <3>1, <2>3
    <3>. QED
      BY <3>3, <3>4, <3>5, <3>6
  <2>8. SubSeq(s, f, l) = SubSeq(file, x, y)
    <3>1. f \in 1..(b - a + 2) /\ l \in (f - 1)..(b - a + 1)
      BY <2>1, <2>11
    <3>. QED
      BY <3>1, <2>2, SubSubSeq DEF s
  <2>9. Conf!Core(a, b) = {SubSeq(file, x, y)}
    <3>1. ASSUME NEW e \in CoreEnds(a, b) PROVE e[1] = x /\ e[2] = y
      <4>0. e \in (a..b) \X (a..b)
        BY DEF CoreEnds
      <4>1. PICK v \in a..b, w \in a..b : e = <<v, w>>
        BY <4>0
      <4>. QED
        BY <2>7, <4>1
    <3>. QED
      BY <1>3, <2>6, <3>1
  <2>10. SubSeq(s, f, l) \in Seq(Chars)
    BY <2>1, <1>1, SubSeqIs
  <2>. QED
    BY <1>5, <2>8, <2>9, <2>10, NoneIsNoText
<1>. QED
  BY <1>1, <1>4, <1>5, TrimIs DEF s

(* The places of a line: where the part without comment ends, and where    *)
(* the "=" is.                                                             *)
Places(a, b) ==
  {x \in (a..b) \X (a..b) :
     /\ x[1] <= x[2]
     /\ Conf!Bare(a, x[2]) /\ (x[2] = b \/ file[x[2] + 1] = "#")
     /\ file[x[1]] = "=" /\ \A i \in a..x[1] - 1 : file[i] # "="}

(* A line without its comment is a part of the file.                       *)
LEMMA BareLine ==
  ASSUME file \in Seq(Chars), NEW a \in 1..Len(file), NEW b \in a..Len(file)
  PROVE  LET line == SubSeq(file, a, b)
             t == Conf!Before(line, Conf!Find(line, "#"))
         IN \E c \in (a - 1)..b :
              /\ t = SubSeq(file, a, c)
              /\ \A i \in a..c : file[i] # "#"
              /\ c = b \/ file[c + 1] = "#"
<1>. DEFINE line == SubSeq(file, a, b)
<1>0. Len(file) \in Nat /\ a \in Int /\ b \in Int
  BY LenProperties
<1>1. /\ line \in Seq(Chars) /\ Len(line) = b - a + 1
      /\ \A i \in 1..(b - a + 1) : line[i] = file[a + i - 1]
  BY <1>0, SubSeqIs
<1>. HIDE DEF line
<1>2. PICK h : /\ h = Conf!Find(line, "#") /\ h \in 1..Len(line) + 1
               /\ h <= Len(line) => line[h] = "#"
               /\ \A i \in 1..h - 1 : i \in 1..Len(line) /\ line[i] # "#"
  BY <1>1, FindIs
<1>3. PICK c \in (a - 1)..b : c = a + h - 2
  BY <1>0, <1>1, <1>2
<1>4. Conf!Before(line, h) = SubSeq(file, a, c)
  <2>1. 1 \in 1..(b - a + 2) /\ h - 1 \in (1 - 1)..(b - a + 1) /\ a \in 1..Len(file) + 1
        /\ b \in (a - 1)..Len(file)
    BY <1>0, <1>1, <1>2
  <2>2. SubSeq(line, 1, h - 1) = SubSeq(file, a + 1 - 1, a + (h - 1) - 1)
    BY <2>1, SubSubSeq DEF line
  <2>3. a + 1 - 1 = a /\ a + (h - 1) - 1 = c
    BY <1>0, <1>1, <1>2, <1>3
  <2>. QED
    BY <2>2, <2>3 DEF Conf!Before
<1>5. ASSUME NEW i \in a..c PROVE file[i] # "#"
  <2>1. i - a + 1 \in 1..h - 1 /\ i - a + 1 \in 1..(b - a + 1) /\ a + (i - a + 1) - 1 = i
    BY <1>0, <1>1, <1>2, <1>3
  <2>. QED
    BY <2>1, <1>1, <1>2
<1>6. ASSUME c # b PROVE file[c + 1] = "#"
  <2>1. h <= Len(line) /\ h \in 1..(b - a + 1) /\ a + h - 1 = c + 1
    BY <1>0, <1>1, <1>2, <1>3, <1>6
  <2>. QED
    BY <2>1, <1>1, <1>2
<1>. QED
  BY <1>2, <1>3, <1>4, <1>5, <1>6 DEF line

(* _ParseLine finds the setting of a line.                                 *)
LEMMA SettingIs ==
  ASSUME file \in Seq(Chars), NEW a \in 1..Len(file), NEW b \in a..Len(file),
         \A i \in a..b : file[i] # "LF"
  PROVE  LET line == SubSeq(file, a, b)
             t == Conf!Before(line, Conf!Find(line, "#"))
             e == Conf!Find(t, "=")
             key == Conf!TrimSpace(Conf!Before(t, e))
             value == Conf!TrimSpace(Conf!After(t, e))
         IN Conf!Setting(a, b) = IF e > Len(t) \/ key = None \/ value = None THEN {}
                            ELSE {<<key, value>>}
<1>. DEFINE line == SubSeq(file, a, b)
            t == Conf!Before(line, Conf!Find(line, "#"))
<1>0. Len(file) \in Nat /\ a \in Int /\ b \in Int
  BY LenProperties
<1>1. PICK c \in (a - 1)..b :
        /\ t = SubSeq(file, a, c)
        /\ \A i \in a..c : file[i] # "#"
        /\ c = b \/ file[c + 1] = "#"
  BY BareLine
<1>. HIDE DEF t
<1>2. /\ t \in Seq(Chars) /\ Len(t) = c - a + 1
      /\ \A i \in 1..(c - a + 1) : t[i] = file[a + i - 1]
  <2>1. a \in 1..Len(file) + 1 /\ c \in (a - 1)..Len(file)
    BY <1>0
  <2>. QED
    BY <1>1, <2>1, SubSeqIs
<1>3. PICK e : /\ e = Conf!Find(t, "=") /\ e \in 1..Len(t) + 1
               /\ e <= Len(t) => t[e] = "="
               /\ \A i \in 1..e - 1 : i \in 1..Len(t) /\ t[i] # "="
  BY <1>2, FindIs
<1>4. c \in Int /\ e \in Int /\ Len(t) \in Int
  BY <1>0, <1>2, <1>3
<1>5. Conf!Setting(a, b) =
        UNION {Conf!Core(a, x[1] - 1) \X Conf!Core(x[1] + 1, x[2]) : x \in Places(a, b)}
  BY DEF Conf!Setting, Places
<1>6. ASSUME NEW v \in a..b, NEW w \in a..b, <<v, w>> \in Places(a, b) PROVE w = c
  <2>1. Conf!Bare(a, w) /\ (w = b \/ file[w + 1] = "#")
    BY <1>6 DEF Places
  <2>2. w \in Int /\ (w < c \/ w = c \/ c + 1 \in a..w)
    BY <1>0, <1>4
  <2>3. c + 1 \notin a..w
    <3>1. CASE c = b
      BY <3>1, <1>0
    <3>2. CASE file[c + 1] = "#"
      BY <2>1, <3>2 DEF Conf!Bare
    <3>. QED
      BY <3>1, <3>2, <1>1
  <2>4. ~(w < c)
    <3>1. w < c => w # b /\ w + 1 \in a..c
      BY <1>0, <1>4, <2>2
    <3>. QED
      BY <2>1, <3>1, <1>1
  <2>. QED
    BY <2>2, <2>3, <2>4
<1>7. ASSUME NEW z \in Places(a, b)
      PROVE  \E v \in a..b, w \in a..b : z = <<v, w>>
  <2>1. z \in (a..b) \X (a..b)
    BY DEF Places
  <2>. QED
    BY <2>1
<1>8. \A i \in a..c : i - a + 1 \in 1..(c - a + 1) /\ t[i - a + 1] = file[i]
  <2>1. \A i \in a..c : i - a + 1 \in 1..(c - a + 1) /\ a + (i - a + 1) - 1 = i
    BY <1>0, <1>4
  <2>. QED
    BY <2>1, <1>2
<1>9. CASE e > Len(t)
  <2>1. ASSUME NEW i \in a..c PROVE file[i] # "="
    <3>1. i - a + 1 \in 1..e - 1
      BY <1>0, <1>2, <1>3, <1>4, <1>9
    <3>. QED
      BY <3>1, <1>3, <1>8
  <2>2. Places(a, b) = {}
    <3>1. ASSUME NEW v \in a..b, NEW w \in a..b, <<v, w>> \in Places(a, b) PROVE FALSE
      <4>1. v <= w /\ file[v] = "=" /\ w = c
        BY <1>6, <3>1 DEF Places
      <4>2. v \in a..c
        BY <4>1, <1>0
      <4>. QED
        BY <4>1, <4>2, <2>1
    <3>. QED
      BY <1>7, <3>1
  <2>. QED
    BY <1>3, <1>5, <1>9, <2>2 DEF t
<1>10. CASE e <= Len(t)
  <2>0. Len(t) = c - a + 1 /\ e \in 1..(c - a + 1)
    BY <1>2, <1>3, <1>4, <1>10
  <2>1. PICK E \in a..c : E = a + e - 1
    BY <1>0, <1>4, <2>0
  <2>2. E \in Int /\ E \in a..b /\ c \in a..b /\ E <= c
    BY <1>0, <1>4, <2>1
  <2>3. file[E] = "="
    <3>1. E - a + 1 = e
      BY <2>1, <2>2, <1>0, <1>4
    <3>. QED
      BY <3>1, <2>1, <1>8, <1>3, <1>10
  <2>4. ASSUME NEW i \in a..E - 1 PROVE file[i] # "="
    <3>1. i \in a..c /\ i - a + 1 \in 1..e - 1
      BY <2>1, <2>2, <1>0, <1>4
    <3>. QED
      BY <3>1, <1>3, <1>8
  <2>5. <<E, c>> \in Places(a, b)
    <3>1. Conf!Bare(a, c)
      BY <1>1 DEF Conf!Bare
    <3>. QED
      BY <3>1, <2>2, <2>3, <2>4, <1>1 DEF Places
  <2>6. ASSUME NEW v \in a..b, NEW w \in a..b, <<v, w>> \in Places(a, b)
        PROVE  v = E /\ w = c
    <3>1. file[v] = "=" /\ (\A i \in a..v - 1 : file[i] # "=") /\ w = c
      BY <1>6, <2>6 DEF Places
    <3>2. v \in a..E - 1 \/ E \in a..v - 1 \/ v = E
      BY <2>2, <1>0
    <3>. QED
      BY <3>1, <3>2, <2>3, <2>4
  <2>7. Conf!Setting(a, b) = Conf!Core(a, E - 1) \X Conf!Core(E + 1, c)
    <3>1. \A z \in Places(a, b) : z[1] = E /\ z[2] = c
      BY <1>7, <2>6
    <3>. QED
      BY <1>5, <2>5, <3>1
  <2>8. Conf!Before(t, e) = SubSeq(file, a, E - 1)
    <3>1. /\ 1 \in 1..(c - a + 2) /\ e - 1 \in (1 - 1)..(c - a + 1)
          /\ a \in 1..Len(file) + 1 /\ c \in (a - 1)..Len(file)
          /\ a + 1 - 1 = a /\ a + (e - 1) - 1 = E - 1
      BY <1>0, <1>4, <2>0, <2>1, <2>2
    <3>2. SubSeq(SubSeq(file, a, c), 1, e - 1) = SubSeq(file, a + 1 - 1, a + (e - 1) - 1)
      BY <3>1, SubSubSeq
    <3>. QED
      BY <3>1, <3>2, <1>1 DEF Conf!Before
  <2>9. Conf!After(t, e) = SubSeq(file, E + 1, c)
    <3>1. /\ e + 1 \in 1..(c - a + 2) /\ Len(t) \in (e + 1 - 1)..(c - a + 1)
          /\ a \in 1..Len(file) + 1 /\ c \in (a - 1)..Len(file)
          /\ a + (e + 1) - 1 = E + 1 /\ a + Len(t) - 1 = c
      BY <1>0, <1>4, <2>0, <2>1, <2>2
    <3>2. SubSeq(SubSeq(file, a, c), e + 1, Len(t)) = SubSeq(file, a + (e + 1) - 1, a + Len(t) - 1)
      <4>. DEFINE i == e + 1
                  j == Len(t)
      <4>1. i \in 1..(c - a + 2) /\ j \in (i - 1)..(c - a + 1)
        BY <3>1
      <4>2. SubSeq(SubSeq(file, a, c), i, j) = SubSeq(file, a + i - 1, a + j - 1)
        <5>. HIDE DEF i, j
        <5>. QED
          BY <4>1, <3>1, SubSubSeq
      <4>. QED
        BY <4>2
    <3>. QED
      BY <3>1, <3>2, <1>1 DEF Conf!After
  <2>10. /\ a \in 1..Len(file) + 1 /\ E - 1 \in (a - 1)..Len(file)
         /\ E + 1 \in 1..Len(file) + 1 /\ c \in (E + 1 - 1)..Len(file)
         /\ \A i \in a..E - 1 : i \in a..b
         /\ \A i \in E + 1..c : i \in a..b
    BY <1>0, <1>4, <2>1, <2>2
  <2>11. Conf!Core(a, E - 1) = IF Conf!TrimSpace(Conf!Before(t, e)) = None THEN {}
                               ELSE {Conf!TrimSpace(Conf!Before(t, e))}
    BY <2>8, <2>10, CoreIs
  <2>12. Conf!Core(E + 1, c) = IF Conf!TrimSpace(Conf!After(t, e)) = None THEN {}
                               ELSE {Conf!TrimSpace(Conf!After(t, e))}
    <3>. DEFINE x == E + 1
    <3>1. x \in 1..Len(file) + 1 /\ c \in (x - 1)..Len(file) /\ \A i \in x..c : file[i] # "LF"
      BY <2>10
    <3>2. Conf!Core(x, c) = IF Conf!TrimSpace(SubSeq(file, x, c)) = None THEN {}
                       ELSE {Conf!TrimSpace(SubSeq(file, x, c))}
      <4>. HIDE DEF x
      <4>. QED
        BY <3>1, CoreIs
    <3>. QED
      BY <3>2, <2>9
  <2>13. ~(e > Len(t))
    BY <1>4, <1>10
  <2>14. Conf!Setting(a, b) =
           IF \/ Conf!TrimSpace(Conf!Before(t, e)) = None
              \/ Conf!TrimSpace(Conf!After(t, e)) = None
             THEN {}
             ELSE {<<Conf!TrimSpace(Conf!Before(t, e)), Conf!TrimSpace(Conf!After(t, e))>>}
    BY <2>7, <2>11, <2>12
  <2>. QED
    BY <1>3, <2>13, <2>14 DEF t
<1>. QED
  BY <1>4, <1>9, <1>10

(* What the map holds: one value for each key, and values without blanks   *)
(* around them.                                                            *)
MapOK(map) ==
  /\ map \subseteq Seq(Chars) \X Seq(Chars)
  /\ \A m, n \in map : m[1] = n[1] => m = n
  /\ \A m \in map : m[2] # <<>> /\ m[2][1] # "SP" /\ m[2][Len(m[2])] # "SP"

LEMMA TrimmedText ==
  ASSUME NEW s \in Seq(Chars), Conf!TrimSpace(s) # None
  PROVE  LET v == Conf!TrimSpace(s) IN
         v \in Seq(Chars) /\ v # <<>> /\ v[1] # "SP" /\ v[Len(v)] # "SP"
<1>1. PICK f, l : Trimmed(s, f, l) /\ Conf!TrimSpace(s) = SubSeq(s, f, l)
  BY TrimIs
<1>. DEFINE v == SubSeq(s, f, l)
<1>2. s[f] # "SP" /\ s[l] # "SP"
  BY <1>1 DEF Trimmed, Blank
<1>7. f \in 1..Len(s) /\ l \in f..Len(s) /\ Len(s) \in Nat
  BY <1>1, LenProperties DEF Trimmed
<1>3. /\ Len(s) \in Nat
      /\ f \in 1..Len(s) + 1 /\ l \in (f - 1)..Len(s)
      /\ l - f + 1 \in 1..(l - f + 1) /\ 1 \in 1..(l - f + 1)
      /\ f + 1 - 1 = f /\ f + (l - f + 1) - 1 = l /\ l - f + 1 # 0
  BY <1>7
<1>4. /\ v \in Seq(Chars) /\ Len(v) = l - f + 1
      /\ \A i \in 1..(l - f + 1) : v[i] = s[f + i - 1]
  BY <1>3, SubSeqIs
<1>5. v[1] = s[f] /\ v[Len(v)] = s[l]
  <2>. HIDE DEF v
  <2>1. v[1] = s[f + 1 - 1] /\ v[l - f + 1] = s[f + (l - f + 1) - 1]
    BY <1>3, <1>4
  <2>. QED
    BY <2>1, <1>3, <1>4
<1>6. v # <<>>
  <2>. HIDE DEF v
  <2>. QED
    BY <1>3, <1>4
<1>. QED
  BY <1>1, <1>2, <1>4, <1>5, <1>6

LEMMA BeforeIs ==
  ASSUME NEW S, NEW s \in Seq(S), NEW c
  PROVE  Conf!Before(s, Conf!Find(s, c)) \in Seq(S)
<1>1. 1 \in 1..Len(s) + 1 /\ Conf!Find(s, c) - 1 \in (1 - 1)..Len(s)
  BY FindIs, LenProperties
<1>. QED
  BY <1>1, SubSeqIs DEF Conf!Before

LEMMA PutOK ==
  ASSUME NEW map, MapOK(map), NEW k \in Seq(Chars), NEW v \in Seq(Chars),
         v # <<>> /\ v[1] # "SP" /\ v[Len(v)] # "SP"
  PROVE  MapOK(Conf!Put(map, k, v))
<1>1. CASE \E m \in map : m[1] = k
  BY <1>1 DEF Conf!Put
<1>2. CASE ~ \E m \in map : m[1] = k
  <2>. DEFINE kv == <<k, v>>
  <2>1. Conf!Put(map, k, v) = map \cup {kv}
    BY <1>2 DEF Conf!Put
  <2>2. kv[1] = k /\ kv[2] = v /\ kv \in Seq(Chars) \X Seq(Chars)
    OBVIOUS
  <2>. HIDE DEF kv
  <2>3. /\ map \subseteq Seq(Chars) \X Seq(Chars)
        /\ \A m, n \in map : m[1] = n[1] => m = n
        /\ \A m \in map : m[2] # <<>> /\ m[2][1] # "SP" /\ m[2][Len(m[2])] # "SP"
    BY DEF MapOK
  <2>4. map \cup {kv} \subseteq Seq(Chars) \X Seq(Chars)
    BY <2>2, <2>3
  <2>5. ASSUME NEW m \in map \cup {kv}, NEW n \in map \cup {kv}, m[1] = n[1]
        PROVE  m = n
    BY <1>2, <2>2, <2>3, <2>5
  <2>6. ASSUME NEW m \in map \cup {kv}
        PROVE  m[2] # <<>> /\ m[2][1] # "SP" /\ m[2][Len(m[2])] # "SP"
    BY <2>2, <2>3
  <2>. QED
    BY <2>1, <2>2, <2>4, <2>5, <2>6 DEF MapOK
<1>. QED
  BY <1>1, <1>2

LEMMA ParsedOK ==
  ASSUME NEW map, MapOK(map), NEW t \in Seq(Chars)
  PROVE  MapOK(Conf!ParseLine(map, t))
<1>. DEFINE e == Conf!Find(t, "=")
            k == Conf!TrimSpace(Conf!Before(t, e))
            v == Conf!TrimSpace(Conf!After(t, e))
<1>1. CASE e > Len(t) \/ k = None \/ v = None
  BY <1>1 DEF Conf!ParseLine
<1>2. CASE ~(e > Len(t) \/ k = None \/ v = None)
  <2>1. Conf!ParseLine(map, t) = Conf!Put(map, k, v)
    BY <1>2 DEF Conf!ParseLine
  <2>2. Conf!Before(t, e) \in Seq(Chars)
    BY BeforeIs
  <2>3. Conf!After(t, e) \in Seq(Chars)
    <3>1. e \in 1..Len(t) + 1 /\ Len(t) \in Nat /\ ~(e > Len(t))
      BY <1>2, FindIs, LenProperties
    <3>. HIDE DEF e
    <3>2. e + 1 \in 1..Len(t) + 1 /\ Len(t) \in (e + 1 - 1)..Len(t)
      BY <3>1
    <3>. QED
      BY <3>2, SubSeqIs DEF Conf!After
  <2>4. k \in Seq(Chars)
    BY <1>2, <2>2, TrimmedText
  <2>5. v \in Seq(Chars) /\ v # <<>> /\ v[1] # "SP" /\ v[Len(v)] # "SP"
    BY <1>2, <2>3, TrimmedText
  <2>. HIDE DEF k, v
  <2>. QED
    BY <2>1, <2>4, <2>5, PutOK
<1>. QED
  BY <1>1, <1>2

-----------------------------------------------------------------------------
(* The lines of the file                                                   *)

LEMMA LineIs ==
  ASSUME NEW l \in Conf!Line
  PROVE  /\ l = <<l[1], l[2]>> /\ l[1] \in 1..Len(file) /\ l[2] \in 1..Len(file)
         /\ l[1] <= l[2]
         /\ l[1] = 1 \/ file[l[1] - 1] = "LF"
         /\ l[2] = Len(file) \/ file[l[2] + 1] = "LF"
         /\ \A i \in l[1]..l[2] : file[i] # "LF"
<1>1. l \in (1..Len(file)) \X (1..Len(file)) /\ l[1] <= l[2] /\ Conf!IsLine(l[1], l[2])
  BY DEF Conf!Line
<1>. QED
  BY <1>1 DEF Conf!IsLine

(* What fgets takes at the beginning of a line: the line, when it fits,    *)
(* with or without its end.                                                *)
LEMMA PieceIsLine ==
  ASSUME file \in Seq(Chars), pos \in 0..Len(file), Conf!LinesFit,
         pos < Len(file), pos = 0 \/ file[pos] = "LF", file[pos + 1] # "LF"
  PROVE  \E b \in pos + 1..Len(file) :
           /\ <<pos + 1, b>> \in Conf!Line
           /\ Conf!Chop(Conf!Piece) = SubSeq(file, pos + 1, b)
           /\ \/ Len(Conf!Piece) = b - pos /\ (b = Len(file) \/ file[b + 1] = "LF")
              \/ Len(Conf!Piece) = b - pos + 1 /\ b < Len(file) /\ file[b + 1] = "LF"
<1>. DEFINE rest == Conf!After(file, pos)
<1>0. Len(file) \in Nat /\ pos \in Nat /\ BufLen \in Nat /\ BufLen > 2
  BY LenProperties, FilesAssumed DEF Conf!ConfigFileAssumption
<1>1. /\ rest \in Seq(Chars) /\ Len(rest) = Len(file) - pos
      /\ \A i \in 1..(Len(file) - pos) : rest[i] = file[pos + i]
  <2>1. /\ pos + 1 \in 1..Len(file) + 1 /\ Len(file) \in (pos + 1 - 1)..Len(file)
        /\ Len(file) - (pos + 1) + 1 = Len(file) - pos
        /\ \A i \in 1..(Len(file) - pos) : pos + 1 + i - 1 = pos + i
    BY <1>0
  <2>. DEFINE x == pos + 1
  <2>2. /\ SubSeq(file, x, Len(file)) \in Seq(Chars)
        /\ Len(SubSeq(file, x, Len(file))) = Len(file) - x + 1
        /\ \A i \in 1..(Len(file) - x + 1) : SubSeq(file, x, Len(file))[i] = file[x + i - 1]
    <3>1. x \in 1..Len(file) + 1 /\ Len(file) \in (x - 1)..Len(file)
      BY <2>1
    <3>. HIDE DEF x
    <3>. QED
      BY <3>1, SubSeqIs
  <2>. QED
    BY <2>1, <2>2 DEF Conf!After
<1>. HIDE DEF rest
<1>2. PICK g : /\ g = Conf!Find(rest, "LF") /\ g \in 1..Len(rest) + 1
               /\ g <= Len(rest) => rest[g] = "LF"
               /\ \A i \in 1..g - 1 : i \in 1..Len(rest) /\ rest[i] # "LF"
  BY <1>1, FindIs
<1>3. g \in 1..(Len(file) - pos + 1) /\ g \in Int
  BY <1>0, <1>1, <1>2
<1>4. g # 1
  <2>1. rest[1] = file[pos + 1] /\ Len(rest) >= 1
    BY <1>0, <1>1
  <2>. QED
    BY <1>2, <2>1
<1>5. PICK b \in pos + 1..Len(file) : b = pos + g - 1
  BY <1>0, <1>3, <1>4
<1>6. b \in Int /\ b >= pos + 1 /\ b <= Len(file)
  BY <1>0, <1>5
<1>7. \A i \in pos + 1..b : file[i] # "LF"
  <2>1. ASSUME NEW i \in pos + 1..b PROVE file[i] # "LF"
    <3>1. i - pos \in 1..g - 1 /\ i - pos \in 1..(Len(file) - pos) /\ pos + (i - pos) = i
      BY <1>0, <1>3, <1>5, <1>6
    <3>. QED
      BY <3>1, <1>1, <1>2
  <2>. QED
    BY <2>1
<1>8. ASSUME b # Len(file) PROVE file[b + 1] = "LF"
  <2>1. pos + g = b + 1 /\ b < Len(file)
    BY <1>0, <1>3, <1>5, <1>6, <1>8
  <2>2. g \in 1..(Len(file) - pos)
    BY <1>0, <1>3, <1>6, <2>1
  <2>3. rest[g] = file[pos + g] /\ g <= Len(rest)
    BY <2>2, <1>0, <1>1
  <2>. QED
    BY <2>1, <2>3, <1>2
<1>9. <<pos + 1, b>> \in Conf!Line
  <2>1. pos + 1 = 1 \/ file[pos + 1 - 1] = "LF"
    <3>1. pos + 1 - 1 = pos /\ (pos = 0 => pos + 1 = 1)
      BY <1>0
    <3>. QED
      BY <3>1
  <2>2. pos + 1 \in 1..Len(file) /\ b \in 1..Len(file)
    BY <1>0, <1>6
  <2>. QED
    BY <2>1, <2>2, <1>6, <1>7, <1>8 DEF Conf!Line, Conf!IsLine
<1>10. b - pos < BufLen
  <2>1. b - (pos + 1) + 1 < BufLen
    <3>. DEFINE l == <<pos + 1, b>>
    <3>1. l[2] - l[1] + 1 < BufLen
      BY <1>9 DEF Conf!LinesFit
    <3>. QED
      BY <3>1
  <2>. QED
    BY <2>1, <1>0, <1>6
<1>. DEFINE N == {g, Len(rest), BufLen - 1}
<1>11. PICK n \in N : Conf!Piece = SubSeq(rest, 1, n) /\ \A y \in N : n <= y
  <2>1. N \in SUBSET Nat /\ N # {}
    BY <1>0, <1>1, <1>3
  <2>2. Conf!MinOf(N) \in N /\ \A y \in N : Conf!MinOf(N) <= y
    <3>. HIDE DEF N
    <3>. QED
      BY <2>1, MinOfIs
  <2>. QED
    BY <1>2, <2>2 DEF Conf!Piece, rest
<1>12. /\ n \in Int /\ n <= g /\ n <= Len(file) - pos /\ n <= BufLen - 1
       /\ n = g \/ n = Len(file) - pos \/ n = BufLen - 1
  BY <1>0, <1>1, <1>3, <1>11
<1>13. n = g \/ n = g - 1
  BY <1>0, <1>3, <1>5, <1>6, <1>10, <1>12
<1>14. /\ Conf!Piece \in Seq(Chars) /\ Len(Conf!Piece) = n /\ n >= 1
       /\ \A i \in 1..n : Conf!Piece[i] = file[pos + i]
  <2>1. n \in 1..(Len(file) - pos) /\ 1 \in 1..Len(rest) + 1 /\ n \in (1 - 1)..Len(rest)
        /\ n - 1 + 1 = n /\ \A i \in 1..n : 1 + i - 1 = i /\ i \in 1..(Len(file) - pos)
    BY <1>0, <1>1, <1>3, <1>4, <1>12, <1>13
  <2>2. /\ SubSeq(rest, 1, n) \in Seq(Chars) /\ Len(SubSeq(rest, 1, n)) = n - 1 + 1
        /\ \A i \in 1..(n - 1 + 1) : SubSeq(rest, 1, n)[i] = rest[1 + i - 1]
    BY <1>1, <2>1, SubSeqIs
  <2>. QED
    BY <1>1, <1>11, <2>1, <2>2
<1>15. /\ SubSeq(file, pos + 1, b) \in Seq(Chars) /\ Len(SubSeq(file, pos + 1, b)) = b - pos
       /\ \A i \in 1..(b - pos) : SubSeq(file, pos + 1, b)[i] = file[pos + i]
  <2>. DEFINE x == pos + 1
  <2>1. /\ x \in 1..Len(file) + 1 /\ b \in (x - 1)..Len(file) /\ b - x + 1 = b - pos
        /\ \A i \in 1..(b - pos) : x + i - 1 = pos + i
    BY <1>0, <1>6
  <2>2. /\ SubSeq(file, x, b) \in Seq(Chars) /\ Len(SubSeq(file, x, b)) = b - x + 1
        /\ \A i \in 1..(b - x + 1) : SubSeq(file, x, b)[i] = file[x + i - 1]
    <3>. HIDE DEF x
    <3>. QED
      BY <2>1, SubSeqIs
  <2>. QED
    BY <2>1, <2>2
<1>16. Conf!Piece # <<>>
  BY <1>14, <1>12
<1>17. CASE n = g
  <2>1. /\ b < Len(file) /\ b # Len(file) /\ Len(Conf!Piece) = b - pos + 1
        /\ pos + n = b + 1 /\ n - 1 = b - pos
    BY <1>0, <1>3, <1>5, <1>6, <1>12, <1>14, <1>17
  <2>2. Conf!Piece[Len(Conf!Piece)] = "LF"
    <3>1. Conf!Piece[n] = file[pos + n]
      BY <1>12, <1>14
    <3>. QED
      BY <3>1, <2>1, <1>8, <1>14
  <2>3. Conf!Chop(Conf!Piece) = SubSeq(Conf!Piece, 1, n - 1)
    BY <2>2, <1>14, <1>16 DEF Conf!Chop
  <2>4. /\ SubSeq(Conf!Piece, 1, n - 1) \in Seq(Chars) /\ Len(SubSeq(Conf!Piece, 1, n - 1)) = b - pos
        /\ \A i \in 1..(b - pos) : SubSeq(Conf!Piece, 1, n - 1)[i] = file[pos + i]
    <3>. DEFINE m == n - 1
    <3>1. /\ 1 \in 1..Len(Conf!Piece) + 1 /\ m \in (1 - 1)..Len(Conf!Piece) /\ m - 1 + 1 = b - pos
          /\ \A i \in 1..(b - pos) : 1 + i - 1 = i /\ i \in 1..n
      BY <2>1, <1>12, <1>14
    <3>2. /\ SubSeq(Conf!Piece, 1, m) \in Seq(Chars) /\ Len(SubSeq(Conf!Piece, 1, m)) = m - 1 + 1
          /\ \A i \in 1..(m - 1 + 1) : SubSeq(Conf!Piece, 1, m)[i] = Conf!Piece[1 + i - 1]
      <4>. HIDE DEF m
      <4>. QED
        BY <3>1, <1>14, SubSeqIs
    <3>. QED
      BY <3>1, <3>2, <1>14
  <2>5. SubSeq(Conf!Piece, 1, n - 1) = SubSeq(file, pos + 1, b)
    <3>. DEFINE u == SubSeq(Conf!Piece, 1, n - 1)
                v == SubSeq(file, pos + 1, b)
    <3>1. u \in Seq(Chars) /\ v \in Seq(Chars) /\ Len(u) = Len(v) /\ Len(u) = b - pos
      BY <2>4, <1>15
    <3>2. \A i \in 1..(b - pos) : u[i] = v[i]
      BY <2>4, <1>15
    <3>. HIDE DEF u, v
    <3>3. u = v
      BY <3>1, <3>2, SeqEqual
    <3>. QED
      BY <3>3 DEF u, v
  <2>. QED
    BY <2>1, <2>3, <2>5, <1>8, <1>9
<1>18. CASE n = g - 1
  <2>1. Len(Conf!Piece) = b - pos /\ n = b - pos /\ pos + n = b /\ b \in pos + 1..b
    BY <1>0, <1>3, <1>5, <1>6, <1>12, <1>14, <1>18
  <2>2. Conf!Piece[Len(Conf!Piece)] # "LF"
    <3>1. Conf!Piece[n] = file[pos + n] /\ Len(Conf!Piece) = n
      BY <1>12, <1>14
    <3>. QED
      BY <3>1, <2>1, <1>7
  <2>3. Conf!Chop(Conf!Piece) = Conf!Piece
    BY <2>2 DEF Conf!Chop
  <2>4. Conf!Piece = SubSeq(file, pos + 1, b)
    BY <2>1, <1>14, <1>15, SeqEqual
  <2>. QED
    BY <2>1, <2>3, <2>4, <1>8, <1>9
<1>. QED
  BY <1>13, <1>17, <1>18

-----------------------------------------------------------------------------
(* Reading the file                                                        *)

FileTypes == file \in Seq(Chars) /\ pos \in 0..Len(file)

LEMMA NoPiece == \A map : Conf!ParseLine(map, Conf!Before(<<>>, Conf!Find(<<>>, "#"))) = map
<1>1. <<>> \in Seq(Chars) /\ Len(<<>>) = 0
  OBVIOUS
<1>2. Conf!Find(<<>>, "#") \in 1..1 /\ Conf!Find(<<>>, "=") \in 1..1
  <2>1. PICK s \in Seq(Chars) : s = <<>> /\ Len(s) = 0
    BY <1>1
  <2>2. \A c : Conf!Find(s, c) \in 1..Len(s) + 1
    BY FindIs
  <2>. QED
    BY <2>1, <2>2
<1>3. Conf!Before(<<>>, Conf!Find(<<>>, "#")) = <<>>
  <2>1. Conf!Find(<<>>, "#") = 1
    BY <1>2
  <2>. QED
    BY <2>1 DEF Conf!Before
<1>4. Conf!Find(<<>>, "=") > Len(<<>>)
  BY <1>1, <1>2
<1>. QED
  BY <1>3, <1>4 DEF Conf!ParseLine

(* The end of a line alone: an empty line, or the end of a line that fills *)
(* the buffer.                                                             *)
LEMMA PieceIsEnd ==
  ASSUME FileTypes, pos < Len(file), file[pos + 1] = "LF"
  PROVE  Len(Conf!Piece) = 1 /\ Conf!Chop(Conf!Piece) = <<>>
<1>. DEFINE rest == Conf!After(file, pos)
<1>0. Len(file) \in Nat /\ pos \in Nat /\ BufLen \in Nat /\ BufLen > 2
  BY LenProperties, FilesAssumed DEF Conf!ConfigFileAssumption, FileTypes
<1>1. rest \in Seq(Chars) /\ Len(rest) = Len(file) - pos /\ rest[1] = file[pos + 1]
  <2>. DEFINE x == pos + 1
  <2>1. /\ x \in 1..Len(file) + 1 /\ Len(file) \in (x - 1)..Len(file)
        /\ Len(file) - x + 1 = Len(file) - pos /\ 1 \in 1..(Len(file) - x + 1) /\ x + 1 - 1 = pos + 1
    BY <1>0
  <2>2. /\ SubSeq(file, x, Len(file)) \in Seq(Chars)
        /\ Len(SubSeq(file, x, Len(file))) = Len(file) - x + 1
        /\ \A i \in 1..(Len(file) - x + 1) : SubSeq(file, x, Len(file))[i] = file[x + i - 1]
    <3>. HIDE DEF x
    <3>. QED
      BY <2>1, SubSeqIs DEF FileTypes
  <2>3. SubSeq(file, x, Len(file))[1] = file[x + 1 - 1]
    <3>. HIDE DEF x
    <3>. QED
      BY <2>1, <2>2
  <2>. QED
    BY <2>1, <2>2, <2>3 DEF Conf!After
<1>. HIDE DEF rest
<1>2. Conf!Find(rest, "LF") = 1
  <2>1. /\ Conf!Find(rest, "LF") \in 1..Len(rest) + 1
        /\ \A i \in 1..Conf!Find(rest, "LF") - 1 : rest[i] # "LF"
    BY <1>1, FindIs
  <2>2. 1 \notin 1..Conf!Find(rest, "LF") - 1
    BY <1>1, <2>1
  <2>. QED
    BY <1>0, <1>1, <2>1, <2>2
<1>3. Conf!Piece = SubSeq(rest, 1, 1)
  <2>. DEFINE N == {Conf!Find(rest, "LF"), Len(rest), BufLen - 1}
  <2>1. N \in SUBSET Nat /\ N # {} /\ 1 \in N /\ \A y \in N : 1 <= y
    BY <1>0, <1>1, <1>2
  <2>2. Conf!MinOf(N) = 1
    <3>1. Conf!MinOf(N) \in N /\ \A y \in N : Conf!MinOf(N) <= y
      <4>. HIDE DEF N
      <4>. QED
        BY <2>1, MinOfIs
    <3>2. Conf!MinOf(N) \in Nat /\ Conf!MinOf(N) <= 1 /\ 1 <= Conf!MinOf(N)
      BY <2>1, <3>1
    <3>. QED
      BY <3>2
  <2>. QED
    BY <2>2 DEF Conf!Piece, rest
<1>4. Conf!Piece \in Seq(Chars) /\ Len(Conf!Piece) = 1 /\ Conf!Piece[1] = "LF"
  <2>1. 1 \in 1..Len(rest) + 1 /\ 1 \in (1 - 1)..Len(rest)
    BY <1>0, <1>1
  <2>2. /\ SubSeq(rest, 1, 1) \in Seq(Chars) /\ Len(SubSeq(rest, 1, 1)) = 1 - 1 + 1
        /\ \A i \in 1..(1 - 1 + 1) : SubSeq(rest, 1, 1)[i] = rest[1 + i - 1]
    BY <1>1, <2>1, SubSeqIs
  <2>. QED
    BY <1>1, <1>3, <2>2
<1>5. Conf!Chop(Conf!Piece) = SubSeq(Conf!Piece, 1, 0)
  <2>1. Conf!Piece # <<>>
    BY <1>4, EmptySeq
  <2>2. Conf!Piece[Len(Conf!Piece)] = "LF"
    BY <1>4
  <2>3. Len(Conf!Piece) - 1 = 0
    BY <1>4
  <2>. QED
    BY <2>1, <2>2, <2>3 DEF Conf!Chop
<1>. QED
  BY <1>4, <1>5

(* Lines end where the file does or a line feed follows, so that of two    *)
(* lines one ends before the other begins.                                 *)
LEMMA LinesApart ==
  ASSUME FileTypes, NEW k \in Conf!Line, NEW l \in Conf!Line
  PROVE  /\ k[1] < l[1] <=> k[2] < l[1]
         /\ k[1] = l[1] => k = l
<1>0. Len(file) \in Nat
  BY LenProperties DEF FileTypes
<1>1. PICK a \in 1..Len(file), b \in 1..Len(file) :
        /\ k = <<a, b>> /\ k[1] = a /\ k[2] = b /\ a <= b
        /\ a = 1 \/ file[a - 1] = "LF"
        /\ b = Len(file) \/ file[b + 1] = "LF"
        /\ \A i \in a..b : file[i] # "LF"
  BY LineIs
<1>2. PICK c \in 1..Len(file), d \in 1..Len(file) :
        /\ l = <<c, d>> /\ l[1] = c /\ l[2] = d /\ c <= d
        /\ c = 1 \/ file[c - 1] = "LF"
        /\ d = Len(file) \/ file[d + 1] = "LF"
        /\ \A i \in c..d : file[i] # "LF"
  BY LineIs
<1>3. ASSUME a < c PROVE b < c
  <2>1. c # 1 /\ c - 1 \notin a..b
    BY <1>0, <1>1, <1>2, <1>3
  <2>. QED
    BY <1>0, <1>3, <2>1
<1>4. ASSUME b < c PROVE a < c
  BY <1>0, <1>1, <1>4
<1>5. ASSUME a = c PROVE b = d
  <2>1. ~(b < d)
    <3>1. b < d => b # Len(file) /\ b + 1 \in c..d
      BY <1>0, <1>1, <1>2, <1>5
    <3>. QED
      BY <3>1, <1>1, <1>2
  <2>2. ~(d < b)
    <3>1. d < b => d # Len(file) /\ d + 1 \in a..b
      BY <1>0, <1>1, <1>2, <1>5
    <3>. QED
      BY <3>1, <1>1, <1>2
  <2>. QED
    BY <1>0, <2>1, <2>2
<1>. QED
  BY <1>1, <1>2, <1>3, <1>4, <1>5

LinesUpTo(n) == {l \in Conf!Line : l[2] <= n}

(* Fresh(a, kv): no line in front of a sets kv's key.                      *)
Fresh(a, kv) == \A m \in Conf!Line : m[1] < a => \A w \in Conf!Setting(m[1], m[2]) : w[1] # kv[1]

(* One more line: its setting counts unless the map has the key already.   *)
LEMMA OneMoreLine ==
  ASSUME FileTypes, NEW l \in Conf!Line, NEW m \in Nat, NEW n \in Nat,
         m < l[1], \A k \in Conf!Line : k[2] <= n <=> k[2] <= m \/ k = l,
         \A k \in Conf!Line : k[2] <= m <=> k[1] < l[1]
  PROVE  Conf!Settings(n) = Conf!Settings(m) \cup {kv \in Conf!Setting(l[1], l[2]) : Fresh(l[1], kv)}
<1>1. /\ Conf!Settings(n) =
           UNION {{kv \in Conf!Setting(k[1], k[2]) : Fresh(k[1], kv)} : k \in LinesUpTo(n)}
      /\ Conf!Settings(m) =
           UNION {{kv \in Conf!Setting(k[1], k[2]) : Fresh(k[1], kv)} : k \in LinesUpTo(m)}
  BY DEF Conf!Settings, Fresh, LinesUpTo
<1>2. LinesUpTo(n) = LinesUpTo(m) \cup {l}
  BY DEF LinesUpTo
<1>. QED
  BY <1>1, <1>2

(* What fgets stores is a piece of the file, and never nothing.            *)
LEMMA PieceIs ==
  ASSUME FileTypes, pos < Len(file)
  PROVE  /\ Conf!Piece \in Seq(Chars) /\ Len(Conf!Piece) >= 1 /\ pos + Len(Conf!Piece) \in 0..Len(file)
         /\ Conf!Chop(Conf!Piece) \in Seq(Chars)
<1>. DEFINE rest == Conf!After(file, pos)
            N == {Conf!Find(rest, "LF"), Len(rest), BufLen - 1}
<1>0. Len(file) \in Nat /\ pos \in Nat /\ BufLen \in Nat /\ BufLen > 2
  BY LenProperties, FilesAssumed DEF Conf!ConfigFileAssumption, FileTypes
<1>1. rest \in Seq(Chars) /\ Len(rest) = Len(file) - pos
  <2>. DEFINE x == pos + 1
  <2>1. /\ x \in 1..Len(file) + 1 /\ Len(file) \in (x - 1)..Len(file)
        /\ Len(file) - x + 1 = Len(file) - pos
    BY <1>0
  <2>2. /\ SubSeq(file, x, Len(file)) \in Seq(Chars)
        /\ Len(SubSeq(file, x, Len(file))) = Len(file) - x + 1
    <3>. HIDE DEF x
    <3>. QED
      BY <2>1, SubSeqIs DEF FileTypes
  <2>. QED
    BY <2>1, <2>2 DEF Conf!After
<1>. HIDE DEF rest
<1>2. Conf!Find(rest, "LF") \in 1..Len(rest) + 1
  BY <1>1, FindIs
<1>3. N \in SUBSET Nat /\ N # {} /\ Len(rest) \in N /\ \A y \in N : y >= 1
  BY <1>0, <1>1, <1>2
<1>4. PICK n : n = Conf!MinOf(N) /\ n \in N /\ n <= Len(rest)
  <2>1. Conf!MinOf(N) \in N /\ \A y \in N : Conf!MinOf(N) <= y
    <3>. HIDE DEF N
    <3>. QED
      BY <1>3, MinOfIs
  <2>. HIDE DEF N
  <2>. QED
    BY <1>3, <2>1
<1>5. n \in Nat /\ n >= 1 /\ n <= Len(file) - pos
  <2>. HIDE DEF N
  <2>. QED
    BY <1>1, <1>3, <1>4
<1>6. Conf!Piece = SubSeq(rest, 1, n)
  BY <1>4 DEF Conf!Piece, rest
<1>7. Conf!Piece \in Seq(Chars) /\ Len(Conf!Piece) = n
  <2>1. 1 \in 1..Len(rest) + 1 /\ n \in (1 - 1)..Len(rest) /\ n - 1 + 1 = n
    BY <1>0, <1>1, <1>5
  <2>2. SubSeq(rest, 1, n) \in Seq(Chars) /\ Len(SubSeq(rest, 1, n)) = n - 1 + 1
    BY <1>1, <2>1, SubSeqIs
  <2>. QED
    BY <1>6, <2>1, <2>2
<1>8. Conf!Chop(Conf!Piece) \in Seq(Chars)
  <2>. DEFINE m == Len(Conf!Piece) - 1
  <2>1. 1 \in 1..Len(Conf!Piece) + 1 /\ m \in (1 - 1)..Len(Conf!Piece)
    BY <1>5, <1>7
  <2>2. SubSeq(Conf!Piece, 1, m) \in Seq(Chars)
    <3>. HIDE DEF m
    <3>. QED
      BY <2>1, <1>7, SubSeqIs
  <2>. QED
    BY <1>7, <2>2 DEF Conf!Chop
<1>. QED
  BY <1>0, <1>5, <1>7, <1>8

(* Where reading stops between two lines.                                  *)
AtLine(q) == q = 0 \/ q = Len(file) \/ file[q] = "LF" \/ file[q + 1] = "LF"

(* Each setting of the lines up to n has left its key in the map.          *)
Told(n, map) ==
  \A l \in Conf!Line : l[2] <= n =>
    \A w \in Conf!Setting(l[1], l[2]) : \E kv \in map : kv[1] = w[1]

(* One round of _LoadFile between two lines: the map follows the file.     *)
LEMMA RoundIs ==
  ASSUME FileTypes, pos < Len(file), Conf!LinesFit, AtLine(pos),
         m_config_map = Conf!Settings(pos), Told(pos, m_config_map),
         NEW n, n = pos + Len(Conf!Piece),
         NEW map,
         map = Conf!ParseLine(m_config_map,
                 Conf!Before(Conf!Chop(Conf!Piece), Conf!Find(Conf!Chop(Conf!Piece), "#")))
  PROVE  AtLine(n) /\ map = Conf!Settings(n) /\ Told(n, map)
<1>0. Len(file) \in Nat /\ pos \in Nat
  BY LenProperties DEF FileTypes
<1>1. CASE file[pos + 1] = "LF"
  <2>1. n = pos + 1 /\ map = m_config_map
    BY <1>1, PieceIsEnd, NoPiece
  <2>2. \A l \in Conf!Line : l[2] <= n <=> l[2] <= pos
    <3>1. ASSUME NEW l \in Conf!Line PROVE l[2] <= n <=> l[2] <= pos
      <4>1. /\ l[1] \in 1..Len(file) /\ l[2] \in 1..Len(file) /\ l[1] <= l[2]
            /\ \A i \in l[1]..l[2] : file[i] # "LF"
        BY LineIs
      <4>2. l[2] \in l[1]..l[2]
        BY <4>1, <1>0
      <4>3. l[2] # pos + 1
        BY <4>1, <4>2, <1>1
      <4>. QED
        BY <4>1, <4>3, <2>1, <1>0
    <3>. QED
      BY <3>1
  <2>3. LinesUpTo(n) = LinesUpTo(pos)
    BY <2>2 DEF LinesUpTo
  <2>4. Conf!Settings(n) = Conf!Settings(pos)
    BY <2>3 DEF Conf!Settings, LinesUpTo
  <2>5. Told(n, map)
    BY <2>1, <2>2 DEF Told
  <2>6. AtLine(n)
    BY <1>1, <2>1 DEF AtLine
  <2>. QED
    BY <2>1, <2>4, <2>5, <2>6
<1>2. CASE file[pos + 1] # "LF"
  <2>1. pos = 0 \/ file[pos] = "LF"
    BY <1>0, <1>2 DEF AtLine
  <2>2. PICK b \in pos + 1..Len(file) :
          /\ <<pos + 1, b>> \in Conf!Line
          /\ Conf!Chop(Conf!Piece) = SubSeq(file, pos + 1, b)
          /\ \/ Len(Conf!Piece) = b - pos /\ (b = Len(file) \/ file[b + 1] = "LF")
             \/ Len(Conf!Piece) = b - pos + 1 /\ b < Len(file) /\ file[b + 1] = "LF"
    BY <1>2, <2>1, PieceIsLine DEF FileTypes
  <2>3. PICK a : a = pos + 1
    OBVIOUS
  <2>4. /\ a \in 1..Len(file) /\ b \in a..Len(file) /\ <<a, b>> \in Conf!Line
        /\ Conf!Chop(Conf!Piece) = SubSeq(file, a, b)
    BY <1>0, <2>2, <2>3
  <2>5. n = b \/ (n = b + 1 /\ file[b + 1] = "LF")
    BY <1>0, <2>2
  <2>6. n \in Nat /\ a \in Nat /\ b \in Nat /\ a <= b /\ a = pos + 1
    BY <1>0, <2>3, <2>4, <2>5
  <2>7. AtLine(n)
    BY <2>2, <2>5 DEF AtLine
  <2>8. PICK l : l = <<a, b>> /\ l \in Conf!Line /\ l[1] = a /\ l[2] = b
    BY <2>4
  <2>9. ASSUME NEW k \in Conf!Line
        PROVE  /\ k[2] <= n <=> k[2] <= pos \/ k = l
               /\ k[2] <= pos <=> k[1] < l[1]
    <3>1. /\ k[1] < l[1] <=> k[2] < l[1]
          /\ l[1] < k[1] <=> l[2] < k[1]
          /\ k[1] = l[1] => k = l
      BY <2>8, LinesApart
    <3>2. /\ k[1] \in 1..Len(file) /\ k[2] \in 1..Len(file) /\ k[1] <= k[2]
          /\ \A i \in k[1]..k[2] : file[i] # "LF"
      BY LineIs
    <3>3. k[1] \in k[1]..k[2]
      BY <3>2, <1>0
    <3>4. ~(k[1] = b + 1 /\ file[b + 1] = "LF")
      BY <3>2, <3>3
    <3>5. k[2] <= n /\ l[1] < k[1] => FALSE
      BY <1>0, <2>5, <2>6, <2>8, <3>1, <3>2, <3>4
    <3>6. k[1] \in Int /\ k[2] \in Int
      BY <3>2, <1>0
    <3>7. k[2] <= pos <=> k[1] < l[1]
      BY <3>1, <3>6, <2>6, <2>8, <1>0
    <3>8. k = l => k[2] <= n
      BY <2>5, <2>6, <2>8
    <3>9. k[2] <= pos => k[2] <= n
      BY <2>5, <2>6, <3>6, <1>0
    <3>10. k[2] <= n => k[2] <= pos \/ k = l
      BY <3>1, <3>5, <3>6, <3>7, <2>6, <2>8
    <3>. QED
      BY <3>7, <3>8, <3>9, <3>10
  <2>10. Conf!Settings(n) = m_config_map \cup {kv \in Conf!Setting(a, b) : Fresh(a, kv)}
    <3>1. pos < l[1]
      BY <1>0, <2>6, <2>8
    <3>2. Conf!Settings(n) = Conf!Settings(pos) \cup {kv \in Conf!Setting(l[1], l[2]) : Fresh(l[1], kv)}
      BY <1>0, <2>6, <2>8, <2>9, <3>1, OneMoreLine
    <3>. QED
      BY <2>8, <3>2
  <2>. DEFINE t == Conf!Before(Conf!Chop(Conf!Piece), Conf!Find(Conf!Chop(Conf!Piece), "#"))
              e == Conf!Find(t, "=")
              key == Conf!TrimSpace(Conf!Before(t, e))
              value == Conf!TrimSpace(Conf!After(t, e))
              none == e > Len(t) \/ key = None \/ value = None
  <2>11. Conf!Setting(a, b) = IF none THEN {} ELSE {<<key, value>>}
    <3>1. \A i \in a..b : file[i] # "LF"
      BY <2>8, LineIs
    <3>. QED
      BY <2>4, <3>1, SettingIs DEF FileTypes
  <2>12. map = IF none THEN m_config_map ELSE Conf!Put(m_config_map, key, value)
    BY DEF Conf!ParseLine
  <2>. HIDE DEF t, e, key, value
  <2>13. \A kv : Fresh(a, kv) <=> ~ \E x \in m_config_map : x[1] = kv[1]
    <3>1. ASSUME NEW kv, NEW x \in m_config_map, x[1] = kv[1] PROVE ~Fresh(a, kv)
      <4>1. PICK k \in Conf!Line : k[2] <= pos /\ x \in Conf!Setting(k[1], k[2])
        BY DEF Conf!Settings
      <4>2. k[1] < a
        BY <2>8, <2>9, <4>1
      <4>. QED
        BY <3>1, <4>1, <4>2 DEF Fresh
    <3>2. ASSUME NEW kv, ~Fresh(a, kv) PROVE \E x \in m_config_map : x[1] = kv[1]
      <4>1. PICK k \in Conf!Line : k[1] < a /\ \E w \in Conf!Setting(k[1], k[2]) : w[1] = kv[1]
        BY <3>2 DEF Fresh
      <4>2. k[2] <= pos
        BY <2>8, <2>9, <4>1
      <4>. QED
        BY <4>1, <4>2 DEF Told
    <3>. QED
      BY <3>1, <3>2
  <2>14. map = Conf!Settings(n)
    <3>1. CASE none
      BY <2>10, <2>11, <2>12, <3>1
    <3>2. CASE ~none
      <4>. DEFINE kv == <<key, value>>
      <4>1. Conf!Setting(a, b) = {kv} /\ map = Conf!Put(m_config_map, key, value) /\ kv[1] = key
        BY <2>11, <2>12, <3>2
      <4>2. map = IF Fresh(a, kv) THEN m_config_map \cup {kv} ELSE m_config_map
        BY <2>13, <4>1 DEF Conf!Put
      <4>. HIDE DEF kv
      <4>. QED
        BY <2>10, <4>1, <4>2
    <3>. QED
      BY <3>1, <3>2
  <2>15. Told(n, map)
    <3>1. ASSUME NEW k \in Conf!Line, k[2] <= n, NEW w \in Conf!Setting(k[1], k[2])
          PROVE  \E kv \in map : kv[1] = w[1]
      <4>1. m_config_map \subseteq map
        BY <2>10, <2>14
      <4>2. CASE k[2] <= pos
        BY <4>1, <4>2 DEF Told
      <4>3. CASE k = l
        <5>1. w \in Conf!Setting(a, b)
          BY <4>3, <2>8
        <5>2. CASE Fresh(a, w)
          BY <5>1, <5>2, <2>10, <2>14
        <5>3. CASE ~Fresh(a, w)
          BY <5>3, <2>13, <4>1
        <5>. QED
          BY <5>2, <5>3
      <4>. QED
        BY <3>1, <2>9, <4>2, <4>3
    <3>. QED
      BY <3>1 DEF Told
  <2>. QED
    BY <2>7, <2>14, <2>15
<1>. QED
  BY <1>1, <1>2

Loading ==
  Conf!LinesFit => AtLine(pos) /\ m_config_map = Conf!Settings(pos) /\ Told(pos, m_config_map)

(* Where the words of the list begin.                                      *)
WordStart(s) == {q \in 1..Len(s) : s[q] # "SP" /\ (q = 1 \/ s[q - 1] = "SP")}

Cutting ==
  filePc = "cut" =>
    /\ Conf!services # None
    /\ cursor \in 1..Len(Conf!services) + 1 /\ (cursor > 1 => Conf!services[cursor - 1] # "SP")
    /\ \A i \in 1..Len(type) : type[i] \in WordStart(Conf!services)
    /\ \A q \in WordStart(Conf!services) : q < cursor \/ q = 1 => \E i \in 1..Len(type) : type[i] = q

Created ==
  filePc = "ready" =>
    /\ Conf!services # None
    /\ \A i \in 1..Len(type) : type[i] \in WordStart(Conf!services)
    /\ Len(type) < MaxType => \A q \in WordStart(Conf!services) : \E i \in 1..Len(type) : type[i] = q
    /\ m_serviceNode \in [1..Len(type) -> Known \cup {None, Conf!Wild}]
    /\ \A i \in 1..Len(type) :
         Conf!Atoi(Conf!TokenAt(Conf!services, type[i])) \in Known
           => m_serviceNode[i] = Conf!Atoi(Conf!TokenAt(Conf!services, type[i]))

ConfigInv ==
  /\ FileTypes /\ filePc \in {"load", "loaded", "none", "cut", "ready"}
  /\ filePc # "load" => pos = Len(file)
  /\ MapOK(m_config_map) /\ Loading
  /\ cursor \in Nat /\ type \in Seq(Nat)
  /\ \A i \in DOMAIN m_serviceNode : m_serviceNode[i] \in Known \cup {None, Conf!Wild}
  /\ Cutting /\ Created

(* The list has a first and a last character, and neither is a blank.      *)
LEMMA ServicesAre ==
  ASSUME MapOK(m_config_map), Conf!services # None
  PROVE  /\ Conf!services \in Seq(Chars) /\ Len(Conf!services) \in Nat \ {0}
         /\ Conf!services[1] # "SP" /\ Conf!services[Len(Conf!services)] # "SP"
<1>1. PICK m \in m_config_map : Conf!services = m[2]
  BY DEF Conf!services, Conf!getConfigName
<1>2. Conf!services \in Seq(Chars) /\ Conf!services # <<>>
  BY <1>1 DEF MapOK
<1>3. Conf!services[1] # "SP" /\ Conf!services[Len(Conf!services)] # "SP"
  BY <1>1 DEF MapOK
<1>. QED
  BY <1>2, <1>3, EmptySeq

(* A token is the word that begins there.                                  *)
LEMMA TokensAreWords ==
  ASSUME NEW s \in Seq(Chars)
  PROVE  Conf!Words(s) = {Conf!TokenAt(s, q) : q \in WordStart(s)}
<1>. DEFINE P == {ij \in (1..Len(s)) \X (1..Len(s)) : Conf!IsWord(s, ij[1], ij[2])}
<1>0. Len(s) \in Nat
  BY LenProperties
<1>1. ASSUME NEW q \in WordStart(s)
      PROVE  \E j \in q..Len(s) : Conf!IsWord(s, q, j) /\ Conf!TokenAt(s, q) = SubSeq(s, q, j)
  <2>. DEFINE rest == SubSeq(s, q, Len(s))
  <2>0. q \in 1..Len(s) /\ q \in Nat
    BY <1>0 DEF WordStart
  <2>1. /\ rest \in Seq(Chars) /\ Len(rest) = Len(s) - q + 1
        /\ \A i \in 1..(Len(s) - q + 1) : rest[i] = s[q + i - 1]
    <3>1. q \in 1..Len(s) + 1 /\ Len(s) \in (q - 1)..Len(s)
      BY <1>0, <2>0
    <3>. QED
      BY <3>1, SubSeqIs
  <2>. HIDE DEF rest
  <2>2. PICK g : /\ g = Conf!Find(rest, "SP") /\ g \in 1..Len(rest) + 1
                 /\ g <= Len(rest) => rest[g] = "SP"
                 /\ \A i \in 1..g - 1 : i \in 1..Len(rest) /\ rest[i] # "SP"
    BY <2>1, FindIs
  <2>3. g # 1
    <3>1. 1 <= Len(rest) /\ 1 \in 1..(Len(s) - q + 1) /\ q + 1 - 1 = q
      BY <1>0, <2>0, <2>1
    <3>2. rest[1] = s[q]
      BY <2>1, <3>1
    <3>. QED
      BY <2>2, <3>1, <3>2 DEF WordStart
  <2>4. PICK j \in q..Len(s) : j = q + g - 2
    BY <1>0, <2>0, <2>1, <2>2, <2>3
  <2>5. /\ j \in Int /\ g \in Int /\ q <= j /\ j <= Len(s) /\ g >= 2
        /\ Len(rest) = Len(s) - q + 1
    BY <1>0, <2>0, <2>1, <2>2, <2>3, <2>4
  <2>6. Conf!TokenAt(s, q) = SubSeq(s, q, j)
    <3>1. /\ q \in 1..Len(s) + 1 /\ Len(s) \in (q - 1)..Len(s)
          /\ 1 \in 1..(Len(s) - q + 2) /\ g - 1 \in (1 - 1)..(Len(s) - q + 1)
          /\ q + 1 - 1 = q /\ q + (g - 1) - 1 = j
      BY <1>0, <2>0, <2>2, <2>4, <2>5
    <3>2. SubSeq(SubSeq(s, q, Len(s)), 1, g - 1)
            = SubSeq(s, q + 1 - 1, q + (g - 1) - 1)
      <4>. DEFINE h == g - 1
                  L == Len(s)
      <4>1. /\ h \in (1 - 1)..(L - q + 1) /\ L \in (q - 1)..Len(s)
            /\ 1 \in 1..(L - q + 2) /\ q \in 1..Len(s) + 1
        BY <3>1
      <4>2. SubSeq(SubSeq(s, q, L), 1, h) = SubSeq(s, q + 1 - 1, q + h - 1)
        <5>. HIDE DEF h, L
        <5>. QED
          BY <4>1, SubSubSeq
      <4>. QED
        BY <4>2
    <3>. QED
      BY <2>2, <3>1, <3>2 DEF Conf!TokenAt, Conf!Before, rest
  <2>7. ASSUME NEW k \in q..j PROVE s[k] # "SP"
    <3>1. k - q + 1 \in 1..g - 1 /\ k - q + 1 \in 1..(Len(s) - q + 1) /\ q + (k - q + 1) - 1 = k
      BY <2>0, <2>4, <2>5
    <3>. QED
      BY <2>1, <2>2, <3>1
  <2>8. j = Len(s) \/ s[j + 1] = "SP"
    <3>1. ASSUME j # Len(s) PROVE s[j + 1] = "SP"
      <4>1. g <= Len(rest) /\ g \in 1..(Len(s) - q + 1) /\ q + g - 1 = j + 1
        BY <2>0, <2>4, <2>5, <3>1, <1>0
      <4>. QED
        BY <4>1, <2>1, <2>2
    <3>. QED
      BY <3>1
  <2>9. Conf!IsWord(s, q, j)
    BY <2>5, <2>7, <2>8 DEF Conf!IsWord, WordStart
  <2>. QED
    BY <2>6, <2>9
<1>2. ASSUME NEW i \in 1..Len(s), NEW j \in 1..Len(s), Conf!IsWord(s, i, j)
      PROVE  i \in WordStart(s) /\ Conf!TokenAt(s, i) = SubSeq(s, i, j)
  <2>0. i \in Nat /\ j \in Nat /\ i <= j /\ i \in i..j
    BY <1>0, <1>2 DEF Conf!IsWord
  <2>1. i \in WordStart(s)
    BY <1>2, <2>0 DEF Conf!IsWord, WordStart
  <2>2. PICK k \in i..Len(s) : Conf!IsWord(s, i, k) /\ Conf!TokenAt(s, i) = SubSeq(s, i, k)
    BY <1>1, <2>1
  <2>3. ~(k < j)
    <3>1. k < j => k # Len(s) /\ k + 1 \in i..j
      BY <1>0, <2>0
    <3>. QED
      BY <1>2, <2>2, <3>1 DEF Conf!IsWord
  <2>4. ~(j < k)
    <3>1. j < k => j # Len(s) /\ j + 1 \in i..k
      BY <1>0, <2>0
    <3>. QED
      BY <1>2, <2>2, <3>1 DEF Conf!IsWord
  <2>5. j = k
    BY <1>0, <2>0, <2>3, <2>4
  <2>. QED
    BY <2>1, <2>2, <2>5
<1>3. Conf!Words(s) = {SubSeq(s, w[1], w[2]) : w \in P}
  BY DEF Conf!Words
<1>4. ASSUME NEW x \in Conf!Words(s) PROVE \E q \in WordStart(s) : x = Conf!TokenAt(s, q)
  <2>1. PICK w \in P : x = SubSeq(s, w[1], w[2])
    BY <1>3
  <2>2. PICK i \in 1..Len(s), j \in 1..Len(s) : w = <<i, j>>
    OBVIOUS
  <2>3. Conf!IsWord(s, i, j) /\ x = SubSeq(s, i, j)
    BY <2>1, <2>2
  <2>. QED
    BY <1>2, <2>3
<1>5. ASSUME NEW q \in WordStart(s) PROVE Conf!TokenAt(s, q) \in Conf!Words(s)
  <2>1. PICK j \in q..Len(s) : Conf!IsWord(s, q, j) /\ Conf!TokenAt(s, q) = SubSeq(s, q, j)
    BY <1>1
  <2>2. q \in 1..Len(s) /\ j \in 1..Len(s)
    BY <1>0 DEF WordStart
  <2>3. <<q, j>> \in P
    BY <2>1, <2>2
  <2>4. PICK w \in P : w[1] = q /\ w[2] = j
    BY <2>3
  <2>. HIDE DEF P
  <2>. QED
    BY <1>3, <2>1, <2>4
<1>. QED
  BY <1>4, <1>5

(* Behind the blanks at c the next word begins; nothing begins between.    *)
LEMMA NextWord ==
  ASSUME NEW s \in Seq(Chars), s # <<>>, s[Len(s)] # "SP",
         NEW c \in 1..Len(s), s[c] = "SP",
         NEW q, q = Conf!MinOf({i \in c + 1..Len(s) : s[i] # "SP"} \cup {Len(s) + 1})
  PROVE  /\ q \in c + 1..Len(s) /\ q \in WordStart(s)
         /\ \A x \in WordStart(s) : x <= q => x = q \/ x < c
<1>. DEFINE T == {i \in c + 1..Len(s) : s[i] # "SP"}
            N == T \cup {Len(s) + 1}
<1>0. Len(s) \in Nat \ {0} /\ c \in Nat
  BY EmptySeq, LenProperties
<1>1. c # Len(s)
  OBVIOUS
<1>2. Len(s) \in c + 1..Len(s)
  BY <1>0, <1>1
<1>3. Len(s) \in T
  BY <1>2
<1>4. c + 1..Len(s) \subseteq Nat /\ Len(s) + 1 \in Nat
  BY <1>0
<1>5. N \in SUBSET Nat /\ N # {}
  BY <1>4
<1>6. q \in N /\ \A y \in N : q <= y
  <2>1. Conf!MinOf(N) \in N /\ \A y \in N : Conf!MinOf(N) <= y
    <3>. HIDE DEF N
    <3>. QED
      BY <1>5, MinOfIs
  <2>. QED
    BY <2>1
<1>7. q <= Len(s) /\ q \in Nat
  BY <1>3, <1>5, <1>6
<1>8. q # Len(s) + 1
  BY <1>0, <1>7
<1>9. q \in c + 1..Len(s) /\ s[q] # "SP"
  BY <1>6, <1>8
<1>10. \A k \in c..q - 1 : s[k] = "SP"
  <2>1. ASSUME NEW k \in c + 1..q - 1 PROVE s[k] = "SP"
    <3>1. k \in c + 1..Len(s) /\ ~(q <= k)
      BY <1>0, <1>7
    <3>. QED
      BY <1>6, <3>1
  <2>2. \A k \in c..q - 1 : k = c \/ k \in c + 1..q - 1
    BY <1>0, <1>7
  <2>. QED
    BY <2>1, <2>2
<1>11. q - 1 \in c..q - 1 /\ q \in 1..Len(s)
  BY <1>0, <1>9
<1>12. q \in WordStart(s)
  BY <1>9, <1>10, <1>11 DEF WordStart
<1>13. ASSUME NEW x \in WordStart(s), x <= q PROVE x = q \/ x < c
  <2>1. x \in 1..Len(s) /\ s[x] # "SP"
    BY DEF WordStart
  <2>2. x \notin c..q - 1
    BY <1>10, <2>1
  <2>. QED
    BY <1>0, <1>7, <1>13, <2>1, <2>2
<1>. QED
  BY <1>9, <1>12, <1>13

(* In a word nothing begins.                                               *)
LEMMA InWord ==
  ASSUME NEW s \in Seq(Chars), NEW c \in 1..Len(s), c > 1 => s[c - 1] # "SP",
         NEW x \in WordStart(s), x <= c
  PROVE  x < c \/ x = 1
<1>0. Len(s) \in Nat /\ c \in Nat
  BY LenProperties
<1>1. x \in 1..Len(s) /\ (x = 1 \/ s[x - 1] = "SP")
  BY DEF WordStart
<1>2. x = c => x = 1 \/ ~(c > 1)
  BY <1>1
<1>. QED
  BY <1>0, <1>1, <1>2

(* The loop's round: no word is passed over.                               *)
LEMMA CutIs ==
  ASSUME ConfigInv, Conf!CutToken
  PROVE  Cutting'
<1>. PICK s : s = Conf!services
  OBVIOUS
<1>0. /\ filePc = "cut" /\ s # None /\ MapOK(m_config_map)
      /\ cursor \in 1..Len(s) + 1 /\ (cursor > 1 => s[cursor - 1] # "SP")
      /\ \A i \in 1..Len(type) : type[i] \in WordStart(s)
      /\ \A q \in WordStart(s) : q < cursor \/ q = 1 => \E i \in 1..Len(type) : type[i] = q
  BY DEF ConfigInv, Cutting, Conf!CutToken
<1>1. s \in Seq(Chars) /\ Len(s) \in Nat \ {0} /\ s # <<>> /\ s[Len(s)] # "SP"
  BY <1>0, ServicesAre, EmptySeq
<1>2. cursor # Len(s) + 1
  BY DEF Conf!CutToken, Conf!Terminated
<1>3. cursor \in 1..Len(s) /\ cursor \in Nat
  BY <1>0, <1>1, <1>2
<1>4. Conf!services' = s /\ filePc' = "cut"
  BY <1>0 DEF Conf!CutToken, Conf!services, Conf!getConfigName
<1>5. type \in Seq(Nat) /\ Len(type) \in Nat
  BY LenProperties DEF ConfigInv
<1>6. CASE s[cursor] = "SP"
  <2>1. PICK q : q = Conf!MinOf({i \in cursor + 1..Len(s) : s[i] # "SP"} \cup {Len(s) + 1})
    OBVIOUS
  <2>2. type' = Append(type, q) /\ cursor' = q + 1
    BY <1>6, <2>1 DEF Conf!CutToken
  <2>3. /\ q \in cursor + 1..Len(s) /\ q \in WordStart(s)
        /\ \A x \in WordStart(s) : x <= q => x = q \/ x < cursor
    BY <1>1, <1>3, <1>6, <2>1, NextWord
  <2>4. q \in Nat /\ q \in 1..Len(s)
    BY <1>1, <1>3, <2>3
  <2>5. /\ Len(type') = Len(type) + 1 /\ type'[Len(type) + 1] = q
        /\ \A i \in 1..Len(type) : type'[i] = type[i]
    BY <1>5, <2>2, <2>4, AppendProperties
  <2>6. \A i \in 1..Len(type') : i \in 1..Len(type) \/ i = Len(type) + 1
    BY <1>5, <2>5
  <2>7. Len(type) + 1 \in 1..Len(type') /\ \A i \in 1..Len(type) : i \in 1..Len(type')
    BY <1>5, <2>5
  <2>8. \A i \in 1..Len(type') : type'[i] \in WordStart(s)
    BY <1>0, <2>3, <2>5, <2>6
  <2>9. ASSUME NEW x \in WordStart(s), x < q + 1 \/ x = 1
        PROVE  \E i \in 1..Len(type') : type'[i] = x
    <3>1. x \in 1..Len(s)
      BY DEF WordStart
    <3>2. x = 1 \/ x <= q
      BY <1>1, <2>4, <2>9, <3>1
    <3>3. x = q \/ x < cursor \/ x = 1
      BY <2>3, <3>2
    <3>4. CASE x = q
      BY <2>5, <2>7, <3>4
    <3>5. CASE x < cursor \/ x = 1
      <4>1. PICK i \in 1..Len(type) : type[i] = x
        BY <1>0, <3>5
      <4>. QED
        BY <2>5, <2>7, <4>1
    <3>. QED
      BY <3>3, <3>4, <3>5
  <2>10. cursor' \in 1..Len(s) + 1 /\ cursor' - 1 = q
    BY <1>1, <2>2, <2>4
  <2>11. s[cursor' - 1] # "SP"
    BY <2>3, <2>10 DEF WordStart
  <2>12. \A x \in WordStart(s) : x < cursor' \/ x = 1 => \E i \in 1..Len(type') : type'[i] = x
    BY <2>2, <2>9
  <2>. QED
    BY <1>0, <1>4, <2>8, <2>10, <2>11, <2>12 DEF Cutting
<1>7. CASE s[cursor] # "SP"
  <2>1. cursor' = cursor + 1 /\ type' = type
    BY <1>7 DEF Conf!CutToken
  <2>2. cursor' \in 1..Len(s) + 1 /\ cursor' - 1 = cursor
    BY <1>1, <1>3, <2>1
  <2>3. ASSUME NEW x \in WordStart(s), x < cursor' \/ x = 1
        PROVE  \E i \in 1..Len(type) : type[i] = x
    <3>1. x \in 1..Len(s)
      BY DEF WordStart
    <3>2. x = 1 \/ x <= cursor
      BY <1>1, <1>3, <2>1, <2>3, <3>1
    <3>3. x < cursor \/ x = 1
      BY <1>0, <1>1, <1>3, <3>2, InWord
    <3>. QED
      BY <1>0, <3>3
  <2>4. s[cursor' - 1] # "SP"
    BY <1>7, <2>2
  <2>5. \A x \in WordStart(s) : x < cursor' \/ x = 1 => \E i \in 1..Len(type') : type'[i] = x
    BY <2>1, <2>3
  <2>. QED
    BY <1>0, <1>4, <2>1, <2>2, <2>4, <2>5 DEF Cutting
<1>. QED
  BY <1>6, <1>7

-----------------------------------------------------------------------------
(* The invariant of the configuration                                      *)

LEMMA ConfigInit == Conf!Init => ConfigInv
<1>. SUFFICES ASSUME Conf!Init PROVE ConfigInv
  OBVIOUS
<1>1. file \in Seq(Chars) /\ Len(file) \in Nat /\ pos = 0
  BY FilesAssumed, LenProperties DEF Conf!Init, Conf!ConfigFileAssumption
<1>2. FileTypes
  BY <1>1 DEF FileTypes
<1>3. MapOK(m_config_map)
  BY DEF Conf!Init, MapOK
<1>4. \A l \in Conf!Line : ~(l[2] <= pos)
  <2>1. ASSUME NEW l \in Conf!Line PROVE ~(l[2] <= 0)
    <3>1. l[2] \in 1..Len(file)
      BY LineIs
    <3>. QED
      BY <1>1, <3>1
  <2>. QED
    BY <1>1, <2>1
<1>5. Conf!Settings(pos) = {}
  BY <1>4 DEF Conf!Settings
<1>6. Loading
  BY <1>1, <1>4, <1>5 DEF Conf!Init, Loading, AtLine, Told
<1>7. type \in Seq(Nat) /\ cursor \in Nat /\ DOMAIN m_serviceNode = {}
  BY DEF Conf!Init
<1>8. filePc = "load"
  BY DEF Conf!Init
<1>. QED
  BY <1>2, <1>3, <1>6, <1>7, <1>8 DEF ConfigInv, Cutting, Created

LEMMA SameFile == file' = file => Conf!LinesFit' = Conf!LinesFit
BY DEF Conf!LinesFit, Conf!Line, Conf!IsLine

LEMMA LoadPieceKeeps == ConfigInv /\ Conf!LoadPiece => ConfigInv'
<1>. SUFFICES ASSUME ConfigInv, Conf!LoadPiece PROVE ConfigInv'
  OBVIOUS
<1>0. /\ FileTypes /\ MapOK(m_config_map) /\ Loading /\ filePc = "load" /\ pos < Len(file)
      /\ cursor \in Nat /\ type \in Seq(Nat)
      /\ \A i \in DOMAIN m_serviceNode : m_serviceNode[i] \in Known \cup {None, Conf!Wild}
  BY DEF ConfigInv, Conf!LoadPiece
<1>1. /\ file' = file /\ filePc' = "load" /\ UNCHANGED <<cursor, type, m_serviceNode>>
      /\ pos' = pos + Len(Conf!Piece)
      /\ m_config_map' =
           Conf!ParseLine(m_config_map,
             Conf!Before(Conf!Chop(Conf!Piece), Conf!Find(Conf!Chop(Conf!Piece), "#")))
  BY <1>0 DEF Conf!LoadPiece
<1>2. pos' \in 0..Len(file) /\ Conf!Chop(Conf!Piece) \in Seq(Chars)
  BY <1>0, <1>1, PieceIs
<1>3. FileTypes'
  BY <1>0, <1>1, <1>2 DEF FileTypes
<1>4. MapOK(m_config_map')
  BY <1>0, <1>1, <1>2, BeforeIs, ParsedOK
<1>5. MapOK(m_config_map)'
  BY <1>4 DEF MapOK
<1>6. ASSUME Conf!LinesFit
      PROVE  AtLine(pos') /\ m_config_map' = Conf!Settings(pos') /\ Told(pos', m_config_map')
  <2>1. AtLine(pos) /\ m_config_map = Conf!Settings(pos) /\ Told(pos, m_config_map)
    BY <1>0, <1>6 DEF Loading
  <2>. QED
    BY <1>0, <1>1, <1>6, <2>1, RoundIs
<1>7. Loading'
  <2>1. Conf!LinesFit' = Conf!LinesFit
    BY <1>1, SameFile
  <2>2. AtLine(pos)' <=> AtLine(pos')
    BY <1>1 DEF AtLine
  <2>3. Conf!Settings(pos)' = Conf!Settings(pos')
    BY <1>1 DEF Conf!Settings, Conf!Line, Conf!IsLine, Conf!Setting, Conf!Core, Conf!Bare
  <2>4. Told(pos, m_config_map)' <=> Told(pos', m_config_map')
    BY <1>1 DEF Told, Conf!Line, Conf!IsLine, Conf!Setting, Conf!Core, Conf!Bare
  <2>. QED
    BY <1>6, <2>1, <2>2, <2>3, <2>4 DEF Loading
<1>. QED
  BY <1>0, <1>1, <1>3, <1>5, <1>7 DEF ConfigInv, Cutting, Created

(* The steps that leave the map alone.                                     *)
LEMMA SameMap ==
  ASSUME ConfigInv, UNCHANGED <<file, pos, m_config_map>>
  PROVE  FileTypes' /\ MapOK(m_config_map)' /\ Loading'
<1>1. FileTypes' /\ MapOK(m_config_map)'
  BY DEF ConfigInv, FileTypes, MapOK
<1>2. Conf!LinesFit' = Conf!LinesFit
  BY SameFile
<1>3. AtLine(pos)' <=> AtLine(pos)
  BY DEF AtLine
<1>4. Conf!Settings(pos)' = Conf!Settings(pos)
  BY DEF Conf!Settings, Conf!Line, Conf!IsLine, Conf!Setting, Conf!Core, Conf!Bare
<1>5. Told(pos, m_config_map)' <=> Told(pos, m_config_map)
  BY DEF Told, Conf!Line, Conf!IsLine, Conf!Setting, Conf!Core, Conf!Bare
<1>6. Loading'
  BY <1>2, <1>3, <1>4, <1>5 DEF ConfigInv, Loading
<1>. QED
  BY <1>1, <1>6

LEMMA LoadedKeeps == ConfigInv /\ Conf!Loaded => ConfigInv'
<1>. SUFFICES ASSUME ConfigInv, Conf!Loaded PROVE ConfigInv'
  OBVIOUS
<1>1. FileTypes' /\ MapOK(m_config_map)' /\ Loading'
  BY SameMap DEF Conf!Loaded
<1>. QED
  BY <1>1 DEF ConfigInv, Conf!Loaded, Cutting, Created

LEMMA GetServicesKeeps == ConfigInv /\ Conf!GetServices => ConfigInv'
<1>. SUFFICES ASSUME ConfigInv, Conf!GetServices PROVE ConfigInv'
  OBVIOUS
<1>1. FileTypes' /\ MapOK(m_config_map)' /\ Loading'
  BY SameMap DEF Conf!GetServices
<1>2. Conf!services' = Conf!services
  BY DEF Conf!GetServices, Conf!services, Conf!getConfigName
<1>3. CASE Conf!services = None
  <2>1. filePc' = "none" /\ UNCHANGED <<file, pos, cursor, type, m_serviceNode>>
    BY <1>3 DEF Conf!GetServices
  <2>. QED
    BY <1>1, <2>1 DEF ConfigInv, Conf!GetServices, Cutting, Created
<1>4. CASE Conf!services # None
  <2>1. filePc' = "cut" /\ cursor' = 1 /\ type' = <<1>> /\ UNCHANGED <<file, pos, m_serviceNode>>
    BY <1>4 DEF Conf!GetServices
  <2>. PICK s : s = Conf!services
    OBVIOUS
  <2>2. s \in Seq(Chars) /\ Len(s) \in Nat \ {0} /\ s[1] # "SP"
    BY <1>4, ServicesAre DEF ConfigInv
  <2>3. 1 \in WordStart(s) /\ 1 \in 1..Len(s) + 1
    BY <2>2 DEF WordStart
  <2>4. /\ Len(type') = 1 /\ type'[1] = 1 /\ type' \in Seq(Nat)
        /\ \A i \in 1..Len(type') : i = 1
    BY <2>1
  <2>5. \A x \in WordStart(s) : ~(x < 1)
    <3>1. \A x \in WordStart(s) : x \in 1..Len(s)
      BY DEF WordStart
    <3>. QED
      BY <2>2, <3>1
  <2>6. \A x \in WordStart(s) : x < cursor' \/ x = 1 => \E i \in 1..Len(type') : type'[i] = x
    BY <2>1, <2>4, <2>5
  <2>7. Cutting'
    BY <1>2, <1>4, <2>1, <2>3, <2>4, <2>6 DEF Cutting
  <2>. QED
    BY <1>1, <2>1, <2>4, <2>7 DEF ConfigInv, Conf!GetServices, Created
<1>. QED
  BY <1>3, <1>4

LEMMA CutTokenKeeps == ConfigInv /\ Conf!CutToken => ConfigInv'
<1>. SUFFICES ASSUME ConfigInv, Conf!CutToken PROVE ConfigInv'
  OBVIOUS
<1>1. FileTypes' /\ MapOK(m_config_map)' /\ Loading'
  BY SameMap DEF Conf!CutToken
<1>2. Cutting'
  BY CutIs
<1>3. cursor' \in Nat /\ type' \in Seq(Nat)
  <2>1. Conf!services' = Conf!services /\ filePc' = "cut"
    BY DEF Conf!CutToken, Conf!services, Conf!getConfigName
  <2>. PICK s : s = Conf!services
    OBVIOUS
  <2>2. s # None
    BY DEF ConfigInv, Cutting, Conf!CutToken
  <2>3. Len(s) \in Nat
    BY <2>2, ServicesAre DEF ConfigInv
  <2>4. cursor' \in 1..Len(s) + 1 /\ \A i \in 1..Len(type') : type'[i] \in WordStart(s)
    BY <1>2, <2>1 DEF Cutting
  <2>5. cursor' \in Nat /\ WordStart(s) \subseteq Nat
    BY <2>3, <2>4 DEF WordStart
  <2>6. type' = type \/ \E q : type' = Append(type, q)
    BY DEF Conf!CutToken
  <2>7. CASE type' = type
    BY <2>5, <2>7 DEF ConfigInv
  <2>8. ASSUME NEW q, type' = Append(type, q) PROVE type' \in Seq(Nat)
    <3>1. type \in Seq(Nat \cup {q})
      BY DEF ConfigInv
    <3>2. Len(type') = Len(type) + 1 /\ type'[Len(type) + 1] = q /\ Len(type) \in Nat
      BY <2>8, <3>1, AppendProperties, LenProperties
    <3>3. Len(type) + 1 \in 1..Len(type')
      BY <3>2
    <3>4. q \in Nat
      BY <2>4, <2>5, <3>2, <3>3
    <3>. QED
      BY <2>8, <3>4, AppendProperties DEF ConfigInv
  <2>. QED
    BY <2>5, <2>6, <2>7, <2>8
<1>. QED
  BY <1>1, <1>2, <1>3 DEF ConfigInv, Conf!CutToken, Created

LEMMA CreateServicesKeeps == ConfigInv /\ Conf!CreateServices => ConfigInv'
<1>. SUFFICES ASSUME ConfigInv, Conf!CreateServices PROVE ConfigInv'
  OBVIOUS
<1>1. FileTypes' /\ MapOK(m_config_map)' /\ Loading'
  BY SameMap DEF Conf!CreateServices
<1>2. /\ Conf!services' = Conf!services /\ filePc' = "ready" /\ filePc = "cut"
      /\ UNCHANGED <<file, pos, cursor, type>>
  BY DEF Conf!CreateServices, Conf!services, Conf!getConfigName
<1>3. m_serviceNode' \in
       {f \in [1..Len(type) -> Known \cup {None, Conf!Wild}] :
          \A i \in 1..Len(type) :
            LET t == Conf!Atoi(Conf!TokenAt(Conf!services, type[i])) IN
            IF t \in Known THEN f[i] = t ELSE f[i] \in {None, Conf!Wild}}
  BY DEF Conf!CreateServices
<1>4. /\ m_serviceNode' \in [1..Len(type) -> Known \cup {None, Conf!Wild}]
      /\ \A i \in 1..Len(type) :
           Conf!Atoi(Conf!TokenAt(Conf!services, type[i])) \in Known
             => m_serviceNode'[i] = Conf!Atoi(Conf!TokenAt(Conf!services, type[i]))
  BY <1>3
<1>5. Created'
  <2>. PICK s : s = Conf!services
    OBVIOUS
  <2>1. /\ s # None /\ cursor \in 1..Len(s) + 1
        /\ \A i \in 1..Len(type) : type[i] \in WordStart(s)
        /\ \A q \in WordStart(s) : q < cursor \/ q = 1 => \E i \in 1..Len(type) : type[i] = q
    BY <1>2 DEF ConfigInv, Cutting
  <2>2. Len(s) \in Nat
    BY <2>1, ServicesAre DEF ConfigInv
  <2>3. Len(type) < MaxType => cursor = Len(s) + 1
    <3>1. Len(type) = MaxType => ~(Len(type) < MaxType)
      BY FilesAssumed DEF Conf!ConfigFileAssumption
    <3>. QED
      BY <3>1 DEF Conf!CreateServices, Conf!Terminated
  <2>4. \A q \in WordStart(s) : q < Len(s) + 1
    <3>1. \A x \in WordStart(s) : x \in 1..Len(s)
      BY DEF WordStart
    <3>. QED
      BY <2>2, <3>1
  <2>5. Len(type) < MaxType => \A q \in WordStart(s) : \E i \in 1..Len(type) : type[i] = q
    BY <2>1, <2>3, <2>4
  <2>. QED
    BY <1>2, <1>4, <2>1, <2>5 DEF Created
<1>6. \A i \in DOMAIN m_serviceNode' : m_serviceNode'[i] \in Known \cup {None, Conf!Wild}
  BY <1>4
<1>. QED
  BY <1>1, <1>2, <1>5, <1>6 DEF ConfigInv, Cutting

LEMMA ConfigSame == ConfigInv /\ UNCHANGED Conf!vars => ConfigInv'
<1>. SUFFICES ASSUME ConfigInv, UNCHANGED Conf!vars PROVE ConfigInv'
  OBVIOUS
<1>1. FileTypes' /\ MapOK(m_config_map)' /\ Loading'
  BY SameMap DEF Conf!vars
<1>2. Conf!services' = Conf!services
  BY DEF Conf!vars, Conf!services, Conf!getConfigName
<1>3. Cutting' /\ Created'
  BY <1>2 DEF Conf!vars, ConfigInv, Cutting, Created
<1>. QED
  BY <1>1, <1>3 DEF ConfigInv, Conf!vars

LEMMA ConfigNext == ConfigInv /\ [Conf!Next]_Conf!vars => ConfigInv'
BY ConfigSame, LoadPieceKeeps, LoadedKeeps, GetServicesKeeps, CutTokenKeeps, CreateServicesKeeps
  DEF Conf!Next

(* What init made is what the list names.                                  *)
LEMMA FoundAre == ConfigInv => Conf!ListedAreFound
<1>. SUFFICES ASSUME ConfigInv, filePc = "ready", Len(type) < MaxType,
                     {Conf!Atoi(w) : w \in Conf!Words(Conf!services)} \subseteq Known,
                     NEW sid \in Known
              PROVE  Conf!getServiceNode(sid) =
                       IF sid \in {Conf!Atoi(w) : w \in Conf!Words(Conf!services)} THEN sid ELSE None
  BY DEF Conf!ListedAreFound
<1>. PICK s : s = Conf!services
  OBVIOUS
<1>1. /\ s # None
      /\ \A i \in 1..Len(type) : type[i] \in WordStart(s)
      /\ \A q \in WordStart(s) : \E i \in 1..Len(type) : type[i] = q
      /\ m_serviceNode \in [1..Len(type) -> Known \cup {None, Conf!Wild}]
      /\ \A i \in 1..Len(type) :
           Conf!Atoi(Conf!TokenAt(s, type[i])) \in Known
             => m_serviceNode[i] = Conf!Atoi(Conf!TokenAt(s, type[i]))
  BY DEF ConfigInv, Created
<1>2. Conf!Words(s) = {Conf!TokenAt(s, q) : q \in WordStart(s)}
  BY <1>1, ServicesAre, TokensAreWords DEF ConfigInv
<1>3. Conf!Wild \notin Known
  <2>1. Conf!Wild \notin Seq(Digits)
    <3>1. "?" \notin Digits
      BY FilesAssumed DEF Conf!ConfigFileAssumption
    <3>2. ASSUME NEW t \in Seq(Digits), t = <<"?">> PROVE FALSE
      <4>1. Len(t) = 1 /\ t[1] = "?"
        BY <3>2
      <4>2. t[1] \in Digits
        BY <4>1, ElementOfSeq
      <4>. QED
        BY <3>1, <4>1, <4>2
    <3>. QED
      BY <3>2 DEF Conf!Wild
  <2>. QED
    BY <2>1, FilesAssumed DEF Conf!ConfigFileAssumption
<1>4. \A i \in 1..Len(type) : m_serviceNode[i] = Conf!Atoi(Conf!TokenAt(s, type[i]))
  BY <1>1, <1>2
<1>5. {Conf!Atoi(w) : w \in Conf!Words(s)} = {m_serviceNode[i] : i \in 1..Len(type)}
  <2>1. \A i \in 1..Len(type) : Conf!TokenAt(s, type[i]) \in Conf!Words(s)
    BY <1>1, <1>2
  <2>2. ASSUME NEW w \in Conf!Words(s) PROVE \E i \in 1..Len(type) : Conf!Atoi(w) = m_serviceNode[i]
    <3>1. PICK q \in WordStart(s) : w = Conf!TokenAt(s, q)
      BY <1>2
    <3>2. PICK i \in 1..Len(type) : type[i] = q
      BY <1>1
    <3>. QED
      BY <1>4, <3>1, <3>2
  <2>. QED
    BY <1>4, <2>1, <2>2
<1>6. Len(type) \in Nat
  BY LenProperties DEF ConfigInv
<1>7. Len(m_serviceNode) = Len(type)
  <2>1. DOMAIN m_serviceNode = 1..Len(type)
    BY <1>1
  <2>2. m_serviceNode \in Seq(Known \cup {None, Conf!Wild})
    BY <1>1, <1>6, SeqDef
  <2>. QED
    BY <1>6, <2>1, <2>2, LenProperties
<1>. DEFINE I == {i \in 1..Len(m_serviceNode) : m_serviceNode[i] \in {sid, Conf!Wild}}
<1>8. I = {i \in 1..Len(type) : m_serviceNode[i] = sid}
  <2>1. \A i \in 1..Len(type) : m_serviceNode[i] \in Known
    BY <1>4, <1>5
  <2>. QED
    BY <1>3, <1>7, <2>1
<1>9. Conf!getServiceNode(sid) = IF I = {} THEN None ELSE m_serviceNode[Conf!MinOf(I)]
  BY DEF Conf!getServiceNode
<1>10. CASE I = {}
  BY <1>5, <1>8, <1>9, <1>10
<1>11. CASE I # {}
  <2>1. I \in SUBSET Nat
    <3>1. 1..Len(type) \subseteq Nat
      BY <1>6
    <3>. QED
      BY <1>8, <3>1
  <2>2. Conf!MinOf(I) \in I
    <3>. HIDE DEF I
    <3>. QED
      BY <1>11, <2>1, MinOfIs
  <2>3. m_serviceNode[Conf!MinOf(I)] = sid
    BY <1>8, <2>2
  <2>4. sid \in {Conf!Atoi(w) : w \in Conf!Words(s)}
    BY <1>5, <1>8, <1>11
  <2>. QED
    BY <1>9, <1>11, <2>3, <2>4
<1>. QED
  BY <1>10, <1>11

LEMMA ConfigSafe ==
  ConfigInv => Conf!TypeOK /\ Conf!MapIsFile /\ Conf!StaysInString /\ Conf!ListedAreFound
<1>. SUFFICES ASSUME ConfigInv PROVE Conf!TypeOK /\ Conf!MapIsFile /\ Conf!StaysInString
  BY FoundAre
<1>1. Conf!TypeOK
  BY DEF ConfigInv, FileTypes, MapOK, Conf!TypeOK
<1>2. Conf!MapIsFile
  BY DEF ConfigInv, Loading, Conf!MapIsFile
<1>3. Conf!StaysInString
  <2>. SUFFICES ASSUME filePc = "cut" PROVE cursor <= Len(Conf!services) + 1
    BY DEF Conf!StaysInString, Conf!InString
  <2>. PICK s : s = Conf!services
    OBVIOUS
  <2>1. s # None /\ cursor \in 1..Len(s) + 1
    BY DEF ConfigInv, Cutting
  <2>2. Len(s) \in Nat
    BY <2>1, ServicesAre DEF ConfigInv
  <2>. QED
    BY <2>1, <2>2
<1>. QED
  BY <1>1, <1>2, <1>3

-----------------------------------------------------------------------------
(* Theorems                                                                *)

IInv == ServerInv /\ LoopInv /\ QueryInv /\ ConfigInv

LEMMA InitInv == ProcessInit => IInv
BY ServerInit, LoopInit, QueryInit, ConfigInit DEF ProcessInit, IInv

LEMMA NextInv == IInv /\ [ProcessNext]_processVars => IInv'
<1>. SUFFICES ASSUME IInv, [ProcessNext]_processVars PROVE IInv'
  OBVIOUS
<1>1. /\ [Next]_vars
      /\ Loop!Next \/ Threads!Next \/ UNCHANGED loopVars
      /\ Redis!Next \/ UNCHANGED queryVars
      /\ Conf!Next \/ UNCHANGED fileVars
  BY DEF ProcessNext, ServerStep, LoopStep, ThreadsStep, RedisStep, ConfigStep, processVars
<1>2. [Conf!Next]_Conf!vars
  BY <1>1 DEF fileVars, Conf!vars
<1>. QED
  BY <1>1, <1>2, ServerNext, LoopNext, QueryNext, ConfigNext DEF IInv

(* The inductive invariant of the three parts holds whatever the order of  *)
(* commands, crashes, timers, threads, calls that fail and answers.        *)
THEOREM Invariance == ProcessSpec => []IInv
BY InitInv, NextInv, PTL DEF ProcessSpec

(* The types of each part, that a server has its ports, the lock and the   *)
(* idle connection's buffers, in every reachable state (Main.cpp,          *)
(* Timer.cpp, hiredis.c).                                                  *)
THEOREM TypeCorrect == ProcessSpec => [](TypeOK /\ Loop!TypeOK /\ Redis!TypeOK)
<1>1. ServerInv => TypeOK
  BY DEF ServerInv, ServerTypes, Listens, TypeOK, PcState
<1>2. QueryInv => Redis!TypeOK
  BY QueryIsSafe DEF QueriesSafe
<1>3. IInv => TypeOK /\ Loop!TypeOK /\ Redis!TypeOK
  BY <1>1, <1>2, LoopTypeOK DEF IInv
<1>. QED
  BY <1>3, Invariance, PTL

(* However many processes are started, stopped, restarted or crash: the    *)
(* pid file names the server that serves (IMServer::init, Main.cpp).       *)
THEOREM PidFileCorrect == ProcessSpec => []PidFileNamesServer
<1>1. IInv => PidFileNamesServer
  BY DEF IInv, ServerInv
<1>. QED
  BY <1>1, Invariance, PTL

(* For any number of workers: nobody writes m_timers while serverCron's    *)
(* iterator is in it (Timer::addTimer, Timer::serverCron).                 *)
THEOREM ListStaysStill == ProcessSpec => ListIsStill
<1>1. IInv /\ [ProcessNext]_processVars => [loopPc = "cron" => m_timers' = m_timers]_loopVars
  BY CronKeepsList
  DEF IInv, ProcessNext, ServerStep, LoopStep, ThreadsStep, RedisStep, ConfigStep, processVars
<1>. QED
  BY <1>1, Invariance, PTL DEF ProcessSpec, ListIsStill

(* However commands and replies are cut and whatever fails: a query gets   *)
(* NULL or the reply to its own command, a connection is kept only with    *)
(* nothing left in its buffers, and no descriptor is lost (Redis::query,   *)
(* redisContextConnectTcp).                                                *)
THEOREM QueriesAreSafe == ProcessSpec => []QueriesSafe
<1>1. IInv => QueriesSafe
  BY QueryIsSafe DEF IInv
<1>. QED
  BY <1>1, Invariance, PTL

(* For every file whose lines fit the reader's buffer the map holds its    *)
(* settings, the first for each key; and of every file the list of         *)
(* services is cut without leaving it, and the services listed are found,  *)
(* the only ones if all that are listed are known                          *)
(* (CConfigFileReader::_LoadFile, NodeMgr::init).                          *)
THEOREM ConfigIsTheFile == ProcessSpec => []ConfigIsFile
<1>1. IInv => ConfigIsFile
  BY ConfigSafe DEF IInv, ConfigIsFile
<1>. QED
  BY <1>1, Invariance, PTL
=============================================================================
