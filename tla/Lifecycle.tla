------------------------------ MODULE Lifecycle ------------------------------
(***************************************************************************)
(* Starting, stopping and restarting the server: main, handler_signal,     *)
(* daemon and IMServer::init, in several processes that meet at the pid    *)
(* file and at the ports they listen on.                                   *)
(***************************************************************************)
EXTENDS Naturals, FiniteSets, Sequences

CONSTANTS
  Pid,         \* process ids; the system uses them again
  Daemon,      \* the configuration says daemon=on
  Http,        \* the configuration says http=1
  MaxCommands, \* bound: commands the administrator gives
  NoPid        \* model value

ASSUME LifecycleAssumption == /\ NoPid \notin Pid /\ IsFiniteSet(Pid)
                              /\ Daemon \in BOOLEAN /\ Http \in BOOLEAN
                              /\ MaxCommands \in Nat

Port == IF Http THEN {"tcp", "http"} ELSE {"tcp"}
Command == {"start", "stop", "restart", "reload"}

VARIABLES
  pc,       \* where each process is; "none": no process has this id
  cmd,      \* the command a process carries out
  dying,    \* processes that have been sent SIGKILL
  pidfile,  \* the id in the pid file, NoPid before it exists
  owner,    \* who listens on each port
  commands, \* the commands given so far
  killed    \* what the last kill() hit: "none", "server", "starting" or "foreign"

vars == <<pc, cmd, dying, pidfile, owner, commands, killed>>

Init ==
  /\ pc = [p \in Pid |-> "none"] /\ cmd = [p \in Pid |-> "start"] /\ dying = {}
  /\ pidfile = NoPid /\ owner = [t \in Port |-> NoPid]
  /\ commands = 0 /\ killed = "none"

-----------------------------------------------------------------------------
(* The world                                                               *)

(* A process ends: the system closes its sockets and frees its id.         *)
Ends(p) ==
  /\ pc' = [pc EXCEPT ![p] = "none"] /\ dying' = dying \ {p}
  /\ owner' = [t \in Port |-> IF owner[t] = p THEN NoPid ELSE owner[t]]

Dies(p) ==
  /\ pc[p] # "none" /\ p \in dying
  /\ Ends(p) /\ UNCHANGED <<cmd, pidfile, commands, killed>>

Crash(p) ==
  /\ pc[p] = "serving"
  /\ Ends(p) /\ UNCHANGED <<cmd, pidfile, commands, killed>>

(* Some other program.                                                     *)
Foreign(p) ==
  /\ pc[p] = "none"
  /\ pc' = [pc EXCEPT ![p] = "foreign"]
  /\ UNCHANGED <<cmd, dying, pidfile, owner, commands, killed>>

ForeignEnds(p) ==
  /\ pc[p] = "foreign"
  /\ Ends(p) /\ UNCHANGED <<cmd, pidfile, commands, killed>>

Launch(p, c) ==
  /\ pc[p] = "none" /\ commands < MaxCommands
  /\ commands' = commands + 1
  /\ cmd' = [cmd EXCEPT ![p] = c]
  /\ pc' = [pc EXCEPT ![p] = IF c = "start" THEN "daemon" ELSE "signal"]
  /\ UNCHANGED <<dying, pidfile, owner, killed>>

-----------------------------------------------------------------------------
(* main                                                                    *)

Runs(p, at) == pc[p] = at /\ p \notin dying
Exit(p) == Ends(p) /\ UNCHANGED <<cmd, pidfile, commands, killed>>

Kind(p) == CASE pc[p] = "serving" -> "server" [] pc[p] = "foreign" -> "foreign" [] OTHER -> "starting"

(* Wrong version: the pid file is written before the ports are taken.      *)
StepsPidFileFirst == IF Http THEN <<"pidfile", "tcp", "http">> ELSE <<"pidfile", "tcp">>

Steps == IF Http THEN <<"tcp", "http", "pidfile">> ELSE <<"tcp", "pidfile">>
After(t) ==
  LET i == CHOOSE j \in DOMAIN Steps : Steps[j] = t
  IN IF i = Len(Steps) THEN "serving" ELSE Steps[i + 1]

(* After handler_signal, only a restart goes on.                           *)
GoesOn(p) == pc' = [pc EXCEPT ![p] = IF cmd[p] = "restart" THEN "daemon" ELSE "done"]

(* Wrong version: only restart sends the signal.                           *)
KillsOnRestart(p) == cmd[p] = "restart"

(* "reload" sends no signal.                                               *)
Kills(p) == cmd[p] \in {"stop", "restart"}

(* handler_signal: kill fails when no process has the id in the pid file,  *)
(* and with it the command.                                                *)
HandlerSignal(p) ==
  /\ Runs(p, "signal")
  /\ IF pidfile = NoPid \/ (Kills(p) /\ pc[pidfile] = "none")
       THEN Exit(p)
       ELSE /\ IF Kills(p)
                 THEN dying' = dying \cup {pidfile} /\ killed' = Kind(pidfile)
                 ELSE UNCHANGED <<dying, killed>>
            /\ GoesOn(p)
            /\ UNCHANGED <<cmd, pidfile, owner, commands>>

Done(p) == Runs(p, "done") /\ Exit(p)

(* daemon: the child goes on, with its own id.                             *)
Fork(p) ==
  /\ Runs(p, "daemon")
  /\ IF Daemon
       THEN \E q \in Pid :
              /\ pc[q] = "none"
              /\ pc' = [pc EXCEPT ![p] = "done", ![q] = Steps[1]]
              /\ cmd' = [cmd EXCEPT ![q] = cmd[p]]
       ELSE pc' = [pc EXCEPT ![p] = Steps[1]] /\ UNCHANGED cmd
  /\ UNCHANGED <<dying, pidfile, owner, commands, killed>>

-----------------------------------------------------------------------------
(* IMServer::init                                                          *)

(* NetServer::init, createServer: SO_REUSEADDR does not help while another *)
(* process listens; the process exits.                                     *)
Bind(p, t) ==
  /\ Runs(p, t)
  /\ IF owner[t] # NoPid
       THEN Exit(p)
       ELSE /\ owner' = [owner EXCEPT ![t] = p]
            /\ pc' = [pc EXCEPT ![p] = After(t)]
            /\ UNCHANGED <<cmd, dying, pidfile, commands, killed>>

WritePid(p) ==
  /\ Runs(p, "pidfile")
  /\ pidfile' = p
  /\ pc' = [pc EXCEPT ![p] = After("pidfile")]
  /\ UNCHANGED <<cmd, dying, owner, commands, killed>>

Step(p) == HandlerSignal(p) \/ Done(p) \/ Fork(p) \/ WritePid(p) \/ (\E t \in Port : Bind(p, t))

Next == \E p \in Pid : \/ Step(p) \/ Dies(p) \/ Crash(p) \/ Foreign(p) \/ ForeignEnds(p)
                       \/ \E c \in Command : Launch(p, c)

(* The system runs processes and delivers signals; it owes nothing else.   *)
Fairness == \A p \in Pid : WF_vars(Step(p)) /\ WF_vars(Dies(p))

Spec == Init /\ [][Next]_vars /\ Fairness

-----------------------------------------------------------------------------
(* Properties                                                              *)

(* Types; and what serves has all its ports.                               *)
TypeOK ==
  /\ pc \in [Pid -> {"none", "foreign", "signal", "daemon", "tcp", "http", "pidfile",
                     "serving", "done"}]
  /\ cmd \in [Pid -> Command] /\ dying \subseteq Pid /\ pidfile \in Pid \cup {NoPid}
  /\ \A p \in Pid, t \in Port : pc[p] = "serving" => owner[t] = p

(* However starts, stops, restarts and crashes interleave, the pid file    *)
(* names the server that serves: a start that fails because the port is    *)
(* taken has not touched it.                                               *)
PidFileNamesServer == \A p \in Pid : pc[p] = "serving" => pidfile = p

(* A stop given while a server serves ends that server.                    *)
StopEndsServer ==
  \A p, q \in Pid :
    (Runs(p, "signal") /\ cmd[p] = "stop" /\ pc[q] = "serving") ~> pc[q] # "serving"

(* "begin restart" (Main.cpp:168): the restart leads to a server.          *)
RestartServes ==
  \A p \in Pid :
    (Runs(p, "daemon") /\ cmd[p] = "restart") ~> \E q \in Pid : Runs(q, "serving")

(* "close IMServer fail" (Main.cpp:83): what stop and restart close is a   *)
(* server.                                                                 *)
KillsServersOnly == killed # "foreign"
=============================================================================
