------------------------------- MODULE Process -------------------------------
(***************************************************************************)
(* What one process does besides messages: its start and stop (Lifecycle,  *)
(* with ids that are soon used again), reading its configuration           *)
(* (ConfigFile), its event loop (EventLoop, once with stop() where it is   *)
(* safe, once with stop() anywhere), and its queries to Redis              *)
(* (RedisClient).  They share no state; "part" says which of them a        *)
(* behaviour is about, and the variables of the others stay as they are at *)
(* the start.                                                              *)
(***************************************************************************)
EXTENDS Lifecycle

CONSTANTS
  Worker,    \* see EventLoop
  MaxTimers, MaxSock, MaxQuery, MaxFail, \* bounds: see EventLoop, RedisClient
  Chars, Digits, Files, BufLen, MaxType, Key, Known, \* see ConfigFile
  None       \* model value: NULL

VARIABLES
  part,
  loopPc, wpc, m_timers, it, readers, writer, m_stop, brk, asked, ran,
  queryPc, m_context, sock, socks, net, query, res, fails,
  file, pos, m_config_map, filePc, cursor, type, m_serviceNode

loopVars == <<loopPc, wpc, m_timers, it, readers, writer, m_stop, brk, asked, ran>>
queryVars == <<queryPc, m_context, sock, socks, net, query, res, fails>>
fileVars == <<file, pos, m_config_map, filePc, cursor, type, m_serviceNode>>

Loop == INSTANCE EventLoop WITH pc <- loopPc, Stoppers <- {"callback", "event"}
Threads == INSTANCE EventLoop WITH pc <- loopPc, Stoppers <- {"callback", "event", "worker"}
Redis == INSTANCE RedisClient WITH pc <- queryPc, cmd <- query
Conf == INSTANCE ConfigFile WITH pc <- filePc, p <- cursor

ASSUME ProcessAssumption ==
  /\ IsFiniteSet(Worker)
  /\ Loop!EventLoopAssumption /\ Threads!EventLoopAssumption
  /\ Redis!RedisClientAssumption /\ Conf!ConfigFileAssumption

(* The other parts look at no file: for them it is empty.                  *)
ProcessInit ==
  /\ Init /\ Loop!Init /\ Redis!Init /\ Conf!Init
  /\ \/ part = "config"
     \/ part \in {"server", "loop", "threads", "redis"} /\ file = <<>>

ServerStep == part = "server" /\ Next /\ UNCHANGED <<part, loopVars, queryVars, fileVars>>
LoopStep == part = "loop" /\ Loop!Next /\ UNCHANGED <<part, vars, queryVars, fileVars>>
ThreadsStep == part = "threads" /\ Threads!Next /\ UNCHANGED <<part, vars, queryVars, fileVars>>
RedisStep == part = "redis" /\ Redis!Next /\ UNCHANGED <<part, vars, loopVars, fileVars>>
ConfigStep == part = "config" /\ Conf!Next /\ UNCHANGED <<part, vars, loopVars, queryVars>>

ProcessNext == ServerStep \/ LoopStep \/ ThreadsStep \/ RedisStep \/ ConfigStep

(* The fairness of each part.                                              *)
ProcessFairness ==
  /\ \A p \in Pid : WF_vars(part = "server" /\ Step(p)) /\ WF_vars(part = "server" /\ Dies(p))
  /\ WF_loopVars(part = "loop" /\ Loop!Event)
  /\ \A w \in Worker : /\ WF_loopVars(part = "loop" /\ Loop!WorkerAdds(w))
                        /\ WF_loopVars(part = "loop" /\ Loop!WorkerBreaks(w))
                        /\ SF_loopVars(part = "loop" /\ Loop!WorkerLocks(w))
  /\ WF_queryVars(part = "redis" /\ Redis!BufferWrite)
  /\ WF_queryVars(part = "redis" /\ (Redis!BufferRead \/ Redis!IOFails))
  /\ WF_queryVars(part = "redis" /\ (Redis!QueryReturns \/ Redis!QueryFails))
  /\ \A s \in Redis!Sock : WF_queryVars(part = "redis" /\ Redis!ServerAnswers(s))

processVars == <<part, vars, loopVars, queryVars, fileVars>>
ProcessSpec == ProcessInit /\ [][ProcessNext]_processVars /\ ProcessFairness

-----------------------------------------------------------------------------
(* Properties                                                              *)

(* m_lock has one writer or the event thread as reader; whoever adds a     *)
(* timer, it is called, unless the loop is stopped; stop() on the event    *)
(* thread ends the loop; and a query to Redis returns.                     *)
NothingHangs ==
  /\ part = "loop" => []Loop!TypeOK /\ Loop!TimersRun /\ Loop!StopEndsLoop
  /\ part = "redis" => Redis!QueryEnds

(* Wherever timers are added and stop() is called from: the list of timers *)
(* does not change under serverCron's iterator.                            *)
ListIsStill == [][loopPc = "cron" => m_timers' = m_timers]_loopVars

(* However commands and replies are cut, whatever fails in between: a query*)
(* returns NULL or the reply to its own command, and no path out of it or  *)
(* out of connect leaves a descriptor open.                                *)
QueriesSafe == Redis!TypeOK /\ Redis!ReplyIsOwn /\ Redis!SocketsOwned

(* CConfigFileReader's map holds the settings of the file, the first one   *)
(* for each key, without comments, blanks and line ends, if the lines fit  *)
(* its buffer.  NodeMgr::init cuts the list of services without leaving    *)
(* it, and finds those listed.                                             *)
ConfigIsFile ==
  Conf!TypeOK /\ Conf!MapIsFile /\ Conf!StaysInString /\ Conf!ListedAreFound
=============================================================================
