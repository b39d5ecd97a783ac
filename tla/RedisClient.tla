----------------------------- MODULE RedisClient ----------------------------
(***************************************************************************)
(* The class Redis and hiredis below it: connect() with its time limit and *)
(* query(), which writes a command, reads until its reply is complete and  *)
(* gives the connection up when anything goes wrong.  The server is the    *)
(* environment; how bytes make a reply is ReplyReader's subject, here a    *)
(* command or a reply is two pieces that may travel apart.                 *)
(***************************************************************************)
EXTENDS Naturals, Sequences

CONSTANTS
  MaxSock,   \* bound: sockets at a time; identities are reused
  MaxQuery,  \* bound: queries
  MaxFail,   \* bound: calls of the system that fail, and times the server closes
  None       \* model value: NULL

Sock == 1..MaxSock
Query == 1..MaxQuery

(* A command or a reply is two pieces, the command's number on each.       *)
Piece == Nat \X {1, 2}
Context == [fd : Sock, obuf : Seq(Piece), in : Seq(Piece)]

RedisClientAssumption ==
  /\ MaxSock \in Nat \ {0} /\ MaxQuery \in Nat /\ MaxFail \in Nat
  /\ None \notin Nat \cup Context

VARIABLES
  pc,        \* the caller: see States
  m_context, \* Redis::m_context: [fd, obuf, in] (in: the reader's buffer), or None
  sock,      \* redisContextConnectTcp's s, or None
  socks,     \* the descriptors that are open
  net,       \* per socket: [up, down, closed], what travels and whether the
             \* server has closed it
  cmd,       \* the number of the query, and of its command
  res,       \* history: what queries returned, <<command, reply>>
  fails

vars == <<pc, m_context, sock, socks, net, cmd, res, fails>>

Steps == {"nonblock", "resolve", "connect", "wait", "block", "nodelay"}
States == {"idle", "write", "read", "failed"} \cup Steps

Pieces(k) == <<<<k, 1>>, <<k, 2>>>>
Quiet == [up |-> <<>>, down |-> <<>>, closed |-> FALSE]

Init ==
  /\ pc = "idle" /\ m_context = None /\ sock = None /\ socks = {}
  /\ net = [s \in Sock |-> Quiet]
  /\ cmd = 0 /\ res = {} /\ fails = 0

MayFail == fails < MaxFail /\ fails' = fails + 1

-----------------------------------------------------------------------------
(* Redis::connect                                                          *)

(* redisCreateSocket.  (A caller that is connected does not call connect:  *)
(* the old context would be lost.)                                         *)
CreateSocket ==
  /\ pc = "idle" /\ m_context = None
  /\ \E s \in Sock \ socks :
       /\ \A t \in Sock \ socks : s <= t
       /\ sock' = s /\ socks' = socks \cup {s}
       /\ net' = [net EXCEPT ![s] = Quiet]
  /\ pc' = "nonblock"
  /\ UNCHANGED <<m_context, cmd, res, fails>>

NextStep ==
  [x \in Steps \ {"nodelay"} |->
     CASE x = "nonblock" -> {"resolve"} [] x = "resolve" -> {"connect"}
       [] x = "connect" -> {"wait", "block"} [] x = "wait" -> {"block"}
       [] x = "block" -> {"nodelay"}]

(* One call after the other: fcntl, inet_aton or gethostbyname, connect,   *)
(* select if it is in progress, fcntl, setsockopt.                         *)
StepDone ==
  /\ pc \in DOMAIN NextStep
  /\ pc' \in NextStep[pc]
  /\ UNCHANGED <<m_context, sock, socks, net, cmd, res, fails>>

(* The descriptor is closed by whoever finds that its call failed.         *)
StepFails ==
  /\ pc \in Steps \ {"wait"} /\ MayFail
  /\ socks' = socks \ {sock} /\ sock' = None
  /\ pc' = "idle"
  /\ UNCHANGED <<m_context, net, cmd, res>>

(* redisContextWaitReady: select fails, the time is up, or the socket has  *)
(* an error.                                                               *)
WaitFails ==
  /\ pc = "wait" /\ MayFail
  /\ socks' = socks \ {sock} /\ sock' = None
  /\ pc' = "idle"
  /\ UNCHANGED <<m_context, net, cmd, res>>

Connected ==
  /\ pc = "nodelay"
  /\ m_context' = [fd |-> sock, obuf |-> <<>>, in |-> <<>>]
  /\ sock' = None /\ pc' = "idle"
  /\ UNCHANGED <<socks, net, cmd, res, fails>>

-----------------------------------------------------------------------------
(* Redis::query                                                            *)

(* Without a connection query returns NULL.                                *)
QueryNull ==
  /\ pc = "idle" /\ m_context = None /\ cmd < MaxQuery
  /\ cmd' = cmd + 1 /\ res' = res \cup {<<cmd + 1, None>>}
  /\ UNCHANGED <<pc, m_context, sock, socks, net, fails>>

(* __redisAppendCommand; then redisGetReply looks for a reply that is      *)
(* already there, before it writes.                                        *)
QueryStarts ==
  /\ pc = "idle" /\ m_context # None /\ cmd < MaxQuery
  /\ cmd' = cmd + 1
  /\ m_context' = [m_context EXCEPT !.obuf = @ \o Pieces(cmd + 1)]
  /\ pc' = IF Len(m_context.in) >= 2 THEN "read" ELSE "write"
  /\ UNCHANGED <<sock, socks, net, res, fails>>

Fd == m_context.fd
Peer == net[Fd]

(* redisBufferWrite takes what was written off obuf.                       *)
Written(n) == SubSeq(m_context.obuf, n + 1, Len(m_context.obuf))

BufferWrite ==
  /\ pc = "write"
  /\ \E n \in 1..Len(m_context.obuf) :
       /\ m_context' = [m_context EXCEPT !.obuf = Written(n)]
       /\ net' = [net EXCEPT ![Fd].up =
                    IF Peer.closed THEN @ ELSE @ \o SubSeq(m_context.obuf, 1, n)]
  /\ pc' = IF m_context'.obuf = <<>> THEN "read" ELSE "write"
  /\ UNCHANGED <<sock, socks, cmd, res, fails>>

(* Read until there is a reply; what is read is all for the reader.        *)
BufferRead ==
  /\ pc = "read" /\ Len(m_context.in) < 2
  /\ \E n \in 1..Len(Peer.down) :
       /\ m_context' = [m_context EXCEPT !.in = @ \o SubSeq(Peer.down, 1, n)]
       /\ net' = [net EXCEPT ![Fd].down = SubSeq(@, n + 1, Len(@))]
  /\ UNCHANGED <<pc, sock, socks, cmd, res, fails>>

(* Any error of write or read, an interrupted call among them, or the end  *)
(* of the stream.                                                          *)
IOFails ==
  /\ pc \in {"write", "read"} /\ (pc = "read" => Len(m_context.in) < 2)
  /\ \/ MayFail
     \/ Peer.closed /\ Peer.down = <<>> /\ UNCHANGED fails
  /\ pc' = "failed"
  /\ UNCHANGED <<m_context, sock, socks, net, cmd, res>>

(* The reader has a complete reply.                                        *)
QueryReturns ==
  /\ pc = "read" /\ Len(m_context.in) >= 2
  /\ res' = res \cup {<<cmd, m_context.in[1][1]>>}
  /\ m_context' = [m_context EXCEPT !.in = SubSeq(@, 3, Len(@))]
  /\ pc' = "idle"
  /\ UNCHANGED <<sock, socks, net, cmd, fails>>

(* Wrong version: the context is kept and used for the next query.         *)
QueryFailsKeeps ==
  /\ pc = "failed"
  /\ res' = res \cup {<<cmd, None>>}
  /\ pc' = "idle"
  /\ UNCHANGED <<m_context, sock, socks, net, cmd, fails>>

(* redisFree closes the socket; the caller has to connect again.           *)
QueryFails ==
  /\ pc = "failed"
  /\ res' = res \cup {<<cmd, None>>}
  /\ socks' = socks \ {Fd} /\ m_context' = None
  /\ pc' = "idle"
  /\ UNCHANGED <<sock, net, cmd, fails>>

-----------------------------------------------------------------------------
(* The server answers commands that have arrived in order; or it closes.   *)

ServerAnswers(s) ==
  /\ s \in socks /\ ~net[s].closed /\ Len(net[s].up) >= 2
  /\ net' = [net EXCEPT ![s].down = @ \o Pieces(net[s].up[1][1]),
                        ![s].up = SubSeq(@, 3, Len(@))]
  /\ UNCHANGED <<pc, m_context, sock, socks, cmd, res, fails>>

ServerCloses(s) ==
  /\ s \in socks /\ ~net[s].closed /\ MayFail
  /\ net' = [net EXCEPT ![s].closed = TRUE, ![s].up = <<>>]
  /\ UNCHANGED <<pc, m_context, sock, socks, cmd, res>>

Client ==
  \/ CreateSocket \/ StepDone \/ StepFails \/ WaitFails \/ Connected
  \/ QueryNull \/ QueryStarts \/ BufferWrite \/ BufferRead \/ IOFails
  \/ QueryReturns \/ QueryFails

Next == Client \/ \E s \in Sock : ServerAnswers(s) \/ ServerCloses(s)

(* The thread runs and the server answers.  (A server that stays silent    *)
(* blocks the thread for good: the time limit is for connect only.)        *)
Spec ==
  /\ Init /\ [][Next]_vars
  /\ WF_vars(BufferWrite) /\ WF_vars(BufferRead \/ IOFails)
  /\ WF_vars(QueryReturns \/ QueryFails)
  /\ \A s \in Sock : WF_vars(ServerAnswers(s))

-----------------------------------------------------------------------------
(* Properties                                                              *)

(* Types; and between two queries neither buffer of a connection that is   *)
(* kept holds anything.                                                    *)
TypeOK ==
  /\ pc \in States /\ cmd \in 0..MaxQuery /\ fails \in 0..MaxFail
  /\ socks \subseteq Sock /\ sock \in socks \cup {None}
  /\ res \subseteq Query \X (Query \cup {None})
  /\ pc = "idle" /\ m_context # None => m_context.obuf = <<>> /\ m_context.in = <<>>

(* However commands and replies are cut, whatever fails in between and     *)
(* however often one connects again: what query returns is NULL or the     *)
(* reply to its own command, never one that an earlier query gave up.      *)
ReplyIsOwn == \A r \in res : r[2] \in {r[1], None}

(* The only descriptor is that of the connection, or the one connect works *)
(* on: no path out of connect or query leaves one open.                    *)
SocketsOwned ==
  socks = (IF m_context = None THEN {} ELSE {m_context.fd})
          \cup (IF sock = None THEN {} ELSE {sock})

(* A query returns: nobody waits for pieces that have been read or that    *)
(* have not been written.                                                  *)
QueryEnds == pc \in {"write", "read", "failed"} ~> pc = "idle"
=============================================================================
