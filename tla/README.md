# SNFrame: TLA+ models, checks and proofs

SNFrame is a C++ framework for the servers of an instant-messaging system: one
process listens on a TCP port, registers with a router, dials the other servers
the router announces, and runs application handlers on a pool of threads.  The
repository has no tests and no documentation; everything here is read from the
code in `src/src/core`, `src/src/base` and `src/third/redis_client`.

## The system and its parts

    router, other servers                               application handlers
          |  TCP                                          ^            |
          v                                               |            v
    libevent --_accept/_read/_write--> NetServer/TcpServer |     sendNode, sendDb,
      (event thread)                     |  parse          |     sendState, sendSock
          ^                              +--> Recver/ThreadPool       |
          | timer                        +--> NodeMgr (own protocol)  v
        Timer --cron--> NodeMgr/ServiceNode/RouterNode --> NetManager/Connection

| part | state | operations | interacts with |
| --- | --- | --- | --- |
| NetManager | `m_conns` (list of connections), `m_lock`, `m_stop` | connect, addConnection, closeConnection, addFileEvent, delFileEvent, sendNode/Db/State/Sock, loop, stop | workers and event thread call it |
| Connection | descriptor, node id, state, armed events, send queue, packet being sent, receive buffer, incomplete packet, callback | push, nextPkt, write, read, setState, setCache, setNodeInfo, destructor | NetManager, TcpServer, ServiceNode |
| IMQueue | a locked deque | push, pop, empty (no lock) | shared by workers (push) and the event thread (pop) |
| TcpServer, NetServer | - | accept, connect, read, parse, write, failure handling | event thread |
| Recver, ThreadPool | one queue, mutex and condition variable per thread, round-robin index, number of working threads | create_threads, addJob, run(arg), run(), stop | event thread hands packets to workers |
| NodeMgr, ServiceNode, Node | per service a list of nodes: state, count of failed connects, connection | addNode, findNode, checkState, AuthenticationReq/Rsp, cron, heartBeat | event thread; callback from Connection |
| RouterNode | the router's connection | registReq, registRsp, srvinfoBroadcast, notifyNodeState | NodeMgr, Timer |
| Timer | list of callbacks, a read-write lock | addTimer, serverCron | event thread, workers |
| PbBuf, IMString | a buffer that moves when it is copied, lengths of 16 bits | bufalloc, init, set_data, set_pb, new_head, resize, check | all |
| Main, IMServer | pid file, listening sockets | start, stop, restart, daemon, init | processes meet at the pid file and the ports |
| ConfigFileReader | map of settings | loadFile, getConfigName, setConfigValue | read by everyone at start |
| HttpParser | state of one message, offsets of a URL | http_parser_execute, http_parser_parse_url | HttpServer sets it up |
| Redis, hiredis, net | one connection, output buffer, reader with a stack of arrays | connect, query, del | called by handlers |
| Log, ServerStatus, Netutil, cJSON, ... | | utilities, vendored code | |

What is hard here, and what makes each part correct:

- *Two kinds of threads share connections.*  Workers send, the event thread
  does everything else.  `m_lock` covers the sends, delFileEvent and
  closeConnection; connect, addConnection, `empty()`, setCache, setState and
  setNodeInfo are outside it.  Correct means: no use after free, no leaked or
  doubly freed queue, no libevent registration of a freed connection, messages
  of one queue in order and at most once, no message stranded.
- *Messages move.*  A copy takes the data and leaves length and size behind.
  Correct means: one owner per buffer, nothing leaked, nothing sent that is
  not there.
- *Reconnecting.*  A failed connection to a node is replaced and its queue is
  handed over in several steps.  Correct means: queue ownership is exact, the
  node has one connection, the callback moves too, retries are counted from
  the last success, every failed node is dealt with, and both ends agree on
  who is who before anything else is said.
- *A byte stream is cut anywhere* - packets, HTTP messages, Redis replies.
  Correct means: what comes out is what was sent, in order and promptly;
  buffers are not overrun; after junk the packet parser finds its step again.
- *Condition variables and locks.*  Correct means: no lost wake-up, jobs only
  to threads that are awake, each job once, timers run, stop stops.
- *Processes come and go.*  Correct means: the pid file names the server,
  a restart leaves one running, and nobody else is killed.

`PROJECT.json` lists the hazards with their lines and the properties that
cover them, or why none does.  Smaller ones that no property is about: recv
returning 0 drops complete packets that the same call buffered
(`Connection.cpp:181`); check() reads the byte behind the header even without a
body (`PbBuf.cpp:282`, hence the two verdicts of `Check`); when bufalloc fails,
parse loops for ever (`TcpServer.cpp:155`); a connect that fails ends the
handling of a whole push (`RouterNode.cpp:180`, modelled as `PushEnds`) and
leaves its socket open (`LibEvent.cpp:265`); available() walks m_nodes without a
lock (`NodeMgr.cpp:191`); heartBeat's counter advances only behind the test it
blocks (`ServiceNode.cpp:184`); an empty line of a configuration file that begins
with a zero byte (`ConfigFileReader.cpp:73`), and a setting that is replaced while
workers read it (`:33`); HttpServer::read reads nothing (`HttpServer.cpp:68`);
a second connect to Redis drops the first connection, del expects a string, and
FD_SET has 1024 places (`Redis.cpp:39`, `:59`, `net.c:199`).

## Modules

| module | models | checked by | proved in |
| --- | --- | --- | --- |
| `MessageStream` | abstract: what one send queue promises | refined by `SendPath` | `SendPathProofs` |
| `SendPath` | NetManager, Connection (send side), TcpServer write/close, accept, dial, re-dial hand-over | `MCSendPath` | `SendPathProofs` |
| `MessageOwnership` | IMString, PbBuf, and what write does with a message | `MCMessageOwnership` | `MessageOwnershipProofs` |
| `PacketParser` | Connection::read, TcpServer::parse | `MCPacketParser` | `PacketParserProofs` |
| `ThreadPool` | ThreadPool and Recver as used (`start(false)`) | `MCThreadPool` | `ThreadPoolProofs` |
| `PoolScaling` | ThreadPool with its managing thread (`start(true)`) | `MCThreadPool` | `ThreadPoolProofs` |
| `Pools` | ThreadPool::start: one of the two, by its argument | `MCThreadPool` | `ThreadPoolProofs` |
| `NodeRegistry` | NodeMgr, ServiceNode, RouterNode, Node, the cron | `MCNodeRegistry` | `NodeRegistryProofs` |
| `Handshake` | authentication between several processes, labels, sendNode's search | `MCHandshake` | `HandshakeProofs` |
| `EventLoop` | NetManager::loop and stop, Timer and its lock | `MCProcess` | `ProcessProofs` |
| `Lifecycle` | main, handler_signal, daemon, IMServer::init, in several processes | `MCProcess` | `ProcessProofs` |
| `RedisClient` | class Redis, hiredis' and net.c's calls below it | `MCProcess` | `ProcessProofs` |
| `ConfigFile` | CConfigFileReader, the list of service types in NodeMgr | `MCProcess` | `ProcessProofs` |
| `Process` | the last four together: what one process does besides messages | `MCProcess` | `ProcessProofs` |
| `HttpParser` | http_parser_execute | through the next two | `HttpProofs` |
| `HttpMessages` | HttpParser on well-formed messages | `MCTexts` | |
| `HttpSplit` | two HttpParsers on one stream of anything | `MCHttp` | `HttpProofs` |
| `HttpUrl` | http_parser_parse_url | `MCHttp` | `HttpProofs` |
| `Http` | HttpParser.cpp: a stream or a URL is read | `MCHttp` | `HttpProofs` |
| `ReplyReader` | hiredis' reader of replies, redisFormatCommandArgv | `MCTexts` | |
| `CommandFormat` | redisvFormatCommand | `MCTexts` | |

Components that share no state in the program are checked side by side:
`MCTexts`, `Http`, `Process`, `Pools` and `MCMessageOwnership` are sums, not
products.  A variable that never changes (`part`, `reading`, `managed`, `careful`)
says which component, or which instance of one, a behaviour is about; its `Next` is the
component's own, the other variables stay at their initial values, and each
property of the sum is the conjunction of a component's properties, type
invariant included.  (The modules with proofs have their TypeOK proved.)  In `MCTexts` the
components even use the same nine variables, so the state space is the union of
theirs.

Each module contains, beside the real actions, a few marked "Wrong version":
the same action with one plausible mistake.  No specification uses them; they
are there to show that the properties notice such a mistake.

### SendPath

State: `conn` (the Connection objects, numbered in order of creation, so that
`m_conns` is the set `live` in numeric order and "the first match" of a search
is the least one), `queue`/`alloc` (IMQueues, named after the connection that
allocated them), `ctx` (Node::m_context), `lock` (`m_lock` while a worker holds
it), `wk` (workers), `ev` (the event thread's position in a handler), and the
histories `wire` (what was completely sent from each queue) and `late` (queues
that got a message nobody was told about).

A worker's send is two steps under the lock, `SendPush` and `SendArm`; the
event thread's steps are cut where the code takes or releases `m_lock` and at
every unlocked access of something workers see: `CheckEmpty` and `Disarm` of
TcpServer::write, the five steps of checkState (`Redial`, `TakeQueue`,
`DropOld`, `SetNodeInfo`, `NodeReady`), `FailDisarm` and `FailClose`.  `Routes`
are the searches of sendNode (by node id) and of sendDb and sendState (by
service type); workers never call sendSock, because a handler is only given a
node id; the event thread does (`SendRsp`).  Which nodes are dialled again and
which are given up is a free choice here; NodeRegistry decides it.

`late` makes the lost wake-ups of the code explicit.  There are three: a push
between `empty()` and delFileEvent, a push while the node is down or not yet
in STATE_AUTH, and the queue inherited by the new connection, which nobody
arms.  `StrandedOnlyIfLate` says there is no fourth; `Delivery` is stated up
to them.

### MessageOwnership

State: the heap (for each buffer its size, the length in its header and the
length of its body), the messages of each worker's handler (`req`, which it was
given, and `rsp`), the queue and `out_pkt` of one connection.  A message is
pointer, length and allocated size, exactly as IMString moves them.  A handler
may call the functions of PbBuf.h in any order; with `Careful` it keeps to what
the framework's own code does: allocate into an empty message, fill what was
allocated, send once.  What write makes of a moved message (EFAULT, then the
connection is dropped) is `Write`.  `Wrap` is the 16 bits of the lengths.

### PacketParser

`buf` is the unparsed part of Connection::buf, `pkt`/`less` the packet that was
set aside; each way through the body of parse's loop is one action.  A peer
sends packets (numbered in the header) and junk.  In a running system junk is
what follows a packet whose length field is wrong, e.g. the 16-bit total of
set_data wrapping.  What the parser promises depends on what was sent so far:
`OnlyPackets`, whatever their bodies look like, or `Plain`, junk as well but
the tags only where packets begin.  `Check` is the checksum: with an
empty body it includes a byte of uninitialised memory, hence either verdict.

### ThreadPool, PoolScaling, Pools

`ThreadPool`: create_threads, addJob in its two critical sections
(`ChooseThread`, `PushJob`), the worker loop, stop.  A thread runs as soon as it
is created, before its mutex and condition variable are initialised; if it
waits already, the later init_cond makes the condition variable forget it
(`"orphan"`).  This is the outcome with glibc, whose pthread_cond_init resets
the count of waiters; a thread that has not yet begun to wait is unharmed.

`PoolScaling` is the other mode: the managing thread samples how many jobs wait
(`Sample`, any of `Samples`), compares with the last sample in `unsigned int`
arithmetic (`Word`), and raises or lowers `m_working_num` and the flags; workers
test their flag (`LoopTop`, without a lock, `Test` with it) and park.  Nothing
in src/ starts the pool this way, but it is the reason the pool is as it is.
The two look at the pool in different detail, the order of jobs in one and the
flags in the other, and share no step; `Pools` is start's choice between them.

### NodeRegistry

Everything runs on the event thread.  The loops over nodes (a push of the
router, a cron pass) take one step per node under `pc = "push"` or `"check"`.
`up` is the environment: which nodes accept connections; connections fail
whenever they like.  `note` is the message the step gives to the application.
Node sets are restricted to configured service types, since
srvinfoBroadcast ignores the others; the order of a list does not matter to
any property, so a loop takes its nodes in any order.  Heartbeats are not
shown: heartBeat only queues a message.

### Handshake

Several processes, each with its nodes, its `m_conns` (in order) and its end of
each TCP connection (`link`: the state of both ends, the label the acceptor
gave, what travels in either direction, the dialler's queue).  `Step` is a
handler of an event thread; `Flush` lets one message of a queue go; `Cut`
breaks a connection.  Messages are requests and answers of the handshake, and
a request of an application with its reply, which the acceptor's handler sends
to the label it was given.  `got` records what handlers were told.

### EventLoop

The event thread's place in NetManager::loop, libevent's loop and serverCron;
the workers' places in addTimer and stop.  `m_lock` of Timer is a read-write
lock that prefers nobody.  A callback adds no timer (it would wait for itself).
`Process` has two instances: stop called on the event thread only (`Loop`, for
the liveness properties), and by workers as well (`Threads`).

### Lifecycle

Processes with ids that are used again, the command each was started with, the
pid file, who listens on which port.  `HandlerSignal` kills what the file names;
`Dies` is when the kill takes effect; `Crash` and `Foreign` (another program
gets the id) are the environment.  There is no truncation and no removal of the
pid file, as in the code.

### ConfigFile

A file is a sequence of characters, read with fgets into a buffer of `BufLen`;
`ParseLine` and `TrimSpace` work on that buffer; `CutToken` is one round of the
loop that cuts the list of service types in place.  `Files` are the files there
may be: any set of sequences over `Chars` for the proofs, short ones for TLC.
For a key that is nothing but carriage returns `_TrimSpace` reads in front of
its buffer (`ConfigFileReader.cpp:153`) before it returns NULL; the model has the
NULL and not what those reads may hit.

### HttpParser, HttpMessages, HttpSplit, HttpUrl, Http

The parser's bytes are lexemes (see the module's head); `Execute` is one
call's next character, `Enter` and `Leave` its beginning and end, where the
marks are set and reported, and `Pause` the callbacks' http_parser_pause.  The
module is a function of a parser record, so that HttpSplit can run two of them.
Where the code's tests come one after the other, the model's CASE has guards
that exclude each other, or it is an IF: a CASE two of whose guards hold may
take either.

`HttpUrl` reads a URL that grows while it is scanned (`Scan`); when it ends
(`ScanEnds`) the second scan runs over its host (`HostScan`), and `End` makes the
checks behind both.  `s` and `hs` are the states of the two scans, `field` is
field_data, and a field is in field_set when its length is not 0.  strtoul reads
one character behind the URL, any there may be.  `Http` puts `HttpSplit` and
`HttpUrl` side by side.

### ReplyReader, CommandFormat, RedisClient

`ReplyReader` keeps the reader's buffer, cursor and task stack as they are, fed
with pieces of any size; `reply` are the objects made so far, by their place.
`CommandFormat` reads a format character by character; `%b`'s pointer and size
count as one argument, and what printf prints is the argument's text.
`RedisClient` is the sequence of system calls of connect and query, each of
which may fail.

## Runs

| run | shows | bounds |
| --- | --- | --- |
| `send_path` | `Safety` (no use after free, no stale registration, descriptors, queue ownership), one connection per node, half-sent packets stay armed, lost wake-ups only in the three windows, failure is final, each queue is a MessageStream | 2 workers, 1 send each, 1 dialled node, 1 accepting id, 3 connections, 2 descriptors |
| `send_live` | a queued message is eventually taken by the writer, up to failure and `late` | 1 worker, 2 sends, 2 connections |
| `message_ownership` | careful handlers leak nothing, never make write drop the connection or the receiver lose step; one owner per buffer whatever handlers call | 2 careful workers, 2 requests, 3 calls each, 4 buffers, lengths modulo 16; 1 other worker, 3 buffers, a body that wraps |
| `pool` | each job once and in order per thread, no lost wake-up, parked threads get nothing, jobs are eventually handled; with the managing thread addJob's choices are awake, those awake are the first, and its broadcast is not lost | 3 threads, 2 woken, 4 jobs; 4 threads, 1 at first, gradient 1 |
| `parser` | packets whole and in order, at most one behind, buffers fit, room to read; with junk no forged, reordered or doubled packet, in step once in step | 4 packets or pieces of junk, bodies of 0, 2, 5 and 6 bytes, two of them with tags, two kinds of junk, buffer 8, header 4 |
| `parser_skip` | (violated) the comment at TcpServer.cpp:165: the header is found | 2 packets or pieces of junk |
| `registry` | node and connection state agree, callbacks never dangle, no connection leaked, given up only after failures in a row, application told once, every failed node is dialled again or forgotten | router, 2 peers, retry limit 3, 4 connections at a time |
| `registry_router` | (violated) the comment at RouterNode.cpp:96: the router is registered with again | router, 1 peer |
| `handshake` | authenticated before anything else is said, able nodes have answered on the connection they have, messages and replies reach their node; nodes become able once connections stop breaking | 3 nodes in a chain, 4 links, 1 request, 2 breaks |
| `process` | the pid file names the server and stop ends it; every timer runs, its list is still under serverCron, stop on the event thread ends the loop; a Redis query gets its own reply or NULL, no descriptor lost, queries end; the map is what the configuration says, the cutting stays in the value, and the listed services are found | 3 process ids, 3 commands, daemon and HTTP on; 2 workers, 4 timers; 6 queries, 6 failures, 2 sockets; all files of up to 5 characters over 6, and lists of up to 7 characters alone, with a line end and with a second line, buffer 9 |
| `http` | the HTTP parser's assertions hold, and a parser called in pieces ends like one called once; an accepted URL is its fields put together, each of its own characters, with a host where one is needed | 4 beginnings and any 5 of 8 lexemes; all URLs of up to 5 characters over 10, or of up to 9 with a schema |
| `texts`, HTTP messages | what was sent is what the callbacks are told, complete, and nothing after the last message | up to 3 of 11 messages of every framing, cut and paused anywhere |
| `texts`, replies | replies as sent, as soon as they are there, nested as deep as promised; commands fit | 9 streams, pieces of every size, stack of 4 |
| `texts`, commands | a word for each word of the format, the memory computed is the memory written | formats of up to 4 tokens of 9 kinds, and longer ones |

Why the bounds are enough.  `send_path`: three connections on two descriptors
are the least with which a descriptor is reused while another connection is
open and a node is re-dialled once next to an incoming connection; two workers
are the least that contend for `m_lock` with the event thread.  The theorems
have no such bounds.  `message_ownership`: three calls are enough to allocate,
fill and send, or to send, fill again and send again; lengths modulo 16 with a
header of 3 have bodies that fit, that fit only without the header, and that
wrap.  `parser`: the longest packet (10 bytes) exceeds the buffer, needs
storing, extending and completing, and four packets put every pair of
neighbours at every offset of the buffer.  `pool`: one thread more than is
woken, so that a wrong index hits a parked thread, and jobs go round twice.
With the managing thread three threads can be woken one by one and put to sleep again, which
takes the walks past each other (the first walk down meets only threads that
sleep already); `Word` keeps the remainder modulo 100 that 2^32 has, and the two
samples make the trend rise, fall and stay.  `registry`: identities of
connections are reused, so the histories are unbounded; four connections serve
the router, two peers and one being replaced; a limit of three lets a success
come between two failures and the third.  `handshake`: the middle node of the
chain is both acceptor and dialler, and two breaks hit a connection and its
replacement.  `process`: an old server, its successor and the command that
starts it, one of whose ids a stranger may get; two workers and a handler
contend for the timer's lock; a query fails at each call once and is followed
by another on the new connection; files have lines with, without and with two
"=", comments, both line ends, a key that is set again, and lines that fill the
buffer, fill it but for the line end, or do not fit.  `http` and
`texts`: of HTTP the bounds are on the number of lexemes, not on where calls end;
a URL behind "://" has as many characters as one without, so that user, brackets and
port occur with a schema and with CONNECT; replies hold strings whose bytes look
like protocol, and an array one deeper than the stack allows.

`CHECK_DEADLOCK FALSE` is set where the bounded system stops: sends, jobs,
commands or input are used up, or the connection, pool or loop has ended.

Fairness.  `SendPath!Fairness`: handlers of the event thread and the locked
part of a send run to their end (weak); libevent reports every writable socket
in turn, and a connected socket goes on taking bytes (strong, per connection).
Workers need not send, peers need not speak.  Weak fairness on the steps that
take `m_lock` is enough because sends are bounded; with unbounded sends it
would be the fairness of the lock.  `ThreadPool`: each thread is scheduled.
`PoolScaling`: the same, and a mutex is granted to who waits again and again
(strong).  `PacketParser`: the socket is read while it has bytes.
`NodeRegistry`: the timer comes round whatever else happens (strong, since
other handlers disable it for a moment).  `Handshake`: sockets are served,
nodes are announced, the timer runs; nothing obliges connections to break or
applications to send.  `EventLoop` (in `Process`): threads run, and a worker that waits for the write
lock gets it in one of the pauses of a second between two crons (strong).
`Lifecycle`: processes run and signals are delivered.  `RedisClient`: the thread
runs and the server answers or goes away; against a silent server a query has
no time limit, which is a listed hazard.

### Disagreements

Where the code does not do what a comment of the repository says, the module
states what the comment says as a property.  TLC refutes each of them.  Two have
a run of their own, `registry_router` and `parser_skip`, and are the findings of
`PROJECT.json`; the others are below, each with an instance that is enough to
see it (an MC module that extends the module and gives the constants).

| property | the comment | what the code does | instance |
| --- | --- | --- | --- |
| `ThreadPool!StopStopsAllThreads` | ThreadPool.cpp:78 "stop all threads" | stop only sets m_stop; threads that wait for a job or are parked are never signalled | 2 threads, 1 job |
| `PoolScaling!SleepsWithoutJob` | ThreadPool.cpp:126 "check should sleep?" | the look at m_buf is not repeated under the mutex and addJob does not look at m_work: a job stays with a parked thread | 5 threads, 2 at first, gradient 2 |
| `PoolScaling!WorkingIsWakeUpNum` | ThreadPool.h:45 "wake up num" | scaling down counts threads that sleep already | 4 threads, 2 at first, gradient 1 |
| `PoolScaling!NoneParkedAtEnd` | ThreadPool.cpp:78, as above | the last m_work and broadcast come without the mutex, between a worker's test and wait | 4 threads, 2 at first, gradient 1 |
| `PacketParser!LeftoverIsHeader` | TcpServer.cpp:217 "not enough header data" | the short tail of a packet that was set aside is left as well, and the complete packet waits for the next bytes | 2 packets |
| `NodeRegistry!NotificationNamesNode` | RouterNode.cpp:19 "srv_id", :20 "sid" | both are set before there is memory: the notification says 0 | 1 peer |
| `MessageOwnership!DataLenIsBodyLen` | PbBuf.h:74, data_len is the length of the body | body and header are added in 16 bits | a body that wraps |
| `Handshake!LabelNamesSender` | Connection.h:56 "node id" | the dialler sends the acceptor's id, which becomes the label of every connection it accepts; with two diallers sendNode finds the first for both | `Dials = {<<1, 3>>, <<2, 3>>}` |
| `EventLoop!StopEndsLoop` with a worker in `Stoppers` | NetServer.h:34, stop ends the loop | m_stop and the break come between the loop's test and the entry of event_base_dispatch, which clears the break | 1 worker |
| `Lifecycle!RestartServes` | Main.cpp:168 "begin restart" | the old process may still have the port when the new one binds it | 2 process ids |
| `Lifecycle!KillsServersOnly` | Main.cpp:83 "close IMServer fail" | the pid file outlives its server, and its id is killed whoever has it | 2 process ids |
| `ConfigFile!CommentsRemoved` | ConfigFileReader.cpp:77 "remove string start with #" | what is read after the buffer's length of a comment is a line of its own | `BufLen = 4`, files of 6 characters |
| `ConfigFile!UnregisteredIsNull` | NodeMgr.cpp:152 "not regist sid" | the entry of a type nobody implements is not initialised | `Known = {<<"1">>}`, a file that says 1=2 |
| `HttpSplit!ValuesAreVisible` | HttpParser.cpp:440, only visible characters | the search for the end of a header value skips what it does not check | 5 lexemes, one "ctl" |
| `HttpParser!OverflowOnlyAboveLimit` | HttpParser.h:56 "Maximium header size allowed" | the first byte of a call inside a header is counted twice | `MaxHeader = 12` |
| `HttpUrl!PortIsItsField` | HttpParser.cpp:2471 "we've already validated the string" | strtoul reads digits behind the URL's end | URLs of 5 characters |
| `CommandFormat!ArgsConsumed` | hiredis.c:714 "Consume and discard vararg" | conversions are printed from a copy of the list, which is not moved on | formats of 2 tokens |

## Proofs

All theorems are about `Spec` of their module (`ProcessSpec` of `Process`,
`PoolsSpec` of `Pools`, `HttpSpec` of `Http`, and where said an instance's), for every
value of the constants that its named assumption allows; a further
hypothesis is said where there is one.

**SendPath** (`SendPathAssumption`, `NoneIsNoMsg`: the bounds are natural
numbers, each node has a service type, None is none of the other values).

- `SendPathProofs`: `Invariance` (`[]IInv`), `TypeCorrect`, `NoUseAfterFree`
  (TargetsAlive), `NoStaleRegistration` (NoEventOnDeleted), `SearchFindsIt`
  (DescriptorsDistinct), `QueuesHaveOneOwner` (QueuesOwned), `FailureIsFinal`
  (NoRevival).
- its second part: `HalfSentIsArmed`, `NodesHaveOneConnection` (assuming
  `DialledOnly`: nodes this process dials do not dial it),
  `StrandedOnlyInKnownWays`.
- its third part: `StreamsImplemented`: each send queue implements
  `MessageStream`, so messages of a queue leave in order and at most once over
  all the connections that serve it.

The argument.  Safety is not inductive: a connection that is deleted must be
known to be disarmed, which needs that a failed connection is disarmed and
stays so (`FailedDisarmed`, which rests on setState never leaving a failed
state and on the sends not arming one), that only failed connections are
deleted and that the event thread's handler is about the connection it thinks
it is (`EventThreadOK`).  QueuesOwned through the hand-over needs that every
connection caches its queue except the one being replaced (`AllCached`), and
that no two nodes share a connection (`ContextsOK`).  `IInv` is the conjunction;
`Safety` is the part of it that matters, which TLC checks in `send_path`.  On top of it stand three invariants that are
inductive relative to it: `Arming` (while the writer serves a connection, that
connection is armed), `Naming` (who bears a node's id, and where in the
hand-over it gets it) and `Lateness` (a queue with messages is armed, late, or
in somebody's hands).  The refinement needs to know which queues the mapping
can see: unused ones are empty and have sent nothing, and what is unsent is
the packet in hand followed by the queue of its owner.  The proofs have one
lemma per action, on top of lemmas that say what an operation does to the
fields of the connections (`SetEvs`, `SetState`, `Created`, `Closed`, ...).

**MessageOwnership** (`MessageAssumption`).  `MessageOwnershipProofs`:
`TypeCorrect` and `BuffersHaveOneOwner` (OneOwner) for any handler;
`NothingLeaks`, `NothingOverruns`, `ConnectionStaysHealthy` and
`HeadersTellTheLength` under `Careful`.  Ownership is `Unique` (no two messages,
queued ones and out_pkt included, share a buffer) and `AllBacked` (a message
knows its buffer's size); it holds because a copy always empties its source.
For careful handlers the invariant adds that every buffer has an owner, that
what was filled fits, and that what is queued is a whole packet with its length
in the header.

**ThreadPool, PoolScaling, Pools** (`ThreadPoolAssumption`, `PoolsAssumption`).
`ThreadPoolProofs`: `TypeCorrect`, `NobodySleepsOnAJob`, `ParkedGetNothing`,
`SharesAreEven`, `EachJobOnce`.  The index runs through the first
`m_working_num` threads (`Created`, `Indexed`), shares are what its position
says (`Shares`), and a job is in one place on its way through addJob, queue and
handler (`Jobs`).  With the managing thread, `ScalingTypeCorrect`,
`ChosenThreadsAwake`, `AwakeThreadsFirst`, under `GradientFits`: m_gradient is at
most m_min_threads + 1, which ThreadPool::init's defaults, 4 and 10, satisfy.
The threads awake are the first k, with `m_working_num <= k <=
m_working_num + m_gradient` (`Awake`): k may exceed the count (the disagreement
about `WorkingIsWakeUpNum`), but never by more than a walk covers.
`PoolsCorrect` puts them together: all the state properties of the run `pool`,
of its specification.

**HttpParser, HttpSplit** (`SplitAssumption`: the beginnings are sequences,
content_length has room for a digit, and nothing else).  `HttpProofs`, for
any stream of any length, any cuts, any pauses and any answers of the callbacks:

- `PieceAfterPiece`: the parser keeps its types, and none of the assertions of
  http_parser_execute fails - on content_length before a body or a chunk is
  counted down, and on nread after the size of a chunk.  For each state of the
  switch a lemma says that the state's code keeps `Base`: what may be marked
  where (`Marks`), and what is known of content_length (`Lengths`).
- `CutsOnlyOverflow`: if no value holds a control character, the parser that is
  called in pieces and paused makes of the stream what one call makes of it,
  or it reports HPE_HEADER_OVERFLOW.  This is a simulation: `Rel` relates the two
  parsers, one lemma for each state of the switch keeps it (`CaseSame`), and so
  do the count before the switch (`CountedSame`), the end of a call and the
  beginning of the next (`NextCallSame`), and a pause (`PauseSame`).  The two
  agree on everything but the marks and the count; what has been told together
  with what is marked is the same sequence, and the count of the one in pieces
  is never the smaller.
- `CutAnywhere`: if the headers also fit into a fifth of the limit, the cuts make
  no difference (CutsMakeNoDifference, in the run `http`).  A byte
  may be counted again, each time the switch is entered again for it and each
  time a call begins inside a name or a value; `Spent` is the potential that
  bounds it: the count, with the running loop's part (`Eff`), plus the rounds that
  the state may still ask for (`Rank`) stays within five times the position.

Both hypotheses are needed, and both are about what the code does: a cut inside
a value makes the loop's first byte count twice, which decides near the limit
(`OverflowOnlyAboveLimit`, under Disagreements), and a control character in a
value is refused if a call begins with it and passed over by memchr if not
(`ValuesAreVisible`).  The limit is 80 KB, so that headers of up to 16 KB are
safe from the first.

**HttpUrl, Http** (`HttpUrlAssumption`: MaxPort is a natural number).  `HttpProofs`,
for URLs of any length over any characters, with and without CONNECT:

- `UrlInvariance`: the invariant `UrlInv` says where the URL is cut.  The cuts a to k
  bound schema, "://", host, path, query and fragment (`Outer`), and the cuts u to z
  bound user, "@", brackets, host, ":" and port within the host (`Inner`); every field
  is what lies between two of them (`Is`), and the states of the scans say which
  cuts lie at the end of what has been read (`Stage`, `HostStage`).  One lemma for each
  state a scan can go to tells where the cuts are behind the character.
- `UrlFieldsCorrect` (UrlIsItsFields): the pieces between the cuts, put together,
  are the URL (`Glue`), an accepted URL has its cuts where the delimiters are
  (`AcceptedParts`), and each piece holds only characters its states accept
  (`PieceOver`).
- `HttpCorrect` puts this and CutAnywhere together: all that the run `http` checks.

That the port is the number in its field is not a theorem but a disagreement
(`PortIsItsField`); TypeOK bounds the port, whatever strtoul makes of the digits.

**NodeRegistry** (`NodeRegistryAssumption`, `NoneIsNoNote`).
`NodeRegistryProofs`: `TypeCorrect`, `NodesFollowConnections`, `CallbacksAlive`,
`ConnectionsOwned`, `GivenUpAfterRetries`, `FailuresAreTold`.  A connection's
callback names the node it belongs to (`Callbacks`, across re-dials), the
router's node is never failed (`RouterOK`), and m_num counts the failures since
the node was last able (`Counted`).

**PacketParser** (`PacketParserAssumption`).  `PacketParserProofs`:
`TypeCorrect`, `PacketsComeOut` (PacketsIntact), `ParserStaysInStep`
(JunkIsPassedOver), for packets of any number and size, any junk and any cuts.
The parser's buffers hold little of what was sent, so the invariant speaks of
all of it: there are a byte sequence S, a place `pos[k]` in S for each piece
that was sent, and a count c of bytes consumed (`Placed`), such that what was
set aside, what is in the buffer and what is on its way are together the rest of
S.  With `OnlyPackets`, c is the place behind the last packet handed out
(`InStep`); with `Plain`, packets handed out lie before c in their order, what is
set aside begins where a packet does, and a packet that follows one handed out,
and was not handed out itself, begins at c.  `Frames`: what is sent as a packet
has its own number and length in its header.

**Handshake** (`HandshakeAssumption`).  `HandshakeProofs`: `TypeCorrect`,
`AnsweredAndInOrder` (AbleWasAnswered, AuthenticatedFirst: for whoever dials
whom), `HandshakeCorrect` (LinksAreTrue), for any number of nodes, connections,
messages and breaks.  Each connection is followed from request to answer to
label (`Sound`: what either end may still find on it, given the states of both);
`Coupled` and `Listed` relate nodes, connections and `m_conns`.  Replies reach
who asked only when no node is dialled by two others (`OneDialler`, part of the
property itself); then the label names the one dialler, and a reply is only ever
on its connection (`RepliesAreTrue`).

**Process** (`LifecycleAssumption`, `ProcessAssumption`).  `ProcessProofs`:
`TypeCorrect`, `PidFileCorrect` (PidFileNamesServer), `ListStaysStill`
(ListIsStill), `QueriesAreSafe` (QueriesSafe), `ConfigIsTheFile` (ConfigIsFile),
with and without daemon and HTTP, for any number of processes, workers, timers,
queries and failures, and any files, keys, buffer length and service types.  Among
processes the ports are the lock: whoever gets as far as the pid file listens,
and so does whoever serves (`Listens`).  In a process m_lock of Timer has one
writer or readers, and serverCron's iterator is only there while it reads.  The
queries' invariant says in which places of query and connect a socket is owned,
and of which command, by its number, the bytes in the output buffer, at the
server and in the reader can be.  For the configuration the invariant says that
between two reads of fgets `pos` is at a line's beginning or end and the map
holds the settings of the lines before it (`Loading`, if all lines fit the
buffer), and that values have no blank at either end (`MapOK`); so a blank in
the list always has a word behind it, the cursor does not pass the terminator,
and the tokens are the words that begin before the cursor (`Cutting`).  What
Find and _TrimSpace return is proved from the fact that a set of naturals that
is not empty has a least element (`MinOfIs`), which the library's
WellFoundedInduction gives.

Only model-checked:

- Liveness (Delivery, EventuallyHandled, OneBehind, FailedIsDealtWith,
  NoLostWakeUp, EventuallyAble, StopEndsServer, and NothingHangs, whose other
  parts are TimersRun, StopEndsLoop and QueryEnds): the prover has no rules for
  fairness and ENABLED.
- `AnyOneOwner` of `MCMessageOwnership` is OneOwner of two instances of
  `MessageOwnership` with different constants.  That any instance has it is
  `BuffersHaveOneOwner`.
- `CommandsAsMeant`: CommandFormat needs a RECURSIVE operator (the number of
  digits of a length), and `RepliesAsSent`: what ReplyReader makes of a stream is
  compared with an encoding that is defined along arrays within arrays.  Both
  need induction over data, which the prover cannot do.
- `MessagesAsSent`: what HttpParser tells of well-formed messages, which is
  defined along the messages' encoding.  That it does not depend on where calls
  end is `CutAnywhere`.

## Not modelled

`PROJECT.json` gives the reason for each component; in short: ConnNode, DbNode
and StateNode (a constant each), the table of protocol handlers (filled once),
HttpServer (its handlers are empty: nothing reads from an HTTP connection),
when heartbeats are sent, available() and close_connect (nobody calls them),
the races on m_conns and on the configuration's strings (one memory access,
with nothing to say about its outcome), failed allocations, the parsing of
command-line options, logging and status, Unix sockets and the non-blocking
mode of hiredis, and vendored code that nothing uses.

## Plan

Done: every component with a state of its own, and proofs for all modules but
ReplyReader, CommandFormat and HttpMessages.  What would come next:

1. SendPath driven by NodeRegistry: one module in which the cron decides which
   node is dialled again, so that a node's queue is followed from its first
   message to the giving up of the node.
2. CommandFormat with a function in place of the recursion, and a proof that goes
   by the least counterexample, as `MinOfIs` makes possible; and the cuts of
   HttpUrl's invariant, used for the lexemes of one well-formed message.
