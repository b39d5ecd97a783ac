--------------------------- MODULE MessageStream ---------------------------
(***************************************************************************)
(* What one send queue promises to the code that pushes messages on it,    *)
(* whatever the number of connections that serve the queue one after the   *)
(* other: messages leave in the order they were accepted, each at most     *)
(* once; a message may be lost only as the head of the queue (the packet   *)
(* that was being written when a connection was replaced) or with the      *)
(* whole queue (the connection is closed for good).                        *)
(***************************************************************************)
EXTENDS Sequences

CONSTANT Msg

VARIABLES
  pending,    \* accepted, not yet written to a socket
  delivered,  \* completely written to a socket, oldest first
  open        \* FALSE before the queue exists and after it is deleted

streamVars == <<pending, delivered, open>>

StreamInit ==
  /\ pending = <<>>
  /\ delivered = <<>>
  /\ open = FALSE

Open ==
  /\ ~open /\ pending = <<>> /\ delivered = <<>>
  /\ open' = TRUE
  /\ UNCHANGED <<pending, delivered>>

Accept(m) ==
  /\ open
  /\ pending' = Append(pending, m)
  /\ UNCHANGED <<delivered, open>>

Deliver ==
  /\ open
  /\ pending # <<>>
  /\ delivered' = Append(delivered, Head(pending))
  /\ pending' = Tail(pending)
  /\ UNCHANGED open

Lose ==
  /\ open
  /\ pending # <<>>
  /\ pending' = Tail(pending)
  /\ UNCHANGED <<delivered, open>>

Discard ==
  /\ open
  /\ open' = FALSE
  /\ pending' = <<>>
  /\ UNCHANGED delivered

StreamNext ==
  \/ Open
  \/ \E m \in Msg : Accept(m)
  \/ Deliver
  \/ Lose
  \/ Discard

StreamSpec == StreamInit /\ [][StreamNext]_streamVars
=============================================================================
