----------------------------- MODULE Transport -----------------------------
(***************************************************************************)
(* The TCP connection of one dbisam::Client: a blocking socket on which    *)
(* every call of the client is send_recv (write one framed request, read   *)
(* one framed reply).  Requests and replies are FIFO.  A reply carries no  *)
(* request number on the wire; the id below is a ghost that lets the       *)
(* properties say which request a reply answers.                           *)
(*                                                                         *)
(* link: "up"    both directions work;                                     *)
(*       "fin"   the peer closed: replies already sent can still be read;  *)
(*       "reset" the peer answered a write with RST: reads and writes fail;*)
(*       "torn"  a receive timed out inside a message: what is read next   *)
(*               never starts with the envelope GUID again;                *)
(*       "down"  ~Transport closed the descriptor.                         *)
(***************************************************************************)
EXTENDS Naturals, Sequences

CONSTANT LinkFaults     \* the faults the network may show in this model

ASSUME LinkFaultsAssumption == LinkFaults \subseteq {"timeout", "torn", "disconnect"}

VARIABLES
    log,        \* kinds of the requests written so far, oldest first (see ReceiveForgetting)
    handled,    \* how many of them the server has answered
    replies,    \* replies the server wrote and the client has not read
    link

netVars == <<log, handled, replies, link>>

NetInit ==
    /\ log = <<>>
    /\ handled = 0
    /\ replies = <<>>
    /\ link = "up"

(***************************************************************************)
(* The client's half of send_recv.                                         *)
(***************************************************************************)

\* write_all succeeds.  Writing to a peer that has closed is accepted by the
\* kernel, and draws the RST that discards what was still to be read.
Send(kind) ==
    /\ link \in {"up", "fin", "torn"}
    /\ log' = Append(log, kind)
    /\ IF link = "fin" THEN link' = "reset" /\ replies' = <<>>
                       ELSE UNCHANGED <<link, replies>>
    /\ UNCHANGED handled

\* write_all finds the connection reset: an IoError when the process ignores
\* SIGPIPE, the death of the process when it does not (send has flags 0).
SendBroken ==
    /\ link = "reset"
    /\ UNCHANGED netVars

\* recv_msg returns the oldest unread reply, whichever request it answers.
Answer == Head(replies)

Receive ==
    /\ link \in {"up", "fin"}
    /\ replies # <<>>
    /\ replies' = Tail(replies)
    /\ UNCHANGED <<log, handled, link>>

\* The same, but the last request and its reply leave no trace if nothing else
\* is unread: a loop that may go round for ever keeps a finite history.
ReceiveForgetting ==
    /\ link \in {"up", "fin"}
    /\ replies # <<>>
    /\ replies' = Tail(replies)
    /\ IF Len(replies) = 1 /\ handled = Len(log)
       THEN log' = SubSeq(log, 1, Len(log) - 1) /\ handled' = handled - 1
       ELSE UNCHANGED <<log, handled>>
    /\ UNCHANGED link

\* recv_msg throws: SO_RCVTIMEO expired before or inside the reply, the peer
\* closed, or the bytes do not start with the envelope GUID.  The socket is
\* left as it is: nothing marks it unusable.
ReceiveFails ==
    /\ \/ /\ link = "up" /\ replies = <<>>
          /\ \/ "timeout" \in LinkFaults /\ link' = "up"
             \/ "torn" \in LinkFaults /\ link' = "torn"
       \/ /\ link = "fin" /\ replies = <<>>
          /\ UNCHANGED link
       \/ /\ link \in {"reset", "torn"}
          /\ UNCHANGED link
    /\ UNCHANGED <<log, handled, replies>>

CloseSocket ==
    /\ link' = "down"
    /\ UNCHANGED <<log, handled, replies>>

(***************************************************************************)
(* The peer's half.                                                        *)
(***************************************************************************)

Pending == link \in {"up", "torn"} /\ handled < Len(log)

\* The server answers its oldest unanswered request.
Reply(status, rows) ==
    /\ Pending
    /\ handled' = handled + 1
    /\ replies' = Append(replies, [id |-> handled + 1, status |-> status, rows |-> rows])
    /\ UNCHANGED <<log, link>>

\* The server, or the network between, goes away.
Disconnect ==
    /\ "disconnect" \in LinkFaults
    /\ link = "up"
    /\ link' = "fin"
    /\ UNCHANGED <<log, handled, replies>>

=============================================================================
