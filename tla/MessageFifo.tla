---------------------------- MODULE MessageFifo ----------------------------
(***************************************************************************)
(* What the send cache of a connection promises its callers: a bounded     *)
(* first-in first-out queue of messages.  A message is put once, stays in  *)
(* place behind the messages put before it, and leaves only from the head. *)
(* send_cell implements it as long as its ring is never overrun (see       *)
(* SendCell.tla).                                                          *)
(***************************************************************************)
EXTENDS Naturals, Sequences

CONSTANTS
  Message,   \* the messages that can be put
  Limit      \* how many messages the queue holds at most

VARIABLE queue

Init == queue = << >>

Put(m) ==
  /\ Len(queue) < Limit
  /\ queue' = Append(queue, m)

Get ==
  /\ queue # << >>
  /\ queue' = Tail(queue)

Next == Get \/ \E m \in Message : Put(m)

Spec == Init /\ [][Next]_queue
=============================================================================
