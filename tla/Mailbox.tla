------------------------------ MODULE Mailbox ------------------------------
(***************************************************************************)
(* What srt_queue promises to the threads that post and to the one thread  *)
(* that pops (mqueue.h:31-32): the messages come out in one order, each    *)
(* once, none invented, and a post is turned away when the box is full.    *)
(***************************************************************************)
EXTENDS Naturals, Sequences

CONSTANTS
  Message,   \* the messages that can be posted
  Room       \* how many posted messages may wait at once

VARIABLES
  posted,    \* the messages accepted, in the order they were accepted
  taken      \* the messages that came out, in the order they came out

MailboxInit == posted = << >> /\ taken = << >>

Post(m) ==
  /\ Len(posted) - Len(taken) < Room
  /\ posted' = Append(posted, m)
  /\ UNCHANGED taken

Take ==
  /\ Len(taken) < Len(posted)
  /\ taken' = Append(taken, posted[Len(taken) + 1])
  /\ UNCHANGED posted

MailboxNext == Take \/ \E m \in Message : Post(m)

MailboxSpec == MailboxInit /\ [][MailboxNext]_<<posted, taken>>
=============================================================================
