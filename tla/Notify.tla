------------------------------- MODULE Notify -------------------------------
(***************************************************************************)
(* What tCliNotify (client.h) is promised about one connection: messages   *)
(* while it is open, then OnDisconnect, called once, and silence           *)
(* afterwards.  Calls are counted, so that one call too many is a step     *)
(* this specification does not allow.                                      *)
(***************************************************************************)
EXTENDS Naturals

VARIABLES
  talk,        \* "silent" before start, then "open", then "closed"
  messages,    \* calls of OnRecvData
  farewells    \* calls of OnDisconnect

notifyVars == << talk, messages, farewells >>

NotifyInit == talk = "silent" /\ messages = 0 /\ farewells = 0

Open == talk = "silent" /\ talk' = "open" /\ UNCHANGED << messages, farewells >>

OnRecvData ==
  talk = "open" /\ messages' = messages + 1 /\ UNCHANGED << talk, farewells >>

OnDisconnect ==
  talk = "open" /\ talk' = "closed" /\ farewells' = farewells + 1 /\ UNCHANGED messages

NotifyNext == Open \/ OnRecvData \/ OnDisconnect

NotifySpec == NotifyInit /\ [][NotifyNext]_notifyVars
=============================================================================
