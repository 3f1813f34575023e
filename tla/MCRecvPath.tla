----------------------------- MODULE MCRecvPath -----------------------------
(* Small instances of RecvPath.tla, where reads come in, and of              *)
(* Heartbeat.tla, of when they come.  The two share nothing; the first state *)
(* says which of them a behaviour is of.                                     *)
EXTENDS RecvPath, Heartbeat

\* A head is one byte, the buffer six: frames up to half of it and one more,
\* the heartbeat (a head alone) among them.
FittingFrames == {1, 2, 4}

VARIABLE which

vars == <<recvVars, beatVars, which>>

IncomingInit ==
  /\ which \in {"recv", "beat"} /\ RecvInit /\ BeatInit
  /\ which = "beat" => side = "client" /\ ~refuses /\ frame = 1

IncomingNext ==
  \/ which = "recv" /\ RecvNext /\ UNCHANGED <<beatVars, which>>
  \/ which = "beat" /\ BeatNext /\ UNCHANGED <<recvVars, which>>

IncomingSpec == IncomingInit /\ [][IncomingNext]_vars
=============================================================================
