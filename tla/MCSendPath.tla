----------------------------- MODULE MCSendPath -----------------------------
(* Small instances of SendPath.tla.                                        *)
EXTENDS SendPath

CONSTANTS a1, mgr, start, hb

\* The first message of a thread may need two writes.
MCUnits(m) == IF m # hb /\ m[2] = 1 THEN 2 ELSE 1

OneMessage == [t \in {a1, mgr} |-> IF t = a1 THEN 1 ELSE 0]
TwoMessages == [t \in {a1, mgr} |-> IF t = a1 THEN 2 ELSE 0]
ThreeReplies == [t \in {mgr} |-> 3]

MCMessage == AppMessage \cup {hb}

\* A thread needs less than heartBeatTime (15 s) for one call: a heartbeat timer
\* does not expire while a thread is inside deliver.  Without this a writer
\* that sleeps between fetch_add and the store lets heartbeats pile up behind
\* its slot until the ring is overrun.
PromptThreads ==
  sendFired' > sendFired => \A t \in Threads : pc[t] \in {"idle", "arm", "read"}

PromptSpec == PathInit /\ [][PathNext /\ PromptThreads]_pathVars

PromptFairSpec == PromptSpec /\ PathFairness
=============================================================================
