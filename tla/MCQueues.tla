------------------------------ MODULE MCQueues ------------------------------
(* Small instances of the library's three queues: the ring of SendCell.tla   *)
(* with one writer, SrtQueue.tla and DrbQueue.tla.  They share nothing; the  *)
(* first state says which of them a behaviour is of.                         *)
EXTENDS SendCell, SrtQueue, DrbQueue

\* One message that leaves in a single write and one that may need two.
CONSTANTS Short, Long
MCMessage == {Short, Long}
MCUnits(m) == IF m = Long THEN 2 ELSE 1

VARIABLE which

vars == <<cellVars, srtVars, drbVars, which>>

CellAlone == which = "cell" /\ UNCHANGED <<srtVars, drbVars, which>>
SrtAlone == which = "srt" /\ UNCHANGED <<cellVars, drbVars, which>>
DrbAlone == which = "drb" /\ UNCHANGED <<cellVars, srtVars, which>>

QueuesInit == which \in {"cell", "srt", "drb"} /\ CellInit /\ SrtInit /\ DrbInit

QueuesNext ==
  \/ CellAlone /\ CellNext
  \/ SrtAlone /\ SrtNext
  \/ DrbAlone /\ DrbNext

(* The fairness of FairCellSpec and of FairSrtSpec, each for its own queue.  *)
QueuesFairness ==
  /\ WF_vars(CellAlone /\ (ClearOne \/ ClearDone))
  /\ \A p \in Pushers : WF_vars(SrtAlone /\ (Push(p) \/ GetMsgPage(p)))
  /\ WF_vars(SrtAlone /\ (Pop \/ GetMsgPage(Reader)))

QueuesSpec == QueuesInit /\ [][QueuesNext]_vars /\ QueuesFairness
=============================================================================
