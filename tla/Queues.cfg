SPECIFICATION QueuesSpec
CONSTANTS
  Writers = {w1}
  sendCellSize = 4
  Short = Short
  Long = Long
  Message <- MCMessage
  Units <- MCUnits
  NULL = NULL
  Wild = Wild
  InitialSlot = NULL
  Pushers = {p1, p2}
  Pushes = 3
  PageMsgs = 2
  Pages = 2
  Reader = r
  Null = Null
  Authors = {p1, p2, p3}
  Total = 4
  RowMsgs = 1
  FirstRows = 1
  Getter = r
  Nil = Nil
INVARIANTS
  RingInv
  NoLeak
  NoDeadPage
PROPERTIES
  ClearTerminates
  KeepsMailbox
  EveryMessagePopped
  StrayWays
  NeverRemoved
  GetFinds
\* The pushers stop after Pushes calls, a thread that strayed ends all.
CHECK_DEADLOCK FALSE
