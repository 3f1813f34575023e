------------------------------ MODULE SendCell ------------------------------
(***************************************************************************)
(* send_cell (tcp_common/send_cell.h, send_cell.cpp): the send cache of a  *)
(* session or client.  A ring of pointers to heap-allocated cells, written *)
(* by any number of threads (write_chche) and read by one (enable_read,    *)
(* read_chche, has_read).  There is no lock: a writer claims a position    *)
(* with fetch_add, then stores its cell, then sets the cell's enableRead.  *)
(*                                                                         *)
(* m_write_pos and m_read_pos are uint64 counters.  Every expression of    *)
(* send_cell.cpp takes them modulo sendCellSize, a divisor of 2^64, so the *)
(* model keeps the remainders; the wrap of the counters loses nothing.     *)
(*                                                                         *)
(* Each step below touches shared memory once, except where the code's     *)
(* neighbouring accesses are invisible to the other threads.               *)
(***************************************************************************)
EXTENDS Naturals, Sequences

CONSTANTS
  Writers,       \* the threads that call write_chche
  sendCellSize,  \* the number of slots (65536 in common.h)
  Message,       \* the messages the writers may deliver
  Units(_),      \* how many pieces a message is cut into by partial writes
  NULL,          \* the null pointer
  Wild,          \* the value of a slot nobody has written since allocation
  InitialSlot    \* what the allocator left in the slots: NULL or Wild

Slots == 0 .. sendCellSize - 1

\* A send_cell_unit: what is left of its message and its enableRead flag.
\* A pointer and the cell it points to are one value: each cell is reachable
\* from one slot only.
Cell == [msg : Message, left : Nat, enableRead : BOOLEAN]

ASSUME SizeAssumption == sendCellSize \in Nat /\ sendCellSize >= 2
ASSUME UnitsAssumption == \A m \in Message : Units(m) \in Nat /\ Units(m) >= 1
ASSUME SlotAssumption == InitialSlot \in {NULL, Wild}
ASSUME PointerAssumption == NULL \notin Cell /\ Wild \notin Cell

VARIABLES
  m_write_pos,  \* next position a writer claims (mod sendCellSize)
  m_read_pos,   \* position of the head of the queue (mod sendCellSize)
  m_scu_ptr,    \* the slots: a cell, NULL or Wild
  wpc,          \* where each writer is inside write_chche
  wmsg,         \* the message each writer is delivering
  wload,        \* the m_write_pos a writer loaded in is_full
  wclaim,       \* the slot a writer got from fetch_add
  rpc,          \* where the reader is inside has_read
  rclear,       \* the slot has_read is freeing
  phase         \* "live", "clearing" (the destructor runs) or "gone"

posVars    == << m_write_pos, m_read_pos, m_scu_ptr >>
writerVars == << wpc, wmsg, wload, wclaim >>
readerVars == << rpc, rclear >>
cellVars   == << posVars, writerVars, readerVars, phase >>

\* Fault: the remainder is forgotten.
SuccNoWrap(i) == i + 1

\* (i + 1) % sendCellSize, for an i that is already a remainder.
Succ(i) == IF i = sendCellSize - 1 THEN 0 ELSE i + 1

IsCell(v) == v # NULL /\ v # Wild

CellInit ==
  /\ m_write_pos = 0
  /\ m_read_pos = 0
  /\ m_scu_ptr = [i \in Slots |-> InitialSlot]
  /\ wpc = [t \in Writers |-> "idle"]
  /\ wmsg = [t \in Writers |-> NULL]
  /\ wload = [t \in Writers |-> 0]
  /\ wclaim = [t \in Writers |-> 0]
  /\ rpc = "ready"
  /\ rclear = 0
  /\ phase = "live"

is_empty == m_write_pos = m_read_pos

\* enable_read.  A claimed slot nobody has stored to yet reads as NULL, or,
\* on the first lap over unzeroed memory, as Wild; dereferencing Wild is
\* undefined (see NoWildRead) and taken here as "nothing to read".
enable_read ==
  /\ ~is_empty
  /\ IsCell(m_scu_ptr[m_read_pos])
  /\ m_scu_ptr[m_read_pos].enableRead

-----------------------------------------------------------------------------
(* write_chche, called by thread t.                                        *)

\* The call, and the first load of is_full.
WriteBegin(t, m) ==
  /\ wpc[t] \in {"idle", "full"}
  /\ wpc' = [wpc EXCEPT ![t] = "is_full"]
  /\ wmsg' = [wmsg EXCEPT ![t] = m]
  /\ wload' = [wload EXCEPT ![t] = m_write_pos]
  /\ UNCHANGED << posVars, wclaim, readerVars, phase >>

\* Fault: is_full is not consulted.
IsFullIgnored(t) ==
  /\ wpc[t] = "is_full"
  /\ wpc' = [wpc EXCEPT ![t] = "claim"]
  /\ wload' = [wload EXCEPT ![t] = 0]
  /\ UNCHANGED << posVars, wmsg, wclaim, readerVars, phase >>

\* The second load of is_full and the early return when the cache is full.
IsFull(t) ==
  /\ wpc[t] = "is_full"
  /\ wpc' = [wpc EXCEPT ![t] = IF Succ(wload[t]) = m_read_pos
                               THEN "full" ELSE "claim"]
  /\ wload' = [wload EXCEPT ![t] = 0]
  /\ UNCHANGED << posVars, wmsg, wclaim, readerVars, phase >>

\* Faults: the position after the increment is used; the position is loaded
\* and the increment left to somebody else.
ClaimAddFetch(t) ==
  /\ wpc[t] = "claim"
  /\ wpc' = [wpc EXCEPT ![t] = "store"]
  /\ wclaim' = [wclaim EXCEPT ![t] = Succ(m_write_pos)]
  /\ m_write_pos' = Succ(m_write_pos)
  /\ UNCHANGED << m_read_pos, m_scu_ptr, wmsg, wload, readerVars, phase >>

ClaimNoAdd(t) ==
  /\ wpc[t] = "claim"
  /\ wpc' = [wpc EXCEPT ![t] = "store"]
  /\ wclaim' = [wclaim EXCEPT ![t] = m_write_pos]
  /\ UNCHANGED << posVars, wmsg, wload, readerVars, phase >>

\* m_write_pos.fetch_add(1) % sendCellSize, after the cell was built.
Claim(t) ==
  /\ wpc[t] = "claim"
  /\ wpc' = [wpc EXCEPT ![t] = "store"]
  /\ wclaim' = [wclaim EXCEPT ![t] = m_write_pos]
  /\ m_write_pos' = Succ(m_write_pos)
  /\ UNCHANGED << m_read_pos, m_scu_ptr, wmsg, wload, readerVars, phase >>

\* m_scu_ptr[wpos] = sc: whatever the slot held is no longer reachable.
Store(t) ==
  /\ wpc[t] = "store"
  /\ wpc' = [wpc EXCEPT ![t] = "enable"]
  /\ m_scu_ptr' = [m_scu_ptr EXCEPT ![wclaim[t]] =
       [msg |-> wmsg[t], left |-> Units(wmsg[t]), enableRead |-> FALSE]]
  /\ UNCHANGED << m_write_pos, m_read_pos, wmsg, wload, wclaim, readerVars,
                  phase >>

\* m_scu_ptr[wpos]->enableRead = 1, through the slot: a null pointer faults.
Enable(t) ==
  /\ wpc[t] = "enable"
  /\ IF IsCell(m_scu_ptr[wclaim[t]])
     THEN /\ wpc' = [wpc EXCEPT ![t] = "ok"]
          /\ m_scu_ptr' = [m_scu_ptr EXCEPT ![wclaim[t]].enableRead = TRUE]
     ELSE /\ wpc' = [wpc EXCEPT ![t] = "fault"]
          /\ UNCHANGED m_scu_ptr
  /\ UNCHANGED << m_write_pos, m_read_pos, wmsg, wload, wclaim, readerVars,
                  phase >>

WriteStep(t) == IsFull(t) \/ Claim(t) \/ Store(t) \/ Enable(t)

\* The caller takes the result ("ok" or "full").
WriteReturn(t) ==
  /\ wpc[t] \in {"ok", "full"}
  /\ wpc' = [wpc EXCEPT ![t] = "idle"]
  /\ wmsg' = [wmsg EXCEPT ![t] = NULL]
  /\ wclaim' = [wclaim EXCEPT ![t] = 0]
  /\ UNCHANGED << posVars, wload, readerVars, phase >>

-----------------------------------------------------------------------------
(* has_read, called by the one reader for the cell enable_read showed it.  *)

\* Fault: a cell that was sent in part is taken for finished.
HasReadWhole(len) ==
  /\ rpc = "ready"
  /\ IsCell(m_scu_ptr[m_read_pos])
  /\ m_scu_ptr' = [m_scu_ptr EXCEPT
       ![m_read_pos] = [@ EXCEPT !.left = 0, !.enableRead = FALSE]]
  /\ rclear' = m_read_pos
  /\ m_read_pos' = Succ(m_read_pos)
  /\ rpc' = "clear"
  /\ UNCHANGED << m_write_pos, writerVars, phase >>

\* Fault: the read position moves on only while another cell waits.
HasReadLags(len) ==
  LET head == m_scu_ptr[m_read_pos] IN
  /\ rpc = "ready"
  /\ IsCell(head)
  /\ IF len < head.left
     THEN m_scu_ptr' = [m_scu_ptr EXCEPT ![m_read_pos].left = @ - len]
          /\ UNCHANGED << m_read_pos, readerVars >>
     ELSE IF Succ(m_read_pos) = m_write_pos
     THEN UNCHANGED << m_scu_ptr, m_read_pos, readerVars >>
     ELSE /\ m_scu_ptr' = [m_scu_ptr EXCEPT
               ![m_read_pos] = [@ EXCEPT !.left = 0, !.enableRead = FALSE]]
          /\ rclear' = m_read_pos
          /\ m_read_pos' = Succ(m_read_pos)
          /\ rpc' = "clear"
  /\ UNCHANGED << m_write_pos, writerVars, phase >>

\* sendPos += len; when the cell is finished, enableRead = 0 and the read
\* position moves on: from here on is_full may let a writer pass.
HasRead(len) ==
  LET head == m_scu_ptr[m_read_pos] IN
  /\ rpc = "ready"
  /\ IsCell(head)
  /\ IF len < head.left
     THEN /\ m_scu_ptr' = [m_scu_ptr EXCEPT ![m_read_pos].left = @ - len]
          /\ UNCHANGED << m_read_pos, readerVars >>
     ELSE /\ m_scu_ptr' = [m_scu_ptr EXCEPT
               ![m_read_pos] = [@ EXCEPT !.left = 0, !.enableRead = FALSE]]
          /\ rclear' = m_read_pos
          /\ m_read_pos' = Succ(m_read_pos)
          /\ rpc' = "clear"
  /\ UNCHANGED << m_write_pos, writerVars, phase >>

\* Fault: the slot keeps its pointer.
HasReadKeepsPtr ==
  /\ rpc = "clear"
  /\ rpc' = "ready"
  /\ rclear' = 0
  /\ UNCHANGED << posVars, writerVars, phase >>

\* delete the cell found in the slot (again through the slot), then null it.
HasReadClear ==
  /\ rpc = "clear"
  /\ m_scu_ptr' = [m_scu_ptr EXCEPT ![rclear] = NULL]
  /\ rpc' = "ready"
  /\ rclear' = 0
  /\ UNCHANGED << m_write_pos, m_read_pos, writerVars, phase >>

-----------------------------------------------------------------------------
(* ~send_cell -> clear, once no other thread is inside.                    *)

ClearBegin ==
  /\ phase = "live"
  /\ rpc = "ready"
  /\ \A t \in Writers : wpc[t] = "idle"
  /\ phase' = "clearing"
  /\ UNCHANGED << posVars, writerVars, readerVars >>

\* Fault: m_read_pos++ is forgotten.
ClearOneStays ==
  /\ phase = "clearing"
  /\ ~is_empty
  /\ m_scu_ptr[m_read_pos] # NULL
  /\ m_scu_ptr' = [m_scu_ptr EXCEPT ![m_read_pos] = NULL]
  /\ UNCHANGED << m_write_pos, m_read_pos, writerVars, readerVars, phase >>

\* One turn of the loop.  A slot that holds no cell makes the loop spin.
ClearOne ==
  /\ phase = "clearing"
  /\ ~is_empty
  /\ m_scu_ptr[m_read_pos] # NULL
  /\ m_scu_ptr' = [m_scu_ptr EXCEPT ![m_read_pos] = NULL]
  /\ m_read_pos' = Succ(m_read_pos)
  /\ UNCHANGED << m_write_pos, writerVars, readerVars, phase >>

ClearDone ==
  /\ phase = "clearing"
  /\ is_empty
  /\ phase' = "gone"
  /\ UNCHANGED << posVars, writerVars, readerVars >>

-----------------------------------------------------------------------------
(* The ring on its own: writers that call write_chche again and again, one *)
(* reader that polls enable_read, and the destructor at any quiet moment.  *)

Write(t) ==
  /\ phase = "live"
  /\ \/ \E m \in Message : WriteBegin(t, m)
     \/ WriteStep(t)
     \/ WriteReturn(t)

Read ==
  /\ phase = "live"
  /\ \/ enable_read /\ \E len \in 1 .. m_scu_ptr[m_read_pos].left : HasRead(len)
     \/ HasReadClear

Clear == ClearBegin \/ ClearOne \/ ClearDone

CellNext == Read \/ Clear \/ \E t \in Writers : Write(t)

CellSpec == CellInit /\ [][CellNext]_cellVars

\* The destructor's loop runs on; nothing is assumed of writers and reader.
FairCellSpec == CellSpec /\ WF_cellVars(ClearOne \/ ClearDone)

-----------------------------------------------------------------------------
(* Properties.                                                             *)

CellTypeOK ==
  /\ m_write_pos \in Slots
  /\ m_read_pos \in Slots
  /\ m_scu_ptr \in [Slots -> Cell \cup {NULL, Wild}]
  /\ wpc \in [Writers -> {"idle", "is_full", "claim", "store", "enable",
                          "ok", "full", "fault"}]
  /\ wmsg \in [Writers -> Message \cup {NULL}]
  /\ \A t \in Writers :
       wpc[t] \in {"is_full", "claim", "store", "enable"} => wmsg[t] \in Message
  /\ wload \in [Writers -> Slots]
  /\ wclaim \in [Writers -> Slots]
  /\ rpc \in {"ready", "clear"}
  /\ rclear \in Slots
  /\ phase \in {"live", "clearing", "gone"}

\* The slot a writer claimed is its own until the cell is readable: when the
\* writer stores, the slot holds no cell (neither one still to be sent nor one
\* has_read is freeing), and when it sets enableRead the slot still holds the
\* cell it stored.  write_chche has only the is_full check, made before the
\* fetch_add, to ensure it: enough for one writer, not for the several that
\* send_cell.h:35 promises, who may all pass for the last free slot.
NoOverwrite ==
  \A t \in Writers :
    LET v == m_scu_ptr[wclaim[t]] IN
    /\ wpc[t] = "store" => ~IsCell(v)
    /\ wpc[t] = "enable" => IsCell(v) /\ v.msg = wmsg[t] /\ ~v.enableRead

\* The slots from the read position up to the write position.
InQueue(p) == IF m_read_pos <= m_write_pos
              THEN m_read_pos <= p /\ p < m_write_pos
              ELSE m_read_pos <= p \/ p < m_write_pos

\* Why one writer never overwrites: cells lie only in the queue or in the slot
\* has_read is freeing, just behind it; is_full's answer stays true until the
\* fetch_add, because only the reader moves the other end; and the position
\* just claimed is the last of the queue, where the reader stops.
RingInv ==
  /\ \A p \in Slots :
       IsCell(m_scu_ptr[p]) => InQueue(p) \/ (rpc = "clear" /\ p = rclear)
  /\ rpc = "clear" => Succ(rclear) = m_read_pos
  /\ phase # "live" => rpc = "ready" /\ \A t \in Writers : wpc[t] = "idle"
  /\ phase = "gone" => is_empty
  /\ \A t \in Writers :
       /\ wpc[t] = "is_full" => wload[t] = m_write_pos
       /\ wpc[t] = "claim" => Succ(m_write_pos) # m_read_pos
       /\ wpc[t] \in {"store", "enable"} => Succ(wclaim[t]) = m_write_pos /\ ~is_empty
  /\ NoOverwrite

\* When enable_read looks at the head of a queue that is not empty, it does
\* not follow a pointer nobody has written.
NoWildRead == ~is_empty => m_scu_ptr[m_read_pos] # Wild

\* ~send_cell -> clear frees every cell that was not sent.
NoLeak == phase = "gone" => \A i \in Slots : ~IsCell(m_scu_ptr[i])

\* A call of write_chche reports "send cache is full" only if the cache is
\* full when it decides so.  is_full loads the two positions at two moments,
\* and between them other writers and the reader may move both.
FullMeansFull ==
  [][\A t \in Writers :
       wpc[t] = "is_full" /\ wpc'[t] = "full" => Succ(m_write_pos) = m_read_pos
    ]_cellVars

\* The destructor's loop ends: it never meets a slot without a cell.
ClearTerminates == phase = "clearing" ~> phase = "gone"

\* The messages between the read and the write position, oldest first.  A
\* position that is claimed but not stored yet already stands for the message
\* its writer is about to store.
Occupancy ==
  IF m_read_pos <= m_write_pos THEN m_write_pos - m_read_pos
                               ELSE m_write_pos + sendCellSize - m_read_pos

MessageAt == [p \in Slots |->
  LET claimers == {t \in Writers : wpc[t] = "store" /\ wclaim[t] = p} IN
  IF claimers # {} THEN wmsg[CHOOSE t \in claimers : TRUE]
  ELSE IF IsCell(m_scu_ptr[p]) THEN m_scu_ptr[p].msg ELSE NULL]

\* The i-th position of the queue.
NthSlot(i) == IF m_read_pos + i - 1 < sendCellSize
              THEN m_read_pos + i - 1
              ELSE m_read_pos + i - 1 - sendCellSize

Contents == [i \in 1 .. Occupancy |-> MessageAt[NthSlot(i)]]

Fifo == INSTANCE MessageFifo WITH queue <- Contents, Limit <- sendCellSize - 1

\* The ring is a bounded first-in first-out queue: a message enters with its
\* writer's fetch_add, stays behind the messages claimed before it and leaves
\* from the head when has_read moves m_read_pos.  No message that waits is
\* lost, doubled or overtaken.
ImplementsFifo == Fifo!Spec
=============================================================================
