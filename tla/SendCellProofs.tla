--------------------------- MODULE SendCellProofs ---------------------------
(***************************************************************************)
(* What is proved of SendCell.tla for every ring size and set of messages. *)
(* For every set of writers: type correctness.  For one writer: RingInv,   *)
(* and from it NoOverwrite and NoLeak.  For any number of writers that     *)
(* leave each other room in the ring: NoOverwrite, and that the ring       *)
(* implements the queue of MessageFifo.tla; one writer is a case of that.  *)
(***************************************************************************)
EXTENDS SendCell, SequenceTheorems, TLAPS

USE DEF Slots

LEMMA SuccInSlots ==
  ASSUME NEW i \in Slots
  PROVE  Succ(i) \in Slots
BY SizeAssumption DEF Succ

LEMMA CellIsNotNull ==
  ASSUME NEW c \in Cell
  PROVE  IsCell(c)
BY PointerAssumption DEF IsCell

LEMMA SlotIsCell ==
  ASSUME CellTypeOK, NEW i \in Slots, IsCell(m_scu_ptr[i])
  PROVE  m_scu_ptr[i] \in Cell
BY DEF CellTypeOK, IsCell

LEMMA CellUpdate ==
  ASSUME NEW c \in Cell, NEW n \in Nat
  PROVE  /\ [c EXCEPT !.enableRead = TRUE] \in Cell
         /\ [c EXCEPT !.left = n] \in Cell
         /\ [c EXCEPT !.left = n, !.enableRead = FALSE] \in Cell
BY DEF Cell

(* Types.                                                                  *)

LEMMA CellTypeInit == CellInit => CellTypeOK
BY SizeAssumption, SlotAssumption DEF CellInit, CellTypeOK

LEMMA WriteKeepsType ==
  ASSUME CellTypeOK, NEW t \in Writers,
         (\E m \in Message : WriteBegin(t, m)) \/ WriteStep(t) \/ WriteReturn(t)
  PROVE  CellTypeOK'
<1>1. ASSUME NEW m \in Message, WriteBegin(t, m)
      PROVE  CellTypeOK'
  BY <1>1 DEF CellTypeOK, WriteBegin, posVars, readerVars
<1>2. CASE IsFull(t)
  BY <1>2, SizeAssumption DEF CellTypeOK, IsFull, posVars, readerVars
<1>3. CASE Claim(t)
  BY <1>3, SuccInSlots DEF CellTypeOK, Claim, readerVars
<1>4. CASE Store(t)
  BY <1>4, UnitsAssumption DEF CellTypeOK, Store, readerVars, Cell
<1>5. CASE Enable(t)
  <2>1. wclaim[t] \in Slots
    BY DEF CellTypeOK
  <2>2. m_scu_ptr' \in [Slots -> Cell \cup {NULL, Wild}]
    <3>1. CASE IsCell(m_scu_ptr[wclaim[t]])
      <4>1. m_scu_ptr[wclaim[t]] \in Cell
        BY <2>1, <3>1, SlotIsCell
      <4>2. [m_scu_ptr[wclaim[t]] EXCEPT !.enableRead = TRUE] \in Cell
        BY <4>1, CellUpdate
      <4>3. m_scu_ptr' = [m_scu_ptr EXCEPT ![wclaim[t]] =
                            [m_scu_ptr[wclaim[t]] EXCEPT !.enableRead = TRUE]]
        BY <1>5, <3>1 DEF Enable
      <4> QED
        BY <2>1, <4>2, <4>3 DEF CellTypeOK
    <3>2. CASE ~IsCell(m_scu_ptr[wclaim[t]])
      BY <1>5, <3>2 DEF CellTypeOK, Enable
    <3> QED
      BY <3>1, <3>2
  <2> QED
    BY <1>5, <2>2 DEF CellTypeOK, Enable, readerVars
<1>6. CASE WriteReturn(t)
  BY <1>6, SizeAssumption DEF CellTypeOK, WriteReturn, posVars, readerVars
<1> QED
  BY <1>1, <1>2, <1>3, <1>4, <1>5, <1>6 DEF WriteStep

LEMMA HasReadKeepsType ==
  ASSUME CellTypeOK, NEW len \in Nat, HasRead(len)
  PROVE  CellTypeOK'
<1>1. m_read_pos \in Slots
  BY DEF CellTypeOK
<1>2. m_scu_ptr[m_read_pos] \in Cell
  BY <1>1, SlotIsCell DEF HasRead
<1>3. m_scu_ptr' \in [Slots -> Cell \cup {NULL, Wild}]
  <2> DEFINE c == m_scu_ptr[m_read_pos]
  <2>1. CASE len < c.left
    <3>1. c.left - len \in Nat
      BY <1>2, <2>1 DEF Cell
    <3>2. [c EXCEPT !.left = c.left - len] \in Cell
      BY <1>2, <3>1, CellUpdate
    <3>3. m_scu_ptr' = [m_scu_ptr EXCEPT ![m_read_pos] = [c EXCEPT !.left = c.left - len]]
      BY <2>1 DEF HasRead
    <3> HIDE DEF c
    <3> QED
      BY <1>1, <3>2, <3>3 DEF CellTypeOK
  <2>2. CASE ~(len < c.left)
    <3>1. [c EXCEPT !.left = 0, !.enableRead = FALSE] \in Cell
      BY <1>2, CellUpdate
    <3>2. m_scu_ptr' = [m_scu_ptr EXCEPT ![m_read_pos] =
                          [c EXCEPT !.left = 0, !.enableRead = FALSE]]
      BY <2>2 DEF HasRead
    <3> HIDE DEF c
    <3> QED
      BY <1>1, <3>1, <3>2 DEF CellTypeOK
  <2> QED
    BY <2>1, <2>2
<1> QED
  BY <1>1, <1>3, SuccInSlots DEF CellTypeOK, HasRead, writerVars, readerVars

LEMMA FreeKeepsType ==
  ASSUME CellTypeOK, HasReadClear \/ Clear
  PROVE  CellTypeOK'
<1>1. CASE HasReadClear
  BY <1>1, SizeAssumption DEF CellTypeOK, HasReadClear, writerVars
<1>2. CASE Clear
  BY <1>2, SuccInSlots DEF CellTypeOK, Clear, ClearBegin, ClearOne, ClearDone,
                           posVars, writerVars, readerVars
<1> QED
  BY <1>1, <1>2

LEMMA StutterKeepsType == CellTypeOK /\ UNCHANGED cellVars => CellTypeOK'
BY DEF CellTypeOK, cellVars, posVars, writerVars, readerVars

(* The ring's variables keep their types, whoever overruns it.             *)
THEOREM CellTypeCorrect == CellSpec => []CellTypeOK
<1>1. CellTypeOK /\ [CellNext]_cellVars => CellTypeOK'
  <2> SUFFICES ASSUME CellTypeOK, CellNext
               PROVE  CellTypeOK'
    BY StutterKeepsType
  <2>1. CASE \E t \in Writers : Write(t)
    BY <2>1, WriteKeepsType DEF Write
  <2>2. CASE Read
    <3>1. CASE HasReadClear
      BY <3>1, FreeKeepsType
    <3>2. ASSUME NEW len \in 1 .. m_scu_ptr[m_read_pos].left, HasRead(len)
          PROVE  CellTypeOK'
      <4>1. m_scu_ptr[m_read_pos] \in Cell
        BY <3>2, SlotIsCell DEF HasRead, CellTypeOK
      <4>2. len \in Nat
        BY <4>1 DEF Cell
      <4> QED
        BY <3>2, <4>2, HasReadKeepsType
    <3> QED
      BY <2>2, <3>1, <3>2 DEF Read
  <2>3. CASE Clear
    BY <2>3, FreeKeepsType
  <2> QED
    BY <2>1, <2>2, <2>3 DEF CellNext
<1> QED
  BY <1>1, CellTypeInit, PTL DEF CellSpec
-----------------------------------------------------------------------------
(* One writer.                                                             *)

SingleWriter == \A a, b \in Writers : a = b

\* Positions are all RingInv speaks of, so each lemma about them is arithmetic.
LEMMA SuccFacts ==
  /\ \A i \in Slots : Succ(i) \in Slots /\ Succ(i) # i
  /\ \A i, j \in Slots : Succ(i) = Succ(j) => i = j
BY SizeAssumption DEF Succ

LEMMA ClaimExtendsQueue ==
  ASSUME CellTypeOK, m_write_pos' = Succ(m_write_pos), m_read_pos' = m_read_pos,
         Succ(m_write_pos) # m_read_pos, NEW p \in Slots, InQueue(p)
  PROVE  InQueue(p)' /\ p # m_write_pos
BY SizeAssumption DEF InQueue, Succ, CellTypeOK

LEMMA ReadShrinksQueue ==
  ASSUME CellTypeOK, m_write_pos' = m_write_pos, m_read_pos' = Succ(m_read_pos),
         ~is_empty, NEW p \in Slots, InQueue(p), p # m_read_pos
  PROVE  InQueue(p)'
BY SizeAssumption DEF InQueue, Succ, CellTypeOK, is_empty
LEMMA LastIsInQueue ==
  ASSUME CellTypeOK, ~is_empty, NEW p \in Slots, Succ(p) = m_write_pos
  PROVE  InQueue(p)
BY SizeAssumption DEF InQueue, Succ, CellTypeOK, is_empty

LEMMA RingInvInit == CellInit => RingInv
<1> SUFFICES ASSUME CellInit PROVE RingInv
  OBVIOUS
<1>1. \A p \in Slots : ~IsCell(m_scu_ptr[p])
  BY SlotAssumption DEF CellInit, IsCell
<1> QED
  BY <1>1 DEF CellInit, RingInv, NoOverwrite

LEMMA WriterKeepsRingInv ==
  ASSUME SingleWriter, CellTypeOK, RingInv, NEW t \in Writers, Write(t)
  PROVE  RingInv'
<1>0. /\ \A u \in Writers : u = t
      /\ wclaim[t] \in Slots /\ m_write_pos \in Slots /\ m_read_pos \in Slots
      /\ phase = "live"
  BY DEF SingleWriter, CellTypeOK, Write
<1>1. ASSUME NEW m \in Message, WriteBegin(t, m)
      PROVE  RingInv'
  BY <1>0, <1>1 DEF WriteBegin, RingInv, NoOverwrite, CellTypeOK, InQueue, is_empty,
                    posVars, readerVars
<1>2. CASE IsFull(t)
  BY <1>0, <1>2 DEF IsFull, RingInv, NoOverwrite, CellTypeOK, InQueue, is_empty,
                    posVars, readerVars
<1>3. CASE Claim(t)
  <2>1. /\ Succ(m_write_pos) # m_read_pos
        /\ wclaim' = [wclaim EXCEPT ![t] = m_write_pos]
        /\ wpc' = [wpc EXCEPT ![t] = "store"]
        /\ m_write_pos' = Succ(m_write_pos)
        /\ UNCHANGED << m_read_pos, m_scu_ptr, rpc, rclear, phase >>
    BY <1>0, <1>3 DEF Claim, RingInv, readerVars
  <2>2. ~IsCell(m_scu_ptr[m_write_pos])
    <3>1. ~InQueue(m_write_pos)
      BY <1>0, <2>1, ClaimExtendsQueue
    <3> QED
      BY <1>0, <2>1, <3>1 DEF RingInv
  <2>3. \A p \in Slots : IsCell(m_scu_ptr[p])' =>
           InQueue(p)' \/ (rpc' = "clear" /\ p = rclear')
    BY <2>1, ClaimExtendsQueue DEF RingInv, IsCell
  <2>4. m_write_pos' # m_read_pos'
    BY <2>1
  <2> QED
    BY <1>0, <2>1, <2>2, <2>3, <2>4
       DEF RingInv, NoOverwrite, CellTypeOK, is_empty, IsCell
<1>4. CASE Store(t)
  <2> DEFINE c == [msg |-> wmsg[t], left |-> Units(wmsg[t]), enableRead |-> FALSE]
  <2>1. /\ wpc[t] = "store"
        /\ wpc' = [wpc EXCEPT ![t] = "enable"]
        /\ m_scu_ptr' = [m_scu_ptr EXCEPT ![wclaim[t]] = c]
        /\ UNCHANGED << m_write_pos, m_read_pos, wmsg, wload, wclaim, rpc,
                        rclear, phase >>
    BY <1>4 DEF Store, readerVars
  <2>2. c \in Cell /\ IsCell(c) /\ c.msg = wmsg[t] /\ ~c.enableRead
    <3>1. c \in Cell
      BY <2>1, UnitsAssumption DEF CellTypeOK, Cell
    <3> QED
      BY <3>1, CellIsNotNull
  <2> HIDE DEF c
  <2>3. InQueue(wclaim[t])
    BY <1>0, <2>1, LastIsInQueue DEF RingInv
  <2>4. m_scu_ptr'[wclaim[t]] = c
    BY <1>0, <2>1 DEF CellTypeOK
  <2>5. \A p \in Slots : p # wclaim[t] => m_scu_ptr'[p] = m_scu_ptr[p]
    BY <1>0, <2>1 DEF CellTypeOK
  <2>6. \A p \in Slots : IsCell(m_scu_ptr'[p]) =>
           InQueue(p)' \/ (rpc' = "clear" /\ p = rclear')
    <3>1. \A p \in Slots : InQueue(p)' <=> InQueue(p)
      BY <2>1 DEF InQueue
    <3> QED
      BY <2>1, <2>3, <2>5, <3>1 DEF RingInv
  <2> QED
    BY <1>0, <2>1, <2>2, <2>4, <2>6
       DEF RingInv, NoOverwrite, CellTypeOK, is_empty, IsCell
<1>5. CASE Enable(t)
  <2> DEFINE c == m_scu_ptr[wclaim[t]]
             d == [c EXCEPT !.enableRead = TRUE]
  <2>1. /\ wpc[t] = "enable"
        /\ IsCell(c)
        /\ wpc' = [wpc EXCEPT ![t] = "ok"]
        /\ m_scu_ptr' = [m_scu_ptr EXCEPT ![wclaim[t]] = d]
        /\ UNCHANGED << m_write_pos, m_read_pos, wmsg, wload, wclaim, rpc,
                        rclear, phase >>
    BY <1>5 DEF Enable, readerVars, RingInv, NoOverwrite
  <2> HIDE DEF d
  <2>2. \A p \in Slots : IsCell(m_scu_ptr'[p]) => IsCell(m_scu_ptr[p])
    BY <1>0, <2>1 DEF CellTypeOK
  <2>3. \A p \in Slots : InQueue(p)' <=> InQueue(p)
    BY <2>1 DEF InQueue
  <2> QED
    BY <1>0, <2>1, <2>2, <2>3 DEF RingInv, NoOverwrite, CellTypeOK, is_empty, IsCell
<1>6. CASE WriteReturn(t)
  BY <1>0, <1>6 DEF WriteReturn, RingInv, NoOverwrite, CellTypeOK, InQueue, is_empty,
                    posVars, readerVars
<1> QED
  BY <1>1, <1>2, <1>3, <1>4, <1>5, <1>6 DEF Write, WriteStep
LEMMA ReaderKeepsRingInv ==
  ASSUME CellTypeOK, RingInv, Read
  PROVE  RingInv'
<1>0. m_read_pos \in Slots /\ m_write_pos \in Slots /\ rclear \in Slots
  BY DEF CellTypeOK
<1>1. ASSUME enable_read, NEW len \in 1 .. m_scu_ptr[m_read_pos].left, HasRead(len)
      PROVE  RingInv'
  <2> DEFINE c == m_scu_ptr[m_read_pos]
  <2>1. /\ c \in Cell /\ IsCell(c) /\ c.enableRead /\ ~is_empty
        /\ rpc = "ready" /\ phase = "live"
    BY <1>0, <1>1, SlotIsCell DEF enable_read, HasRead, Read
  <2>2. UNCHANGED << m_write_pos, wpc, wmsg, wload, wclaim, phase >>
    BY <1>1 DEF HasRead, writerVars
  <2>3. \A t \in Writers : wpc[t] \in {"store", "enable"} => wclaim[t] # m_read_pos
    BY <2>1 DEF RingInv, NoOverwrite
  <2>4. \A t \in Writers : wclaim[t] \in Slots
    BY DEF CellTypeOK
  <2>5. \A p \in Slots : p # m_read_pos => m_scu_ptr'[p] = m_scu_ptr[p]
    BY <1>0, <1>1 DEF HasRead, CellTypeOK
  <2>6. /\ \A p \in Slots : IsCell(m_scu_ptr'[p]) =>
              InQueue(p)' \/ (rpc' = "clear" /\ p = rclear')
        /\ rpc' = "clear" => Succ(rclear') = m_read_pos'
        /\ \A t \in Writers :
             /\ wpc[t] = "claim" => Succ(m_write_pos) # m_read_pos'
             /\ wpc[t] \in {"store", "enable"} => m_write_pos # m_read_pos'
    <3>1. CASE len < c.left
      <4>1. UNCHANGED << m_read_pos, rpc, rclear >>
        BY <1>1, <3>1 DEF HasRead, readerVars
      <4>2. \A p \in Slots : InQueue(p)' <=> InQueue(p)
        BY <2>2, <4>1 DEF InQueue
      <4> QED
        BY <1>0, <2>1, <2>5, <4>1, <4>2 DEF RingInv, is_empty
    <3>2. CASE ~(len < c.left)
      <4>1. m_read_pos' = Succ(m_read_pos) /\ rclear' = m_read_pos /\ rpc' = "clear"
        BY <1>1, <3>2 DEF HasRead
      <4>2. \A p \in Slots : InQueue(p) /\ p # m_read_pos => InQueue(p)'
        BY <2>1, <2>2, <4>1, ReadShrinksQueue
      <4>3. \A t \in Writers : wpc[t] = "claim" => Succ(m_write_pos) # m_read_pos'
        BY <1>0, <2>1, <4>1, SuccFacts DEF is_empty
      <4>4. \A t \in Writers :
              wpc[t] \in {"store", "enable"} => m_write_pos # m_read_pos'
        BY <1>0, <2>3, <2>4, <4>1, SuccFacts DEF RingInv
      <4> QED
        BY <2>1, <2>5, <4>1, <4>2, <4>3, <4>4 DEF RingInv
    <3> QED
      BY <3>1, <3>2
  <2> QED
    BY <2>1, <2>2, <2>3, <2>4, <2>5, <2>6 DEF RingInv, NoOverwrite, is_empty
<1>2. CASE HasReadClear
  <2>1. /\ m_scu_ptr' = [m_scu_ptr EXCEPT ![rclear] = NULL]
        /\ rpc = "clear" /\ rpc' = "ready"
        /\ UNCHANGED << m_write_pos, m_read_pos, wpc, wmsg, wload, wclaim, phase >>
    BY <1>2 DEF HasReadClear, writerVars
  <2>2. ~IsCell(m_scu_ptr'[rclear])
    BY <1>0, <2>1 DEF CellTypeOK, IsCell
  <2>3. \A p \in Slots : p # rclear => m_scu_ptr'[p] = m_scu_ptr[p]
    BY <1>0, <2>1 DEF CellTypeOK
  <2>4. \A t \in Writers : wpc[t] = "enable" => wclaim[t] # rclear
    <3> SUFFICES ASSUME NEW t \in Writers, wpc[t] = "enable", wclaim[t] = rclear
                 PROVE  FALSE
      OBVIOUS
    <3> QED
      BY <2>1 DEF RingInv, is_empty
  <2>5. \A p \in Slots : InQueue(p)' <=> InQueue(p)
    BY <2>1 DEF InQueue
  <2>6. \A t \in Writers : wclaim[t] \in Slots
    BY DEF CellTypeOK
  <2> QED
    BY <2>1, <2>2, <2>3, <2>4, <2>5, <2>6 DEF RingInv, NoOverwrite, is_empty, IsCell
<1> QED
  BY <1>1, <1>2 DEF Read

LEMMA ClearKeepsRingInv ==
  ASSUME CellTypeOK, RingInv, Clear
  PROVE  RingInv'
<1>1. CASE ClearBegin
  BY <1>1 DEF ClearBegin, RingInv, NoOverwrite, InQueue, is_empty,
              posVars, writerVars, readerVars
<1>2. CASE ClearOne
  <2>1. /\ m_scu_ptr' = [m_scu_ptr EXCEPT ![m_read_pos] = NULL]
        /\ m_read_pos' = Succ(m_read_pos)
        /\ phase = "clearing" /\ ~is_empty
        /\ UNCHANGED << m_write_pos, wpc, wmsg, wload, wclaim, rpc, rclear, phase >>
    BY <1>2 DEF ClearOne, writerVars, readerVars
  <2>2. /\ m_read_pos \in Slots
        /\ \A p \in Slots : p # m_read_pos => m_scu_ptr'[p] = m_scu_ptr[p]
        /\ ~IsCell(m_scu_ptr'[m_read_pos])
    BY <2>1 DEF CellTypeOK, IsCell
  <2>3. \A p \in Slots : InQueue(p) /\ p # m_read_pos => InQueue(p)'
    BY <2>1, ReadShrinksQueue
  <2> QED
    BY <2>1, <2>2, <2>3 DEF RingInv, NoOverwrite
<1>3. CASE ClearDone
  BY <1>3 DEF ClearDone, RingInv, NoOverwrite, InQueue, is_empty,
              posVars, writerVars, readerVars
<1> QED
  BY <1>1, <1>2, <1>3 DEF Clear

(* With one writer RingInv holds: see its comment for why.                 *)
THEOREM RingInvCorrect ==
  ASSUME SingleWriter
  PROVE  CellSpec => []RingInv
<1>1. CellInit => RingInv
  BY RingInvInit
<1>2. CellTypeOK /\ RingInv /\ [CellNext]_cellVars => RingInv'
  <2> SUFFICES ASSUME CellTypeOK, RingInv, [CellNext]_cellVars
               PROVE  RingInv'
    OBVIOUS
  <2>1. CASE Read
    BY <2>1, ReaderKeepsRingInv
  <2>2. CASE Clear
    BY <2>2, ClearKeepsRingInv
  <2>3. CASE \E t \in Writers : Write(t)
    BY <2>3, WriterKeepsRingInv
  <2>4. CASE UNCHANGED cellVars
    BY <2>4 DEF cellVars, posVars, writerVars, readerVars, RingInv, NoOverwrite,
                InQueue, is_empty
  <2> QED
    BY <2>1, <2>2, <2>3, <2>4 DEF CellNext
<1> QED
  BY <1>1, <1>2, CellTypeCorrect, PTL DEF CellSpec

(* One writer never stores into a slot that holds a cell, and finds its own *)
(* cell when it sets enableRead.                                            *)
THEOREM OneWriterNeverOverwrites ==
  ASSUME SingleWriter
  PROVE  CellSpec => []NoOverwrite
<1>1. RingInv => NoOverwrite
  BY DEF RingInv
<1> QED
  BY <1>1, RingInvCorrect, PTL

(* When the destructor of a ring with one writer is done, no cell is left.  *)
THEOREM OneWriterNoLeak ==
  ASSUME SingleWriter
  PROVE  CellSpec => []NoLeak
<1>1. CellTypeOK /\ RingInv => NoLeak
  <2> SUFFICES ASSUME CellTypeOK, RingInv, phase = "gone", NEW p \in Slots,
                      IsCell(m_scu_ptr[p])
               PROVE  FALSE
    BY DEF NoLeak
  <2>1. ~InQueue(p)
    BY DEF RingInv, is_empty, InQueue, CellTypeOK
  <2> QED
    BY <2>1 DEF RingInv
<1> QED
  BY <1>1, RingInvCorrect, CellTypeCorrect, PTL

-----------------------------------------------------------------------------
(* Any number of writers that leave each other room.                       *)

\* No fetch_add takes the last free slot.  The check in write_chche ensures this for
\* one writer; several have to see to it themselves.
ClaimInRoom ==
  \A t \in Writers :
    wpc[t] = "claim" /\ wpc'[t] = "store" => Succ(m_write_pos) # m_read_pos

RoomySpec == CellInit /\ [][CellNext /\ ClaimInRoom]_cellVars

Storing(t) == wpc[t] \in {"store", "enable"}

\* As RingInv, but claimed positions are anywhere in the queue, each its writer's alone.
RoomyInv ==
  /\ \A p \in Slots :
       IsCell(m_scu_ptr[p]) => InQueue(p) \/ (rpc = "clear" /\ p = rclear)
  /\ rpc = "clear" => Succ(rclear) = m_read_pos
  /\ phase # "live" => rpc = "ready" /\ \A t \in Writers : wpc[t] = "idle"
  /\ \A t \in Writers : Storing(t) => InQueue(wclaim[t])
  /\ \A t, u \in Writers : Storing(t) /\ Storing(u) /\ wclaim[t] = wclaim[u] => t = u
  /\ NoOverwrite

LEMMA OutsideQueue ==
  ASSUME CellTypeOK, NEW p \in Slots
  PROVE  /\ Succ(p) = m_read_pos => ~InQueue(p)
         /\ p = m_write_pos => ~InQueue(p)
BY SizeAssumption DEF InQueue, Succ, CellTypeOK

LEMMA ClaimJoinsQueue ==
  ASSUME CellTypeOK, m_write_pos' = Succ(m_write_pos), m_read_pos' = m_read_pos,
         Succ(m_write_pos) # m_read_pos, NEW p \in Slots, p = m_write_pos
  PROVE  InQueue(p)'
BY SizeAssumption DEF InQueue, Succ, CellTypeOK

LEMMA RoomyInit == CellInit => RoomyInv
<1> SUFFICES ASSUME CellInit PROVE RoomyInv
  OBVIOUS
<1>1. \A p \in Slots : ~IsCell(m_scu_ptr[p])
  BY SlotAssumption DEF CellInit, IsCell
<1> QED
  BY <1>1 DEF CellInit, RoomyInv, NoOverwrite, Storing

LEMMA WriterKeepsRoomyInv ==
  ASSUME CellTypeOK, RoomyInv, NEW t \in Writers, Write(t), ClaimInRoom
  PROVE  RoomyInv'
<1>0. /\ wclaim \in [Writers -> Slots] /\ m_write_pos \in Slots /\ m_read_pos \in Slots
      /\ phase = "live" /\ DOMAIN wpc = Writers /\ DOMAIN wmsg = Writers
  BY DEF CellTypeOK, Write
<1>1. ASSUME NEW m \in Message, WriteBegin(t, m)
      PROVE  RoomyInv'
  BY <1>0, <1>1 DEF WriteBegin, RoomyInv, NoOverwrite, Storing, InQueue, posVars, readerVars
<1>2. CASE IsFull(t)
  BY <1>0, <1>2 DEF IsFull, RoomyInv, NoOverwrite, Storing, InQueue, posVars, readerVars
<1>3. CASE Claim(t)
  <2>1. /\ wpc[t] = "claim" /\ wpc' = [wpc EXCEPT ![t] = "store"]
        /\ wclaim' = [wclaim EXCEPT ![t] = m_write_pos]
        /\ m_write_pos' = Succ(m_write_pos)
        /\ UNCHANGED << m_read_pos, m_scu_ptr, wmsg, rpc, rclear, phase >>
    BY <1>3 DEF Claim, readerVars
  <2>2. Succ(m_write_pos) # m_read_pos
    BY <1>0, <2>1 DEF ClaimInRoom
  <2>3. \A p \in Slots : InQueue(p) => InQueue(p)' /\ p # m_write_pos
    BY <2>1, <2>2, ClaimExtendsQueue
  <2>4. \A p \in Slots : p = m_write_pos => InQueue(p)'
    BY <2>1, <2>2, ClaimJoinsQueue
  <2>5. ~IsCell(m_scu_ptr[m_write_pos])
    BY <1>0, <2>2, <2>3 DEF RoomyInv
  <2>6. \A p \in Slots : IsCell(m_scu_ptr[p]) => InQueue(p)' \/ (rpc = "clear" /\ p = rclear)
    BY <2>3 DEF RoomyInv
  <2>7. \A u \in Writers : u # t => wpc'[u] = wpc[u] /\ wclaim'[u] = wclaim[u]
    BY <1>0, <2>1
  <2>8. wpc'[t] = "store" /\ wclaim'[t] = m_write_pos
    BY <1>0, <2>1
  <2>10. \A u \in Writers : Storing(u)' /\ u # t => Storing(u) /\ wclaim'[u] \in Slots /\ InQueue(wclaim'[u])
    BY <1>0, <2>7 DEF RoomyInv, Storing
  <2>12. \A u, v \in Writers : Storing(u)' /\ Storing(v)' /\ wclaim'[u] = wclaim'[v] => u = v
    BY <2>3, <2>7, <2>8, <2>10 DEF RoomyInv
  <2>14. \A u \in Writers : Storing(u)' => InQueue(wclaim[u])'
    <3> SUFFICES ASSUME NEW u \in Writers, Storing(u)' PROVE InQueue(wclaim[u])'
      OBVIOUS
    <3>1. PICK q \in Slots : q = wclaim'[u] /\ (q = m_write_pos \/ InQueue(q))
      BY <1>0, <2>8, <2>10
    <3>2. InQueue(q)'
      BY <2>3, <2>4, <3>1
    <3> QED
      BY <3>1, <3>2 DEF InQueue
  <2>15. NoOverwrite'
    BY <1>0, <2>1, <2>5, <2>7, <2>8 DEF RoomyInv, NoOverwrite, IsCell
  <2> QED
    BY <1>0, <2>1, <2>6, <2>12, <2>14, <2>15 DEF RoomyInv
<1>4. CASE Store(t)
  <2> DEFINE c == [msg |-> wmsg[t], left |-> Units(wmsg[t]), enableRead |-> FALSE]
  <2>1. /\ wpc[t] = "store"
        /\ wpc' = [wpc EXCEPT ![t] = "enable"]
        /\ m_scu_ptr' = [m_scu_ptr EXCEPT ![wclaim[t]] = c]
        /\ UNCHANGED << m_write_pos, m_read_pos, wmsg, wload, wclaim, rpc,
                        rclear, phase >>
    BY <1>4 DEF Store, readerVars
  <2>2. c \in Cell /\ IsCell(c) /\ c.msg = wmsg[t] /\ ~c.enableRead
    <3>1. c \in Cell
      BY <2>1, UnitsAssumption DEF CellTypeOK, Cell
    <3> QED
      BY <3>1, CellIsNotNull
  <2> HIDE DEF c
  <2>3. InQueue(wclaim[t])
    BY <2>1 DEF RoomyInv, Storing
  <2>4. m_scu_ptr'[wclaim[t]] = c
    BY <1>0, <2>1 DEF CellTypeOK
  <2>5. \A p \in Slots : p # wclaim[t] => m_scu_ptr'[p] = m_scu_ptr[p]
    BY <1>0, <2>1 DEF CellTypeOK
  <2>6. \A p \in Slots : InQueue(p)' <=> InQueue(p)
    BY <2>1 DEF InQueue
  <2>7. \A p \in Slots : IsCell(m_scu_ptr'[p]) => InQueue(p)' \/ (rpc' = "clear" /\ p = rclear')
    BY <2>1, <2>3, <2>5, <2>6 DEF RoomyInv
  <2>8. wpc'[t] = "enable" /\ \A u \in Writers : (Storing(u)' <=> Storing(u)) /\ (u # t => wpc'[u] = wpc[u])
    BY <1>0, <2>1 DEF Storing
  <2>9. \A u \in Writers : u # t /\ Storing(u) => wclaim[u] # wclaim[t]
    BY <2>1 DEF RoomyInv, Storing
  <2>10. NoOverwrite'
    <3> SUFFICES ASSUME NEW u \in Writers
                 PROVE  /\ wpc'[u] = "store" => ~IsCell(m_scu_ptr'[wclaim[u]])
                        /\ wpc'[u] = "enable" => /\ IsCell(m_scu_ptr'[wclaim[u]])
                                                /\ m_scu_ptr'[wclaim[u]].msg = wmsg[u]
                                                /\ ~m_scu_ptr'[wclaim[u]].enableRead
      BY <2>1 DEF NoOverwrite, IsCell
    <3>1. CASE u = t
      BY <2>2, <2>4, <2>8, <3>1
    <3>2. CASE u # t
      <4>1. Storing(u) => m_scu_ptr'[wclaim[u]] = m_scu_ptr[wclaim[u]]
        BY <1>0, <2>5, <2>9, <3>2
      <4> QED
        BY <2>8, <3>2, <4>1 DEF RoomyInv, NoOverwrite, Storing
    <3> QED
      BY <3>1, <3>2
  <2>11. \A u \in Writers : Storing(u)' => InQueue(wclaim[u])'
    BY <1>0, <2>1, <2>6, <2>8 DEF RoomyInv
  <2> QED
    BY <1>0, <2>1, <2>7, <2>8, <2>10, <2>11 DEF RoomyInv, IsCell, InQueue
<1>5. CASE Enable(t)
  <2> DEFINE c == m_scu_ptr[wclaim[t]]
             d == [c EXCEPT !.enableRead = TRUE]
  <2>1. /\ wpc[t] = "enable"
        /\ IsCell(c)
        /\ wpc' = [wpc EXCEPT ![t] = "ok"]
        /\ m_scu_ptr' = [m_scu_ptr EXCEPT ![wclaim[t]] = d]
        /\ UNCHANGED << m_write_pos, m_read_pos, wmsg, wload, wclaim, rpc,
                        rclear, phase >>
    BY <1>5 DEF Enable, readerVars, RoomyInv, NoOverwrite
  <2> HIDE DEF d
  <2>2. \A p \in Slots : p # wclaim[t] => m_scu_ptr'[p] = m_scu_ptr[p]
    BY <1>0, <2>1 DEF CellTypeOK
  <2>3. \A p \in Slots : InQueue(p)' <=> InQueue(p)
    BY <2>1 DEF InQueue
  <2>4. ASSUME NEW u \in Writers
        PROVE  /\ Storing(u)' => Storing(u) /\ u # t
               /\ u # t => wpc'[u] = wpc[u]
               /\ u # t /\ Storing(u) => wclaim[u] # wclaim[t]
    BY <1>0, <2>1 DEF RoomyInv, Storing
  <2>5. NoOverwrite'
    <3> SUFFICES ASSUME NEW u \in Writers, Storing(u)'
                 PROVE  /\ wpc'[u] = "store" => ~IsCell(m_scu_ptr'[wclaim[u]])
                        /\ wpc'[u] = "enable" => /\ IsCell(m_scu_ptr'[wclaim[u]])
                                                /\ m_scu_ptr'[wclaim[u]].msg = wmsg[u]
                                                /\ ~m_scu_ptr'[wclaim[u]].enableRead
      BY <2>1 DEF NoOverwrite, IsCell, Storing
    <3>0. u # t /\ Storing(u)
      BY <2>4
    <3>1. m_scu_ptr'[wclaim[u]] = m_scu_ptr[wclaim[u]] /\ wpc'[u] = wpc[u]
      BY <1>0, <2>2, <2>4, <3>0
    <3> QED
      BY <3>1 DEF RoomyInv, NoOverwrite
  <2>6. \A p \in Slots : IsCell(m_scu_ptr'[p]) => InQueue(p)' \/ (rpc' = "clear" /\ p = rclear')
    <3>1. \A p \in Slots : IsCell(m_scu_ptr'[p]) => IsCell(m_scu_ptr[p])
      BY <2>1, <2>2
    <3> QED
      BY <2>1, <2>3, <3>1 DEF RoomyInv
  <2>7. \A u \in Writers : Storing(u)' => InQueue(wclaim[u])'
    <3> SUFFICES ASSUME NEW u \in Writers, Storing(u)' PROVE InQueue(wclaim[u])'
      OBVIOUS
    <3>1. InQueue(wclaim[u])
      BY <2>4 DEF RoomyInv
    <3> QED
      BY <2>1, <3>1 DEF InQueue
  <2>8. \A u, v \in Writers : Storing(u)' /\ Storing(v)' /\ wclaim'[u] = wclaim'[v] => u = v
    BY <2>1, <2>4 DEF RoomyInv
  <2> QED
    BY <1>0, <2>1, <2>5, <2>6, <2>7, <2>8 DEF RoomyInv, IsCell
<1>6. CASE WriteReturn(t)
  BY <1>0, <1>6 DEF WriteReturn, RoomyInv, NoOverwrite, Storing, InQueue, posVars, readerVars
<1> QED
  BY <1>1, <1>2, <1>3, <1>4, <1>5, <1>6 DEF Write, WriteStep

LEMMA ReaderKeepsRoomyInv ==
  ASSUME CellTypeOK, RoomyInv, Read
  PROVE  RoomyInv'
<1>0. m_read_pos \in Slots /\ m_write_pos \in Slots /\ rclear \in Slots
      /\ wclaim \in [Writers -> Slots]
  BY DEF CellTypeOK
<1>1. ASSUME enable_read, NEW len \in 1 .. m_scu_ptr[m_read_pos].left, HasRead(len)
      PROVE  RoomyInv'
  <2> DEFINE c == m_scu_ptr[m_read_pos]
  <2>1. /\ c \in Cell /\ IsCell(c) /\ c.enableRead /\ ~is_empty
        /\ rpc = "ready" /\ phase = "live"
    BY <1>0, <1>1, SlotIsCell DEF enable_read, HasRead, Read
  <2>2. UNCHANGED << m_write_pos, wpc, wmsg, wload, wclaim, phase >>
    BY <1>1 DEF HasRead, writerVars
  <2>3. \A t \in Writers : Storing(t) => wclaim[t] # m_read_pos
    BY <2>1 DEF RoomyInv, NoOverwrite, Storing
  <2>4. \A p \in Slots : p # m_read_pos => m_scu_ptr'[p] = m_scu_ptr[p]
    BY <1>0, <1>1 DEF HasRead, CellTypeOK
  <2>5. /\ \A p \in Slots : InQueue(p) /\ p # m_read_pos => InQueue(p)'
        /\ \A p \in Slots : IsCell(m_scu_ptr'[p]) =>
              InQueue(p)' \/ (rpc' = "clear" /\ p = rclear')
        /\ rpc' = "clear" => Succ(rclear') = m_read_pos'
    <3>1. CASE len < c.left
      <4>1. UNCHANGED << m_read_pos, rpc, rclear >>
        BY <1>1, <3>1 DEF HasRead, readerVars
      <4>2. \A p \in Slots : InQueue(p)' <=> InQueue(p)
        BY <2>2, <4>1 DEF InQueue
      <4> QED
        BY <1>0, <2>1, <2>4, <4>1, <4>2 DEF RoomyInv
    <3>2. CASE ~(len < c.left)
      <4>1. m_read_pos' = Succ(m_read_pos) /\ rclear' = m_read_pos /\ rpc' = "clear"
        BY <1>1, <3>2 DEF HasRead
      <4>2. \A p \in Slots : InQueue(p) /\ p # m_read_pos => InQueue(p)'
        BY <2>1, <2>2, <4>1, ReadShrinksQueue
      <4> QED
        BY <2>1, <2>4, <4>1, <4>2 DEF RoomyInv
    <3> QED
      BY <3>1, <3>2
  <2>6. ASSUME NEW t \in Writers, Storing(t)
        PROVE  InQueue(wclaim[t])' /\ m_scu_ptr'[wclaim[t]] = m_scu_ptr[wclaim[t]]
    <3>1. PICK q \in Slots : q = wclaim[t]
      BY <1>0
    <3>2. InQueue(q) /\ q # m_read_pos
      BY <2>3, <2>6, <3>1 DEF RoomyInv
    <3>3. InQueue(q)' /\ m_scu_ptr'[q] = m_scu_ptr[q]
      BY <2>4, <2>5, <3>2
    <3> QED
      BY <2>2, <3>1, <3>3 DEF InQueue
  <2>7. \A t \in Writers : Storing(t)' <=> Storing(t)
    BY <2>2 DEF Storing
  <2>8. NoOverwrite'
    BY <2>2, <2>6 DEF RoomyInv, NoOverwrite, Storing, IsCell
  <2>9. \A p \in Slots : IsCell(m_scu_ptr[p])' => InQueue(p)' \/ (rpc' = "clear" /\ p = rclear')
    BY <2>5 DEF IsCell
  <2> QED
    BY <2>1, <2>2, <2>5, <2>6, <2>7, <2>8, <2>9 DEF RoomyInv
<1>2. CASE HasReadClear
  <2>1. /\ m_scu_ptr' = [m_scu_ptr EXCEPT ![rclear] = NULL]
        /\ rpc = "clear" /\ rpc' = "ready"
        /\ UNCHANGED << m_write_pos, m_read_pos, wpc, wmsg, wload, wclaim, phase >>
    BY <1>2 DEF HasReadClear, writerVars
  <2>2. ~IsCell(m_scu_ptr'[rclear])
    BY <1>0, <2>1 DEF CellTypeOK, IsCell
  <2>3. \A p \in Slots : p # rclear => m_scu_ptr'[p] = m_scu_ptr[p]
    BY <1>0, <2>1 DEF CellTypeOK
  <2>4. ~InQueue(rclear)
    BY <1>0, <2>1, OutsideQueue DEF RoomyInv
  <2>5. \A p \in Slots : InQueue(p)' <=> InQueue(p)
    BY <2>1 DEF InQueue
  <2>6. \A t \in Writers : Storing(t) => wclaim[t] # rclear /\ wclaim[t] \in Slots
    BY <1>0, <2>4 DEF RoomyInv
  <2>7. NoOverwrite'
    BY <2>1, <2>3, <2>6 DEF RoomyInv, NoOverwrite, Storing, IsCell
  <2>8. \A p \in Slots : IsCell(m_scu_ptr[p])' => InQueue(p)'
    BY <2>1, <2>2, <2>3, <2>5 DEF RoomyInv, IsCell
  <2>9. \A t \in Writers : (Storing(t)' <=> Storing(t)) /\ (InQueue(wclaim[t])' <=> InQueue(wclaim[t]))
    BY <2>1 DEF Storing, InQueue
  <2> QED
    BY <2>1, <2>7, <2>8, <2>9 DEF RoomyInv
<1> QED
  BY <1>1, <1>2 DEF Read

LEMMA ClearKeepsRoomyInv ==
  ASSUME CellTypeOK, RoomyInv, Clear
  PROVE  RoomyInv'
<1>1. CASE ClearBegin
  BY <1>1 DEF ClearBegin, RoomyInv, NoOverwrite, Storing, InQueue, posVars, writerVars, readerVars
<1>2. CASE ClearOne
  <2>1. /\ m_scu_ptr' = [m_scu_ptr EXCEPT ![m_read_pos] = NULL]
        /\ m_read_pos' = Succ(m_read_pos)
        /\ phase = "clearing" /\ ~is_empty
        /\ UNCHANGED << m_write_pos, wpc, wmsg, wload, wclaim, rpc, rclear, phase >>
    BY <1>2 DEF ClearOne, writerVars, readerVars
  <2>2. /\ m_read_pos \in Slots
        /\ \A p \in Slots : p # m_read_pos => m_scu_ptr'[p] = m_scu_ptr[p]
        /\ ~IsCell(m_scu_ptr'[m_read_pos])
    BY <2>1 DEF CellTypeOK, IsCell
  <2>3. \A p \in Slots : InQueue(p) /\ p # m_read_pos => InQueue(p)'
    BY <2>1, ReadShrinksQueue
  <2> QED
    BY <2>1, <2>2, <2>3 DEF RoomyInv, NoOverwrite, Storing, IsCell
<1>3. CASE ClearDone
  BY <1>3 DEF ClearDone, RoomyInv, NoOverwrite, Storing, InQueue, posVars, writerVars, readerVars
<1> QED
  BY <1>1, <1>2, <1>3 DEF Clear

LEMMA RoomyStep ==
  CellTypeOK /\ RoomyInv /\ [CellNext /\ ClaimInRoom]_cellVars => RoomyInv'
<1> SUFFICES ASSUME CellTypeOK, RoomyInv, [CellNext /\ ClaimInRoom]_cellVars
             PROVE  RoomyInv'
  OBVIOUS
<1>1. CASE CellNext /\ ClaimInRoom
  BY <1>1, WriterKeepsRoomyInv, ReaderKeepsRoomyInv, ClearKeepsRoomyInv DEF CellNext
<1>2. CASE UNCHANGED cellVars
  BY <1>2 DEF cellVars, posVars, writerVars, readerVars, RoomyInv, NoOverwrite, Storing, InQueue
<1> QED
  BY <1>1, <1>2

\* Writers that leave each other room are as good as one: a claimed slot is its writer's
\* alone, however many are between fetch_add and enableRead.
THEOREM RoomyNeverOverwrites == RoomySpec => []NoOverwrite
<1>1. RoomySpec => CellSpec
  <2>1. [CellNext /\ ClaimInRoom]_cellVars => [CellNext]_cellVars
    OBVIOUS
  <2> QED
    BY <2>1, PTL DEF RoomySpec, CellSpec
<1>2. RoomyInv => NoOverwrite
  BY DEF RoomyInv
<1> QED
  BY <1>1, <1>2, CellTypeCorrect, RoomyInit, RoomyStep, PTL DEF RoomySpec

-----------------------------------------------------------------------------
(* The queue of messages.                                                  *)

\* The parts of Contents, said of values: the slots of the queue, its length, its i-th
\* position, the message at each slot, and the messages in order.
Between(w, r, p) == IF r <= w THEN r <= p /\ p < w ELSE r <= p \/ p < w

Length(w, r) == IF r <= w THEN w - r ELSE w + sendCellSize - r

Position(r, i) == IF r + i - 1 < sendCellSize THEN r + i - 1 ELSE r + i - 1 - sendCellSize

Held(pc, cl, ms, ptr) == [p \in Slots |->
  LET claimers == {t \in Writers : pc[t] = "store" /\ cl[t] = p} IN
  IF claimers # {} THEN ms[CHOOSE t \in claimers : TRUE]
  ELSE IF IsCell(ptr[p]) THEN ptr[p].msg ELSE NULL]

Line(w, r, at) == [i \in 1 .. Length(w, r) |-> at[Position(r, i)]]

LEMMA ContentsIsLine ==
  /\ Contents = Line(m_write_pos, m_read_pos, MessageAt)
  /\ Contents' = Line(m_write_pos', m_read_pos', MessageAt')
BY DEF Contents, Line, Length, Position, Occupancy, NthSlot

LEMMA MessageAtIsHeld ==
  /\ MessageAt = Held(wpc, wclaim, wmsg, m_scu_ptr)
  /\ MessageAt' = Held(wpc', wclaim', wmsg', m_scu_ptr')
BY DEF Held, MessageAt

LEMMA QueueIsBetween ==
  ASSUME NEW p
  PROVE  InQueue(p) <=> Between(m_write_pos, m_read_pos, p)
BY DEF InQueue, Between

LEMMA LengthFacts ==
  ASSUME NEW w \in Slots, NEW r \in Slots
  PROVE  /\ Length(w, r) \in Nat
         /\ Length(w, r) = 0 <=> w = r
         /\ \A i \in 1 .. Length(w, r) :
              Position(r, i) \in Slots /\ Between(w, r, Position(r, i))
BY SizeAssumption DEF Length, Position, Between

LEMMA GrowFacts ==
  ASSUME NEW w \in Slots, NEW r \in Slots, Succ(w) # r
  PROVE  /\ Length(Succ(w), r) = Length(w, r) + 1
         /\ Length(w, r) < sendCellSize - 1
         /\ Position(r, Length(w, r) + 1) = w
BY SizeAssumption DEF Length, Position, Succ

LEMMA ShrinkFacts ==
  ASSUME NEW w \in Slots, NEW r \in Slots, w # r
  PROVE  /\ Length(w, Succ(r)) = Length(w, r) - 1
         /\ \A i \in 1 .. Length(w, r) - 1 :
              Position(Succ(r), i) = Position(r, i + 1) /\ Position(r, i + 1) # r
BY SizeAssumption DEF Length, Position, Succ

LEMMA LineFacts ==
  ASSUME NEW w \in Slots, NEW r \in Slots, NEW at \in [Slots -> Message \cup {NULL}]
  PROVE  /\ Line(w, r, at) \in Seq(Message \cup {NULL})
         /\ Len(Line(w, r, at)) = Length(w, r)
         /\ \A i \in 1 .. Length(w, r) : Line(w, r, at)[i] = at[Position(r, i)]
<1>1. \A i \in 1 .. Length(w, r) : at[Position(r, i)] \in Message \cup {NULL}
  BY LengthFacts
<1>2. Length(w, r) \in Nat
  BY LengthFacts
<1>3. Line(w, r, at) \in [1 .. Length(w, r) -> Message \cup {NULL}]
  BY <1>1 DEF Line
<1> QED
  BY <1>2, <1>3 DEF Line

LEMMA LineSame ==
  ASSUME NEW w \in Slots, NEW r \in Slots, NEW a, NEW b,
         \A p \in Slots : Between(w, r, p) => b[p] = a[p]
  PROVE  Line(w, r, b) = Line(w, r, a)
<1>1. \A i \in 1 .. Length(w, r) : b[Position(r, i)] = a[Position(r, i)]
  BY LengthFacts
<1> QED
  BY <1>1 DEF Line

LEMMA LinePut ==
  ASSUME NEW w \in Slots, NEW r \in Slots, Succ(w) # r,
         NEW a \in [Slots -> Message \cup {NULL}],
         NEW b \in [Slots -> Message \cup {NULL}],
         \A p \in Slots : Between(w, r, p) => b[p] = a[p]
  PROVE  Line(Succ(w), r, b) = Append(Line(w, r, a), b[w])
<1> DEFINE s == Line(w, r, a)
           u == Line(Succ(w), r, b)
           n == Length(w, r)
<1>1. Succ(w) \in Slots /\ b[w] \in Message \cup {NULL} /\ n \in Nat
  BY SuccInSlots, LengthFacts
<1>2. s \in Seq(Message \cup {NULL}) /\ Len(s) = n /\ \A i \in 1 .. n : s[i] = a[Position(r, i)]
  BY LineFacts
<1>3. u \in Seq(Message \cup {NULL}) /\ Len(u) = n + 1 /\ \A i \in 1 .. n + 1 : u[i] = b[Position(r, i)]
  <2>1. PICK q \in Slots : q = Succ(w)
    BY <1>1
  <2>2. /\ Line(q, r, b) \in Seq(Message \cup {NULL}) /\ Len(Line(q, r, b)) = Length(q, r)
        /\ \A i \in 1 .. Length(q, r) : Line(q, r, b)[i] = b[Position(r, i)]
    BY LineFacts
  <2>3. Length(q, r) = n + 1
    BY <2>1, GrowFacts
  <2> QED
    BY <2>1, <2>2, <2>3
<1>4. \A i \in 1 .. n : b[Position(r, i)] = a[Position(r, i)]
  BY LengthFacts
<1>5. Position(r, n + 1) = w
  BY GrowFacts
<1> HIDE DEF s, u, n
<1>6. /\ Append(s, b[w]) \in Seq(Message \cup {NULL}) /\ Len(Append(s, b[w])) = n + 1
      /\ \A i \in 1 .. n + 1 : Append(s, b[w])[i] = IF i = n + 1 THEN b[w] ELSE s[i]
  BY <1>1, <1>2
<1>7. \A i \in 1 .. n + 1 : u[i] = Append(s, b[w])[i]
  BY <1>1, <1>2, <1>3, <1>4, <1>5, <1>6
<1>8. u = Append(s, b[w])
  BY <1>1, <1>3, <1>6, <1>7, SeqEqual
<1> QED
  BY <1>8 DEF s, u

LEMMA LineGet ==
  ASSUME NEW w \in Slots, NEW r \in Slots, w # r,
         NEW a \in [Slots -> Message \cup {NULL}],
         NEW b \in [Slots -> Message \cup {NULL}],
         \A p \in Slots : Between(w, r, p) /\ p # r => b[p] = a[p]
  PROVE  /\ Line(w, r, a) # << >>
         /\ Line(w, Succ(r), b) = Tail(Line(w, r, a))
<1> DEFINE s == Line(w, r, a)
           u == Line(w, Succ(r), b)
           n == Length(w, r)
<1>1. Succ(r) \in Slots /\ n \in Nat /\ n # 0
  BY SuccInSlots, LengthFacts
<1>2. s \in Seq(Message \cup {NULL}) /\ Len(s) = n /\ \A i \in 1 .. n : s[i] = a[Position(r, i)]
  BY LineFacts
<1>3. u \in Seq(Message \cup {NULL}) /\ Len(u) = n - 1 /\ \A i \in 1 .. n - 1 : u[i] = b[Position(Succ(r), i)]
  <2>1. PICK q \in Slots : q = Succ(r)
    BY <1>1
  <2>2. /\ Line(w, q, b) \in Seq(Message \cup {NULL}) /\ Len(Line(w, q, b)) = Length(w, q)
        /\ \A i \in 1 .. Length(w, q) : Line(w, q, b)[i] = b[Position(q, i)]
    BY LineFacts
  <2>3. Length(w, q) = n - 1
    BY <2>1, ShrinkFacts
  <2> QED
    BY <2>1, <2>2, <2>3
<1>4. \A i \in 1 .. n - 1 : b[Position(Succ(r), i)] = a[Position(r, i + 1)]
  <2> SUFFICES ASSUME NEW i \in 1 .. n - 1
               PROVE  b[Position(Succ(r), i)] = a[Position(r, i + 1)]
    OBVIOUS
  <2>1. Position(Succ(r), i) = Position(r, i + 1) /\ Position(r, i + 1) # r
    BY ShrinkFacts
  <2>2. i + 1 \in 1 .. n
    BY <1>1
  <2>3. Position(r, i + 1) \in Slots /\ Between(w, r, Position(r, i + 1))
    BY <2>2, LengthFacts
  <2> QED
    BY <2>1, <2>3
<1> HIDE DEF s, u, n
<1>5. s # << >>
  BY <1>1, <1>2
<1>6. /\ Tail(s) \in Seq(Message \cup {NULL}) /\ Len(Tail(s)) = n - 1
      /\ \A i \in 1 .. n - 1 : Tail(s)[i] = s[i + 1]
  BY <1>1, <1>2, <1>5
<1>7. \A i \in 1 .. n - 1 : u[i] = Tail(s)[i]
  BY <1>1, <1>2, <1>3, <1>4, <1>6
<1>8. u = Tail(s)
  BY <1>3, <1>6, <1>7, SeqEqual
<1> QED
  BY <1>5, <1>8 DEF s, u

LEMMA HeldType ==
  ASSUME NEW pc, NEW cl, NEW ms \in [Writers -> Message \cup {NULL}],
         NEW ptr \in [Slots -> Cell \cup {NULL, Wild}]
  PROVE  Held(pc, cl, ms, ptr) \in [Slots -> Message \cup {NULL}]
<1> SUFFICES ASSUME NEW p \in Slots
             PROVE  Held(pc, cl, ms, ptr)[p] \in Message \cup {NULL}
  BY DEF Held
<1> DEFINE C == {t \in Writers : pc[t] = "store" /\ cl[t] = p}
<1>1. Held(pc, cl, ms, ptr)[p] = IF C # {} THEN ms[CHOOSE t \in C : TRUE]
                                 ELSE IF IsCell(ptr[p]) THEN ptr[p].msg ELSE NULL
  BY DEF Held
<1>2. C # {} => (CHOOSE t \in C : TRUE) \in Writers
  <2>1. C # {} => (CHOOSE t \in C : TRUE) \in C
    OBVIOUS
  <2> QED
    BY <2>1
<1>3. IsCell(ptr[p]) => ptr[p].msg \in Message
  BY DEF IsCell, Cell
<1> HIDE DEF C
<1> QED
  BY <1>1, <1>2, <1>3

\* A slot without a claimer shows its cell, a slot with one the claimer's message.
LEMMA HeldFacts ==
  ASSUME NEW pc, NEW cl, NEW ms, NEW ptr, NEW p \in Slots
  PROVE  /\ (\A t \in Writers : ~(pc[t] = "store" /\ cl[t] = p))
              => Held(pc, cl, ms, ptr)[p] = (IF IsCell(ptr[p]) THEN ptr[p].msg ELSE NULL)
         /\ \A t \in Writers :
              /\ pc[t] = "store" /\ cl[t] = p
              /\ \A u \in Writers : pc[u] = "store" /\ cl[u] = p => u = t
              => Held(pc, cl, ms, ptr)[p] = ms[t]
<1> DEFINE C == {t \in Writers : pc[t] = "store" /\ cl[t] = p}
<1>1. Held(pc, cl, ms, ptr)[p] = IF C # {} THEN ms[CHOOSE t \in C : TRUE]
                                 ELSE IF IsCell(ptr[p]) THEN ptr[p].msg ELSE NULL
  BY DEF Held
<1>2. (\A t \in Writers : ~(pc[t] = "store" /\ cl[t] = p)) => C = {}
  OBVIOUS
<1>3. ASSUME NEW t \in Writers, pc[t] = "store", cl[t] = p,
             \A u \in Writers : pc[u] = "store" /\ cl[u] = p => u = t
      PROVE  Held(pc, cl, ms, ptr)[p] = ms[t]
  <2>1. C = {t}
    BY <1>3
  <2>2. (CHOOSE u \in C : TRUE) = t
    BY <2>1
  <2> QED
    BY <1>1, <2>1, <2>2
<1> QED
  BY <1>1, <1>2, <1>3

\* A slot shows what it showed when its claimers and its cell's message stay.
LEMMA HeldSame ==
  ASSUME NEW pc, NEW cl, NEW ms, NEW ptr, NEW pc2, NEW cl2, NEW ms2, NEW ptr2,
         NEW p \in Slots,
         \A t \in Writers : pc2[t] = "store" /\ cl2[t] = p <=> pc[t] = "store" /\ cl[t] = p,
         \A t \in Writers : pc[t] = "store" => ms2[t] = ms[t],
         IsCell(ptr2[p]) <=> IsCell(ptr[p]),
         IsCell(ptr[p]) => ptr2[p].msg = ptr[p].msg
  PROVE  Held(pc2, cl2, ms2, ptr2)[p] = Held(pc, cl, ms, ptr)[p]
<1> DEFINE C == {t \in Writers : pc[t] = "store" /\ cl[t] = p}
           D == {t \in Writers : pc2[t] = "store" /\ cl2[t] = p}
<1>1. Held(pc, cl, ms, ptr)[p] = IF C # {} THEN ms[CHOOSE t \in C : TRUE]
                                 ELSE IF IsCell(ptr[p]) THEN ptr[p].msg ELSE NULL
  BY DEF Held
<1>2. Held(pc2, cl2, ms2, ptr2)[p] = IF D # {} THEN ms2[CHOOSE t \in D : TRUE]
                                     ELSE IF IsCell(ptr2[p]) THEN ptr2[p].msg ELSE NULL
  BY DEF Held
<1>3. D = C
  OBVIOUS
<1>4. C # {} => ms2[CHOOSE t \in C : TRUE] = ms[CHOOSE t \in C : TRUE]
  <2>1. C # {} => (CHOOSE t \in C : TRUE) \in C
    OBVIOUS
  <2> QED
    BY <2>1
<1> HIDE DEF C, D
<1> QED
  BY <1>1, <1>2, <1>3, <1>4

LEMMA MessageAtType ==
  /\ CellTypeOK => MessageAt \in [Slots -> Message \cup {NULL}]
  /\ CellTypeOK' => MessageAt' \in [Slots -> Message \cup {NULL}]
<1>1. ASSUME CellTypeOK
      PROVE  MessageAt \in [Slots -> Message \cup {NULL}]
  BY <1>1, HeldType, MessageAtIsHeld DEF CellTypeOK
<1>2. ASSUME CellTypeOK'
      PROVE  MessageAt' \in [Slots -> Message \cup {NULL}]
  BY <1>2, HeldType, MessageAtIsHeld DEF CellTypeOK
<1> QED
  BY <1>1, <1>2

\* The three things a step does to the queue: nothing, a put, a get.
LEMMA ContentsSame ==
  ASSUME CellTypeOK, UNCHANGED << m_write_pos, m_read_pos >>,
         \A p \in Slots : InQueue(p) => MessageAt'[p] = MessageAt[p]
  PROVE  Contents' = Contents
<1>1. \A p \in Slots : Between(m_write_pos, m_read_pos, p) => MessageAt'[p] = MessageAt[p]
  BY QueueIsBetween
<1>2. m_write_pos \in Slots /\ m_read_pos \in Slots
  BY DEF CellTypeOK
<1>3. Line(m_write_pos, m_read_pos, MessageAt') = Line(m_write_pos, m_read_pos, MessageAt)
  BY <1>1, <1>2, LineSame
<1> QED
  BY <1>3, ContentsIsLine

LEMMA ContentsPut ==
  ASSUME CellTypeOK, CellTypeOK', Succ(m_write_pos) # m_read_pos,
         m_write_pos' = Succ(m_write_pos), m_read_pos' = m_read_pos,
         \A p \in Slots : InQueue(p) => MessageAt'[p] = MessageAt[p]
  PROVE  /\ Len(Contents) < sendCellSize - 1
         /\ Contents' = Append(Contents, MessageAt'[m_write_pos])
<1>1. \A p \in Slots : Between(m_write_pos, m_read_pos, p) => MessageAt'[p] = MessageAt[p]
  BY QueueIsBetween
<1>2. /\ m_write_pos \in Slots /\ m_read_pos \in Slots
      /\ MessageAt \in [Slots -> Message \cup {NULL}]
      /\ MessageAt' \in [Slots -> Message \cup {NULL}]
  BY MessageAtType DEF CellTypeOK
<1>3. Line(Succ(m_write_pos), m_read_pos, MessageAt')
        = Append(Line(m_write_pos, m_read_pos, MessageAt), MessageAt'[m_write_pos])
  BY <1>1, <1>2, LinePut
<1>4. Len(Contents) < sendCellSize - 1
  <2>1. Len(Line(m_write_pos, m_read_pos, MessageAt)) = Length(m_write_pos, m_read_pos)
    BY <1>2, LineFacts
  <2> QED
    BY <1>2, <2>1, GrowFacts, ContentsIsLine
<1> QED
  BY <1>3, <1>4, ContentsIsLine

LEMMA ContentsGet ==
  ASSUME CellTypeOK, CellTypeOK', ~is_empty,
         m_write_pos' = m_write_pos, m_read_pos' = Succ(m_read_pos),
         \A p \in Slots : InQueue(p) /\ p # m_read_pos => MessageAt'[p] = MessageAt[p]
  PROVE  Contents # << >> /\ Contents' = Tail(Contents)
<1>1. \A p \in Slots : Between(m_write_pos, m_read_pos, p) /\ p # m_read_pos
                         => MessageAt'[p] = MessageAt[p]
  BY QueueIsBetween
<1>2. /\ m_write_pos \in Slots /\ m_read_pos \in Slots /\ m_write_pos # m_read_pos
      /\ MessageAt \in [Slots -> Message \cup {NULL}]
      /\ MessageAt' \in [Slots -> Message \cup {NULL}]
  BY MessageAtType DEF CellTypeOK, is_empty
<1>3. /\ Line(m_write_pos, m_read_pos, MessageAt) # << >>
      /\ Line(m_write_pos, Succ(m_read_pos), MessageAt')
           = Tail(Line(m_write_pos, m_read_pos, MessageAt))
  BY <1>1, <1>2, LineGet
<1> QED
  BY <1>3, ContentsIsLine

LEMMA ContentsFirst ==
  ASSUME CellTypeOK, ~is_empty
  PROVE  Contents[1] = MessageAt[m_read_pos]
<1>1. m_write_pos \in Slots /\ m_read_pos \in Slots /\ m_write_pos # m_read_pos
  BY DEF CellTypeOK, is_empty
<1>2. Length(m_write_pos, m_read_pos) \in Nat \ {0} /\ Position(m_read_pos, 1) = m_read_pos
  BY <1>1, LengthFacts, SizeAssumption DEF Position
<1> QED
  BY <1>2, ContentsIsLine DEF Line

\* What a slot shows stays when its claimers, their messages and its cell's message do.
LEMMA MessageStaysAt ==
  ASSUME NEW p \in Slots,
         \A t \in Writers :
           wpc'[t] = "store" /\ wclaim'[t] = p <=> wpc[t] = "store" /\ wclaim[t] = p,
         \A t \in Writers : wpc[t] = "store" => wmsg'[t] = wmsg[t],
         IsCell(m_scu_ptr'[p]) <=> IsCell(m_scu_ptr[p]),
         IsCell(m_scu_ptr[p]) => m_scu_ptr'[p].msg = m_scu_ptr[p].msg
  PROVE  MessageAt'[p] = MessageAt[p]
<1>1. Held(wpc', wclaim', wmsg', m_scu_ptr')[p] = Held(wpc, wclaim, wmsg, m_scu_ptr)[p]
  BY HeldSame
<1> QED
  BY <1>1, MessageAtIsHeld

LEMMA MessageStays ==
  ASSUME NEW p \in Slots,
         \A t \in Writers : wpc'[t] = "store" <=> wpc[t] = "store",
         \A t \in Writers : wpc[t] = "store" => wclaim'[t] = wclaim[t] /\ wmsg'[t] = wmsg[t],
         IsCell(m_scu_ptr'[p]) <=> IsCell(m_scu_ptr[p]),
         IsCell(m_scu_ptr[p]) => m_scu_ptr'[p].msg = m_scu_ptr[p].msg
  PROVE  MessageAt'[p] = MessageAt[p]
<1>1. \A t \in Writers :
        wpc'[t] = "store" /\ wclaim'[t] = p <=> wpc[t] = "store" /\ wclaim[t] = p
  OBVIOUS
<1> QED
  BY <1>1, MessageStaysAt

LEMMA ClaimPuts ==
  ASSUME CellTypeOK, CellTypeOK', RoomyInv, NEW t \in Writers, Claim(t), ClaimInRoom
  PROVE  /\ wmsg[t] \in Message
         /\ Len(Contents) < sendCellSize - 1
         /\ Contents' = Append(Contents, wmsg[t])
<1>0. /\ wclaim \in [Writers -> Slots] /\ m_write_pos \in Slots /\ m_read_pos \in Slots
      /\ DOMAIN wpc = Writers
  BY DEF CellTypeOK
<1>1. /\ wpc[t] = "claim" /\ wpc' = [wpc EXCEPT ![t] = "store"]
      /\ wclaim' = [wclaim EXCEPT ![t] = m_write_pos]
      /\ m_write_pos' = Succ(m_write_pos)
      /\ UNCHANGED << m_read_pos, m_scu_ptr, wmsg >>
  BY DEF Claim
<1>2. Succ(m_write_pos) # m_read_pos
  BY <1>0, <1>1 DEF ClaimInRoom
<1>3. wmsg[t] \in Message
  BY <1>1 DEF CellTypeOK
<1>4. ~InQueue(m_write_pos)
  BY <1>0, OutsideQueue
<1>5. ASSUME NEW p \in Slots, InQueue(p)
      PROVE  MessageAt'[p] = MessageAt[p]
  <2>1. p # m_write_pos
    BY <1>4, <1>5
  <2>2. \A u \in Writers :
          wpc'[u] = "store" /\ wclaim'[u] = p <=> wpc[u] = "store" /\ wclaim[u] = p
    BY <1>0, <1>1, <2>1
  <2>3. /\ \A u \in Writers : wpc[u] = "store" => wmsg'[u] = wmsg[u]
        /\ IsCell(m_scu_ptr'[p]) <=> IsCell(m_scu_ptr[p])
        /\ IsCell(m_scu_ptr[p]) => m_scu_ptr'[p].msg = m_scu_ptr[p].msg
    BY <1>1
  <2> QED
    BY <2>2, <2>3, MessageStaysAt
<1>6. MessageAt'[m_write_pos] = wmsg[t]
  <2>1. ASSUME NEW u \in Writers, wpc'[u] = "store", wclaim'[u] = m_write_pos, u # t
        PROVE  FALSE
    <3>1. wpc[u] = "store" /\ wclaim[u] = m_write_pos
      BY <1>0, <1>1, <2>1
    <3> QED
      BY <1>4, <3>1 DEF RoomyInv, Storing
  <2>2. wpc'[t] = "store" /\ wclaim'[t] = m_write_pos /\ wmsg'[t] = wmsg[t]
    BY <1>0, <1>1
  <2>3. Held(wpc', wclaim', wmsg', m_scu_ptr')[m_write_pos] = wmsg'[t]
    BY <1>0, <2>1, <2>2, HeldFacts
  <2> QED
    BY <2>2, <2>3, MessageAtIsHeld
<1> QED
  BY <1>1, <1>2, <1>3, <1>5, <1>6, ContentsPut

LEMMA OtherWritesKeepQueue ==
  ASSUME CellTypeOK, CellTypeOK', RoomyInv, NEW t \in Writers,
         \/ \E m \in Message : WriteBegin(t, m)
         \/ IsFull(t) \/ Store(t) \/ Enable(t) \/ WriteReturn(t)
  PROVE  Contents' = Contents
<1>0. /\ wclaim \in [Writers -> Slots] /\ m_write_pos \in Slots /\ m_read_pos \in Slots
      /\ DOMAIN wpc = Writers /\ DOMAIN wmsg = Writers
      /\ m_scu_ptr \in [Slots -> Cell \cup {NULL, Wild}]
  BY DEF CellTypeOK
<1>1. CASE (\E m \in Message : WriteBegin(t, m)) \/ IsFull(t) \/ WriteReturn(t)
  <2>1. /\ \A u \in Writers : wpc'[u] = "store" <=> wpc[u] = "store"
        /\ \A u \in Writers : wpc[u] = "store" => wclaim'[u] = wclaim[u] /\ wmsg'[u] = wmsg[u]
        /\ UNCHANGED << m_write_pos, m_read_pos, m_scu_ptr >>
    BY <1>0, <1>1 DEF WriteBegin, IsFull, WriteReturn, posVars
  <2>2. \A p \in Slots : MessageAt'[p] = MessageAt[p]
    BY <2>1, MessageStays
  <2> QED
    BY <2>1, <2>2, ContentsSame
<1>2. CASE Store(t)
  <2>1. /\ wpc[t] = "store" /\ wpc' = [wpc EXCEPT ![t] = "enable"]
        /\ m_scu_ptr' = [m_scu_ptr EXCEPT ![wclaim[t]] =
             [msg |-> wmsg[t], left |-> Units(wmsg[t]), enableRead |-> FALSE]]
        /\ UNCHANGED << m_write_pos, m_read_pos, wmsg, wclaim >>
    BY <1>2 DEF Store
  <2>2. PICK q \in Slots : q = wclaim[t]
    BY <1>0
  <2>3. \A u \in Writers : wpc[u] = "store" /\ wclaim[u] = q => u = t
    BY <2>1, <2>2 DEF RoomyInv, Storing
  <2>4. m_scu_ptr'[q] \in Cell /\ m_scu_ptr'[q].msg = wmsg[t]
    <3>1. m_scu_ptr'[q] =
            [msg |-> wmsg[t], left |-> Units(wmsg[t]), enableRead |-> FALSE]
      BY <1>0, <2>1, <2>2
    <3>2. wmsg[t] \in Message
      BY <2>1 DEF CellTypeOK
    <3> QED
      BY <3>1, <3>2, UnitsAssumption DEF Cell
  <2>5. MessageAt'[q] = MessageAt[q]
    <3>1. MessageAt[q] = wmsg[t]
      BY <2>1, <2>2, <2>3, HeldFacts, MessageAtIsHeld
    <3>2. \A u \in Writers : ~(wpc'[u] = "store" /\ wclaim'[u] = q)
      BY <1>0, <2>1, <2>3
    <3>3. Held(wpc', wclaim', wmsg', m_scu_ptr')[q] = m_scu_ptr'[q].msg
      BY <2>4, <3>2, HeldFacts, CellIsNotNull
    <3> QED
      BY <2>4, <3>1, <3>3, MessageAtIsHeld
  <2>6. ASSUME NEW p \in Slots, p # q
        PROVE  MessageAt'[p] = MessageAt[p]
    <3>1. m_scu_ptr'[p] = m_scu_ptr[p]
      BY <1>0, <2>1, <2>2, <2>6
    <3>2. \A u \in Writers :
            wpc'[u] = "store" /\ wclaim'[u] = p <=> wpc[u] = "store" /\ wclaim[u] = p
      BY <1>0, <2>1, <2>2, <2>6
    <3>3. /\ \A u \in Writers : wpc[u] = "store" => wmsg'[u] = wmsg[u]
          /\ IsCell(m_scu_ptr'[p]) <=> IsCell(m_scu_ptr[p])
          /\ IsCell(m_scu_ptr[p]) => m_scu_ptr'[p].msg = m_scu_ptr[p].msg
      BY <2>1, <3>1
    <3> QED
      BY <3>2, <3>3, MessageStaysAt
  <2> QED
    BY <2>1, <2>5, <2>6, ContentsSame
<1>3. CASE Enable(t)
  <2>1. /\ wpc[t] = "enable" /\ wpc'[t] \in {"ok", "fault"}
        /\ \A u \in Writers : u # t => wpc'[u] = wpc[u]
        /\ UNCHANGED << m_write_pos, m_read_pos, wmsg, wclaim >>
    BY <1>0, <1>3 DEF Enable
  <2>2. \A u \in Writers : wpc'[u] = "store" <=> wpc[u] = "store"
    BY <2>1
  <2>3. ASSUME NEW p \in Slots
        PROVE  /\ IsCell(m_scu_ptr'[p]) <=> IsCell(m_scu_ptr[p])
               /\ IsCell(m_scu_ptr[p]) => m_scu_ptr'[p].msg = m_scu_ptr[p].msg
    <3>1. CASE ~IsCell(m_scu_ptr[wclaim[t]]) \/ p # wclaim[t]
      BY <1>0, <1>3, <3>1 DEF Enable
    <3>2. CASE IsCell(m_scu_ptr[wclaim[t]]) /\ p = wclaim[t]
      <4>1. PICK c \in Cell : c = m_scu_ptr[p]
        BY <1>0, <3>2, SlotIsCell
      <4>2. m_scu_ptr'[p] = [c EXCEPT !.enableRead = TRUE]
        BY <1>0, <1>3, <3>2, <4>1 DEF Enable
      <4>3. m_scu_ptr'[p] \in Cell /\ m_scu_ptr'[p].msg = c.msg
        BY <4>1, <4>2, CellUpdate, ZenonT(60) DEF Cell
      <4> QED
        BY <4>1, <4>3, CellIsNotNull
    <3> QED
      BY <3>1, <3>2
  <2>4. \A p \in Slots : MessageAt'[p] = MessageAt[p]
    BY <2>1, <2>2, <2>3, MessageStays
  <2> QED
    BY <2>1, <2>4, ContentsSame
<1> QED
  BY <1>1, <1>2, <1>3

LEMMA HasReadGets ==
  ASSUME CellTypeOK, CellTypeOK', RoomyInv, enable_read,
         NEW len \in 1 .. m_scu_ptr[m_read_pos].left, HasRead(len)
  PROVE  IF len < m_scu_ptr[m_read_pos].left
         THEN Contents' = Contents
         ELSE /\ Contents # << >> /\ Contents[1] = m_scu_ptr[m_read_pos].msg
              /\ Contents' = Tail(Contents)
<1>0. m_read_pos \in Slots /\ m_scu_ptr \in [Slots -> Cell \cup {NULL, Wild}]
      /\ wclaim \in [Writers -> Slots]
  BY DEF CellTypeOK
<1>1. PICK c \in Cell : c = m_scu_ptr[m_read_pos]
  BY <1>0, SlotIsCell DEF enable_read
<1>2. ~is_empty /\ UNCHANGED << m_write_pos, wpc, wmsg, wclaim >>
  BY DEF HasRead, enable_read, writerVars
<1>3. ASSUME NEW p \in Slots, p # m_read_pos
      PROVE  MessageAt'[p] = MessageAt[p]
  <2>1. m_scu_ptr'[p] = m_scu_ptr[p]
    BY <1>0, <1>3 DEF HasRead
  <2> QED
    BY <1>2, <2>1, MessageStays
<1>4. CASE len < c.left
  <2>1. /\ m_scu_ptr'[m_read_pos] = [c EXCEPT !.left = c.left - len]
        /\ m_read_pos' = m_read_pos
    BY <1>0, <1>1, <1>4 DEF HasRead
  <2>2. c.left - len \in Nat
    BY <1>1, <1>4 DEF Cell
  <2>3. m_scu_ptr'[m_read_pos] \in Cell /\ m_scu_ptr'[m_read_pos].msg = c.msg
    BY <2>1, <2>2, CellUpdate, ZenonT(60) DEF Cell
  <2>4. MessageAt'[m_read_pos] = MessageAt[m_read_pos]
    BY <1>0, <1>1, <1>2, <2>3, CellIsNotNull, MessageStays
  <2>5. Contents' = Contents
    BY <1>2, <1>3, <2>1, <2>4, ContentsSame
  <2> QED
    BY <1>1, <1>4, <2>5
<1>5. CASE ~(len < c.left)
  <2>1. m_read_pos' = Succ(m_read_pos)
    BY <1>1, <1>5 DEF HasRead
  <2>2. Contents # << >> /\ Contents' = Tail(Contents)
    BY <1>2, <1>3, <2>1, ContentsGet
  <2>3. \A t \in Writers : ~(wpc[t] = "store" /\ wclaim[t] = m_read_pos)
    BY DEF RoomyInv, NoOverwrite, enable_read
  <2>4. MessageAt[m_read_pos] = c.msg
    <3>1. PICK h \in Slots : h = m_read_pos
      BY <1>0
    <3>2. \A t \in Writers : ~(wpc[t] = "store" /\ wclaim[t] = h)
      BY <2>3, <3>1
    <3>3. Held(wpc, wclaim, wmsg, m_scu_ptr)[h] =
            (IF IsCell(m_scu_ptr[h]) THEN m_scu_ptr[h].msg ELSE NULL)
      BY <3>2, HeldFacts
    <3>4. IsCell(m_scu_ptr[h])
      BY <1>1, <3>1, CellIsNotNull
    <3> QED
      BY <1>1, <3>1, <3>3, <3>4, MessageAtIsHeld
  <2> QED
    BY <1>1, <1>2, <1>5, <2>2, <2>4, ContentsFirst
<1> QED
  BY <1>1, <1>4, <1>5

LEMMA FreeKeepsQueue ==
  ASSUME CellTypeOK, RoomyInv, HasReadClear
  PROVE  Contents' = Contents
<1>1. /\ rpc = "clear" /\ m_scu_ptr' = [m_scu_ptr EXCEPT ![rclear] = NULL]
      /\ UNCHANGED << m_write_pos, m_read_pos, wpc, wmsg, wclaim >>
  BY DEF HasReadClear, writerVars
<1>2. rclear \in Slots /\ DOMAIN m_scu_ptr = Slots
  BY DEF CellTypeOK
<1>3. ~InQueue(rclear)
  BY <1>1, <1>2, OutsideQueue DEF RoomyInv
<1>4. ASSUME NEW p \in Slots, InQueue(p)
      PROVE  MessageAt'[p] = MessageAt[p]
  <2>1. m_scu_ptr'[p] = m_scu_ptr[p]
    BY <1>1, <1>2, <1>3, <1>4
  <2> QED
    BY <1>1, <2>1, MessageStays
<1> QED
  BY <1>1, <1>4, ContentsSame

LEMMA StutterKeepsQueue == UNCHANGED << posVars, writerVars >> => Contents' = Contents
BY DEF posVars, writerVars, Contents, Occupancy, NthSlot, MessageAt

LEMMA ClearGets ==
  ASSUME CellTypeOK, CellTypeOK', Clear
  PROVE  Contents' = Contents \/ (Contents # << >> /\ Contents' = Tail(Contents))
<1>1. CASE ClearBegin \/ ClearDone
  <2>1. UNCHANGED << posVars, writerVars >>
    BY <1>1 DEF ClearBegin, ClearDone
  <2> QED
    BY <2>1, StutterKeepsQueue
<1>2. CASE ClearOne
  <2>1. /\ ~is_empty /\ m_scu_ptr' = [m_scu_ptr EXCEPT ![m_read_pos] = NULL]
        /\ m_read_pos' = Succ(m_read_pos)
        /\ UNCHANGED << m_write_pos, wpc, wmsg, wclaim >>
    BY <1>2 DEF ClearOne, writerVars
  <2>2. ASSUME NEW p \in Slots, p # m_read_pos
        PROVE  MessageAt'[p] = MessageAt[p]
    <3>1. m_scu_ptr'[p] = m_scu_ptr[p]
      BY <2>1, <2>2 DEF CellTypeOK
    <3> QED
      BY <2>1, <3>1, MessageStays
  <2> QED
    BY <2>1, <2>2, ContentsGet
<1> QED
  BY <1>1, <1>2 DEF Clear

LEMMA FifoStep ==
  CellTypeOK /\ CellTypeOK' /\ RoomyInv /\ [CellNext /\ ClaimInRoom]_cellVars
    => [Fifo!Next]_Contents
<1> SUFFICES ASSUME CellTypeOK, CellTypeOK', RoomyInv, [CellNext /\ ClaimInRoom]_cellVars
             PROVE  Contents' = Contents \/ Fifo!Get \/ \E m \in Message : Fifo!Put(m)
  BY DEF Fifo!Next
<1>1. ASSUME ClaimInRoom, NEW t \in Writers, Write(t)
      PROVE  Contents' = Contents \/ \E m \in Message : Fifo!Put(m)
  BY <1>1, ClaimPuts, OtherWritesKeepQueue DEF Write, WriteStep, Fifo!Put
<1>2. CASE Read
  BY <1>2, HasReadGets, FreeKeepsQueue DEF Read, Fifo!Get
<1>3. CASE Clear
  BY <1>3, ClearGets DEF Fifo!Get
<1>4. CASE UNCHANGED cellVars
  BY <1>4, StutterKeepsQueue DEF cellVars
<1> QED
  BY <1>1, <1>2, <1>3, <1>4 DEF CellNext

LEMMA FifoInit == CellInit => Fifo!Init
<1> SUFFICES ASSUME CellInit PROVE Contents = << >>
  BY DEF Fifo!Init
<1>1. Occupancy = 0
  BY DEF CellInit, Occupancy
<1> QED
  BY <1>1 DEF Contents

\* With room between the writers the ring is the bounded queue of MessageFifo: what
\* write_chche claims leaves through has_read (or the destructor) in the order of the
\* fetch_adds, nothing lost, doubled or overtaken, and never more than sendCellSize - 1.
THEOREM RoomyImplementsFifo == RoomySpec => ImplementsFifo
<1>1. RoomySpec => CellSpec
  <2>1. [CellNext /\ ClaimInRoom]_cellVars => [CellNext]_cellVars
    OBVIOUS
  <2> QED
    BY <2>1, PTL DEF RoomySpec, CellSpec
<1> QED
  BY <1>1, CellTypeCorrect, RoomyInit, RoomyStep, FifoInit, FifoStep, PTL
     DEF RoomySpec, ImplementsFifo, Fifo!Spec

\* One writer always leaves room, for write_chche checks is_full just before it claims.
THEOREM OneWriterImplementsFifo ==
  ASSUME SingleWriter
  PROVE  CellSpec => ImplementsFifo
<1>1. CellTypeOK /\ RingInv /\ [CellNext]_cellVars => [CellNext /\ ClaimInRoom]_cellVars
  <2> SUFFICES ASSUME CellTypeOK, RingInv, CellNext, NEW t \in Writers,
                      wpc[t] = "claim"
               PROVE  Succ(m_write_pos) # m_read_pos
    BY DEF ClaimInRoom
  <2> QED
    BY DEF RingInv
<1> QED
  BY <1>1, CellTypeCorrect, RingInvCorrect, RoomyImplementsFifo, PTL DEF CellSpec, RoomySpec
=============================================================================
