--------------------------- MODULE PathRingProofs ---------------------------
(***************************************************************************)
(* What is proved of the sending half as a whole, SendPath.tla over the    *)
(* ring of SendCell.tla, for any number of application threads, any ring   *)
(* size and both sides of a connection.                                    *)
(***************************************************************************)
EXTENDS SendPathProofs, SendCellProofs

LEMMA ThreadsAreWriters == Threads = Writers
BY ThreadsAssumption DEF Threads

LEMMA MessageFacts ==
  /\ HeartBeat \in Message /\ HeartBeat \notin AppMessage
  /\ AppMessage \subseteq Message
  /\ \A m \in Message : m # HeartBeat => m \in AppMessage
  /\ \A t \in Senders, n \in Nat : 1 <= n /\ n <= Sends[t] => << t, n >> \in AppMessage
<1>1. ASSUME NEW t \in Senders, NEW n \in Nat, 1 <= n, n <= Sends[t]
      PROVE  << t, n >> \in AppMessage
  <2>1. n \in 1 .. Sends[t]
    BY <1>1, SendsAssumption
  <2>2. << t, n >> \in {t} \X (1 .. Sends[t])
    BY <2>1
  <2> QED
    BY <2>2 DEF AppMessage
<1> QED
  BY <1>1, MessageAssumption

-----------------------------------------------------------------------------
(* Types.                                                                  *)

\* What a thread brings to write_chche is a message, and stays one.
Outbound == \A t \in Threads : pc[t] = "deliver" => Outgoing(t) \in Message

Carried == \A t \in Writers : wpc[t] \in {"ok", "full"} => wmsg[t] \in Message

PathTyped == PathTypeOK /\ Outbound /\ Carried

\* Where a thread may be.
Places == {"idle", "deliver", "write", "do_write", "enabled", "release", "expire", "wait",
           "done", "arm", "read", "written", "parse", "closing"}

\* What the steps of the path do to the ring and to the wire: a thread is inside
\* write_chche; do_write shows async_write_some the head of the ring, or a write fails;
\* handle_write; has_read frees its cell.
Writes(t) ==
  (\E m \in Message : WriteBegin(t, m)) \/ WriteStep(t) \/ WriteReturn(t)

Shown(v) ==
  /\ enable_read
  /\ v = [msg |-> m_scu_ptr[m_read_pos].msg, left |-> m_scu_ptr[m_read_pos].left]

HandsOver == (inflight' = NULL \/ Shown(inflight')) /\ UNCHANGED << cellVars, open, sent >>

RingStep ==
  \/ (\E t \in Writers : Writes(t)) /\ UNCHANGED wireVars
  \/ inflight # NULL /\ \E k \in 1 .. inflight.left : HandleWrite(k)
  \/ HasReadClear /\ UNCHANGED wireVars
  \/ HandsOver
  \/ UNCHANGED << cellVars, wireVars >>

LEMMA PathMovesRing ==
  ASSUME PathTyped, [PathNext]_pathVars
  PROVE  RingStep
<1>1. ASSUME NEW t \in Threads, DeliverStep(t)
      PROVE  RingStep
  <2>1. CASE Deliver(t)
    BY <1>1, <2>1, ThreadsAreWriters DEF Deliver, RingStep, Writes, PathTyped, Outbound
  <2>2. CASE WriteChche(t)
    BY <1>1, <2>2, ThreadsAreWriters DEF WriteChche, RingStep, Writes, PathTyped, Carried
  <2>3. CASE WriteOk(t) \/ WriteFull(t)
    BY <2>3 DEF WriteOk, WriteFull, RingStep
  <2>4. CASE Done(t)
    BY <2>4, ThreadsAreWriters DEF Done, RingStep, Writes
  <2> QED
    BY <1>1, <2>1, <2>2, <2>3, <2>4 DEF DeliverStep
<1>2. ASSUME NEW t \in Threads, AsyncWrite(t)
      PROVE  RingStep
  <2>1. CASE enable_read
    BY <1>2, <2>1 DEF AsyncWrite, HandsOver, Shown, RingStep
  <2>2. CASE ~enable_read
    BY <1>2, <2>2 DEF AsyncWrite, wireVars, RingStep
  <2> QED
    BY <2>1, <2>2
<1>3. ASSUME NEW t \in Threads,
             \/ DoWrite(t) \/ Release(t) \/ Expire(t) \/ AsyncWait(t)
             \/ ArmHandle(t) \/ DoRead(t)
      PROVE  RingStep
  BY <1>3 DEF DoWrite, Release, Expire, AsyncWait, ArmHandle, DoRead, RingStep
<1>4. CASE \/ FreeCell \/ Written \/ Closing
           \/ ParseReply \/ ParseHeartBeat \/ ParseOwnHeartBeat \/ ParseEnd
  BY <1>4 DEF FreeCell, Written, Closing, ParseReply, ParseHeartBeat,
              ParseOwnHeartBeat, ParseEnd, RingStep
<1>5. CASE HandleWriteDone
  BY <1>5 DEF HandleWriteDone, HandleWriteError, HandsOver, RingStep
<1>6. CASE \E t \in Apps : Send(t)
  BY <1>6 DEF Send, RingStep
<1>7. CASE \/ HeartBeatSend \/ HeartBeatHandle \/ HandleRead \/ HandleReadError \/ HandleClose
           \/ SendTimerFires \/ HandleTimerFires \/ Stop
  BY <1>7 DEF HeartBeatSend, HeartBeatHandle, HandleRead, HandleReadError, HandleClose,
              SendTimerFires, HandleTimerFires, Stop, RingStep
<1>8. CASE UNCHANGED pathVars
  BY <1>8 DEF pathVars, RingStep
<1> QED
  BY <1>1, <1>2, <1>3, <1>4, <1>5, <1>6, <1>7, <1>8 DEF PathNext, Step, DoWriteStep

LEMMA RingStepTyped ==
  ASSUME PathTyped, RingStep
  PROVE  CellTypeOK' /\ Carried'
<1>0. CellTypeOK
  BY DEF PathTyped, PathTypeOK
<1>1. CellTypeOK'
  <2>1. CASE \E t \in Writers : Writes(t)
    BY <1>0, <2>1, WriteKeepsType DEF Writes
  <2>2. ASSUME inflight # NULL, NEW k \in 1 .. inflight.left, HandleWrite(k)
        PROVE  CellTypeOK'
    <3>1. k \in Nat
      BY <2>2 DEF PathTyped, PathTypeOK
    <3> QED
      BY <1>0, <2>2, <3>1, HasReadKeepsType DEF HandleWrite
  <2> QED
    BY <1>0, <2>1, <2>2, FreeKeepsType, StutterKeepsType DEF RingStep, HandsOver
<1>2. Carried'
  <2>1. ASSUME NEW t \in Writers, Writes(t)
        PROVE  Carried'
    <3>1. /\ DOMAIN wpc = Writers /\ DOMAIN wmsg = Writers
          /\ wpc[t] = "is_full" \/ wpc[t] = "enable" => wmsg[t] \in Message
      BY <1>0 DEF CellTypeOK
    <3>2. CASE (\E m \in Message : WriteBegin(t, m)) \/ IsFull(t)
      BY <3>1, <3>2 DEF WriteBegin, IsFull, Carried, PathTyped
    <3>3. CASE Claim(t) \/ Store(t)
      BY <3>1, <3>3 DEF Claim, Store, Carried, PathTyped
    <3>4. CASE Enable(t)
      BY <3>1, <3>4 DEF Enable, Carried, PathTyped
    <3>5. CASE WriteReturn(t)
      BY <3>1, <3>5 DEF WriteReturn, Carried, PathTyped
    <3> QED
      BY <2>1, <3>2, <3>3, <3>4, <3>5 DEF Writes, WriteStep
  <2>2. CASE \/ \E k \in 1 .. inflight.left : HandleWrite(k)
             \/ HasReadClear \/ UNCHANGED cellVars
    BY <2>2 DEF HandleWrite, HasRead, HasReadClear, cellVars, writerVars, Carried, PathTyped
  <2> QED
    BY <2>1, <2>2 DEF RingStep, HandsOver
<1> QED
  BY <1>1, <1>2

LEMMA PathInitTyped == PathInit => PathTyped
<1> SUFFICES ASSUME PathInit
             PROVE  PathTyped
  OBVIOUS
<1>1. CellTypeOK
  BY CellTypeInit DEF PathInit
<1>2. /\ sends \in [Senders -> Nat] /\ \A t \in Senders : sends[t] <= Sends[t]
      /\ echoes \in 0 .. MaxEchoes /\ tries \in [Threads -> 0 .. MaxTries]
  BY SendsAssumption, TriesAssumption DEF PathInit
<1>3. /\ sent \in Seq(AppMessage) /\ accepted \subseteq AppMessage
      /\ sendWaits \in Nat /\ sendFired \in Nat
  BY DEF PathInit
<1>4. PathTypeOK
  BY <1>1, <1>2, <1>3 DEF PathInit, PathTypeOK
<1>5. Outbound
  BY MessageFacts DEF PathInit, Outbound, Outgoing
<1>6. Carried
  BY DEF PathInit, CellInit, Carried
<1> QED
  BY <1>4, <1>5, <1>6 DEF PathTyped

LEMMA OutboundKept ==
  ASSUME PathTyped, UNCHANGED << cont, sends >>,
         pc' = pc \/ \E t \in Threads, l \in Places \ {"deliver"} : Goto(t, l)
  PROVE  Outbound'
<1>1. \A t \in Threads : pc'[t] = "deliver" => pc[t] = "deliver"
  BY DEF Goto, PathTyped, PathTypeOK
<1> QED
  BY <1>1 DEF PathTyped, Outbound, Outgoing

LEMMA DeliverStepTyped ==
  ASSUME PathTyped, CellTypeOK', NEW t \in Threads, DeliverStep(t)
  PROVE  PathTypeOK' /\ Outbound'
<1>1. CASE Deliver(t)
  <2>1. tries' \in [Threads -> 0 .. MaxTries]
    BY <1>1, TriesAssumption DEF Deliver, PathTyped, PathTypeOK
  <2>2. PathTypeOK'
    BY <1>1, <2>1, ZenonT(60) DEF Deliver, Goto, PathTyped, PathTypeOK, gateVars, wireVars,
       timerVars, loopVars
  <2> QED
    BY <1>1, <2>2, OutboundKept DEF Deliver, Places
<1>2. CASE WriteChche(t)
  <2>1. tries' \in [Threads -> 0 .. MaxTries]
    BY <1>2, TriesAssumption, SMTT(30) DEF WriteChche, PathTyped, PathTypeOK
  <2>2. PathTypeOK'
    BY <1>2, <2>1 DEF WriteChche, PathTyped, PathTypeOK, gateVars, wireVars, timerVars, loopVars
  <2> QED
    BY <1>2, <2>2, OutboundKept DEF WriteChche
<1>3. CASE WriteOk(t)
  <2>1. wmsg[t] \in Message
    BY <1>3, ThreadsAreWriters DEF WriteOk, PathTyped, Carried
  <2>2. accepted' \subseteq AppMessage
    BY <1>3, <2>1, MessageFacts DEF WriteOk, PathTyped, PathTypeOK
  <2> QED
    BY <1>3, <2>2 DEF WriteOk, Goto, PathTyped, PathTypeOK, Outbound, Outgoing, gateVars,
       callVars, wireVars, timerVars, loopVars
<1>4. CASE WriteFull(t)
  BY <1>4 DEF WriteFull, Goto, PathTyped, PathTypeOK, Outbound, Outgoing, gateVars,
     callVars, wireVars, timerVars, loopVars
<1>5. CASE Done(t)
  <2>1. \/ Goto(t, "idle") \/ Goto(t, "arm") \/ Goto(t, "parse")
    BY <1>5, Zenon DEF Done
  <2> QED
    BY <1>5, <2>1, TriesAssumption DEF Done, Goto, PathTyped, PathTypeOK, Outbound, Outgoing,
       gateVars, wireVars, timerVars, loopVars
<1> QED
  BY <1>1, <1>2, <1>3, <1>4, <1>5 DEF DeliverStep

LEMMA DoWriteStepTyped ==
  ASSUME PathTyped, CellTypeOK', NEW t \in Threads, DoWriteStep(t)
  PROVE  PathTypeOK' /\ Outbound'
<1>1. CASE AsyncWrite(t)
  <2>1. inflight' \in [msg : Message, left : Nat] \cup {NULL}
    <3>1. CASE enable_read
      <4>1. m_scu_ptr[m_read_pos] \in Cell
        BY <3>1, SlotIsCell DEF enable_read, PathTyped, PathTypeOK, CellTypeOK
      <4> QED
        BY <1>1, <3>1, <4>1 DEF AsyncWrite, Cell
    <3>2. CASE ~enable_read
      BY <1>1, <3>2 DEF AsyncWrite, PathTyped, PathTypeOK
    <3> QED
      BY <3>1, <3>2
  <2> QED
    BY <1>1, <2>1, ZenonT(60) DEF AsyncWrite, Goto, PathTyped, PathTypeOK, Outbound, Outgoing,
       gateVars, callVars, timerVars, loopVars
<1>2. CASE DoWrite(t)
  BY <1>2, OutboundKept, ZenonT(60) DEF DoWrite, Goto, PathTyped, PathTypeOK, Places, callVars,
     wireVars, timerVars, loopVars
<1>3. CASE Release(t)
  BY <1>3, OutboundKept, ZenonT(60) DEF Release, Goto, PathTyped, PathTypeOK, Places, callVars,
     wireVars, timerVars, loopVars
<1>4. CASE Expire(t)
  BY <1>4, OutboundKept, ZenonT(60) DEF Expire, Goto, PathTyped, PathTypeOK, Places, gateVars,
     callVars, wireVars, loopVars
<1>5. CASE AsyncWait(t)
  <2>1. PathTypeOK'
    BY <1>5 DEF AsyncWait, Goto, PathTyped, PathTypeOK, gateVars, callVars, wireVars, loopVars
  <2> QED
    BY <1>5, <2>1, OutboundKept DEF AsyncWait, Places, callVars
<1> QED
  BY <1>1, <1>2, <1>3, <1>4, <1>5 DEF DoWriteStep

LEMMA OtherStepTyped ==
  ASSUME PathTyped, CellTypeOK', NEW t \in Threads, ArmHandle(t) \/ DoRead(t)
  PROVE  PathTypeOK' /\ Outbound'
BY DEF ArmHandle, DoRead, Goto, PathTyped, PathTypeOK, Outbound, Outgoing, gateVars,
   callVars, wireVars, timerVars, loopVars

LEMMA SendTyped ==
  ASSUME PathTyped, CellTypeOK', NEW t \in Senders, NEW c \in {"none", "reply"},
         sends[t] < Sends[t], sends' = [sends EXCEPT ![t] = @ + 1], Call(t, c),
         UNCHANGED << cellVars, gateVars, tries, echoes, wireVars, accepted,
                      timerVars, loopVars >>
  PROVE  PathTypeOK' /\ Outbound'
<1>1. t \in Threads
  BY DEF Senders, Threads
<1>2. /\ sends' \in [Senders -> Nat] /\ \A u \in Senders : sends'[u] <= Sends[u]
      /\ sends'[t] >= 1 /\ \A u \in Senders : u # t => sends'[u] = sends[u]
  <2>1. sends \in [Senders -> Nat] /\ \A u \in Senders : sends[u] <= Sends[u]
    BY DEF PathTyped, PathTypeOK
  <2>2. /\ sends'[t] = sends[t] + 1 /\ \A u \in Senders : u # t => sends'[u] = sends[u]
        /\ sends' \in [Senders -> Nat]
    BY <2>1
  <2>3. sends[t] + 1 <= Sends[t] /\ sends[t] + 1 >= 1
    BY <2>1, SendsAssumption
  <2> QED
    BY <2>1, <2>2, <2>3
<1>3. PathTypeOK'
  BY <1>1, <1>2 DEF Call, Goto, PathTyped, PathTypeOK, gateVars, wireVars, timerVars, loopVars
<1>4. << t, sends'[t] >> \in Message
  BY <1>2, MessageFacts
<1>5. \A u \in Threads : u # t => pc'[u] = pc[u] /\ cont'[u] = cont[u]
  BY DEF Call, Goto, PathTyped, PathTypeOK
<1>6. cont'[t] = c
  BY <1>1 DEF Call, PathTyped, PathTypeOK
<1>7. Outgoing(t)' \in Message
  BY <1>4, <1>6 DEF Outgoing
<1>8. ASSUME NEW u \in Threads, u # t, pc[u] = "deliver"
      PROVE  Outgoing(u)' \in Message
  <2>1. Outgoing(u) \in Message
    BY <1>8 DEF PathTyped, Outbound
  <2>2. CASE cont[u] \in {"arm", "echo"}
    BY <1>5, <1>8, <2>2, MessageFacts DEF Outgoing
  <2>3. CASE cont[u] \notin {"arm", "echo"}
    <3>1. sends'[u] = sends[u]
      BY <1>8 DEF PathTyped, PathTypeOK
    <3> QED
      BY <1>5, <1>8, <2>1, <2>3, <3>1 DEF Outgoing
  <2> QED
    BY <2>2, <2>3
<1> QED
  BY <1>3, <1>5, <1>7, <1>8 DEF Outbound

LEMMA ManagerStepTyped ==
  ASSUME PathTyped, CellTypeOK',
         \/ FreeCell \/ Written \/ Closing
         \/ ParseReply \/ ParseHeartBeat \/ ParseOwnHeartBeat \/ ParseEnd
  PROVE  PathTypeOK' /\ Outbound'
<1>0. Manager \in Threads /\ Manager \in Senders
  BY DEF Threads, Senders
<1>1. CASE FreeCell \/ Written \/ Closing \/ ParseOwnHeartBeat \/ ParseEnd
  <2>1. PathTypeOK'
    <3>1. CASE FreeCell \/ ParseOwnHeartBeat
      BY <3>1, ZenonT(60) DEF FreeCell, ParseOwnHeartBeat, PathTyped, PathTypeOK, gateVars,
         callVars, wireVars, timerVars, loopVars
    <3>2. CASE Written
      BY <1>0, <3>2 DEF Written, Goto, PathTyped, PathTypeOK, callVars, wireVars, timerVars,
         loopVars
    <3>3. CASE Closing
      BY <1>0, <3>3 DEF Closing, Goto, PathTyped, PathTypeOK, gateVars, callVars, wireVars
    <3>4. CASE ParseEnd
      BY <1>0, <3>4, ZenonT(60) DEF ParseEnd, Goto, PathTyped, PathTypeOK, gateVars, callVars,
         wireVars, timerVars
    <3> QED
      BY <1>1, <3>1, <3>2, <3>3, <3>4
  <2> QED
    BY <1>0, <1>1, <2>1, OutboundKept DEF FreeCell, Written, Closing, ParseOwnHeartBeat,
       ParseEnd, Places, callVars
<1>2. CASE ParseReply
  BY <1>0, <1>2, SendTyped DEF ParseReply
<1>3. CASE ParseHeartBeat
  BY <1>0, <1>3, MessageFacts, SendsAssumption DEF ParseHeartBeat, Call, Goto, PathTyped,
     PathTypeOK, Outbound, Outgoing, gateVars, wireVars, timerVars, loopVars
<1> QED
  BY <1>1, <1>2, <1>3

LEMMA HandlerTyped ==
  ASSUME PathTyped, CellTypeOK',
         \/ HandleWriteDone \/ HeartBeatSend \/ HeartBeatHandle
         \/ HandleRead \/ HandleReadError \/ HandleClose
         \/ SendTimerFires \/ HandleTimerFires \/ Stop
  PROVE  PathTypeOK' /\ Outbound'
<1>0. Manager \in Threads
  BY DEF Threads
<1>1. ASSUME inflight # NULL, NEW k \in 1 .. inflight.left, HandleWrite(k)
      PROVE  PathTypeOK' /\ Outbound'
  <2>1. PICK f \in [msg : Message, left : Nat] : f = inflight
    BY <1>1 DEF PathTyped, PathTypeOK
  <2>2. open' \in [msg : Message, left : Nat] \cup {NULL}
    <3>1. CASE k < inflight.left
      <4>1. f.left - k \in Nat
        BY <2>1, <3>1
      <4>2. [f EXCEPT !.left = f.left - k] \in [msg : Message, left : Nat]
        BY <4>1
      <4>3. open' = [f EXCEPT !.left = f.left - k]
        BY <1>1, <2>1, <3>1 DEF HandleWrite
      <4> QED
        BY <4>2, <4>3
    <3>2. CASE ~(k < inflight.left)
      BY <1>1, <3>2 DEF HandleWrite
    <3> QED
      BY <3>1, <3>2
  <2>3. sent' \in Seq(AppMessage)
    <3>1. sent \in Seq(AppMessage)
      BY DEF PathTyped, PathTypeOK
    <3>2. CASE sent' = sent
      BY <3>1, <3>2
    <3>3. CASE sent' # sent
      <4>1. f.msg \in AppMessage /\ sent' = Append(sent, f.msg)
        BY <1>1, <2>1, <3>3, MessageFacts DEF HandleWrite
      <4> QED
        BY <3>1, <4>1
    <3> QED
      BY <3>2, <3>3
  <2>4. /\ inflight' = NULL /\ Goto(Manager, "written")
        /\ UNCHANGED << gateVars, callVars, accepted, timerVars, loopVars >>
    BY <1>1 DEF HandleWrite
  <2> QED
    BY <1>0, <2>2, <2>3, <2>4 DEF Goto, PathTyped, PathTypeOK, Outbound, Outgoing, gateVars,
       callVars, timerVars, loopVars
<1>2. CASE HandleWriteError \/ HeartBeatHandle \/ HandleReadError \/ HandleTimerFires \/ Stop
  BY <1>2, ZenonT(60) DEF HandleWriteError, HeartBeatHandle, HandleReadError, HandleTimerFires,
     Stop, PathTyped, PathTypeOK, Outbound, Outgoing, gateVars, callVars, wireVars, timerVars,
     loopVars
<1>3. CASE HeartBeatSend
  BY <1>0, <1>3, MessageFacts DEF HeartBeatSend, Call, Goto, PathTyped, PathTypeOK, Outbound,
     Outgoing, gateVars, wireVars, loopVars
<1>4. CASE HandleRead \/ HandleClose \/ SendTimerFires
  <2>1. PathTypeOK'
    <3>1. CASE HandleRead
      BY <1>0, <3>1 DEF HandleRead, Goto, PathTyped, PathTypeOK, gateVars, callVars, wireVars
    <3>2. CASE HandleClose
      BY <1>0, <3>2 DEF HandleClose, Goto, PathTyped, PathTypeOK, callVars, wireVars, timerVars
    <3>3. CASE SendTimerFires
      BY <3>3 DEF SendTimerFires, PathTyped, PathTypeOK, gateVars, callVars, wireVars, loopVars
    <3> QED
      BY <1>4, <3>1, <3>2, <3>3
  <2> QED
    BY <1>0, <1>4, <2>1, OutboundKept DEF HandleRead, HandleClose, SendTimerFires, Places,
       callVars
<1> QED
  BY <1>1, <1>2, <1>3, <1>4 DEF HandleWriteDone

LEMMA PathStepTyped == PathTyped /\ [PathNext]_pathVars => PathTyped'
<1> SUFFICES ASSUME PathTyped, [PathNext]_pathVars
             PROVE  PathTyped'
  OBVIOUS
<1>1. CellTypeOK' /\ Carried'
  BY PathMovesRing, RingStepTyped
<1>2. PathTypeOK' /\ Outbound'
  <2>1. ASSUME NEW t \in Apps, Send(t)
        PROVE  PathTypeOK' /\ Outbound'
    BY <1>1, <2>1, SendTyped DEF Send, Senders
  <2>2. ASSUME NEW t \in Threads, Step(t)
        PROVE  PathTypeOK' /\ Outbound'
    BY <1>1, <2>2, DeliverStepTyped, DoWriteStepTyped, OtherStepTyped, ManagerStepTyped DEF Step
  <2>3. CASE UNCHANGED pathVars
    BY <1>1, <2>3 DEF pathVars, PathTyped, PathTypeOK, Outbound, Outgoing, gateVars, callVars,
       wireVars, timerVars, loopVars
  <2> QED
    BY <1>1, <2>1, <2>2, <2>3, HandlerTyped DEF PathNext
<1> QED
  BY <1>1, <1>2 DEF PathTyped

\* The variables of the sending half keep their types, with any number of threads and
\* however the ring is overrun; what reaches the wire and what deliver accepted are the
\* applications' messages.
THEOREM PathTypeCorrect == PathSpec => []PathTypeOK
<1>1. PathTyped => PathTypeOK
  BY DEF PathTyped
<1> QED
  BY <1>1, PathInitTyped, PathStepTyped, PTL DEF PathSpec

-----------------------------------------------------------------------------
(* A ring with room.                                                       *)

\* No writer takes the last free slot: fewer messages wait than the ring has slots,
\* 65536 in the code.
RoomyPathSpec == PathInit /\ [][PathNext /\ ClaimInRoom]_pathVars

\* What is at the socket, or will be there next because it went out in part, is the head
\* of the ring: has_read takes the bytes off the cell they came from.
Handed ==
  /\ phase = "live"
  /\ inflight # NULL => Shown(inflight)
  /\ open # NULL => Shown(open)

\* The head of the ring is nobody's to change but the reader's.
LEMMA HeadStays ==
  ASSUME CellTypeOK, RoomyInv, ClaimInRoom, enable_read,
         (\E t \in Writers : Writes(t)) \/ HasReadClear
  PROVE  \A v : Shown(v) => Shown(v)'
<1>0. /\ m_read_pos \in Slots /\ m_write_pos \in Slots /\ rclear \in Slots
      /\ wclaim \in [Writers -> Slots] /\ DOMAIN wpc = Writers
      /\ m_scu_ptr \in [Slots -> Cell \cup {NULL, Wild}]
  BY DEF CellTypeOK
<1>1. /\ IsCell(m_scu_ptr[m_read_pos]) /\ m_scu_ptr[m_read_pos].enableRead
      /\ m_write_pos # m_read_pos
  BY DEF enable_read, is_empty
<1>2. ASSUME m_read_pos' = m_read_pos, m_write_pos' # m_read_pos,
             m_scu_ptr'[m_read_pos] = m_scu_ptr[m_read_pos]
      PROVE  \A v : Shown(v) => Shown(v)'
  BY <1>1, <1>2 DEF Shown, enable_read, is_empty, IsCell
<1>3. ASSUME NEW t \in Writers, Writes(t)
      PROVE  \A v : Shown(v) => Shown(v)'
  <2>1. CASE (\E m \in Message : WriteBegin(t, m)) \/ IsFull(t) \/ WriteReturn(t)
    BY <1>1, <1>2, <2>1 DEF WriteBegin, IsFull, WriteReturn, posVars
  <2>2. CASE Claim(t)
    <3>1. Succ(m_write_pos) # m_read_pos
      BY <1>0, <2>2 DEF Claim, ClaimInRoom
    <3> QED
      BY <1>2, <2>2, <3>1 DEF Claim
  <2>3. CASE Store(t)
    <3>1. wclaim[t] # m_read_pos
      BY <1>1, <2>3 DEF Store, RoomyInv, NoOverwrite
    <3> QED
      BY <1>0, <1>1, <1>2, <2>3, <3>1 DEF Store
  <2>4. CASE Enable(t)
    <3>1. wclaim[t] # m_read_pos
      BY <1>1, <2>4 DEF Enable, RoomyInv, NoOverwrite
    <3> QED
      BY <1>0, <1>1, <1>2, <2>4, <3>1 DEF Enable
  <2> QED
    BY <1>3, <2>1, <2>2, <2>3, <2>4 DEF Writes, WriteStep
<1>4. CASE HasReadClear
  <2>1. rclear # m_read_pos
    BY <1>0, <1>4, SuccFacts DEF HasReadClear, RoomyInv
  <2> QED
    BY <1>0, <1>1, <1>2, <1>4, <2>1 DEF HasReadClear
<1> QED
  BY <1>3, <1>4

LEMMA RoomyPathMovesCell ==
  ASSUME PathTyped, Handed, [PathNext /\ ClaimInRoom]_pathVars
  PROVE  [CellNext /\ ClaimInRoom]_cellVars
<1>1. CASE UNCHANGED pathVars
  BY <1>1 DEF pathVars
<1>2. CASE PathNext /\ ClaimInRoom
  <2>1. CASE (\E t \in Writers : Writes(t)) \/ HasReadClear
    BY <1>2, <2>1 DEF Handed, CellNext, Write, Read, Writes
  <2>2. ASSUME inflight # NULL, NEW k \in 1 .. inflight.left, HandleWrite(k)
        PROVE  CellNext
    <3>1. /\ enable_read /\ phase = "live" /\ HasRead(k)
          /\ k \in 1 .. m_scu_ptr[m_read_pos].left
      BY <2>2 DEF Handed, Shown, HandleWrite
    <3> QED
      BY <3>1 DEF CellNext, Read
  <2> QED
    BY <1>2, <2>1, <2>2, PathMovesRing DEF RingStep, HandsOver
<1> QED
  BY <1>1, <1>2

LEMMA HandedStep ==
  ASSUME PathTyped, RoomyInv, Handed, [PathNext /\ ClaimInRoom]_pathVars
  PROVE  Handed'
<1>0. CellTypeOK /\ m_read_pos \in Slots /\ RingStep
  BY PathMovesRing DEF PathTyped, PathTypeOK, CellTypeOK
<1>1. phase' = "live"
  BY <1>0 DEF RingStep, HandsOver, Writes, WriteBegin, WriteStep, IsFull, Claim, Store, Enable,
     WriteReturn, HandleWrite, HasRead, HasReadClear, cellVars, Handed
<1>2. CASE ((\E t \in Writers : Writes(t)) \/ HasReadClear) /\ UNCHANGED wireVars
  <2>1. CASE UNCHANGED pathVars
    BY <2>1 DEF pathVars, cellVars, posVars, wireVars, Handed, Shown, enable_read, is_empty
  <2>2. CASE ClaimInRoom
    <3>1. ASSUME NEW v, Shown(v)
          PROVE  Shown(v)'
      BY <1>0, <1>2, <2>2, <3>1, HeadStays DEF Shown
    <3> QED
      BY <1>1, <1>2, <3>1 DEF Handed, wireVars, Shown
  <2> QED
    BY <2>1, <2>2
<1>3. ASSUME inflight # NULL, NEW k \in 1 .. inflight.left, HandleWrite(k)
      PROVE  Handed'
  <2>1. PICK c \in Cell : c = m_scu_ptr[m_read_pos]
    BY <1>0, <1>3, SlotIsCell DEF Handed, Shown, enable_read
  <2>2. /\ enable_read /\ c.enableRead /\ inflight = [msg |-> c.msg, left |-> c.left]
        /\ HasRead(k) /\ inflight' = NULL
    BY <1>3, <2>1 DEF Handed, Shown, enable_read, HandleWrite
  <2>3. CASE k < c.left
    <3>1. /\ open' = [msg |-> c.msg, left |-> c.left - k]
          /\ m_scu_ptr'[m_read_pos] = [c EXCEPT !.left = c.left - k]
          /\ UNCHANGED << m_read_pos, m_write_pos >>
      BY <1>0, <1>3, <2>1, <2>2, <2>3 DEF HandleWrite, HasRead, CellTypeOK
    <3>2. c.left - k \in Nat
      BY <2>1, <2>3 DEF Cell
    <3>3. /\ m_scu_ptr'[m_read_pos] \in Cell
          /\ m_scu_ptr'[m_read_pos].msg = c.msg /\ m_scu_ptr'[m_read_pos].left = c.left - k
          /\ m_scu_ptr'[m_read_pos].enableRead
      <4>1. PICK n \in Nat : n = c.left - k
        BY <3>2
      <4>2. m_scu_ptr'[m_read_pos] = [c EXCEPT !.left = n]
        BY <3>1, <4>1
      <4>3. /\ [c EXCEPT !.left = n] \in Cell /\ [c EXCEPT !.left = n].msg = c.msg
            /\ [c EXCEPT !.left = n].left = n
            /\ [c EXCEPT !.left = n].enableRead = c.enableRead
        BY CellUpdate DEF Cell
      <4> QED
        BY <2>2, <4>1, <4>2, <4>3
    <3>4. IsCell(m_scu_ptr'[m_read_pos])
      BY <3>3, CellIsNotNull
    <3>5. Shown(open)'
      BY <2>2, <3>1, <3>3, <3>4 DEF Shown, enable_read, is_empty, IsCell
    <3> QED
      BY <1>1, <2>2, <3>5 DEF Handed
  <2>4. CASE ~(k < c.left)
    BY <1>1, <1>3, <2>2, <2>4 DEF HandleWrite, Handed
  <2> QED
    BY <2>3, <2>4
<1>4. CASE HandsOver
  <2>1. \A v : Shown(v) => Shown(v)'
    BY <1>4 DEF HandsOver, cellVars, posVars, Shown, enable_read, is_empty, IsCell
  <2>2. inflight' # NULL => Shown(inflight)'
    BY <1>4 DEF HandsOver, cellVars, posVars, Shown, enable_read, is_empty, IsCell
  <2> QED
    BY <1>1, <1>4, <2>1, <2>2 DEF HandsOver, Handed, Shown
<1>5. CASE UNCHANGED << cellVars, wireVars >>
  BY <1>1, <1>5 DEF cellVars, posVars, wireVars, Handed, Shown, enable_read, is_empty, IsCell
<1> QED
  BY <1>0, <1>2, <1>3, <1>4, <1>5 DEF RingStep

RoomyPathInv == PathTyped /\ RoomyInv /\ Handed

LEMMA RoomyPathInvInit == PathInit => RoomyPathInv
BY PathInitTyped, RoomyInit DEF PathInit, CellInit, RoomyPathInv, Handed

LEMMA RoomyPathInvStep ==
  RoomyPathInv /\ [PathNext /\ ClaimInRoom]_pathVars
    => RoomyPathInv' /\ [CellNext /\ ClaimInRoom]_cellVars
<1> SUFFICES ASSUME RoomyPathInv, [PathNext /\ ClaimInRoom]_pathVars
             PROVE  RoomyPathInv' /\ [CellNext /\ ClaimInRoom]_cellVars
  OBVIOUS
<1>1. PathTyped'
  BY PathStepTyped DEF RoomyPathInv
<1>2. [CellNext /\ ClaimInRoom]_cellVars
  BY RoomyPathMovesCell DEF RoomyPathInv
<1>3. RoomyInv'
  BY <1>2, RoomyStep DEF RoomyPathInv, PathTyped, PathTypeOK
<1>4. Handed'
  BY HandedStep DEF RoomyPathInv
<1> QED
  BY <1>1, <1>2, <1>3, <1>4 DEF RoomyPathInv

LEMMA RoomyPathIsRoomy == RoomyPathSpec => []RoomyPathInv /\ RoomySpec
<1>1. PathInit => CellInit
  BY DEF PathInit
<1> QED
  BY <1>1, RoomyPathInvInit, RoomyPathInvStep, PTL DEF RoomyPathSpec, RoomySpec

\* session and client drive the ring as send_cell.h asks: one reader, has_read only for
\* what enable_read and read_chche have shown, one write_chche at a time per thread.
THEOREM PathUsesRing == RoomyPathSpec => UsesRing
<1>1. [CellNext /\ ClaimInRoom]_cellVars => [CellNext]_cellVars
  OBVIOUS
<1> QED
  BY <1>1, RoomyPathIsRoomy, PTL DEF UsesRing, CellSpec, RoomySpec

\* So the send cache of a connection is a first-in first-out queue of the packages its
\* threads deliver.
THEOREM PathImplementsFifo == RoomyPathSpec => ImplementsFifo
BY RoomyPathIsRoomy, RoomyImplementsFifo, PTL

\* A cell that went out in part is continued by the next write, and has_read takes the
\* bytes off the cell that async_write_some was given.
THEOREM FramesIntactCorrect == RoomyPathSpec => []FramesIntact
<1>1. RoomyPathInv => FramesIntact
  BY DEF RoomyPathInv, Handed, Shown, enable_read, FramesIntact
<1> QED
  BY <1>1, RoomyPathIsRoomy, PTL

-----------------------------------------------------------------------------
(* The messages: none lost, each thread's in order.                        *)

\* A message that is on the wire or in the ring.
Present(m) ==
  \/ \E i \in DOMAIN sent : sent[i] = m
  \/ \E i \in DOMAIN Contents : Contents[i] = m

\* A writer whose message is in the ring since its fetch_add.
Claimed == {"store", "enable", "ok"}

ClaimsNone ==
  \A t \in Writers : wpc'[t] \in Claimed => wpc[t] \in Claimed /\ wmsg'[t] = wmsg[t]

\* What a step does to the messages: one joins the queue; the first leaves it, for the
\* wire if it is an application's; or nothing.
LogPuts(t) == Claim(t) /\ Contents' = Append(Contents, wmsg[t]) /\ UNCHANGED sent

LogGets ==
  /\ Contents # << >> /\ Contents' = Tail(Contents)
  /\ \/ Contents[1] = HeartBeat /\ UNCHANGED sent
     \/ Contents[1] \in AppMessage /\ sent' = Append(sent, Contents[1])

LogStep ==
  \/ \E t \in Writers : LogPuts(t)
  \/ LogGets /\ ClaimsNone
  \/ UNCHANGED << sent, Contents >> /\ ClaimsNone

LEMMA LogMoves ==
  ASSUME RoomyPathInv, [PathNext /\ ClaimInRoom]_pathVars
  PROVE  LogStep
<1>0. /\ CellTypeOK /\ CellTypeOK' /\ RoomyInv
      /\ DOMAIN wpc = Writers /\ DOMAIN wmsg = Writers
  BY RoomyPathInvStep DEF RoomyPathInv, PathTyped, PathTypeOK, CellTypeOK
<1>1. CASE UNCHANGED << cellVars, sent >>
  BY <1>1, StutterKeepsQueue DEF cellVars, writerVars, LogStep, ClaimsNone
<1>2. CASE PathNext /\ ClaimInRoom
  <2>0. RingStep
    BY <1>2, PathMovesRing DEF RoomyPathInv
  <2>1. ASSUME NEW t \in Writers, Writes(t), UNCHANGED wireVars
        PROVE  LogStep
    <3>1. CASE Claim(t)
      BY <1>0, <1>2, <2>1, <3>1, ClaimPuts DEF LogStep, LogPuts, wireVars
    <3>2. CASE (\E m \in Message : WriteBegin(t, m)) \/ IsFull(t) \/ WriteReturn(t)
      <4>1. ClaimsNone
        BY <1>0, <3>2 DEF WriteBegin, IsFull, WriteReturn, ClaimsNone, Claimed
      <4> QED
        BY <1>0, <2>1, <3>2, <4>1, OtherWritesKeepQueue DEF LogStep, wireVars
    <3>3. CASE Store(t) \/ Enable(t)
      <4>1. ClaimsNone
        BY <1>0, <3>3 DEF Store, Enable, ClaimsNone, Claimed
      <4> QED
        BY <1>0, <2>1, <3>3, <4>1, OtherWritesKeepQueue DEF LogStep, wireVars
    <3> QED
      BY <2>1, <3>1, <3>2, <3>3 DEF Writes, WriteStep
  <2>2. ASSUME inflight # NULL, NEW k \in 1 .. inflight.left, HandleWrite(k)
        PROVE  LogStep
    <3>1. /\ enable_read /\ HasRead(k)
          /\ inflight = [msg |-> m_scu_ptr[m_read_pos].msg, left |-> m_scu_ptr[m_read_pos].left]
      BY <2>2 DEF RoomyPathInv, Handed, Shown, HandleWrite
    <3>2. /\ m_scu_ptr[m_read_pos].left = inflight.left
          /\ m_scu_ptr[m_read_pos].msg = inflight.msg
          /\ inflight.msg \in Message
      BY <2>2, <3>1 DEF RoomyPathInv, PathTyped, PathTypeOK
    <3>3. ClaimsNone
      BY <3>1 DEF HasRead, writerVars, ClaimsNone
    <3>4. k \in 1 .. m_scu_ptr[m_read_pos].left
      BY <3>2
    <3>5. CASE k < inflight.left
      <4>1. Contents' = Contents
        BY <1>0, <3>1, <3>2, <3>4, <3>5, HasReadGets
      <4>2. sent' = sent
        BY <2>2, <3>5 DEF HandleWrite
      <4> QED
        BY <3>3, <4>1, <4>2 DEF LogStep
    <3>6. CASE ~(k < inflight.left)
      <4>1. Contents # << >> /\ Contents[1] = inflight.msg /\ Contents' = Tail(Contents)
        BY <1>0, <3>1, <3>2, <3>4, <3>6, HasReadGets
      <4>2. sent' = IF inflight.msg = HeartBeat THEN sent ELSE Append(sent, inflight.msg)
        BY <2>2, <3>6 DEF HandleWrite
      <4> QED
        BY <3>2, <3>3, <4>1, <4>2, MessageFacts DEF LogStep, LogGets
    <3> QED
      BY <3>5, <3>6
  <2>3. CASE HasReadClear /\ UNCHANGED wireVars
    <3>1. ClaimsNone
      BY <2>3 DEF HasReadClear, writerVars, ClaimsNone
    <3> QED
      BY <1>0, <2>3, <3>1, FreeKeepsQueue DEF LogStep, wireVars
  <2> QED
    BY <1>1, <2>0, <2>1, <2>2, <2>3 DEF RingStep, HandsOver, wireVars
<1> QED
  BY <1>1, <1>2 DEF pathVars, wireVars

LEMMA ContentsType == CellTypeOK => Contents \in Seq(Message \cup {NULL})
<1> SUFFICES ASSUME CellTypeOK
             PROVE  Contents \in Seq(Message \cup {NULL})
  OBVIOUS
<1>1. /\ m_write_pos \in Slots /\ m_read_pos \in Slots
      /\ MessageAt \in [Slots -> Message \cup {NULL}]
  BY MessageAtType DEF CellTypeOK
<1> QED
  BY <1>1, LineFacts, ContentsIsLine

\* The two sequences hold messages.
LEMMA LogType ==
  ASSUME RoomyPathInv
  PROVE  /\ sent \in Seq(Message \cup {NULL}) /\ Contents \in Seq(Message \cup {NULL})
         /\ \A t \in Writers : wpc[t] = "claim" => wmsg[t] \in Message
BY ContentsType, MessageFacts DEF RoomyPathInv, PathTyped, PathTypeOK, CellTypeOK

\* What is present stays, and only a fetch_add adds to it.
LEMMA PresentStep ==
  ASSUME RoomyPathInv, LogStep, NEW m \in AppMessage
  PROVE  /\ Present(m) => Present(m)'
         /\ Present(m)' => Present(m) \/ \E t \in Writers : LogPuts(t) /\ m = wmsg[t]
         /\ \A t \in Writers : LogPuts(t) /\ m = wmsg[t] => Present(m)'
<1>0. /\ sent \in Seq(Message \cup {NULL}) /\ Contents \in Seq(Message \cup {NULL})
      /\ \A t \in Writers : wpc[t] = "claim" => wmsg[t] \in Message
  BY LogType
<1>1. ASSUME NEW t \in Writers, LogPuts(t)
      PROVE  /\ Present(m) => Present(m)'
             /\ Present(m)' => Present(m) \/ m = wmsg[t]
             /\ m = wmsg[t] => Present(m)'
  <2>1. /\ Contents' = Append(Contents, wmsg[t]) /\ sent' = sent
        /\ wmsg[t] \in Message \cup {NULL}
    BY <1>0, <1>1 DEF LogPuts, Claim
  <2>2. /\ DOMAIN Contents' = 1 .. Len(Contents) + 1 /\ DOMAIN Contents = 1 .. Len(Contents)
        /\ Contents'[Len(Contents) + 1] = wmsg[t]
        /\ \A i \in 1 .. Len(Contents) : Contents'[i] = Contents[i]
        /\ Len(Contents) \in Nat
    BY <1>0, <2>1
  <2> QED
    BY <2>1, <2>2 DEF Present
<1>2. CASE LogGets
  <2>1. /\ Contents # << >> /\ Contents' = Tail(Contents)
        /\ Len(Contents) \in Nat \ {0} /\ DOMAIN Contents = 1 .. Len(Contents)
        /\ DOMAIN Contents' = 1 .. Len(Contents) - 1
        /\ \A i \in 1 .. Len(Contents) - 1 : Contents'[i] = Contents[i + 1]
    BY <1>0, <1>2 DEF LogGets
  <2>2. \/ Contents[1] = HeartBeat /\ sent' = sent
        \/ /\ DOMAIN sent = 1 .. Len(sent) /\ DOMAIN sent' = 1 .. Len(sent) + 1
           /\ Len(sent) \in Nat /\ sent'[Len(sent) + 1] = Contents[1]
           /\ \A i \in 1 .. Len(sent) : sent'[i] = sent[i]
    BY <1>0, <1>2, MessageFacts DEF LogGets
  <2>3. \A i \in 1 .. Len(Contents) : i = 1 \/ (i - 1 \in 1 .. Len(Contents) - 1 /\ (i - 1) + 1 = i)
    BY <2>1
  <2>4. Present(m) => Present(m)'
    <3>1. CASE \E i \in DOMAIN sent : sent[i] = m
      BY <2>2, <3>1 DEF Present
    <3>2. ASSUME NEW i \in DOMAIN Contents, Contents[i] = m
          PROVE  Present(m)'
      <4>1. CASE i = 1
        BY <2>2, <3>2, <4>1, MessageFacts DEF Present
      <4>2. CASE i # 1
        <5>1. i - 1 \in DOMAIN Contents' /\ Contents'[i - 1] = m
          BY <2>1, <2>3, <3>2, <4>2
        <5> QED
          BY <5>1 DEF Present
      <4> QED
        BY <4>1, <4>2
    <3> QED
      BY <3>1, <3>2 DEF Present
  <2>5. Present(m)' => Present(m)
    <3>1. ASSUME NEW i \in DOMAIN sent', sent'[i] = m
          PROVE  Present(m)
      BY <2>1, <2>2, <3>1 DEF Present
    <3>2. ASSUME NEW i \in DOMAIN Contents', Contents'[i] = m
          PROVE  Present(m)
      <4>1. i + 1 \in DOMAIN Contents /\ Contents[i + 1] = m
        BY <2>1, <3>2
      <4> QED
        BY <4>1 DEF Present
    <3> QED
      BY <3>1, <3>2 DEF Present
  <2>6. \A t \in Writers : ~LogPuts(t)
    <3>1. ASSUME NEW t \in Writers, LogPuts(t)
          PROVE  FALSE
      <4>1. Len(Contents') = Len(Contents) + 1
        BY <1>0, <3>1 DEF LogPuts, Claim
      <4>2. Len(Contents') = Len(Contents) - 1
        BY <1>0, <1>2 DEF LogGets
      <4> QED
        BY <2>1, <4>1, <4>2
    <3> QED
      BY <3>1
  <2> QED
    BY <2>4, <2>5, <2>6
<1>3. CASE UNCHANGED << sent, Contents >>
  BY <1>1, <1>3 DEF Present
<1> QED
  BY <1>1, <1>2, <1>3 DEF LogStep

\* What write_chche accepted is present, and already what it is about to accept.
Kept ==
  /\ \A m \in accepted : Present(m)
  /\ \A t \in Writers : wpc[t] \in Claimed =>
       wmsg[t] = HeartBeat \/ (wmsg[t] \in AppMessage /\ Present(wmsg[t]))

LEMMA AcceptedMoves ==
  ASSUME [PathNext]_pathVars
  PROVE  \/ accepted' = accepted
         \/ \E t \in Writers : wpc[t] = "ok" /\ accepted' = accepted \cup ({wmsg[t]} \ {HeartBeat})
<1>1. ASSUME NEW t \in Threads, Step(t), ~WriteOk(t)
      PROVE  accepted' = accepted
  <2>1. CASE DeliverStep(t)
    BY <1>1, <2>1 DEF DeliverStep, Deliver, WriteChche, WriteFull, Done
  <2>2. CASE DoWriteStep(t)
    BY <2>2 DEF DoWriteStep, DoWrite, AsyncWrite, Release, Expire, AsyncWait
  <2>3. CASE ArmHandle(t) \/ DoRead(t) \/ FreeCell \/ Written \/ Closing
    BY <2>3 DEF ArmHandle, DoRead, FreeCell, Written, Closing
  <2>4. CASE ParseReply \/ ParseHeartBeat \/ ParseOwnHeartBeat \/ ParseEnd
    BY <2>4 DEF ParseReply, ParseHeartBeat, ParseOwnHeartBeat, ParseEnd
  <2> QED
    BY <1>1, <2>1, <2>2, <2>3, <2>4 DEF Step
<1>2. CASE \E t \in Apps : Send(t)
  BY <1>2 DEF Send
<1>3. CASE HandleWriteDone \/ HeartBeatSend \/ HeartBeatHandle \/ HandleRead
           \/ HandleReadError \/ HandleClose
  BY <1>3 DEF HandleWriteDone, HandleWrite, HandleWriteError, HeartBeatSend,
              HeartBeatHandle, HandleRead, HandleReadError, HandleClose
<1>4. CASE SendTimerFires \/ HandleTimerFires \/ Stop \/ UNCHANGED pathVars
  BY <1>4 DEF SendTimerFires, HandleTimerFires, Stop, pathVars
<1>5. ASSUME NEW t \in Threads, WriteOk(t)
      PROVE  \E u \in Writers : wpc[u] = "ok" /\ accepted' = accepted \cup ({wmsg[u]} \ {HeartBeat})
  BY <1>5, ThreadsAreWriters DEF WriteOk
<1> QED
  BY <1>1, <1>2, <1>3, <1>4, <1>5 DEF PathNext

LEMMA KeptStep ==
  ASSUME RoomyPathInv, Kept, [PathNext /\ ClaimInRoom]_pathVars
  PROVE  Kept'
<1>0. /\ LogStep
      /\ accepted \subseteq AppMessage
      /\ DOMAIN wpc = Writers /\ DOMAIN wmsg = Writers
      /\ \A t \in Writers : wpc[t] = "claim" => wmsg[t] \in Message
  BY LogMoves, LogType DEF RoomyPathInv, PathTyped, PathTypeOK, CellTypeOK
<1>1. \A m \in AppMessage : Present(m) => Present(m)'
  BY <1>0, PresentStep
<1>2. ASSUME NEW m \in accepted'
      PROVE  Present(m)'
  <2>1. m \in AppMessage /\ Present(m)
    <3>1. CASE m \in accepted
      BY <1>0, <3>1 DEF Kept
    <3>2. CASE m \notin accepted
      <4>1. PICK t \in Writers : wpc[t] = "ok" /\ m = wmsg[t] /\ m # HeartBeat
        BY <1>2, <3>2, AcceptedMoves
      <4> QED
        BY <4>1 DEF Kept, Claimed
    <3> QED
      BY <3>1, <3>2
  <2> QED
    BY <1>1, <2>1
<1>3. ASSUME NEW t \in Writers, wpc'[t] \in Claimed
      PROVE  wmsg'[t] = HeartBeat \/ \E m \in AppMessage : m = wmsg'[t] /\ Present(m)'
  <2>1. CASE wpc[t] \in Claimed /\ wmsg'[t] = wmsg[t]
    <3>1. wmsg[t] = HeartBeat \/ \E m \in AppMessage : m = wmsg[t] /\ Present(m)
      BY <2>1 DEF Kept
    <3> QED
      BY <1>1, <2>1, <3>1
  <2>2. CASE LogPuts(t)
    <3>1. wmsg' = wmsg /\ wmsg[t] \in Message
      BY <1>0, <2>2 DEF LogPuts, Claim
    <3>2. \A m \in AppMessage : m = wmsg[t] => Present(m)'
      BY <1>0, <2>2, PresentStep
    <3> QED
      BY <3>1, <3>2, MessageFacts
  <2>3. CASE ~LogPuts(t)
    <3>1. ClaimsNone \/ \E u \in Writers : u # t /\ LogPuts(u)
      BY <1>0, <2>3 DEF LogStep
    <3>2. ASSUME NEW u \in Writers, u # t, LogPuts(u)
          PROVE  wpc'[t] = wpc[t] /\ wmsg' = wmsg
      BY <1>0, <3>2 DEF LogPuts, Claim
    <3> QED
      BY <1>3, <2>1, <3>1, <3>2 DEF ClaimsNone
  <2> QED
    BY <2>2, <2>3
<1>4. \A t \in Writers : wpc'[t] \in Claimed =>
        (wmsg[t] = HeartBeat \/ (wmsg[t] \in AppMessage /\ Present(wmsg[t])))'
  BY <1>3 DEF Present
<1> QED
  BY <1>2, <1>4 DEF Kept

\* With a free slot left by every fetch_add, no message that write_chche accepted is
\* lost: it is on the wire or in the ring, whatever handle_write, has_read and the other
\* threads do in between.
THEOREM NoMessageLostCorrect == RoomyPathSpec => []NoMessageLost
<1>1. RoomyPathSpec => []RoomyPathInv
  BY RoomyPathIsRoomy
<1>2. PathInit => Kept
  BY ThreadsAreWriters DEF PathInit, CellInit, Kept, Claimed
<1>3. RoomyPathInv /\ Kept /\ [PathNext /\ ClaimInRoom]_pathVars => Kept'
  BY KeptStep
<1>4. Kept => NoMessageLost
  BY DEF Kept, Present, NoMessageLost
<1> QED
  BY <1>1, <1>2, <1>3, <1>4, PTL DEF RoomyPathSpec

-----------------------------------------------------------------------------
(* The order of each thread's messages.                                    *)

\* The places of a thread that is not inside write_chche.
AtRest == {"idle", "deliver", "arm", "read", "written", "parse", "closing"}

\* The current message of t has not met its fetch_add yet (or never will).
Pending(t) ==
  \/ pc[t] = "deliver" /\ cont[t] \notin {"arm", "echo"}
  \/ wpc[t] \in {"is_full", "claim", "full"} /\ wmsg[t] # HeartBeat

\* A pending message is the last one its thread has begun to send.
InTurn(t) ==
  /\ pc[t] \in AtRest => wpc[t] = "idle"
  /\ Pending(t) => t \in Senders /\ (pc[t] # "deliver" => wmsg[t] = << t, sends[t] >>)

\* What a step does to thread t: nothing; it takes up a message or a heartbeat; it enters
\* write_chche; a step of write_chche; it leaves deliver; it goes on elsewhere.
SendsSame(t) == t \in Senders => sends'[t] = sends[t]

CellSame(t) == wpc'[t] = wpc[t] /\ wmsg'[t] = wmsg[t]

TakesUp(t) ==
  /\ pc[t] \in AtRest /\ pc'[t] = "deliver" /\ CellSame(t)
  /\ \/ t \in Senders /\ sends'[t] = sends[t] + 1 /\ cont'[t] \notin {"arm", "echo"}
     \/ SendsSame(t) /\ cont'[t] \in {"arm", "echo"}

Enters(t) ==
  /\ pc[t] = "deliver" /\ pc'[t] = "write" /\ SendsSame(t)
  /\ wpc'[t] = "is_full" /\ wmsg'[t] = Outgoing(t)

Inside(t) ==
  /\ pc[t] = "write" /\ pc'[t] = "write" /\ SendsSame(t) /\ wmsg'[t] = wmsg[t]
  /\ \/ wpc[t] \in {"is_full", "full"} /\ wpc'[t] \in {"is_full", "claim", "full"}
     \/ wpc'[t] \in {"store", "enable", "ok", "fault"}

Leaves(t) ==
  pc[t] = "done" /\ pc'[t] # "deliver" /\ SendsSame(t) /\ wpc'[t] = "idle"

GoesOn(t) ==
  /\ pc'[t] # "deliver" /\ (pc'[t] \in AtRest => pc[t] \in AtRest)
  /\ SendsSame(t) /\ CellSame(t)

Stays(t) == pc'[t] = pc[t] /\ cont'[t] = cont[t] /\ SendsSame(t) /\ CellSame(t)

Turn(t) ==
  TakesUp(t) \/ Enters(t) \/ Inside(t) \/ Leaves(t) \/ GoesOn(t) \/ Stays(t)

LEMMA TurnKeeps ==
  ASSUME NEW t \in Threads, InTurn(t), Turn(t)
  PROVE  /\ InTurn(t)'
         /\ t \in Senders => \/ sends'[t] = sends[t] + 1
                             \/ sends'[t] = sends[t] /\ (Pending(t)' => Pending(t))
<1>1. CASE TakesUp(t)
  BY <1>1 DEF TakesUp, CellSame, SendsSame, InTurn, Pending, AtRest
<1>2. CASE Enters(t)
  BY <1>2 DEF Enters, SendsSame, InTurn, Pending, AtRest, Outgoing
<1>3. CASE Inside(t)
  BY <1>3 DEF Inside, SendsSame, InTurn, Pending, AtRest
<1>4. CASE Leaves(t)
  BY <1>4 DEF Leaves, SendsSame, InTurn, Pending, AtRest
<1>5. CASE GoesOn(t)
  BY <1>5 DEF GoesOn, CellSame, SendsSame, InTurn, Pending, AtRest
<1>6. CASE Stays(t)
  BY <1>6 DEF Stays, CellSame, SendsSame, InTurn, Pending, AtRest
<1> QED
  BY <1>1, <1>2, <1>3, <1>4, <1>5, <1>6 DEF Turn

\* A step of thread t is no step of the others.
LEMMA OthersStay ==
  ASSUME PathTyped, NEW t \in Threads, NEW u \in Threads, u # t,
         pc' = pc \/ \E l \in Places : pc' = [pc EXCEPT ![t] = l],
         cont' = cont \/ \E c : cont' = [cont EXCEPT ![t] = c],
         sends' = sends \/ sends' = [sends EXCEPT ![t] = @ + 1],
         wpc' = wpc \/ \E l : wpc' = [wpc EXCEPT ![t] = l],
         wmsg' = wmsg \/ \E m : wmsg' = [wmsg EXCEPT ![t] = m]
  PROVE  Stays(u)
<1>1. pc'[u] = pc[u] /\ cont'[u] = cont[u] /\ SendsSame(u)
  BY DEF PathTyped, PathTypeOK, SendsSame
<1>2. CellSame(u)
  BY ThreadsAreWriters DEF PathTyped, PathTypeOK, CellTypeOK, CellSame
<1> QED
  BY <1>1, <1>2 DEF Stays

LEMMA RingLocal ==
  ASSUME NEW t \in Threads, PathTyped, WriteStep(t) \/ WriteReturn(t) \/ \E m : WriteBegin(t, m)
  PROVE  /\ \E l : wpc' = [wpc EXCEPT ![t] = l]
         /\ wmsg' = wmsg \/ \E m : wmsg' = [wmsg EXCEPT ![t] = m]
BY DEF WriteStep, IsFull, Claim, Store, Enable, WriteReturn, WriteBegin

LEMMA DeliverStepTurns ==
  ASSUME PathTyped, NEW t \in Threads, DeliverStep(t), InTurn(t)
  PROVE  \A u \in Threads : Turn(u)
<1>0. /\ DOMAIN wpc = Threads /\ DOMAIN wmsg = Threads /\ DOMAIN pc = Threads
      /\ DOMAIN cont = Threads
  BY ThreadsAreWriters DEF PathTyped, PathTypeOK, CellTypeOK
<1>1. CASE Deliver(t)
  <2>1. \A u \in Threads : u # t => Stays(u)
    <3>1. CASE UNCHANGED cellVars
      BY <1>1, <3>1, OthersStay DEF Deliver, Goto, Places, cellVars, writerVars
    <3>2. CASE WriteBegin(t, Outgoing(t))
      BY <1>1, <3>2, OthersStay, RingLocal DEF Deliver, Goto, Places
    <3> QED
      BY <1>1, <3>1, <3>2 DEF Deliver
  <2>2. CASE UNCHANGED cellVars /\ Goto(t, "done")
    BY <1>0, <1>1, <2>1, <2>2 DEF Deliver, Goto, cellVars, writerVars, Turn, GoesOn, SendsSame,
       CellSame, AtRest
  <2>3. CASE WriteBegin(t, Outgoing(t)) /\ Goto(t, "write")
    BY <1>0, <1>1, <2>1, <2>3 DEF Deliver, Goto, WriteBegin, Turn, Enters, SendsSame
  <2> QED
    BY <1>1, <2>2, <2>3 DEF Deliver
<1>2. CASE WriteChche(t)
  <2>1. \A u \in Threads : u # t => Stays(u)
    BY <1>2, OthersStay, RingLocal DEF WriteChche
  <2>2. CASE WriteStep(t)
    BY <1>0, <1>2, <2>1, <2>2 DEF WriteChche, WriteStep, IsFull, Claim, Store, Enable, Turn,
       Inside, SendsSame
  <2>3. CASE wpc[t] = "full" /\ WriteBegin(t, wmsg[t])
    BY <1>0, <1>2, <2>1, <2>3 DEF WriteChche, WriteBegin, Turn, Inside, SendsSame
  <2> QED
    BY <1>2, <2>2, <2>3 DEF WriteChche
<1>3. CASE WriteOk(t) \/ WriteFull(t)
  <2>1. \A u \in Threads : u # t => Stays(u)
    BY <1>3, OthersStay DEF WriteOk, WriteFull, Goto, Places, cellVars, writerVars, callVars
  <2> QED
    BY <1>0, <1>3, <2>1 DEF WriteOk, WriteFull, Goto, cellVars, writerVars, callVars, Turn,
       GoesOn, SendsSame, CellSame, AtRest
<1>4. CASE Done(t)
  <2>1. \/ Goto(t, "idle") \/ Goto(t, "arm") \/ Goto(t, "parse")
    BY <1>4, Zenon DEF Done
  <2>2. /\ UNCHANGED sends /\ pc[t] = "done" /\ cont' = [cont EXCEPT ![t] = "none"]
        /\ (wpc[t] = "idle" /\ UNCHANGED cellVars) \/ WriteReturn(t)
    BY <1>4 DEF Done
  <2>3. \A u \in Threads : u # t => Stays(u)
    <3>1. CASE UNCHANGED cellVars
      BY <2>1, <2>2, <3>1, OthersStay DEF Goto, Places, cellVars, writerVars
    <3>2. CASE WriteReturn(t)
      BY <2>1, <2>2, <3>2, OthersStay, RingLocal DEF Goto, Places
    <3> QED
      BY <2>2, <3>1, <3>2
  <2>4. Leaves(t)
    BY <1>0, <2>1, <2>2 DEF Goto, WriteReturn, cellVars, writerVars, Leaves, SendsSame
  <2> QED
    BY <2>3, <2>4 DEF Turn
<1> QED
  BY <1>1, <1>2, <1>3, <1>4 DEF DeliverStep

\* A step outside write_chche that begins no message.
QuietStep ==
  /\ UNCHANGED << writerVars, sends, cont >>
  /\ \/ pc' = pc
     \/ \E t \in Threads, l \in Places \ {"deliver"} :
          Goto(t, l) /\ (l \in AtRest => pc[t] \in AtRest)

LEMMA QuietTurns ==
  ASSUME PathTyped, QuietStep
  PROVE  \A u \in Threads : Turn(u)
<1>1. DOMAIN pc = Threads
  BY DEF PathTyped, PathTypeOK
<1>2. CASE pc' = pc
  BY <1>2 DEF QuietStep, writerVars, Turn, Stays, SendsSame, CellSame
<1>3. ASSUME NEW t \in Threads, NEW l \in Places \ {"deliver"}, Goto(t, l),
             l \in AtRest => pc[t] \in AtRest
      PROVE  \A u \in Threads : Turn(u)
  <2>1. GoesOn(t)
    BY <1>1, <1>3 DEF QuietStep, writerVars, Goto, GoesOn, SendsSame, CellSame
  <2>2. \A u \in Threads : u # t => Stays(u)
    BY <1>1, <1>3 DEF QuietStep, writerVars, Goto, Stays, SendsSame, CellSame
  <2> QED
    BY <2>1, <2>2 DEF Turn
<1> QED
  BY <1>2, <1>3 DEF QuietStep

LEMMA CallTurns ==
  ASSUME PathTyped, NEW t \in Threads, NEW c, Call(t, c), pc[t] \in AtRest, UNCHANGED writerVars,
         \/ t \in Senders /\ sends' = [sends EXCEPT ![t] = @ + 1] /\ c \notin {"arm", "echo"}
         \/ UNCHANGED sends /\ c \in {"arm", "echo"}
  PROVE  \A u \in Threads : Turn(u)
<1>1. \A u \in Threads : u # t => Stays(u)
  BY OthersStay DEF Call, Goto, Places, writerVars
<1>2. TakesUp(t)
  BY DEF PathTyped, PathTypeOK, Call, Goto, writerVars, TakesUp, SendsSame, CellSame
<1> QED
  BY <1>1, <1>2 DEF Turn

LEMMA PathTurns ==
  ASSUME PathTyped, \A t \in Threads : InTurn(t), [PathNext]_pathVars
  PROVE  \A t \in Threads : Turn(t)
<1>0. Manager \in Threads /\ Manager \in Senders /\ Apps \subseteq Threads /\ Apps \subseteq Senders
  BY DEF Threads, Senders
<1>1. ASSUME NEW t \in Threads, DoWriteStep(t)
      PROVE  QuietStep
  <2>1. CASE DoWrite(t) \/ AsyncWrite(t)
    BY <1>1, <2>1 DEF DoWrite, AsyncWrite, QuietStep, cellVars, callVars, Places, AtRest
  <2>2. CASE Release(t) \/ Expire(t) \/ AsyncWait(t)
    BY <1>1, <2>2 DEF Release, Expire, AsyncWait, QuietStep, cellVars, callVars, Places, AtRest
  <2> QED
    BY <1>1, <2>1, <2>2 DEF DoWriteStep
<1>2. ASSUME NEW t \in Threads, ArmHandle(t) \/ DoRead(t)
      PROVE  QuietStep
  BY <1>2 DEF ArmHandle, DoRead, QuietStep, cellVars, callVars, Places, AtRest
<1>3. CASE FreeCell \/ Written \/ Closing \/ ParseOwnHeartBeat \/ ParseEnd
  <2>1. QuietStep
    BY <1>0, <1>3 DEF FreeCell, HasReadClear, Written, Closing, ParseOwnHeartBeat, ParseEnd,
       QuietStep, cellVars, callVars, Places, AtRest
  <2> QED
    BY <2>1, QuietTurns
<1>4. CASE ParseReply \/ ParseHeartBeat \/ HeartBeatSend
  BY <1>0, <1>4, CallTurns DEF ParseReply, ParseHeartBeat, HeartBeatSend, Handling, cellVars,
     AtRest
<1>5. ASSUME NEW t \in Apps, Send(t)
      PROVE  \A u \in Threads : Turn(u)
  BY <1>0, <1>5, CallTurns DEF Send, cellVars, AtRest
<1>6. CASE \/ HandleWriteDone \/ HeartBeatHandle \/ HandleRead \/ HandleReadError \/ HandleClose
  <2>1. QuietStep
    BY <1>0, <1>6 DEF HandleWriteDone, HandleWrite, HasRead, HandleWriteError, HeartBeatHandle,
       HandleRead, HandleReadError, HandleClose, Handling, QuietStep, cellVars, callVars, Places,
       AtRest
  <2> QED
    BY <2>1, QuietTurns
<1>7. CASE SendTimerFires \/ HandleTimerFires \/ Stop \/ UNCHANGED pathVars
  <2>1. QuietStep
    BY <1>7 DEF SendTimerFires, HandleTimerFires, Stop, pathVars, QuietStep, cellVars, callVars
  <2> QED
    BY <2>1, QuietTurns
<1> QED
  BY <1>1, <1>2, <1>3, <1>4, <1>5, <1>6, <1>7, QuietTurns, DeliverStepTurns DEF PathNext, Step

\* a was sent before b, if the same thread sent both.
Before(a, b) ==
  a \in AppMessage /\ b \in AppMessage /\ a[1] = b[1] => a[2] < b[2]

Sorted(s) == \A i, j \in DOMAIN s : i < j => Before(s[i], s[j])

\* The wire and then the ring hold each thread's messages in order ...
InOrder ==
  /\ Sorted(sent) /\ Sorted(Contents)
  /\ \A i \in DOMAIN sent, j \in DOMAIN Contents : Before(sent[i], Contents[j])

\* ... none of them later than the current one, and earlier while that is pending.
Upto ==
  \A m \in AppMessage : Present(m) =>
    m[2] <= sends[m[1]] /\ (Pending(m[1]) => m[2] < sends[m[1]])

LEMMA SortedAppend ==
  ASSUME NEW S, NEW s \in Seq(S), NEW v \in S, Sorted(s),
         \A i \in DOMAIN s : Before(s[i], v)
  PROVE  Sorted(Append(s, v))
<1>1. /\ DOMAIN s = 1 .. Len(s) /\ Len(s) \in Nat
      /\ DOMAIN Append(s, v) = 1 .. Len(s) + 1
      /\ Append(s, v)[Len(s) + 1] = v
      /\ \A i \in 1 .. Len(s) : Append(s, v)[i] = s[i]
  OBVIOUS
<1>2. ASSUME NEW i \in 1 .. Len(s) + 1, NEW j \in 1 .. Len(s) + 1, i < j
      PROVE  Before(Append(s, v)[i], Append(s, v)[j])
  <2>1. i \in 1 .. Len(s)
    BY <1>1, <1>2
  <2>2. CASE j = Len(s) + 1
    BY <1>1, <2>1, <2>2
  <2>3. CASE j # Len(s) + 1
    <3>1. j \in 1 .. Len(s)
      BY <1>1, <2>3
    <3> QED
      BY <1>1, <1>2, <2>1, <3>1 DEF Sorted
  <2> QED
    BY <2>2, <2>3
<1> QED
  BY <1>1, <1>2 DEF Sorted

LEMMA SortedTail ==
  ASSUME NEW S, NEW s \in Seq(S), s # << >>, Sorted(s)
  PROVE  /\ Sorted(Tail(s))
         /\ \A i \in DOMAIN Tail(s) : Before(s[1], Tail(s)[i]) /\ \E j \in DOMAIN s : s[j] = Tail(s)[i]
<1>1. /\ DOMAIN s = 1 .. Len(s) /\ Len(s) \in Nat \ {0}
      /\ DOMAIN Tail(s) = 1 .. Len(s) - 1
      /\ \A i \in 1 .. Len(s) - 1 : Tail(s)[i] = s[i + 1]
  OBVIOUS
<1>2. \A i \in 1 .. Len(s) - 1 : i + 1 \in 1 .. Len(s) /\ 1 < i + 1 /\ 1 \in 1 .. Len(s)
  BY <1>1
<1>3. \A i, j \in 1 .. Len(s) - 1 : i < j => i + 1 < j + 1
  BY <1>1
<1> QED
  BY <1>1, <1>2, <1>3 DEF Sorted

LEMMA AppMessageParts ==
  ASSUME NEW m \in AppMessage
  PROVE  m[1] \in Senders /\ m[2] \in Nat
<1>1. PICK t \in Senders : m \in {t} \X (1 .. Sends[t])
  BY DEF AppMessage
<1>2. m[1] = t /\ m[2] \in 1 .. Sends[t] /\ Sends[t] \in Nat
  BY <1>1, SendsAssumption
<1> QED
  BY <1>2

\* The message a fetch_add gives a slot is later than all those of its thread.
LEMMA PutIsLast ==
  ASSUME PathTyped, Upto, NEW t \in Writers, InTurn(t), LogPuts(t), NEW m,
         m \in AppMessage => Present(m)
  PROVE  Before(m, wmsg[t])
<1>1. wpc[t] = "claim" /\ pc[t] # "deliver"
  BY DEF LogPuts, Claim, InTurn, AtRest
<1>2. CASE wmsg[t] # HeartBeat
  <2>1. Pending(t) /\ t \in Senders /\ wmsg[t] = << t, sends[t] >>
    BY <1>1, <1>2 DEF Pending, InTurn
  <2> QED
    BY <2>1 DEF Before, Upto
<1>3. CASE wmsg[t] = HeartBeat
  BY <1>3, MessageFacts DEF Before
<1> QED
  BY <1>2, <1>3

LEMMA InOrderStep ==
  ASSUME RoomyPathInv, \A t \in Threads : InTurn(t), InOrder, Upto, LogStep
  PROVE  InOrder'
<1>0. /\ sent \in Seq(Message \cup {NULL}) /\ Contents \in Seq(Message \cup {NULL})
      /\ PathTyped /\ \A t \in Writers : wpc[t] = "claim" => wmsg[t] \in Message
  BY LogType DEF RoomyPathInv
<1>1. ASSUME NEW t \in Writers, LogPuts(t)
      PROVE  InOrder'
  <2>1. /\ Contents' = Append(Contents, wmsg[t]) /\ sent' = sent
        /\ wmsg[t] \in Message \cup {NULL} /\ t \in Threads
    BY <1>0, <1>1, ThreadsAreWriters DEF LogPuts, Claim
  <2>2. /\ \A i \in DOMAIN sent : Before(sent[i], wmsg[t])
        /\ \A i \in DOMAIN Contents : Before(Contents[i], wmsg[t])
    BY <1>0, <1>1, <2>1, PutIsLast DEF Present
  <2>3. /\ DOMAIN Contents' = 1 .. Len(Contents) + 1 /\ DOMAIN Contents = 1 .. Len(Contents)
        /\ Contents'[Len(Contents) + 1] = wmsg[t]
        /\ \A i \in 1 .. Len(Contents) : Contents'[i] = Contents[i]
        /\ Len(Contents) \in Nat
    BY <1>0, <2>1
  <2>4. Sorted(Append(Contents, wmsg[t]))
    BY <1>0, <2>1, <2>2, SortedAppend DEF InOrder
  <2>5. Sorted(sent)' /\ Sorted(Contents)'
    BY <2>1, <2>4 DEF InOrder, Sorted
  <2>6. \A i \in DOMAIN sent', j \in DOMAIN Contents' : Before(sent'[i], Contents'[j])
    BY <2>1, <2>2, <2>3 DEF InOrder
  <2>7. (\A i \in DOMAIN sent, j \in DOMAIN Contents : Before(sent[i], Contents[j]))'
    BY <2>6 DEF Before
  <2> QED
    BY <2>5, <2>7 DEF InOrder
<1>2. CASE LogGets
  <2>1. Contents # << >> /\ Contents' = Tail(Contents) /\ 1 \in DOMAIN Contents
    BY <1>0, <1>2 DEF LogGets
  <2>2. /\ Sorted(Tail(Contents))
        /\ \A i \in DOMAIN Tail(Contents) :
             /\ Before(Contents[1], Tail(Contents)[i])
             /\ \E j \in DOMAIN Contents : Contents[j] = Tail(Contents)[i]
    BY <1>0, <2>1, SortedTail DEF InOrder
  <2>3. Sorted(Contents)'
    BY <2>1, <2>2 DEF Sorted
  <2>4. CASE UNCHANGED sent
    <3>1. Sorted(sent)'
      BY <2>4 DEF InOrder, Sorted
    <3>2. \A i \in DOMAIN sent', j \in DOMAIN Contents' : Before(sent'[i], Contents'[j])
      BY <2>1, <2>2, <2>4 DEF InOrder
    <3> QED
      BY <2>3, <3>1, <3>2 DEF InOrder, Before
  <2>5. CASE sent' = Append(sent, Contents[1]) /\ Contents[1] \in AppMessage
    <3>1. \A i \in DOMAIN sent : Before(sent[i], Contents[1])
      BY <2>1 DEF InOrder
    <3>2. Sorted(Append(sent, Contents[1]))
      BY <1>0, <2>5, <3>1, SortedAppend, MessageFacts DEF InOrder
    <3>3. Sorted(sent)'
      BY <2>5, <3>2 DEF Sorted
    <3>4. \A i \in DOMAIN sent', j \in DOMAIN Contents' : Before(sent'[i], Contents'[j])
      <4>1. \A i \in DOMAIN sent' :
              (i \in DOMAIN sent /\ sent'[i] = sent[i]) \/ sent'[i] = Contents[1]
        BY <1>0, <2>5, MessageFacts
      <4> QED
        BY <2>1, <2>2, <4>1 DEF InOrder
    <3> QED
      BY <2>3, <3>3, <3>4 DEF InOrder, Before
  <2> QED
    BY <1>2, <2>4, <2>5 DEF LogGets
<1>3. CASE UNCHANGED << sent, Contents >>
  BY <1>3 DEF InOrder, Sorted, Before
<1> QED
  BY <1>1, <1>2, <1>3 DEF LogStep

LEMMA UptoStep ==
  ASSUME RoomyPathInv, \A t \in Threads : InTurn(t) /\ Turn(t), Upto, LogStep
  PROVE  Upto'
<1>0. sends \in [Senders -> Nat] /\ Senders \subseteq Threads /\ Threads = Writers
  BY ThreadsAreWriters DEF RoomyPathInv, PathTyped, PathTypeOK, Senders, Threads
<1> SUFFICES ASSUME NEW m \in AppMessage, Present(m)'
             PROVE  m[2] <= sends'[m[1]] /\ (Pending(m[1])' => m[2] < sends'[m[1]])
  BY DEF Upto
<1>1. PICK s \in Senders : s = m[1]
  BY AppMessageParts
<1>2. m[2] \in Nat /\ sends[s] \in Nat /\ s \in Threads
  BY <1>0, AppMessageParts
<1>3. \/ sends'[s] = sends[s] + 1
      \/ sends'[s] = sends[s] /\ (Pending(s)' => Pending(s))
  BY <1>2, TurnKeeps
<1>4. CASE Present(m)
  <2>1. m[2] <= sends[s] /\ (Pending(s) => m[2] < sends[s])
    BY <1>1, <1>4 DEF Upto
  <2>2. m[2] <= sends'[s] /\ (Pending(s)' => m[2] < sends'[s])
    BY <1>2, <1>3, <2>1
  <2> QED
    BY <1>1, <2>2 DEF Pending
<1>5. ASSUME NEW t \in Writers, LogPuts(t), m = wmsg[t]
      PROVE  m[2] <= sends'[m[1]] /\ (Pending(m[1])' => m[2] < sends'[m[1]])
  <2>1. wpc[t] = "claim" /\ wmsg[t] # HeartBeat /\ pc[t] # "deliver" /\ t \in Threads
    BY <1>0, <1>5, MessageFacts DEF LogPuts, Claim, InTurn, AtRest
  <2>2. wmsg[t] = << t, sends[t] >> /\ t = s /\ m[2] = sends[s]
    BY <1>1, <1>5, <2>1 DEF InTurn, Pending
  <2>3. InTurn(t)' /\ wpc'[t] = "store"
    BY <1>0, <1>5, <2>1, TurnKeeps DEF LogPuts, Claim, RoomyPathInv, PathTyped, PathTypeOK,
       CellTypeOK
  <2>4. ~Pending(t)'
    BY <2>3 DEF InTurn, Pending, AtRest
  <2> QED
    BY <1>1, <1>2, <1>3, <2>2, <2>4 DEF Pending
<1> QED
  BY <1>4, <1>5, PresentStep

\* The messages of one thread reach the wire in the order it sent them, each once, as long
\* as every fetch_add leaves a free slot: retries while the cache is full, partial writes
\* and the other threads do not change it.
THEOREM OrderPerThreadCorrect == RoomyPathSpec => []OrderPerThread
<1> DEFINE Inv == RoomyPathInv /\ (\A t \in Threads : InTurn(t)) /\ InOrder /\ Upto
<1>1. PathInit => Inv
  <2> SUFFICES ASSUME PathInit
               PROVE  (\A t \in Threads : InTurn(t)) /\ InOrder /\ Upto
    BY RoomyPathInvInit
  <2>1. \A t \in Threads : InTurn(t)
    BY ThreadsAreWriters DEF PathInit, CellInit, InTurn, Pending, AtRest
  <2>2. sent = << >> /\ m_write_pos = m_read_pos
    BY DEF PathInit, CellInit
  <2>3. DOMAIN sent = {} /\ DOMAIN Contents = {}
    BY <2>2, SizeAssumption DEF Contents, Occupancy, PathInit, CellInit
  <2> QED
    BY <2>1, <2>3 DEF InOrder, Sorted, Upto, Present
<1>2. Inv /\ [PathNext /\ ClaimInRoom]_pathVars => Inv'
  <2> SUFFICES ASSUME Inv, [PathNext /\ ClaimInRoom]_pathVars
               PROVE  Inv'
    OBVIOUS
  <2>1. RoomyPathInv'
    BY RoomyPathInvStep
  <2>2. LogStep
    BY LogMoves
  <2>3. \A t \in Threads : Turn(t)
    BY PathTurns DEF RoomyPathInv
  <2>4. \A t \in Threads : InTurn(t)'
    BY <2>3, TurnKeeps
  <2>5. InOrder'
    BY <2>2, InOrderStep
  <2>6. Upto'
    BY <2>2, <2>3, UptoStep
  <2>7. (\A t \in Threads : InTurn(t))'
    BY <2>4 DEF Threads
  <2> QED
    BY <2>1, <2>5, <2>6, <2>7
<1>3. Inv => OrderPerThread
  <2> SUFFICES ASSUME Inv, NEW i \in DOMAIN sent, NEW j \in DOMAIN sent, i < j,
                      sent[i][1] = sent[j][1]
               PROVE  sent[i][2] < sent[j][2]
    BY DEF OrderPerThread
  <2>1. sent[i] \in AppMessage /\ sent[j] \in AppMessage
    BY DEF RoomyPathInv, PathTyped, PathTypeOK
  <2> QED
    BY <2>1 DEF InOrder, Sorted, Before
<1> QED
  BY <1>1, <1>2, <1>3, PTL DEF RoomyPathSpec

-----------------------------------------------------------------------------
(* No message is left to sleep.                                            *)

\* No deliver gives up on a full cache.
GivesUp == \E t \in Threads : WriteFull(t)

PatientPathSpec == PathInit /\ [][PathNext /\ ~GivesUp]_pathVars

\* A shut gate is someone's to open, and a connection that closes is marked so first.
Attended ==
  inflight # NULL \/ pc[Manager] = "written" \/ closePosted

GateAttended ==
  m_is_connected /\ m_send_cell_is_sending = 1
    => Attended \/ \E t \in Threads : pc[t] \in {"enabled", "release"}

ClosingIsMarked == pc[Manager] = "closing" => ~m_is_connected

AwakeInv == PathTyped /\ GateAttended /\ ClosingIsMarked /\ Awake

\* Places from which a thread goes on to look, or to set the timer.
Looking == {"deliver", "write", "do_write", "enabled", "release", "expire", "wait"}

\* Thread t goes from one place to another and nothing else that matters changes.
LEMMA MoveKeepsAwake ==
  ASSUME AwakeInv, NEW t \in Threads, NEW l \in Places, pc' = [pc EXCEPT ![t] = l],
         pc[t] \in Looking => l \in Looking \/ sendWaits' > 0 \/ Attended,
         pc[t] \notin {"enabled", "release", "written"},
         l = "closing" => ~m_is_connected,
         sendWaits' = sendWaits \/ (l = "wait" /\ sendWaits' = 0) \/ sendWaits' > 0,
         sendFired' = sendFired \/ l \in Looking,
         UNCHANGED << m_is_connected, m_send_cell_is_sending, inflight >>,
         closePosted' \in {closePosted, TRUE}
  PROVE  GateAttended' /\ ClosingIsMarked' /\ Awake'
<1>1. /\ pc'[t] = l /\ \A u \in Threads : u # t => pc'[u] = pc[u]
      /\ Manager \in Threads
  BY ManagerIsThread DEF AwakeInv, PathTyped, PathTypeOK
<1>2. Attended => Attended'
  BY <1>1 DEF Attended
<1>3. GateAttended'
  BY <1>1, <1>2 DEF AwakeInv, GateAttended
<1>4. ClosingIsMarked'
  BY <1>1 DEF AwakeInv, ClosingIsMarked
<1>5. WillLook => WillLook' \/ Attended
  <2>1. CASE \E u \in Threads : pc[u] \in Looking
    BY <1>1, <2>1 DEF WillLook, Looking
  <2>2. CASE sendWaits > 0
    BY <1>1, <2>2 DEF WillLook
  <2>3. CASE sendFired > 0
    BY <1>1, <2>3 DEF WillLook, Looking
  <2> QED
    BY <2>1, <2>2, <2>3 DEF WillLook, Looking
<1>6. Awake'
  BY <1>2, <1>5 DEF AwakeInv, Awake, Attended
<1> QED
  BY <1>3, <1>4, <1>6

\* Nothing moves, or only what Awake wants comes.
LEMMA StillKeepsAwake ==
  ASSUME AwakeInv, UNCHANGED << pc, m_is_connected, m_send_cell_is_sending >>,
         closePosted' \in {closePosted, TRUE},
         inflight' = inflight \/ closePosted',
         \/ UNCHANGED << sendWaits, sendFired >>
         \/ sendWaits' = 0 /\ sendFired' = sendFired + sendWaits
  PROVE  GateAttended' /\ ClosingIsMarked' /\ Awake'
<1>1. Attended => Attended'
  BY DEF Attended
<1>2. GateAttended' /\ ClosingIsMarked'
  BY <1>1 DEF AwakeInv, GateAttended, ClosingIsMarked, Threads
<1>3. WillLook => WillLook'
  BY DEF WillLook, AwakeInv, PathTyped, PathTypeOK, Threads
<1> QED
  BY <1>1, <1>2, <1>3 DEF AwakeInv, Awake, Attended

LEMMA AwakeStep ==
  AwakeInv /\ [PathNext /\ ~GivesUp]_pathVars => AwakeInv'
<1> SUFFICES ASSUME AwakeInv, [PathNext /\ ~GivesUp]_pathVars
             PROVE  GateAttended' /\ ClosingIsMarked' /\ Awake'
  BY PathStepTyped DEF AwakeInv
<1>0. /\ DOMAIN pc = Threads /\ Manager \in Threads
      /\ sendWaits \in Nat /\ sendFired \in Nat /\ m_send_cell_is_sending \in {0, 1}
      /\ PathTyped
  BY ManagerIsThread DEF AwakeInv, PathTyped, PathTypeOK
<1>1. ASSUME NEW t \in Threads, DeliverStep(t), ~WriteFull(t)
      PROVE  GateAttended' /\ ClosingIsMarked' /\ Awake'
  <2>1. CASE Deliver(t)
    <3>1. CASE ~m_is_connected
      BY <2>1, <3>1 DEF Deliver, gateVars, GateAttended, ClosingIsMarked, Awake
    <3>2. CASE m_is_connected
      <4>1. Goto(t, "write")
        BY <2>1, <3>2 DEF Deliver
      <4> QED
        BY <2>1, <4>1, MoveKeepsAwake DEF Deliver, Goto, Places, Looking, gateVars, wireVars,
           timerVars, loopVars
    <3> QED
      BY <3>1, <3>2
  <2>2. CASE WriteChche(t)
    BY <2>2, StillKeepsAwake DEF WriteChche, gateVars, wireVars, timerVars, loopVars
  <2>3. CASE WriteOk(t)
    BY <2>3, MoveKeepsAwake DEF WriteOk, Goto, Places, Looking, gateVars, wireVars, timerVars,
       loopVars
  <2>4. CASE Done(t)
    <3>1. \/ Goto(t, "idle") \/ Goto(t, "arm") \/ Goto(t, "parse")
      BY <2>4, Zenon DEF Done
    <3> QED
      BY <2>4, <3>1, MoveKeepsAwake DEF Done, Goto, Places, Looking, gateVars, wireVars, loopVars
  <2> QED
    BY <1>1, <2>1, <2>2, <2>3, <2>4 DEF DeliverStep
<1>2. ASSUME NEW t \in Threads, DoWriteStep(t)
      PROVE  GateAttended' /\ ClosingIsMarked' /\ Awake'
  <2>1. CASE DoWrite(t)
    <3>1. CASE m_is_connected /\ m_send_cell_is_sending = 0
      <4>1. pc'[t] = "enabled"
        BY <1>0, <1>2, <2>1, <3>1 DEF DoWrite, Goto
      <4>2. GateAttended' /\ Awake'
        BY <1>2, <4>1 DEF GateAttended, Awake, WillLook, Threads
      <4>3. ClosingIsMarked'
        BY <1>0, <1>2, <2>1, <3>1 DEF DoWrite, Goto, ClosingIsMarked, AwakeInv
      <4> QED
        BY <4>2, <4>3
    <3>2. CASE ~m_is_connected
      BY <2>1, <3>2 DEF DoWrite, GateAttended, ClosingIsMarked, Awake
    <3>3. CASE m_is_connected /\ m_send_cell_is_sending = 1
      <4>1. pc[t] = "do_write" /\ pc' = [pc EXCEPT ![t] = "done"]
        BY <2>1, <3>3 DEF DoWrite, Goto
      <4>2. Attended \/ \E u \in Threads : u # t /\ pc[u] \in {"enabled", "release"}
        BY <3>3, <4>1 DEF AwakeInv, GateAttended
      <4>3. Attended' \/ \E u \in Threads : pc'[u] \in {"enabled", "release"}
        BY <1>0, <2>1, <4>1, <4>2 DEF DoWrite, Attended, wireVars, loopVars
      <4>4. GateAttended' /\ Awake'
        BY <4>3 DEF GateAttended, Awake, Attended, WillLook, Threads
      <4>5. ClosingIsMarked'
        BY <1>0, <1>2, <2>1, <4>1 DEF DoWrite, ClosingIsMarked, AwakeInv
      <4> QED
        BY <4>4, <4>5
    <3> QED
      BY <1>0, <3>1, <3>2, <3>3
  <2>2. CASE AsyncWrite(t)
    <3>1. CASE enable_read
      <4>1. m_scu_ptr[m_read_pos] \in Cell
        BY <1>0, <3>1, SlotIsCell DEF enable_read, PathTyped, PathTypeOK, CellTypeOK
      <4>2. inflight' # NULL
        BY <2>2, <3>1, <4>1, BufferAssumption DEF AsyncWrite, Cell
      <4>3. ClosingIsMarked'
        BY <1>0, <1>2, <2>2, <3>1 DEF AsyncWrite, Goto, ClosingIsMarked, AwakeInv, gateVars
      <4> QED
        BY <4>2, <4>3 DEF GateAttended, Attended, Awake
    <3>2. CASE ~enable_read
      <4>1. pc'[t] = "release"
        BY <1>0, <1>2, <2>2, <3>2 DEF AsyncWrite, Goto
      <4>2. GateAttended' /\ Awake'
        BY <1>2, <4>1 DEF GateAttended, Awake, WillLook, Threads
      <4>3. ClosingIsMarked'
        BY <1>0, <1>2, <2>2, <3>2 DEF AsyncWrite, Goto, ClosingIsMarked, AwakeInv, gateVars
      <4> QED
        BY <4>2, <4>3
    <3> QED
      BY <3>1, <3>2
  <2>3. CASE Release(t)
    <3>1. pc'[t] = "expire" /\ m_send_cell_is_sending' = 0
      BY <1>0, <1>2, <2>3 DEF Release, Goto
    <3>2. GateAttended' /\ Awake'
      BY <1>2, <3>1 DEF GateAttended, Awake, WillLook, Threads
    <3>3. ClosingIsMarked'
      BY <1>0, <1>2, <2>3 DEF Release, Goto, ClosingIsMarked, AwakeInv
    <3> QED
      BY <3>2, <3>3
  <2>4. CASE Expire(t)
    BY <2>4, MoveKeepsAwake DEF Expire, Goto, Places, Looking, gateVars, wireVars, loopVars
  <2>5. CASE AsyncWait(t)
    <3>1. /\ pc[t] = "wait" /\ pc' = [pc EXCEPT ![t] = "done"] /\ "done" \in Places
          /\ UNCHANGED << m_is_connected, m_send_cell_is_sending, inflight, sendFired, closePosted >>
      BY <2>5 DEF AsyncWait, Goto, Places, gateVars, wireVars, loopVars
    <3>2. sendWaits' > 0
      BY <1>0, <2>5 DEF AsyncWait
    <3> QED
      BY <1>2, <3>1, <3>2, MoveKeepsAwake
  <2> QED
    BY <1>2, <2>1, <2>2, <2>3, <2>4, <2>5 DEF DoWriteStep
<1>3. ASSUME NEW t \in Threads, ArmHandle(t) \/ DoRead(t)
      PROVE  GateAttended' /\ ClosingIsMarked' /\ Awake'
  <2>1. CASE ArmHandle(t)
    BY <2>1, MoveKeepsAwake DEF ArmHandle, Goto, Places, Looking, gateVars, wireVars, loopVars
  <2>2. CASE DoRead(t)
    BY <2>2, MoveKeepsAwake DEF DoRead, Goto, Places, Looking, gateVars, wireVars, timerVars
  <2> QED
    BY <1>3, <2>1, <2>2
<1>4. CASE FreeCell \/ ParseOwnHeartBeat \/ ParseEnd
  <2>1. CASE FreeCell \/ ParseOwnHeartBeat
    BY <2>1, StillKeepsAwake DEF FreeCell, ParseOwnHeartBeat, gateVars, wireVars, timerVars,
       loopVars
  <2>2. CASE ParseEnd
    BY <1>0, <2>2, MoveKeepsAwake DEF ParseEnd, Goto, Places, Looking, gateVars, wireVars, timerVars
  <2> QED
    BY <1>4, <2>1, <2>2
<1>5. CASE ParseReply \/ ParseHeartBeat \/ HeartBeatSend \/ HandleRead
  <2>1. CASE ParseReply \/ ParseHeartBeat \/ HeartBeatSend
    BY <1>0, <2>1, MoveKeepsAwake DEF ParseReply, ParseHeartBeat, HeartBeatSend, Handling, Call,
       Goto, Places,
       Looking, gateVars, wireVars, timerVars, loopVars
  <2>2. CASE HandleRead
    BY <1>0, <2>2, MoveKeepsAwake DEF HandleRead, Handling, Goto, Places, Looking, gateVars,
       wireVars
  <2> QED
    BY <1>5, <2>1, <2>2
<1>6. CASE \E t \in Apps : Send(t)
  <2>1. PICK t \in Threads : Send(t)
    BY <1>6 DEF Threads
  <2> QED
    BY <2>1, MoveKeepsAwake DEF Send, Call, Goto, Places, Looking, gateVars, wireVars, timerVars,
       loopVars
<1>7. CASE \/ HandleWriteError \/ HeartBeatHandle \/ HandleReadError \/ Stop
           \/ SendTimerFires \/ HandleTimerFires \/ UNCHANGED pathVars
  <2>1. CASE HandleWriteError \/ HeartBeatHandle \/ HandleReadError \/ Stop
    BY <2>1, StillKeepsAwake DEF HandleWriteError, HeartBeatHandle, HandleReadError, Stop,
       gateVars, wireVars,
       timerVars
  <2>2. CASE SendTimerFires \/ HandleTimerFires \/ UNCHANGED pathVars
    BY <2>2, StillKeepsAwake DEF SendTimerFires, HandleTimerFires, pathVars, gateVars, wireVars,
       timerVars, loopVars
  <2> QED
    BY <1>7, <2>1, <2>2
<1>8. ASSUME NEW k, HandleWrite(k)
      PROVE  GateAttended' /\ ClosingIsMarked' /\ Awake'
  <2>1. pc'[Manager] = "written"
    BY <1>0, <1>8 DEF HandleWrite, Goto
  <2> QED
    BY <2>1 DEF GateAttended, Attended, ClosingIsMarked, Awake
<1>9. CASE Written
  <2>1. pc'[Manager] = "do_write" /\ m_send_cell_is_sending' = 0
    BY <1>0, <1>9 DEF Written, Goto
  <2> QED
    BY <1>0, <2>1 DEF GateAttended, ClosingIsMarked, Awake, WillLook
<1>10. CASE HandleClose
  <2>1. ~m_is_connected'
    BY <1>10 DEF HandleClose
  <2> QED
    BY <2>1 DEF GateAttended, ClosingIsMarked, Awake
<1>11. CASE Closing
  <2>1. ~m_is_connected'
    BY <1>11 DEF Closing, AwakeInv, ClosingIsMarked, gateVars
  <2> QED
    BY <2>1 DEF GateAttended, ClosingIsMarked, Awake
<1>12. ASSUME NEW t \in Threads, Step(t), ~GivesUp
       PROVE  GateAttended' /\ ClosingIsMarked' /\ Awake'
  BY <1>1, <1>2, <1>3, <1>4, <1>5, <1>9, <1>11, <1>12 DEF GivesUp, Step
<1>13. CASE HandleWriteDone
  BY <1>7, <1>8, <1>13 DEF HandleWriteDone
<1>14. CASE PathNext /\ ~GivesUp
  BY <1>5, <1>6, <1>7, <1>10, <1>12, <1>13, <1>14 DEF PathNext
<1> QED
  BY <1>7, <1>14

\* As long as no deliver gives up on a full cache, an open connection never falls asleep:
\* a write is pending or being accounted for, a thread will call do_write, the heartbeat
\* timer is set or a close is queued; however the gate, the lost wake-ups of
\* send_data and the threads that cancel each other's timer interleave, and whether or
\* not the ring is overrun.
THEOREM AwakeCorrect == PatientPathSpec => []Awake
<1>1. PathInit => AwakeInv
  <2> SUFFICES ASSUME PathInit
               PROVE  GateAttended /\ ClosingIsMarked /\ Awake
    BY PathInitTyped DEF AwakeInv
  <2>1. /\ m_send_cell_is_sending = 0 /\ Starter \in Threads /\ Manager \in Threads
        /\ pc[Starter] = "deliver" /\ pc[Manager] = "idle"
    BY ThreadsAssumption DEF PathInit, Threads
  <2> QED
    BY <2>1 DEF GateAttended, ClosingIsMarked, Awake, WillLook
<1>2. AwakeInv => Awake
  BY DEF AwakeInv
<1> QED
  BY <1>1, <1>2, AwakeStep, PTL DEF PatientPathSpec
=============================================================================
