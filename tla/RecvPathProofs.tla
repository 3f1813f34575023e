--------------------------- MODULE RecvPathProofs ---------------------------
(***************************************************************************)
(* What is proved of RecvPath.tla for every buffer size, every set of      *)
(* frame sizes and any length of the peer's stream.                        *)
(***************************************************************************)
EXTENDS RecvPath, TLAPS

Half == m_total_size \div 2

HandlerOp == [op : {"read", "ready", "abort", "close"}, bytes : Nat]

\* The handlers of an async_read_some.
IsReadHandler(h) == h.op \in {"read", "abort"}

AtMostOneRead(q) ==
  \A i, j \in 1 .. Len(q) : IsReadHandler(q[i]) /\ IsReadHandler(q[j]) => i = j

NoRead(q) == \A i \in 1 .. Len(q) : ~IsReadHandler(q[i])

HasRoom(q, room) ==
  \A i \in 1 .. Len(q) : q[i].op = "read" => q[i].bytes <= room

\* do_read, the wait for the socket and the handler of the read follow one
\* another, so there is one of them at a time; the room a finished read was
\* given is still there when its handler runs.
OneRead ==
  /\ AtMostOneRead(ready)
  /\ reading \/ pc # "wait" => NoRead(ready)
  /\ reading => pc = "wait"
  /\ HasRoom(ready, enable_write)

BufferInv ==
  /\ BufferTypeOK
  /\ BufferHoldsStream
  /\ m_read_pos < Half

LEMMA HalfFacts ==
  /\ Half \in Nat /\ Half >= 1 /\ m_total_size = Half + Half
  /\ m_total_size \in Nat
BY TotalAssumption DEF Half

-----------------------------------------------------------------------------
(* The buffer.                                                             *)

LEMMA HasWriteKeepsBuffer ==
  ASSUME BufferInv, NEW len \in Nat, len <= enable_write, HasWrite(len)
  PROVE  BufferInv'
<1>1. /\ m_read_pos \in Nat /\ m_write_pos \in Nat /\ m_read_pos <= m_write_pos
      /\ received \in Nat /\ consumed \in Nat
      /\ m_write_pos + len <= m_total_size
  BY HalfFacts DEF BufferInv, BufferTypeOK, enable_write
<1>2. /\ m_write_pos' = m_write_pos + len /\ received' = received + len
      /\ m_read_pos' = m_read_pos /\ consumed' = consumed
  BY DEF HasWrite
<1>3. buf' \in [Places -> Nat \cup {Junk}]
  BY <1>1, HalfFacts DEF HasWrite, BufferInv, BufferTypeOK, Places
<1>4. received = consumed + (m_write_pos - m_read_pos)
  BY DEF BufferInv, BufferHoldsStream, enable_read
<1>5. ASSUME NEW i \in Places, m_read_pos <= i, i < m_write_pos + len
      PROVE  buf'[i] = consumed + (i - m_read_pos)
  <2>1. CASE i < m_write_pos
    <3>1. buf'[i] = buf[i]
      BY <1>1, <2>1, HalfFacts DEF HasWrite, Places
    <3> QED
      BY <3>1, <1>5, <2>1 DEF BufferInv, BufferHoldsStream
  <2>2. CASE m_write_pos <= i
    <3>1. buf'[i] = received + (i - m_write_pos)
      BY <1>5, <2>2 DEF HasWrite
    <3> QED
      BY <3>1, <1>1, <1>4, HalfFacts DEF Places
  <2> QED
    BY <2>1, <2>2, <1>1, HalfFacts DEF Places
<1> QED
  BY <1>1, <1>2, <1>3, <1>4, <1>5, HalfFacts
     DEF BufferInv, BufferTypeOK, BufferHoldsStream, enable_read

\* The rest that has_read moves is at most half of the buffer and starts at
\* half of it or later: source and destination of the memcpy are disjoint.
LEMMA HasReadKeepsBuffer ==
  ASSUME BufferInv, NEW len \in Nat, len <= enable_read, HasRead(len)
  PROVE  BufferInv' /\ consumed' = consumed + len
<1> DEFINE from == m_read_pos + len
<1>1. /\ m_read_pos \in Nat /\ m_write_pos \in Nat
      /\ m_write_pos <= m_total_size
      /\ received \in Nat /\ consumed \in Nat
      /\ from \in Nat /\ from <= m_write_pos
  BY HalfFacts DEF BufferInv, BufferTypeOK, enable_read
<1>2. consumed' = consumed + len /\ received' = received
  BY DEF HasRead
<1>3. received = consumed + (m_write_pos - m_read_pos)
  BY DEF BufferInv, BufferHoldsStream, enable_read
<1>4. CASE from >= Half
  <2>1. /\ m_read_pos' = 0 /\ m_write_pos' = m_write_pos - from
        /\ buf' = Memcpy(from, m_write_pos - from)
    BY <1>4 DEF HasRead, Half
  <2>2. m_write_pos - from \in Nat /\ m_write_pos - from <= from
    BY <1>1, <1>4, HalfFacts
  <2>3. buf' \in [Places -> Nat \cup {Junk}]
    <3>1. ASSUME NEW i \in Places
          PROVE  buf'[i] \in Nat \cup {Junk}
      <4>1. i >= m_write_pos - from \/ from + i \in Places
        BY <1>1, <2>2, HalfFacts DEF Places
      <4> HIDE DEF from
      <4>2. \/ buf'[i] = buf[i]
            \/ from + i \in Places /\ buf'[i] = buf[from + i]
            \/ buf'[i] = Junk
        BY <2>1, <4>1 DEF Memcpy
      <4> QED
        BY <4>2 DEF BufferInv, BufferTypeOK
    <3> HIDE DEF from
    <3>2. buf' = [i \in Places |-> buf'[i]]
      BY <2>1 DEF Memcpy
    <3> QED
      BY <3>1, <3>2
  <2>4. ASSUME NEW i \in Places, i < m_write_pos - from
        PROVE  buf'[i] = consumed + len + i
    <3>1. from + i \in Places /\ m_read_pos <= from + i /\ from + i < m_write_pos
      BY <1>1, <2>4, HalfFacts DEF Places
    <3>2. \A j \in Places : j = from + i => buf[j] = consumed + (j - m_read_pos)
      BY <3>1 DEF BufferInv, BufferHoldsStream
    <3>3. ~(i >= m_write_pos - from) /\ from >= m_write_pos - from
      BY <1>1, <2>2, <2>4, HalfFacts DEF Places
    <3>4. buf'[i] = buf[from + i]
      BY <2>1, <3>3 DEF Memcpy
    <3>5. PICK j \in Places : j = from + i
      BY <3>1
    <3>6. buf'[i] = consumed + (j - m_read_pos)
      BY <3>2, <3>4, <3>5
    <3> QED
      BY <3>5, <3>6, <1>1, HalfFacts DEF Places
  <2> HIDE DEF from
  <2>5. \A i \in Places :
          m_read_pos' <= i /\ i < m_write_pos' => buf'[i] = consumed' + (i - m_read_pos')
    BY <2>1, <2>4, <1>1, <1>2, HalfFacts DEF Places
  <2>6. received' = consumed' + (m_write_pos' - m_read_pos')
    BY <1>1, <1>2, <1>3, <2>1 DEF from
  <2>7. m_write_pos' \in Nat /\ m_write_pos' <= m_total_size
    BY <1>1, <2>1, <2>2, HalfFacts
  <2> QED
    BY <1>1, <1>2, <2>1, <2>3, <2>5, <2>6, <2>7, HalfFacts
       DEF BufferInv, BufferTypeOK, BufferHoldsStream, enable_read
<1>5. CASE from < Half
  <2>1. m_read_pos' = from /\ m_write_pos' = m_write_pos /\ buf' = buf
    BY <1>1, <1>5, HalfFacts DEF HasRead, Half
  <2>2. \A i \in Places : from <= i /\ i < m_write_pos =>
          buf[i] = consumed + len + (i - from)
    BY <1>1, HalfFacts DEF Places, BufferInv, BufferHoldsStream
  <2>3. received' = consumed' + (m_write_pos' - m_read_pos')
    BY <1>1, <1>2, <1>3, <2>1
  <2> QED
    BY <1>1, <1>2, <1>5, <2>1, <2>2, <2>3, HalfFacts
       DEF BufferInv, BufferTypeOK, BufferHoldsStream, enable_read
<1> QED
  BY <1>1, <1>2, <1>4, <1>5, HalfFacts

-----------------------------------------------------------------------------
(* The queue of handlers.                                                  *)

LEMMA QueueAppend ==
  ASSUME NEW q \in Seq(HandlerOp), NEW h \in HandlerOp
  PROVE  /\ Append(q, h) \in Seq(HandlerOp)
         /\ Len(q) \in Nat /\ Len(Append(q, h)) = Len(q) + 1
         /\ \A i \in 1 .. Len(q) : Append(q, h)[i] = q[i]
         /\ Append(q, h)[Len(q) + 1] = h
OBVIOUS

LEMMA QueueTail ==
  ASSUME NEW q \in Seq(HandlerOp), q # << >>
  PROVE  /\ Tail(q) \in Seq(HandlerOp)
         /\ Len(q) \in Nat /\ Len(q) >= 1 /\ Len(Tail(q)) = Len(q) - 1
         /\ \A i \in 1 .. Len(q) - 1 : Tail(q)[i] = q[i + 1]
         /\ Head(q) = q[1] /\ Head(q) \in HandlerOp
OBVIOUS

LEMMA AppendOther ==
  ASSUME NEW q \in Seq(HandlerOp), NEW h \in HandlerOp, ~IsReadHandler(h), NEW room
  PROVE  /\ Append(q, h) \in Seq(HandlerOp)
         /\ AtMostOneRead(q) => AtMostOneRead(Append(q, h))
         /\ NoRead(q) => NoRead(Append(q, h))
         /\ HasRoom(q, room) => HasRoom(Append(q, h), room)
<1>1. \A i \in 1 .. Len(Append(q, h)) : i \in 1 .. Len(q) \/ i = Len(q) + 1
  BY QueueAppend
<1>2. h.op # "read"
  BY DEF IsReadHandler
<1> QED
  BY <1>1, <1>2, QueueAppend DEF AtMostOneRead, NoRead, HasRoom

LEMMA AppendRead ==
  ASSUME NEW q \in Seq(HandlerOp), NoRead(q), NEW h \in HandlerOp, NEW room,
         h.op = "read" => h.bytes <= room
  PROVE  /\ Append(q, h) \in Seq(HandlerOp)
         /\ AtMostOneRead(Append(q, h))
         /\ HasRoom(Append(q, h), room)
<1>1. \A i \in 1 .. Len(Append(q, h)) : i \in 1 .. Len(q) \/ i = Len(q) + 1
  BY QueueAppend
<1>2. \A i \in 1 .. Len(q) : ~IsReadHandler(Append(q, h)[i])
  BY QueueAppend DEF NoRead
<1> QED
  BY <1>1, <1>2, QueueAppend DEF AtMostOneRead, IsReadHandler, HasRoom

LEMMA TailOf ==
  ASSUME NEW q \in Seq(HandlerOp), q # << >>, NEW room
  PROVE  /\ Tail(q) \in Seq(HandlerOp) /\ Head(q) \in HandlerOp
         /\ AtMostOneRead(q) => AtMostOneRead(Tail(q))
         /\ NoRead(q) => NoRead(Tail(q))
         /\ HasRoom(q, room) => HasRoom(Tail(q), room)
         /\ AtMostOneRead(q) /\ IsReadHandler(Head(q)) => NoRead(Tail(q))
         /\ HasRoom(q, room) /\ Head(q).op = "read" => Head(q).bytes <= room
<1>1. \A i \in 1 .. Len(Tail(q)) :
        i + 1 \in 1 .. Len(q) /\ i + 1 # 1 /\ Tail(q)[i] = q[i + 1]
  BY QueueTail
<1>2. 1 \in 1 .. Len(q) /\ Head(q) = q[1]
  BY QueueTail
<1>3. AtMostOneRead(q) => AtMostOneRead(Tail(q))
  <2> SUFFICES ASSUME AtMostOneRead(q),
                      NEW i \in 1 .. Len(Tail(q)), NEW j \in 1 .. Len(Tail(q)),
                      IsReadHandler(Tail(q)[i]), IsReadHandler(Tail(q)[j])
               PROVE  i = j
    BY DEF AtMostOneRead
  <2>1. i + 1 = j + 1
    BY <1>1 DEF AtMostOneRead
  <2> QED
    BY <2>1
<1>4. AtMostOneRead(q) /\ IsReadHandler(Head(q)) => NoRead(Tail(q))
  BY <1>1, <1>2 DEF AtMostOneRead, NoRead
<1>5. /\ NoRead(q) => NoRead(Tail(q))
      /\ HasRoom(q, room) => HasRoom(Tail(q), room)
      /\ HasRoom(q, room) /\ Head(q).op = "read" => Head(q).bytes <= room
  BY <1>1, <1>2 DEF NoRead, HasRoom
<1> QED
  BY <1>3, <1>4, <1>5, QueueTail

LEMMA NoReadFacts ==
  ASSUME NEW q, NoRead(q), NEW room
  PROVE  AtMostOneRead(q) /\ HasRoom(q, room)
BY DEF NoRead, AtMostOneRead, HasRoom, IsReadHandler

LEMMA OpFacts ==
  /\ \A name \in {"read", "ready", "abort", "close"} : Op(name) \in HandlerOp
  /\ Op("ready").op = "ready" /\ Op("close").op = "close" /\ Op("abort").op = "abort"
  /\ Op("read").bytes = 0
  /\ ~IsReadHandler(Op("ready")) /\ ~IsReadHandler(Op("close"))
BY DEF Op, HandlerOp, IsReadHandler

-----------------------------------------------------------------------------
(* The path.                                                               *)

RecvInv == RecvTypeOK /\ BufferInv /\ OneRead

LEMMA RecvInvInit == RecvInit => RecvInv
<1> SUFFICES ASSUME RecvInit PROVE RecvInv
  OBVIOUS
<1>1. BufferInv
  BY HalfFacts
     DEF RecvInit, BufferInit, BufferInv, BufferTypeOK, BufferHoldsStream, enable_read
<1>2. RecvTypeOK
  <2>1. ready \in Seq(HandlerOp)
    BY DEF RecvInit
  <2> QED
    BY <1>1, <2>1 DEF RecvInit, RecvTypeOK, BufferInv, HandlerOp
<1>3. OneRead
  BY DEF RecvInit, OneRead, AtMostOneRead, NoRead, HasRoom
<1> QED
  BY <1>1, <1>2, <1>3 DEF RecvInv

LEMMA FrameFacts ==
  ASSUME RecvInv
  PROVE  /\ frame \in Nat /\ frame >= package_head_len /\ frame >= 1
         /\ m_read_pos \in Nat /\ m_write_pos \in Nat /\ m_read_pos <= m_write_pos
         /\ enable_read \in Nat /\ enable_write \in Nat
         /\ consumed \in Nat /\ received \in Nat
         /\ ready \in Seq(HandlerOp)
         /\ FrameComplete => frame <= enable_read
BY FrameAssumption, HalfFacts
   DEF RecvInv, RecvTypeOK, BufferTypeOK, enable_read, enable_write,
       FrameComplete, HandlerOp

\* The side and the application are chosen once.
LEMMA ChosenStays ==
  ASSUME [RecvNext]_recvVars
  PROVE  side' = side /\ refuses' = refuses
BY DEF RecvNext, DoRead, SocketReady, HandleRead, HandleReadReady,
       ParseHeartBeat, ParseData, ParseRefused, ParseEnd, HandleReadError,
       PeerCloses, Stop, HandleClose, recvVars, chosen

\* Steps that leave the buffer alone.
LEMMA QueueStep ==
  ASSUME RecvInv,
         DoRead \/ SocketReady \/ HandleReadError \/ PeerCloses \/ Stop \/ HandleClose
         \/ ParseRefused \/ ParseEnd
  PROVE  RecvInv'
<1>1. BufferInv' /\ BufferTypeOK' /\ enable_write' = enable_write
  BY DEF DoRead, SocketReady, HandleReadError, PeerCloses, Stop, HandleClose,
         ParseRefused, ParseEnd, bufferVars, RecvInv, BufferInv, BufferTypeOK,
         BufferHoldsStream, enable_read, enable_write
<1>2. /\ ready \in Seq(HandlerOp) /\ enable_write \in Nat
      /\ consumed \in Nat /\ frame \in Nat
  BY FrameFacts
<1>3. /\ pc' \in {"wait", "parse", "read"} /\ frame' \in FrameSizes
      /\ handed' \in Nat /\ calls' \in Nat
  BY <1>2 DEF DoRead, SocketReady, HandleReadError, PeerCloses, Stop, HandleClose,
              Runs, ParseRefused, ParseEnd, RecvInv, RecvTypeOK
<1>4. /\ reading' \in BOOLEAN /\ m_is_connected' \in BOOLEAN /\ stopped' \in BOOLEAN
      /\ side' \in {"server", "client"} /\ refuses' \in BOOLEAN
  <2>1. /\ reading \in BOOLEAN /\ m_is_connected \in BOOLEAN /\ stopped \in BOOLEAN
        /\ side' \in {"server", "client"} /\ refuses' \in BOOLEAN
    BY ChosenStays DEF RecvInv, RecvTypeOK, RecvNext
  <2>2. reading' \in {reading, TRUE, FALSE}
    BY DEF DoRead, SocketReady, HandleReadError, PeerCloses, Stop, HandleClose,
           ParseRefused, ParseEnd
  <2>3. m_is_connected' \in {m_is_connected, FALSE}
    BY DEF DoRead, SocketReady, HandleReadError, PeerCloses, Stop, HandleClose,
           ParseRefused, ParseEnd
  <2>4. stopped' \in {stopped, side = "client"}
    BY DEF DoRead, SocketReady, HandleReadError, PeerCloses, Stop, HandleClose,
           ParseRefused, ParseEnd
  <2> QED
    BY <2>1, <2>2, <2>3, <2>4
<1>5. ready' \in Seq(HandlerOp) /\ OneRead'
  <2>1. CASE DoRead
    <3>1. NoRead(ready) /\ ~reading /\ pc' = "wait"
      BY <2>1 DEF DoRead, RecvInv, OneRead
    <3>2. CASE ready' = ready
      BY <1>1, <1>2, <3>1, <3>2 DEF RecvInv, OneRead
    <3>3. CASE \E n \in Sizes : ready' = Append(ready, [op |-> "read", bytes |-> n])
      <4>1. PICK n \in Sizes : ready' = Append(ready, [op |-> "read", bytes |-> n])
        BY <3>3
      <4>2. /\ n \in Nat /\ n <= enable_write
            /\ [op |-> "read", bytes |-> n] \in HandlerOp
        BY <1>2 DEF Sizes, HandlerOp
      <4>3. ~reading'
        BY <2>1, <3>1, <3>3, <1>2, QueueAppend, <4>1, <4>2 DEF DoRead, Op
      <4> QED
        BY <1>1, <1>2, <3>1, <4>1, <4>2, <4>3, AppendRead DEF OneRead
    <3>4. CASE ready' = Append(ready, Op("read")) /\ UNCHANGED reading
      BY <1>1, <1>2, <3>1, <3>4, OpFacts, AppendRead DEF OneRead
    <3> QED
      BY <2>1, <3>2, <3>3, <3>4 DEF DoRead
  <2>2. CASE SocketReady
    <3>1. ready' = Append(ready, Op("ready")) /\ UNCHANGED << pc, reading >>
      BY <2>2 DEF SocketReady
    <3> QED
      BY <1>1, <1>2, <3>1, OpFacts, AppendOther DEF RecvInv, OneRead
  <2>3. CASE HandleReadError
    <3>1. /\ ready # << >> /\ Head(ready).op = "abort"
          /\ ready' = Append(Tail(ready), Op("close"))
          /\ UNCHANGED << pc, reading >>
      BY <2>3 DEF HandleReadError, Runs
    <3>2. Tail(ready) \in Seq(HandlerOp) /\ NoRead(Tail(ready))
      BY <1>2, <3>1, TailOf DEF RecvInv, OneRead, IsReadHandler
    <3>3. ready' \in Seq(HandlerOp) /\ NoRead(ready')
      BY <3>1, <3>2, OpFacts, AppendOther
    <3> QED
      BY <1>1, <3>1, <3>3, NoReadFacts DEF RecvInv, OneRead
  <2>4. CASE PeerCloses
    <3>1. /\ ready' = Append(ready, Op("abort"))
          /\ reading /\ ~reading' /\ pc' = pc
      BY <2>4 DEF PeerCloses
    <3>2. NoRead(ready) /\ pc = "wait"
      BY <3>1 DEF RecvInv, OneRead
    <3> QED
      BY <1>1, <1>2, <3>1, <3>2, OpFacts, AppendRead DEF OneRead
  <2>5. CASE Stop
    <3>1. ready' = Append(ready, Op("close")) /\ UNCHANGED << pc, reading >>
      BY <2>5 DEF Stop, Posted
    <3> QED
      BY <1>1, <1>2, <3>1, OpFacts, AppendOther DEF RecvInv, OneRead
  <2>6. CASE HandleClose
    <3>1. /\ ready # << >> /\ pc = "wait" /\ pc' = pc /\ ~reading'
          /\ ready' = IF reading THEN Append(Tail(ready), Op("abort"))
                                 ELSE Tail(ready)
      BY <2>6 DEF HandleClose, Runs
    <3>2. /\ Tail(ready) \in Seq(HandlerOp)
          /\ AtMostOneRead(Tail(ready)) /\ HasRoom(Tail(ready), enable_write)
          /\ reading => NoRead(Tail(ready))
      BY <1>2, <3>1, TailOf DEF RecvInv, OneRead
    <3>3. CASE reading
      BY <1>1, <3>1, <3>2, <3>3, OpFacts, AppendRead DEF OneRead
    <3>4. CASE ~reading
      BY <1>1, <3>1, <3>2, <3>4 DEF OneRead
    <3> QED
      BY <3>3, <3>4
  <2>7. CASE ParseRefused
    <3>1. ready' = Append(ready, Op("close")) /\ ~reading' /\ NoRead(ready)
      BY <2>7 DEF ParseRefused, Posted, RecvInv, OneRead
    <3>2. ready' \in Seq(HandlerOp) /\ NoRead(ready')
      BY <1>2, <3>1, OpFacts, AppendOther
    <3> QED
      BY <3>1, <3>2, NoReadFacts DEF OneRead
  <2>8. CASE ParseEnd
    <3>1. ready' = ready /\ ~reading' /\ NoRead(ready)
      BY <2>8 DEF ParseEnd, RecvInv, OneRead
    <3> QED
      BY <1>2, <3>1, NoReadFacts DEF OneRead
  <2> QED
    BY <2>1, <2>2, <2>3, <2>4, <2>5, <2>6, <2>7, <2>8
<1> QED
  BY <1>1, <1>3, <1>4, <1>5 DEF RecvInv, RecvTypeOK, HandlerOp

\* Steps that read into the buffer or take a frame off it.
LEMMA BufferStep ==
  ASSUME RecvInv, HandleRead \/ HandleReadReady \/ ParseHeartBeat \/ ParseData
  PROVE  RecvInv'
<1>1. /\ ready \in Seq(HandlerOp) /\ enable_write \in Nat /\ enable_read \in Nat
      /\ consumed \in Nat /\ frame \in Nat
  BY FrameFacts
<1>2. CASE HandleRead
  <2>1. /\ ready # << >> /\ Head(ready).op = "read" /\ ready' = Tail(ready)
        /\ HasWrite(Head(ready).bytes)
        /\ pc' = "parse" /\ reading' = reading
        /\ UNCHANGED << frame, m_is_connected, stopped, handed, calls, chosen >>
    BY <1>2 DEF HandleRead, Runs
  <2>2. /\ Tail(ready) \in Seq(HandlerOp) /\ NoRead(Tail(ready))
        /\ Head(ready) \in HandlerOp /\ Head(ready).bytes <= enable_write
    BY <1>1, <2>1, TailOf DEF RecvInv, OneRead, IsReadHandler
  <2>3. ~reading
    BY <1>1, <2>1, QueueTail DEF RecvInv, OneRead, NoRead, IsReadHandler
  <2>4. BufferInv'
    BY <2>1, <2>2, HasWriteKeepsBuffer DEF HandlerOp, RecvInv
  <2>5. OneRead'
    BY <2>1, <2>2, <2>3, NoReadFacts DEF OneRead
  <2> QED
    BY <2>1, <2>2, <2>4, <2>5 DEF RecvInv, RecvTypeOK, BufferInv, HandlerOp, chosen
<1>3. CASE HandleReadReady
  <2>1. /\ ready # << >> /\ Head(ready).op = "ready" /\ ready' = Tail(ready)
        /\ UNCHANGED << frame, m_is_connected, stopped, handed, calls, chosen >>
    BY <1>3 DEF HandleReadReady, Runs
  <2>2. /\ Tail(ready) \in Seq(HandlerOp)
        /\ AtMostOneRead(Tail(ready)) /\ HasRoom(Tail(ready), enable_write)
        /\ NoRead(ready) => NoRead(Tail(ready))
    BY <1>1, <2>1, TailOf DEF RecvInv, OneRead
  <2>3. CASE reading
    <3>1. PICK n \in Sizes : HasWrite(n)
      BY <1>3, <2>3 DEF HandleReadReady
    <3>2. n \in Nat /\ n <= enable_write
      BY <1>1 DEF Sizes
    <3>3. BufferInv'
      BY <3>1, <3>2, HasWriteKeepsBuffer DEF RecvInv
    <3>4. reading' = FALSE /\ pc' = "parse" /\ NoRead(ready')
      BY <1>3, <2>1, <2>2, <2>3 DEF HandleReadReady, RecvInv, OneRead
    <3>5. OneRead'
      BY <3>4, NoReadFacts DEF OneRead
    <3> QED
      BY <2>1, <2>2, <3>3, <3>4, <3>5 DEF RecvInv, RecvTypeOK, BufferInv, HandlerOp, chosen
  <2>4. CASE ~reading
    <3>1. UNCHANGED << bufferVars, reading, pc >>
      BY <1>3, <2>4 DEF HandleReadReady
    <3>2. BufferInv' /\ enable_write' = enable_write
      BY <3>1 DEF bufferVars, RecvInv, BufferInv, BufferTypeOK, BufferHoldsStream,
                  enable_read, enable_write
    <3>3. OneRead'
      BY <2>1, <2>2, <3>1, <3>2 DEF RecvInv, OneRead
    <3> QED
      BY <2>1, <2>2, <3>1, <3>2, <3>3 DEF RecvInv, RecvTypeOK, BufferInv, HandlerOp, chosen
  <2> QED
    BY <2>3, <2>4
<1>4. CASE ParseHeartBeat \/ ParseData
  <2>1. /\ pc = "parse" /\ FrameComplete /\ HasRead(frame) /\ frame' \in FrameSizes
        /\ UNCHANGED << pc, ready, reading, m_is_connected, stopped, chosen >>
    BY <1>4 DEF ParseHeartBeat, ParseData
  <2>2. handed' \in Nat /\ calls' \in Nat
    BY <1>1, <1>4 DEF ParseHeartBeat, ParseData, RecvInv, RecvTypeOK
  <2>3. frame <= enable_read
    BY <2>1, FrameFacts
  <2>4. BufferInv'
    BY <1>1, <2>1, <2>3, HasReadKeepsBuffer DEF RecvInv
  <2>5. ~reading /\ NoRead(ready)
    BY <2>1 DEF RecvInv, OneRead
  <2>6. OneRead'
    BY <2>1, <2>5, NoReadFacts DEF OneRead
  <2> QED
    BY <2>1, <2>2, <2>4, <2>6 DEF RecvInv, RecvTypeOK, BufferInv, chosen
<1> QED
  BY <1>2, <1>3, <1>4

LEMMA RecvInvStep == RecvInv /\ [RecvNext]_recvVars => RecvInv'
<1>1. ASSUME RecvInv, RecvNext
      PROVE  RecvInv'
  BY <1>1, QueueStep, BufferStep DEF RecvNext
<1>2. ASSUME RecvInv, UNCHANGED recvVars
      PROVE  RecvInv'
  BY <1>2 DEF recvVars, chosen, bufferVars, RecvInv, RecvTypeOK, BufferInv, BufferTypeOK,
              BufferHoldsStream, OneRead, enable_read, enable_write
<1> QED
  BY <1>1, <1>2

LEMMA RecvInvCorrect == RecvSpec => []RecvInv
BY RecvInvInit, RecvInvStep, PTL DEF RecvSpec

\* handle_read, has_read and do_read keep every variable in its range; in
\* particular write_pos never passes the end of the buffer.
THEOREM RecvTypeCorrect == RecvSpec => []RecvTypeOK
<1>1. RecvInv => RecvTypeOK
  BY DEF RecvInv
<1> QED
  BY <1>1, RecvInvCorrect, PTL

\* micro_buffer holds the received and unconsumed bytes in order, whatever the
\* frames, the reads and OnRecvData's answers: has_read's memcpy is never
\* applied to overlapping ranges.
THEOREM BufferHoldsStreamCorrect == RecvSpec => []BufferHoldsStream
<1>1. RecvInv => BufferHoldsStream
  BY DEF RecvInv, BufferInv
<1> QED
  BY <1>1, RecvInvCorrect, PTL

-----------------------------------------------------------------------------
(* What handle_read's loop leaves when OnRecvData accepts every message.   *)

Parsed ==
  ~refuses => /\ reading \/ pc = "read" => ~FrameComplete
              /\ handed <= consumed

LEMMA ParsedStep ==
  ASSUME RecvInv, Parsed, [RecvNext]_recvVars
  PROVE  Parsed' /\ (~refuses /\ calls' # calls => handed <= consumed)
<1> SUFFICES ASSUME ~refuses
             PROVE  Parsed' /\ handed <= consumed
  BY ChosenStays DEF Parsed
<1>1. /\ frame \in Nat /\ consumed \in Nat /\ handed \in Nat
  BY FrameFacts DEF RecvInv, RecvTypeOK
<1>2. CASE \/ DoRead \/ SocketReady \/ HandleReadError \/ PeerCloses \/ Stop
           \/ HandleClose \/ ParseEnd \/ UNCHANGED recvVars
  <2>1. /\ FrameComplete' <=> FrameComplete
        /\ consumed' = consumed /\ handed' = handed
    BY <1>2 DEF DoRead, SocketReady, HandleReadError, PeerCloses, Stop,
                HandleClose, ParseEnd, recvVars, bufferVars, FrameComplete,
                enable_read
  <2>2. reading' \/ pc' = "read" => reading \/ pc = "read" \/ ~FrameComplete
    BY <1>2 DEF DoRead, SocketReady, HandleReadError, PeerCloses, Stop,
                HandleClose, ParseEnd, recvVars
  <2> QED
    BY <2>1, <2>2 DEF Parsed
<1>3. CASE HandleRead \/ HandleReadReady
  <2>1. consumed' = consumed /\ handed' = handed
    BY <1>3 DEF HandleRead, HandleReadReady, HasWrite, bufferVars
  <2>2. (pc' = "parse" /\ ~reading') \/ UNCHANGED << bufferVars, frame, reading, pc >>
    <3>1. HandleRead => ~reading
      BY FrameFacts, QueueTail
         DEF HandleRead, Runs, RecvInv, OneRead, NoRead, IsReadHandler
    <3> QED
      BY <1>3, <3>1 DEF HandleRead, HandleReadReady
  <2>3. CASE pc' = "parse" /\ ~reading'
    BY <2>1, <2>3 DEF Parsed
  <2>4. CASE UNCHANGED << bufferVars, frame, reading, pc >>
    BY <2>1, <2>4 DEF Parsed, bufferVars, FrameComplete, enable_read
  <2> QED
    BY <2>1, <2>2, <2>3, <2>4 DEF Parsed
<1>4. CASE ParseHeartBeat \/ ParseData
  <2>1. /\ pc' = "parse" /\ ~reading'
        /\ FrameComplete /\ HasRead(frame)
        /\ handed' = handed \/ handed' = consumed + frame
    BY <1>4 DEF ParseHeartBeat, ParseData, RecvInv, OneRead
  <2>2. consumed' = consumed + frame
    BY <2>1 DEF HasRead
  <2> QED
    BY <1>1, <2>1, <2>2 DEF Parsed
<1> QED
  BY <1>2, <1>3, <1>4 DEF RecvNext, ParseRefused

LEMMA ParsedCorrect == RecvSpec => []Parsed
<1>1. RecvInit => Parsed
  BY FrameAssumption DEF RecvInit, BufferInit, Parsed, FrameComplete, enable_read
<1>2. RecvInv /\ Parsed /\ [RecvNext]_recvVars => Parsed'
  BY ParsedStep
<1> QED
  BY <1>1, <1>2, RecvInvCorrect, PTL DEF RecvSpec

\* While the connection waits for bytes no complete frame lies in the buffer:
\* the loop of handle_read drains it, however the reads cut the frames.
THEOREM NothingLeftBehindCorrect == RecvSpec => []NothingLeftBehind
<1>1. Parsed => NothingLeftBehind
  BY DEF Parsed, NothingLeftBehind
<1> QED
  BY <1>1, ParsedCorrect, PTL

\* The frames the buffer can carry: one byte more than half of it, at most.
Fits == \A f \in FrameSizes : f <= Half + 1

\* With frames that fit, do_read never asks the socket for 0 bytes.
THEOREM NoStallCorrect ==
  ASSUME Fits
  PROVE  RecvSpec => []NoStall
<1>1. RecvInv /\ Parsed => NoStall
  <2> SUFFICES ASSUME RecvInv, Parsed, ~refuses, pc = "read"
               PROVE  enable_write > 0
    BY DEF NoStall
  <2>1. frame <= Half + 1 /\ m_read_pos < Half
    BY DEF Fits, RecvInv, RecvTypeOK, BufferInv
  <2>2. ~(enable_read >= frame)
    BY FrameFacts, FrameAssumption DEF Parsed, FrameComplete
  <2> QED
    BY <2>1, <2>2, FrameFacts, HalfFacts DEF enable_read, enable_write
<1> QED
  BY <1>1, RecvInvCorrect, ParsedCorrect, PTL

-----------------------------------------------------------------------------
(* The client: its handle_close stops the io_service.                      *)

ClientStops ==
  side = "client" => /\ m_is_connected = ~stopped
                     /\ stopped => pc = "wait"

LEMMA ClientStopsStep ==
  ASSUME RecvInv, ClientStops, [RecvNext]_recvVars
  PROVE  ClientStops'
<1>1. m_is_connected \in BOOLEAN /\ stopped \in BOOLEAN
  BY DEF RecvInv, RecvTypeOK
<1>2. CASE HandleClose
  <2>1. pc' = "wait" /\ m_is_connected' = FALSE /\ stopped' = (side = "client")
    BY <1>2 DEF HandleClose, Runs
  <2> QED
    BY <2>1, ChosenStays DEF ClientStops
<1>3. CASE \/ DoRead \/ SocketReady \/ HandleRead \/ HandleReadReady
           \/ ParseHeartBeat \/ ParseData \/ ParseRefused \/ ParseEnd
           \/ HandleReadError \/ PeerCloses \/ Stop \/ UNCHANGED recvVars
  <2>1. m_is_connected' = m_is_connected /\ stopped' = stopped
    BY <1>3 DEF DoRead, SocketReady, HandleRead, HandleReadReady, ParseHeartBeat,
                ParseData, ParseRefused, ParseEnd, HandleReadError, PeerCloses,
                Stop, recvVars
  <2>2. stopped => pc' = pc \/ pc' = "wait" \/ pc # "wait"
    BY <1>3 DEF DoRead, SocketReady, HandleRead, HandleReadReady, ParseHeartBeat,
                ParseData, ParseRefused, ParseEnd, HandleReadError, PeerCloses,
                Stop, recvVars, Runs
  <2> QED
    BY <2>1, <2>2, ChosenStays DEF ClientStops
<1> QED
  BY <1>2, <1>3 DEF RecvNext

LEMMA ClientStopsCorrect == RecvSpec => []ClientStops
<1>1. RecvInit => ClientStops
  BY DEF RecvInit, ClientStops
<1>2. RecvInv /\ ClientStops /\ [RecvNext]_recvVars => ClientStops'
  BY ClientStopsStep
<1> QED
  BY <1>1, <1>2, RecvInvCorrect, PTL DEF RecvSpec

\* On the client no OnRecvData follows OnDisconnect, whatever is queued when
\* handle_close runs.
THEOREM ClientKeepsOrderCorrect == RecvSpec => ClientKeepsOrder
<1>1. RecvInv /\ ClientStops /\ [RecvNext]_recvVars =>
        [calls' # calls /\ side = "client" => m_is_connected]_recvVars
  <2> SUFFICES ASSUME RecvInv, ClientStops, RecvNext, calls' # calls, side = "client"
               PROVE  m_is_connected
    OBVIOUS
  <2>1. pc = "parse"
    BY DEF RecvNext, DoRead, SocketReady, HandleRead, HandleReadReady,
           ParseHeartBeat, ParseData, ParseRefused, ParseEnd, HandleReadError,
           PeerCloses, Stop, HandleClose
  <2> QED
    BY <2>1 DEF ClientStops, RecvInv, RecvTypeOK
<1> QED
  BY <1>1, RecvInvCorrect, ClientStopsCorrect, PTL DEF RecvSpec, ClientKeepsOrder

-----------------------------------------------------------------------------
(* No frame twice.  On a client that refuses a frame the posted            *)
(* handle_close is first in the queue until it runs.                       *)

\* A socket that is ready is queued once, and only while its read waits or
\* after the peer has closed it.
ReadyOnce ==
  \A i \in 1 .. Len(ready) : ready[i].op = "ready" =>
    /\ pc = "wait"
    /\ \A j \in 1 .. Len(ready) : /\ ready[j].op = "ready" => j = i
                                  /\ ready[j].op # "read"

Refused ==
  side = "client" /\ handed > consumed =>
    \/ stopped
    \/ /\ pc # "parse"
       /\ ready # << >> /\ Head(ready).op = "close"

LEMMA AppendFacts ==
  ASSUME NEW q \in Seq(HandlerOp), NEW h \in HandlerOp
  PROVE  /\ Append(q, h) # << >>
         /\ q # << >> => Head(Append(q, h)) = Head(q)
         /\ q = << >> => Head(Append(q, h)) = h
         /\ \A i \in 1 .. Len(Append(q, h)) :
              \/ i \in 1 .. Len(q) /\ Append(q, h)[i] = q[i]
              \/ i = Len(q) + 1 /\ Append(q, h)[i] = h
BY QueueAppend, SMTT(30)

LEMMA ReadyOnceStep ==
  ASSUME RecvInv, ReadyOnce, [RecvNext]_recvVars
  PROVE  ReadyOnce'
<1>1. ready \in Seq(HandlerOp)
  BY FrameFacts
<1>2. \A name \in {"read", "ready", "abort", "close"} :
        Op(name) \in HandlerOp /\ Op(name).op = name
  BY DEF Op, HandlerOp
<1>3. CASE DoRead
  <2>1. \A i \in 1 .. Len(ready) : ready[i].op # "ready"
    BY <1>3 DEF ReadyOnce, DoRead
  <2>2. \/ ready' = ready
        \/ \E h \in HandlerOp : h.op = "read" /\ ready' = Append(ready, h)
    <3>1. \A n \in Sizes : [op |-> "read", bytes |-> n] \in HandlerOp
      BY DEF Sizes, HandlerOp
    <3> QED
      BY <1>3, <1>2, <3>1 DEF DoRead
  <2> QED
    BY <1>1, <2>1, <2>2, AppendFacts DEF ReadyOnce
<1>4. CASE SocketReady
  <2>1. /\ \A i \in 1 .. Len(ready) : ready[i].op # "ready" /\ ready[i].op # "read"
        /\ pc' = "wait" /\ ready' = Append(ready, Op("ready"))
    BY <1>4, <1>1 DEF SocketReady, IsQueued, RecvInv, OneRead, NoRead, IsReadHandler
  <2>2. \A i \in 1 .. Len(ready') :
          \/ ready'[i].op # "ready" /\ ready'[i].op # "read"
          \/ i = Len(ready) + 1 /\ ready'[i].op = "ready"
    BY <1>1, <1>2, <2>1, AppendFacts
  <2> QED
    BY <2>1, <2>2 DEF ReadyOnce
<1>5. CASE HandleRead \/ HandleReadReady
  <2>1. ready # << >> /\ ready' = Tail(ready)
    BY <1>5 DEF HandleRead, HandleReadReady, Runs
  <2>2. \A i \in 1 .. Len(ready') :
          i + 1 \in 1 .. Len(ready) /\ i + 1 # 1 /\ ready'[i] = ready[i + 1]
    BY <1>1, <2>1, QueueTail
  <2>3. 1 \in 1 .. Len(ready) /\ Head(ready) = ready[1]
    BY <1>1, <2>1, QueueTail
  <2>4. Head(ready).op \in {"read", "ready"}
    BY <1>5 DEF HandleRead, HandleReadReady, Runs
  <2>5. \A i \in 1 .. Len(ready') : ready'[i].op # "ready"
    BY <2>2, <2>3, <2>4 DEF ReadyOnce
  <2> QED
    BY <2>5 DEF ReadyOnce
<1>6. CASE ParseHeartBeat \/ ParseData \/ ParseRefused \/ ParseEnd
  <2>1. \A i \in 1 .. Len(ready) : ready[i].op # "ready"
    BY <1>6 DEF ReadyOnce, ParseHeartBeat, ParseData, ParseRefused, ParseEnd
  <2>2. ready' = ready \/ ready' = Append(ready, Op("close"))
    BY <1>6 DEF ParseHeartBeat, ParseData, ParseRefused, ParseEnd, Posted
  <2>3. \A i \in 1 .. Len(ready') : ready'[i].op # "ready"
    BY <1>1, <1>2, <2>1, <2>2, AppendFacts
  <2> QED
    BY <2>3 DEF ReadyOnce
<1>7. CASE HandleReadError \/ HandleClose
  <2>1. /\ ready # << >> /\ pc' = "wait"
        /\ \/ ready' = Tail(ready)
           \/ \E name \in {"abort", "close"} : ready' = Append(Tail(ready), Op(name))
    BY <1>7 DEF HandleReadError, HandleClose, Runs
  <2>2. /\ Tail(ready) \in Seq(HandlerOp)
        /\ \A i \in 1 .. Len(Tail(ready)) :
             i + 1 \in 1 .. Len(ready) /\ Tail(ready)[i] = ready[i + 1]
    BY <1>1, <2>1, QueueTail
  <2>3. \A i \in 1 .. Len(Tail(ready)) : Tail(ready)[i].op = "ready" =>
          \A j \in 1 .. Len(Tail(ready)) :
            /\ Tail(ready)[j].op = "ready" => j = i
            /\ Tail(ready)[j].op # "read"
    <3> SUFFICES ASSUME NEW i \in 1 .. Len(Tail(ready)), Tail(ready)[i].op = "ready",
                        NEW j \in 1 .. Len(Tail(ready))
                 PROVE  /\ Tail(ready)[j].op = "ready" => j = i
                        /\ Tail(ready)[j].op # "read"
      OBVIOUS
    <3>1. /\ i + 1 \in 1 .. Len(ready) /\ j + 1 \in 1 .. Len(ready)
          /\ ready[i + 1].op = "ready" /\ Tail(ready)[j] = ready[j + 1]
      BY <2>2
    <3>2. /\ ready[j + 1].op = "ready" => j + 1 = i + 1
          /\ ready[j + 1].op # "read"
      BY <3>1 DEF ReadyOnce
    <3> QED
      BY <3>1, <3>2
  <2>4. CASE ready' = Tail(ready)
    BY <2>1, <2>3, <2>4 DEF ReadyOnce
  <2>5. CASE \E name \in {"abort", "close"} : ready' = Append(Tail(ready), Op(name))
    <3>1. PICK name \in {"abort", "close"} : ready' = Append(Tail(ready), Op(name))
      BY <2>5
    <3>2. \A i \in 1 .. Len(ready') :
            \/ i \in 1 .. Len(Tail(ready)) /\ ready'[i] = Tail(ready)[i]
            \/ ready'[i].op # "ready" /\ ready'[i].op # "read"
      BY <1>2, <2>2, <3>1, AppendFacts
    <3> QED
      BY <2>1, <2>3, <3>2 DEF ReadyOnce
  <2> QED
    BY <2>1, <2>4, <2>5
<1>8. CASE PeerCloses \/ Stop
  <2>1. /\ pc' = pc
        /\ \E name \in {"abort", "close"} : ready' = Append(ready, Op(name))
    BY <1>8 DEF PeerCloses, Stop, Posted
  <2>2. \A i \in 1 .. Len(ready') :
          \/ i \in 1 .. Len(ready) /\ ready'[i] = ready[i]
          \/ ready'[i].op # "ready" /\ ready'[i].op # "read"
    BY <1>1, <1>2, <2>1, AppendFacts
  <2> QED
    BY <2>1, <2>2 DEF ReadyOnce
<1>9. CASE UNCHANGED recvVars
  BY <1>9 DEF recvVars, ReadyOnce
<1> QED
  BY <1>3, <1>4, <1>5, <1>6, <1>7, <1>8, <1>9 DEF RecvNext

LEMMA RefusedStep ==
  ASSUME RecvInv, ReadyOnce, ClientStops, Refused, [RecvNext]_recvVars
  PROVE  Refused'
<1> SUFFICES ASSUME side = "client" PROVE Refused'
  BY ChosenStays DEF Refused
<1>1. /\ frame \in Nat /\ consumed \in Nat /\ handed \in Nat
      /\ ready \in Seq(HandlerOp)
  BY FrameFacts DEF RecvInv, RecvTypeOK
<1>2. \A name \in {"read", "ready", "abort", "close"} :
        Op(name) \in HandlerOp /\ Op(name).op = name
  BY DEF Op, HandlerOp
<1>3. CASE ParseRefused
  <2>1. /\ \A i \in 1 .. Len(ready) : ready[i].op = "close"
        /\ ready' = Append(ready, Op("close")) /\ pc' = "read"
    <3>1. NoRead(ready) /\ \A i \in 1 .. Len(ready) : ready[i].op # "ready"
      BY <1>3 DEF ParseRefused, ReadyOnce, RecvInv, OneRead
    <3>2. \A i \in 1 .. Len(ready) : ready[i] \in HandlerOp
      BY <1>1
    <3> QED
      BY <1>3, <3>1, <3>2 DEF ParseRefused, Posted, NoRead, IsReadHandler, HandlerOp
  <2>2. ready # << >> => Head(ready).op = "close"
    BY <1>1, <2>1
  <2> QED
    BY <1>1, <1>2, <2>1, <2>2, AppendFacts DEF Refused
<1>4. CASE ParseHeartBeat \/ ParseData
  <2>1. /\ pc = "parse" /\ FrameComplete /\ HasRead(frame) /\ pc' = pc
        /\ handed' = handed \/ handed' = consumed + frame
        /\ stopped' = stopped
    BY <1>4 DEF ParseHeartBeat, ParseData
  <2>2. ~stopped
    BY <2>1 DEF ClientStops
  <2>3. handed <= consumed /\ consumed' = consumed + frame
    BY <1>1, <2>1, <2>2 DEF Refused, HasRead
  <2> QED
    BY <1>1, <2>1, <2>3 DEF Refused
<1>5. CASE HandleClose
  BY <1>5 DEF HandleClose, Refused
<1>6. CASE HandleRead \/ HandleReadReady \/ HandleReadError
  <2>1. /\ ~stopped /\ stopped' = stopped /\ handed' = handed /\ consumed' = consumed
        /\ Head(ready).op # "close"
    BY <1>6 DEF HandleRead, HandleReadReady, HandleReadError, Runs, HasWrite, bufferVars
  <2> QED
    BY <2>1 DEF Refused
<1>7. CASE DoRead \/ SocketReady \/ ParseEnd \/ PeerCloses \/ Stop
  <2>1. /\ handed' = handed /\ consumed' = consumed /\ stopped' = stopped
        /\ pc' = pc \/ pc' = "wait" \/ pc = "parse"
    BY <1>7 DEF DoRead, SocketReady, ParseEnd, PeerCloses, Stop, bufferVars
  <2>2. ready' = ready \/ \E h \in HandlerOp : ready' = Append(ready, h)
    <3>1. \A n \in Sizes : [op |-> "read", bytes |-> n] \in HandlerOp
      BY DEF Sizes, HandlerOp
    <3> QED
      BY <1>7, <1>2, <3>1 DEF DoRead, SocketReady, ParseEnd, PeerCloses, Stop, Posted
  <2> QED
    BY <1>1, <2>1, <2>2, AppendFacts DEF Refused
<1>8. CASE UNCHANGED recvVars
  BY <1>8 DEF recvVars, bufferVars, Refused
<1> QED
  BY <1>3, <1>4, <1>5, <1>6, <1>7, <1>8 DEF RecvNext

LEMMA RefusedCorrect == RecvSpec => [](ReadyOnce /\ Refused)
<1>1. RecvInit => ReadyOnce /\ Refused
  BY DEF RecvInit, BufferInit, ReadyOnce, Refused
<1>2. RecvInv /\ ClientStops /\ ReadyOnce /\ Refused /\ [RecvNext]_recvVars
        => (ReadyOnce /\ Refused)'
  BY ReadyOnceStep, RefusedStep
<1> QED
  BY <1>1, <1>2, RecvInvCorrect, ClientStopsCorrect, PTL DEF RecvSpec

\* No frame is handed to OnRecvData twice and none out of order, on a client
\* and on a session whose application accepts every message.
THEOREM EachFrameOnceCorrect == RecvSpec => EachFrameOnce
<1>1. RecvInv /\ Parsed /\ ClientStops /\ Refused /\ [RecvNext]_recvVars =>
        [calls' # calls /\ ~(refuses /\ side = "server")
           => handed <= consumed]_recvVars
  <2> SUFFICES ASSUME RecvInv, Parsed, ClientStops, Refused, RecvNext,
                      calls' # calls, ~(refuses /\ side = "server")
               PROVE  handed <= consumed
    OBVIOUS
  <2>1. CASE ~refuses
    BY <2>1, ParsedStep
  <2>2. CASE side = "client"
    <3>1. pc = "parse"
      BY DEF RecvNext, DoRead, SocketReady, HandleRead, HandleReadReady,
             ParseHeartBeat, ParseData, ParseRefused, ParseEnd, HandleReadError,
             PeerCloses, Stop, HandleClose
    <3>2. handed \in Nat /\ consumed \in Nat
      BY FrameFacts DEF RecvInv, RecvTypeOK
    <3> QED
      BY <2>2, <3>1, <3>2 DEF Refused, ClientStops
  <2> QED
    BY <2>1, <2>2 DEF RecvInv, RecvTypeOK
<1> QED
  BY <1>1, RecvInvCorrect, ParsedCorrect, ClientStopsCorrect, RefusedCorrect, PTL
     DEF RecvSpec, EachFrameOnce
=============================================================================
