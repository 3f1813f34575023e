---------------------------- MODULE ClientProofs ----------------------------
(***************************************************************************)
(* What is proved of Client.tla for every bound: its types, that the       *)
(* thread of a connected client never runs out of work, and that the       *)
(* client keeps what Notify.tla promises.                                  *)
(***************************************************************************)
EXTENDS Client, SequenceTheorems, FiniteSetTheorems, TLAPS

Conn == [m_is_connected : BOOLEAN, sending : BOOLEAN, pending : SUBSET Operations]

Queued == Kinds \cup {"aborted"}

\* The handlers that read on or close the connection.
Hears == {"read", "error", "close"}

Expects(q) == \E i \in DOMAIN q : q[i] \in Hears

\* What a handler or the application may do to an open connection.
Keeps(s, t) ==
  /\ t \in Conn
  /\ t.m_is_connected = s.m_is_connected
  /\ "read" \in s.pending => "read" \in t.pending

\* A life in phases: silent, talking, closed.  Only a handler in the middle of
\* handle_close stands between them.  Handlers of cancelled waits are queued only
\* where nobody runs them any more.
Phases ==
  /\ disconnects \in {0, 1}
  /\ stopped <=> disconnects = 1
  /\ running # "idle" => loop = "running" /\ ~stopped
  /\ running = "closing" => ~conn.m_is_connected
  /\ loop = "none" => disconnects = 0 /\ received = 0
  /\ ~stopped => queue \in Seq(Kinds)

ClientInv == ClientTypeOK /\ Phases /\ NeverDeaf

-----------------------------------------------------------------------------
(* Lemmas about connections and queues.                                    *)

LEMMA StartKeeps ==
  ASSUME NEW s \in Conn, NEW op \in Operations
  PROVE  /\ Keeps(s, Start(s, op))
         /\ op = "read" => "read" \in Start(s, op).pending
BY DEF Conn, Keeps, Start

LEMMA StartWriteKeeps ==
  ASSUME NEW s \in Conn, NEW t \in StartWrite(s)
  PROVE  Keeps(s, t)
<1>1. Keeps(s, s)
  BY DEF Keeps
<1>2. Keeps(s, Start(s, "hbsend")) /\ Keeps(s, Start(s, "write"))
  BY StartKeeps DEF Operations
<1>3. Keeps(s, [Start(s, "write") EXCEPT !.sending = TRUE])
  BY <1>2 DEF Keeps, Conn, Start
<1> QED
  BY <1>1, <1>2, <1>3 DEF StartWrite

LEMMA DoWriteKeeps ==
  ASSUME NEW s \in Conn, NEW t \in DoWrite(s)
  PROVE  Keeps(s, t)
BY StartWriteKeeps DEF DoWrite, Keeps

LEMMA BeatKeeps ==
  ASSUME NEW s \in Conn, NEW t \in Beat(s)
  PROVE  Keeps(s, t)
<1>1. PICK u \in DoWrite(s) : t = Arm(u)
  BY DEF Beat
<1>2. Keeps(s, u) /\ u \in Conn
  BY <1>1, DoWriteKeeps DEF Keeps
<1>3. Keeps(u, t)
  BY <1>1, <1>2, StartKeeps DEF Arm, Operations
<1> QED
  BY <1>2, <1>3 DEF Keeps

LEMMA CancelKeeps ==
  ASSUME NEW s \in Conn
  PROVE  Keeps(s, Cancel(s))
BY DEF Keeps, Conn, Cancel

LEMMA AfterReadKeeps ==
  ASSUME NEW s \in Conn, NEW t \in AfterRead(s)
  PROVE  /\ Keeps(s, t)
         /\ t.m_is_connected => "read" \in t.pending
<1>1. PICK u \in DoWrite(Cancel(s)) \cup {Cancel(s)} : t = DoRead(u)
  BY DEF AfterRead
<1>2. Keeps(s, Cancel(s)) /\ Cancel(s) \in Conn
  BY CancelKeeps DEF Keeps
<1>3. Keeps(Cancel(s), u) /\ u \in Conn
  BY <1>1, <1>2, DoWriteKeeps DEF Keeps
<1>4. /\ Keeps(u, t)
      /\ u.m_is_connected => "read" \in t.pending
  BY <1>1, <1>3, StartKeeps DEF DoRead, Keeps, Operations
<1> QED
  BY <1>2, <1>3, <1>4 DEF Keeps

LEMMA AfterWriteKeeps ==
  ASSUME NEW s \in Conn, NEW t \in AfterWrite(s)
  PROVE  Keeps(s, t)
<1> DEFINE u == [s EXCEPT !.sending = FALSE]
<1>1. Keeps(s, u) /\ u \in Conn
  BY DEF Keeps, Conn
<1>2. Keeps(u, t)
  BY <1>1, DoWriteKeeps DEF AfterWrite
<1> QED
  BY <1>1, <1>2 DEF Keeps

LEMMA CloseFacts ==
  ASSUME NEW s \in Conn
  PROVE  Close(s) \in Conn /\ ~Close(s).m_is_connected
BY DEF Close, Conn

LEMMA AppendExpects ==
  ASSUME NEW H, NEW q \in Seq(H), NEW h \in H
  PROVE  /\ Append(q, h) \in Seq(H)
         /\ Expects(q) => Expects(Append(q, h))
         /\ h \in Hears => Expects(Append(q, h))
<1>1. /\ Append(q, h) \in Seq(H)
      /\ DOMAIN Append(q, h) = 1 .. Len(q) + 1
      /\ DOMAIN q = 1 .. Len(q) /\ Len(q) \in Nat
      /\ \A i \in 1 .. Len(q) : Append(q, h)[i] = q[i]
      /\ Append(q, h)[Len(q) + 1] = h
  OBVIOUS
<1> QED
  BY <1>1 DEF Expects

LEMMA TailExpects ==
  ASSUME NEW H, NEW q \in Seq(H), q # << >>
  PROVE  /\ Tail(q) \in Seq(H)
         /\ Head(q) \in H
         /\ Expects(q) => Head(q) \in Hears \/ Expects(Tail(q))
<1>1. /\ Tail(q) \in Seq(H) /\ Head(q) \in H
      /\ DOMAIN Tail(q) = 1 .. Len(q) - 1
      /\ DOMAIN q = 1 .. Len(q) /\ Len(q) \in Nat
      /\ \A i \in 1 .. Len(q) - 1 : Tail(q)[i] = q[i + 1]
      /\ Head(q) = q[1]
  OBVIOUS
<1>2. ASSUME NEW i \in DOMAIN q, q[i] \in Hears, Head(q) \notin Hears
      PROVE  i - 1 \in DOMAIN Tail(q) /\ Tail(q)[i - 1] \in Hears
  BY <1>1, <1>2
<1> QED
  BY <1>1, <1>2 DEF Expects

LEMMA EndedIsQueue ==
  ASSUME conn \in Conn, queue \in Seq(Queued)
  PROVE  Ended \in Seq(Queued)
<1>1. IsFiniteSet(Operations)
  <2>1. /\ IsFiniteSet({"read"}) /\ IsFiniteSet({"write"})
        /\ IsFiniteSet({"hbsend"}) /\ IsFiniteSet({"hbhandle"})
    BY FS_Singleton
  <2>2. IsFiniteSet(({"read"} \cup {"write"}) \cup ({"hbsend"} \cup {"hbhandle"}))
    BY <2>1, FS_Union
  <2>3. Operations = ({"read"} \cup {"write"}) \cup ({"hbsend"} \cup {"hbhandle"})
    BY DEF Operations
  <2> QED
    BY <2>2, <2>3
<1>2. ASSUME NEW h \in Queued, NEW S \in SUBSET Operations
      PROVE  Repeat(h, Cardinality(S)) \in Seq(Queued)
  <2>1. Cardinality(S) \in Nat
    BY <1>1, FS_Subset, FS_CardinalityType
  <2> QED
    BY <2>1 DEF Repeat
<1>3. Failing(conn) \in SUBSET Operations /\ conn.pending \ Failing(conn) \in SUBSET Operations
  BY DEF Failing, Conn
<1>4. "error" \in Queued /\ "aborted" \in Queued
  BY DEF Queued, Kinds
<1> QED
  BY <1>2, <1>3, <1>4, ConcatProperties DEF Ended

-----------------------------------------------------------------------------
(* The invariant.                                                          *)

LEMMA ClientInvInit == ClientInit => ClientInv
<1> SUFFICES ASSUME ClientInit PROVE ClientInv
  OBVIOUS
<1>1. queue \in Seq(Queued) /\ queue \in Seq(Kinds)
  BY EmptySeq DEF ClientInit
<1>2. conn \in Conn /\ ~conn.m_is_connected
  BY DEF ClientInit, Conn
<1>3. 0 \in 0 .. MaxReads
  BY ClientAssumption
<1>4. ClientTypeOK
  BY <1>1, <1>2, <1>3 DEF ClientInit, ClientTypeOK, Conn, Queued
<1>5. Phases
  BY <1>1, <1>2 DEF ClientInit, Phases
<1> QED
  BY <1>2, <1>4, <1>5 DEF ClientInv, NeverDeaf

USE DEF ClientInv

LEMMA ApplicationStep ==
  ASSUME ClientInv, StartClient \/ SendData \/ AsyncWrite \/ Stop \/ Drop
  PROVE  ClientInv'
<1> USE DEF Phases, NeverDeaf, Hears, Queued
<1>1. /\ conn \in Conn /\ queue \in Seq(Queued)
      /\ "close" \in Queued /\ "error" \in Queued
      /\ "close" \in Kinds /\ "error" \in Kinds
  BY DEF ClientTypeOK, Conn, Kinds
<1>2. CASE StartClient
  <2>1. PICK s \in Beat([conn EXCEPT !.m_is_connected = TRUE]) : conn' = DoRead(s)
    BY <1>2 DEF StartClient
  <2> DEFINE open == [conn EXCEPT !.m_is_connected = TRUE]
  <2>2. open \in Conn /\ open.m_is_connected
    BY <1>1 DEF Conn
  <2>3. Keeps(open, s) /\ s \in Conn
    BY <2>1, <2>2, BeatKeeps DEF Keeps
  <2>4. conn' \in Conn /\ conn'.m_is_connected /\ "read" \in conn'.pending
    BY <2>1, <2>2, <2>3, StartKeeps DEF DoRead, Keeps, Operations
  <2>5. running = "idle" /\ ~stopped
    BY <1>2 DEF StartClient
  <2> QED
    BY <1>2, <2>4, <2>5 DEF StartClient, ClientTypeOK, Conn
<1>3. CASE SendData
  BY <1>3 DEF SendData, ClientTypeOK, loopVars
<1>4. CASE AsyncWrite
  <2>1. PICK t \in StartWrite(conn) :
          IF SocketOpen \/ t.sending = conn.sending
          THEN conn' = t /\ UNCHANGED queue
          ELSE conn' = [conn EXCEPT !.sending = TRUE] /\ Post("error")
    BY <1>4 DEF AsyncWrite
  <2>2. Keeps(conn, t) /\ Keeps(conn, [conn EXCEPT !.sending = TRUE])
    BY <1>1, StartWriteKeeps DEF Keeps, Conn
  <2>3. Keeps(conn, conn')
    BY <2>1, <2>2
  <2>4. /\ queue' \in Seq(Queued) /\ (Expects(queue) => Expects(queue'))
        /\ ~stopped => queue' \in Seq(Kinds)
    <3>1. queue' \in {queue, Append(queue, "error")}
      BY <2>1 DEF Post
    <3> HIDE DEF Queued, Hears
    <3>2. Append(queue, "error") \in Seq(Queued)
          /\ (Expects(queue) => Expects(Append(queue, "error")))
      BY <1>1, AppendExpects
    <3>3. queue \in Seq(Kinds) => Append(queue, "error") \in Seq(Kinds)
      BY <1>1, AppendExpects
    <3> QED
      BY <1>1, <3>1, <3>2, <3>3
  <2>5. UNCHANGED << object, running, loop, stopped, held, received, disconnects >>
        /\ app' = "idle"
    BY <1>4 DEF AsyncWrite
  <2>6. ClientTypeOK'
    BY <2>3, <2>4, <2>5 DEF ClientTypeOK, Keeps, Conn
  <2>7. Phases'
    BY <2>3, <2>4, <2>5 DEF Keeps
  <2>8. NeverDeaf'
    BY <2>3, <2>4, <2>5 DEF Keeps, Expects
  <2> QED
    BY <2>6, <2>7, <2>8
<1>5. CASE Stop
  <2>1. /\ queue' \in Seq(Queued) /\ (Expects(queue) => Expects(queue'))
        /\ ~stopped => queue' \in Seq(Kinds)
    BY <1>1, <1>5, AppendExpects DEF Stop, Post
  <2> QED
    BY <1>5, <2>1 DEF Stop, ClientTypeOK, Expects
<1>6. CASE Drop
  <2>1. ~Owned /\ loop # "running" => ~conn.m_is_connected
    OBVIOUS
  <2>2. Close(conn) \in Conn /\ ~Close(conn).m_is_connected
    BY <1>1, CloseFacts
  <2>3. conn' \in Conn /\ conn'.m_is_connected = conn.m_is_connected
    BY <1>1, <1>6, <2>1, <2>2 DEF Drop, Conn
  <2>4. conn.m_is_connected => conn' = conn
    BY <1>6, <2>1 DEF Drop
  <2>5. disconnects' = disconnects
    BY <1>6, <2>1 DEF Drop, ClientTypeOK
  <2>6. UNCHANGED << queue, running, loop, stopped, app, received >> /\ held' = FALSE
        /\ object' \in {object, "destroyed"}
    BY <1>6 DEF Drop, loopVars
  <2> QED
    BY <2>3, <2>4, <2>5, <2>6 DEF ClientTypeOK, Conn
<1> QED
  BY <1>2, <1>3, <1>4, <1>5, <1>6

LEMMA LoopStep ==
  ASSUME ClientInv, OperationEnds \/ LoopThread
  PROVE  ClientInv'
<1> USE DEF Phases, NeverDeaf, Hears, Queued
<1>1. /\ conn \in Conn /\ queue \in Seq(Queued)
      /\ "close" \in Queued /\ "close" \in Kinds
  BY DEF ClientTypeOK, Conn, Kinds
<1>2. CASE OperationEnds
  <2>0. PICK op \in conn.pending : \E h \in Outcomes(op) :
          conn' = [conn EXCEPT !.pending = @ \ {op}] /\ Post(h)
    BY <1>2 DEF OperationEnds
  <2>1. PICK h \in Outcomes(op) :
          conn' = [conn EXCEPT !.pending = @ \ {op}] /\ Post(h)
    BY <2>0
  <2>2. h \in Queued /\ h \in Kinds /\ (op = "read" => h \in Hears)
    BY <1>1, <2>1 DEF Conn, Operations, Outcomes, Kinds
  <2>3. /\ queue' \in Seq(Queued) /\ (~stopped => queue' \in Seq(Kinds))
        /\ Expects(queue) => Expects(queue')
        /\ op = "read" => Expects(queue')
    BY <1>1, <2>1, <2>2, AppendExpects DEF Post
  <2>4. /\ conn' \in Conn /\ conn'.m_is_connected = conn.m_is_connected
        /\ "read" \in conn.pending => "read" \in conn'.pending \/ op = "read"
    BY <1>1, <2>1 DEF Conn
  <2> QED
    BY <1>2, <2>3, <2>4 DEF OperationEnds, ClientTypeOK, Conn, Expects
<1>3. CASE Begin
  <2>1. /\ queue' \in Seq(Queued) /\ queue' \in Seq(Kinds) /\ Head(queue) \in Kinds
        /\ Expects(queue) => Head(queue) \in Hears \/ Expects(queue')
    BY <1>1, <1>3, TailExpects DEF Begin
  <2>2. running' \in Kinds \cup {"idle"} /\ (conn.m_is_connected => running' = Head(queue))
    BY <1>3, <2>1 DEF Begin
  <2> QED
    BY <1>3, <2>1, <2>2 DEF Begin, ClientTypeOK, Kinds, Expects
<1>4. CASE HandleRead
  <2>1. Keeps(conn, conn') /\ (conn'.m_is_connected => "read" \in conn'.pending)
    BY <1>1, <1>4, AfterReadKeeps DEF HandleRead
  <2>2. queue' \in Seq(Queued) /\ (~stopped => queue' \in Seq(Kinds))
    BY <1>1, <1>4, AppendExpects DEF HandleRead, Post
  <2>3. received' \in 0 .. MaxReads /\ running = "read"
    BY <1>4, ClientAssumption DEF HandleRead, Handler, ClientTypeOK
  <2> QED
    BY <1>4, <2>1, <2>2, <2>3 DEF HandleRead, Handler, ClientTypeOK, Keeps, Conn
<1>5. CASE HandleWrite
  <2>1. Keeps(conn, conn')
    BY <1>1, <1>5, AfterWriteKeeps DEF HandleWrite
  <2> QED
    BY <1>5, <2>1 DEF HandleWrite, Handler, ClientTypeOK, Keeps, Conn
<1>6. CASE HeartBeatSend
  <2>1. Keeps(conn, conn')
    BY <1>1, <1>6, BeatKeeps DEF HeartBeatSend
  <2> QED
    BY <1>6, <2>1 DEF HeartBeatSend, Handler, ClientTypeOK, Keeps, Conn
<1>7. CASE HandleError
  <2>1. queue' \in Seq(Queued) /\ Expects(queue') /\ (~stopped => queue' \in Seq(Kinds))
    BY <1>1, <1>7, AppendExpects DEF HandleError, Post
  <2> QED
    BY <1>7, <2>1 DEF HandleError, Handler, ClientTypeOK, Expects
<1>8. CASE HandleClose
  <2>1. conn' \in Conn /\ ~conn'.m_is_connected
    BY <1>1, <1>8 DEF HandleClose, Conn
  <2> QED
    BY <1>8, <2>1 DEF HandleClose, ClientTypeOK, Conn
<1>9. CASE Closing
  <2>1. conn' \in Conn /\ ~conn'.m_is_connected
    BY <1>1, <1>9, CloseFacts DEF Closing
  <2>2. queue' \in Seq(Queued)
    BY <1>1, <1>9, EndedIsQueue DEF Closing
  <2>3. disconnects = 0
    BY <1>9 DEF Closing
  <2> QED
    BY <1>9, <2>1, <2>2, <2>3 DEF Closing, ClientTypeOK, Conn
<1>10. CASE LoopEnds
  <2>1. ~conn.m_is_connected
    <3> SUFFICES ASSUME conn.m_is_connected PROVE FALSE
      OBVIOUS
    <3>1. conn.pending = {} /\ queue = << >> /\ running = "idle"
      BY <1>10 DEF LoopEnds, Owned
    <3> QED
      BY <3>1
  <2> QED
    BY <1>10, <2>1 DEF LoopEnds, ClientTypeOK
<1> QED
  BY <1>2, <1>3, <1>4, <1>5, <1>6, <1>7, <1>8, <1>9, <1>10 DEF LoopThread

LEMMA ClientInvStep == ClientInv /\ [ClientNext]_clientVars => ClientInv'
<1> SUFFICES ASSUME ClientInv, [ClientNext]_clientVars PROVE ClientInv'
  OBVIOUS
<1>1. CASE UNCHANGED clientVars
  BY <1>1 DEF clientVars, loopVars, ClientTypeOK, Phases, NeverDeaf
<1> QED
  BY <1>1, ApplicationStep, LoopStep DEF ClientNext

LEMMA ClientInvCorrect == ClientSpec => []ClientInv
BY ClientInvInit, ClientInvStep, PTL DEF ClientSpec

-----------------------------------------------------------------------------

\* The client's variables keep their types, for any number of queued handlers.
THEOREM ClientTypeCorrect == ClientSpec => []ClientTypeOK
BY ClientInvCorrect, PTL

\* The thread of a connected client does not run out of work: a read is pending,
\* over or being handled, or the handler that closes the connection is queued.
THEOREM NeverDeafCorrect == ClientSpec => []NeverDeaf
BY ClientInvCorrect, PTL

\* OnDisconnect is called by the thread of m_service in handle_close and nowhere
\* else: the destructor never finds the connection open.
THEOREM DisconnectFromHandlerCorrect == ClientSpec => DisconnectFromHandler
<1>1. ClientInv /\ [ClientNext]_clientVars
        => [disconnects' # disconnects => running = "closing"]_clientVars
  <2> SUFFICES ASSUME ClientInv, ClientNext, disconnects' # disconnects
               PROVE  running = "closing"
    BY DEF clientVars
  <2>1. ~Drop
    BY DEF Drop, NeverDeaf, ClientTypeOK
  <2> QED
    BY <2>1 DEF ClientNext, LoopThread, StartClient, SendData, AsyncWrite, Stop,
                OperationEnds, Begin, HandleRead, HandleWrite, HeartBeatSend,
                HandleError, Handler, HandleClose, Closing, LoopEnds
<1> QED
  BY <1>1, ClientInvCorrect, PTL DEF ClientSpec, DisconnectFromHandler

\* The client implements what tCliNotify is promised: OnDisconnect is called once at
\* most, for a second call is a step Notify does not have, after it there is no
\* OnRecvData, and nothing before start.
THEOREM ImplementsNotifyCorrect == ClientSpec => ImplementsNotify
<1>1. ClientInit => Promised!NotifyInit
  BY DEF ClientInit, Promised!NotifyInit, Talk
<1>2. ClientInv /\ [ClientNext]_clientVars => [Promised!NotifyNext]_(Promised!notifyVars)
  <2> SUFFICES ASSUME ClientInv, [ClientNext]_clientVars
               PROVE  Promised!NotifyNext \/ UNCHANGED Promised!notifyVars
    BY DEF Promised!NotifyNext
  <2> USE DEF Phases, Talk, Promised!notifyVars, Promised!NotifyNext,
              Promised!Open, Promised!OnRecvData, Promised!OnDisconnect
  <2>1. CASE StartClient
    BY <2>1 DEF StartClient
  <2>2. CASE Drop
    <3>1. disconnects' = disconnects
      BY <2>2 DEF Drop, NeverDeaf, ClientTypeOK
    <3> QED
      BY <2>2, <3>1 DEF Drop, loopVars
  <2>3. CASE HandleRead
    BY <2>3 DEF HandleRead, Handler
  <2>4. CASE Closing
    BY <2>4 DEF Closing
  <2>5. CASE SendData \/ AsyncWrite \/ Stop \/ OperationEnds
    BY <2>5 DEF SendData, AsyncWrite, Stop, OperationEnds, loopVars
  <2>6. CASE Begin \/ HandleWrite \/ HeartBeatSend \/ HandleError \/ HandleClose
    BY <2>6 DEF Begin, HandleWrite, HeartBeatSend, HandleError, HandleClose, Handler
  <2>7. CASE LoopEnds
    BY <2>7 DEF LoopEnds
  <2>8. CASE UNCHANGED clientVars
    BY <2>8 DEF clientVars, loopVars
  <2> QED
    BY <2>1, <2>2, <2>3, <2>4, <2>5, <2>6, <2>7, <2>8 DEF ClientNext, LoopThread
<1> QED
  BY <1>1, <1>2, ClientInvCorrect, PTL DEF ClientSpec, ImplementsNotify, Promised!NotifySpec
=============================================================================
