------------------------------ MODULE SendPath ------------------------------
(***************************************************************************)
(* The sending half of one connection: session (tcp_server/session.cpp) or *)
(* client (tcp_client/client.cpp), from send_data to the socket and back.  *)
(*                                                                         *)
(* Application threads, the thread that runs start and the thread that     *)
(* runs the io_service (Manager) all call deliver: it stores the message   *)
(* in the ring of SendCell.tla and calls do_write, which starts at most    *)
(* one async_write_some at a time, guarded by m_send_cell_is_sending.      *)
(* handle_write, heart_beat_send, heart_beat_handle, handle_read and       *)
(* handle_close are the handlers of the io_service; it runs one at a time. *)
(*                                                                         *)
(* External: async_write_some writes a non-empty prefix of its buffer or   *)
(* fails; a deadline_timer hands a wait that has expired to the io_service *)
(* and from then on cancels it no more; the handlers of cancelled waits do *)
(* nothing and are left out.                                               *)
(***************************************************************************)
EXTENDS SendCell, FiniteSets

CONSTANTS
  Apps,       \* application threads that call send_data
  Manager,    \* the thread that runs the io_service
  Starter,    \* the thread that runs start
  Side,       \* "server" for session.cpp, "client" for client.cpp
  MaxTries,   \* calls of write_chche one deliver makes: 3 (server), 4 (client)
  HeartBeat,  \* the heartbeat package
  Sends,      \* Sends[t]: how many messages thread t sends (bound)
  MaxEchoes   \* how many heartbeats the peer sends (bound)

Senders == Apps \cup {Manager}
AppMessage == UNION {{t} \X (1 .. Sends[t]) : t \in Senders}

ASSUME ThreadsAssumption ==
  /\ Writers = Apps \cup {Manager, Starter}
  /\ Manager \notin Apps /\ Starter \notin Apps /\ Manager # Starter
ASSUME SideAssumption == Side \in {"server", "client"}
ASSUME TriesAssumption == MaxTries \in Nat /\ MaxTries >= 1
ASSUME SendsAssumption == Sends \in [Senders -> Nat] /\ MaxEchoes \in Nat
ASSUME MessageAssumption ==
  Message = AppMessage \cup {HeartBeat} /\ HeartBeat \notin AppMessage
ASSUME BufferAssumption == NULL \notin [msg : Message, left : Nat]

VARIABLES
  m_is_connected,
  m_send_cell_is_sending,
  pc,           \* where each thread is
  cont,         \* what a thread does after deliver: see Done
  tries,        \* calls of write_chche made by the current deliver
  sends,        \* messages each sender has begun to send
  echoes,       \* heartbeats of the peer received
  inflight,     \* the buffer of the pending async_write_some, or NULL
  open,         \* the frame that is only partly on the wire, or NULL
  sent,         \* application messages whose frame is on the wire, in order
  accepted,     \* application messages write_chche accepted
  sendWaits,    \* pending waits of m_heartbeat_send
  sendFired,    \* expired ones, whose heart_beat_send is queued
  handleWaits,  \* m_heartbeat_handle has a pending wait
  handleFired,  \* ... an expired one, whose heart_beat_handle is queued
  closePosted,  \* a handle_close is queued (stop)
  reading,      \* an async_read_some is pending
  running       \* the io_service runs handlers

gateVars  == << m_is_connected, m_send_cell_is_sending >>
callVars  == << cont, tries, sends, echoes >>
wireVars  == << inflight, open, sent >>
timerVars == << sendWaits, sendFired, handleWaits, handleFired >>
loopVars  == << closePosted, reading, running >>
pathVars  == << cellVars, gateVars, pc, callVars, wireVars, accepted,
                timerVars, loopVars >>

Threads == Apps \cup {Manager, Starter}

PathInit ==
  /\ CellInit
  /\ m_is_connected = TRUE
  /\ m_send_cell_is_sending = 0
  /\ pc = [t \in Threads |-> IF t = Starter THEN "deliver" ELSE "idle"]
  /\ cont = [t \in Threads |-> IF t = Starter THEN "arm" ELSE "none"]
  /\ tries = [t \in Threads |-> 0]
  /\ sends = [t \in Senders |-> 0]
  /\ echoes = 0
  /\ inflight = NULL
  /\ open = NULL
  /\ sent = << >>
  /\ accepted = {}
  /\ sendWaits = 0
  /\ sendFired = 0
  /\ handleWaits = FALSE
  /\ handleFired = FALSE
  /\ closePosted = FALSE
  /\ reading = FALSE
  /\ running = (Side = "server")

Goto(t, l) == pc' = [pc EXCEPT ![t] = l]

\* Thread t calls deliver and does c afterwards.
Call(t, c) == Goto(t, "deliver") /\ cont' = [cont EXCEPT ![t] = c]

-----------------------------------------------------------------------------
(* deliver.                                                                *)

\* The package of the current call: m_heartbeat_send_ph, the peer's heartbeat
\* sent back, or the next message of the sender.
Outgoing(t) == IF cont[t] \in {"arm", "echo"} THEN HeartBeat
                                              ELSE << t, sends[t] >>

\* session::deliver checks the connection itself; on the client send_data does.
ChecksConnection(t) == Side = "server" \/ cont[t] \notin {"arm", "echo"}

Send(t) ==
  /\ pc[t] = "idle"
  /\ sends[t] < Sends[t]
  /\ sends' = [sends EXCEPT ![t] = @ + 1]
  /\ Call(t, "none")
  /\ UNCHANGED << cellVars, gateVars, tries, echoes, wireVars, accepted,
                  timerVars, loopVars >>

Deliver(t) ==
  /\ pc[t] = "deliver"
  /\ IF ChecksConnection(t) /\ ~m_is_connected
     THEN /\ Goto(t, "done")
          /\ UNCHANGED << cellVars, tries >>
     ELSE /\ Goto(t, "write")
          /\ tries' = [tries EXCEPT ![t] = 1]
          /\ WriteBegin(t, Outgoing(t))
  /\ UNCHANGED << gateVars, cont, sends, echoes, wireVars, accepted,
                  timerVars, loopVars >>

\* write_chche, and again after a sleep while the cache is full.
WriteChche(t) ==
  /\ pc[t] = "write"
  /\ \/ WriteStep(t) /\ UNCHANGED tries
     \/ /\ wpc[t] = "full"
        /\ tries[t] < MaxTries
        /\ tries' = [tries EXCEPT ![t] = @ + 1]
        /\ WriteBegin(t, wmsg[t])
  /\ UNCHANGED << gateVars, pc, cont, sends, echoes, wireVars, accepted,
                  timerVars, loopVars >>

\* The cache took the message: do_write follows.
WriteOk(t) ==
  /\ pc[t] = "write"
  /\ wpc[t] = "ok"
  /\ accepted' = accepted \cup ({wmsg[t]} \ {HeartBeat})
  /\ Goto(t, "do_write")
  /\ UNCHANGED << cellVars, gateVars, callVars, wireVars, timerVars, loopVars >>

\* Fault: ret is not tested after the loop.
WriteFullUntested(t) ==
  /\ pc[t] = "write"
  /\ wpc[t] = "full"
  /\ tries[t] = MaxTries
  /\ accepted' = accepted \cup ({wmsg[t]} \ {HeartBeat})
  /\ Goto(t, "do_write")
  /\ UNCHANGED << cellVars, gateVars, callVars, wireVars, timerVars, loopVars >>

\* The last try found the cache full: deliver returns, without do_write.
WriteFull(t) ==
  /\ pc[t] = "write"
  /\ wpc[t] = "full"
  /\ tries[t] = MaxTries
  /\ Goto(t, "done")
  /\ UNCHANGED << cellVars, gateVars, callVars, wireVars, accepted, timerVars,
                  loopVars >>

-----------------------------------------------------------------------------
(* do_write.                                                               *)

\* Fault: the gate is set without being tested.
DoWriteNoGate(t) ==
  /\ pc[t] = "do_write"
  /\ IF m_is_connected
     THEN m_send_cell_is_sending' = 1 /\ Goto(t, "enabled")
     ELSE UNCHANGED m_send_cell_is_sending /\ Goto(t, "done")
  /\ UNCHANGED << cellVars, m_is_connected, callVars, wireVars, accepted,
                  timerVars, loopVars >>

\* The check of m_is_connected, then m_send_cell_is_sending's
\* compare_exchange(0, 1); no step of another thread tells the two from one.
DoWrite(t) ==
  /\ pc[t] = "do_write"
  /\ IF m_is_connected /\ m_send_cell_is_sending = 0
     THEN m_send_cell_is_sending' = 1 /\ Goto(t, "enabled")
     ELSE UNCHANGED m_send_cell_is_sending /\ Goto(t, "done")
  /\ UNCHANGED << cellVars, m_is_connected, callVars, wireVars, accepted,
                  timerVars, loopVars >>

\* Fault: a cell that is there is taken for one that may be read, as in the
\* version of enable_read that send_cell.h:51 keeps as a comment.
AsyncWriteNonNull(t) ==
  /\ pc[t] = "enabled"
  /\ IF ~is_empty /\ IsCell(m_scu_ptr[m_read_pos])
     THEN /\ inflight' = [msg  |-> m_scu_ptr[m_read_pos].msg,
                          left |-> m_scu_ptr[m_read_pos].left]
          /\ Goto(t, "done")
     ELSE UNCHANGED inflight /\ Goto(t, "release")
  /\ UNCHANGED << cellVars, gateVars, callVars, open, sent, accepted,
                  timerVars, loopVars >>

\* enable_read, and async_write_some of what read_chche shows.
AsyncWrite(t) ==
  /\ pc[t] = "enabled"
  /\ IF enable_read
     THEN /\ inflight' = [msg  |-> m_scu_ptr[m_read_pos].msg,
                          left |-> m_scu_ptr[m_read_pos].left]
          /\ Goto(t, "done")
     ELSE UNCHANGED inflight /\ Goto(t, "release")
  /\ UNCHANGED << cellVars, gateVars, callVars, open, sent, accepted,
                  timerVars, loopVars >>

\* m_send_cell_is_sending.store(0) of the other branch.
Release(t) ==
  /\ pc[t] = "release"
  /\ m_send_cell_is_sending' = 0
  /\ Goto(t, "expire")
  /\ UNCHANGED << cellVars, m_is_connected, callVars, wireVars, accepted,
                  timerVars, loopVars >>

\* m_heartbeat_send: expires_from_now cancels the pending waits ...
Expire(t) ==
  /\ pc[t] = "expire"
  /\ sendWaits' = 0
  /\ Goto(t, "wait")
  /\ UNCHANGED << cellVars, gateVars, callVars, wireVars, accepted, sendFired,
                  handleWaits, handleFired, loopVars >>

\* Fault: nothing waits for the timer.
AsyncWaitForgotten(t) ==
  /\ pc[t] = "wait"
  /\ Goto(t, "done")
  /\ UNCHANGED << cellVars, gateVars, callVars, wireVars, accepted, timerVars,
                  loopVars >>

\* ... and async_wait adds one.
AsyncWait(t) ==
  /\ pc[t] = "wait"
  /\ sendWaits' = sendWaits + 1
  /\ Goto(t, "done")
  /\ UNCHANGED << cellVars, gateVars, callVars, wireVars, accepted, sendFired,
                  handleWaits, handleFired, loopVars >>

\* deliver (or handle_write) has returned from do_write.
Done(t) ==
  /\ pc[t] = "done"
  /\ IF wpc[t] = "idle" THEN UNCHANGED cellVars ELSE WriteReturn(t)
  /\ handleWaits' = (handleWaits /\ cont[t] # "echo")
  /\ Goto(t, CASE cont[t] = "none" -> "idle"
               [] cont[t] = "arm" -> "arm"
               [] OTHER -> "parse")   \* "echo" or "reply"
  /\ cont' = [cont EXCEPT ![t] = "none"]
  /\ tries' = [tries EXCEPT ![t] = 0]
  /\ UNCHANGED << gateVars, sends, echoes, wireVars, accepted, sendWaits,
                  sendFired, handleFired, loopVars >>

\* start and heart_beat_send go on with m_heartbeat_handle.
ArmHandle(t) ==
  /\ pc[t] = "arm"
  /\ handleWaits' = TRUE
  /\ Goto(t, IF t = Starter THEN "read" ELSE "idle")
  /\ UNCHANGED << cellVars, gateVars, callVars, wireVars, accepted, sendWaits,
                  sendFired, handleFired, loopVars >>

\* do_read; on the client start then creates the thread that runs the loop.
DoRead(t) ==
  /\ pc[t] = "read"
  /\ reading' = (reading \/ m_is_connected)
  /\ running' = (running \/ t = Starter)
  /\ Goto(t, "idle")
  /\ UNCHANGED << cellVars, gateVars, callVars, wireVars, accepted, timerVars,
                  closePosted >>

-----------------------------------------------------------------------------
(* The handlers the io_service runs on Manager, one at a time.             *)

Handling == running /\ pc[Manager] = "idle"

\* Fault: has_read is not called.
HandleWriteForgets(k) ==
  /\ Handling
  /\ inflight # NULL
  /\ k \in 1 .. inflight.left
  /\ IF k < inflight.left
     THEN open' = [inflight EXCEPT !.left = @ - k] /\ UNCHANGED sent
     ELSE /\ open' = NULL
          /\ sent' = IF inflight.msg = HeartBeat THEN sent
                     ELSE Append(sent, inflight.msg)
  /\ inflight' = NULL
  /\ Goto(Manager, "written")
  /\ UNCHANGED << cellVars, gateVars, callVars, accepted, timerVars, loopVars >>

\* handle_write, no error: k pieces of the buffer are on the wire; has_read
\* takes them off whatever cell the head of the ring is now.
HandleWrite(k) ==
  /\ Handling
  /\ inflight # NULL
  /\ k \in 1 .. inflight.left
  /\ IF k < inflight.left
     THEN open' = [inflight EXCEPT !.left = @ - k] /\ UNCHANGED sent
     ELSE /\ open' = NULL
          /\ sent' = IF inflight.msg = HeartBeat THEN sent
                     ELSE Append(sent, inflight.msg)
  /\ inflight' = NULL
  /\ HasRead(k)
  /\ Goto(Manager, "written")
  /\ UNCHANGED << gateVars, callVars, accepted, timerVars, loopVars >>

\* The rest of has_read.
FreeCell ==
  /\ pc[Manager] = "written"
  /\ HasReadClear
  /\ UNCHANGED << gateVars, pc, callVars, wireVars, accepted, timerVars,
                  loopVars >>

\* Fault: the gate stays shut.
WrittenKeepsGate ==
  /\ pc[Manager] = "written"
  /\ rpc = "ready"
  /\ Goto(Manager, "do_write")
  /\ UNCHANGED << cellVars, gateVars, callVars, wireVars, accepted, timerVars,
                  loopVars >>

\* m_send_cell_is_sending.store(0), then do_write.
Written ==
  /\ pc[Manager] = "written"
  /\ rpc = "ready"
  /\ m_send_cell_is_sending' = 0
  /\ Goto(Manager, "do_write")
  /\ UNCHANGED << cellVars, m_is_connected, callVars, wireVars, accepted,
                  timerVars, loopVars >>

\* handle_write with an error: the gate stays shut, stop posts handle_close.
HandleWriteError ==
  /\ Handling
  /\ inflight # NULL
  /\ inflight' = NULL
  /\ closePosted' = TRUE
  /\ UNCHANGED << cellVars, gateVars, pc, callVars, open, sent, accepted,
                  timerVars, reading, running >>

\* A wait of m_heartbeat_send expires; all of them wait for the same time.
SendTimerFires ==
  /\ sendWaits > 0
  /\ sendWaits' = 0
  /\ sendFired' = sendFired + sendWaits
  /\ UNCHANGED << cellVars, gateVars, pc, callVars, wireVars, accepted,
                  handleWaits, handleFired, loopVars >>

HandleTimerFires ==
  /\ handleWaits
  /\ handleWaits' = FALSE
  /\ handleFired' = TRUE
  /\ UNCHANGED << cellVars, gateVars, pc, callVars, wireVars, accepted,
                  sendWaits, sendFired, loopVars >>

HeartBeatSend ==
  /\ Handling
  /\ sendFired > 0
  /\ sendFired' = sendFired - 1
  /\ Call(Manager, "arm")
  /\ UNCHANGED << cellVars, gateVars, tries, sends, echoes, wireVars, accepted,
                  sendWaits, handleWaits, handleFired, loopVars >>

HeartBeatHandle ==
  /\ Handling
  /\ handleFired
  /\ handleFired' = FALSE
  /\ closePosted' = TRUE
  /\ UNCHANGED << cellVars, gateVars, pc, callVars, wireVars, accepted,
                  sendWaits, sendFired, handleWaits, reading, running >>

\* handle_read: the heartbeat wait is cancelled; then the frames, if any.
HandleRead ==
  /\ Handling
  /\ reading
  /\ reading' = FALSE
  /\ handleWaits' = FALSE
  /\ Goto(Manager, "parse")
  /\ UNCHANGED << cellVars, gateVars, callVars, wireVars, accepted, sendWaits,
                  sendFired, handleFired, closePosted, running >>

\* A message for the application, whose OnRecvData calls send_data.
ParseReply ==
  /\ pc[Manager] = "parse"
  /\ sends[Manager] < Sends[Manager]
  /\ sends' = [sends EXCEPT ![Manager] = @ + 1]
  /\ Call(Manager, "reply")
  /\ UNCHANGED << cellVars, gateVars, tries, echoes, wireVars, accepted,
                  timerVars, loopVars >>

\* A heartbeat of the peer: it is sent back.
ParseHeartBeat ==
  /\ pc[Manager] = "parse"
  /\ echoes < MaxEchoes
  /\ echoes' = echoes + 1
  /\ Call(Manager, "echo")
  /\ UNCHANGED << cellVars, gateVars, tries, sends, wireVars, accepted,
                  timerVars, loopVars >>

\* Our own heartbeat, back from the peer.
ParseOwnHeartBeat ==
  /\ pc[Manager] = "parse"
  /\ handleWaits' = FALSE
  /\ UNCHANGED << cellVars, gateVars, pc, callVars, wireVars, accepted,
                  sendWaits, sendFired, handleFired, loopVars >>

\* No frame is left, or OnRecvData returned false and stop was called.
ParseEnd ==
  /\ pc[Manager] = "parse"
  /\ closePosted' \in {closePosted, TRUE}
  /\ Goto(Manager, "read")
  /\ UNCHANGED << cellVars, gateVars, callVars, wireVars, accepted, timerVars,
                  reading, running >>

HandleReadError ==
  /\ Handling
  /\ reading
  /\ reading' = FALSE
  /\ closePosted' = TRUE
  /\ UNCHANGED << cellVars, gateVars, pc, callVars, wireVars, accepted,
                  timerVars, running >>

\* stop, called by the owner of the connection.
Stop ==
  /\ m_is_connected
  /\ closePosted' = TRUE
  /\ UNCHANGED << cellVars, gateVars, pc, callVars, wireVars, accepted,
                  timerVars, reading, running >>

\* handle_close: m_is_connected first; then, with the socket closed ...
HandleClose ==
  /\ Handling
  /\ closePosted
  /\ closePosted' = FALSE
  /\ m_is_connected' = FALSE
  /\ Goto(Manager, IF m_is_connected THEN "closing" ELSE "idle")
  /\ UNCHANGED << cellVars, m_send_cell_is_sending, callVars, wireVars,
                  accepted, timerVars, reading, running >>

\* ... both timers are cancelled, and the client stops its io_service.
Closing ==
  /\ pc[Manager] = "closing"
  /\ sendWaits' = 0
  /\ handleWaits' = FALSE
  /\ running' = (Side = "server")
  /\ Goto(Manager, "idle")
  /\ UNCHANGED << cellVars, gateVars, callVars, wireVars, accepted, sendFired,
                  handleFired, closePosted, reading >>

-----------------------------------------------------------------------------

DeliverStep(t) ==
  Deliver(t) \/ WriteChche(t) \/ WriteOk(t) \/ WriteFull(t) \/ Done(t)

DoWriteStep(t) ==
  \/ DoWrite(t) \/ AsyncWrite(t)
  \/ Release(t) \/ Expire(t) \/ AsyncWait(t)

\* Thread t goes on with what it is doing.
Step(t) ==
  \/ DeliverStep(t) \/ DoWriteStep(t) \/ ArmHandle(t) \/ DoRead(t)
  \/ /\ t = Manager
     /\ \/ FreeCell \/ Written \/ Closing
        \/ ParseReply \/ ParseHeartBeat \/ ParseOwnHeartBeat \/ ParseEnd

HandleWriteDone ==
  \/ inflight # NULL /\ \E k \in 1 .. inflight.left : HandleWrite(k)
  \/ HandleWriteError

PathNext ==
  \/ \E t \in Apps : Send(t)
  \/ \E t \in Threads : Step(t)
  \/ HandleWriteDone \/ HeartBeatSend \/ HeartBeatHandle
  \/ HandleRead \/ HandleReadError \/ HandleClose
  \/ SendTimerFires \/ HandleTimerFires \/ Stop

PathSpec == PathInit /\ [][PathNext]_pathVars

\* Threads run; the io_service takes its queued handlers in order, so each is
\* run in the end (strong fairness: other handlers come in between); the
\* kernel ends a write, with or without an error; a timer that is left alone
\* expires.  Nothing is assumed of the peer or of the application.
PathFairness ==
  /\ \A t \in Threads : WF_pathVars(Step(t))
  /\ SF_pathVars(HandleWriteDone)
  /\ SF_pathVars(HeartBeatSend)
  /\ SF_pathVars(HandleClose)
  /\ WF_pathVars(SendTimerFires)

-----------------------------------------------------------------------------
(* Properties.                                                             *)

PathTypeOK ==
  /\ CellTypeOK
  /\ m_is_connected \in BOOLEAN
  /\ m_send_cell_is_sending \in {0, 1}
  /\ pc \in [Threads -> {"idle", "deliver", "write", "do_write",
                         "enabled", "release", "expire", "wait", "done",
                         "arm", "read", "written", "parse", "closing"}]
  /\ cont \in [Threads -> {"none", "arm", "echo", "reply"}]
  /\ tries \in [Threads -> 0 .. MaxTries]
  /\ sends \in [Senders -> Nat] /\ \A t \in Senders : sends[t] <= Sends[t]
  /\ echoes \in 0 .. MaxEchoes
  /\ inflight \in [msg : Message, left : Nat] \cup {NULL}
  /\ open \in [msg : Message, left : Nat] \cup {NULL}
  /\ sent \in Seq(AppMessage)
  /\ accepted \subseteq AppMessage
  /\ sendWaits \in Nat /\ sendFired \in Nat
  /\ handleWaits \in BOOLEAN /\ handleFired \in BOOLEAN
  /\ closePosted \in BOOLEAN /\ reading \in BOOLEAN /\ running \in BOOLEAN

\* The threads that read the ring: between the successful compare_exchange and
\* the end of enable_read and read_chche, or in handle_write's has_read.
Reads(t) == pc[t] = "enabled" \/ (t = Manager /\ pc[t] = "written")

\* The gate m_send_cell_is_sending makes the ring's readers one at a time, as
\* send_cell requires, and allows one async_write_some at a time: while a
\* write is pending nobody reads, and the gate is shut while anybody does.
SingleReader ==
  /\ \A a, b \in Threads : Reads(a) /\ Reads(b) => a = b
  /\ inflight # NULL => \A t \in Threads : ~Reads(t)
  /\ inflight # NULL \/ (\E t \in Threads : Reads(t))
       => m_send_cell_is_sending = 1

\* A frame the socket took only in part is continued by the very next write,
\* at the place where it was left; and has_read is applied to the cell that
\* was handed to async_write_some.
FramesIntact ==
  inflight # NULL =>
    /\ open # NULL => inflight = open
    /\ LET head == m_scu_ptr[m_read_pos] IN
       IsCell(head) /\ head.msg = inflight.msg /\ head.left = inflight.left

\* A message deliver accepted is on the wire or still in the ring.
NoMessageLost ==
  \A m \in accepted :
    \/ \E i \in DOMAIN sent : sent[i] = m
    \/ \E i \in DOMAIN Contents : Contents[i] = m

\* A message deliver accepted keeps its cell until it has been written: what
\* NoMessageLost asks at least, whatever the positions of the ring say.
NotErased ==
  \A m \in accepted :
    \/ \E i \in DOMAIN sent : sent[i] = m
    \/ \E p \in Slots : IsCell(m_scu_ptr[p]) /\ m_scu_ptr[p].msg = m

\* The messages of one thread reach the wire in the order it sent them, each
\* once, whatever the other threads, retries and partial writes do.
OrderPerThread ==
  \A i, j \in DOMAIN sent :
    i < j /\ sent[i][1] = sent[j][1] => sent[i][2] < sent[j][2]

\* A thread on its way through deliver and do_write, or a heartbeat that will be.
WillLook ==
  \/ \E t \in Threads : pc[t] \in {"deliver", "write", "do_write", "enabled",
                                   "release", "expire", "wait"}
  \/ sendWaits > 0
  \/ sendFired > 0

\* An open connection never falls asleep: a write is pending or being accounted
\* for, a thread will call do_write, the heartbeat timer is set, or a close is
\* queued.  So a message that met a shut gate in do_write, or arrived between
\* enable_read and the opening of the gate, is picked up again; and a gate that
\* stays shut belongs to a connection that is about to close.
Awake ==
  m_is_connected =>
    \/ inflight # NULL
    \/ pc[Manager] = "written"
    \/ WillLook
    \/ closePosted

\* Even with a full cache an open connection has something left that will send
\* or close: one of Awake's, or the wait for the peer's heartbeat.
NeverStuck ==
  \/ Awake
  \/ handleWaits \/ handleFired
  \/ \E t \in Threads : pc[t] = "arm"

\* The path uses the ring as SendCell.tla assumes: has_read only for a cell
\* enable_read has shown, one has_read at a time, one write per writer.
UsesRing == CellSpec

\* Every message deliver accepted is written to the socket, unless the
\* connection ends.
AcceptedIsSent ==
  \A m \in AppMessage :
    m \in accepted ~> (\E i \in DOMAIN sent : sent[i] = m) \/ ~m_is_connected

=============================================================================
