------------------------------ MODULE RecvPath ------------------------------
(***************************************************************************)
(* The receiving half of one connection: do_read, handle_read, stop and    *)
(* handle_close of session (tcp_server/session.cpp) and client             *)
(* (tcp_client/client.cpp), on the one thread that runs the io_service.    *)
(*                                                                         *)
(* External: the io_service runs its queued handlers first in, first out;  *)
(* async_read_some tries to read at once and, when bytes are there, queues *)
(* its handler behind what is queued; otherwise the reactor queues the     *)
(* socket when it becomes readable and the bytes are read when its turn    *)
(* comes; with no room in the buffer it queues a handler for 0 bytes;      *)
(* closing the socket makes a waiting read end with an error.              *)
(***************************************************************************)
EXTENDS RecvBuffer, Sequences

CONSTANTS
  package_head_len,
  FrameSizes,        \* the sizes of the peer's frames, head included
  MaxStream          \* how many bytes the peer sends (bound)

ASSUME FrameAssumption ==
  /\ package_head_len \in Nat /\ package_head_len >= 1
  /\ FrameSizes \subseteq Nat /\ FrameSizes # {}
  /\ \A f \in FrameSizes : f >= package_head_len
ASSUME StreamAssumption == MaxStream \in Nat

VARIABLES
  side,            \* "server" for session.cpp, "client" for client.cpp
  refuses,         \* whether the application's OnRecvData may return false
  pc,              \* "wait" (between handlers), "parse" or "read" (do_read)
  frame,           \* the size of the frame at consumed
  ready,           \* the queued handlers
  reading,         \* an async_read_some waits for the socket
  m_is_connected,
  stopped,         \* the client's m_service.stop() has been called
  handed,          \* how far OnRecvData has been given the stream
  calls            \* how often OnRecvData has been called

chosen == << side, refuses >>   \* neither ever changes

recvVars == << bufferVars, pc, frame, ready, reading, m_is_connected, stopped,
               handed, calls, chosen >>

RecvInit ==
  /\ side \in {"server", "client"}
  /\ refuses \in BOOLEAN
  /\ BufferInit
  /\ pc = "read"
  /\ frame \in FrameSizes
  /\ ready = << >>
  /\ reading = FALSE
  /\ m_is_connected = TRUE
  /\ stopped = FALSE
  /\ handed = 0
  /\ calls = 0

\* A queued handler; bytes is what an async_read_some that is over has read.
Op(name) == [op |-> name, bytes |-> 0]

\* stop: handle_close is posted.
Posted == Append(ready, Op("close"))

IsQueued(name) == \E i \in DOMAIN ready : ready[i].op = name

\* The sizes an async_read_some may return.
Sizes == {n \in 1 .. enable_write : received + n <= MaxStream}

\* The next queued handler is this one.
Runs(name) ==
  pc = "wait" /\ ~stopped /\ ready # << >> /\ Head(ready).op = name

-----------------------------------------------------------------------------
(* do_read.                                                                *)

DoRead ==
  /\ pc = "read"
  /\ pc' = "wait"
  /\ IF ~m_is_connected THEN UNCHANGED << ready, reading >>
     ELSE \/ enable_write > 0 /\ reading' = TRUE /\ UNCHANGED ready
          \/ /\ enable_write > 0
             /\ \E n \in Sizes : ready' = Append(ready, [op |-> "read", bytes |-> n])
             /\ UNCHANGED reading
          \/ enable_write = 0 /\ ready' = Append(ready, Op("read")) /\ UNCHANGED reading
  /\ UNCHANGED << bufferVars, frame, m_is_connected, stopped, handed, calls, chosen >>

\* The reactor finds the socket readable.
SocketReady ==
  /\ reading /\ ~stopped
  /\ Sizes # {}
  /\ ~IsQueued("ready")
  /\ ready' = Append(ready, Op("ready"))
  /\ UNCHANGED << bufferVars, pc, frame, reading, m_is_connected, stopped,
                  handed, calls, chosen >>

-----------------------------------------------------------------------------
(* handle_read.                                                            *)

\* The bytes an async_read_some read at once.
HandleRead ==
  /\ Runs("read")
  /\ HasWrite(Head(ready).bytes)
  /\ ready' = Tail(ready)
  /\ pc' = "parse"
  /\ UNCHANGED << frame, reading, m_is_connected, stopped, handed, calls, chosen >>

\* The bytes that made the socket readable, unless it was closed meanwhile.
HandleReadReady ==
  /\ Runs("ready")
  /\ ready' = Tail(ready)
  /\ IF reading
     THEN /\ \E n \in Sizes : HasWrite(n)
          /\ reading' = FALSE
          /\ pc' = "parse"
     ELSE UNCHANGED << bufferVars, reading, pc >>
  /\ UNCHANGED << frame, m_is_connected, stopped, handed, calls, chosen >>

\* The test of the loop and of the break in it: a whole frame is there.
FrameComplete == enable_read >= package_head_len /\ enable_read >= frame

\* A heartbeat package: answered or not, it is taken off the buffer.
ParseHeartBeat ==
  /\ pc = "parse" /\ FrameComplete
  /\ frame = package_head_len
  /\ HasRead(frame)
  /\ frame' \in FrameSizes
  /\ UNCHANGED << pc, ready, reading, m_is_connected, stopped, handed, calls, chosen >>

\* On the client a package without a payload is never data.
IsData == side = "server" \/ frame > package_head_len

\* Data: OnRecvData accepts it and it is taken off the buffer ...
ParseData ==
  /\ pc = "parse" /\ FrameComplete /\ IsData
  /\ handed' = consumed + frame
  /\ calls' = calls + 1
  /\ HasRead(frame)
  /\ frame' \in FrameSizes
  /\ UNCHANGED << pc, ready, reading, m_is_connected, stopped, chosen >>

\* ... or OnRecvData returns false: stop, and out of the loop with the frame
\* still in the buffer.
ParseRefused ==
  /\ pc = "parse" /\ FrameComplete /\ IsData
  /\ refuses
  /\ handed' = consumed + frame
  /\ calls' = calls + 1
  /\ ready' = Posted
  /\ pc' = "read"
  /\ UNCHANGED << bufferVars, frame, reading, m_is_connected, stopped, chosen >>

\* Fault: one turn of the loop, whatever is left.
ParseEndAnyway ==
  /\ pc = "parse"
  /\ pc' = "read"
  /\ UNCHANGED << bufferVars, frame, ready, reading, m_is_connected, stopped,
                  handed, calls, chosen >>

ParseEnd ==
  /\ pc = "parse" /\ ~FrameComplete
  /\ pc' = "read"
  /\ UNCHANGED << bufferVars, frame, ready, reading, m_is_connected, stopped,
                  handed, calls, chosen >>

\* The read ended with an error (here: it was aborted): stop.
HandleReadError ==
  /\ Runs("abort")
  /\ ready' = Append(Tail(ready), Op("close"))
  /\ UNCHANGED << bufferVars, pc, frame, reading, m_is_connected, stopped,
                  handed, calls, chosen >>

\* The peer closes or resets the connection while a read waits.
PeerCloses ==
  /\ reading
  /\ reading' = FALSE
  /\ ready' = Append(ready, Op("abort"))
  /\ UNCHANGED << bufferVars, pc, frame, m_is_connected, stopped, handed,
                  calls, chosen >>

-----------------------------------------------------------------------------
(* stop, called by the owner, another thread or another handler.           *)

Stop ==
  /\ m_is_connected
  /\ ~IsQueued("close")
  /\ ready' = Posted
  /\ UNCHANGED << bufferVars, pc, frame, reading, m_is_connected, stopped,
                  handed, calls, chosen >>

\* Fault: the client's io_service goes on.
HandleCloseRunsOn ==
  /\ Runs("close")
  /\ m_is_connected' = FALSE
  /\ reading' = FALSE
  /\ ready' = IF reading THEN Append(Tail(ready), Op("abort")) ELSE Tail(ready)
  /\ UNCHANGED << bufferVars, pc, frame, stopped, handed, calls, chosen >>

\* handle_close, with OnDisconnect; on the client the io_service stops.
HandleClose ==
  /\ Runs("close")
  /\ m_is_connected' = FALSE
  /\ reading' = FALSE
  /\ ready' = IF reading THEN Append(Tail(ready), Op("abort")) ELSE Tail(ready)
  /\ stopped' = (side = "client")
  /\ UNCHANGED << bufferVars, pc, frame, handed, calls, chosen >>

RecvNext ==
  \/ DoRead \/ SocketReady \/ HandleRead \/ HandleReadReady
  \/ ParseHeartBeat \/ ParseData \/ ParseRefused \/ ParseEnd
  \/ HandleReadError \/ PeerCloses \/ Stop \/ HandleClose

RecvSpec == RecvInit /\ [][RecvNext]_recvVars

-----------------------------------------------------------------------------
(* Properties.                                                             *)

RecvTypeOK ==
  /\ BufferTypeOK
  /\ side \in {"server", "client"} /\ refuses \in BOOLEAN
  /\ pc \in {"wait", "parse", "read"}
  /\ frame \in FrameSizes
  /\ ready \in Seq([op : {"read", "ready", "abort", "close"}, bytes : Nat])
  /\ reading \in BOOLEAN /\ m_is_connected \in BOOLEAN /\ stopped \in BOOLEAN
  /\ handed \in Nat /\ calls \in Nat

\* While a connection whose application accepts every message waits for more
\* bytes, no complete frame is left in the buffer: one read that brings several
\* frames hands over all of them.
NothingLeftBehind ==
  ~refuses /\ m_is_connected /\ reading => ~FrameComplete

\* do_read always has room to read into (an empty buffer makes async_read_some
\* succeed with 0 bytes at once, again and again): holds while every frame is
\* at most one byte longer than half of the buffer and none is refused.
NoStall == ~refuses /\ pc = "read" /\ m_is_connected => enable_write > 0

\* OnRecvData is given the stream in order and no frame twice; a session whose
\* application refuses a frame may hand it over again before it closes.
EachFrameOnce ==
  [][calls' # calls /\ ~(refuses /\ side = "server") => handed <= consumed]_recvVars

\* "the order of OnConnect, OnRecvData, OnDisconnect is guaranteed"
\* (notify.h:18): no OnRecvData follows OnDisconnect.
NoDataAfterDisconnect == [][calls' # calls => m_is_connected]_recvVars

\* The client keeps that order: its handle_close stops the io_service, and
\* what is still queued never runs.
ClientKeepsOrder ==
  [][calls' # calls /\ side = "client" => m_is_connected]_recvVars
=============================================================================
