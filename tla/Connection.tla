----------------------------- MODULE Connection -----------------------------
(***************************************************************************)
(* What the handlers of session (session.cpp) and client (client.cpp) do   *)
(* to a connection, without the data: s.m_is_connected, the gate           *)
(* m_send_cell_is_sending as s.sending, and the asynchronous operations    *)
(* s.pending that have been started and have not ended.                    *)
(***************************************************************************)
EXTENDS Integers, Sequences, FiniteSets

\* async_read_some, async_write_some, and the waits of m_heartbeat_send and
\* m_heartbeat_handle.
Operations == {"read", "write", "hbsend", "hbhandle"}

\* The handlers: "error" is handle_read or handle_write of a failed operation.
Kinds == {"read", "error", "write", "hbsend", "hbhandle", "close"}

Outcomes(op) == IF op \in {"read", "write"} THEN {op, "error"} ELSE {op}

Start(s, op) == [s EXCEPT !.pending = @ \cup {op}]

\* do_write behind its test: the gate is shut, or a write starts, or the cache is
\* empty and m_heartbeat_send waits again.
StartWrite(s) ==
  IF s.sending THEN {s}
  ELSE {[Start(s, "write") EXCEPT !.sending = TRUE], Start(s, "hbsend")}

DoWrite(s) == IF s.m_is_connected THEN StartWrite(s) ELSE {s}
DoRead(s) == IF s.m_is_connected THEN Start(s, "read") ELSE s
Arm(s) == Start(s, "hbhandle")
Cancel(s) == [s EXCEPT !.pending = @ \ {"hbhandle"}]

\* deliver and the wait for the answer: heart_beat_send, and start.
Beat(s) == {Arm(t) : t \in DoWrite(s)}

\* handle_read without an error: each frame may be data or one of the peer's
\* heartbeats, which is sent back; then do_read.
AfterRead(s) == {DoRead(t) : t \in DoWrite(Cancel(s)) \cup {Cancel(s)}}

AfterWrite(s) == DoWrite([s EXCEPT !.sending = FALSE])

\* handle_close behind its test and its store: the socket's operations fail, the
\* waits are cancelled.
Failing(s) == s.pending \cap {"read", "write"}
Close(s) == [s EXCEPT !.m_is_connected = FALSE, !.pending = {}]

Repeat(h, n) == [i \in 1 .. n |-> h]
=============================================================================
