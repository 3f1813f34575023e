----------------------------- MODULE RecvBuffer -----------------------------
(***************************************************************************)
(* micro_buffer (tcp_common/micro_buffer.h, micro_buffer.cpp): the linear  *)
(* receive buffer of a session or client.  The socket fills it at          *)
(* write_pos, handle_read takes frames from read_pos, and has_read moves   *)
(* the rest to the front when half of the buffer has been read.            *)
(*                                                                         *)
(* A byte is its offset in the stream of the peer, so that received and    *)
(* consumed say what the buffer should hold.                               *)
(***************************************************************************)
EXTENDS Naturals

CONSTANTS
  m_total_size,  \* readBufSize, 1 MiB in common.h
  Junk           \* a byte that is no byte of the stream

ASSUME TotalAssumption ==
  /\ m_total_size \in Nat /\ m_total_size >= 2
  /\ m_total_size = 2 * (m_total_size \div 2)
ASSUME JunkAssumption == Junk \notin Nat

VARIABLES
  m_read_pos,
  m_write_pos,
  buf,
  received,   \* bytes of the stream written to the buffer so far
  consumed    \* bytes of the stream has_read took off so far

bufferVars == << m_read_pos, m_write_pos, buf, received, consumed >>

Places == 0 .. m_total_size - 1

BufferInit ==
  /\ m_read_pos = 0
  /\ m_write_pos = 0
  /\ buf = [i \in Places |-> Junk]
  /\ received = 0
  /\ consumed = 0

enable_write == m_total_size - m_write_pos
enable_read == m_write_pos - m_read_pos

\* The socket has stored the next len bytes at write_pos; has_write(len).
HasWrite(len) ==
  /\ buf' = [i \in Places |->
       IF m_write_pos <= i /\ i < m_write_pos + len
       THEN received + (i - m_write_pos) ELSE buf[i]]
  /\ m_write_pos' = m_write_pos + len
  /\ received' = received + len
  /\ UNCHANGED << m_read_pos, consumed >>

\* memcpy(buf, buf + from, n); what it leaves when the two overlap is
\* undefined, and taken here as Junk.
Memcpy(from, n) ==
  [i \in Places |-> IF i >= n THEN buf[i]
                    ELSE IF from >= n THEN buf[from + i] ELSE Junk]

\* Fault: the rest is moved down at once, not when half has been read.
HasReadEager(len) ==
  LET from == m_read_pos + len IN
  /\ buf' = Memcpy(from, m_write_pos - from)
  /\ m_write_pos' = m_write_pos - from
  /\ m_read_pos' = 0
  /\ consumed' = consumed + len
  /\ UNCHANGED received

\* Fault: the rest is moved down only when the whole buffer has been read.
HasReadLate(len) ==
  LET from == m_read_pos + len IN
  /\ IF from >= m_total_size
     THEN /\ buf' = Memcpy(from, m_write_pos - from)
          /\ m_write_pos' = m_write_pos - from
          /\ m_read_pos' = 0
     ELSE /\ m_read_pos' = from
          /\ UNCHANGED << m_write_pos, buf >>
  /\ consumed' = consumed + len
  /\ UNCHANGED received

\* has_read(len).
HasRead(len) ==
  LET from == m_read_pos + len IN
  /\ IF from >= m_total_size \div 2
     THEN /\ buf' = Memcpy(from, m_write_pos - from)
          /\ m_write_pos' = m_write_pos - from
          /\ m_read_pos' = 0
     ELSE /\ m_read_pos' = from
          /\ UNCHANGED << m_write_pos, buf >>
  /\ consumed' = consumed + len
  /\ UNCHANGED received

-----------------------------------------------------------------------------

BufferTypeOK ==
  /\ m_read_pos \in Nat /\ m_write_pos \in Nat
  /\ m_read_pos <= m_write_pos /\ m_write_pos <= m_total_size
  /\ buf \in [Places -> Nat \cup {Junk}]
  /\ received \in Nat /\ consumed \in Nat

\* Between read_pos and write_pos the buffer holds the bytes received and not
\* yet consumed, in order: has_read's move loses, doubles and shuffles none,
\* and its memcpy never meets overlapping ranges.
BufferHoldsStream ==
  /\ received = consumed + enable_read
  /\ \A i \in Places :
       m_read_pos <= i /\ i < m_write_pos => buf[i] = consumed + (i - m_read_pos)
=============================================================================
