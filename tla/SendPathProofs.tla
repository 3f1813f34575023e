--------------------------- MODULE SendPathProofs ---------------------------
(***************************************************************************)
(* What is proved of SendPath.tla for any number of application threads,   *)
(* any ring size (overrun or not), on both sides of a connection: the gate *)
(* m_send_cell_is_sending gives the ring one reader at a time.             *)
(***************************************************************************)
EXTENDS SendPath, TLAPS

\* The places from which a thread will open the gate.
Holding == {"enabled", "release", "written"}

Holds(t) == pc[t] \in Holding

\* Inductive: whoever will open the gate is alone, and the gate is shut for as
\* long as there is such a thread or a write is pending.  SingleReader says
\* nothing of a thread at "release", so it is not inductive itself.
GateInv ==
  /\ DOMAIN pc = Threads
  /\ \A a, b \in Threads : Holds(a) /\ Holds(b) => a = b
  /\ inflight # NULL => \A t \in Threads : ~Holds(t)
  /\ inflight # NULL \/ (\E t \in Threads : Holds(t)) => m_send_cell_is_sending = 1

\* What most steps do: thread t goes to l and keeps what it has of the gate.
Passes(t, l) ==
  /\ pc' = [pc EXCEPT ![t] = l]
  /\ Holds(t) <=> l \in Holding
  /\ m_send_cell_is_sending' = m_send_cell_is_sending
  /\ inflight' = inflight

Quiet == UNCHANGED << pc, m_send_cell_is_sending, inflight >>

LEMMA ManagerIsThread == Manager \in Threads
BY DEF Threads

LEMMA GateInvInit == PathInit => GateInv
BY DEF PathInit, GateInv, Holds, Holding

LEMMA PassesKeepsGate ==
  ASSUME GateInv, NEW t \in Threads, NEW l, Passes(t, l)
  PROVE  GateInv'
<1>1. pc' = [pc EXCEPT ![t] = l] /\ (Holds(t) <=> l \in Holding)
  BY DEF Passes
<1>2. /\ DOMAIN pc' = Threads
      /\ pc'[t] = l
      /\ \A u \in Threads : u # t => pc'[u] = pc[u]
  BY <1>1 DEF GateInv
<1>3. \A u \in Threads : Holds(u)' <=> Holds(u)
  BY <1>1, <1>2 DEF Holds
<1>4. m_send_cell_is_sending' = m_send_cell_is_sending /\ inflight' = inflight
  BY DEF Passes
<1> QED
  BY <1>2, <1>3, <1>4 DEF GateInv

LEMMA QuietKeepsGate == GateInv /\ Quiet => GateInv'
BY DEF GateInv, Quiet, Holds

\* The thread that holds the gate leaves it, with a write pending or the gate
\* open.
LEMMA LeavingKeepsGate ==
  ASSUME GateInv, NEW t \in Threads, Holds(t), NEW l, l \notin Holding,
         pc' = [pc EXCEPT ![t] = l],
         \/ inflight' = NULL
         \/ m_send_cell_is_sending' = m_send_cell_is_sending
  PROVE  GateInv'
<1>1. /\ DOMAIN pc' = Threads
      /\ pc'[t] = l
      /\ \A u \in Threads : u # t => pc'[u] = pc[u]
  BY DEF GateInv
<1>2. \A u \in Threads : ~Holds(u)'
  BY <1>1 DEF GateInv, Holds
<1> QED
  BY <1>1, <1>2 DEF GateInv

LEMMA DeliverStepKeepsGate ==
  ASSUME GateInv, NEW t \in Threads, DeliverStep(t)
  PROVE  GateInv'
<1>1. CASE Deliver(t)
  <2>1. Passes(t, "done") \/ Passes(t, "write")
    BY <1>1 DEF Deliver, Passes, Goto, gateVars, wireVars, Holds, Holding
  <2> QED
    BY <2>1, PassesKeepsGate
<1>2. CASE WriteChche(t)
  BY <1>2, QuietKeepsGate DEF WriteChche, gateVars, wireVars, Quiet
<1>3. CASE WriteOk(t)
  <2>1. Passes(t, "do_write")
    BY <1>3 DEF WriteOk, Passes, Goto, gateVars, wireVars, Holds, Holding
  <2> QED
    BY <2>1, PassesKeepsGate
<1>4. CASE WriteFull(t)
  <2>1. Passes(t, "done")
    BY <1>4 DEF WriteFull, Passes, Goto, gateVars, wireVars, Holds, Holding
  <2> QED
    BY <2>1, PassesKeepsGate
<1>5. CASE Done(t)
  <2>1. Passes(t, "idle") \/ Passes(t, "arm") \/ Passes(t, "parse")
    BY <1>5 DEF Done, Passes, Goto, gateVars, wireVars, Holds, Holding
  <2> QED
    BY <2>1, PassesKeepsGate
<1> QED
  BY <1>1, <1>2, <1>3, <1>4, <1>5 DEF DeliverStep

LEMMA DoWriteStepKeepsGate ==
  ASSUME GateInv, NEW t \in Threads, DoWriteStep(t)
  PROVE  GateInv'
<1>1. CASE DoWrite(t)
  <2>1. CASE m_is_connected /\ m_send_cell_is_sending = 0
    <3>1. /\ pc' = [pc EXCEPT ![t] = "enabled"]
          /\ m_send_cell_is_sending' = 1
          /\ inflight' = inflight
      BY <1>1, <2>1 DEF DoWrite, Goto, wireVars
    <3>2. inflight = NULL /\ \A u \in Threads : ~Holds(u)
      BY <2>1 DEF GateInv
    <3>3. /\ DOMAIN pc' = Threads
          /\ \A u \in Threads : u # t => pc'[u] = pc[u]
      BY <3>1 DEF GateInv
    <3>4. \A u \in Threads : Holds(u)' => u = t
      BY <3>2, <3>3 DEF Holds
    <3> QED
      BY <3>1, <3>2, <3>3, <3>4 DEF GateInv
  <2>2. CASE ~(m_is_connected /\ m_send_cell_is_sending = 0)
    <3>1. Passes(t, "done")
      BY <1>1, <2>2 DEF DoWrite, Passes, Goto, wireVars, Holds, Holding
    <3> QED
      BY <3>1, PassesKeepsGate
  <2> QED
    BY <2>1, <2>2
<1>2. CASE AsyncWrite(t)
  <2>1. CASE enable_read
    <3>1. /\ pc' = [pc EXCEPT ![t] = "done"]
          /\ m_send_cell_is_sending' = m_send_cell_is_sending
      BY <1>2, <2>1 DEF AsyncWrite, Goto, gateVars
    <3>2. Holds(t) /\ "done" \notin Holding
      BY <1>2 DEF AsyncWrite, Holds, Holding
    <3> QED
      BY <3>1, <3>2, LeavingKeepsGate
  <2>2. CASE ~enable_read
    <3>1. Passes(t, "release")
      BY <1>2, <2>2 DEF AsyncWrite, Passes, Goto, gateVars, Holds, Holding
    <3> QED
      BY <3>1, PassesKeepsGate
  <2> QED
    BY <2>1, <2>2
<1>3. CASE Release(t)
  <2>1. pc' = [pc EXCEPT ![t] = "expire"] /\ inflight' = inflight
    BY <1>3 DEF Release, Goto, wireVars
  <2>2. Holds(t) /\ "expire" \notin Holding
    BY <1>3 DEF Release, Holds, Holding
  <2>3. inflight' = NULL
    BY <2>1, <2>2 DEF GateInv
  <2> QED
    BY <2>1, <2>2, <2>3, LeavingKeepsGate
<1>4. CASE Expire(t)
  <2>1. Passes(t, "wait")
    BY <1>4 DEF Expire, Passes, Goto, gateVars, wireVars, Holds, Holding
  <2> QED
    BY <2>1, PassesKeepsGate
<1>5. CASE AsyncWait(t)
  <2>1. Passes(t, "done")
    BY <1>5 DEF AsyncWait, Passes, Goto, gateVars, wireVars, Holds, Holding
  <2> QED
    BY <2>1, PassesKeepsGate
<1> QED
  BY <1>1, <1>2, <1>3, <1>4, <1>5 DEF DoWriteStep

LEMMA StepKeepsGate ==
  ASSUME GateInv, NEW t \in Threads, Step(t)
  PROVE  GateInv'
<1>1. CASE DeliverStep(t)
  BY <1>1, DeliverStepKeepsGate
<1>2. CASE DoWriteStep(t)
  BY <1>2, DoWriteStepKeepsGate
<1>3. CASE ArmHandle(t)
  <2>1. Passes(t, "read") \/ Passes(t, "idle")
    BY <1>3 DEF ArmHandle, Passes, Goto, gateVars, wireVars, Holds, Holding
  <2> QED
    BY <2>1, PassesKeepsGate
<1>4. CASE DoRead(t)
  <2>1. Passes(t, "idle")
    BY <1>4 DEF DoRead, Passes, Goto, gateVars, wireVars, Holds, Holding
  <2> QED
    BY <2>1, PassesKeepsGate
<1>5. CASE FreeCell
  BY <1>5, QuietKeepsGate DEF FreeCell, gateVars, wireVars, Quiet
<1>6. CASE Written
  <2>1. pc' = [pc EXCEPT ![Manager] = "do_write"] /\ inflight' = inflight
    BY <1>6 DEF Written, Goto, wireVars
  <2>2. Holds(Manager) /\ "do_write" \notin Holding
    BY <1>6 DEF Written, Holds, Holding
  <2>3. inflight' = NULL
    BY <2>1, <2>2, ManagerIsThread DEF GateInv
  <2> QED
    BY <2>1, <2>2, <2>3, ManagerIsThread, LeavingKeepsGate
<1>7. CASE Closing
  <2>1. Passes(Manager, "idle")
    BY <1>7 DEF Closing, Passes, Goto, gateVars, wireVars, Holds, Holding
  <2> QED
    BY <2>1, ManagerIsThread, PassesKeepsGate
<1>8. CASE ParseReply \/ ParseHeartBeat \/ ParseEnd
  <2>1. Passes(Manager, "deliver") \/ Passes(Manager, "read")
    BY <1>8 DEF ParseReply, ParseHeartBeat, ParseEnd, Call, Passes, Goto,
                gateVars, wireVars, Holds, Holding
  <2> QED
    BY <2>1, ManagerIsThread, PassesKeepsGate
<1>9. CASE ParseOwnHeartBeat
  BY <1>9, QuietKeepsGate DEF ParseOwnHeartBeat, gateVars, wireVars, Quiet
<1> QED
  BY <1>1, <1>2, <1>3, <1>4, <1>5, <1>6, <1>7, <1>8, <1>9 DEF Step

\* The handlers that end a write: nobody else holds the gate meanwhile.
LEMMA WriteDoneKeepsGate ==
  ASSUME GateInv, HandleWriteDone
  PROVE  GateInv'
<1>1. inflight # NULL /\ pc[Manager] = "idle" /\ inflight' = NULL
  BY DEF HandleWriteDone, HandleWrite, HandleWriteError, Handling
<1>2. \A u \in Threads : ~Holds(u)
  BY <1>1 DEF GateInv
<1>3. m_send_cell_is_sending' = m_send_cell_is_sending /\ m_send_cell_is_sending = 1
  BY <1>1 DEF HandleWriteDone, HandleWrite, HandleWriteError, gateVars, GateInv
<1>4. CASE \E k \in 1 .. inflight.left : HandleWrite(k)
  <2>1. pc' = [pc EXCEPT ![Manager] = "written"]
    BY <1>4 DEF HandleWrite, Goto
  <2>2. /\ DOMAIN pc' = Threads
        /\ \A u \in Threads : u # Manager => pc'[u] = pc[u]
    BY <2>1 DEF GateInv
  <2>3. \A u \in Threads : Holds(u)' => u = Manager
    BY <1>2, <2>2 DEF Holds
  <2> QED
    BY <1>1, <1>3, <2>2, <2>3 DEF GateInv
<1>5. CASE HandleWriteError
  <2>1. pc' = pc
    BY <1>5 DEF HandleWriteError
  <2> QED
    BY <1>1, <1>2, <2>1 DEF GateInv, Holds
<1> QED
  BY <1>4, <1>5 DEF HandleWriteDone

LEMMA GateInvStep == GateInv /\ [PathNext]_pathVars => GateInv'
<1> SUFFICES ASSUME GateInv, [PathNext]_pathVars
             PROVE  GateInv'
  OBVIOUS
<1>1. CASE \E t \in Apps : Send(t)
  <2>1. PICK t \in Apps : Send(t)
    BY <1>1
  <2>2. t \in Threads
    BY DEF Threads
  <2>3. Passes(t, "deliver")
    BY <2>1 DEF Send, Call, Passes, Goto, gateVars, wireVars, Holds, Holding
  <2> QED
    BY <2>2, <2>3, PassesKeepsGate
<1>2. CASE \E t \in Threads : Step(t)
  BY <1>2, StepKeepsGate
<1>3. CASE HandleWriteDone
  BY <1>3, WriteDoneKeepsGate
<1>4. CASE HeartBeatSend \/ HandleRead \/ HandleClose
  <2>1. \/ Passes(Manager, "deliver") \/ Passes(Manager, "parse")
        \/ Passes(Manager, "closing") \/ Passes(Manager, "idle")
    BY <1>4 DEF HeartBeatSend, HandleRead, HandleClose, Handling, Call, Passes,
                Goto, gateVars, wireVars, Holds, Holding
  <2> QED
    BY <2>1, ManagerIsThread, PassesKeepsGate
<1>5. CASE \/ HeartBeatHandle \/ HandleReadError \/ Stop
           \/ SendTimerFires \/ HandleTimerFires
  <2>1. Quiet
    BY <1>5 DEF HeartBeatHandle, HandleReadError, Stop, SendTimerFires,
                HandleTimerFires, gateVars, wireVars, Quiet
  <2> QED
    BY <2>1, QuietKeepsGate
<1>6. CASE UNCHANGED pathVars
  <2>1. Quiet
    BY <1>6 DEF pathVars, gateVars, wireVars, Quiet
  <2> QED
    BY <2>1, QuietKeepsGate
<1> QED
  BY <1>1, <1>2, <1>3, <1>4, <1>5, <1>6 DEF PathNext

\* The gate gives send_cell its single reader and the socket one write at a
\* time, with any number of sending threads and whether or not their writes
\* overrun the ring: do_write's compare_exchange, handle_write's store and the
\* store of do_write's other branch (session.cpp, client.cpp).
THEOREM SingleReaderCorrect == PathSpec => []SingleReader
<1>1. GateInv => SingleReader
  BY DEF GateInv, SingleReader, Reads, Holds, Holding
<1> QED
  BY <1>1, GateInvInit, GateInvStep, PTL DEF PathSpec
=============================================================================
