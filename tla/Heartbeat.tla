------------------------------ MODULE Heartbeat ------------------------------
(***************************************************************************)
(* The heartbeats of a connection, both ends together: session on the      *)
(* server (session.cpp), client on the other side (client.cpp), the bytes  *)
(* between them, and time.                                                 *)
(*                                                                         *)
(* Whenever its cache has emptied an end waits heartBeatTime in            *)
(* m_heartbeat_send and then sends a heartbeat of its type and waits in    *)
(* m_heartbeat_handle; whatever it reads cancels that wait; its own        *)
(* heartbeats come back as they were sent.  SendPath has the interleavings *)
(* inside one end; here handlers take no time and each is one step.        *)
(*                                                                         *)
(* The network is external: it delivers within Delay ticks, in order,      *)
(* until it is cut; then bytes may still arrive or not, and a write may    *)
(* still end (the kernel buffers it) or not.  Both ends close only after   *)
(* that (NoFalseTimeout), so the end of a stream is not seen by the peer.  *)
(***************************************************************************)
EXTENDS Integers, Sequences, FiniteSets

CONSTANTS
  heartBeatTime,   \* in ticks
  Delay,           \* how long bytes travel at most
  MaxData          \* messages the application of each end sends (bound)

ASSUME TimeAssumption ==
  /\ heartBeatTime \in Nat /\ Delay \in Nat /\ MaxData \in Nat
  /\ 2 * Delay < heartBeatTime

Ends == {"server", "client"}
Peer(e) == IF e = "server" THEN "client" ELSE "server"

\* heartbeat_server, heartbeat_client and otherpackage.
Types == Ends \cup {"other"}

Off == -1

VARIABLES
  open,       \* m_is_connected of each end
  sendWait,   \* ticks until m_heartbeat_send expires, or Off
  handleWait, \* ... m_heartbeat_handle
  fired,      \* handlers of expired waits that are queued
  channel,    \* what travels to each end: type and age
  stuck,      \* a write that the network does not take any more
  quiet,      \* ticks since the end last heard its peer or wrote for its application
  data,       \* messages each application has sent
  cut         \* the network has failed

beatVars == << open, sendWait, handleWait, fired, channel, stuck, quiet, data, cut >>

Packet(t) == [type |-> t, age |-> 0]

\* session::start and client::start.
BeatInit ==
  /\ open = [e \in Ends |-> TRUE]
  /\ sendWait = [e \in Ends |-> heartBeatTime]
  /\ handleWait = [e \in Ends |-> heartBeatTime]
  /\ fired = [e \in Ends |-> {}]
  /\ channel = [e \in Ends |-> << Packet(Peer(e)) >>]
  /\ stuck = [e \in Ends |-> FALSE]
  /\ quiet = [e \in Ends |-> 0]
  /\ data = [e \in Ends |-> 0]
  /\ cut = FALSE

\* deliver with its do_write, and the do_write at the end of the write, which finds the
\* cache empty.  ch are the channels and b the end's quiet time after the write.
Deliver(e, t, ch, b) ==
  \/ /\ ~stuck[e]
     /\ channel' = IF cut THEN ch ELSE [ch EXCEPT ![Peer(e)] = Append(@, Packet(t))]
     /\ sendWait' = [sendWait EXCEPT ![e] = heartBeatTime]
     /\ quiet' = [quiet EXCEPT ![e] = b]
     /\ UNCHANGED stuck
  \/ /\ cut
     /\ stuck' = [stuck EXCEPT ![e] = TRUE]
     /\ channel' = ch
     /\ quiet' = [quiet EXCEPT ![e] = IF ch = channel THEN @ ELSE b]
     /\ UNCHANGED sendWait

SendData(e) ==
  /\ open[e]
  /\ data[e] < MaxData
  /\ data' = [data EXCEPT ![e] = @ + 1]
  /\ Deliver(e, "other", channel, 0)
  /\ UNCHANGED << open, handleWait, fired, cut >>

\* Fault: the end does not wait for the answer.
HeartBeatSendOnly(e) ==
  /\ open[e] /\ "send" \in fired[e]
  /\ fired' = [fired EXCEPT ![e] = @ \ {"send"}]
  /\ Deliver(e, e, channel, quiet[e])
  /\ UNCHANGED << open, handleWait, data, cut >>

HeartBeatSend(e) ==
  /\ open[e] /\ "send" \in fired[e]
  /\ fired' = [fired EXCEPT ![e] = @ \ {"send"}]
  /\ Deliver(e, e, channel, quiet[e])
  /\ handleWait' = [handleWait EXCEPT ![e] = heartBeatTime]
  /\ UNCHANGED << open, data, cut >>

\* heart_beat_handle and the handle_close it posts.
HeartBeatHandle(e) ==
  /\ open[e] /\ "handle" \in fired[e]
  /\ open' = [open EXCEPT ![e] = FALSE]
  /\ sendWait' = [sendWait EXCEPT ![e] = Off]
  /\ handleWait' = [handleWait EXCEPT ![e] = Off]
  /\ fired' = [fired EXCEPT ![e] = {}]
  /\ channel' = [channel EXCEPT ![e] = << >>]
  /\ UNCHANGED << stuck, quiet, data, cut >>

\* Fault: a heartbeat is answered whoever sent it first.
EchoesAll(e, t) == t \in Ends

\* session::handle_read answers heartbeat_client; client::handle_read answers what has
\* size 0 and is not heartbeat_client.
Echoes(e, t) == IF e = "server" THEN t = "client" ELSE t \in Ends \ {"client"}

\* Fault: only the peer's heartbeat cancels the wait, not the own one that comes back.
CancelsLazy(e) == IF Head(channel[e]).type = Peer(e) THEN Off ELSE handleWait[e]

\* cancel, for whatever is read; it does not reach a wait that has expired.
Cancels(e) == Off

HandleBytes(e) ==
  /\ open[e] /\ channel[e] # << >>
  /\ LET t == Head(channel[e]).type
         ch == [channel EXCEPT ![e] = Tail(@)]
     IN  \/ Echoes(e, t) /\ Deliver(e, t, ch, 0)
         \/ /\ ~Echoes(e, t)
            /\ channel' = ch
            /\ quiet' = [quiet EXCEPT ![e] = 0]
            /\ UNCHANGED << sendWait, stuck >>
  /\ handleWait' = [handleWait EXCEPT ![e] = Cancels(e)]
  /\ UNCHANGED << open, fired, data, cut >>

-----------------------------------------------------------------------------
(* Time and the network, external.                                         *)

Cut ==
  /\ ~cut
  /\ cut' = TRUE
  /\ UNCHANGED << open, sendWait, handleWait, fired, channel, stuck, quiet, data >>

Lose(e) ==
  /\ cut /\ channel[e] # << >>
  /\ channel' = [channel EXCEPT ![e] = << >>]
  /\ UNCHANGED << open, sendWait, handleWait, fired, stuck, quiet, data, cut >>

Run(wait) == IF wait = Off THEN Off ELSE wait - 1

\* Handlers run before time goes on, and bytes are not later than Delay.
Tick ==
  /\ \A e \in Ends : fired[e] = {} /\ \A i \in DOMAIN channel[e] : channel[e][i].age < Delay
  /\ LET left == [e \in Ends |-> << Run(sendWait[e]), Run(handleWait[e]) >>]
     IN  /\ sendWait' = [e \in Ends |-> IF left[e][1] = 0 THEN Off ELSE left[e][1]]
         /\ handleWait' = [e \in Ends |-> IF left[e][2] = 0 THEN Off ELSE left[e][2]]
         /\ fired' = [e \in Ends |-> (IF left[e][1] = 0 THEN {"send"} ELSE {})
                                \cup (IF left[e][2] = 0 THEN {"handle"} ELSE {})]
  /\ channel' = [e \in Ends |-> [i \in DOMAIN channel[e] |-> [channel[e][i] EXCEPT !.age = @ + 1]]]
  /\ quiet' = [e \in Ends |-> IF quiet[e] > 2 * heartBeatTime THEN quiet[e] ELSE quiet[e] + 1]
  /\ UNCHANGED << open, stuck, data, cut >>

BeatNext ==
  \/ \E e \in Ends : \/ SendData(e) \/ HeartBeatSend(e) \/ HeartBeatHandle(e)
                     \/ HandleBytes(e) \/ Lose(e)
  \/ Cut
  \/ Tick

BeatSpec == BeatInit /\ [][BeatNext]_beatVars

-----------------------------------------------------------------------------

\* The type invariant: waits are off or within heartBeatTime, and no byte is later than
\* the network allows.
BeatTypeOK ==
  /\ open \in [Ends -> BOOLEAN] /\ stuck \in [Ends -> BOOLEAN] /\ cut \in BOOLEAN
  /\ sendWait \in [Ends -> {Off} \cup 1 .. heartBeatTime]
  /\ handleWait \in [Ends -> {Off} \cup 1 .. heartBeatTime]
  /\ fired \in [Ends -> SUBSET {"send", "handle"}]
  /\ channel \in [Ends -> Seq([type : Types, age : 0 .. Delay])]
  /\ quiet \in [Ends -> Nat]
  /\ data \in [Ends -> 0 .. MaxData]

\* While the network answers within heartBeatTime nobody closes: each end's wait is
\* cancelled in time by its own heartbeat coming back, whatever else is sent, although
\* cancel comes too late for a wait that has expired.
NoFalseTimeout == ~cut => \A e \in Ends : open[e]

\* An end whose peer has fallen silent closes within two heartBeatTimes of the last byte
\* it read or wrote for its application, unless its own writes have got stuck.
DetectsSilence ==
  \A e \in Ends : open[e] /\ ~stuck[e] => quiet[e] <= 2 * heartBeatTime

Outbound(e) == {i \in DOMAIN channel[Peer(e)] : channel[Peer(e)][i].type = e}

\* Heartbeats do not bounce: a heartbeat of its own type leaves an end only when
\* m_heartbeat_send has expired, never as the answer to one that has come back.
NoEchoStorm ==
  [][\A e \in Ends : Cardinality(Outbound(e)') > Cardinality(Outbound(e))
                     => "send" \in fired[e]]_beatVars
=============================================================================
