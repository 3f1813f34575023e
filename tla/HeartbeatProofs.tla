--------------------------- MODULE HeartbeatProofs ---------------------------
(***************************************************************************)
(* What is proved of Heartbeat.tla for every heartBeatTime and Delay with  *)
(* 2 * Delay < heartBeatTime, and however much the applications send: its  *)
(* types, that nobody closes before the network is cut, and that silence   *)
(* is noticed.                                                             *)
(***************************************************************************)
EXTENDS Heartbeat, SequenceTheorems, FiniteSetTheorems, TLAPS

\* A heartbeat of e that is on its way to the peer, sent no longer ago than e waits.
Outward(e) ==
  \E i \in DOMAIN channel[Peer(e)] :
    /\ channel[Peer(e)][i].type = e
    /\ handleWait[e] >= heartBeatTime - channel[Peer(e)][i].age

\* One that is on its way back.
Homeward(e) ==
  \E i \in DOMAIN channel[e] :
    /\ channel[e][i].type = e
    /\ handleWait[e] >= heartBeatTime - Delay - channel[e][i].age

\* Before the cut an end that waits has an answer on its way that is in time.
Answered ==
  ~cut => \A e \in Ends :
    /\ open[e] /\ ~stuck[e]
    /\ "handle" \notin fired[e]
    /\ handleWait[e] # Off => Outward(e) \/ Homeward(e)

\* The two timers of an end whose writes go through: m_heartbeat_send waits or has
\* expired; m_heartbeat_handle never outlasts it, for they are set together.
Timers(e) ==
  /\ sendWait[e] # Off \/ "send" \in fired[e]
  /\ handleWait[e] # Off => sendWait[e] >= handleWait[e] /\ "send" \notin fired[e]

\* Which of them will notice silence, and when.
Watched(e) ==
  \/ sendWait[e] # Off /\ quiet[e] + sendWait[e] <= heartBeatTime
  \/ "send" \in fired[e] /\ quiet[e] <= heartBeatTime
  \/ handleWait[e] # Off /\ quiet[e] + handleWait[e] <= 2 * heartBeatTime
  \/ "handle" \in fired[e] /\ quiet[e] <= 2 * heartBeatTime

Watchful == \A e \in Ends : open[e] /\ ~stuck[e] => Timers(e) /\ Watched(e)

-----------------------------------------------------------------------------
(* Lemmas about ends and sequences.                                        *)

Sent == [type : Types, age : 0 .. Delay]
Waits == {Off} \cup 1 .. heartBeatTime

\* The peer is the other end.
LEMMA PeerFacts ==
  ASSUME NEW e \in Ends
  PROVE  /\ Peer(e) \in Ends /\ Peer(e) # e /\ Peer(Peer(e)) = e
         /\ e \in Types
         /\ \A f \in Ends : f = e \/ f = Peer(e)
BY DEF Ends, Peer, Types

\* The answer goes back to the end that sent the heartbeat first, and to no other.
LEMMA EchoFacts ==
  ASSUME NEW e \in Ends, NEW t \in Types
  PROVE  /\ Echoes(e, t) <=> t = Peer(e)
BY DEF Ends, Peer, Types, Echoes

LEMMA PacketFacts ==
  ASSUME NEW t \in Types
  PROVE  Packet(t) \in Sent /\ Packet(t).type = t /\ Packet(t).age = 0
BY TimeAssumption DEF Packet, Sent

-----------------------------------------------------------------------------
(* Types.                                                                  *)

LEMMA BeatTypeInit == BeatInit => BeatTypeOK
<1> SUFFICES ASSUME BeatInit PROVE BeatTypeOK
  OBVIOUS
<1>1. ASSUME NEW e \in Ends
      PROVE  << Packet(Peer(e)) >> \in Seq(Sent)
  BY PeerFacts, PacketFacts
<1>2. channel \in [Ends -> Seq(Sent)]
  BY <1>1 DEF BeatInit
<1>3. heartBeatTime \in 1 .. heartBeatTime /\ 0 \in Nat /\ 0 \in 0 .. MaxData
  BY TimeAssumption
<1>4. /\ sendWait \in [Ends -> {Off} \cup 1 .. heartBeatTime]
      /\ handleWait \in [Ends -> {Off} \cup 1 .. heartBeatTime]
      /\ quiet \in [Ends -> Nat] /\ data \in [Ends -> 0 .. MaxData]
  BY <1>3 DEF BeatInit
<1>5. /\ open \in [Ends -> BOOLEAN] /\ stuck \in [Ends -> BOOLEAN] /\ cut \in BOOLEAN
      /\ fired \in [Ends -> SUBSET {"send", "handle"}]
  BY DEF BeatInit
<1> QED
  BY <1>2, <1>4, <1>5 DEF BeatTypeOK, Sent

\* What deliver changes keeps its type.
LEMMA DeliverType ==
  ASSUME BeatTypeOK, NEW e \in Ends, NEW t \in Types,
         NEW ch \in [Ends -> Seq(Sent)], NEW b \in Nat, Deliver(e, t, ch, b)
  PROVE  /\ channel' \in [Ends -> Seq(Sent)]
         /\ sendWait' \in [Ends -> Waits]
         /\ stuck' \in [Ends -> BOOLEAN]
         /\ quiet' \in [Ends -> Nat]
<1> DEFINE p == Peer(e)
<1>1. p \in Ends /\ ch[p] \in Seq(Sent) /\ Packet(t) \in Sent
  BY PeerFacts, PacketFacts
<1>2. Append(ch[p], Packet(t)) \in Seq(Sent)
  BY <1>1, AppendProperties
<1>3. [ch EXCEPT ![p] = Append(@, Packet(t))] \in [Ends -> Seq(Sent)]
  BY <1>1, <1>2
<1>4. channel' \in [Ends -> Seq(Sent)]
  BY <1>3 DEF Deliver
<1>5. sendWait' \in [Ends -> Waits]
  <2>1. heartBeatTime \in Waits
    BY TimeAssumption DEF Waits
  <2>2. sendWait \in [Ends -> Waits]
    BY DEF BeatTypeOK, Waits
  <2> QED
    BY <2>1, <2>2 DEF Deliver
<1>6. stuck' \in [Ends -> BOOLEAN] /\ quiet' \in [Ends -> Nat]
  BY DEF Deliver, BeatTypeOK
<1> QED
  BY <1>4, <1>5, <1>6

\* The channels without the package that is read.
LEMMA ReadType ==
  ASSUME BeatTypeOK, NEW e \in Ends, channel[e] # << >>
  PROVE  /\ [channel EXCEPT ![e] = Tail(@)] \in [Ends -> Seq(Sent)]
         /\ Head(channel[e]) \in Sent /\ Head(channel[e]).type \in Types
<1>1. channel \in [Ends -> Seq(Sent)]
  BY DEF BeatTypeOK, Sent
<1>2. Tail(channel[e]) \in Seq(Sent) /\ Head(channel[e]) \in Sent
  BY <1>1, HeadTailProperties
<1> QED
  BY <1>1, <1>2 DEF Sent

\* What a tick does to one end.
LEMMA TickFacts ==
  ASSUME BeatTypeOK, Tick, NEW e \in Ends
  PROVE  /\ fired[e] = {}
         /\ sendWait'[e] = (IF sendWait[e] \in {Off, 1} THEN Off ELSE sendWait[e] - 1)
         /\ handleWait'[e] = (IF handleWait[e] \in {Off, 1} THEN Off ELSE handleWait[e] - 1)
         /\ "send" \in fired'[e] <=> sendWait[e] = 1
         /\ "handle" \in fired'[e] <=> handleWait[e] = 1
         /\ DOMAIN channel'[e] = DOMAIN channel[e]
         /\ \A i \in DOMAIN channel[e] :
              /\ channel[e][i] \in Sent /\ channel[e][i].age < Delay
              /\ channel'[e][i].type = channel[e][i].type
              /\ channel'[e][i].age = channel[e][i].age + 1
         /\ quiet'[e] = (IF quiet[e] > 2 * heartBeatTime THEN quiet[e] ELSE quiet[e] + 1)
<1>1. sendWait[e] \in Waits /\ handleWait[e] \in Waits /\ channel[e] \in Seq(Sent)
  BY DEF BeatTypeOK, Waits, Sent
<1>2. Run(sendWait[e]) = (IF sendWait[e] = Off THEN Off ELSE sendWait[e] - 1)
      /\ Run(handleWait[e]) = (IF handleWait[e] = Off THEN Off ELSE handleWait[e] - 1)
  BY DEF Run
<1>3. Off = -1
  BY DEF Off
<1>4. fired[e] = {} /\ \A i \in DOMAIN channel[e] : channel[e][i].age < Delay
  BY DEF Tick
<1>5. sendWait'[e] = (IF Run(sendWait[e]) = 0 THEN Off ELSE Run(sendWait[e]))
      /\ handleWait'[e] = (IF Run(handleWait[e]) = 0 THEN Off ELSE Run(handleWait[e]))
  BY DEF Tick
<1>6. fired'[e] = (IF Run(sendWait[e]) = 0 THEN {"send"} ELSE {})
                    \cup (IF Run(handleWait[e]) = 0 THEN {"handle"} ELSE {})
  BY DEF Tick
<1>7. (Run(sendWait[e]) = 0 <=> sendWait[e] = 1) /\ (Run(handleWait[e]) = 0 <=> handleWait[e] = 1)
  BY <1>1, <1>2, <1>3, TimeAssumption DEF Waits
<1>8. channel'[e] = [i \in DOMAIN channel[e] |-> [channel[e][i] EXCEPT !.age = @ + 1]]
  BY DEF Tick
<1>9. \A i \in DOMAIN channel[e] : channel[e][i] \in Sent
  BY <1>1
<1>10. \A i \in DOMAIN channel[e] :
         /\ channel'[e][i].type = channel[e][i].type
         /\ channel'[e][i].age = channel[e][i].age + 1
  BY <1>8, <1>9 DEF Sent
<1>11. quiet'[e] = (IF quiet[e] > 2 * heartBeatTime THEN quiet[e] ELSE quiet[e] + 1)
  BY DEF Tick
<1>12. sendWait'[e] = (IF sendWait[e] \in {Off, 1} THEN Off ELSE sendWait[e] - 1)
  BY <1>1, <1>2, <1>3, <1>5, <1>7 DEF Waits
<1>13. handleWait'[e] = (IF handleWait[e] \in {Off, 1} THEN Off ELSE handleWait[e] - 1)
  BY <1>1, <1>2, <1>3, <1>5, <1>7 DEF Waits
<1>14. ("send" \in fired'[e] <=> sendWait[e] = 1) /\ ("handle" \in fired'[e] <=> handleWait[e] = 1)
  BY <1>6, <1>7
<1>15. DOMAIN channel'[e] = DOMAIN channel[e]
  BY <1>8
<1> QED
  BY <1>4, <1>9, <1>10, <1>11, <1>12, <1>13, <1>14, <1>15

LEMMA BeatTypeStep == BeatTypeOK /\ [BeatNext]_beatVars => BeatTypeOK'
<1> SUFFICES ASSUME BeatTypeOK, [BeatNext]_beatVars PROVE BeatTypeOK'
  OBVIOUS
<1> DEFINE Rest == /\ open' \in [Ends -> BOOLEAN] /\ cut' \in BOOLEAN
                   /\ handleWait' \in [Ends -> Waits]
                   /\ fired' \in [Ends -> SUBSET {"send", "handle"}]
                   /\ data' \in [Ends -> 0 .. MaxData]
           Moved == /\ channel' \in [Ends -> Seq(Sent)]
                    /\ sendWait' \in [Ends -> Waits]
                    /\ stuck' \in [Ends -> BOOLEAN]
                    /\ quiet' \in [Ends -> Nat]
<1>0. SUFFICES Rest /\ Moved
  BY DEF BeatTypeOK, Waits, Sent
<1>a. channel \in [Ends -> Seq(Sent)]
  BY DEF BeatTypeOK, Sent
<1>1. ASSUME NEW e \in Ends, SendData(e) PROVE Rest /\ Moved
  <2>1. "other" \in Types
    BY DEF Types
  <2>2. Deliver(e, "other", channel, 0)
    BY <1>1 DEF SendData
  <2>3. Moved
    BY <2>1, <2>2, <1>a, DeliverType
  <2>4. data[e] \in 0 .. MaxData /\ data[e] < MaxData
    BY <1>1 DEF SendData, BeatTypeOK
  <2>5. data' \in [Ends -> 0 .. MaxData]
    BY <1>1, <2>4, TimeAssumption DEF SendData, BeatTypeOK
  <2>6. Rest
    BY <1>1, <2>5 DEF SendData, BeatTypeOK, Waits
  <2> QED
    BY <2>3, <2>6
<1>2. ASSUME NEW e \in Ends, HeartBeatSend(e) PROVE Rest /\ Moved
  <2>1. e \in Types /\ quiet[e] \in Nat
    BY PeerFacts DEF BeatTypeOK
  <2>2. Deliver(e, e, channel, quiet[e])
    BY <1>2 DEF HeartBeatSend
  <2>3. Moved
    BY <2>1, <2>2, <1>a, DeliverType
  <2>4. Rest
    BY <1>2, TimeAssumption DEF HeartBeatSend, BeatTypeOK, Waits
  <2> QED
    BY <2>3, <2>4
<1>3. ASSUME NEW e \in Ends, HeartBeatHandle(e) PROVE Rest /\ Moved
  <2>1. << >> \in Seq(Sent)
    OBVIOUS
  <2> QED
    BY <1>3, <1>a, <2>1 DEF HeartBeatHandle, BeatTypeOK, Waits
<1>4. ASSUME NEW e \in Ends, HandleBytes(e) PROVE Rest /\ Moved
  <2> DEFINE t == Head(channel[e]).type
             ch == [channel EXCEPT ![e] = Tail(@)]
  <2>1. ch \in [Ends -> Seq(Sent)] /\ t \in Types
    BY <1>4, ReadType DEF HandleBytes
  <2>2. ASSUME Deliver(e, t, ch, 0) PROVE Moved
    <3> HIDE DEF t, ch
    <3> QED
      BY <2>1, <2>2, DeliverType
  <2>3. ASSUME channel' = ch, quiet' = [quiet EXCEPT ![e] = 0], UNCHANGED << sendWait, stuck >>
        PROVE  Moved
    BY <2>1, <2>3 DEF BeatTypeOK, Waits
  <2>4. Moved
    BY <1>4, <2>2, <2>3 DEF HandleBytes
  <2>5. Rest
    BY <1>4 DEF HandleBytes, Cancels, BeatTypeOK, Waits
  <2> QED
    BY <2>4, <2>5
<1>5. ASSUME NEW e \in Ends, Lose(e) PROVE Rest /\ Moved
  <2>1. << >> \in Seq(Sent)
    OBVIOUS
  <2>2. channel' \in [Ends -> Seq(Sent)]
    BY <1>5, <1>a, <2>1 DEF Lose
  <2> QED
    BY <1>5, <2>2 DEF Lose, BeatTypeOK, Waits
<1>6. CASE Cut
  <2>1. UNCHANGED << open, sendWait, handleWait, fired, channel, stuck, quiet, data >> /\ cut'
    BY <1>6 DEF Cut
  <2>2. Rest
    BY <2>1 DEF BeatTypeOK, Waits
  <2>3. Moved
    BY <2>1, <1>a DEF BeatTypeOK, Waits
  <2> QED
    BY <2>2, <2>3
<1>7. CASE Tick
  <2>1. ASSUME NEW e \in Ends
        PROVE  /\ sendWait'[e] \in Waits /\ handleWait'[e] \in Waits
               /\ quiet'[e] \in Nat
    <3>1. sendWait[e] \in Waits /\ handleWait[e] \in Waits /\ quiet[e] \in Nat
      BY DEF BeatTypeOK, Waits
    <3>2. /\ sendWait'[e] = (IF sendWait[e] \in {Off, 1} THEN Off ELSE sendWait[e] - 1)
          /\ handleWait'[e] = (IF handleWait[e] \in {Off, 1} THEN Off ELSE handleWait[e] - 1)
          /\ quiet'[e] = (IF quiet[e] > 2 * heartBeatTime THEN quiet[e] ELSE quiet[e] + 1)
      BY <1>7, TickFacts
    <3> QED
      BY <3>1, <3>2, TimeAssumption DEF Waits
  <2>2. ASSUME NEW e \in Ends PROVE channel'[e] \in Seq(Sent)
    <3>1. channel[e] \in Seq(Sent)
      BY <1>a
    <3>2. channel'[e] = [i \in 1 .. Len(channel[e]) |-> [channel[e][i] EXCEPT !.age = @ + 1]]
      BY <1>7, <3>1 DEF Tick
    <3>3. ASSUME NEW i \in 1 .. Len(channel[e])
          PROVE  [channel[e][i] EXCEPT !.age = @ + 1] \in Sent
      <4>1. channel[e][i] \in Sent /\ channel[e][i].age < Delay
        BY <1>7, <3>1, TickFacts
      <4> QED
        BY <4>1, TimeAssumption DEF Sent
    <3>4. Len(channel[e]) \in Nat
      BY <3>1
    <3> QED
      BY <3>2, <3>3, <3>4
  <2>3. fired' \in [Ends -> SUBSET {"send", "handle"}]
    BY <1>7 DEF Tick
  <2>4. /\ DOMAIN sendWait' = Ends /\ DOMAIN handleWait' = Ends /\ DOMAIN quiet' = Ends
        /\ sendWait' = [e \in Ends |-> sendWait'[e]] /\ handleWait' = [e \in Ends |-> handleWait'[e]]
        /\ quiet' = [e \in Ends |-> quiet'[e]] /\ channel' = [e \in Ends |-> channel'[e]]
    BY <1>7 DEF Tick
  <2>5. /\ sendWait' \in [Ends -> Waits] /\ handleWait' \in [Ends -> Waits]
        /\ quiet' \in [Ends -> Nat] /\ channel' \in [Ends -> Seq(Sent)]
    BY <2>1, <2>2, <2>4
  <2>6. UNCHANGED << open, stuck, data, cut >>
    BY <1>7 DEF Tick
  <2> QED
    BY <2>3, <2>5, <2>6 DEF BeatTypeOK
<1>8. CASE UNCHANGED beatVars
  BY <1>8, <1>a DEF beatVars, BeatTypeOK, Waits
<1> QED
  BY <1>1, <1>2, <1>3, <1>4, <1>5, <1>6, <1>7, <1>8 DEF BeatNext

\* The type invariant of the heartbeats, for all times.
THEOREM BeatTypeCorrect == BeatSpec => []BeatTypeOK
<1> QED
  BY BeatTypeInit, BeatTypeStep, PTL DEF BeatSpec

-----------------------------------------------------------------------------
(* Before the cut every heartbeat is answered in time.                     *)

LEMMA AnsweredInit == BeatInit => Answered
<1> SUFFICES ASSUME BeatInit, NEW e \in Ends
             PROVE  /\ open[e] /\ ~stuck[e]
                    /\ "handle" \notin fired[e]
                    /\ Outward(e)
  BY DEF Answered
<1>1. open[e] /\ ~stuck[e] /\ "handle" \notin fired[e] /\ handleWait[e] = heartBeatTime
  BY DEF BeatInit
<1>2. channel[Peer(e)] = << Packet(e) >>
  BY PeerFacts DEF BeatInit
<1>3. 1 \in DOMAIN channel[Peer(e)] /\ channel[Peer(e)][1] = Packet(e)
  BY <1>2
<1>4. Packet(e).type = e /\ Packet(e).age = 0
  BY PeerFacts, PacketFacts
<1> QED
  BY <1>1, <1>3, <1>4, TimeAssumption DEF Outward

\* A package appended keeps what is on its way.
LEMMA AppendKeeps ==
  ASSUME NEW s \in Seq(Sent), NEW p \in Sent, NEW i \in DOMAIN s
  PROVE  i \in DOMAIN Append(s, p) /\ Append(s, p)[i] = s[i]
BY AppendProperties

\* One that is read off leaves the others.
LEMMA TailKeeps ==
  ASSUME NEW s \in Seq(Sent), NEW i \in DOMAIN s, i # 1
  PROVE  i - 1 \in DOMAIN Tail(s) /\ Tail(s)[i - 1] = s[i]
<1>1. s # << >> /\ Len(s) \in Nat /\ i \in 1 .. Len(s)
  OBVIOUS
<1>2. Len(Tail(s)) = Len(s) - 1 /\ Tail(s) \in Seq(Sent)
  BY <1>1, HeadTailProperties
<1>3. i - 1 \in 1 .. Len(Tail(s))
  BY <1>1, <1>2
<1>4. Tail(s)[i - 1] = s[i]
  BY <1>1, <1>3
<1> QED
  BY <1>2, <1>3, <1>4

\* A write adds to what is on its way and takes nothing from it.
LEMMA WriteKeeps ==
  ASSUME BeatTypeOK, Answered, ~cut, NEW e \in Ends, NEW t \in Types, NEW b \in Nat,
         Deliver(e, t, channel, b), NEW f \in Ends,
         handleWait'[f] = handleWait[f], handleWait[f] # Off
  PROVE  Outward(f)' \/ Homeward(f)'
<1> DEFINE p == Peer(e)
<1>1. channel' = [channel EXCEPT ![p] = Append(@, Packet(t))]
  BY DEF Deliver
<1>2. channel \in [Ends -> Seq(Sent)] /\ p \in Ends /\ Packet(t) \in Sent
  BY PeerFacts, PacketFacts DEF BeatTypeOK, Sent
<1>3. ASSUME NEW g \in Ends, NEW i \in DOMAIN channel[g]
      PROVE  i \in DOMAIN channel'[g] /\ channel'[g][i] = channel[g][i]
  <2>1. CASE g = p
    BY <1>1, <1>2, <2>1, AppendKeeps
  <2>2. CASE g # p
    BY <1>1, <1>2, <2>2
  <2> QED
    BY <2>1, <2>2
<1>4. Outward(f) \/ Homeward(f)
  BY DEF Answered
<1>5. Peer(f) \in Ends
  BY PeerFacts
<1>6. CASE Outward(f)
  <2>1. PICK i \in DOMAIN channel[Peer(f)] :
          /\ channel[Peer(f)][i].type = f
          /\ handleWait[f] >= heartBeatTime - channel[Peer(f)][i].age
    BY <1>6 DEF Outward
  <2> QED
    BY <2>1, <1>3, <1>5 DEF Outward
<1>7. CASE Homeward(f)
  <2>1. PICK i \in DOMAIN channel[f] :
          /\ channel[f][i].type = f
          /\ handleWait[f] >= heartBeatTime - Delay - channel[f][i].age
    BY <1>7 DEF Homeward
  <2> QED
    BY <2>1, <1>3 DEF Homeward
<1> QED
  BY <1>4, <1>6, <1>7

LEMMA AnsweredStep == BeatTypeOK /\ Answered /\ [BeatNext]_beatVars => Answered'
<1> SUFFICES ASSUME BeatTypeOK, Answered, [BeatNext]_beatVars, ~cut', NEW f \in Ends
             PROVE  /\ open'[f] /\ ~stuck'[f]
                    /\ "handle" \notin fired'[f]
                    /\ handleWait'[f] # Off => Outward(f)' \/ Homeward(f)'
  BY DEF Answered
<1> DEFINE Fine == open'[f] /\ ~stuck'[f] /\ "handle" \notin fired'[f]
           Coming == handleWait'[f] # Off => Outward(f)' \/ Homeward(f)'
<1>a. channel \in [Ends -> Seq(Sent)] /\ handleWait \in [Ends -> Waits]
      /\ fired \in [Ends -> SUBSET {"send", "handle"}]
      /\ open \in [Ends -> BOOLEAN] /\ stuck \in [Ends -> BOOLEAN]
  BY DEF BeatTypeOK, Sent, Waits
<1>b. ~cut
  BY DEF BeatNext, beatVars, SendData, HeartBeatSend, HeartBeatHandle, HandleBytes, Lose, Cut, Tick
<1>c. \A e \in Ends : open[e] /\ ~stuck[e] /\ "handle" \notin fired[e]
  BY <1>b DEF Answered
<1>1. ASSUME NEW e \in Ends, SendData(e) PROVE Fine /\ Coming
  <2>1. Deliver(e, "other", channel, 0) /\ "other" \in Types
    BY <1>1 DEF SendData, Types
  <2>2. UNCHANGED << open, handleWait, fired >>
    BY <1>1 DEF SendData
  <2>3. UNCHANGED stuck
    BY <2>1, <1>b DEF Deliver
  <2>4. Coming
    BY <2>1, <2>2, <1>b, WriteKeeps
  <2> QED
    BY <1>c, <2>2, <2>3, <2>4
<1>2. ASSUME NEW e \in Ends, HeartBeatSend(e) PROVE Fine /\ Coming
  <2>1. Deliver(e, e, channel, quiet[e]) /\ e \in Types /\ quiet[e] \in Nat
    BY <1>2, PeerFacts DEF HeartBeatSend, BeatTypeOK
  <2>2. /\ open' = open /\ fired' = [fired EXCEPT ![e] = @ \ {"send"}]
        /\ handleWait' = [handleWait EXCEPT ![e] = heartBeatTime]
    BY <1>2 DEF HeartBeatSend
  <2>3. UNCHANGED stuck
    BY <2>1, <1>b DEF Deliver
  <2>4. Fine
    BY <1>a, <1>c, <2>2, <2>3
  <2>5. CASE f # e
    <3>1. handleWait'[f] = handleWait[f]
      BY <2>2, <2>5, <1>a
    <3> QED
      BY <2>1, <2>4, <3>1, <1>b, WriteKeeps
  <2>6. CASE f = e
    <3> DEFINE p == Peer(e)
    <3>1. p \in Ends /\ Packet(e) \in Sent /\ Packet(e).type = e /\ Packet(e).age = 0
      BY PeerFacts, PacketFacts
    <3>2. channel'[p] = Append(channel[p], Packet(e))
      BY <2>1, <1>a, <1>b, <3>1 DEF Deliver
    <3>3. channel[p] \in Seq(Sent) /\ Len(channel[p]) \in Nat
      BY <1>a, <3>1
    <3>4. /\ Len(channel[p]) + 1 \in DOMAIN channel'[p]
          /\ channel'[p][Len(channel[p]) + 1] = Packet(e)
      BY <3>1, <3>2, <3>3, AppendProperties
    <3>5. handleWait'[e] = heartBeatTime
      BY <2>2, <1>a
    <3>6. Outward(f)'
      BY <2>6, <3>1, <3>4, <3>5, TimeAssumption DEF Outward
    <3> QED
      BY <2>4, <3>6
  <2> QED
    BY <2>5, <2>6
<1>3. ASSUME NEW e \in Ends, HeartBeatHandle(e) PROVE FALSE
  BY <1>3, <1>c DEF HeartBeatHandle
<1>4. ASSUME NEW e \in Ends, HandleBytes(e) PROVE Fine /\ Coming
  <2> DEFINE t == Head(channel[e]).type
             ch == [channel EXCEPT ![e] = Tail(@)]
  <2>1. /\ channel[e] # << >> /\ open' = open /\ fired' = fired
        /\ handleWait' = [handleWait EXCEPT ![e] = Off]
    BY <1>4 DEF HandleBytes, Cancels
  <2>2. Head(channel[e]) \in Sent /\ t \in Types /\ ch \in [Ends -> Seq(Sent)]
    BY <2>1, ReadType
  <2>3. \/ t = Peer(e) /\ Deliver(e, t, ch, 0)
        \/ t # Peer(e) /\ channel' = ch /\ UNCHANGED stuck
    BY <1>4, <2>2, EchoFacts DEF HandleBytes
  <2>4. UNCHANGED stuck
    BY <2>3, <1>b DEF Deliver
  <2>5. Fine
    BY <1>c, <2>1, <2>4
  <2>6. CASE f = e
    BY <2>1, <2>5, <2>6, <1>a
  <2>7. CASE f # e
    <3>1. f = Peer(e) /\ e = Peer(f) /\ handleWait'[f] = handleWait[f]
      BY <2>1, <2>7, <1>a, PeerFacts
    <3>2. SUFFICES ASSUME handleWait[f] # Off PROVE Outward(f)' \/ Homeward(f)'
      BY <2>5, <3>1
    <3>3. handleWait[f] \in 1 .. heartBeatTime
      BY <3>2, <1>a DEF Waits
    <3>4. \/ channel'[f] = Append(channel[f], Packet(t)) /\ t = f
          \/ channel'[f] = channel[f] /\ t # f
      BY <2>2, <2>3, <2>7, <3>1, <1>a, <1>b DEF Deliver
    <3>5. channel'[e] = Tail(channel[e])
      BY <2>2, <2>3, <2>7, <3>1, <1>a, <1>b DEF Deliver
    <3>6. Packet(t) \in Sent /\ Packet(t).type = t /\ Packet(t).age = 0
      BY <2>2, PacketFacts
    <3>7. channel[f] \in Seq(Sent) /\ channel[e] \in Seq(Sent) /\ Len(channel[f]) \in Nat
      BY <1>a
    <3>8. CASE Homeward(f)
      <4>1. PICK i \in DOMAIN channel[f] :
              /\ channel[f][i].type = f
              /\ handleWait[f] >= heartBeatTime - Delay - channel[f][i].age
        BY <3>8 DEF Homeward
      <4>2. i \in DOMAIN channel'[f] /\ channel'[f][i] = channel[f][i]
        BY <3>4, <3>6, <3>7, <4>1, AppendKeeps
      <4> QED
        BY <3>1, <4>1, <4>2 DEF Homeward
    <3>9. CASE Outward(f)
      <4>1. PICK i \in DOMAIN channel[e] :
              /\ channel[e][i].type = f
              /\ handleWait[f] >= heartBeatTime - channel[e][i].age
        BY <3>1, <3>9 DEF Outward
      <4>2. CASE i = 1
        <5>1. channel[e][1] = Head(channel[e]) /\ t = f
          BY <2>1, <4>1, <4>2, <3>7
        <5>2. Head(channel[e]).age \in 0 .. Delay
          BY <2>2 DEF Sent
        <5>3. handleWait[f] >= heartBeatTime - Delay - 0
          BY <4>1, <4>2, <5>1, <5>2, <3>3, TimeAssumption
        <5>4. /\ Len(channel[f]) + 1 \in DOMAIN channel'[f]
              /\ channel'[f][Len(channel[f]) + 1] = Packet(t)
          BY <3>4, <3>6, <3>7, <5>1, AppendProperties
        <5> QED
          BY <3>1, <3>6, <5>1, <5>3, <5>4 DEF Homeward
      <4>3. CASE i # 1
        <5>1. i - 1 \in DOMAIN channel'[e] /\ channel'[e][i - 1] = channel[e][i]
          BY <3>5, <3>7, <4>1, <4>3, TailKeeps
        <5> QED
          BY <3>1, <4>1, <5>1 DEF Outward
      <4> QED
        BY <4>2, <4>3
    <3> QED
      BY <3>2, <3>8, <3>9, <1>b DEF Answered
  <2> QED
    BY <2>6, <2>7
<1>5. ASSUME NEW e \in Ends, Lose(e) PROVE FALSE
  BY <1>5, <1>b DEF Lose
<1>6. CASE Cut
  BY <1>6 DEF Cut
<1>7. CASE Tick
  <2>1. UNCHANGED << open, stuck >>
    BY <1>7 DEF Tick
  <2>2. /\ handleWait'[f] = (IF handleWait[f] \in {Off, 1} THEN Off ELSE handleWait[f] - 1)
        /\ "handle" \in fired'[f] <=> handleWait[f] = 1
    BY <1>7, TickFacts
  <2>3. Peer(f) \in Ends
    BY PeerFacts
  <2>4. ASSUME NEW g \in Ends, NEW i \in DOMAIN channel[g]
        PROVE  /\ i \in DOMAIN channel'[g]
               /\ channel[g][i].age \in Nat /\ channel[g][i].age < Delay
               /\ channel'[g][i].type = channel[g][i].type
               /\ channel'[g][i].age = channel[g][i].age + 1
    BY <1>7, TickFacts DEF Sent
  <2>5. CASE handleWait[f] = Off
    <3>1. Off # 1
      BY DEF Off
    <3> QED
      BY <2>1, <2>2, <2>5, <3>1, <1>c
  <2>6. CASE handleWait[f] # Off
    <3>1. handleWait[f] \in 1 .. heartBeatTime
      BY <2>6, <1>a DEF Waits
    <3>2. CASE Outward(f)
      <4>1. PICK i \in DOMAIN channel[Peer(f)] :
              /\ channel[Peer(f)][i].type = f
              /\ handleWait[f] >= heartBeatTime - channel[Peer(f)][i].age
        BY <3>2 DEF Outward
      <4>2. channel[Peer(f)][i].age \in Nat /\ channel[Peer(f)][i].age < Delay
        BY <2>3, <2>4, <4>1
      <4>3. handleWait[f] # 1
        BY <3>1, <4>1, <4>2, TimeAssumption
      <4>4. handleWait'[f] >= heartBeatTime - (channel[Peer(f)][i].age + 1)
        BY <2>2, <2>6, <3>1, <4>1, <4>2, <4>3, TimeAssumption
      <4>5. Outward(f)'
        BY <2>3, <2>4, <4>1, <4>4 DEF Outward
      <4> QED
        BY <2>1, <2>2, <4>3, <4>5, <1>c
    <3>3. CASE Homeward(f)
      <4>1. PICK i \in DOMAIN channel[f] :
              /\ channel[f][i].type = f
              /\ handleWait[f] >= heartBeatTime - Delay - channel[f][i].age
        BY <3>3 DEF Homeward
      <4>2. channel[f][i].age \in Nat /\ channel[f][i].age < Delay
        BY <2>4, <4>1
      <4>3. handleWait[f] # 1
        BY <3>1, <4>1, <4>2, TimeAssumption
      <4>4. handleWait'[f] >= heartBeatTime - Delay - (channel[f][i].age + 1)
        BY <2>2, <2>6, <3>1, <4>1, <4>2, <4>3, TimeAssumption
      <4>5. Homeward(f)'
        BY <2>4, <4>1, <4>4 DEF Homeward
      <4> QED
        BY <2>1, <2>2, <4>3, <4>5, <1>c
    <3> QED
      BY <2>6, <3>2, <3>3, <1>b DEF Answered
  <2> QED
    BY <2>5, <2>6
<1>8. CASE UNCHANGED beatVars
  <2>1. UNCHANGED << open, handleWait, fired, channel, stuck >>
    BY <1>8 DEF beatVars
  <2>2. Outward(f)' = Outward(f) /\ Homeward(f)' = Homeward(f)
    BY <2>1 DEF Outward, Homeward
  <2> QED
    BY <2>1, <2>2, <1>b DEF Answered
<1> QED
  BY <1>1, <1>2, <1>3, <1>4, <1>5, <1>6, <1>7, <1>8 DEF BeatNext

\* While the network answers within heartBeatTime nobody closes, whatever heartBeatTime
\* and Delay are and however much is sent.
THEOREM NoFalseTimeoutCorrect == BeatSpec => []NoFalseTimeout
<1>1. BeatInit => BeatTypeOK /\ Answered
  BY BeatTypeInit, AnsweredInit
<1>2. BeatTypeOK /\ Answered /\ [BeatNext]_beatVars => (BeatTypeOK /\ Answered)'
  BY BeatTypeStep, AnsweredStep
<1>3. BeatTypeOK /\ Answered => NoFalseTimeout
  BY DEF Answered, NoFalseTimeout
<1> QED
  BY <1>1, <1>2, <1>3, PTL DEF BeatSpec

-----------------------------------------------------------------------------
(* Silence is noticed, before and after the cut.                           *)

LEMMA WatchfulInit == BeatInit => Watchful
<1> SUFFICES ASSUME BeatInit, NEW e \in Ends PROVE Timers(e) /\ Watched(e)
  BY DEF Watchful
<1>1. sendWait[e] = heartBeatTime /\ handleWait[e] = heartBeatTime /\ quiet[e] = 0 /\ fired[e] = {}
  BY DEF BeatInit
<1> QED
  BY <1>1, TimeAssumption DEF Timers, Watched, Off

\* Writing for the application, or reading, starts the count anew.
LEMMA Anew ==
  ASSUME BeatTypeOK', NEW e \in Ends, Timers(e)', quiet'[e] = 0
  PROVE  Watched(e)'
<1>1. sendWait'[e] \in Waits
  BY DEF BeatTypeOK, Waits
<1> QED
  BY <1>1, TimeAssumption DEF Timers, Watched, Waits

LEMMA WatchfulStep == BeatTypeOK /\ Watchful /\ [BeatNext]_beatVars => Watchful'
<1> SUFFICES ASSUME BeatTypeOK, Watchful, [BeatNext]_beatVars,
                    NEW f \in Ends, open'[f], ~stuck'[f]
             PROVE  Timers(f)' /\ Watched(f)'
  BY DEF Watchful
<1> USE DEF Off
<1>a. /\ sendWait \in [Ends -> Waits] /\ handleWait \in [Ends -> Waits]
      /\ fired \in [Ends -> SUBSET {"send", "handle"}] /\ quiet \in [Ends -> Nat]
      /\ open \in [Ends -> BOOLEAN] /\ stuck \in [Ends -> BOOLEAN]
  BY DEF BeatTypeOK, Waits
<1>b. BeatTypeOK'
  BY BeatTypeStep
<1>c. open[f] /\ ~stuck[f] => Timers(f) /\ Watched(f)
  BY DEF Watchful
<1>d. ASSUME /\ sendWait'[f] = sendWait[f] /\ handleWait'[f] = handleWait[f]
             /\ fired'[f] = fired[f] /\ quiet'[f] = quiet[f]
             /\ open'[f] = open[f] /\ stuck'[f] = stuck[f]
      PROVE  Timers(f)' /\ Watched(f)'
  BY <1>c, <1>d DEF Timers, Watched
<1>1. ASSUME NEW e \in Ends, SendData(e) PROVE Timers(f)' /\ Watched(f)'
  <2>1. UNCHANGED << open, handleWait, fired >> /\ Deliver(e, "other", channel, 0)
    BY <1>1 DEF SendData
  <2>2. CASE f # e
    <3>1. sendWait'[f] = sendWait[f] /\ quiet'[f] = quiet[f] /\ stuck'[f] = stuck[f]
      BY <2>1, <2>2, <1>a DEF Deliver
    <3> QED
      BY <2>1, <3>1, <1>d
  <2>3. CASE f = e
    <3>1. ~stuck[f] /\ sendWait'[f] = heartBeatTime /\ quiet'[f] = 0
      BY <2>1, <2>3, <1>a DEF Deliver
    <3> QED
      BY <2>1, <3>1, <1>a, <1>b, <1>c, Anew, TimeAssumption DEF Timers, Waits
  <2> QED
    BY <2>2, <2>3
<1>2. ASSUME NEW e \in Ends, HeartBeatSend(e) PROVE Timers(f)' /\ Watched(f)'
  <2>1. /\ open' = open /\ open[e] /\ "send" \in fired[e]
        /\ fired' = [fired EXCEPT ![e] = @ \ {"send"}]
        /\ handleWait' = [handleWait EXCEPT ![e] = heartBeatTime]
        /\ Deliver(e, e, channel, quiet[e])
    BY <1>2 DEF HeartBeatSend
  <2>2. CASE f # e
    <3>1. sendWait'[f] = sendWait[f] /\ quiet'[f] = quiet[f] /\ stuck'[f] = stuck[f]
          /\ handleWait'[f] = handleWait[f] /\ fired'[f] = fired[f]
      BY <2>1, <2>2, <1>a DEF Deliver
    <3> QED
      BY <2>1, <3>1, <1>d
  <2>3. CASE f = e
    <3>1. ~stuck[f] /\ sendWait'[f] = heartBeatTime /\ quiet'[f] = quiet[f]
      BY <2>1, <2>3, <1>a DEF Deliver
    <3>2. handleWait'[f] = heartBeatTime /\ fired'[f] = fired[f] \ {"send"}
      BY <2>1, <2>3, <1>a
    <3>3. Timers(f)'
      BY <3>1, <3>2, TimeAssumption DEF Timers
    <3>4. Timers(f) /\ Watched(f)
      BY <1>c, <2>1, <2>3, <3>1
    <3>5. handleWait[f] = Off
      BY <3>4, <2>1, <2>3 DEF Timers
    <3>6. Watched(f)'
      BY <3>1, <3>2, <3>4, <3>5, <1>a, TimeAssumption DEF Watched, Waits
    <3> QED
      BY <3>3, <3>6
  <2> QED
    BY <2>2, <2>3
<1>3. ASSUME NEW e \in Ends, HeartBeatHandle(e) PROVE Timers(f)' /\ Watched(f)'
  <2>1. f # e
    BY <1>3, <1>a DEF HeartBeatHandle
  <2> QED
    BY <1>3, <2>1, <1>a, <1>d DEF HeartBeatHandle
<1>4. ASSUME NEW e \in Ends, HandleBytes(e) PROVE Timers(f)' /\ Watched(f)'
  <2> DEFINE t == Head(channel[e]).type
             ch == [channel EXCEPT ![e] = Tail(@)]
  <2>1. /\ open' = open /\ fired' = fired
        /\ handleWait' = [handleWait EXCEPT ![e] = Off]
    BY <1>4 DEF HandleBytes, Cancels
  <2>2. \/ Deliver(e, t, ch, 0)
        \/ quiet' = [quiet EXCEPT ![e] = 0] /\ UNCHANGED << sendWait, stuck >>
    BY <1>4 DEF HandleBytes
  <2>3. CASE f # e
    <3>1. sendWait'[f] = sendWait[f] /\ quiet'[f] = quiet[f] /\ stuck'[f] = stuck[f]
      BY <2>2, <2>3, <1>a DEF Deliver
    <3>2. handleWait'[f] = handleWait[f]
      BY <2>1, <2>3, <1>a
    <3> QED
      BY <2>1, <3>1, <3>2, <1>d
  <2>4. CASE f = e
    <3>1. /\ ~stuck[f] /\ quiet'[f] = 0
          /\ sendWait'[f] = heartBeatTime \/ sendWait'[f] = sendWait[f]
      BY <2>2, <2>4, <1>a DEF Deliver
    <3>2. handleWait'[f] = Off
      BY <2>1, <2>4, <1>a
    <3>3. Timers(f)'
      BY <2>1, <3>1, <3>2, <1>c, TimeAssumption DEF Timers
    <3> QED
      BY <3>1, <3>3, <1>b, Anew
  <2> QED
    BY <2>3, <2>4
<1>5. ASSUME NEW e \in Ends, Lose(e) PROVE Timers(f)' /\ Watched(f)'
  BY <1>5, <1>d DEF Lose
<1>6. CASE Cut
  BY <1>6, <1>d DEF Cut
<1>7. CASE Tick
  <2>1. /\ fired[f] = {}
        /\ sendWait'[f] = (IF sendWait[f] \in {Off, 1} THEN Off ELSE sendWait[f] - 1)
        /\ handleWait'[f] = (IF handleWait[f] \in {Off, 1} THEN Off ELSE handleWait[f] - 1)
        /\ "send" \in fired'[f] <=> sendWait[f] = 1
        /\ "handle" \in fired'[f] <=> handleWait[f] = 1
        /\ quiet'[f] = (IF quiet[f] > 2 * heartBeatTime THEN quiet[f] ELSE quiet[f] + 1)
    BY <1>7, TickFacts
  <2>2. Timers(f) /\ Watched(f)
    BY <1>7, <1>c DEF Tick
  <2>3. /\ sendWait[f] \in 1 .. heartBeatTime
        /\ handleWait[f] \in Waits /\ quiet[f] \in Nat
        /\ handleWait[f] # Off => sendWait[f] >= handleWait[f]
    BY <2>1, <2>2, <1>a DEF Timers, Waits
  <2>4. Timers(f)'
    BY <2>1, <2>3, TimeAssumption DEF Timers, Waits
  <2>5. \/ quiet[f] + sendWait[f] <= heartBeatTime
        \/ handleWait[f] # Off /\ quiet[f] + handleWait[f] <= 2 * heartBeatTime
    BY <2>1, <2>2 DEF Watched
  <2>6. quiet'[f] = quiet[f] + 1
    BY <2>1, <2>3, <2>5, TimeAssumption DEF Waits
  <2>7. Watched(f)'
    <3>1. CASE quiet[f] + sendWait[f] <= heartBeatTime
      BY <2>1, <2>3, <2>6, <3>1, TimeAssumption DEF Watched, Waits
    <3>2. CASE handleWait[f] # Off /\ quiet[f] + handleWait[f] <= 2 * heartBeatTime
      BY <2>1, <2>3, <2>6, <3>2, TimeAssumption DEF Watched, Waits
    <3> QED
      BY <2>5, <3>1, <3>2
  <2> QED
    BY <2>4, <2>7
<1>8. CASE UNCHANGED beatVars
  BY <1>8, <1>d DEF beatVars
<1> QED
  BY <1>1, <1>2, <1>3, <1>4, <1>5, <1>6, <1>7, <1>8 DEF BeatNext

\* An end whose peer has fallen silent closes within two heartBeatTimes, unless its own
\* writes have got stuck, whatever heartBeatTime is.
THEOREM DetectsSilenceCorrect == BeatSpec => []DetectsSilence
<1>1. BeatInit => BeatTypeOK /\ Watchful
  BY BeatTypeInit, WatchfulInit
<1>2. BeatTypeOK /\ Watchful /\ [BeatNext]_beatVars => (BeatTypeOK /\ Watchful)'
  BY BeatTypeStep, WatchfulStep
<1>3. BeatTypeOK /\ Watchful => DetectsSilence
  <2> SUFFICES ASSUME BeatTypeOK, Watchful, NEW e \in Ends, open[e], ~stuck[e]
               PROVE  quiet[e] <= 2 * heartBeatTime
    BY DEF DetectsSilence
  <2>1. Watched(e)
    BY DEF Watchful
  <2>2. sendWait[e] \in Waits /\ handleWait[e] \in Waits /\ quiet[e] \in Nat
    BY DEF BeatTypeOK, Waits
  <2> QED
    BY <2>1, <2>2, TimeAssumption DEF Watched, Waits, Off
<1> QED
  BY <1>1, <1>2, <1>3, PTL DEF BeatSpec

-----------------------------------------------------------------------------
(* Heartbeats do not bounce.                                               *)

OfType(s, k) == {i \in DOMAIN s : s[i].type = k}

LEMMA OfTypeFinite ==
  ASSUME NEW s \in Seq(Sent), NEW k
  PROVE  IsFiniteSet(OfType(s, k)) /\ Cardinality(OfType(s, k)) \in Nat
<1>1. IsFiniteSet(1 .. Len(s)) /\ OfType(s, k) \in SUBSET (1 .. Len(s))
  BY FS_Interval DEF OfType
<1> QED
  BY <1>1, FS_Subset, FS_CardinalityType

\* Appending a package of another type, or taking one off, adds none of this type.
LEMMA AppendOther ==
  ASSUME NEW s \in Seq(Sent), NEW p \in Sent, NEW k, p.type # k
  PROVE  OfType(Append(s, p), k) = OfType(s, k)
<1>1. /\ DOMAIN s = 1 .. Len(s) /\ Len(s) \in Nat
      /\ DOMAIN Append(s, p) = 1 .. Len(s) + 1
      /\ Append(s, p)[Len(s) + 1] = p
      /\ \A i \in 1 .. Len(s) : Append(s, p)[i] = s[i]
  BY AppendProperties
<1> QED
  BY <1>1 DEF OfType

LEMMA TailFewer ==
  ASSUME NEW s \in Seq(Sent), NEW k, s # << >>
  PROVE  Cardinality(OfType(Tail(s), k)) <= Cardinality(OfType(s, k))
<1> DEFINE A == OfType(Tail(s), k)
           B == OfType(s, k)
           f == [i \in A |-> i + 1]
<1>1. /\ DOMAIN s = 1 .. Len(s) /\ Len(s) \in Nat
      /\ DOMAIN Tail(s) = 1 .. Len(s) - 1
      /\ \A i \in 1 .. Len(s) - 1 : Tail(s)[i] = s[i + 1]
  BY HeadTailProperties
<1>2. \A i \in A : i \in Nat /\ i + 1 \in B
  BY <1>1 DEF OfType
<1>3. f \in [A -> B] /\ \A i, j \in A : f[i] = f[j] => i = j
  BY <1>2
<1>4. f \in Injection(A, B)
  BY <1>3 DEF Injection, IsInjective
<1>5. IsFiniteSet(B)
  BY OfTypeFinite
<1> QED
  BY <1>4, <1>5, FS_Injection

LEMMA EchoStep ==
  BeatTypeOK /\ [BeatNext]_beatVars =>
    [\A e \in Ends : Cardinality(Outbound(e)') > Cardinality(Outbound(e))
                     => "send" \in fired[e]]_beatVars
<1> SUFFICES ASSUME BeatTypeOK, BeatNext, NEW e \in Ends, "send" \notin fired[e]
             PROVE  Cardinality(Outbound(e)') <= Cardinality(Outbound(e))
  <2> SUFFICES ASSUME BeatTypeOK, BeatNext, NEW e \in Ends,
                      Cardinality(Outbound(e)') > Cardinality(Outbound(e)), "send" \notin fired[e]
               PROVE  FALSE
    BY DEF beatVars
  <2>1. BeatTypeOK'
    BY BeatTypeStep
  <2>2. Cardinality(Outbound(e)') \in Nat /\ Cardinality(Outbound(e)) \in Nat
    <3>1. channel[Peer(e)] \in Seq(Sent) /\ channel'[Peer(e)] \in Seq(Sent)
      BY <2>1, PeerFacts DEF BeatTypeOK, Sent
    <3>2. Outbound(e) = OfType(channel[Peer(e)], e) /\ Outbound(e)' = OfType(channel'[Peer(e)], e)
      BY DEF Outbound, OfType
    <3> QED
      BY <3>1, <3>2, OfTypeFinite
  <2> QED
    BY <2>2
<1> DEFINE p == Peer(e)
           s == channel[p]
           r == channel'[p]
<1>a. channel \in [Ends -> Seq(Sent)] /\ p \in Ends /\ p # e /\ e = Peer(p)
  BY PeerFacts DEF BeatTypeOK, Sent
<1>b. s \in Seq(Sent)
  BY <1>a
<1>c. Outbound(e) = OfType(s, e) /\ Outbound(e)' = OfType(r, e)
  BY DEF Outbound, OfType
<1>d. Cardinality(OfType(s, e)) \in Nat
  BY <1>b, OfTypeFinite
<1>e. SUFFICES \/ OfType(r, e) = OfType(s, e) \/ r = << >> \/ (s # << >> /\ r = Tail(s))
  <2>1. CASE OfType(r, e) = OfType(s, e)
    BY <2>1, <1>c, <1>d
  <2>2. CASE r = << >>
    <3>1. OfType(r, e) = {}
      BY <2>2 DEF OfType
    <3> QED
      BY <3>1, <1>c, <1>d, FS_EmptySet
  <2>3. CASE s # << >> /\ r = Tail(s)
    BY <2>3, <1>b, <1>c, TailFewer
  <2> QED
    BY <2>1, <2>2, <2>3, <1>e
<1>1. ASSUME NEW t \in Types, t # e, r = Append(s, Packet(t)) PROVE OfType(r, e) = OfType(s, e)
  BY <1>1, <1>b, PacketFacts, AppendOther
<1>2. ASSUME NEW g \in Ends, SendData(g)
      PROVE  r = s \/ \E t \in Types : t # e /\ r = Append(s, Packet(t))
  <2>1. "other" \in Types /\ "other" # e
    BY DEF Types, Ends
  <2>2. r = s \/ r = Append(s, Packet("other"))
    BY <1>2, <1>a DEF SendData, Deliver
  <2> QED
    BY <2>1, <2>2
<1>3. ASSUME NEW g \in Ends, HeartBeatSend(g)
      PROVE  r = s \/ \E t \in Types : t # e /\ r = Append(s, Packet(t))
  <2>1. g # e /\ g \in Types
    BY <1>3, PeerFacts DEF HeartBeatSend
  <2>2. r = s \/ r = Append(s, Packet(g))
    BY <1>3, <1>a DEF HeartBeatSend, Deliver
  <2> QED
    BY <2>1, <2>2
<1>4. ASSUME NEW g \in Ends, HeartBeatHandle(g) PROVE r = s \/ r = << >>
  BY <1>4, <1>a DEF HeartBeatHandle
<1>5. ASSUME NEW g \in Ends, Lose(g) PROVE r = s \/ r = << >>
  BY <1>5, <1>a DEF Lose
<1>6. ASSUME NEW g \in Ends, HandleBytes(g)
      PROVE  \/ r = s \/ (s # << >> /\ r = Tail(s))
             \/ \E t \in Types : t # e /\ r = Append(s, Packet(t))
  <2> DEFINE t == Head(channel[g]).type
             ch == [channel EXCEPT ![g] = Tail(@)]
  <2>1. channel[g] # << >> /\ t \in Types
    BY <1>6, ReadType DEF HandleBytes
  <2>2. \/ t = Peer(g) /\ Deliver(g, t, ch, 0)
        \/ channel' = ch
    BY <1>6, <2>1, EchoFacts DEF HandleBytes
  <2>3. CASE g = p
    <3>1. r = Tail(s)
      BY <2>2, <2>3, <1>a DEF Deliver
    <3> QED
      BY <2>1, <2>3, <3>1
  <2>4. CASE g = e
    <3>1. ch[p] = s /\ ch \in [Ends -> Seq(Sent)]
      BY <2>1, <2>4, <1>a, ReadType
    <3>2. r = s \/ (t = p /\ r = Append(s, Packet(t)))
      BY <2>2, <2>4, <3>1, <1>a DEF Deliver
    <3> QED
      BY <2>1, <3>2, <1>a
  <2> QED
    BY <2>3, <2>4, PeerFacts
<1>7. CASE Cut
  BY <1>7 DEF Cut
<1>8. CASE Tick
  BY <1>8, <1>a, TickFacts DEF OfType
<1> QED
  BY <1>1, <1>2, <1>3, <1>4, <1>5, <1>6, <1>7, <1>8 DEF BeatNext

\* A heartbeat of its own type leaves an end only when its timer says so, never in
\* answer to one that has come back: the two tests of handle_read together see to it.
THEOREM NoEchoStormCorrect == BeatSpec => NoEchoStorm
<1> QED
  BY BeatTypeInit, BeatTypeStep, EchoStep, PTL DEF BeatSpec, NoEchoStorm
=============================================================================
