---------------------------- MODULE ServerProofs ----------------------------
(***************************************************************************)
(* What is proved of Server.tla for any number of managers, of clients and *)
(* of queued handlers: its types, and that OnDisconnect and the tables     *)
(* stay right while the accept thread, the managers' threads and           *)
(* tcpServer::stop interleave.                                             *)
(***************************************************************************)
EXTENDS Server, SequenceTheorems, FiniteSetTheorems, TLAPS

Object(c) == session[c].object
Disconnects(c) == session[c].disconnects
Runs(k, c) == running[Owner(c)] = << k, c >>

\* Whatever belongs to a client is queued and run by the manager of that client.
Home(m) == {h \in Handlers : h[2] # NoOne => Owner(h[2]) = m}

Homed ==
  \A m \in Manager :
    /\ queue[m] \in Seq(Home(m))
    /\ running[m][2] # NoOne => Owner(running[m][2]) = m

\* The accept thread owns a client from handle_connect to start.
Accepting ==
  /\ accept.id \in BaseId - 1 .. LastId + 1
  /\ accept.at = "do_connect" => accept.id <= LastId
  /\ accept.at \in {"accept", "construct", "insert", "start", "arm", "do_read"}
       => accept.id \in Ids
  /\ \A c \in Ids :
       /\ c > accept.id \/ (c = accept.id /\ accept.at \in {"accept", "last", "exit"})
            => Object(c) = "unborn" /\ m_session[c] = "none"
       /\ c = accept.id /\ accept.at = "construct"
            => Object(c) = "unborn" /\ m_session[c] # "session"
       /\ c = accept.id /\ accept.at = "insert"
            => Object(c) = "live" /\ m_session[c] # "session"

\* The managers whose tables tcpServer::stop has cleared for good.
Cleared(m) ==
  /\ AcceptStopped
  /\ \/ m < app.manager
     \/ m = app.manager /\ app.at \in {"halt", "join", "join_accept", "stopped"}

\* The last client that may have been born.
Newest == IF accept.at \in {"accept", "last", "exit"} THEN accept.id - 1 ELSE accept.id

Tables ==
  /\ \A c \in Ids :
       /\ m_session[c] = "session" => Object(c) = "live"
       /\ Object(c) = "live" =>
            \/ m_session[c] = "session"
            \/ accept.at = "insert" /\ accept.id = c
            \/ app.at = "close" /\ app.id = c
       /\ Object(c) = "live" /\ Cleared(Owner(c)) => c = Newest
  /\ app.at = "close" =>
       /\ app.id \in Ids
       /\ Owner(app.id) = app.manager
       /\ Object(app.id) = "live"
       /\ m_session[app.id] = "none"
       /\ ~(accept.id = app.id /\ accept.at \in {"construct", "insert"})
  /\ app.at \in {"deliver", "do_write", "async"} => app.id \in Ids
  /\ app.at \in {"join_accept", "stopped"} => app.manager = Managers - 1
  /\ app.at = "stopped" => accept.at = "exit"

\* The life of a session and the calls of OnDisconnect.
Lives ==
  \A c \in Ids :
    /\ Object(c) = "unborn" => ~Connected(c) /\ Disconnects(c) = 0
    /\ Object(c) = "live" =>
         /\ Connected(c) => Disconnects(c) = 0
         /\ ~Connected(c) =>
              Disconnects(c) = 1 \/ (Disconnects(c) = 0 /\ Runs("closing", c))
    /\ Gone(c) =>
         /\ ~Connected(c)
         /\ Disconnects(c) <= (IF AcceptStopped THEN 2 ELSE 1)
         /\ Disconnects(c) > 0 \/ (AcceptStopped /\ Runs("closing", c))
    /\ Runs("close", c) => Connected(c) \/ Gone(c)
    /\ Runs("closing", c) =>
         \/ Gone(c)
         \/ Object(c) = "live" /\ ~Connected(c) /\ Disconnects(c) = 0

ServerInv == ServerTypeOK /\ Homed /\ Accepting /\ Tables /\ Lives

\* What a handler may do to a session, short of closing it.
SameLife(s, t) ==
  /\ t \in Session
  /\ t.object = s.object
  /\ t.m_is_connected = s.m_is_connected
  /\ t.disconnects = s.disconnects

SameLives ==
  /\ session' \in [Ids -> Session]
  /\ \A c \in Ids : SameLife(session[c], session'[c])

-----------------------------------------------------------------------------
(* Lemmas about managers, queues and sessions.                             *)

LEMMA OwnerIsManager ==
  ASSUME NEW c \in Int
  PROVE  Owner(c) \in Manager
<1>1. Half \in Nat /\ Half > 0 /\ Managers \in Nat /\ Managers > 0
  BY HalfAssumption, ManagersAssumption
<1>2. ToInt(c) \in Int
  BY <1>1 DEF ToInt
<1>3. 4 * Half * Half \in Nat /\ 4 * Half * Half > 0
  BY <1>1
<1>4. ToUint64(ToInt(c)) \in Int
  BY <1>2, <1>3 DEF ToUint64
<1>5. ToUint64(ToInt(c)) % Managers \in 0 .. Managers - 1
  BY <1>1, <1>4
<1> QED
  BY <1>5 DEF Owner, CurrCellManager, Manager

LEMMA IdsAreNat == Ids \subseteq Nat /\ NoOne \notin Ids
BY IdsAssumption DEF Ids, NoOne

LEMMA HandlerIsHome ==
  ASSUME NEW k \in Kinds, NEW c \in Ids
  PROVE  << k, c >> \in Home(Owner(c)) /\ << k, c >> \in Handlers
BY IdsAreNat DEF Home, Handlers

LEMMA CheckIsHome ==
  ASSUME NEW m \in Manager
  PROVE  << "check", NoOne >> \in Home(m)
BY DEF Home, Handlers

LEMMA AppendSeq ==
  ASSUME NEW H, NEW q \in Seq(H), NEW h \in H
  PROVE  Append(q, h) \in Seq(H)
OBVIOUS

LEMMA HomeSeqIsHandlerSeq ==
  ASSUME NEW m, NEW q \in Seq(Home(m))
  PROVE  q \in Seq(Handlers)
BY DEF Home

LEMMA PostHome ==
  ASSUME ServerInv, NEW k \in Kinds, NEW c \in Ids, Post(<< k, c >>)
  PROVE  /\ queue' \in [Manager -> Seq(Handlers)]
         /\ \A m \in Manager : queue'[m] \in Seq(Home(m))
<1>1. c \in Int /\ Owner(c) \in Manager
  BY IdsAreNat, OwnerIsManager
<1>2. queue \in [Manager -> Seq(Handlers)] /\ \A m \in Manager : queue[m] \in Seq(Home(m))
  BY DEF ServerInv, ServerTypeOK, Homed
<1>3. Append(queue[Owner(c)], << k, c >>) \in Seq(Home(Owner(c)))
  BY <1>1, <1>2, HandlerIsHome, AppendSeq
<1>4. Append(queue[Owner(c)], << k, c >>) \in Seq(Handlers)
  BY <1>3, HomeSeqIsHandlerSeq
<1>5. queue' = [queue EXCEPT ![Owner(c)] = Append(@, << k, c >>)]
  BY DEF Post
<1> HIDE DEF Home, Handlers
<1> QED
  BY <1>1, <1>2, <1>3, <1>4, <1>5

LEMMA RepeatSeq ==
  ASSUME NEW H, NEW h \in H, NEW n \in Nat
  PROVE  Repeat(h, n) \in Seq(H)
BY DEF Repeat

LEMMA AbortedHome ==
  ASSUME ServerInv, NEW c \in Ids,
         queue' = [queue EXCEPT ![Owner(c)] = Aborted(c, @)]
  PROVE  /\ queue' \in [Manager -> Seq(Handlers)]
         /\ \A m \in Manager : queue'[m] \in Seq(Home(m))
<1>1. c \in Int /\ Owner(c) \in Manager
  BY IdsAreNat, OwnerIsManager
<1>2. queue \in [Manager -> Seq(Handlers)] /\ \A m \in Manager : queue[m] \in Seq(Home(m))
  BY DEF ServerInv, ServerTypeOK, Homed
<1>3. IsFiniteSet(Failing(session[c])) /\ Cardinality(Failing(session[c])) \in Nat
  <2>1. IsFiniteSet({"read"}) /\ IsFiniteSet({"write"})
    BY FS_Singleton
  <2>2. IsFiniteSet({"read"} \cup {"write"})
    BY <2>1, FS_Union
  <2>3. Failing(session[c]) \subseteq {"read"} \cup {"write"}
    BY DEF Failing
  <2> QED
    BY <2>2, <2>3, FS_Subset, FS_CardinalityType
<1>4. << "error", c >> \in Home(Owner(c))
  BY HandlerIsHome DEF Kinds
<1>5. Repeat(<< "error", c >>, Cardinality(Failing(session[c]))) \in Seq(Home(Owner(c)))
  BY <1>3, <1>4, RepeatSeq
<1>6. Aborted(c, queue[Owner(c)]) \in Seq(Home(Owner(c)))
  BY <1>1, <1>2, <1>5, ConcatProperties DEF Aborted
<1>7. Aborted(c, queue[Owner(c)]) \in Seq(Handlers)
  BY <1>6, HomeSeqIsHandlerSeq
<1> QED
  BY <1>1, <1>2, <1>6, <1>7

LEMMA StartSame ==
  ASSUME NEW s \in Session, NEW op \in Operations
  PROVE  SameLife(s, Start(s, op))
BY DEF Session, SameLife, Start

LEMMA SameTrans ==
  ASSUME NEW s, NEW t, NEW u, SameLife(s, t), SameLife(t, u)
  PROVE  SameLife(s, u)
BY DEF SameLife

LEMMA StartWriteSame ==
  ASSUME NEW s \in Session, NEW t \in StartWrite(s)
  PROVE  SameLife(s, t)
<1>1. SameLife(s, s)
  BY DEF SameLife
<1>2. SameLife(s, Start(s, "hbsend")) /\ SameLife(s, Start(s, "write"))
  BY StartSame DEF Operations
<1>3. SameLife(s, [Start(s, "write") EXCEPT !.sending = TRUE])
  BY <1>2 DEF SameLife, Session, Start
<1> QED
  BY <1>1, <1>2, <1>3 DEF StartWrite

LEMMA DoWriteSame ==
  ASSUME NEW s \in Session, NEW t \in DoWrite(s)
  PROVE  SameLife(s, t)
BY StartWriteSame DEF DoWrite, SameLife

LEMMA DoReadSame ==
  ASSUME NEW s \in Session
  PROVE  SameLife(s, DoRead(s))
BY StartSame DEF DoRead, SameLife, Operations

LEMMA BeatSame ==
  ASSUME NEW s \in Session, NEW t \in Beat(s)
  PROVE  SameLife(s, t)
<1>1. PICK u \in DoWrite(s) : t = Arm(u)
  BY DEF Beat
<1>2. SameLife(s, u) /\ u \in Session
  BY <1>1, DoWriteSame DEF SameLife
<1>3. SameLife(u, t)
  BY <1>1, <1>2, StartSame DEF Arm, Operations
<1> QED
  BY <1>2, <1>3, SameTrans

LEMMA AfterReadSame ==
  ASSUME NEW s \in Session, NEW t \in AfterRead(s)
  PROVE  SameLife(s, t)
<1>1. PICK u \in DoWrite(Cancel(s)) \cup {Cancel(s)} : t = DoRead(u)
  BY DEF AfterRead
<1>2. SameLife(s, Cancel(s)) /\ Cancel(s) \in Session
  BY DEF SameLife, Session, Cancel
<1>3. SameLife(Cancel(s), u) /\ u \in Session
  BY <1>1, <1>2, DoWriteSame DEF SameLife
<1>4. SameLife(u, t)
  BY <1>1, <1>3, DoReadSame
<1> QED
  BY <1>2, <1>3, <1>4 DEF SameLife

LEMMA AfterWriteSame ==
  ASSUME NEW s \in Session, NEW t \in AfterWrite(s)
  PROVE  SameLife(s, t)
<1> DEFINE u == [s EXCEPT !.sending = FALSE]
<1>1. SameLife(s, u) /\ u \in Session
  BY DEF SameLife, Session
<1>2. SameLife(u, t)
  BY <1>1, DoWriteSame DEF AfterWrite
<1> QED
  BY <1>1, <1>2, SameTrans

LEMMA BecameSame ==
  ASSUME ServerInv, NEW c \in Ids, NEW s, Became(c, s), SameLife(session[c], s)
  PROVE  SameLives
BY DEF ServerInv, ServerTypeOK, Became, SameLives, SameLife

-----------------------------------------------------------------------------
(* Steps that open and close nothing.                                      *)

LEMMA AcceptingKept ==
  ASSUME ServerInv, SameLives, UNCHANGED << m_session, accept >>
  PROVE  Accepting'
BY DEF ServerInv, Accepting, SameLives, SameLife, Object

LEMMA TablesKept ==
  ASSUME ServerInv, SameLives, UNCHANGED << m_session, accept, app >>
  PROVE  Tables'
BY DEF ServerInv, Tables, SameLives, SameLife, Object, Cleared, AcceptStopped, Newest

\* A thread that begins or ends a handler other than handle_close.
ClosesNothing ==
  \A c \in Ids :
    /\ Runs("closing", c) <=> Runs("closing", c)'
    /\ Runs("close", c)' => Runs("close", c) \/ Connected(c) \/ Gone(c)

LEMMA LivesKept ==
  ASSUME ServerInv, SameLives, ClosesNothing, AcceptStopped => AcceptStopped'
  PROVE  Lives'
<1> SUFFICES ASSUME NEW c \in Ids
             PROVE  /\ (Object(c) = "unborn" => ~Connected(c) /\ Disconnects(c) = 0)'
                    /\ (Object(c) = "live" =>
                         /\ Connected(c) => Disconnects(c) = 0
                         /\ ~Connected(c) =>
                              Disconnects(c) = 1 \/ (Disconnects(c) = 0 /\ Runs("closing", c)))'
                    /\ (Gone(c) =>
                         /\ ~Connected(c)
                         /\ Disconnects(c) <= (IF AcceptStopped THEN 2 ELSE 1)
                         /\ Disconnects(c) > 0 \/ (AcceptStopped /\ Runs("closing", c)))'
                    /\ (Runs("close", c) => Connected(c) \/ Gone(c))'
                    /\ (Runs("closing", c) =>
                         \/ Gone(c)
                         \/ Object(c) = "live" /\ ~Connected(c) /\ Disconnects(c) = 0)'
  BY DEF Lives
<1>1. /\ Object(c)' = Object(c) /\ Connected(c)' = Connected(c)
      /\ Disconnects(c)' = Disconnects(c) /\ Gone(c)' = Gone(c)
  BY DEF SameLives, SameLife, Object, Connected, Disconnects, Gone
<1>2. Disconnects(c) \in Nat
  BY DEF ServerInv, ServerTypeOK, Session, Disconnects
<1>3. /\ Runs("closing", c) <=> Runs("closing", c)'
      /\ Runs("close", c)' => Runs("close", c) \/ Connected(c) \/ Gone(c)
  BY DEF ClosesNothing
<1>4. /\ Object(c) = "unborn" => ~Connected(c) /\ Disconnects(c) = 0
      /\ Object(c) = "live" =>
           /\ Connected(c) => Disconnects(c) = 0
           /\ ~Connected(c) =>
                Disconnects(c) = 1 \/ (Disconnects(c) = 0 /\ Runs("closing", c))
      /\ Gone(c) =>
           /\ ~Connected(c)
           /\ Disconnects(c) <= (IF AcceptStopped THEN 2 ELSE 1)
           /\ Disconnects(c) > 0 \/ (AcceptStopped /\ Runs("closing", c))
      /\ Runs("close", c) => Connected(c) \/ Gone(c)
      /\ Runs("closing", c) =>
           \/ Gone(c)
           \/ Object(c) = "live" /\ ~Connected(c) /\ Disconnects(c) = 0
  BY DEF ServerInv, Lives
<1> QED
  BY <1>1, <1>2, <1>3, <1>4

-----------------------------------------------------------------------------
(* The accept thread.                                                      *)

LEMMA AcceptStep ==
  ASSUME ServerInv, AcceptThread
  PROVE  ServerInv'
<1>0. /\ UNCHANGED << queue, running, stopped, checkArmed, app >>
      /\ accept \in [at : {"do_connect", "accept", "last", "construct", "insert",
                           "start", "arm", "do_read", "exit", "terminated"},
                     id : Int, early : BOOLEAN]
      /\ m_session \in [Ids -> {"none", "null", "session"}]
      /\ session \in [Ids -> Session]
      /\ Ids = BaseId .. LastId /\ BaseId \in Nat /\ LastId \in Nat
  BY IdsAssumption DEF AcceptThread, DoConnect, HandleConnect, Construct, Insert,
     StartSession, AcceptEnds, loopVars, ServerInv, ServerTypeOK, Ids
<1>1. Homed'
  BY <1>0 DEF ServerInv, Homed
<1>2. ClosesNothing /\ (AcceptStopped <=> AcceptStopped')
  BY <1>0 DEF ClosesNothing, Runs, AcceptStopped
<1>3. UNCHANGED session => SameLives
  BY <1>0 DEF SameLives, SameLife
<1>4. CASE DoConnect
  <2>1. ServerTypeOK'
    BY <1>0, <1>4 DEF ServerInv, ServerTypeOK, DoConnect
  <2>2. Accepting'
    BY <1>0, <1>4 DEF ServerInv, Accepting, DoConnect, Object
  <2>3. Tables'
    BY <1>0, <1>4 DEF ServerInv, Accepting, Tables, DoConnect, Object, Cleared,
       AcceptStopped, Newest
  <2>4. Lives'
    BY <1>2, <1>3, <1>4, LivesKept DEF DoConnect
  <2> QED
    BY <1>1, <2>1, <2>2, <2>3, <2>4 DEF ServerInv
<1>5. CASE HandleConnect
  <2>1. ServerTypeOK'
    BY <1>0, <1>5 DEF ServerInv, ServerTypeOK, HandleConnect, Goto
  <2>2. Accepting'
    <3>1. /\ accept.at = "accept" /\ accept.id \in Ids /\ UNCHANGED session
          /\ Object(accept.id) = "unborn" /\ m_session[accept.id] = "none"
          /\ \A c \in Ids : c > accept.id => Object(c) = "unborn" /\ m_session[c] = "none"
      BY <1>0, <1>5 DEF ServerInv, Accepting, HandleConnect
    <3>2. CASE (Goto("do_connect") \/ Goto("terminated")) /\ UNCHANGED m_session
      <4>1. accept'.at \in {"do_connect", "terminated"} /\ accept'.id = accept.id
        BY <1>0, <3>2 DEF Goto
      <4> QED
        BY <1>0, <3>1, <3>2, <4>1 DEF Accepting, Object
    <3>3. CASE \E e \in BOOLEAN :
                 /\ accept' = [accept EXCEPT !.at = "construct", !.early = e]
                 /\ m_session' = IF e THEN [m_session EXCEPT ![accept.id] = "null"]
                                      ELSE m_session
      <4>1. PICK e \in BOOLEAN :
              /\ accept' = [accept EXCEPT !.at = "construct", !.early = e]
              /\ m_session' = IF e THEN [m_session EXCEPT ![accept.id] = "null"]
                                   ELSE m_session
        BY <3>3
      <4>2. accept'.at = "construct" /\ accept'.id = accept.id
        BY <1>0, <4>1
      <4>3. /\ m_session'[accept.id] \in {"none", "null"}
            /\ \A c \in Ids : c # accept.id => m_session'[c] = m_session[c]
        BY <1>0, <3>1, <4>1
      <4> QED
        BY <1>0, <3>1, <4>2, <4>3 DEF Accepting, Object
    <3> QED
      BY <1>5, <3>2, <3>3 DEF HandleConnect
  <2>3. Tables'
    <3>1. ~AcceptStopped /\ app.at # "close" /\ ~AcceptStopped'
      BY <1>2, <1>5 DEF HandleConnect, AcceptStopped
    <3>2. \A c \in Ids : m_session[c] # m_session'[c] =>
             c = accept.id /\ m_session'[c] = "null" /\ Object(c) = "unborn"
      BY <1>0, <1>5 DEF HandleConnect, ServerInv, Accepting
    <3>3. accept.at = "accept" /\ accept'.at \in {"do_connect", "construct", "terminated"}
          /\ accept'.id = accept.id /\ UNCHANGED session
      BY <1>0, <1>5 DEF HandleConnect, Goto
    <3>4. app.at \notin {"join_accept", "stopped"}
      BY <3>1 DEF AcceptStopped
    <3> QED
      BY <1>0, <3>1, <3>2, <3>3, <3>4 DEF ServerInv, Tables, Object, Cleared
  <2>4. Lives'
    BY <1>2, <1>3, <1>5, LivesKept DEF HandleConnect
  <2> QED
    BY <1>1, <2>1, <2>2, <2>3, <2>4 DEF ServerInv
<1>6. CASE Construct
  <2>1. accept.at = "construct" /\ accept.id \in Ids /\ UNCHANGED m_session
    BY <1>6 DEF Construct, ServerInv, Accepting
  <2>2. CASE /\ session' = [session EXCEPT ![accept.id].object = "live",
                                          ![accept.id].m_is_connected = TRUE]
             /\ Goto("insert")
    <3>1. /\ accept.at = "construct" /\ accept.id \in Ids
          /\ accept' = [accept EXCEPT !.at = "insert"]
          /\ UNCHANGED m_session
          /\ Object(accept.id) = "unborn" /\ m_session[accept.id] # "session"
          /\ Object(accept.id)' = "live" /\ Connected(accept.id)'
          /\ Disconnects(accept.id)' = 0
          /\ session'[accept.id] \in Session
          /\ \A c \in Ids : c # accept.id => session'[c] = session[c]
          /\ session' \in [Ids -> Session]
      <4>1. /\ accept.at = "construct" /\ accept.id \in Ids
            /\ accept' = [accept EXCEPT !.at = "insert"]
            /\ UNCHANGED m_session
            /\ session' = [session EXCEPT ![accept.id].object = "live",
                                         ![accept.id].m_is_connected = TRUE]
        BY <2>1, <2>2 DEF Goto
      <4>2. Object(accept.id) = "unborn" /\ m_session[accept.id] # "session"
        BY <4>1 DEF ServerInv, Accepting
      <4>3. Disconnects(accept.id) = 0
        BY <4>1, <4>2 DEF ServerInv, Lives
      <4>4. session'[accept.id] = [session[accept.id] EXCEPT !.object = "live",
                                                            !.m_is_connected = TRUE]
        BY <1>0, <4>1
      <4>5. session[accept.id] \in Session
        BY <1>0, <4>1
      <4>6. session'[accept.id] \in Session
        BY <4>4, <4>5 DEF Session
      <4>7. /\ \A c \in Ids : c # accept.id => session'[c] = session[c]
            /\ session' \in [Ids -> Session]
        BY <1>0, <4>1, <4>4, <4>6
      <4>8. /\ session'[accept.id].object = "live"
            /\ session'[accept.id].m_is_connected
            /\ session'[accept.id].disconnects = 0
        BY <4>3, <4>4, <4>5 DEF Session, Disconnects
      <4>9. accept'.id = accept.id
        BY <1>0, <4>1
      <4> QED
        BY <4>1, <4>2, <4>6, <4>7, <4>8, <4>9 DEF Object, Connected, Disconnects
    <3>2. ServerTypeOK'
      BY <1>0, <3>1 DEF ServerInv, ServerTypeOK
    <3>3. Accepting'
      BY <1>0, <3>1 DEF ServerInv, Accepting, Object
    <3>4. Tables'
      <4>1. \A c \in Ids : c # accept.id /\ Object(c) = "live" => ~Cleared(Owner(c))
        BY <3>1 DEF ServerInv, Tables, Newest
      <4> QED
        BY <1>0, <3>1, <4>1 DEF ServerInv, Tables, Object, Cleared, AcceptStopped, Newest
    <3>5. Lives'
      <4>1. ~Runs("closing", accept.id)
        BY <3>1 DEF ServerInv, Lives, Gone, Object
      <4> QED
        BY <1>0, <1>2, <3>1, <4>1, SMTT(30) DEF ServerInv, Lives, Object, Connected, Disconnects,
           Gone, Runs
    <3> QED
      BY <1>1, <3>2, <3>3, <3>4, <3>5 DEF ServerInv
  <2>3. CASE Goto("terminated") /\ UNCHANGED session
    <3>1. accept'.at = "terminated" /\ accept'.id = accept.id
      BY <1>0, <2>3 DEF Goto
    <3>2. ServerTypeOK'
      BY <1>0, <2>1, <2>3 DEF ServerInv, ServerTypeOK, Goto
    <3>3. Accepting'
      BY <1>0, <2>1, <2>3, <3>1 DEF ServerInv, Accepting, Object
    <3>4. Tables'
      BY <1>0, <2>1, <2>3, <3>1 DEF ServerInv, Tables, Object, Cleared, AcceptStopped, Newest
    <3>5. Lives'
      BY <1>2, <1>3, <2>1, <2>3, LivesKept
    <3> QED
      BY <1>1, <3>2, <3>3, <3>4, <3>5 DEF ServerInv
  <2> QED
    BY <1>6, <2>2, <2>3 DEF Construct
<1>7. CASE Insert
  <2>1. /\ accept.at = "insert" /\ accept.id \in Ids
        /\ accept' = [accept EXCEPT !.at = "start", !.early = FALSE]
        /\ m_session' = [m_session EXCEPT ![accept.id] = "session"]
        /\ UNCHANGED session
        /\ Object(accept.id) = "live"
    BY <1>7 DEF Insert, ServerInv, Accepting
  <2>2. ServerTypeOK'
    BY <1>0, <2>1 DEF ServerInv, ServerTypeOK
  <2>3. Accepting'
    BY <1>0, <2>1 DEF ServerInv, Accepting, Object
  <2>4. Tables'
    BY <1>0, <2>1 DEF ServerInv, Tables, Object, Cleared, AcceptStopped, Newest
  <2>5. Lives'
    BY <1>2, <1>3, <2>1, LivesKept
  <2> QED
    BY <1>1, <2>2, <2>3, <2>4, <2>5 DEF ServerInv
<1>8. CASE StartSession
  <2>1. /\ accept.at \in {"start", "arm", "do_read"} /\ accept.id \in Ids
        /\ accept'.at \in {"arm", "do_read", "do_connect"} /\ accept'.id = accept.id
        /\ accept' \in [at : {"do_connect", "accept", "last", "construct", "insert",
                              "start", "arm", "do_read", "exit", "terminated"},
                        id : Int, early : BOOLEAN]
        /\ UNCHANGED m_session
    BY <1>0, <1>8 DEF StartSession, Goto, ServerInv, Accepting
  <2>2. SameLives
    <3>1. session[accept.id] \in Session
      BY <1>0, <2>1
    <3> DEFINE c == accept.id
    <3>2. PICK i \in Ids : c = i
      BY <2>1
    <3>3. CASE accept.at = "start"
      <4>1. PICK s \in DoWrite(session[c]) : Became(c, s)
        BY <1>8, <3>3 DEF StartSession
      <4>2. SameLife(session[c], s)
        BY <3>1, <4>1, DoWriteSame
      <4> QED
        BY <3>2, <4>1, <4>2, BecameSame DEF Became
    <3>4. CASE accept.at = "arm"
      <4>1. Became(c, Arm(session[c]))
        BY <1>8, <3>4 DEF StartSession
      <4>2. SameLife(session[c], Arm(session[c]))
        BY <3>1, StartSame DEF Arm, Operations
      <4> QED
        BY <3>2, <4>1, <4>2, BecameSame DEF Became
    <3>5. CASE accept.at = "do_read"
      <4>1. Became(c, DoRead(session[c]))
        BY <1>8, <3>5 DEF StartSession
      <4>2. SameLife(session[c], DoRead(session[c]))
        BY <3>1, DoReadSame
      <4> QED
        BY <3>2, <4>1, <4>2, BecameSame DEF Became
    <3> QED
      BY <2>1, <3>3, <3>4, <3>5
  <2>3. ServerTypeOK'
    BY <1>0, <2>1, <2>2 DEF ServerInv, ServerTypeOK, SameLives
  <2>4. Accepting'
    BY <1>0, <2>1, <2>2 DEF ServerInv, Accepting, Object, SameLives, SameLife, Ids
  <2>5. Tables'
    BY <1>0, <2>1, <2>2 DEF ServerInv, Tables, Object, Cleared, AcceptStopped, Newest,
       SameLives, SameLife
  <2>6. Lives'
    BY <1>2, <2>2, LivesKept
  <2> QED
    BY <1>1, <2>3, <2>4, <2>5, <2>6 DEF ServerInv
<1>9. CASE AcceptEnds
  <2>1. ServerTypeOK'
    BY <1>0, <1>9 DEF ServerInv, ServerTypeOK, AcceptEnds, Goto
  <2>2. Accepting'
    BY <1>0, <1>9 DEF ServerInv, Accepting, AcceptEnds, Object, Goto
  <2>3. Tables'
    BY <1>0, <1>9 DEF ServerInv, Tables, AcceptEnds, Object, Cleared,
       AcceptStopped, Newest, Goto
  <2>4. Lives'
    BY <1>2, <1>3, <1>9, LivesKept DEF AcceptEnds
  <2> QED
    BY <1>1, <2>1, <2>2, <2>3, <2>4 DEF ServerInv
<1> QED
  BY <1>4, <1>5, <1>6, <1>7, <1>8, <1>9 DEF AcceptThread

-----------------------------------------------------------------------------
(* The reactor and the managers' threads.                                  *)

LEMMA CalmStep ==
  ASSUME ServerInv, SameLives, ClosesNothing, UNCHANGED << m_session, accept, app >>
  PROVE  /\ Accepting' /\ Tables' /\ Lives'
         /\ session' \in [Ids -> Session]
<1>1. AcceptStopped => AcceptStopped'
  BY DEF AcceptStopped
<1> QED
  BY <1>1, AcceptingKept, TablesKept, LivesKept DEF SameLives

LEMMA ReactorStep ==
  ASSUME ServerInv,
         \/ \E m \in Manager : CheckExpires(m)
         \/ \E c \in Ids : OperationEnds(c)
  PROVE  ServerInv'
<1>0. /\ UNCHANGED << m_session, running, stopped, accept, app >>
      /\ session \in [Ids -> Session]
      /\ queue \in [Manager -> Seq(Handlers)]
      /\ \A m \in Manager : queue[m] \in Seq(Home(m))
      /\ ClosesNothing
  BY DEF CheckExpires, OperationEnds, ServerInv, ServerTypeOK, Homed, ClosesNothing, Runs
<1>1. ASSUME NEW m \in Manager, CheckExpires(m)
      PROVE  ServerInv'
  <2>1. Append(queue[m], << "check", NoOne >>) \in Seq(Home(m))
    BY <1>0, CheckIsHome, AppendSeq
  <2>2. Append(queue[m], << "check", NoOne >>) \in Seq(Handlers)
    BY <2>1, HomeSeqIsHandlerSeq
  <2>3. /\ queue' \in [Manager -> Seq(Handlers)]
        /\ \A n \in Manager : queue'[n] \in Seq(Home(n))
    BY <1>0, <1>1, <2>1, <2>2 DEF CheckExpires
  <2>4. SameLives
    BY <1>0, <1>1 DEF CheckExpires, SameLives, SameLife
  <2>5. Accepting' /\ Tables' /\ Lives' /\ session' \in [Ids -> Session]
    BY <1>0, <2>4, CalmStep
  <2>6. ServerTypeOK' /\ Homed'
    BY <1>0, <1>1, <2>3, <2>5 DEF CheckExpires, ServerInv, ServerTypeOK, Homed
  <2> QED
    BY <2>5, <2>6 DEF ServerInv
<1>2. ASSUME NEW c \in Ids, OperationEnds(c)
      PROVE  ServerInv'
  <2>1. PICK op \in session[c].pending : \E h \in Outcomes(op) :
          session' = [session EXCEPT ![c].pending = @ \ {op}] /\ Post(<< h, c >>)
    BY <1>2 DEF OperationEnds
  <2>2. PICK h \in Outcomes(op) :
          session' = [session EXCEPT ![c].pending = @ \ {op}] /\ Post(<< h, c >>)
    BY <2>1
  <2>3. op \in Operations /\ h \in Kinds
    BY <1>0, <2>2 DEF Session, Operations, Outcomes, Kinds
  <2>4. SameLives
    BY <1>0, <2>2 DEF SameLives, SameLife, Session
  <2>5. /\ queue' \in [Manager -> Seq(Handlers)]
        /\ \A n \in Manager : queue'[n] \in Seq(Home(n))
    BY <2>2, <2>3, PostHome
  <2>6. Accepting' /\ Tables' /\ Lives' /\ session' \in [Ids -> Session]
    BY <1>0, <2>4, CalmStep
  <2>7. ServerTypeOK' /\ Homed'
    BY <1>0, <1>2, <2>5, <2>6 DEF OperationEnds, ServerInv, ServerTypeOK, Homed
  <2> QED
    BY <2>6, <2>7 DEF ServerInv
<1> QED
  BY <1>1, <1>2

LEMMA BeginStep ==
  ASSUME ServerInv, NEW m \in Manager, Begin(m)
  PROVE  ServerInv'
<1> DEFINE h == Head(queue[m])
<1>0. /\ UNCHANGED << m_session, session, stopped, checkArmed, accept, app >>
      /\ queue \in [Manager -> Seq(Handlers)] /\ running \in [Manager -> Steps]
      /\ \A n \in Manager : queue[n] \in Seq(Home(n))
      /\ queue[m] # << >>
      /\ running[m] = Idle
  BY DEF Begin, ServerInv, ServerTypeOK, Homed
<1>1. h \in Home(m) /\ Tail(queue[m]) \in Seq(Home(m))
  <2> HIDE DEF Home
  <2> QED
    BY <1>0
<1>2. h \in Handlers /\ Tail(queue[m]) \in Seq(Handlers)
  BY <1>1, HomeSeqIsHandlerSeq DEF Home
<1>3. /\ queue' = [queue EXCEPT ![m] = Tail(@)]
      /\ running' = [running EXCEPT ![m] =
           IF h[1] = "close" /\ ~Gone(h[2]) /\ ~Connected(h[2]) THEN Idle ELSE h]
  BY DEF Begin
<1>4. /\ running' \in [Manager -> Steps]
      /\ \A n \in Manager : running'[n][2] # NoOne => Owner(running'[n][2]) = n
  <2>1. h \in Steps /\ Idle \in Steps /\ Idle[2] = NoOne /\ (h[2] # NoOne => Owner(h[2]) = m)
    BY <1>1, <1>2 DEF Steps, Idle, Home
  <2> HIDE DEF h
  <2> QED
    BY <1>0, <1>3, <2>1 DEF ServerInv, Homed
<1>5. /\ queue' \in [Manager -> Seq(Handlers)]
      /\ \A n \in Manager : queue'[n] \in Seq(Home(n))
  BY <1>0, <1>1, <1>2, <1>3
<1>6. ClosesNothing
  <2>1. ASSUME NEW c \in Ids
        PROVE  /\ Runs("closing", c) <=> Runs("closing", c)'
               /\ Runs("close", c)' => Runs("close", c) \/ Connected(c) \/ Gone(c)
    <3>1. /\ h # << "closing", c >>
          /\ Idle \notin {<< "closing", c >>, << "close", c >>}
          /\ h = << "close", c >> => h[1] = "close" /\ h[2] = c
      BY <1>2 DEF Handlers, Kinds, Idle
    <3>2. CASE Owner(c) = m
      BY <1>0, <1>3, <3>1, <3>2 DEF Runs
    <3>3. CASE Owner(c) # m
      BY <1>0, <1>3, <3>3, IdsAreNat, OwnerIsManager DEF Runs
    <3> QED
      BY <3>2, <3>3
  <2> QED
    BY <2>1 DEF ClosesNothing
<1>7. SameLives
  BY <1>0 DEF SameLives, SameLife, ServerInv, ServerTypeOK
<1>8. Accepting' /\ Tables' /\ Lives' /\ session' \in [Ids -> Session]
  BY <1>0, <1>6, <1>7, CalmStep
<1>9. ServerTypeOK' /\ Homed'
  BY <1>0, <1>4, <1>5, <1>8 DEF ServerInv, ServerTypeOK, Homed
<1> QED
  BY <1>8, <1>9 DEF ServerInv

\* A handler other than handle_close.
LEMMA HandlerStep ==
  ASSUME ServerInv, NEW m \in Manager, NEW c \in Ids,
         NEW k \in {"read", "write", "hbsend", "hbhandle", "error"},
         running[m] = << k, c >>,
         running' = [running EXCEPT ![m] = Idle],
         UNCHANGED << m_session, stopped, checkArmed, accept, app >>,
         SameLives,
         UNCHANGED queue \/ Post(<< "close", c >>)
  PROVE  ServerInv'
<1>1. /\ queue' \in [Manager -> Seq(Handlers)]
      /\ \A n \in Manager : queue'[n] \in Seq(Home(n))
  <2>1. CASE UNCHANGED queue
    BY <2>1 DEF ServerInv, ServerTypeOK, Homed
  <2>2. CASE Post(<< "close", c >>)
    BY <2>2, PostHome DEF Kinds
  <2> QED
    BY <2>1, <2>2
<1>2. running \in [Manager -> Steps] /\ Idle \in Steps /\ Idle[2] = NoOne
  BY DEF ServerInv, ServerTypeOK, Steps, Idle
<1>3. ClosesNothing
  <2>1. ASSUME NEW d \in Ids
        PROVE  /\ Runs("closing", d) <=> Runs("closing", d)'
               /\ Runs("close", d)' => Runs("close", d)
    <3>1. /\ running[m] \notin {<< "closing", d >>, << "close", d >>}
          /\ Idle \notin {<< "closing", d >>, << "close", d >>}
      BY DEF Idle
    <3> QED
      BY <1>2, <3>1, IdsAreNat, OwnerIsManager DEF Runs
  <2> QED
    BY <2>1 DEF ClosesNothing
<1>4. Accepting' /\ Tables' /\ Lives' /\ session' \in [Ids -> Session]
  BY <1>3, CalmStep
<1>5. ServerTypeOK' /\ Homed'
  BY <1>1, <1>2, <1>4 DEF ServerInv, ServerTypeOK, Homed
<1> QED
  BY <1>4, <1>5 DEF ServerInv

\* What Accepting and Tables tell apart of the sessions is who is alive.
LEMMA ObjectsKept ==
  ASSUME ServerInv, UNCHANGED << m_session, accept, app >>,
         \A c \in Ids : Object(c)' = Object(c)
  PROVE  Accepting' /\ Tables'
BY DEF ServerInv, Accepting, Tables, Object, Cleared, AcceptStopped, Newest

LEMMA ClosedFacts ==
  ASSUME ServerInv, NEW c \in Ids
  PROVE  /\ Closed(c) \in Session
         /\ Closed(c).object = Object(c)
         /\ ~Closed(c).m_is_connected
         /\ Closed(c).disconnects = Disconnects(c) + 1
<1>1. session[c] \in Session
  BY DEF ServerInv, ServerTypeOK
<1> DEFINE s == Close(session[c])
<1>2. /\ s \in Session /\ s.object = Object(c) /\ ~s.m_is_connected
      /\ s.disconnects = Disconnects(c)
  BY <1>1 DEF Close, Session, Object, Disconnects
<1>3. Closed(c) = [s EXCEPT !.disconnects = @ + 1]
  BY DEF Closed
<1> HIDE DEF s
<1> QED
  BY <1>2, <1>3 DEF Session

\* The two steps of handle_close.
LEMMA CloseStep ==
  ASSUME ServerInv, ~Over, NEW m \in Manager, NEW c \in Ids,
         End(m, "close", c, HandleClose(c)) \/ End(m, "closing", c, Closing(c))
  PROVE  ServerInv'
<1>0. /\ UNCHANGED << m_session, stopped, checkArmed, accept, app >>
      /\ running \in [Manager -> Steps] /\ session \in [Ids -> Session]
      /\ running[m] \in {<< "close", c >>, << "closing", c >>}
      /\ Owner(c) = m
  <2>1. running[m] \in {<< "close", c >>, << "closing", c >>}
    BY DEF End
  <2>2. running[m][2] = c /\ c # NoOne
    BY <2>1, IdsAreNat
  <2>3. Owner(c) = m
    BY <2>2 DEF ServerInv, Homed
  <2> QED
    BY <2>1, <2>3 DEF End, ServerInv, ServerTypeOK
<1>1. ~Gone(c)
  <2>1. running[m][2] = c
    BY <1>0
  <2> QED
    BY <2>1 DEF Over, Undefined, UseAfterFree
<1>2. AcceptStopped' = AcceptStopped
  BY <1>0 DEF AcceptStopped
<1>3. /\ << "closing", c >> \in Steps /\ Idle \in Steps /\ Idle[2] = NoOne
  BY DEF Steps, Idle
<1>4. \A d \in Ids : d # c => << "closing", d >> # << "closing", c >>
                              /\ << "close", d >> # << "close", c >>
                              /\ << "closing", d >> # << "close", c >>
                              /\ << "close", d >> # << "closing", c >>
  OBVIOUS
<1>5. \A d \in Ids : /\ << "closing", d >> # << "close", c >>
                     /\ Idle \notin {<< "closing", d >>, << "close", d >>}
                     /\ << "close", d >> # << "closing", c >>
  BY DEF Idle
<1>6. CASE End(m, "close", c, HandleClose(c))
  <2>1. /\ running[m] = << "close", c >>
        /\ running' = [running EXCEPT ![m] = << "closing", c >>]
        /\ session' = [session EXCEPT ![c] = [session[c] EXCEPT !.m_is_connected = FALSE]]
        /\ UNCHANGED queue
    BY <1>6 DEF End, HandleClose, Became
  <2>2. Connected(c) /\ Object(c) = "live" /\ Disconnects(c) = 0
    <3>1. Connected(c)
      BY <1>0, <1>1, <2>1 DEF ServerInv, Lives, Runs
    <3>2. Object(c) \in {"unborn", "live", "destroyed"}
      BY <1>0 DEF Session, Object
    <3> QED
      BY <1>1, <3>1, <3>2 DEF ServerInv, Lives, Gone, Object
  <2>3. /\ session' \in [Ids -> Session]
        /\ Object(c)' = "live" /\ ~Connected(c)' /\ Disconnects(c)' = 0
        /\ \A d \in Ids : d # c => session'[d] = session[d]
    BY <1>0, <2>1, <2>2 DEF Session, Object, Connected, Disconnects
  <2>4. Accepting' /\ Tables'
    <3>1. \A d \in Ids : Object(d)' = Object(d)
      BY <2>2, <2>3 DEF Object
    <3> QED
      BY <1>0, <3>1, ObjectsKept
  <2>5. /\ Runs("closing", c)' /\ ~Runs("close", c)'
        /\ \A d \in Ids : d # c => /\ Runs("closing", d)' = Runs("closing", d)
                                   /\ Runs("close", d)' => Runs("close", d)
    BY <1>0, <1>4, <1>5, <2>1, IdsAreNat, OwnerIsManager DEF Runs
  <2>6. Lives'
    BY <1>2, <2>3, <2>5 DEF ServerInv, Lives, Object, Connected, Disconnects, Gone
  <2>7. ServerTypeOK' /\ Homed'
    BY <1>0, <1>3, <2>1, <2>3 DEF ServerInv, ServerTypeOK, Homed
  <2> QED
    BY <2>4, <2>6, <2>7 DEF ServerInv
<1>7. CASE End(m, "closing", c, Closing(c))
  <2>1. /\ running[m] = << "closing", c >>
        /\ running' = [running EXCEPT ![m] = Idle]
        /\ session' = [session EXCEPT ![c] = Closed(c)]
        /\ queue' = [queue EXCEPT ![Owner(c)] = Aborted(c, @)]
    BY <1>7 DEF End, Closing, Became
  <2>2. ~Connected(c) /\ Object(c) = "live" /\ Disconnects(c) = 0
    BY <1>0, <1>1, <2>1 DEF ServerInv, Lives, Runs
  <2>3. /\ session' \in [Ids -> Session]
        /\ Object(c)' = "live" /\ ~Connected(c)' /\ Disconnects(c)' = 1
        /\ \A d \in Ids : d # c => session'[d] = session[d]
    BY <1>0, <2>1, <2>2, ClosedFacts DEF Object, Connected, Disconnects
  <2>4. Accepting' /\ Tables'
    <3>1. \A d \in Ids : Object(d)' = Object(d)
      BY <2>2, <2>3 DEF Object
    <3> QED
      BY <1>0, <3>1, ObjectsKept
  <2>5. /\ ~Runs("closing", c)' /\ ~Runs("close", c)'
        /\ \A d \in Ids : d # c => /\ Runs("closing", d)' = Runs("closing", d)
                                   /\ Runs("close", d)' => Runs("close", d)
    BY <1>0, <1>4, <1>5, <2>1, IdsAreNat, OwnerIsManager, SMTT(30) DEF Runs
  <2>6. Lives'
    BY <1>2, <2>3, <2>5 DEF ServerInv, Lives, Object, Connected, Disconnects, Gone
  <2>7. /\ queue' \in [Manager -> Seq(Handlers)]
        /\ \A n \in Manager : queue'[n] \in Seq(Home(n))
    BY <2>1, AbortedHome
  <2>8. ServerTypeOK' /\ Homed'
    BY <1>0, <1>3, <2>1, <2>3, <2>7 DEF ServerInv, ServerTypeOK, Homed
  <2> QED
    BY <2>4, <2>6, <2>8 DEF ServerInv
<1> QED
  BY <1>6, <1>7

LEMMA DestroyedFacts ==
  ASSUME ServerInv, NEW c \in Ids
  PROVE  /\ Destroyed(c) \in Session
         /\ Destroyed(c).object = "destroyed"
         /\ Destroyed(c).m_is_connected = Connected(c)
         /\ Destroyed(c).disconnects = Disconnects(c)
BY ZenonT(60) DEF ServerInv, ServerTypeOK, Session, Destroyed, Connected, Disconnects

LEMMA CheckStep ==
  ASSUME ServerInv, NEW m \in Manager, CheckSession(m)
  PROVE  ServerInv'
<1>0. /\ UNCHANGED << queue, stopped, accept, app >>
      /\ session \in [Ids -> Session] /\ running \in [Manager -> Steps]
      /\ m_session \in [Ids -> {"none", "null", "session"}]
      /\ Idle \in Steps /\ Idle[2] = NoOne
      /\ running[m][1] = "check"
      /\ running' = [running EXCEPT ![m] = Idle]
      /\ checkArmed' = checkArmed \cup {m}
      /\ m_session' = [c \in Ids |-> IF c \in Reapable(m) THEN "none" ELSE m_session[c]]
      /\ session' = [c \in Ids |-> IF c \in Reapable(m) THEN Destroyed(c) ELSE session[c]]
  BY DEF CheckSession, ServerInv, ServerTypeOK, Steps, Idle
<1>1. ASSUME NEW c \in Reapable(m)
      PROVE  /\ c \in Ids /\ Owner(c) = m /\ m_session[c] = "session" /\ ~Connected(c)
             /\ Object(c) = "live" /\ Disconnects(c) = 1
             /\ ~(accept.id = c /\ accept.at \in {"accept", "last", "exit", "construct",
                                                  "insert"})
             /\ ~(accept.id < c)
             /\ ~(app.at = "close" /\ app.id = c)
  <2>1. c \in Ids /\ Owner(c) = m /\ m_session[c] = "session" /\ ~Connected(c)
    BY DEF Reapable
  <2>2. Object(c) = "live"
    BY <2>1 DEF ServerInv, Tables
  <2>3. ~Runs("closing", c)
    BY <1>0, <2>1 DEF Runs
  <2>4. Disconnects(c) = 1
    BY <2>1, <2>2, <2>3 DEF ServerInv, Lives
  <2>5. accept.id \in Int /\ c \in Int
    BY <2>1, IdsAreNat DEF ServerInv, ServerTypeOK
  <2>6. /\ ~(accept.id = c /\ accept.at \in {"accept", "last", "exit", "construct", "insert"})
        /\ ~(accept.id < c)
    BY <2>1, <2>5 DEF ServerInv, Accepting
  <2>7. ~(app.at = "close" /\ app.id = c)
    BY <2>1 DEF ServerInv, Tables
  <2> QED
    BY <2>1, <2>2, <2>4, <2>6, <2>7
<1>2. ASSUME NEW c \in Ids
      PROVE  /\ session'[c] \in Session
             /\ c \in Reapable(m) => /\ m_session'[c] = "none" /\ Gone(c)' /\ ~Connected(c)'
                                     /\ Object(c)' = "destroyed"
                                     /\ Disconnects(c)' = 1
             /\ c \notin Reapable(m) => /\ m_session'[c] = m_session[c]
                                        /\ session'[c] = session[c]
  BY <1>0, <1>1, DestroyedFacts DEF Object, Gone, Connected, Disconnects
<1>3. session' \in [Ids -> Session] /\ m_session' \in [Ids -> {"none", "null", "session"}]
  BY <1>0, <1>2
<1>4. ServerTypeOK' /\ Homed'
  BY <1>0, <1>3 DEF ServerInv, ServerTypeOK, Homed
<1>5. Accepting'
  <2>1. \A c \in Ids : c > accept.id => ~(c \in Reapable(m))
    <3>1. accept.id \in Int
      BY DEF ServerInv, ServerTypeOK
    <3> QED
      BY <1>1, <3>1, IdsAreNat
  <2> QED
    BY <1>0, <1>1, <1>2, <2>1 DEF ServerInv, Accepting, Object
<1>6. Tables'
  <2>1. \A c \in Ids : Object(c)' = "live" => c \notin Reapable(m)
    BY <1>2
  <2> QED
    BY <1>0, <1>1, <1>2, <2>1 DEF ServerInv, Tables, Object, Cleared, AcceptStopped, Newest
<1>7. Lives'
  <2>1. \A c \in Ids : /\ Runs("closing", c)' = Runs("closing", c)
                       /\ Runs("close", c)' = Runs("close", c)
    <3>1. ASSUME NEW c \in Ids
          PROVE  /\ Idle \notin {<< "closing", c >>, << "close", c >>}
                 /\ running[m] \notin {<< "closing", c >>, << "close", c >>}
      BY <1>0 DEF Idle
    <3> QED
      BY <1>0, <3>1, IdsAreNat, OwnerIsManager DEF Runs
  <2>2. \A c \in Reapable(m) : ~Runs("closing", c)
    <3>1. ASSUME NEW c \in Reapable(m) PROVE ~Runs("closing", c)
      BY <1>0, <1>1 DEF Runs
    <3> QED
      BY <3>1
  <2>3. AcceptStopped' = AcceptStopped
    BY <1>0 DEF AcceptStopped
  <2> QED
    BY <1>2, <2>1, <2>2, <2>3 DEF ServerInv, Lives, Object, Connected, Disconnects, Gone
<1> QED
  BY <1>4, <1>5, <1>6, <1>7 DEF ServerInv

LEMMA ManagerStep ==
  ASSUME ServerInv, ~Over, NEW m \in Manager, ManagerThread(m)
  PROVE  ServerInv'
<1>1. ASSUME NEW c \in Ids,
             \/ End(m, "read", c, HandleRead(c))
             \/ End(m, "write", c, HandleWrite(c))
             \/ End(m, "hbsend", c, HeartBeatSend(c))
             \/ End(m, "hbhandle", c, Stop(c))
             \/ End(m, "error", c, Stop(c))
      PROVE  ServerInv'
  <2>1. session[c] \in Session /\ session \in [Ids -> Session]
    BY DEF ServerInv, ServerTypeOK
  <2>2. UNCHANGED session => SameLives
    BY <2>1 DEF SameLives, SameLife
  <2>3. CASE End(m, "read", c, HandleRead(c))
    <3>1. PICK s \in AfterRead(session[c]) : Became(c, s)
      BY <2>3 DEF End, HandleRead
    <3>2. SameLives
      BY <2>1, <3>1, AfterReadSame, BecameSame
    <3> QED
      BY <2>3, <3>2, HandlerStep DEF End, HandleRead
  <2>4. CASE End(m, "write", c, HandleWrite(c))
    <3>1. PICK s \in AfterWrite(session[c]) : Became(c, s)
      BY <2>4 DEF End, HandleWrite
    <3>2. SameLives
      BY <2>1, <3>1, AfterWriteSame, BecameSame
    <3> QED
      BY <2>4, <3>2, HandlerStep DEF End, HandleWrite
  <2>5. CASE End(m, "hbsend", c, HeartBeatSend(c))
    <3>1. PICK s \in Beat(session[c]) : Became(c, s)
      BY <2>5 DEF End, HeartBeatSend
    <3>2. SameLives
      BY <2>1, <3>1, BeatSame, BecameSame
    <3> QED
      BY <2>5, <3>2, HandlerStep DEF End, HeartBeatSend
  <2>6. CASE End(m, "hbhandle", c, Stop(c)) \/ End(m, "error", c, Stop(c))
    <3>1. SameLives /\ Post(<< "close", c >>)
      BY <2>2, <2>6 DEF End, Stop
    <3> QED
      BY <2>6, <3>1, HandlerStep DEF End
  <2> QED
    BY <1>1, <2>3, <2>4, <2>5, <2>6
<1> QED
  BY <1>1, BeginStep, CheckStep, CloseStep DEF ManagerThread

-----------------------------------------------------------------------------
(* The application's thread.                                               *)

LEMMA SeqOfSet ==
  ASSUME NEW m \in Manager, NEW cs \in Orders(Entries(m, "session"))
  PROVE  [i \in DOMAIN cs |-> << "close", cs[i] >>] \in Seq(Home(m))
<1> DEFINE S == Entries(m, "session")
<1>1. IsFiniteSet(Ids)
  BY FS_Interval, IdsAssumption DEF Ids
<1>2. S \subseteq Ids /\ \A c \in S : Owner(c) = m
  BY DEF Entries
<1>3. Cardinality(S) \in Nat
  BY <1>1, <1>2, FS_Subset, FS_CardinalityType
<1>4. cs \in [1 .. Cardinality(S) -> S]
  BY DEF Orders, Funs!Bijection, Funs!Injection
<1>5. \A i \in DOMAIN cs : << "close", cs[i] >> \in Home(m)
  BY <1>2, <1>4, HandlerIsHome DEF Kinds
<1> HIDE DEF S
<1> QED
  BY <1>3, <1>4, <1>5

\* The application sends.
LEMMA SendStep ==
  ASSUME ServerInv,
         (\E c \in Ids : SendData(c)) \/ Deliver \/ AsyncWrite \/ StopServer
  PROVE  ServerInv'
<1>0. /\ UNCHANGED << m_session, running, stopped, checkArmed, accept >>
      /\ session \in [Ids -> Session]
      /\ app \in [at : {"idle", "deliver", "do_write", "async", "post", "clear", "close",
                        "halt", "join", "join_accept", "stopped"},
                  id : Ids \cup {NoOne}, manager : Manager]
      /\ ClosesNothing
  BY DEF SendData, Deliver, AsyncWrite, StopServer, loopVars, ServerInv, ServerTypeOK,
     ClosesNothing, Runs
<1>1. /\ app.at \in {"idle", "deliver", "do_write", "async"}
      /\ app' \in [at : {"idle", "deliver", "do_write", "async", "post"},
                   id : Ids \cup {NoOne}, manager : Manager]
      /\ app'.at \in {"deliver", "do_write", "async"} => app'.id \in Ids
      /\ app'.at = "post" => app'.manager = 0
  <2>1. CASE \E c \in Ids : SendData(c)
    <3>1. PICK k \in Ids : AppGoto("deliver", k)
      BY <2>1 DEF SendData, Key
    <3> QED
      BY <1>0, <2>1, <3>1 DEF SendData, AppGoto
  <2>2. CASE Deliver
    <3>1. app.at \in {"deliver", "do_write"} /\ app.id \in Ids
      BY <2>2 DEF Deliver, ServerInv, Tables
    <3> QED
      BY <1>0, <2>2, <3>1 DEF Deliver, AppGoto
  <2>3. CASE AsyncWrite
    BY <1>0, <2>3 DEF AsyncWrite, AppGoto
  <2>4. CASE StopServer
    BY <1>0, <2>4, ManagersAssumption DEF StopServer, StopAt, Manager
  <2> QED
    BY <2>1, <2>2, <2>3, <2>4
<1>2. /\ SameLives
      /\ queue' \in [Manager -> Seq(Handlers)]
      /\ \A n \in Manager : queue'[n] \in Seq(Home(n))
  <2>1. CASE AsyncWrite
    <3>1. app.id \in Ids
      BY <2>1 DEF AsyncWrite, ServerInv, Tables
    <3>2. PICK c \in Ids : c = app.id
      BY <3>1
    <3>3. PICK t \in StartWrite(session[c]) :
            IF SocketOpen(c) \/ t.sending = session[c].sending
            THEN Became(c, t) /\ UNCHANGED queue
            ELSE Became(c, [session[c] EXCEPT !.sending = TRUE]) /\ Post(<< "error", c >>)
      BY <2>1, <3>2 DEF AsyncWrite
    <3>4. session[c] \in Session
      BY <1>0
    <3>5. /\ SameLife(session[c], t)
          /\ SameLife(session[c], [session[c] EXCEPT !.sending = TRUE])
      BY <3>4, StartWriteSame DEF SameLife, Session
    <3>6. SameLives
      BY <3>3, <3>5, BecameSame
    <3>7. UNCHANGED queue \/ Post(<< "error", c >>)
      BY <3>3
    <3> QED
      BY <3>6, <3>7, PostHome DEF Kinds, ServerInv, ServerTypeOK, Homed
  <2>2. CASE ~AsyncWrite
    <3>1. UNCHANGED << session, queue >>
      BY <2>2 DEF SendData, Deliver, StopServer, loopVars
    <3> QED
      BY <3>1 DEF SameLives, SameLife, ServerInv, ServerTypeOK, Homed
  <2> QED
    BY <2>1, <2>2
<1>3. ~AcceptStopped
  BY <1>1 DEF AcceptStopped
<1>4. Accepting' /\ Lives'
  BY <1>0, <1>2, <1>3, AcceptingKept, LivesKept
<1>5. Tables'
  <2>1. ASSUME NEW c \in Ids
        PROVE  ~Cleared(Owner(c))'
    <3>1. Owner(c) \in Manager
      BY IdsAreNat, OwnerIsManager
    <3> QED
      BY <1>1, <3>1 DEF Cleared, AcceptStopped, Manager
  <2> QED
    BY <1>0, <1>1, <1>2, <2>1, ZenonT(60) DEF ServerInv, Tables, SameLives, SameLife, Object
<1>6. ServerTypeOK' /\ Homed'
  BY <1>0, <1>1, <1>2 DEF ServerInv, ServerTypeOK, Homed, SameLives
<1> QED
  BY <1>4, <1>5, <1>6 DEF ServerInv

\* The steps of tcpServer::stop that change no session.
LEMMA StopCalmStep ==
  ASSUME ServerInv, StopPost \/ StopHalt \/ StopJoin
  PROVE  ServerInv'
<1>0. /\ UNCHANGED << m_session, session, running, checkArmed, accept >>
      /\ session \in [Ids -> Session]
      /\ app \in [at : {"idle", "deliver", "do_write", "async", "post", "clear", "close",
                        "halt", "join", "join_accept", "stopped"},
                  id : Ids \cup {NoOne}, manager : Manager]
      /\ stopped \subseteq Manager
      /\ ClosesNothing
  BY DEF StopPost, StopHalt, StopJoin, loopVars, ServerInv, ServerTypeOK,
     ClosesNothing, Runs
<1>1. SameLives
  BY <1>0 DEF SameLives, SameLife
<1>2. /\ queue' \in [Manager -> Seq(Handlers)]
      /\ \A n \in Manager : queue'[n] \in Seq(Home(n))
  <2>1. CASE StopPost
    <3>1. PICK m \in Manager : m = app.manager
      BY <1>0
    <3>2. PICK cs \in Orders(Entries(m, "session")) :
            queue' = [queue EXCEPT ![m] = @ \o [i \in DOMAIN cs |-> << "close", cs[i] >>]]
      BY <2>1, <3>1 DEF StopPost
    <3> DEFINE more == [i \in DOMAIN cs |-> << "close", cs[i] >>]
    <3>3. more \in Seq(Home(m))
      BY SeqOfSet
    <3> HIDE DEF more
    <3>4. queue \in [Manager -> Seq(Handlers)] /\ \A n \in Manager : queue[n] \in Seq(Home(n))
      BY DEF ServerInv, ServerTypeOK, Homed
    <3>5. queue[m] \o more \in Seq(Home(m))
      BY <3>3, <3>4, ConcatProperties
    <3>6. queue[m] \o more \in Seq(Handlers)
      BY <3>5, HomeSeqIsHandlerSeq
    <3>7. queue' = [queue EXCEPT ![m] = @ \o more]
      BY <3>2 DEF more
    <3> QED
      BY <3>4, <3>5, <3>6, <3>7
  <2>2. CASE StopHalt \/ StopJoin
    BY <2>2 DEF StopHalt, StopJoin, loopVars, ServerInv, ServerTypeOK, Homed
  <2> QED
    BY <2>1, <2>2
<1>3. /\ app' \in [at : {"clear", "join", "post", "join_accept", "stopped"},
                   id : {NoOne}, manager : Manager]
      /\ stopped' \subseteq Manager
      /\ app'.at \in {"join_accept", "stopped"} => app'.manager = Managers - 1
      /\ app'.at = "stopped" => accept.at = "exit"
      /\ AcceptStopped
      /\ app'.at # "close" /\ app.at # "close"
      /\ \/ app'.manager = app.manager /\ app'.at = "clear"
         \/ /\ app'.manager = app.manager
            /\ app.at \in {"halt", "join", "join_accept", "stopped"}
         \/ app'.manager = app.manager + 1 /\ app.at = "join" /\ app'.at = "post"
  <2>1. CASE StopPost
    BY <1>0, <2>1 DEF StopPost, StopAt, AcceptStopped
  <2>2. CASE StopHalt
    BY <1>0, <2>2 DEF StopHalt, StopAt, AcceptStopped
  <2>3. CASE StopJoin
    <3>1. app.manager \in 0 .. Managers - 1 /\ Managers \in Nat
      BY <1>0, ManagersAssumption DEF Manager
    <3>2. CASE app.at = "join"
      BY <1>0, <2>3, <3>1, <3>2 DEF StopJoin, StopAt, AcceptStopped, loopVars, Manager
    <3>3. CASE app.at = "join_accept"
      <4>1. app.manager = Managers - 1
        BY <3>3 DEF ServerInv, Tables
      <4> QED
        BY <1>0, <2>3, <3>1, <3>3, <4>1 DEF StopJoin, StopAt, AcceptStopped, loopVars, Manager
    <3> QED
      BY <2>3, <3>2, <3>3 DEF StopJoin
  <2> QED
    BY <2>1, <2>2, <2>3
<1>4. AcceptStopped'
  BY <1>3 DEF AcceptStopped
<1>5. Accepting' /\ Lives'
  BY <1>0, <1>1, <1>4, AcceptingKept, LivesKept
<1>6. Tables'
  <2>1. ASSUME NEW c \in Ids, Cleared(Owner(c))'
        PROVE  Cleared(Owner(c))
    <3>1. Owner(c) \in Int /\ app.manager \in Int
      BY <1>0, IdsAreNat, OwnerIsManager, ManagersAssumption DEF Manager
    <3> QED
      BY <1>3, <2>1, <3>1 DEF Cleared
  <2>2. Newest' = Newest
    BY <1>0 DEF Newest
  <2> QED
    BY <1>0, <1>3, <2>1, <2>2 DEF ServerInv, Tables, Object
<1>7. ServerTypeOK' /\ Homed'
  BY <1>0, <1>2, <1>3 DEF ServerInv, ServerTypeOK, Homed
<1> QED
  BY <1>5, <1>6, <1>7 DEF ServerInv

\* What one step of clearing does to an entry, and to the session behind it.
LEMMA EraseStep ==
  ASSUME ServerInv, NEW c \in Ids,
         AcceptStopped, AcceptStopped', app.at # "close",
         \A m \in Manager : Cleared(m)' => Cleared(m),
         m_session' = [m_session EXCEPT ![c] = "none"],
         UNCHANGED << running, accept >>,
         \/ m_session[c] = "null" /\ UNCHANGED << session, app >>
         \/ m_session[c] = "session" /\ ~Connected(c)
            /\ Became(c, Destroyed(c)) /\ UNCHANGED app
         \/ m_session[c] = "session" /\ UNCHANGED session
            /\ app'.at = "close" /\ app'.id = c /\ Owner(c) = app'.manager
  PROVE  Accepting' /\ Tables' /\ Lives' /\ session' \in [Ids -> Session]
<1>0. /\ session \in [Ids -> Session]
      /\ m_session \in [Ids -> {"none", "null", "session"}]
      /\ accept.id \in Int
  BY DEF ServerInv, ServerTypeOK
<1>1. m_session'[c] = "none" /\ \A d \in Ids : d # c => m_session'[d] = m_session[d]
  BY <1>0
<1>2. m_session[c] = "session" =>
        /\ Object(c) = "live"
        /\ ~(accept.id = c /\ accept.at \in {"accept", "last", "exit", "construct", "insert"})
        /\ ~(c > accept.id)
  BY DEF ServerInv, Accepting, Tables
<1>3. \A d \in Ids : Cleared(Owner(d))' => Cleared(Owner(d))
  BY IdsAreNat, OwnerIsManager
<1>4. Newest' = Newest
  BY DEF Newest
<1>5. CASE /\ UNCHANGED session
           /\ \/ m_session[c] = "null" /\ UNCHANGED app
              \/ /\ m_session[c] = "session"
                 /\ app'.at = "close" /\ app'.id = c /\ Owner(c) = app'.manager
  <2>1. SameLives /\ ClosesNothing
    BY <1>0, <1>5 DEF SameLives, SameLife, ClosesNothing, Runs
  <2>2. Lives'
    BY <2>1, LivesKept
  <2>3. Accepting'
    BY <1>1, <1>2, <1>5 DEF ServerInv, Accepting, Object
  <2>4. Tables'
    <3>1. CASE m_session[c] = "null" /\ UNCHANGED app
      BY <1>1, <1>3, <1>4, <1>5, <3>1 DEF ServerInv, Tables, Object
    <3>2. CASE /\ m_session[c] = "session"
               /\ app'.at = "close" /\ app'.id = c /\ Owner(c) = app'.manager
      BY <1>1, <1>2, <1>3, <1>4, <1>5, <3>2 DEF ServerInv, Tables, Object
    <3> QED
      BY <1>5, <3>1, <3>2
  <2> QED
    BY <1>0, <1>5, <2>2, <2>3, <2>4
<1>6. CASE m_session[c] = "session" /\ ~Connected(c)
           /\ Became(c, Destroyed(c)) /\ UNCHANGED app
  <2>1. /\ session' \in [Ids -> Session]
        /\ \A d \in Ids : d # c => session'[d] = session[d]
        /\ Object(c)' = "destroyed" /\ Gone(c)' /\ ~Connected(c)'
        /\ Disconnects(c)' = Disconnects(c)
    BY <1>0, <1>6, DestroyedFacts DEF Became, Object, Gone, Connected, Disconnects
  <2>2. Disconnects(c) = 1 \/ (Disconnects(c) = 0 /\ Runs("closing", c))
    BY <1>2, <1>6 DEF ServerInv, Lives
  <2>3. Accepting'
    BY <1>1, <1>2, <1>6, <2>1 DEF ServerInv, Accepting, Object
  <2>4. Tables'
    BY <1>1, <1>2, <1>3, <1>4, <1>6, <2>1 DEF ServerInv, Tables, Object
  <2>5. Lives'
    <3>1. \A d \in Ids, k \in {"close", "closing"} : Runs(k, d)' = Runs(k, d)
      BY DEF Runs
    <3> QED
      BY <2>1, <2>2, <3>1 DEF ServerInv, Lives, Object, Connected, Disconnects, Gone
  <2> QED
    BY <2>1, <2>3, <2>4, <2>5
<1> QED
  BY <1>5, <1>6

LEMMA StopClearStep ==
  ASSUME ServerInv, StopClear
  PROVE  ServerInv'
<1>0. /\ UNCHANGED << queue, running, stopped, checkArmed, accept >>
      /\ session \in [Ids -> Session]
      /\ m_session \in [Ids -> {"none", "null", "session"}]
      /\ app \in [at : {"idle", "deliver", "do_write", "async", "post", "clear", "close",
                        "halt", "join", "join_accept", "stopped"},
                  id : Ids \cup {NoOne}, manager : Manager]
      /\ app.at = "clear" /\ AcceptStopped
      /\ ClosesNothing
  BY DEF StopClear, loopVars, ServerInv, ServerTypeOK, AcceptStopped, ClosesNothing, Runs
<1>1. PICK m \in Manager : m = app.manager
  BY <1>0
<1>2. CASE /\ Entries(m, "session") \cup Entries(m, "null") = {}
           /\ StopAt("halt", NoOne, m)
           /\ UNCHANGED << m_session, session >>
  <2>1. app'.at = "halt" /\ app'.manager = m /\ AcceptStopped' /\ SameLives
        /\ app' \in [at : {"halt"}, id : {NoOne}, manager : Manager]
    BY <1>0, <1>2 DEF StopAt, AcceptStopped, SameLives, SameLife
  <2>2. Accepting' /\ Lives'
    BY <1>0, <1>2, <2>1, AcceptingKept, LivesKept
  <2>3. Tables'
    <3>1. ASSUME NEW c \in Ids, Object(c) = "live", Cleared(Owner(c))'
          PROVE  c = Newest
      <4>1. Owner(c) = m \/ Cleared(Owner(c))
        BY <1>0, <1>1, <2>1, <3>1 DEF Cleared
      <4>2. CASE Owner(c) = m
        <5>1. m_session[c] # "session"
          BY <1>2, <4>2 DEF Entries
        <5>2. accept.at = "insert" /\ accept.id = c
          BY <1>0, <3>1, <5>1 DEF ServerInv, Tables
        <5> QED
          BY <5>2 DEF Newest
      <4>3. CASE Cleared(Owner(c))
        BY <3>1, <4>3 DEF ServerInv, Tables
      <4> QED
        BY <4>1, <4>2, <4>3
    <3>2. Newest' = Newest
      BY <1>0 DEF Newest
    <3> QED
      BY <1>0, <1>2, <2>1, <3>1, <3>2 DEF ServerInv, Tables, Object
  <2>4. ServerTypeOK' /\ Homed'
    BY <1>0, <1>2, <2>1 DEF ServerInv, ServerTypeOK, Homed
  <2> QED
    BY <2>2, <2>3, <2>4 DEF ServerInv
<1>3. ASSUME NEW c \in Entries(m, "session") \cup Entries(m, "null"),
             m_session' = [m_session EXCEPT ![c] = "none"],
             IF m_session[c] = "session" /\ Connected(c)
             THEN StopAt("close", c, m) /\ UNCHANGED session
             ELSE /\ UNCHANGED app
                  /\ IF m_session[c] = "null" THEN UNCHANGED session
                                             ELSE Became(c, Destroyed(c))
      PROVE  ServerInv'
  <2>1. c \in Ids /\ Owner(c) = m /\ m_session[c] \in {"session", "null"}
    BY <1>3 DEF Entries
  <2>2. /\ \/ UNCHANGED app
           \/ app' = [at |-> "close", id |-> c, manager |-> m]
        /\ app' \in [at : {"idle", "deliver", "do_write", "async", "post", "clear", "close",
                          "halt", "join", "join_accept", "stopped"},
                    id : Ids \cup {NoOne}, manager : Manager]
    BY <1>0, <1>3, <2>1 DEF StopAt
  <2>3. AcceptStopped' /\ app'.manager = app.manager /\ app'.at \in {"clear", "close"}
    BY <1>0, <1>1, <2>2 DEF AcceptStopped
  <2>4. \A n \in Manager : Cleared(n)' => Cleared(n)
    BY <1>0, <2>3 DEF Cleared
  <2>5. \/ m_session[c] = "null" /\ UNCHANGED << session, app >>
        \/ m_session[c] = "session" /\ ~Connected(c)
           /\ Became(c, Destroyed(c)) /\ UNCHANGED app
        \/ m_session[c] = "session" /\ UNCHANGED session
           /\ app'.at = "close" /\ app'.id = c /\ Owner(c) = app'.manager
    BY <1>3, <2>1 DEF StopAt
  <2>6. Accepting' /\ Tables' /\ Lives' /\ session' \in [Ids -> Session]
    BY <1>0, <1>3, <2>1, <2>3, <2>4, <2>5, EraseStep
  <2>7. ServerTypeOK' /\ Homed'
    BY <1>0, <1>3, <2>1, <2>2, <2>6 DEF ServerInv, ServerTypeOK, Homed
  <2> QED
    BY <2>6, <2>7 DEF ServerInv
<1> QED
  BY <1>1, <1>2, <1>3 DEF StopClear

LEMMA StopCloseStep ==
  ASSUME ServerInv, StopClose
  PROVE  ServerInv'
<1>0. /\ UNCHANGED << m_session, running, stopped, checkArmed, accept >>
      /\ session \in [Ids -> Session]
      /\ app \in [at : {"idle", "deliver", "do_write", "async", "post", "clear", "close",
                        "halt", "join", "join_accept", "stopped"},
                  id : Ids \cup {NoOne}, manager : Manager]
      /\ app.at = "close" /\ AcceptStopped
      /\ app' = [at |-> "clear", id |-> NoOne, manager |-> app.manager]
      /\ AcceptStopped'
  BY DEF StopClose, StopAt, ServerInv, ServerTypeOK, AcceptStopped
<1>1. app.id \in Ids
  BY <1>0 DEF ServerInv, Tables
<1>2. PICK c \in Ids : c = app.id
  BY <1>1
<1>3. /\ session' = [session EXCEPT ![c] = [Closed(c) EXCEPT !.object = "destroyed"]]
      /\ queue' = [queue EXCEPT ![Owner(c)] = Aborted(c, @)]
  BY <1>2 DEF StopClose, Became
<1>4. /\ Object(c) = "live" /\ m_session[c] = "none"
      /\ ~(accept.id = c /\ accept.at \in {"accept", "last", "exit", "construct", "insert"})
      /\ ~(c > accept.id)
      /\ Disconnects(c) \in {0, 1}
  BY <1>0, <1>2 DEF ServerInv, Tables, Accepting, Lives
<1>5. /\ session' \in [Ids -> Session]
      /\ \A d \in Ids : d # c => session'[d] = session[d]
      /\ Object(c)' = "destroyed" /\ Gone(c)' /\ ~Connected(c)'
      /\ Disconnects(c)' \in {1, 2}
  <2>1. /\ [Closed(c) EXCEPT !.object = "destroyed"] \in Session
        /\ [Closed(c) EXCEPT !.object = "destroyed"].object = "destroyed"
        /\ ~[Closed(c) EXCEPT !.object = "destroyed"].m_is_connected
        /\ [Closed(c) EXCEPT !.object = "destroyed"].disconnects = Disconnects(c) + 1
    BY ClosedFacts DEF Session
  <2> QED
    BY <1>0, <1>3, <1>4, <2>1 DEF Object, Gone, Connected, Disconnects
<1>6. Accepting'
  BY <1>0, <1>4, <1>5 DEF ServerInv, Accepting, Object
<1>7. Tables'
  <2>1. \A n \in Manager : Cleared(n)' => Cleared(n)
    BY <1>0 DEF Cleared
  <2>2. \A d \in Ids : Cleared(Owner(d))' => Cleared(Owner(d))
    BY <2>1, IdsAreNat, OwnerIsManager
  <2>3. Newest' = Newest
    BY <1>0 DEF Newest
  <2> QED
    BY <1>0, <1>2, <1>4, <1>5, <2>2, <2>3 DEF ServerInv, Tables, Object
<1>8. Lives'
  <2>1. \A d \in Ids, k \in {"close", "closing"} : Runs(k, d)' = Runs(k, d)
    BY <1>0 DEF Runs
  <2> QED
    BY <1>0, <1>5, <2>1 DEF ServerInv, Lives, Object, Connected, Disconnects, Gone
<1>9. /\ queue' \in [Manager -> Seq(Handlers)]
      /\ \A n \in Manager : queue'[n] \in Seq(Home(n))
  BY <1>3, AbortedHome
<1>10. ServerTypeOK' /\ Homed'
  BY <1>0, <1>5, <1>9 DEF ServerInv, ServerTypeOK, Homed
<1> QED
  BY <1>6, <1>7, <1>8, <1>10 DEF ServerInv

-----------------------------------------------------------------------------

LEMMA ServerInvInit == ServerInit => ServerInv
<1> SUFFICES ASSUME ServerInit PROVE ServerInv
  OBVIOUS
<1>1. \A m \in Manager : queue[m] \in Seq(Home(m)) /\ queue[m] \in Seq(Handlers)
  BY EmptySeq DEF ServerInit
<1>2. /\ queue \in [Manager -> Seq(Handlers)]
      /\ 0 \in Manager
      /\ Idle \in Steps /\ Idle[2] = NoOne
      /\ \A c \in Ids, k \in {"close", "closing"} : Idle # << k, c >>
  BY <1>1, ManagersAssumption DEF ServerInit, Manager, Idle, Steps
<1>3. ServerTypeOK
  BY <1>2, IdsAssumption DEF ServerInit, ServerTypeOK, Session
<1>4. Homed
  BY <1>1, <1>2 DEF ServerInit, Homed
<1>5. Accepting
  BY IdsAssumption DEF ServerInit, Accepting, Object, Ids
<1>6. Tables
  BY DEF ServerInit, Tables, Object
<1>7. Lives
  BY <1>2, IdsAreNat, OwnerIsManager
     DEF ServerInit, Lives, Object, Connected, Disconnects, Gone, Runs
<1> QED
  BY <1>3, <1>4, <1>5, <1>6, <1>7 DEF ServerInv

LEMMA ServerInvStep == ServerInv /\ [ServerNext]_serverVars => ServerInv'
<1> SUFFICES ASSUME ServerInv, [ServerNext]_serverVars PROVE ServerInv'
  OBVIOUS
<1>1. CASE UNCHANGED serverVars
  BY <1>1 DEF serverVars, loopVars, ServerInv, ServerTypeOK, Homed, Accepting, Tables,
     Lives, Object, Connected, Disconnects, Gone, Runs, Cleared, AcceptStopped, Newest
<1>2. CASE ServerNext
  BY <1>2, AcceptStep, SendStep, StopCalmStep, StopClearStep, StopCloseStep,
     ManagerStep, ReactorStep DEF ServerNext, AppThread, StopThread
<1> QED
  BY <1>1, <1>2

LEMMA ServerInvCorrect == ServerSpec => []ServerInv
BY ServerInvInit, ServerInvStep, PTL DEF ServerSpec

\* The variables of the server keep their types: every handler queued or run and
\* every entry is one of the kinds the code knows, for any number of managers.
THEOREM ServerTypeCorrect == ServerSpec => []ServerTypeOK
BY ServerInvCorrect, PTL DEF ServerInv

\* OnDisconnect is called once for a client whose session is closed and never for an
\* open one; twice only if tcpServer::stop destroys the session during handle_close.
THEOREM DisconnectOnceCorrect == ServerSpec => []DisconnectOnce
<1>1. ServerInv => DisconnectOnce
  <2> SUFFICES ASSUME ServerInv, NEW c \in Ids
               PROVE  /\ Connected(c) => session[c].disconnects = 0
                      /\ session[c].disconnects <= (IF AcceptStopped THEN 2 ELSE 1)
                      /\ Gone(c) => \/ session[c].disconnects > 0
                                    \/ AcceptStopped /\ running[Owner(c)] = << "closing", c >>
    BY DEF DisconnectOnce
  <2>1. Object(c) \in {"unborn", "live", "destroyed"}
    BY DEF ServerInv, ServerTypeOK, Session, Object
  <2> QED
    BY <2>1 DEF ServerInv, Lives, Object, Disconnects, Connected, Gone, Runs
<1> QED
  BY <1>1, ServerInvCorrect, PTL

\* No live session is lost: a table, add_new_session or stop has it, and stop leaves
\* at most the last client the accept thread was still building.
THEOREM NoOrphanCorrect == ServerSpec => []NoOrphan
<1>1. ServerInv => NoOrphan
  <2> SUFFICES ASSUME ServerInv, NEW c \in Ids
               PROVE  /\ m_session[c] = "session" => session[c].object = "live"
                      /\ session[c].object = "live" =>
                           \/ m_session[c] = "session"
                           \/ accept.at = "insert" /\ accept.id = c
                           \/ app.at = "close" /\ app.id = c
                      /\ session[c].object = "live" /\ app.at = "stopped"
                           => c = accept.id - 1
    BY DEF NoOrphan
  <2>1. /\ m_session[c] = "session" => session[c].object = "live"
        /\ session[c].object = "live" =>
             \/ m_session[c] = "session"
             \/ accept.at = "insert" /\ accept.id = c
             \/ app.at = "close" /\ app.id = c
    BY DEF ServerInv, Tables, Object
  <2>2. ASSUME session[c].object = "live", app.at = "stopped"
        PROVE  c = accept.id - 1
    <3>1. app.manager = Managers - 1 /\ accept.at = "exit"
      BY <2>2 DEF ServerInv, Tables
    <3>2. Owner(c) \in 0 .. Managers - 1 /\ Managers \in Nat
      BY IdsAreNat, OwnerIsManager, ManagersAssumption DEF Manager
    <3>3. Cleared(Owner(c))
      BY <2>2, <3>1, <3>2 DEF Cleared, AcceptStopped
    <3> QED
      BY <2>2, <3>1, <3>3 DEF ServerInv, Tables, Object, Newest
  <2> QED
    BY <2>1, <2>2
<1> QED
  BY <1>1, ServerInvCorrect, PTL

\* What c % w is, without %.
LEMMA Remainder ==
  ASSUME NEW c \in Nat, NEW w \in Nat, w > 0
  PROVE  /\ (c % w) \in Nat /\ (c % w) < w /\ (c % w) <= c
         /\ c < w => (c % w) = c
         /\ c >= w => (c % w) + w <= c
<1> DEFINE q == c \div w
<1>1. c = (w * q) + (c % w) /\ q \in Nat /\ (c % w) \in Nat /\ (c % w) < w
  OBVIOUS
<1>2. q = 0 \/ q >= 1
  BY <1>1
<1>3. q = 0 => (c % w) = c
  BY <1>1
<1>4. q >= 1 => w * q >= w
  BY <1>1
<1> HIDE DEF q
<1> QED
  BY <1>1, <1>2, <1>3, <1>4

\* The conversions between uint64_t, unsigned int and int keep the id of a client or
\* turn it into one that is far away.
LEMMA KeyFacts ==
  ASSUME NEW c \in Ids
  PROVE  /\ c < Half => Key(ToInt(Told(c))) = {c}
         /\ \A k \in Key(ToInt(Told(c))) :
              k = c \/ k + 2 * Half <= c \/ k >= 4 * Half * Half - Half
<1> DEFINE W == 2 * Half
           U == 4 * Half * Half
           t == Told(c)
<1>1. Half \in Nat /\ Half > 0 /\ W \in Nat /\ W > 0 /\ c \in Nat
  BY HalfAssumption, IdsAssumption DEF Ids
<1>2. U \in Nat /\ U >= W + W - Half /\ U >= W
  <2>1. Half = 1 \/ Half >= 2
    BY <1>1
  <2>2. CASE Half = 1
    BY <2>2
  <2>3. CASE Half >= 2
    <3>1. Half * Half >= 2 * Half
      BY <1>1, <2>3
    <3> QED
      BY <1>1, <3>1
  <2> QED
    BY <2>1, <2>2, <2>3
<1>3. t \in Nat /\ t < W /\ t <= c /\ (c < W => t = c) /\ (c >= W => t + W <= c)
  <2>1. t = c % W
    BY DEF Told
  <2> HIDE DEF t, W
  <2> QED
    BY <1>1, <2>1, Remainder
<1>4. ToUint64(ToInt(t)) = (IF t < Half THEN t ELSE U + t - W)
  <2>1. ToInt(t) = (IF t < Half THEN t ELSE t - W)
    <3> HIDE DEF t
    <3>1. (t + Half) % W = (IF t < Half THEN t + Half ELSE t + Half - W)
      BY <1>1, <1>3
    <3> QED
      BY <1>1, <1>3, <3>1 DEF ToInt
  <2>2. ToUint64(ToInt(t)) = ToInt(t) % U
    BY DEF ToUint64
  <2> HIDE DEF U, W, t
  <2>3. t < Half => t % U = t
    BY <1>1, <1>2, <1>3 DEF W
  <2>4. t >= Half => (t - W) % U = U + t - W
    BY <1>1, <1>2, <1>3
  <2> QED
    BY <1>1, <1>3, <2>1, <2>2, <2>3, <2>4
<1>5. ASSUME NEW k \in Key(ToInt(t))
      PROVE  k = c \/ k + W <= c \/ k >= U - Half
  <2>1. k = ToUint64(ToInt(t))
    BY DEF Key
  <2> HIDE DEF U, t
  <2> QED
    BY <1>1, <1>2, <1>3, <1>4, <2>1
<1>6. ASSUME c < Half
      PROVE  Key(ToInt(t)) = {c}
  <2>1. t = c /\ ToUint64(ToInt(c)) = c
    <3> HIDE DEF U, t
    <3> QED
      BY <1>1, <1>3, <1>4, <1>6
  <2> HIDE DEF t
  <2> QED
    BY <2>1 DEF Key, Owner
<1> QED
  BY <1>5, <1>6

\* SendData with the id OnConnect gave, an unsigned int passed on as an int, reaches
\* that client whenever its id is below 2^31, and of the others only one that
\* connected at least 2^32 connections earlier or has one of the last 2^31 ids.
THEOREM RoutesHomeCorrect == ServerSpec => []RoutesHome
<1>1. RoutesHome
  BY KeyFacts DEF RoutesHome
<1> QED
  BY <1>1, PTL

-----------------------------------------------------------------------------
(* Closing drains.                                                         *)

NoneOf(c, q) == \A i \in DOMAIN q : q[i][2] # c

LEMMA HandlersOfIsNone ==
  ASSUME NEW c
  PROVE  /\ HandlersOf(c) = {} <=> NoneOf(c, queue[Owner(c)])
         /\ HandlersOf(c)' = {} <=> NoneOf(c, queue'[Owner(c)])
BY DEF HandlersOf, NoneOf

LEMMA NoneOfQueues ==
  ASSUME NEW c, NEW H, NEW q \in Seq(H), NoneOf(c, q)
  PROVE  /\ \A h : h[2] # c => NoneOf(c, Append(q, h))
         /\ q # << >> => NoneOf(c, Tail(q)) /\ Head(q)[2] # c
         /\ \A h, n : n \in Nat /\ h[2] # c => NoneOf(c, q \o Repeat(h, n))
<1>1. Len(q) \in Nat /\ DOMAIN q = 1 .. Len(q) /\ \A i \in 1 .. Len(q) : q[i][2] # c
  BY DEF NoneOf
<1>2. ASSUME NEW h, h[2] # c
      PROVE  NoneOf(c, Append(q, h))
  <2>1. /\ DOMAIN Append(q, h) = 1 .. Len(q) + 1
        /\ \A i \in 1 .. Len(q) : Append(q, h)[i] = q[i]
        /\ Append(q, h)[Len(q) + 1] = h
    OBVIOUS
  <2> QED
    BY <1>1, <1>2, <2>1 DEF NoneOf
<1>3. ASSUME q # << >>
      PROVE  NoneOf(c, Tail(q)) /\ Head(q)[2] # c
  <2>1. /\ DOMAIN Tail(q) = 1 .. Len(q) - 1
        /\ \A i \in 1 .. Len(q) - 1 : Tail(q)[i] = q[i + 1]
        /\ Head(q) = q[1] /\ Len(q) > 0
    BY <1>3
  <2> QED
    BY <1>1, <2>1 DEF NoneOf
<1>4. ASSUME NEW h, NEW n \in Nat, h[2] # c
      PROVE  NoneOf(c, q \o Repeat(h, n))
  <2>1. Repeat(h, n) \in Seq({h}) /\ Len(Repeat(h, n)) = n
    BY DEF Repeat
  <2>2. /\ DOMAIN (q \o Repeat(h, n)) = 1 .. Len(q) + n
        /\ \A i \in 1 .. Len(q) + n : (q \o Repeat(h, n))[i] =
             IF i <= Len(q) THEN q[i] ELSE Repeat(h, n)[i - Len(q)]
    BY <2>1, <1>1 DEF Repeat
  <2>3. \A i \in 1 .. n : Repeat(h, n)[i] = h
    BY DEF Repeat
  <2> QED
    BY <1>1, <1>4, <2>2, <2>3 DEF NoneOf
<1> QED
  BY <1>2, <1>3, <1>4

\* What other clients' handlers post leaves the handlers of c alone.
LEMMA OthersPost ==
  ASSUME ServerInv, NEW c \in Ids, NEW d \in Ids, d # c, HandlersOf(c) = {},
         \/ UNCHANGED queue
         \/ \E k \in Kinds : Post(<< k, d >>)
         \/ queue' = [queue EXCEPT ![Owner(d)] = Aborted(d, @)]
  PROVE  HandlersOf(c)' = {}
<1>1. Owner(c) \in Manager /\ Owner(d) \in Manager
  BY IdsAreNat, OwnerIsManager
<1>2. queue \in [Manager -> Seq(Handlers)] /\ queue[Owner(c)] \in Seq(Handlers)
  BY <1>1 DEF ServerInv, ServerTypeOK
<1>3. NoneOf(c, queue[Owner(c)])
  BY HandlersOfIsNone
<1>4. CASE UNCHANGED queue
  BY <1>3, <1>4, HandlersOfIsNone
<1>5. ASSUME NEW k \in Kinds, Post(<< k, d >>)
      PROVE  HandlersOf(c)' = {}
  <2>1. NoneOf(c, Append(queue[Owner(c)], << k, d >>))
    BY <1>2, <1>3, NoneOfQueues
  <2>2. queue'[Owner(c)] \in {queue[Owner(c)], Append(queue[Owner(c)], << k, d >>)}
    BY <1>1, <1>2, <1>5 DEF Post
  <2> QED
    BY <1>3, <2>1, <2>2, HandlersOfIsNone
<1>6. CASE queue' = [queue EXCEPT ![Owner(d)] = Aborted(d, @)]
  <2>1. Cardinality(Failing(session[d])) \in Nat
    <3>1. IsFiniteSet({"read"}) /\ IsFiniteSet({"write"})
      BY FS_Singleton
    <3>2. IsFiniteSet({"read"} \cup {"write"})
      BY <3>1, FS_Union
    <3>3. Failing(session[d]) \subseteq {"read"} \cup {"write"}
      BY DEF Failing
    <3> QED
      BY <3>2, <3>3, FS_Subset, FS_CardinalityType
  <2>2. NoneOf(c, Aborted(d, queue[Owner(c)]))
    BY <1>2, <1>3, <2>1, NoneOfQueues DEF Aborted
  <2>3. queue'[Owner(c)] \in {queue[Owner(c)], Aborted(d, queue[Owner(c)])}
    BY <1>1, <1>2, <1>6
  <2> QED
    BY <1>3, <2>2, <2>3, HandlersOfIsNone
<1> QED
  BY <1>4, <1>5, <1>6

LEMMA QuietLemma ==
  ASSUME ServerInv, ServerNext, ~AcceptStopped, NEW c \in Ids,
         session[c].object # "unborn", ~Connected(c), Quiet(c)
  PROVE  Quiet(c)'
<1>0. /\ c # NoOne /\ Owner(c) \in Manager
      /\ session \in [Ids -> Session] /\ running \in [Manager -> Steps]
      /\ session[c].pending = {} /\ HandlersOf(c) = {} /\ running[Owner(c)][2] # c
      /\ ~(accept.id = c /\ accept.at \in {"insert", "start", "arm", "do_read"})
      /\ ~(app.id = c /\ app.at = "async")
  BY IdsAreNat, OwnerIsManager DEF ServerInv, ServerTypeOK, Quiet
<1>1. CASE AcceptThread
  <2>1. UNCHANGED << queue, running, app >>
    BY <1>1 DEF AcceptThread, DoConnect, HandleConnect, Construct, Insert, StartSession,
       AcceptEnds, loopVars
  <2>2. accept.at = "construct" => accept.id # c
    BY DEF ServerInv, Accepting, Object
  <2>3. accept.id = c => accept.at \notin {"insert", "start", "arm", "do_read", "construct"}
    BY <1>0, <2>2
  <2>4. session'[c] = session[c]
    BY <1>0, <1>1, <2>3 DEF AcceptThread, DoConnect, HandleConnect, Construct, Insert,
       StartSession, AcceptEnds, Became
  <2>5. ~(accept'.id = c /\ accept'.at \in {"insert", "start", "arm", "do_read"})
    <3>1. accept \in [at : {"do_connect", "accept", "last", "construct", "insert",
                            "start", "arm", "do_read", "exit", "terminated"},
                      id : Int, early : BOOLEAN]
      BY DEF ServerInv, ServerTypeOK
    <3>2. CASE DoConnect \/ AcceptEnds
      BY <3>1, <3>2 DEF DoConnect, AcceptEnds, Goto
    <3>3. CASE HandleConnect
      <4>1. accept'.at \in {"do_connect", "construct", "terminated"}
        BY <3>1, <3>3 DEF HandleConnect, Goto
      <4> QED
        BY <4>1
    <3>4. CASE Construct \/ Insert \/ StartSession
      <4>1. /\ accept'.id = accept.id
            /\ accept.at \in {"insert", "start", "arm", "do_read", "construct"}
        BY <3>1, <3>4 DEF Construct, Insert, StartSession, Goto
      <4> QED
        BY <2>3, <4>1
    <3> QED
      BY <1>1, <3>2, <3>3, <3>4 DEF AcceptThread
  <2>6. HandlersOf(c)' = {}
    BY <1>0, <2>1, HandlersOfIsNone
  <2> QED
    BY <1>0, <2>1, <2>4, <2>5, <2>6 DEF Quiet
<1>2. CASE AppThread
  <2>1. UNCHANGED << running, accept >>
    BY <1>2 DEF AppThread, SendData, Deliver, AsyncWrite, StopServer, StopThread, StopPost,
       StopClear, StopClose, StopHalt, StopJoin, loopVars
  <2>2. CASE \E d \in Ids : SendData(d)
    <3>1. UNCHANGED << session, queue >> /\ app'.at = "deliver"
      BY <2>2 DEF SendData, AppGoto, loopVars, ServerInv, ServerTypeOK
    <3>2. HandlersOf(c)' = {}
      BY <1>0, <3>1, HandlersOfIsNone
    <3> QED
      BY <1>0, <2>1, <3>1, <3>2 DEF Quiet
  <2>3. CASE Deliver
    <3>1. UNCHANGED << session, queue >> /\ ~(app'.id = c /\ app'.at = "async")
      <4>1. app \in [at : {"idle", "deliver", "do_write", "async", "post", "clear", "close",
                          "halt", "join", "join_accept", "stopped"},
                    id : Ids \cup {NoOne}, manager : Manager]
        BY DEF ServerInv, ServerTypeOK
      <4>2. CASE app.id = c
        <5>1. ~Connected(app.id)
          BY <4>2 DEF Connected
        <5>2. AppGoto("idle", NoOne)
          BY <2>3, <5>1 DEF Deliver
        <5> QED
          BY <2>3, <4>1, <5>2 DEF Deliver, AppGoto, loopVars
      <4>3. CASE app.id # c
        BY <1>0, <2>3, <4>1, <4>3 DEF Deliver, AppGoto, loopVars
      <4> QED
        BY <4>2, <4>3
    <3>2. HandlersOf(c)' = {}
      BY <1>0, <3>1, HandlersOfIsNone
    <3> QED
      BY <1>0, <2>1, <3>1, <3>2 DEF Quiet
  <2>4. CASE AsyncWrite
    <3>1. app.id \in Ids /\ app.id # c /\ app'.at = "idle"
      BY <1>0, <2>4 DEF AsyncWrite, AppGoto, ServerInv, ServerTypeOK, Tables
    <3>2. PICK d \in Ids : d = app.id
      BY <3>1
    <3>3. session'[c] = session[c] /\ (UNCHANGED queue \/ Post(<< "error", d >>))
      BY <1>0, <2>4, <3>1, <3>2 DEF AsyncWrite, Became
    <3>4. HandlersOf(c)' = {}
      BY <1>0, <3>1, <3>2, <3>3, OthersPost DEF Kinds
    <3> QED
      BY <1>0, <2>1, <3>1, <3>3, <3>4 DEF Quiet
  <2>5. CASE StopServer
    <3>1. UNCHANGED << session, queue >> /\ app'.at = "post"
      BY <2>5 DEF StopServer, StopAt, loopVars
    <3>2. HandlersOf(c)' = {}
      BY <1>0, <3>1, HandlersOfIsNone
    <3> QED
      BY <1>0, <2>1, <3>1, <3>2 DEF Quiet
  <2>6. ~StopThread
    BY DEF AcceptStopped, StopThread, StopPost, StopClear, StopClose, StopHalt, StopJoin
  <2> QED
    BY <1>2, <2>2, <2>3, <2>4, <2>5, <2>6 DEF AppThread
<1>3. ASSUME NEW m \in Manager, CheckExpires(m)
      PROVE  Quiet(c)'
  <2>1. UNCHANGED << session, running, accept, app >>
    BY <1>3 DEF CheckExpires
  <2>2. queue \in [Manager -> Seq(Handlers)] /\ NoneOf(c, queue[Owner(c)])
    BY <1>0, HandlersOfIsNone DEF ServerInv, ServerTypeOK
  <2>3. NoneOf(c, Append(queue[Owner(c)], << "check", NoOne >>))
    BY <1>0, <2>2, NoneOfQueues
  <2>4. queue'[Owner(c)] \in {queue[Owner(c)], Append(queue[Owner(c)], << "check", NoOne >>)}
    BY <1>0, <1>3, <2>2 DEF CheckExpires
  <2>5. HandlersOf(c)' = {}
    BY <2>2, <2>3, <2>4, HandlersOfIsNone
  <2> QED
    BY <1>0, <2>1, <2>5 DEF Quiet
<1>4. ASSUME NEW d \in Ids, OperationEnds(d)
      PROVE  Quiet(c)'
  <2>1. d # c /\ UNCHANGED << running, accept, app >>
    BY <1>0, <1>4 DEF OperationEnds
  <2>2. PICK op \in session[d].pending : \E h \in Outcomes(op) :
          session' = [session EXCEPT ![d].pending = @ \ {op}] /\ Post(<< h, d >>)
    BY <1>4 DEF OperationEnds
  <2>3. PICK h \in Outcomes(op) :
          session' = [session EXCEPT ![d].pending = @ \ {op}] /\ Post(<< h, d >>)
    BY <2>2
  <2>4. h \in Kinds /\ session'[c] = session[c]
    BY <1>0, <2>1, <2>3 DEF Session, Operations, Outcomes, Kinds
  <2>5. HandlersOf(c)' = {}
    BY <1>0, <2>1, <2>3, <2>4, OthersPost
  <2> QED
    BY <1>0, <2>1, <2>4, <2>5 DEF Quiet
<1>5. ASSUME NEW m \in Manager, Begin(m)
      PROVE  Quiet(c)'
  <2>1. /\ UNCHANGED << session, accept, app >>
        /\ queue \in [Manager -> Seq(Handlers)] /\ NoneOf(c, queue[Owner(c)])
        /\ queue[m] # << >>
        /\ queue' = [queue EXCEPT ![m] = Tail(@)]
        /\ running'[m] \in {Idle, Head(queue[m])}
        /\ \A n \in Manager : n # m => running'[n] = running[n]
    BY <1>0, <1>5, HandlersOfIsNone DEF Begin, ServerInv, ServerTypeOK
  <2>2. CASE Owner(c) = m
    <3>1. NoneOf(c, Tail(queue[m])) /\ Head(queue[m])[2] # c
      BY <2>1, <2>2, NoneOfQueues
    <3>2. running'[Owner(c)][2] # c
      BY <1>0, <2>1, <2>2, <3>1 DEF Idle
    <3>3. HandlersOf(c)' = {}
      BY <2>1, <2>2, <3>1, HandlersOfIsNone
    <3> QED
      BY <1>0, <2>1, <3>2, <3>3 DEF Quiet
  <2>3. CASE Owner(c) # m
    <3>1. running'[Owner(c)] = running[Owner(c)] /\ queue'[Owner(c)] = queue[Owner(c)]
      BY <1>0, <2>1, <2>3
    <3>2. HandlersOf(c)' = {}
      BY <2>1, <3>1, HandlersOfIsNone
    <3> QED
      BY <1>0, <2>1, <3>1, <3>2 DEF Quiet
  <2> QED
    BY <2>2, <2>3
<1>6. ASSUME NEW m \in Manager, CheckSession(m)
      PROVE  Quiet(c)'
  <2>1. /\ UNCHANGED << queue, accept, app >>
        /\ running' = [running EXCEPT ![m] = Idle]
        /\ session'[c] \in {session[c], Destroyed(c)}
    BY <1>0, <1>6 DEF CheckSession
  <2>2. session'[c].pending = {}
    <3>1. Destroyed(c).pending = {}
      BY <1>0 DEF Destroyed, Session
    <3> QED
      BY <1>0, <2>1, <3>1
  <2>3. running'[Owner(c)][2] # c
    BY <1>0, <2>1 DEF Idle
  <2>4. HandlersOf(c)' = {}
    BY <1>0, <2>1, HandlersOfIsNone
  <2> QED
    BY <1>0, <2>1, <2>2, <2>3, <2>4 DEF Quiet
<1>7. ASSUME NEW m \in Manager, NEW d \in Ids,
             \/ End(m, "read", d, HandleRead(d))
             \/ End(m, "write", d, HandleWrite(d))
             \/ End(m, "hbsend", d, HeartBeatSend(d))
             \/ End(m, "hbhandle", d, Stop(d))
             \/ End(m, "error", d, Stop(d))
             \/ End(m, "close", d, HandleClose(d))
             \/ End(m, "closing", d, Closing(d))
      PROVE  Quiet(c)'
  <2>1. /\ UNCHANGED << accept, app >>
        /\ running[m][2] = d
        /\ running' \in {[running EXCEPT ![m] = Idle],
                         [running EXCEPT ![m] = << "closing", d >>]}
    BY <1>7 DEF End
  <2>2. d # c
    <3>1. Owner(d) = m
      BY <2>1, IdsAreNat DEF ServerInv, Homed
    <3> QED
      BY <1>0, <2>1, <3>1
  <2>3. session'[c] = session[c]
    BY <1>0, <1>7, <2>2 DEF End, HandleRead, HandleWrite, HeartBeatSend, Stop, HandleClose,
       Closing, Became
  <2>4. running'[Owner(c)][2] # c
    <3>1. running'[Owner(c)] \in {running[Owner(c)], Idle, << "closing", d >>}
      BY <1>0, <2>1
    <3> QED
      BY <1>0, <2>2, <3>1 DEF Idle
  <2>5. \/ UNCHANGED queue
        \/ Post(<< "close", d >>)
        \/ queue' = [queue EXCEPT ![Owner(d)] = Aborted(d, @)]
    BY <1>7 DEF End, HandleRead, HandleWrite, HeartBeatSend, Stop, HandleClose, Closing
  <2>6. HandlersOf(c)' = {}
    BY <1>0, <2>2, <2>5, OthersPost DEF Kinds
  <2> QED
    BY <1>0, <2>1, <2>3, <2>4, <2>6 DEF Quiet
<1> QED
  BY <1>1, <1>2, <1>3, <1>4, <1>5, <1>6, <1>7 DEF ServerNext, ManagerThread

\* Once a closed session has nothing pending, queued or running, no thread ever
\* starts or posts anything for it again before tcpServer::stop.
THEOREM QuietStaysCorrect == ServerSpec => QuietStays
<1>1. ServerInv /\ [ServerNext]_serverVars
        => [~AcceptStopped =>
              \A c \in Ids : session[c].object # "unborn" /\ ~Connected(c) /\ Quiet(c)
                             => Quiet(c)']_serverVars
  BY QuietLemma
<1> QED
  BY <1>1, ServerInvCorrect, PTL DEF ServerSpec, QuietStays
=============================================================================
