------------------------------- MODULE Server -------------------------------
(***************************************************************************)
(* The server's life cycle: tcpServer (server.cpp), its managerServers     *)
(* (manager_server.cpp) and the life of their sessions (session.cpp).      *)
(*                                                                         *)
(* The accept thread builds sessions, puts them into the table of a        *)
(* manager and starts them; the manager's thread runs their handlers and,  *)
(* every 500 ms, check_session, which destroys the closed ones; an         *)
(* application thread calls SendData and at last stop.  A handler is bound *)
(* to the raw this of its session: what happens when the session is gone   *)
(* is undefined, and so are a null table entry and a division by zero.     *)
(* The model ends when a thread is about to do that: see Undefined; and it *)
(* ends where an exception leaves the accept thread: see Terminated.       *)
(*                                                                         *)
(* SendPath and RecvPath say what the handlers do with data; here they are *)
(* what they start, post and close.  Each access to a table is one step:   *)
(* the races inside std::unordered_map are not modelled.                   *)
(***************************************************************************)
EXTENDS Connection
Funs == INSTANCE Functions

CONSTANTS
  Managers,   \* m_handle_num
  BaseId,     \* the first value of m_base_sessionid (10 in the code)
  LastId,     \* the last client that connects (bound)
  Half,       \* an int is -Half .. Half - 1 (2^31 in the code)
  MaxQueue,   \* operations end only while fewer handlers are queued (bound)
  Lively      \* the clients whose operations end before the server stops (bound)

ASSUME ManagersAssumption == Managers \in Nat /\ Managers > 0
ASSUME IdsAssumption == BaseId \in Nat /\ LastId \in Nat /\ BaseId <= LastId
ASSUME HalfAssumption == Half \in Nat /\ Half > 0 /\ LastId < 4 * Half * Half
ASSUME QueueAssumption == MaxQueue \in Nat

Ids == BaseId .. LastId
NoOne == -1
Manager == 0 .. Managers - 1

Handlers == (Kinds \X Ids) \cup {<< "check", NoOne >>}
Idle == << "idle", NoOne >>
Steps == Handlers \cup {Idle} \cup ({"closing"} \X Ids)

VARIABLES
  m_session,    \* the tables: no entry, an entry with a null pointer, a session
  session,      \* the sessions
  queue,        \* the handlers queued in each manager's io_service, in order
  running,      \* the handler each manager's thread is in, or Idle
  stopped,      \* which of the io_services are stopped
  checkArmed,   \* the managers whose m_time_checker is waiting
  accept,       \* where the accept thread is, with which client
  app           \* where the application thread is, with which client or manager

loopVars == << queue, running, stopped, checkArmed >>
serverVars == << m_session, session, loopVars, accept, app >>

ServerInit ==
  /\ m_session = [c \in Ids |-> "none"]
  /\ session = [c \in Ids |->
       [object |-> "unborn", m_is_connected |-> FALSE, sending |-> FALSE,
        pending |-> {}, disconnects |-> 0]]
  /\ queue = [m \in Manager |-> << >>]
  /\ running = [m \in Manager |-> Idle]
  /\ stopped = {}
  /\ checkArmed = Manager
  /\ accept = [at |-> "do_connect", id |-> BaseId - 1, early |-> FALSE]
  /\ app = [at |-> "idle", id |-> NoOne, manager |-> 0]

-----------------------------------------------------------------------------
(* Which manager: uint64_t ids pass through int parameters.                *)

\* OnConnect tells the application an unsigned int.
Told(c) == c % (2 * Half)

\* Fault: the id is kept in a type of half the width.
ToIntNarrow(i) == ((i + Half \div 2) % Half) - (Half \div 2)
ToInt(i) == ((i + Half) % (2 * Half)) - Half
ToUint64(n) == n % (4 * Half * Half)
CurrCellManager(n) == ToUint64(n) % Managers

\* do_connect chooses the manager of client c.
Owner(c) == CurrCellManager(ToInt(c))

\* The keys m_session.find looks at when the application calls SendData(n).
Key(n) == {k \in Ids : k = ToUint64(n) /\ Owner(k) = CurrCellManager(n)}

-----------------------------------------------------------------------------
(* Sessions.                                                               *)

Gone(c) == session[c].object = "destroyed"
Connected(c) == session[c].m_is_connected

Became(c, s) == session' = [session EXCEPT ![c] = s]
Post(h) == queue' = [queue EXCEPT ![Owner(h[2])] = Append(@, h)]

SocketOpen(c) == Connected(c) \/ running[Owner(c)] = << "closing", c >>

\* The rest of handle_close, with the call of OnDisconnect.
Closed(c) == [Close(session[c]) EXCEPT !.disconnects = @ + 1]
Aborted(c, q) == q \o Repeat(<< "error", c >>, Cardinality(Failing(session[c])))

HandlersOf(c) == {i \in DOMAIN queue[Owner(c)] : queue[Owner(c)][i][2] = c}

\* Nothing of session c is pending, queued, running or about to start.
Quiet(c) ==
  /\ session[c].pending = {}
  /\ HandlersOf(c) = {}
  /\ running[Owner(c)][2] # c
  /\ ~(accept.id = c /\ accept.at \in {"insert", "start", "arm", "do_read"})
  /\ ~(app.id = c /\ app.at = "async")

-----------------------------------------------------------------------------
(* The accept thread.                                                      *)

Goto(l) == accept' = [accept EXCEPT !.at = l]

ManagersCleared == app.at \in {"join_accept", "stopped"}
AcceptStopped == app.at \notin {"idle", "deliver", "do_write", "async"}

DoConnect ==
  /\ accept.at = "do_connect"
  /\ accept' = [at |-> IF accept.id < LastId THEN "accept" ELSE "last",
                id |-> accept.id + 1, early |-> FALSE]
  /\ UNCHANGED << m_session, session, loopVars, app >>

\* Fault: a failed accept is not followed by another one.
HandleConnectOnce ==
  /\ accept.at = "accept"
  /\ ~AcceptStopped
  /\ Goto("exit")
  /\ UNCHANGED << m_session, session, loopVars, app >>

\* The accept may have failed.  Of a client that has reset the connection already,
\* the remote_endpoint of the trace throws (in a build that has it).
\* m_session[clientid] may be evaluated before or after the session is built.
HandleConnect ==
  /\ accept.at = "accept"
  /\ ~AcceptStopped
  /\ \/ /\ Goto("do_connect") \/ Goto("terminated")
        /\ UNCHANGED m_session
     \/ \E e \in BOOLEAN :
          /\ accept' = [accept EXCEPT !.at = "construct", !.early = e]
          /\ m_session' = IF e THEN [m_session EXCEPT ![accept.id] = "null"]
                               ELSE m_session
  /\ UNCHANGED << session, loopVars, app >>

\* The constructor of session calls OnConnect, unless set_option or remote_endpoint
\* throws first.
Construct ==
  /\ accept.at = "construct"
  /\ \/ /\ session' = [session EXCEPT ![accept.id].object = "live",
                                      ![accept.id].m_is_connected = TRUE]
        /\ Goto("insert")
     \/ /\ Goto("terminated")
        /\ UNCHANGED session
  /\ UNCHANGED << m_session, loopVars, app >>

Insert ==
  /\ accept.at = "insert"
  /\ m_session' = [m_session EXCEPT ![accept.id] = "session"]
  /\ accept' = [accept EXCEPT !.at = "start", !.early = FALSE]
  /\ UNCHANGED << session, loopVars, app >>

\* (*m_session[clientid]).start(), three steps of session::start.
StartSession ==
  LET c == accept.id
  IN  /\ \/ /\ accept.at = "start"
            /\ \E s \in DoWrite(session[c]) : Became(c, s)
            /\ Goto("arm")
         \/ /\ accept.at = "arm"
            /\ Became(c, Arm(session[c]))
            /\ Goto("do_read")
         \/ /\ accept.at = "do_read"
            /\ Became(c, DoRead(session[c]))
            /\ Goto("do_connect")
      /\ UNCHANGED << m_session, loopVars, app >>

\* m_accept_service is stopped: run returns after the current handler.
AcceptEnds ==
  /\ accept.at \in {"accept", "last"}
  /\ AcceptStopped
  /\ Goto("exit")
  /\ UNCHANGED << m_session, session, loopVars, app >>

AcceptThread ==
  DoConnect \/ HandleConnect \/ Construct \/ Insert \/ StartSession \/ AcceptEnds

-----------------------------------------------------------------------------
(* The reactor: operations and waits end, external.                        *)

OperationEnds(c) ==
  /\ Owner(c) \notin stopped
  /\ c \in Lively
  /\ Len(queue[Owner(c)]) < MaxQueue
  /\ \E op \in session[c].pending : \E h \in Outcomes(op) :
       /\ \A i \in HandlersOf(c) : queue[Owner(c)][i] # << h, c >> \/ h = "error"
       /\ session' = [session EXCEPT ![c].pending = @ \ {op}]
       /\ Post(<< h, c >>)
  /\ UNCHANGED << m_session, running, stopped, checkArmed, accept, app >>

CheckExpires(m) ==
  /\ m \in checkArmed
  /\ m \notin stopped
  /\ checkArmed' = checkArmed \ {m}
  /\ queue' = [queue EXCEPT ![m] = Append(@, << "check", NoOne >>)]
  /\ UNCHANGED << m_session, session, running, stopped, accept, app >>

-----------------------------------------------------------------------------
(* A manager's thread.  Begin takes the next handler; handle_close tests   *)
(* m_is_connected in that step, clears it in a second and closes in a last *)
(* one.                                                                    *)

\* Fault: handle_close does not test m_is_connected.
BeginNoTest(m) ==
  /\ m \notin stopped
  /\ running[m] = Idle
  /\ queue[m] # << >>
  /\ queue' = [queue EXCEPT ![m] = Tail(@)]
  /\ running' = [running EXCEPT ![m] = Head(queue[m])]
  /\ UNCHANGED << m_session, session, stopped, checkArmed, accept, app >>

Begin(m) ==
  /\ m \notin stopped
  /\ running[m] = Idle
  /\ queue[m] # << >>
  /\ LET h == Head(queue[m])
     IN  running' = [running EXCEPT ![m] =
           IF h[1] = "close" /\ ~Gone(h[2]) /\ ~Connected(h[2]) THEN Idle ELSE h]
  /\ queue' = [queue EXCEPT ![m] = Tail(@)]
  /\ UNCHANGED << m_session, session, stopped, checkArmed, accept, app >>

\* OnRecvData may refuse a frame: stop.
HandleRead(c) ==
  /\ \E s \in AfterRead(session[c]) : Became(c, s)
  /\ UNCHANGED queue \/ Post(<< "close", c >>)

HandleWrite(c) ==
  /\ \E s \in AfterWrite(session[c]) : Became(c, s)
  /\ UNCHANGED queue

HeartBeatSend(c) ==
  /\ \E s \in Beat(session[c]) : Became(c, s)
  /\ UNCHANGED queue

\* heart_beat_handle and the handlers of failed operations call stop.
Stop(c) == Post(<< "close", c >>) /\ UNCHANGED session

HandleClose(c) ==
  /\ Became(c, [session[c] EXCEPT !.m_is_connected = FALSE])
  /\ UNCHANGED queue

Closing(c) ==
  /\ Became(c, Closed(c))
  /\ queue' = [queue EXCEPT ![Owner(c)] = Aborted(c, @)]

End(m, k, c, Handler) ==
  /\ running[m] = << k, c >>
  /\ Handler
  /\ running' = [running EXCEPT ![m] = IF k = "close" THEN << "closing", c >> ELSE Idle]
  /\ UNCHANGED << m_session, stopped, checkArmed, accept, app >>

Destroyed(c) == [session[c] EXCEPT !.object = "destroyed", !.pending = {}]
Reapable(m) == {c \in Ids : Owner(c) = m /\ m_session[c] = "session" /\ ~Connected(c)}

\* Fault: the timer is not set again.
CheckSessionOnce(m) ==
  /\ running[m][1] = "check"
  /\ running' = [running EXCEPT ![m] = Idle]
  /\ UNCHANGED << m_session, session, queue, stopped, checkArmed, accept, app >>

\* Fault: the entry is erased although somebody else still owns the session.
CheckSessionShares(m) ==
  /\ running[m][1] = "check"
  /\ m_session' = [c \in Ids |-> IF c \in Reapable(m) THEN "none" ELSE m_session[c]]
  /\ checkArmed' = checkArmed \cup {m}
  /\ running' = [running EXCEPT ![m] = Idle]
  /\ UNCHANGED << session, queue, stopped, accept, app >>

CheckSession(m) ==
  /\ running[m][1] = "check"
  /\ m_session' = [c \in Ids |-> IF c \in Reapable(m) THEN "none" ELSE m_session[c]]
  /\ session' = [c \in Ids |-> IF c \in Reapable(m) THEN Destroyed(c) ELSE session[c]]
  /\ checkArmed' = checkArmed \cup {m}
  /\ running' = [running EXCEPT ![m] = Idle]
  /\ UNCHANGED << queue, stopped, accept, app >>

ManagerThread(m) ==
  \/ Begin(m)
  \/ CheckSession(m)
  \/ \E c \in Ids :
       \/ End(m, "read", c, HandleRead(c))
       \/ End(m, "write", c, HandleWrite(c))
       \/ End(m, "hbsend", c, HeartBeatSend(c))
       \/ End(m, "hbhandle", c, Stop(c))
       \/ End(m, "error", c, Stop(c))
       \/ End(m, "close", c, HandleClose(c))
       \/ End(m, "closing", c, Closing(c))

-----------------------------------------------------------------------------
(* The application's thread: SendData, and stop at the end.                *)

AppGoto(l, c) == app' = [app EXCEPT !.at = l, !.id = c]

SendData(c) ==
  /\ app.at = "idle"
  /\ session[c].object # "unborn"
  /\ \E k \in Key(ToInt(Told(c))) : m_session[k] # "none" /\ AppGoto("deliver", k)
  /\ UNCHANGED << m_session, session, loopVars, accept >>

\* Fault: do_write relies on deliver's test.
DeliverOneTest ==
  /\ app.at \in {"deliver", "do_write"}
  /\ IF app.at = "deliver" /\ ~Connected(app.id) THEN AppGoto("idle", NoOne)
     ELSE AppGoto(IF app.at = "deliver" THEN "do_write" ELSE "async", app.id)
  /\ UNCHANGED << m_session, session, loopVars, accept >>

\* deliver and do_write test m_is_connected one after the other.
Deliver ==
  /\ app.at \in {"deliver", "do_write"}
  /\ IF ~Connected(app.id) THEN AppGoto("idle", NoOne)
     ELSE AppGoto(IF app.at = "deliver" THEN "do_write" ELSE "async", app.id)
  /\ UNCHANGED << m_session, session, loopVars, accept >>

\* On a socket closed meanwhile the write fails at once.
AsyncWrite ==
  LET c == app.id
      s == session[c]
  IN  /\ app.at = "async"
      /\ \E t \in StartWrite(s) :
           IF SocketOpen(c) \/ t.sending = s.sending
           THEN Became(c, t) /\ UNCHANGED queue
           ELSE Became(c, [s EXCEPT !.sending = TRUE]) /\ Post(<< "error", c >>)
      /\ AppGoto("idle", NoOne)
      /\ UNCHANGED << m_session, running, stopped, checkArmed, accept >>

StopAt(l, c, m) == app' = [at |-> l, id |-> c, manager |-> m]

\* tcpServer::stop stops m_accept_service, then the managers one by one.
StopServer ==
  /\ app.at = "idle"
  /\ StopAt("post", NoOne, 0)
  /\ UNCHANGED << m_session, session, loopVars, accept >>

Entries(m, e) == {c \in Ids : Owner(c) = m /\ m_session[c] = e}
Orders(S) == Funs!Bijection(1 .. Cardinality(S), S)

\* managerServer::stop posts a handle_close for each session ...
StopPost ==
  LET m == app.manager
  IN  /\ app.at = "post"
      /\ \E cs \in Orders(Entries(m, "session")) :
           queue' = [queue EXCEPT ![m] = @ \o [i \in DOMAIN cs |-> << "close", cs[i] >>]]
      /\ StopAt("clear", NoOne, m)
      /\ UNCHANGED << m_session, session, running, stopped, checkArmed, accept >>

\* ... clears the table: ~session tests m_is_connected ...
StopClear ==
  LET m == app.manager
  IN  /\ app.at = "clear"
      /\ \/ /\ Entries(m, "session") \cup Entries(m, "null") = {}
            /\ StopAt("halt", NoOne, m)
            /\ UNCHANGED << m_session, session >>
         \/ \E c \in Entries(m, "session") \cup Entries(m, "null") :
              /\ m_session' = [m_session EXCEPT ![c] = "none"]
              /\ IF m_session[c] = "session" /\ Connected(c)
                 THEN StopAt("close", c, m) /\ UNCHANGED session
                 ELSE /\ UNCHANGED app
                      /\ IF m_session[c] = "null" THEN UNCHANGED session
                                                 ELSE Became(c, Destroyed(c))
      /\ UNCHANGED << loopVars, accept >>

\* ... and closes ...
StopClose ==
  LET c == app.id
  IN  /\ app.at = "close"
      /\ Became(c, [Closed(c) EXCEPT !.object = "destroyed"])
      /\ queue' = [queue EXCEPT ![Owner(c)] = Aborted(c, @)]
      /\ StopAt("clear", NoOne, app.manager)
      /\ UNCHANGED << m_session, running, stopped, checkArmed, accept >>

\* Fault: m_work keeps the io_service running.
StopHaltForgets ==
  /\ app.at = "halt"
  /\ StopAt("join", NoOne, app.manager)
  /\ UNCHANGED << m_session, session, loopVars, accept >>

\* ... stops the io_service, and joins its thread when that has left its handler.
StopHalt ==
  /\ app.at = "halt"
  /\ stopped' = stopped \cup {app.manager}
  /\ StopAt("join", NoOne, app.manager)
  /\ UNCHANGED << m_session, session, queue, running, checkArmed, accept >>

StopJoin ==
  LET m == app.manager
  IN  /\ \/ /\ app.at = "join"
            /\ m \in stopped /\ running[m] = Idle
            /\ IF m + 1 \in Manager THEN StopAt("post", NoOne, m + 1)
                                    ELSE StopAt("join_accept", NoOne, m)
         \/ /\ app.at = "join_accept"
            /\ accept.at = "exit"
            /\ StopAt("stopped", NoOne, m)
      /\ UNCHANGED << m_session, session, loopVars, accept >>

StopThread ==
  StopPost \/ StopClear \/ StopClose \/ StopHalt \/ StopJoin

AppThread ==
  \/ \E c \in Ids : SendData(c)
  \/ Deliver \/ AsyncWrite \/ StopServer \/ StopThread

-----------------------------------------------------------------------------

\* A thread is about to use a session that is destroyed: it is in a member function,
\* or in a handler bound to its this, or assigns to an entry that was cleared.
UseAfterFree ==
  \/ \E m \in Manager : running[m][2] \in Ids /\ Gone(running[m][2])
  \/ app.at \in {"deliver", "do_write", "async"} /\ Gone(app.id)
  \/ accept.at \in {"start", "arm", "do_read"} /\ Gone(accept.id)
  \/ accept.at = "insert" /\ accept.early /\ m_session[accept.id] = "none"

\* ... or to follow a null pointer in a table (start would insert one) ...
NullEntry ==
  \/ \E m \in Manager : /\ running[m][1] = "check" \/ (app.at = "post" /\ app.manager = m)
                        /\ Entries(m, "null") # {}
  \/ app.at = "deliver" /\ m_session[app.id] = "null"
  \/ accept.at = "start" /\ m_session[accept.id] = "none"

\* ... or to divide by the number of managers that stop has cleared.
DivideByZero == accept.at = "do_connect" /\ ManagersCleared

Undefined == UseAfterFree \/ NullEntry \/ DivideByZero

\* Nobody catches what handle_connect throws, neither run nor io_service::run: the
\* process has ended.
Terminated == accept.at = "terminated"

Over == Undefined \/ Terminated

ServerNext ==
  /\ ~Over
  /\ \/ AcceptThread
     \/ AppThread
     \/ \E m \in Manager : ManagerThread(m) \/ CheckExpires(m)
     \/ \E c \in Ids : OperationEnds(c)

ServerSpec == ServerInit /\ [][ServerNext]_serverVars

\* The threads run on, timers expire, and a thread told to stop goes on with it.
ServerFairness ==
  /\ WF_serverVars(~Over /\ AcceptThread)
  /\ WF_serverVars(~Over /\ (Deliver \/ AsyncWrite \/ StopThread))
  /\ \A m \in Manager :
       /\ WF_serverVars(~Over /\ ManagerThread(m))
       /\ WF_serverVars(~Over /\ CheckExpires(m))

FairServerSpec == ServerSpec /\ ServerFairness

-----------------------------------------------------------------------------

Session == [object : {"unborn", "live", "destroyed"}, m_is_connected : BOOLEAN,
            sending : BOOLEAN, pending : SUBSET Operations, disconnects : Nat]

\* The type invariant: the tables, the sessions, the queues and the threads.
ServerTypeOK ==
  /\ m_session \in [Ids -> {"none", "null", "session"}]
  /\ session \in [Ids -> Session]
  /\ queue \in [Manager -> Seq(Handlers)]
  /\ running \in [Manager -> Steps]
  /\ stopped \subseteq Manager
  /\ checkArmed \subseteq Manager
  /\ accept \in [at : {"do_connect", "accept", "last", "construct", "insert", "start",
                       "arm", "do_read", "exit", "terminated"},
                 id : Int, early : BOOLEAN]
  /\ app \in [at : {"idle", "deliver", "do_write", "async", "post", "clear", "close",
                    "halt", "join", "join_accept", "stopped"},
              id : Ids \cup {NoOne}, manager : Manager]

\* SendData with the id OnConnect gave, an unsigned int that is passed on as an int,
\* reaches that client whenever its id is below 2^31.  Of the others it reaches only
\* one that connected at least 2^32 connections earlier (or, as if it were negative,
\* one of the last 2^31 ids a uint64_t has).
RoutesHome ==
  \A c \in Ids : m_session[c] = "session" =>
    LET reached == Key(ToInt(Told(c)))
    IN  /\ c < Half => reached = {c}
        /\ \A k \in reached :
             k = c \/ k + 2 * Half <= c \/ k >= 4 * Half * Half - Half

\* What the application sends to the id it was told goes to nobody else.  The code
\* does not keep this: after 2^32 connections the ids OnConnect tells come again,
\* and a client that is still connected gets what is meant for the new one.
NobodyElse == [][\A c \in Ids : SendData(c) => app'.id = c]_serverVars

\* OnDisconnect is called once for a client whose session is closed and never for
\* an open one; only when tcpServer::stop destroys a session in the middle of its
\* handle_close may it come twice.  No session is destroyed without it, unless it is
\* destroyed then and handle_close is about to call it.
DisconnectOnce ==
  \A c \in Ids :
    /\ Connected(c) => session[c].disconnects = 0
    /\ session[c].disconnects <= (IF AcceptStopped THEN 2 ELSE 1)
    /\ Gone(c) => \/ session[c].disconnects > 0
                  \/ AcceptStopped /\ running[Owner(c)] = << "closing", c >>

\* Nobody is left without a table that would reap or close it: a live session is in
\* a table, or add_new_session is about to put it there, or stop is closing it; and
\* when stop has returned only the accept thread's last client may be left.
NoOrphan ==
  \A c \in Ids :
    /\ m_session[c] = "session" => session[c].object = "live"
    /\ session[c].object = "live" =>
         \/ m_session[c] = "session"
         \/ accept.at = "insert" /\ accept.id = c
         \/ app.at = "close" /\ app.id = c
    /\ session[c].object = "live" /\ app.at = "stopped" => c = accept.id - 1

\* Closing drains: once a closed session has nothing pending, queued or running,
\* no thread ever starts or posts anything for it again, so the 500 ms until
\* check_session are enough if they are enough for what was already on its way.
QuietStays ==
  [][~AcceptStopped =>
       \A c \in Ids : session[c].object # "unborn" /\ ~Connected(c) /\ Quiet(c)
                      => Quiet(c)']_serverVars

\* A closed session is destroyed in the end, however it was closed: the chain of
\* check_session's timers does not break.
Reaped ==
  \A c \in Ids :
    (session[c].object = "live" /\ ~Connected(c))
      ~> (Gone(c) \/ AcceptStopped \/ Over)

\* After every connection, and after every failed accept, the server accepts again,
\* unless the process ends.
KeepsAccepting ==
  (accept.at # "accept")
    ~> (accept.at \in {"accept", "last"} \/ AcceptStopped \/ Over)

\* The same, and no client can end the process.  The code does not keep this: one
\* that resets the connection before its session is built does.
AcceptsAgain ==
  (accept.at # "accept")
    ~> (accept.at \in {"accept", "last"} \/ AcceptStopped \/ Undefined)

\* tcpServer::stop returns: no join waits for a thread that waits for it.
StopReturns == AcceptStopped ~> (app.at = "stopped" \/ Over)
=============================================================================
