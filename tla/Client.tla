------------------------------- MODULE Client -------------------------------
(***************************************************************************)
(* The client's life cycle (client.cpp): start connects, starts the first  *)
(* operations and then the thread that runs m_service; handle_close stops  *)
(* m_service; and the object is owned by the application, by the thread's  *)
(* function and by every handler, for each is bound to shared_from_this(). *)
(*                                                                         *)
(* There is no io_service::work: run returns when it has no handler left.  *)
(* A handler whose wait was cancelled does nothing but owns the client, so *)
(* it is kept here ("aborted").  start is called once more only after it   *)
(* has failed, which changes nothing and is left out.                      *)
(***************************************************************************)
EXTENDS Connection

CONSTANTS
  MaxQueue,   \* stop is called and operations end only while fewer wait (bound)
  MaxReads    \* reads that end with data (bound)

ASSUME ClientAssumption == MaxQueue \in Nat /\ MaxReads \in Nat

VARIABLES
  conn,         \* the connection, see Connection
  object,       \* "live", "destroyed", or "terminated": ~client joined its own thread
  queue,        \* the handlers queued in m_service
  running,      \* the handler the thread is in, or "idle"
  loop,         \* m_thread: "none", "running", "over"
  stopped,      \* m_service.stop() was called
  app,          \* where the application's thread is
  held,         \* the application owns the client
  received,     \* calls of OnRecvData
  disconnects   \* calls of OnDisconnect

loopVars == << queue, running, loop, stopped >>
clientVars == << conn, object, loopVars, app, held, received, disconnects >>

ClientInit ==
  /\ conn = [m_is_connected |-> FALSE, sending |-> FALSE, pending |-> {}]
  /\ object = "live"
  /\ queue = << >>
  /\ running = "idle"
  /\ loop = "none"
  /\ stopped = FALSE
  /\ app = "idle"
  /\ held = TRUE
  /\ received = 0
  /\ disconnects = 0

Post(h) == queue' = Append(queue, h)

-----------------------------------------------------------------------------
(* The application.                                                        *)

\* connect succeeded.  The thread comes last, so nothing runs in between.
StartClient ==
  /\ held /\ app = "idle" /\ loop = "none"
  /\ \E s \in Beat([conn EXCEPT !.m_is_connected = TRUE]) : conn' = DoRead(s)
  /\ loop' = "running"
  /\ UNCHANGED << object, queue, running, stopped, app, held, received, disconnects >>

\* send_data and do_write test m_is_connected one after the other.
SendData ==
  /\ held /\ app \in {"idle", "do_write"}
  /\ app' = IF ~conn.m_is_connected THEN "idle"
            ELSE IF app = "idle" THEN "do_write" ELSE "async"
  /\ UNCHANGED << conn, object, loopVars, held, received, disconnects >>

SocketOpen == conn.m_is_connected \/ running = "closing"

\* On a socket closed meanwhile the write fails at once.
AsyncWrite ==
  /\ app = "async"
  /\ app' = "idle"
  /\ \E t \in StartWrite(conn) :
       IF SocketOpen \/ t.sending = conn.sending
       THEN conn' = t /\ UNCHANGED queue
       ELSE conn' = [conn EXCEPT !.sending = TRUE] /\ Post("error")
  /\ UNCHANGED << object, running, loop, stopped, held, received, disconnects >>

Stop ==
  /\ held /\ app = "idle"
  /\ Len(queue) < MaxQueue
  /\ Post("close")
  /\ UNCHANGED << conn, object, running, loop, stopped, app, held, received, disconnects >>

\* Handlers that own the client.
Owned == conn.pending # {} \/ queue # << >> \/ running # "idle"

\* Fault: the handlers do not own the client.
DropRaw ==
  /\ held /\ app = "idle"
  /\ held' = FALSE
  /\ object' = "destroyed"
  /\ conn' = Close(conn)
  /\ disconnects' = disconnects + IF conn.m_is_connected THEN 1 ELSE 0
  /\ UNCHANGED << loopVars, app, received >>

\* The application lets its shared_ptr go.  The destructor calls handle_close and
\* joins the thread, which is over if nobody owns the client any more.
Drop ==
  /\ held /\ app = "idle"
  /\ held' = FALSE
  /\ IF loop = "running" \/ Owned
     THEN UNCHANGED << conn, object, disconnects >>
     ELSE /\ object' = "destroyed"
          /\ conn' = Close(conn)
          /\ disconnects' = disconnects + IF conn.m_is_connected THEN 1 ELSE 0
  /\ UNCHANGED << loopVars, app, received >>

-----------------------------------------------------------------------------
(* The thread that runs m_service, and the reactor (external).             *)

OperationEnds ==
  /\ loop = "running" /\ ~stopped
  /\ Len(queue) < MaxQueue
  /\ \E op \in conn.pending : \E h \in Outcomes(op) :
       /\ conn' = [conn EXCEPT !.pending = @ \ {op}]
       /\ Post(h)
  /\ UNCHANGED << object, running, loop, stopped, app, held, received, disconnects >>

\* Fault: handle_close tests for the opposite.
BeginInverted ==
  /\ loop = "running" /\ ~stopped
  /\ running = "idle"
  /\ queue # << >>
  /\ running' = IF Head(queue) = "close" /\ conn.m_is_connected THEN "idle" ELSE Head(queue)
  /\ queue' = Tail(queue)
  /\ UNCHANGED << conn, object, loop, stopped, app, held, received, disconnects >>

Begin ==
  /\ loop = "running" /\ ~stopped
  /\ running = "idle"
  /\ queue # << >>
  /\ running' = IF Head(queue) = "close" /\ ~conn.m_is_connected THEN "idle" ELSE Head(queue)
  /\ queue' = Tail(queue)
  /\ UNCHANGED << conn, object, loop, stopped, app, held, received, disconnects >>

Handler(h) ==
  /\ running = h
  /\ running' = "idle"
  /\ UNCHANGED << object, loop, stopped, app, held, disconnects >>

\* Fault: after a refused message the connection is given up without a word.
HandleReadRefuses ==
  /\ Handler("read")
  /\ \/ conn' \in AfterRead(conn) /\ received < MaxReads /\ received' = received + 1
     \/ conn' = Cancel(conn) /\ UNCHANGED received
  /\ UNCHANGED queue

\* With data OnRecvData is called and may refuse: stop.
HandleRead ==
  /\ Handler("read")
  /\ conn' \in AfterRead(conn)
  /\ \/ UNCHANGED << queue, received >>
     \/ /\ received < MaxReads
        /\ received' = received + 1
        /\ UNCHANGED queue \/ Post("close")

HandleWrite ==
  /\ Handler("write")
  /\ conn' \in AfterWrite(conn)
  /\ UNCHANGED << queue, received >>

HeartBeatSend ==
  /\ Handler("hbsend")
  /\ conn' \in Beat(conn)
  /\ UNCHANGED << queue, received >>

\* Fault: a failed operation is reported at once, and again by the close it posts.
HandleErrorTells ==
  /\ running \in {"hbhandle", "error"}
  /\ running' = "idle"
  /\ Post("close")
  /\ disconnects' = disconnects + IF conn.m_is_connected THEN 1 ELSE 0
  /\ UNCHANGED << conn, object, loop, stopped, app, held, received >>

\* heart_beat_handle and the handlers of failed operations call stop.
HandleError ==
  /\ Handler("hbhandle") \/ Handler("error")
  /\ Post("close")
  /\ UNCHANGED << conn, received >>

HandleClose ==
  /\ running = "close"
  /\ running' = "closing"
  /\ conn' = [conn EXCEPT !.m_is_connected = FALSE]
  /\ UNCHANGED << object, queue, loop, stopped, app, held, received, disconnects >>

Ended == queue \o Repeat("error", Cardinality(Failing(conn)))
               \o Repeat("aborted", Cardinality(conn.pending \ Failing(conn)))

Closing ==
  /\ running = "closing"
  /\ running' = "idle"
  /\ conn' = Close(conn)
  /\ queue' = Ended
  /\ disconnects' = disconnects + 1
  /\ stopped' = TRUE
  /\ UNCHANGED << object, loop, app, held, received >>

\* run returns: m_service is stopped or has nothing left to do.  The thread's
\* function lets its reference go; ~client on this thread joins itself and throws.
LoopEnds ==
  /\ loop = "running" /\ running = "idle"
  /\ stopped \/ ~Owned
  /\ loop' = "over"
  /\ object' = IF held \/ Owned THEN object ELSE "terminated"
  /\ UNCHANGED << conn, queue, running, stopped, app, held, received, disconnects >>

LoopThread ==
  \/ Begin \/ HandleRead \/ HandleWrite \/ HeartBeatSend \/ HandleError
  \/ HandleClose \/ Closing \/ LoopEnds

ClientNext ==
  \/ StartClient \/ SendData \/ AsyncWrite \/ Stop \/ Drop
  \/ OperationEnds
  \/ LoopThread

ClientSpec == ClientInit /\ [][ClientNext]_clientVars

FairClientSpec == ClientSpec /\ WF_clientVars(LoopThread)

-----------------------------------------------------------------------------

\* The type invariant: the connection, the queue, the threads and the owners.
ClientTypeOK ==
  /\ conn \in [m_is_connected : BOOLEAN, sending : BOOLEAN, pending : SUBSET Operations]
  /\ object \in {"live", "destroyed", "terminated"}
  /\ queue \in Seq(Kinds \cup {"aborted"})
  /\ running \in Kinds \cup {"closing", "idle"}
  /\ loop \in {"none", "running", "over"}
  /\ stopped \in BOOLEAN
  /\ app \in {"idle", "do_write", "async"}
  /\ held \in BOOLEAN
  /\ received \in 0 .. MaxReads
  /\ disconnects \in Nat

\* m_service.run would return as soon as no handler is left, and nothing starts it
\* again.  That never happens to a connected client: its thread runs, and a read is
\* pending, finished or being handled, or the handler that will close it is queued.
NeverDeaf ==
  conn.m_is_connected =>
    /\ loop = "running" /\ ~stopped
    /\ \/ "read" \in conn.pending
       \/ running \in {"read", "error", "close"}
       \/ \E i \in DOMAIN queue : queue[i] \in {"read", "error", "close"}

\* The application hears of the end of a connection from m_service's thread only: the
\* destructor calls handle_close too, on whichever thread drops the last reference,
\* but never finds the connection open.
DisconnectFromHandler == [][disconnects' # disconnects => running = "closing"]_clientVars

Talk == IF disconnects > 0 THEN "closed" ELSE IF loop = "none" THEN "silent" ELSE "open"

Promised ==
  INSTANCE Notify WITH talk <- Talk, messages <- received, farewells <- disconnects

\* The client keeps what tCliNotify is promised: OnDisconnect once, from whichever of
\* stop, errors, heartbeats and the destructor it comes (client.cpp:78-90), and no
\* OnRecvData after it, since handle_close stops m_service with finished reads queued.
ImplementsNotify == Promised!NotifySpec

\* A posted close is answered: OnDisconnect is called and the thread ends.
StopEnds ==
  (loop = "running" /\ \E i \in DOMAIN queue : queue[i] = "close")
    ~> (disconnects > 0 /\ loop = "over")
=============================================================================
