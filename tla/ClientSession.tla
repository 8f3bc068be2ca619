---------------------------- MODULE ClientSession ----------------------------
(***************************************************************************)
(* The session life cycle of HMMPClient (client.py): connect, the nonce     *)
(* challenge and the handshake, the heartbeat loop, reconnection, redirects *)
(* and disconnect, over HMMPConnection objects (connection.py).             *)
(*                                                                          *)
(* Everything runs on one asyncio event loop, so a step is the code between *)
(* two awaits.  A task that an answer or a cancellation makes ready runs    *)
(* before the loop polls the network and its timers again: it runs in the   *)
(* step that makes it ready.  A step passes through several methods, whose  *)
(* effects are operators on a record: s is the whole state, and F(c, t) is  *)
(* what c becomes when task t runs F.                                       *)
(*                                                                          *)
(* A task may be inside several nested calls of close(), whose handler      *)
(* _on_connection_close reconnects, sends and may fail and close again:     *)
(* every level is in the same place, so their number says it all.           *)
(*                                                                          *)
(* A definition without a comment of its own, placed before the one it      *)
(* alters, is a seeded mistake (README, "Seeded mistakes").                 *)
(***************************************************************************)
EXTENDS Naturals, FiniteSetsExt

CONSTANTS
    App,           \* the application's task, which calls connect and disconnect
    Caller,        \* a task of the application that makes requests
    MaxTasks,      \* how many background tasks may live at a time
    MaxConns,      \* how many HMMPConnection objects may be in use at a time
    MaxFaults,     \* how often the network or the server misbehaves
    MaxEvents,     \* how many calls the application makes and redirects the server sends
    AutoReconnect, \* ClientConfig.auto_reconnect
    ReaderFirst    \* whether the read task starts before the handshake

ASSUME SessionAssumption ==
    /\ App # Caller /\ {App, Caller} \cap (0..MaxTasks) = {}
    /\ {MaxTasks, MaxConns} \subseteq Nat \ {0}
    /\ {MaxFaults, MaxEvents} \subseteq Nat
    /\ {AutoReconnect, ReaderFirst} \subseteq BOOLEAN

Conns == 1..MaxConns
Background == 1..MaxTasks
Tasks == {App, Caller} \cup Background

VARIABLE s

Off == [job |-> "none", at |-> "off", g |-> 0, own |-> 0, depth |-> 0]

Init ==
    s = [running |-> FALSE,                       \* _running
         conn |-> 0,                              \* _conn, 0 before the first
         read |-> 0, beat |-> 0,                  \* _read_task, _heartbeat_task; 0 when done
         st |-> [g \in Conns |-> "DISCONNECTED"], \* _state
         sock |-> [g \in Conns |-> FALSE],        \* _reader and _writer are set
         srv |-> [g \in Conns |-> "none"],        \* (server) what it has granted on g
         task |-> [t \in Tasks |-> Off],
         faults |-> MaxFaults, events |-> MaxEvents,
         held |-> FALSE,  \* (history) a session was established since connect()
         calm |-> TRUE]   \* (history) no send and no handshake has failed, no redirect
                          \* came, and no disconnect met a task that was reconnecting

-----------------------------------------------------------------------------
(***************************************************************************)
(* The pieces of the methods.                                               *)
(***************************************************************************)

\* HMMPConnection.is_connected
Connected(c, g) == g # 0 /\ c.st[g] \in {"PENDING", "AUTHENTICATING", "AUTHENTICATED"}

Live(c, t) == c.task[t].at # "off"

\* The read loop of g is alive and can take in what the server sends.
Reading(c, g) ==
    /\ g # 0 /\ c.sock[g] /\ Connected(c, g)
    /\ \E b \in Background : c.task[b].at = "read" /\ c.task[b].own = g

\* A connection object that no task refers to stands for a new one; one that was
\* leaked with its socket open is taken last.
Unused(c) ==
    LET free == {g \in Conns : \A t \in Tasks : g \notin {c.task[t].g, c.task[t].own}}
        shut == {g \in free : ~c.sock[g]}
    IN  IF shut # {} THEN shut ELSE free
Idle(c) == {b \in Background : ~Live(c, b)}

\* Task t awaits something that concerns connection g; a task ends or is
\* cancelled (0 is no task).
Await(c, t, at, g) == [c EXCEPT !.task[t].at = at, !.task[t].g = g]

EndKeepsTask(c, t) == IF t = 0 THEN c ELSE [c EXCEPT !.task[t] = Off]

End(c, t) ==
    IF t = 0 THEN c
    ELSE [c EXCEPT !.task[t] = Off,
                   !.read = IF @ = t THEN 0 ELSE @,
                   !.beat = IF @ = t THEN 0 ELSE @]

\* Tasks inside _establish_connection or on their way to it.
Establishing(c) ==
    {t \in Tasks : c.task[t].at \in {"open", "nonce", "auth", "sleep", "graceful"}}

\* _establish_connection up to the await of open_connection.
Establish(c, t) ==
    LET g == Min(Unused(c))
    IN  [Await(c, t, "open", g) EXCEPT !.conn = g, !.st[g] = "DISCONNECTED",
                                       !.sock[g] = FALSE, !.srv[g] = "none"]

\* read_frame_loop tests is_connected and reads again, or ends.
ReadNext(c, t) ==
    IF Connected(c, c.task[t].own)
    THEN [Await(c, t, "read", 0) EXCEPT !.task[t].job = "read", !.task[t].depth = 0]
    ELSE End(c, t)

\* What a task's outermost method does once the call it was in has returned or
\* raised: _migrate_connection goes on if the client still runs, what it raises
\* is caught by route_frame, and every other method ends.
Base(c, t) ==
    CASE c.task[t].job = "redirect" /\ c.running ->
             Establish([c EXCEPT !.task[t].job = "migrate", !.task[t].depth = 0], t)
      [] c.task[t].job = "redirect" /\ ~c.running -> ReadNext(c, t)
      [] c.task[t].job = "migrate" -> ReadNext(c, t)
      [] OTHER -> End(c, t)

UnwindForever(c, t) ==
    IF c.task[t].depth > 0 THEN Await(c, t, "sleep", 0) ELSE Base(c, t)

\* An exception, or the return of the close() that a failed send started: the
\* innermost _reconnect tries again while the client runs, else all of them end.
Unwind(c, t) ==
    IF c.task[t].depth > 0 /\ c.running THEN Await(c, t, "sleep", 0) ELSE Base(c, t)

ClosedLeaky(c, t, g) ==
    IF c.running /\ AutoReconnect
    THEN [Await(c, t, "sleep", 0) EXCEPT !.st[g] = "DISCONNECTED", !.task[t].depth = @ + 1]
    ELSE Unwind([c EXCEPT !.st[g] = "DISCONNECTED"], t)

ClosedSilently(c, t, g) ==
    Unwind([c EXCEPT !.st[g] = "DISCONNECTED", !.sock[g] = FALSE, !.srv[g] = "none"], t)

\* close() after its await, _on_connection_close and the start of _reconnect.
Closed(c, t, g) ==
    LET d == [c EXCEPT !.st[g] = "DISCONNECTED", !.sock[g] = FALSE, !.srv[g] = "none"]
    IN  IF c.running /\ AutoReconnect
        THEN [Await(d, t, "sleep", 0) EXCEPT !.task[t].depth = @ + 1]
        ELSE Unwind(d, t)

\* close() up to its await.  A second caller passes the same guard meanwhile.
Close(c, t, g) ==
    CASE c.st[g] = "DISCONNECTED" -> Unwind(c, t)
      [] c.st[g] # "DISCONNECTED" /\ c.sock[g] ->
             Await([c EXCEPT !.st[g] = "CLOSING"], t, "closing", g)
      [] OTHER -> Closed(c, t, g)

\* send_frame on the current connection, then the await of an answer.
Send(c, t, at, fails) ==
    CASE ~c.sock[c.conn] -> Unwind(c, t)
      [] c.sock[c.conn] /\ ~fails -> Await(c, t, at, c.conn)
      [] OTHER -> Close([c EXCEPT !.faults = @ - 1, !.calm = FALSE], t, c.conn)

\* Whether a send may fail now.
Fails(c) == {FALSE} \cup (IF c.faults > 0 THEN {TRUE} ELSE {})

\* create_task(self._conn.read_frame_loop()); without a socket it ends at once.
StartReader(c) ==
    LET b == Min(Idle(c))
    IN  IF c.sock[c.conn]
        THEN [c EXCEPT !.read = b,
                       !.task[b] = [Off EXCEPT !.job = "read", !.at = "read", !.own = c.conn]]
        ELSE [c EXCEPT !.read = 0]

\* create_task(self._heartbeat_loop())
StartBeat(c) ==
    LET b == Min(Idle(c))
    IN  IF c.running
        THEN [c EXCEPT !.beat = b, !.task[b] = [Off EXCEPT !.job = "beat", !.at = "interval"]]
        ELSE [c EXCEPT !.beat = 0]

\* _heartbeat_loop tests whatever connection is current now.
BeatNext(c, t) ==
    IF c.running /\ Connected(c, c.conn) THEN Await(c, t, "interval", 0) ELSE End(c, t)

SetStateEarly(c, state) == [c EXCEPT !.st[c.conn] = "AUTHENTICATED"]

\* set_state on the current connection.
SetState(c, state) == [c EXCEPT !.st[c.conn] = state]

\* The end of _establish_connection: its caller returns, and with it a close()
\* one level up, where a send had failed.
Established(c, t) ==
    LET d == [c EXCEPT !.held = c.running]
    IN  IF d.task[t].depth = 0 THEN Base(d, t)
        ELSE Unwind([d EXCEPT !.task[t].depth = @ - 1], t)

-----------------------------------------------------------------------------
(***************************************************************************)
(* The steps.                                                               *)
(***************************************************************************)

At(t, at) == s.task[t].at = at
Conn(t) == s.task[t].g

\* (bounds) There is an object for a new connection, and for the new tasks.
RoomForConn == Unused(s) # {}
RoomForTasks == Cardinality(Idle(s)) >= (IF s.running THEN 2 ELSE 1)
RoomToMigrate(t) == s.task[t].job = "redirect" /\ s.running => RoomForConn

\* A task stands before one of these bounds.
Cramped ==
    \E t \in Tasks : \/ At(t, "sleep") /\ ~RoomForConn
                     \/ s.task[t].at \in {"open", "auth"} /\ ~RoomForTasks
                     \/ ~RoomToMigrate(t)

Call(t, job) == [s EXCEPT !.events = @ - 1, !.task[t].job = job]

Connect ==
    /\ At(App, "off") /\ s.events > 0 /\ RoomForConn
    /\ s' = IF s.running THEN [s EXCEPT !.events = @ - 1]
            ELSE Establish([Call(App, "connect") EXCEPT !.running = TRUE, !.held = FALSE], App)

\* open_connection returns; the handshake starts on the current connection.
Opened(t) ==
    /\ At(t, "open") /\ RoomForTasks
    /\ LET c == [s EXCEPT !.sock[Conn(t)] = TRUE, !.st[Conn(t)] = "PENDING"]
           d == IF ReaderFirst THEN StartReader(c) ELSE c
       IN  \E fails \in Fails(s) : s' = Send(SetState(d, "AUTHENTICATING"), t, "nonce", fails)

OpenFails(t) ==
    /\ At(t, "open") /\ s.faults > 0
    /\ s' = Unwind([s EXCEPT !.faults = @ - 1], t)

\* The nonce comes, and with it _send_handshake_request signs what it sends on
\* the current connection; the server accepts it only where it issued the nonce.
NonceAnswered(t) ==
    /\ At(t, "nonce") /\ Reading(s, Conn(t))
    /\ LET verdict == IF Conn(t) = s.conn THEN "accepts" ELSE "refuses"
           c == [s EXCEPT !.srv[s.conn] = IF s.sock[s.conn] THEN verdict ELSE @]
       IN  \E fails \in Fails(s) : s' = Send(c, t, "auth", fails)

HandshakeRefused(t) ==
    /\ At(t, "auth") /\ Reading(s, Conn(t)) /\ s.srv[Conn(t)] # "accepts"
    /\ s' = Unwind([s EXCEPT !.calm = FALSE], t)

\* The handshake is accepted: the current connection counts as authenticated.
Authenticated(t) ==
    /\ At(t, "auth") /\ Reading(s, Conn(t)) /\ s.srv[Conn(t)] = "accepts"
    /\ RoomForTasks /\ RoomToMigrate(t)
    /\ LET c == SetState(s, "AUTHENTICATED")
           d == IF ReaderFirst THEN c ELSE StartReader(c)
       IN  s' = Established(StartBeat(d), t)

\* The wait for an answer times out: it cannot come, or it comes too late.
Timeout(t) ==
    /\ s.task[t].at \in {"nonce", "auth", "pong", "answer"}
    /\ ~Reading(s, Conn(t)) \/ s.faults > 0
    /\ RoomToMigrate(t)
    /\ LET c == IF Reading(s, Conn(t)) THEN [s EXCEPT !.faults = @ - 1] ELSE s
       IN  s' = IF At(t, "pong") THEN BeatNext(c, t)
                ELSE Unwind([c EXCEPT !.calm = @ /\ At(t, "answer")], t)

\* _reconnect after its sleep.
SleepDone(t) ==
    /\ At(t, "sleep") /\ RoomForConn
    /\ s' = Establish(s, t)

CloseDone(t) ==
    /\ At(t, "closing")
    /\ AutoReconnect \/ RoomToMigrate(t)
    /\ s' = Closed(s, t, Conn(t))

BeatWakes(t) ==
    /\ At(t, "interval")
    /\ IF Connected(s, s.conn) THEN \E fails \in Fails(s) : s' = Send(s, t, "pong", fails)
       ELSE s' = End(s, t)

Pong(t) ==
    /\ At(t, "pong") /\ Reading(s, Conn(t))
    /\ s' = BeatNext(s, t)

\* _send_request, which raises at once without a session.
Request ==
    /\ At(Caller, "off") /\ s.events > 0
    /\ s.conn # 0 /\ s.st[s.conn] = "AUTHENTICATED"
    /\ LET c == Call(Caller, "request")
       IN  \E fails \in Fails(c) : s' = Send(c, Caller, "answer", fails)

Answered(t) ==
    /\ At(t, "answer") /\ Reading(s, Conn(t))
    /\ s' = End(s, t)

\* Nobody makes the server send anything on g.
Silent(g) ==
    /\ \A t \in Tasks : Conn(t) = g => At(t, "closing")
    /\ g # s.conn \/ \A b \in Background : s.task[b].job # "beat" \/ At(b, "sleep")

\* read_frame fails: its connection is gone, or nothing came for read_timeout
\* seconds, or the network broke.  The loop closes the connection and ends.
ReadFails(t) ==
    /\ At(t, "read")
    /\ LET g == s.task[t].own
           expected == ~s.sock[g] \/ ~Connected(s, g) \/ Silent(g)
       IN  /\ expected \/ s.faults > 0
           /\ s' = Close([s EXCEPT !.faults = IF expected THEN @ ELSE @ - 1,
                                   !.task[t].own = 0], t, g)

\* _handle_redirect, up to the end of the graceful period.
Redirected(t) ==
    /\ At(t, "read") /\ Reading(s, s.task[t].own) /\ s.events > 0
    /\ s' = [Await(s, t, "graceful", 0) EXCEPT
                !.task[t].job = "redirect", !.events = @ - 1, !.calm = FALSE]

GracefulDone(t) ==
    /\ At(t, "graceful") /\ RoomToMigrate(t)
    /\ s' = Close(s, t, s.conn)

\* disconnect() from where the heartbeat task is gone: it cancels whatever the
\* read task is by then and awaits its end, unless it is done already.
CancelRead(c) ==
    IF c.read = 0 THEN Close(c, App, c.conn)
    ELSE Await(End(c, c.read), App, "endread", 0)

\* disconnect() up to its first await.
Disconnect ==
    /\ At(App, "off") /\ s.events > 0 /\ s.conn # 0
    /\ LET c == [Call(App, "disconnect") EXCEPT !.running = FALSE, !.held = FALSE,
                                                !.calm = @ /\ Establishing(s) = {}]
       IN  s' = IF c.beat = 0 THEN CancelRead(c)
                ELSE Await(End(c, c.beat), App, "endbeat", 0)

BeatEnded(t) ==
    /\ t = App /\ At(t, "endbeat")
    /\ s' = CancelRead(s)

\* Last it closes what is the current connection now.
ReadEnded(t) ==
    /\ t = App /\ At(t, "endread")
    /\ s' = Close(s, t, s.conn)

\* What a task does by itself, or with an answer the server gives; a read that
\* nothing answers fails.
Progress(t) ==
    \/ Opened(t) \/ NonceAnswered(t) \/ HandshakeRefused(t) \/ Authenticated(t)
    \/ Timeout(t) \/ SleepDone(t) \/ CloseDone(t) \/ BeatWakes(t) \/ Pong(t)
    \/ GracefulDone(t) \/ Answered(t) \/ BeatEnded(t) \/ ReadEnded(t)
    \/ ReadFails(t) /\ s'.faults = s.faults

Next ==
    \/ Connect \/ Disconnect \/ Request
    \/ \E t \in Tasks : Progress(t) \/ OpenFails(t) \/ ReadFails(t) \/ Redirected(t)

Spec == Init /\ [][Next]_s

\* The event loop runs what is ready, timers fire, and the server answers but
\* for the failures that MaxFaults allows.  No fairness for the application's
\* calls, nor for redirects or failures.
Fairness == \A t \in Tasks : WF_s(Progress(t))

FairSpec == Spec /\ Fairness

-----------------------------------------------------------------------------
(***************************************************************************)
(* Properties.                                                              *)
(***************************************************************************)

\* The type of the state; the tasks in _read_task and _heartbeat_task are what
\* disconnect() takes them for.
TypeOK ==
    /\ s.conn \in {0} \cup Conns
    /\ {s.running, s.held, s.calm} \subseteq BOOLEAN
    /\ {s.read, s.beat} \subseteq {0} \cup Background
    /\ s.st \in [Conns -> {"DISCONNECTED", "PENDING", "AUTHENTICATING", "AUTHENTICATED", "CLOSING"}]
    /\ s.sock \in [Conns -> BOOLEAN]
    /\ s.read # 0 => s.task[s.read].job \in {"read", "redirect", "migrate"}
    /\ s.beat # 0 => s.task[s.beat].job = "beat"
    /\ \A t \in Tasks : s.task[t].depth \in 0..(MaxFaults + 1) /\ Conn(t) \in {0} \cup Conns

\* A client that had a session and still runs is not abandoned, if it may
\* reconnect: some read loop is alive, which reconnects when it fails, or some
\* task is closing a connection, is about to reconnect or is reconnecting -
\* whichever tasks failed, were cancelled or reconnected at the same time.
NeverAbandoned ==
    AutoReconnect /\ s.running /\ s.held =>
        \/ \E t \in Tasks : s.task[t].at \in {"read", "closing"}
        \/ Establishing(s) # {}

\* Short of the disturbances that calm names, the client never has two open
\* connections: whatever reads, opens or answers fail, whoever reconnects.
OneConnection ==
    s.calm => \A g, h \in Conns : s.sock[g] /\ s.sock[h] => g = h

\* A connection that counts as authenticated is open, and the server accepted,
\* on that very connection, a handshake signed with a nonce it issued there.
SessionIsGranted ==
    s.calm => \A g \in Conns :
        s.st[g] = "AUTHENTICATED" => s.sock[g] /\ s.srv[g] = "accepts"

\* Nothing survives disconnect(): every heartbeat loop, read loop and
\* reconnection in progress ends, or the application has called connect again.
TasksEnd == ~s.running ~> (s.running \/ Cramped \/ \A b \in Background : ~Live(s, b))

HasSession == s.conn # 0 /\ s.st[s.conn] = "AUTHENTICATED" /\ Reading(s, s.conn)

\* A running client that lost its session gets one again, if it may reconnect,
\* once the faults stop.
ComesBack ==
    (AutoReconnect /\ s.running /\ s.held) ~> (HasSession \/ ~s.running \/ ~s.calm \/ Cramped)

\* "Connect to HMMP server and perform handshake": connect() leads to a session.
ConnectSucceeds == s.running ~> (HasSession \/ ~s.running)
=============================================================================
