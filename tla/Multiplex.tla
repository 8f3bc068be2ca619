------------------------------ MODULE Multiplex ------------------------------
(***************************************************************************)
(* Requests multiplexed by stream id over the connections of one client:   *)
(* HMMPConnection and FrameRouter (connection.py) and the request path of   *)
(* HMMPClient (client.py, _send_request; one heartbeat iteration and the    *)
(* two handshake exchanges follow the same path).                           *)
(*                                                                          *)
(* Everything runs on one asyncio event loop, so a step is the code between *)
(* two awaits.  The tasks are one per request, one read loop per            *)
(* connection, and some other callers of close().  The router is shared by  *)
(* all connections of the client while stream ids start again at 1 on each  *)
(* of them.  A connection may be opened at any time, beside a live one too, *)
(* and set_state may come late.                                             *)
(*                                                                          *)
(* A definition without a comment of its own, placed before the one it      *)
(* alters, is a seeded mistake (README, "Seeded mistakes").                 *)
(***************************************************************************)
EXTENDS Naturals

CONSTANTS
    Requests,         \* the calls of _send_request, each made at most once
    HandlerRequests,  \* those made by a notification handler, inside the read loop
    Closers,          \* other calls of close(), each for one connection
    MaxConns,         \* how many HMMPConnection objects the client creates
    MaxStreamId,      \* HMMPConnection.MAX_STREAM_ID
    None              \* no request

ASSUME MultiplexAssumption ==
    /\ HandlerRequests \subseteq Requests
    /\ None \notin Requests
    /\ MaxConns \in Nat \ {0}
    /\ MaxStreamId \in Nat \ {0}

Conns == 1..MaxConns
StreamIds == 1..MaxStreamId

VARIABLES
    curr,     \* HMMPClient._conn: the newest connection, 0 before the first
    state,    \* _state of each connection
    trans,    \* its transport: not there, being opened, open, or closing; the
              \* reader and the writer are set in the last two
    counter,  \* _stream_id_counter
    lock,     \* _lock: the request whose task holds it
    loop,     \* where the task of read_frame_loop is
    handler,  \* the request the notification handler run by the loop makes
    closer,   \* where each other caller of close() is
    closing,  \* the connection it closes
    pending,  \* FrameRouter._pending_requests
    task,     \* where each request's task is, or how it ended
    conn,     \* the connection a request was issued on
    sid,      \* its stream id
    fut,      \* its future
    answer,   \* (history) the request whose answer the future was given
    wire,     \* requests written to the server, their answers not yet read
    alone     \* (history) no connection was opened beside one still in use

connVars == <<curr, state, trans, counter, lock>>
readVars == <<loop, handler>>
closeVars == <<closer, closing>>
reqVars == <<task, conn, sid, fut, answer>>
vars == <<curr, state, trans, counter, lock, loop, handler, closer, closing,
          pending, task, conn, sid, fut, answer, wire, alone>>

ConnStates == {"DISCONNECTED", "PENDING", "AUTHENTICATING", "AUTHENTICATED", "CLOSING"}

\* Stages of a task that called close(): waiting for the transport, then for
\* the close handler.
CloseStages == {"close", "onclose"}

\* A request's task waits for the lock, for drain(), for the close() that a
\* failed drain() starts, or for its future; the others are outcomes.
Waiting == {"lock", "drain", "wait"} \cup CloseStages
Outcomes == {"ok", "closed", "timeout", "cancelled"}

Active(r) == task[r] \in Waiting
Ended(r) == task[r] \in Outcomes

\* Some task waits for the connection's lock.
Contended(g) == \E r \in Requests : conn[r] = g /\ task[r] = "lock"

\* HMMPConnection.is_connected
Connected(g) == state[g] \in {"PENDING", "AUTHENTICATING", "AUTHENTICATED"}

\* _reader and _writer are not None.
HasStreams(g) == trans[g] \in {"open", "closing"}

NextStreamIdLate(n) == IF n > MaxStreamId THEN 1 ELSE n + 1
NextStreamId(n) == IF n + 1 > MaxStreamId THEN 1 ELSE n + 1

-----------------------------------------------------------------------------
Init ==
    /\ curr = 0
    /\ state = [g \in Conns |-> "DISCONNECTED"]
    /\ trans = [g \in Conns |-> "none"]
    /\ counter = [g \in Conns |-> 0]
    /\ lock = [g \in Conns |-> None]
    /\ loop = [g \in Conns |-> "off"]
    /\ handler = [g \in Conns |-> None]
    /\ closer = [c \in Closers |-> "none"]
    /\ closing = [c \in Closers |-> 0]
    /\ pending = [s \in StreamIds |-> None]
    /\ task = [r \in Requests |-> "idle"]
    /\ conn = [r \in Requests |-> 0]
    /\ sid = [r \in Requests |-> 0]
    /\ fut = [r \in Requests |-> "none"]
    /\ answer = [r \in Requests |-> None]
    /\ wire = [g \in Conns |-> {}]
    /\ alone = TRUE

(***************************************************************************)
(* The pieces of the handlers.                                              *)
(***************************************************************************)

\* close() up to its first await, which is where the caller then is: it returns
\* at once, waits for the transport, or, without a writer, goes straight to the
\* close handler.  A second caller passes the same guard while the first waits.
CloseCall(g, at) ==
    \/ /\ state[g] = "DISCONNECTED"
       /\ at = "return"
       /\ UNCHANGED <<state, trans>>
    \/ /\ state[g] # "DISCONNECTED" /\ HasStreams(g)
       /\ at = "close"
       /\ state' = [state EXCEPT ![g] = "CLOSING"]
       /\ trans' = [trans EXCEPT ![g] = "closing"]
    \/ /\ state[g] # "DISCONNECTED" /\ ~HasStreams(g)
       /\ at = "onclose"
       /\ state' = [state EXCEPT ![g] = "DISCONNECTED"]
       /\ UNCHANGED trans

\* close() after the transport has closed, as far as the close handler.  The
\* handler does not touch the router: the pending futures stay pending.
FinishClose(g) ==
    /\ state' = [state EXCEPT ![g] = "DISCONNECTED"]
    /\ trans' = [trans EXCEPT ![g] = "none"]

\* writer.write: once the transport is closing it has stopped reading, so no
\* answer to what is written then can come back.
Write(r, g) ==
    wire' = IF trans[g] = "open" THEN [wire EXCEPT ![g] = @ \cup {r}] ELSE wire

Release(g) == lock' = [lock EXCEPT ![g] = None]

LoopAgainOnce(g) ==
    /\ loop' = [loop EXCEPT ![g] = "done"]
    /\ handler' = [handler EXCEPT ![g] = None]

\* read_frame_loop tests is_connected before each frame, read_frame the reader.
LoopAgain(g) ==
    /\ loop' = [loop EXCEPT ![g] = IF Connected(g) /\ HasStreams(g) THEN "read" ELSE "done"]
    /\ handler' = [handler EXCEPT ![g] = None]

-----------------------------------------------------------------------------
(***************************************************************************)
(* Connections.                                                             *)
(***************************************************************************)

\* Nothing that only needs the event loop is left to run on a connection that
\* has no transport.
Settled(g) ==
    /\ trans[g] = "none"
    /\ loop[g] # "read"
    /\ \A r \in Requests : conn[r] = g =>
          /\ task[r] # "drain"
          /\ ~(task[r] = "wait" /\ fut[r] # "pending")
    /\ lock[g] = None => ~Contended(g)

\* _establish_connection up to its first await: a new object replaces the
\* client's connection, whatever that one is doing.
Establish ==
    /\ curr < MaxConns
    /\ curr' = curr + 1
    /\ trans' = [trans EXCEPT ![curr + 1] = "opening"]
    /\ alone' = (alone /\ (curr # 0 => Settled(curr)))
    /\ UNCHANGED <<state, counter, lock, readVars, closeVars, pending, reqVars, wire>>

\* open_connection, in connect, succeeds or raises.
Opened(g) ==
    /\ trans[g] = "opening"
    /\ \/ /\ trans' = [trans EXCEPT ![g] = "open"]
          /\ state' = [state EXCEPT ![g] = "PENDING"]
       \/ /\ trans' = [trans EXCEPT ![g] = "none"]
          /\ UNCHANGED state
    /\ UNCHANGED <<curr, counter, lock, readVars, closeVars, pending, reqVars, wire, alone>>

\* set_state, called by a handshake on what is the client's connection by then,
\* whatever state that is in.
SetState(g) ==
    /\ g = curr
    /\ \E new \in {"AUTHENTICATING", "AUTHENTICATED"} : state' = [state EXCEPT ![g] = new]
    /\ UNCHANGED <<curr, trans, counter, lock, readVars, closeVars, pending, reqVars, wire, alone>>

\* The task of read_frame_loop is created, for what is then the connection; on
\* one that is not up it would end at once.
StartLoop(g) ==
    /\ g = curr
    /\ Connected(g) /\ HasStreams(g)
    /\ loop[g] = "off"
    /\ loop' = [loop EXCEPT ![g] = "read"]
    /\ UNCHANGED <<connVars, handler, closeVars, pending, reqVars, wire, alone>>

\* close() called by a task that is none of those modelled here, or by a read
\* loop a second time, after read_frame has closed because of a malformed frame.
UserClose(c) ==
    /\ closer[c] = "none"
    /\ \E g \in Conns, at \in CloseStages :
          /\ CloseCall(g, at)
          /\ closing' = [closing EXCEPT ![c] = g]
          /\ closer' = [closer EXCEPT ![c] = at]
    /\ UNCHANGED <<curr, counter, lock, readVars, pending, reqVars, wire, alone>>

UserCloseDone(c) ==
    /\ closer[c] = "close"
    /\ FinishClose(closing[c])
    /\ closer' = [closer EXCEPT ![c] = "onclose"]
    /\ UNCHANGED <<curr, counter, lock, readVars, closing, pending, reqVars, wire, alone>>

-----------------------------------------------------------------------------
(***************************************************************************)
(* Requests.                                                                *)
(***************************************************************************)

\* Assumption on the traffic: the 2^31 - 1 ids of a connection come round
\* again only after the request that had this one, and its answer, are gone.
StreamIdAvailable(g, s) ==
    \A r \in Requests : conn[r] = g /\ sid[r] = s => ~Active(r) /\ r \notin wire[g]

\* _send_request up to its first suspension: next_stream_id, register_request
\* (which overwrites), send_frame, which raises without a writer, takes the
\* lock and writes if it is free, or waits for it.
Issue(r) ==
    LET g == curr
        s == NextStreamId(counter[g])
    IN  /\ task[r] = "idle"
        /\ r \in HandlerRequests => \E h \in Conns : loop[h] = "notify" /\ handler[h] = r
        /\ g # 0
        /\ state[g] = "AUTHENTICATED"
        /\ StreamIdAvailable(g, s)
        /\ counter' = [counter EXCEPT ![g] = s]
        /\ pending' = [pending EXCEPT ![s] = r]
        /\ conn' = [conn EXCEPT ![r] = g]
        /\ sid' = [sid EXCEPT ![r] = s]
        /\ fut' = [fut EXCEPT ![r] = "pending"]
        /\ \/ /\ ~HasStreams(g)
              /\ task' = [task EXCEPT ![r] = "closed"]
              /\ UNCHANGED <<lock, wire>>
           \/ /\ HasStreams(g) /\ lock[g] = None /\ ~Contended(g)
              /\ task' = [task EXCEPT ![r] = "drain"]
              /\ lock' = [lock EXCEPT ![g] = r]
              /\ Write(r, g)
           \/ /\ HasStreams(g) /\ (lock[g] # None \/ Contended(g))
              /\ task' = [task EXCEPT ![r] = "lock"]
              /\ UNCHANGED <<lock, wire>>
        /\ UNCHANGED <<curr, state, trans, readVars, closeVars, answer, alone>>

\* send_frame fails while it holds the lock: it calls close(), and raises when
\* that returns.  The request stays registered.
SendFails(r) ==
    \E at \in CloseStages \cup {"return"} :
        /\ CloseCall(conn[r], at)
        /\ task' = [task EXCEPT ![r] = IF at = "return" THEN "closed" ELSE at]
        /\ lock' = [lock EXCEPT ![conn[r]] = IF at = "return" THEN None ELSE r]

\* A waiting sender gets the lock (asyncio serves them in order, the model in
\* any).  It does not look at the connection again: if the writer is gone, the
\* AttributeError is a failure of the send.
GetLock(r) ==
    LET g == conn[r]
    IN  /\ task[r] = "lock"
        /\ lock[g] = None
        /\ \/ /\ HasStreams(g)
              /\ task' = [task EXCEPT ![r] = "drain"]
              /\ lock' = [lock EXCEPT ![g] = r]
              /\ Write(r, g)
              /\ UNCHANGED <<state, trans>>
           \/ /\ ~HasStreams(g)
              /\ SendFails(r)
              /\ UNCHANGED wire
        /\ UNCHANGED <<curr, counter, readVars, closeVars, pending,
                       conn, sid, fut, answer, alone>>

\* drain() returns; the sender goes on to wait for its future.
DrainOk(r) ==
    /\ task[r] = "drain"
    /\ task' = [task EXCEPT ![r] = "wait"]
    /\ Release(conn[r])
    /\ UNCHANGED <<curr, state, trans, counter, readVars, closeVars, pending,
                   conn, sid, fut, answer, wire, alone>>

\* drain() raises.
DrainFail(r) ==
    /\ task[r] = "drain"
    /\ SendFails(r)
    /\ UNCHANGED <<curr, counter, readVars, closeVars, pending,
                   conn, sid, fut, answer, wire, alone>>

CloseDone(r) ==
    /\ task[r] = "close"
    /\ FinishClose(conn[r])
    /\ task' = [task EXCEPT ![r] = "onclose"]
    /\ UNCHANGED <<curr, counter, lock, readVars, closeVars, pending,
                   conn, sid, fut, answer, wire, alone>>

\* The close handler (a whole reconnection, which may never end) returns; only
\* now is the lock released.
OnCloseReturns(r) ==
    /\ task[r] = "onclose"
    /\ task' = [task EXCEPT ![r] = "closed"]
    /\ Release(conn[r])
    /\ UNCHANGED <<curr, state, trans, counter, readVars, closeVars, pending,
                   conn, sid, fut, answer, wire, alone>>

\* wait_for returns what the future holds.
Resume(r) ==
    /\ task[r] = "wait"
    /\ fut[r] # "pending"
    /\ task' = [task EXCEPT ![r] = IF fut[r] = "result" THEN "ok" ELSE "cancelled"]
    /\ UNCHANGED <<connVars, readVars, closeVars, pending, conn, sid, fut, answer, wire, alone>>

\* wait_for cancels the future of r, and cancel_request pops stream id s and
\* cancels whichever future is there.
CancelAt(r, s) ==
    /\ pending' = [pending EXCEPT ![s] = None]
    /\ fut' = [q \in Requests |->
                 IF q \in {r, pending[s]} /\ fut[q] = "pending" THEN "cancelled" ELSE fut[q]]

TimeoutNever(r) == FALSE
TimeoutLatest(r) ==
    /\ task[r] = "wait"
    /\ fut[r] \in {"pending", "result"}
    /\ task' = [task EXCEPT ![r] = "timeout"]
    /\ CancelAt(r, counter[conn[r]])
    /\ UNCHANGED <<connVars, readVars, closeVars, conn, sid, answer, wire, alone>>

\* The timer of wait_for fires and the task calls cancel_request.  From Python
\* 3.12 the timer can also win over a future already resolved.
Timeout(r) ==
    /\ task[r] = "wait"
    /\ fut[r] \in {"pending", "result"}
    /\ task' = [task EXCEPT ![r] = "timeout"]
    /\ CancelAt(r, sid[r])
    /\ UNCHANGED <<connVars, readVars, closeVars, conn, sid, answer, wire, alone>>

-----------------------------------------------------------------------------
(***************************************************************************)
(* The read loop.                                                           *)
(***************************************************************************)

\* The request that route_frame gives the answer to q.
AddresseeFirst(q) ==
    LET used == {s \in StreamIds : pending[s] # None}
    IN  IF used = {} THEN None
        ELSE pending[CHOOSE s \in used : \A t \in used : s <= t]
Addressee(q) == pending[sid[q]]

\* read_frame returns the answer to q, in any order the server chooses, and
\* route_frame gives it to the request registered under its stream id.
ReadResponse(g, q) ==
    LET p == Addressee(q)
    IN  /\ loop[g] = "read"
        /\ q \in wire[g]
        /\ wire' = [wire EXCEPT ![g] = @ \ {q}]
        /\ pending' = [pending EXCEPT ![sid[q]] = None]
        /\ IF p # None /\ fut[p] = "pending"
           THEN /\ fut' = [fut EXCEPT ![p] = "result"]
                /\ answer' = [answer EXCEPT ![p] = q]
           ELSE UNCHANGED <<fut, answer>>
        /\ LoopAgain(g)
        /\ UNCHANGED <<connVars, closeVars, task, conn, sid, alone>>

\* read_frame returns a notification; route_frame awaits its handler, which
\* may make one request.
ReadNotify(g) ==
    /\ loop[g] = "read"
    /\ \E h \in HandlerRequests \cup {None} :
          /\ h # None => task[h] = "idle" /\ \A f \in Conns : handler[f] # h
          /\ handler' = [handler EXCEPT ![g] = h]
    /\ loop' = [loop EXCEPT ![g] = "notify"]
    /\ UNCHANGED <<connVars, closeVars, pending, reqVars, wire, alone>>

\* The handler returns or raises; _send_request refuses without a session.
\* Only a CancelledError passes both except clauses and kills the task, which
\* then closes nothing.
HandlerDone(g) ==
    LET h == handler[g]
    IN  /\ loop[g] = "notify"
        /\ \/ /\ \/ h = None
                 \/ h # None /\ task[h] \in Outcomes \ {"cancelled"}
                 \/ h # None /\ task[h] = "idle" /\ state[curr] # "AUTHENTICATED"
              /\ LoopAgain(g)
           \/ /\ h # None /\ task[h] = "cancelled"
              /\ loop' = [loop EXCEPT ![g] = "killed"]
              /\ handler' = [handler EXCEPT ![g] = None]
        /\ UNCHANGED <<connVars, closeVars, pending, reqVars, wire, alone>>

ReadFailContinues(g) ==
    /\ loop[g] = "read"
    /\ \E at \in CloseStages \cup {"return"} : CloseCall(g, at)
    /\ UNCHANGED <<curr, counter, lock, readVars, closeVars, pending, reqVars, wire, alone>>

\* read_frame raises (end of stream, time-out, malformed frame): it or the loop
\* calls close().
ReadFail(g) ==
    /\ loop[g] = "read"
    /\ \E at \in CloseStages \cup {"return"} :
          /\ CloseCall(g, at)
          /\ loop' = [loop EXCEPT ![g] = IF at = "return" THEN "done" ELSE at]
    /\ UNCHANGED <<curr, counter, lock, handler, closeVars, pending, reqVars, wire, alone>>

LoopCloseDone(g) ==
    /\ loop[g] = "close"
    /\ FinishClose(g)
    /\ loop' = [loop EXCEPT ![g] = "onclose"]
    /\ UNCHANGED <<curr, counter, lock, handler, closeVars, pending, reqVars, wire, alone>>

LoopOnCloseReturns(g) ==
    /\ loop[g] = "onclose"
    /\ loop' = [loop EXCEPT ![g] = "done"]
    /\ UNCHANGED <<connVars, handler, closeVars, pending, reqVars, wire, alone>>

-----------------------------------------------------------------------------
ConnStep(g) ==
    \/ Opened(g) \/ SetState(g) \/ StartLoop(g)
    \/ ReadNotify(g) \/ HandlerDone(g)
    \/ ReadFail(g) \/ LoopCloseDone(g) \/ LoopOnCloseReturns(g)
    \/ \E q \in Requests : ReadResponse(g, q)

ReqStep(r) ==
    \/ Issue(r) \/ GetLock(r) \/ DrainOk(r) \/ DrainFail(r)
    \/ CloseDone(r) \/ OnCloseReturns(r) \/ Resume(r) \/ Timeout(r)

Next ==
    \/ Establish
    \/ \E g \in Conns : ConnStep(g)
    \/ \E r \in Requests : ReqStep(r)
    \/ \E c \in Closers : UserClose(c) \/ UserCloseDone(c)

Spec == Init /\ [][Next]_vars

\* A notification handler goes on: it makes its request or ends.
HandlerStep(g) ==
    HandlerDone(g) \/ \E r \in HandlerRequests : handler[g] = r /\ Issue(r)

\* Ready tasks run, timers fire, and once a transport is shut its closing is
\* confirmed, drain() ends on it one way or the other and a pending read fails.
\* No fairness for the server, for the user, for anything on an open transport,
\* or for a close handler: it reconnects as long as it takes.
Fairness ==
    /\ \A r \in Requests :
         /\ WF_vars(GetLock(r)) /\ WF_vars(Resume(r)) /\ WF_vars(Timeout(r))
         /\ WF_vars((DrainOk(r) \/ DrainFail(r)) /\ trans[conn[r]] # "open")
         /\ WF_vars(CloseDone(r))
    /\ \A g \in Conns :
         /\ WF_vars(LoopCloseDone(g)) /\ WF_vars(HandlerStep(g))
         /\ WF_vars(ReadFail(g) /\ trans[g] # "open")
    /\ \A c \in Closers : WF_vars(UserCloseDone(c))

FairSpec == Spec /\ Fairness

-----------------------------------------------------------------------------
(***************************************************************************)
(* Properties.                                                              *)
(***************************************************************************)

\* Where the task of a read loop can be.
LoopPlaces == {"off", "read", "notify", "done", "killed"} \cup CloseStages

\* The type of every variable of the connections, the router and the requests.
TypeOK ==
    /\ curr \in 0..MaxConns
    /\ state \in [Conns -> ConnStates]
    /\ trans \in [Conns -> {"none", "opening", "open", "closing"}]
    /\ counter \in [Conns -> 0..MaxStreamId]
    /\ lock \in [Conns -> Requests \cup {None}]
    /\ loop \in [Conns -> LoopPlaces]
    /\ handler \in [Conns -> HandlerRequests \cup {None}]
    /\ closer \in [Closers -> {"none"} \cup CloseStages]
    /\ closing \in [Closers -> 0..MaxConns]
    /\ pending \in [StreamIds -> Requests \cup {None}]
    /\ task \in [Requests -> {"idle"} \cup Waiting \cup Outcomes]
    /\ conn \in [Requests -> 0..MaxConns]
    /\ sid \in [Requests -> 0..MaxStreamId]
    /\ fut \in [Requests -> {"none", "pending", "result", "cancelled"}]
    /\ answer \in [Requests -> Requests \cup {None}]
    /\ wire \in [Conns -> SUBSET Requests]
    /\ alone \in BOOLEAN

\* As long as every connection is replaced after its end only, route_frame gives
\* a request no answer but its own, although ids wrap round, restart at 1 on
\* every connection and share one router, whose stale entries nobody removes.
RightAnswer == alone => \A r \in Requests : answer[r] \in {None, r}

\* No request is left waiting for an answer on a connection that is gone
\* (FrameRouter: "Fails all pending requests on disconnect").
DisconnectFailsPending ==
    \A r \in Requests :
        task[r] = "wait" /\ fut[r] = "pending" => trans[conn[r]] # "none"

\* o, an earlier connection's request with the stream id of r, has timed out.
OlderTimedOut(o, r) ==
    task[o] = "timeout" /\ conn[o] < conn[r] /\ sid[o] = sid[r]

\* A request is cancelled by its own time-out, or by that of a request which
\* had the same stream id on an earlier connection: never by anything else, in
\* particular never by a request of the same connection (cancel_request knows
\* the id only).
CancelledByOlder ==
    [][\A r \in Requests :
         fut[r] = "pending" /\ fut'[r] = "cancelled" =>
            \/ task'[r] = "timeout"
            \/ \E o \in Requests : task[o] = "wait" /\ OlderTimedOut(o, r)']_vars

\* An open transport has not lost its read loop: the loop ends only through
\* close(), or is killed because the request of its notification handler was
\* cancelled by the time-out of a request of an earlier connection.
NoZombieReader ==
    \A g \in Conns :
        trans[g] = "open" =>
            /\ loop[g] \in {"off", "read", "notify", "killed"}
            /\ loop[g] = "killed" =>
                 \E h \in HandlerRequests, o \in Requests :
                    task[h] = "cancelled" /\ OlderTimedOut(o, h)

\* A caller that waits on the newest connection is registered to receive its
\* answer, whatever the requests of earlier connections left in the table or
\* take out of it late; and while the transport is open, that answer is still
\* to be read and no close() has taken the reader away.
PendingIsReachable ==
    \A r \in Requests :
        task[r] = "wait" /\ fut[r] = "pending" /\ conn[r] = curr
            => /\ pending[sid[r]] = r
               /\ trans[curr] = "open" =>
                    /\ r \in wire[curr]
                    /\ loop[curr] \in {"off", "read", "notify", "killed"}

\* What the caller of a request has seen of it.
Status(r) == CASE task[r] = "idle" -> "idle"
               [] task[r] \in Waiting -> "asked"
               [] task[r] = "ok" -> "answered"
               [] task[r] \in Outcomes \ {"ok"} -> "failed"
Reply(r) == IF task[r] = "ok" THEN answer[r] ELSE None

\* The request path implements what it promises its callers (RequestReply):
\* a request between its registration and its outcome has been asked, and its
\* reply is visible only when the call returns it.
Calls == INSTANCE RequestReply WITH
    status <- [r \in Requests |-> Status(r)],
    reply <- [r \in Requests |-> Reply(r)]

KeepsPromise == Calls!Spec

\* The task of r cannot go on before a close handler returns, or before the
\* server takes what was written.
Stuck(r) == task[r] = "onclose" \/ (task[r] = "drain" /\ trans[conn[r]] = "open")

\* r is stuck, or waits for the lock that a stuck request holds.
HeldUp(r) ==
    \/ Stuck(r)
    \/ task[r] = "lock" /\ lock[conn[r]] # None /\ Stuck(lock[conn[r]])

\* Every request that is issued ends, whatever the server, the network and the
\* other users of the connection and of its lock do, unless a send to a server
\* that takes nothing, or the reconnection after a failed one, holds it up for
\* good: the lock is kept through both, and no timer runs yet.
EveryRequestEnds == \A r \in Requests : Active(r) ~> (Ended(r) \/ []HeldUp(r))

\* A read loop does not outlive its transport, unless its own close handler or
\* the request its notification handler waits for holds it up for good.
LoopEnds ==
    \A g \in Conns :
        (loop[g] # "off" /\ trans[g] # "open")
            ~> \/ loop[g] \in {"done", "killed"}
               \/ [](loop[g] = "onclose")
               \/ [](loop[g] = "notify" /\ handler[g] # None /\ HeldUp(handler[g]))
=============================================================================
