--------------------------- MODULE MultiplexProofs ---------------------------
(***************************************************************************)
(* Proofs about Multiplex, for every number of requests, connections and    *)
(* stream ids, for connections that overlap and for late set_states: the    *)
(* types; that no request is given another one's answer as long as          *)
(* connections follow one another, and that the request path implements     *)
(* RequestReply; who can cancel a request; that an open transport keeps its *)
(* reader; and that a request on the newest connection is reachable.        *)
(***************************************************************************)
EXTENDS Multiplex, TLAPS

-----------------------------------------------------------------------------
(***************************************************************************)
(* The first inductive invariant.                                           *)
(***************************************************************************)

\* A request that has started belongs to a connection that was established.
Placed ==
    \A r \in Requests :
        task[r] # "idle" => conn[r] \in 1..curr /\ sid[r] \in StreamIds

\* What was written to a connection was issued on it.
OnWire ==
    \A g \in Conns : \A q \in wire[g] : conn[q] = g /\ task[q] # "idle"

\* As long as connections follow one another, one that was replaced has no
\* transport and reads no more.
OldSilent ==
    alone => \A g \in Conns : g < curr => loop[g] # "read" /\ trans[g] = "none"

\* A request is live while its task or its answer is still under way.
Live(q) == Active(q) \/ \E g \in Conns : q \in wire[g]

\* On the newest connection a stream id in use leads to its user or nowhere;
\* on the older ones it may lead anywhere, which is why RightAnswer alone is
\* not inductive.
Registered ==
    \A q \in Requests :
        Live(q) /\ conn[q] = curr => pending[sid[q]] \in {None, q}

IInv == TypeOK /\ Placed /\ OnWire /\ OldSilent /\ Registered /\ RightAnswer

-----------------------------------------------------------------------------
(***************************************************************************)
(* Type correctness.                                                        *)
(***************************************************************************)

LEMMA InitType == Init => TypeOK
  BY MultiplexAssumption, SMT
  DEF Init, TypeOK, ConnStates, LoopPlaces, Waiting, Outcomes, CloseStages, Conns, StreamIds

\* close() keeps the types of what it touches.
LEMMA CloseType ==
    ASSUME TypeOK, NEW g,
           FinishClose(g) \/ \E at \in CloseStages \cup {"return"} : CloseCall(g, at)
    PROVE  /\ state' \in [Conns -> ConnStates]
           /\ trans' \in [Conns -> {"none", "opening", "open", "closing"}]
  BY SMT DEF TypeOK, FinishClose, CloseCall, ConnStates

LEMMA ConnType ==
    ASSUME TypeOK, Placed, OnWire, NEW g \in Conns, ConnStep(g)
    PROVE  TypeOK'
<1> USE MultiplexAssumption DEF TypeOK, connVars, readVars, closeVars, reqVars,
        LoopPlaces, CloseStages
<1>1. CASE Opened(g)
  BY <1>1, SMT DEF Opened, ConnStates
<1>2. CASE SetState(g)
  BY <1>2, SMT DEF SetState, ConnStates
<1>3. CASE StartLoop(g)
  BY <1>3, SMT DEF StartLoop
<1>4. CASE ReadNotify(g)
  BY <1>4, SMT DEF ReadNotify
<1>5. CASE HandlerDone(g)
  BY <1>5, SMT DEF HandlerDone, LoopAgain
<1>6. CASE ReadFail(g)
  <2>1. /\ state' \in [Conns -> ConnStates]
        /\ trans' \in [Conns -> {"none", "opening", "open", "closing"}]
    BY <1>6, CloseType DEF ReadFail
  <2>2. loop' \in [Conns -> LoopPlaces]
    BY <1>6, SMT DEF ReadFail
  <2> QED
    BY <1>6, <2>1, <2>2 DEF ReadFail
<1>7. CASE LoopCloseDone(g)
  BY <1>7, CloseType, SMT DEF LoopCloseDone
<1>8. CASE LoopOnCloseReturns(g)
  BY <1>8, SMT DEF LoopOnCloseReturns
<1>9. ASSUME NEW q \in Requests, ReadResponse(g, q)
      PROVE  TypeOK'
  <2>0. sid[q] \in StreamIds
    BY <1>9, SMT DEF ReadResponse, OnWire, Placed
  <2>1. pending' \in [StreamIds -> Requests \cup {None}]
    BY <1>9, <2>0, SMT DEF ReadResponse
  <2>2. fut' \in [Requests -> {"none", "pending", "result", "cancelled"}]
        /\ answer' \in [Requests -> Requests \cup {None}]
    BY <1>9, SMT DEF ReadResponse
  <2>3. wire' \in [Conns -> SUBSET Requests]
    BY <1>9, SMT DEF ReadResponse
  <2>4. /\ loop' \in [Conns -> LoopPlaces]
        /\ handler' \in [Conns -> HandlerRequests \cup {None}]
    BY <1>9, SMT DEF ReadResponse, LoopAgain
  <2> QED
    BY <1>9, <2>1, <2>2, <2>3, <2>4, SMT DEF ReadResponse
<1> QED
  BY <1>1, <1>2, <1>3, <1>4, <1>5, <1>6, <1>7, <1>8, <1>9, SMT DEF ConnStep

LEMMA CloserType ==
    ASSUME TypeOK, NEW c \in Closers, UserClose(c) \/ UserCloseDone(c)
    PROVE  TypeOK'
<1> USE MultiplexAssumption DEF TypeOK, readVars, reqVars, CloseStages
<1>1. CASE UserClose(c)
  <2>1. PICK g \in Conns, at \in CloseStages :
           /\ CloseCall(g, at)
           /\ closing' = [closing EXCEPT ![c] = g]
           /\ closer' = [closer EXCEPT ![c] = at]
    BY <1>1 DEF UserClose
  <2>2. /\ state' \in [Conns -> ConnStates]
        /\ trans' \in [Conns -> {"none", "opening", "open", "closing"}]
    BY <2>1, CloseType
  <2>3. /\ closing' \in [Closers -> 0..MaxConns]
        /\ closer' \in [Closers -> {"none"} \cup CloseStages]
    BY <2>1, SMT DEF Conns
  <2> QED
    BY <1>1, <2>2, <2>3, SMT DEF UserClose
<1>2. CASE UserCloseDone(c)
  BY <1>2, CloseType, SMT DEF UserCloseDone
<1> QED
  BY <1>1, <1>2

\* A send that fails ends with its task in a close() or over.
LEMMA FailType ==
    ASSUME TypeOK, NEW r \in Requests, conn[r] \in Conns, SendFails(r)
    PROVE  /\ task' \in [Requests -> {"idle"} \cup Waiting \cup Outcomes]
           /\ lock' \in [Conns -> Requests \cup {None}]
<1>1. PICK at \in CloseStages \cup {"return"} :
         /\ task' = [task EXCEPT ![r] = IF at = "return" THEN "closed" ELSE at]
         /\ lock' = [lock EXCEPT ![conn[r]] = IF at = "return" THEN None ELSE r]
  BY DEF SendFails
<1>2. /\ task \in [Requests -> {"idle"} \cup Waiting \cup Outcomes]
      /\ lock \in [Conns -> Requests \cup {None}]
  BY DEF TypeOK
<1>3. CASE at = "return"
  <2>1. /\ task' = [task EXCEPT ![r] = "closed"]
        /\ lock' = [lock EXCEPT ![conn[r]] = None]
    BY <1>1, <1>3
  <2> QED
    BY <1>2, <2>1, SMT DEF Outcomes
<1>4. CASE at # "return"
  <2>1. /\ task' = [task EXCEPT ![r] = at]
        /\ lock' = [lock EXCEPT ![conn[r]] = r]
        /\ at \in Waiting
    BY <1>1, <1>4 DEF Waiting
  <2> QED
    BY <1>2, <2>1, SMT
<1> QED
  BY <1>3, <1>4

LEMMA ReqType ==
    ASSUME TypeOK, Placed, NEW r \in Requests, ReqStep(r)
    PROVE  TypeOK'
<1> USE MultiplexAssumption DEF TypeOK, connVars, readVars, closeVars, reqVars,
        Waiting, Outcomes, CloseStages
<1>0. task[r] # "idle" => conn[r] \in Conns /\ sid[r] \in StreamIds
  BY SMT DEF Placed, Conns
<1>1. CASE Issue(r)
  <2>1. curr \in Conns /\ NextStreamId(counter[curr]) \in StreamIds
    BY <1>1, SMT DEF Issue, NextStreamId, Conns, StreamIds
  <2>2. wire' \in [Conns -> SUBSET Requests]
        /\ lock' \in [Conns -> Requests \cup {None}]
        /\ task' \in [Requests -> {"idle"} \cup Waiting \cup Outcomes]
    BY <1>1, SMT DEF Issue, Write
  <2>3. /\ counter' \in [Conns -> 0..MaxStreamId]
        /\ pending' \in [StreamIds -> Requests \cup {None}]
        /\ conn' \in [Requests -> 0..MaxConns]
        /\ sid' \in [Requests -> 0..MaxStreamId]
    BY <1>1, <2>1, SMT DEF Issue, Conns, StreamIds
  <2>4. fut' \in [Requests -> {"none", "pending", "result", "cancelled"}]
    BY <1>1, SMT DEF Issue
  <2> QED
    BY <1>1, <2>2, <2>3, <2>4, SMT DEF Issue
<1>2. CASE GetLock(r)
  <2>1. CASE HasStreams(conn[r])
    BY <1>2, <2>1, <1>0, SMT DEF GetLock, Write
  <2>2. CASE ~HasStreams(conn[r])
    <3>1. SendFails(r)
      BY <1>2, <2>2 DEF GetLock
    <3>2. /\ state' \in [Conns -> ConnStates]
          /\ trans' \in [Conns -> {"none", "opening", "open", "closing"}]
      BY <3>1, CloseType DEF SendFails
    <3> QED
      BY <1>2, <2>2, <1>0, <3>1, <3>2, FailType DEF GetLock
  <2> QED
    BY <2>1, <2>2
<1>3. CASE DrainOk(r)
  BY <1>3, <1>0, SMT DEF DrainOk, Release
<1>4. CASE DrainFail(r)
  <2>1. SendFails(r)
    BY <1>4 DEF DrainFail
  <2>2. /\ state' \in [Conns -> ConnStates]
        /\ trans' \in [Conns -> {"none", "opening", "open", "closing"}]
    BY <2>1, CloseType DEF SendFails
  <2> QED
    BY <1>4, <1>0, <2>1, <2>2, FailType DEF DrainFail
<1>5. CASE CloseDone(r)
  BY <1>5, <1>0, CloseType, SMT DEF CloseDone
<1>6. CASE OnCloseReturns(r)
  BY <1>6, <1>0, SMT DEF OnCloseReturns, Release
<1>7. CASE Resume(r)
  BY <1>7, SMT DEF Resume
<1>8. CASE Timeout(r)
  BY <1>8, <1>0, SMT DEF Timeout, CancelAt
<1> QED
  BY <1>1, <1>2, <1>3, <1>4, <1>5, <1>6, <1>7, <1>8, SMT DEF ReqStep

LEMMA TypeStep == TypeOK /\ Placed /\ OnWire /\ [Next]_vars => TypeOK'
<1> SUFFICES ASSUME TypeOK, Placed, OnWire, [Next]_vars
             PROVE  TypeOK'
  OBVIOUS
<1>1. CASE Establish
  BY <1>1, MultiplexAssumption, SMT
  DEF Establish, TypeOK, Conns, readVars, closeVars, reqVars
<1>2. CASE UNCHANGED vars
  BY <1>2, SMT DEF TypeOK, vars
<1> QED
  BY <1>1, <1>2, ConnType, CloserType, ReqType DEF Next

-----------------------------------------------------------------------------
(***************************************************************************)
(* Every step but Establish and Issue only ends things.                     *)
(***************************************************************************)

\* No request moves to another connection or stream id, none starts, what is
\* written was waiting to be written, the router only forgets, a transport that
\* is gone stays away, and no loop reads without one.
OnlyEnds ==
    /\ curr' = curr /\ conn' = conn /\ sid' = sid /\ alone' = alone
    /\ \A q \in Requests : /\ task'[q] # "idle" <=> task[q] # "idle"
                           /\ Active(q)' => Active(q)
    /\ \A g \in Conns : \A q \in wire'[g] : q \in wire[g] \/ (Active(q) /\ conn[q] = g)
    /\ \A s \in StreamIds : pending'[s] \in {None, pending[s]}
    /\ \A g \in Conns : /\ trans[g] = "none" => trans'[g] = "none"
                        /\ loop'[g] = "read" => loop[g] = "read" \/ trans[g] # "none"

LEMMA CloseEnds ==
    ASSUME TypeOK, NEW g,
           FinishClose(g) \/ \E at \in CloseStages \cup {"return"} : CloseCall(g, at)
    PROVE  \A h \in Conns : /\ trans[h] = "none" => trans'[h] = "none"
                            /\ trans[h] # "opening" => trans'[h] # "opening"
  BY SMT DEF TypeOK, FinishClose, CloseCall, HasStreams

LEMMA ConnEnds ==
    ASSUME TypeOK, Placed, OnWire, NEW g \in Conns, ConnStep(g)
    PROVE  OnlyEnds
<1> USE DEF TypeOK, OnlyEnds, Active, connVars, readVars, closeVars, reqVars
<1>1. CASE Opened(g)
  BY <1>1, SMT DEF Opened
<1>2. CASE SetState(g)
  BY <1>2, SMT DEF SetState
<1>3. CASE StartLoop(g)
  BY <1>3, SMT DEF StartLoop, HasStreams
<1>4. CASE ReadNotify(g)
  BY <1>4, SMT DEF ReadNotify
<1>5. CASE HandlerDone(g)
  BY <1>5, SMT DEF HandlerDone, LoopAgain, HasStreams
<1>6. CASE ReadFail(g)
  <2>1. \A h \in Conns : trans[h] = "none" => trans'[h] = "none"
    BY <1>6, CloseEnds DEF ReadFail
  <2>2. \A h \in Conns : loop'[h] = "read" => loop[h] = "read"
    BY <1>6, SMT DEF ReadFail, CloseStages
  <2> QED
    BY <1>6, <2>1, <2>2, SMT DEF ReadFail
<1>7. CASE LoopCloseDone(g)
  BY <1>7, CloseEnds, SMT DEF LoopCloseDone
<1>8. CASE LoopOnCloseReturns(g)
  BY <1>8, SMT DEF LoopOnCloseReturns
<1>9. ASSUME NEW q \in Requests, ReadResponse(g, q)
      PROVE  OnlyEnds
  <2>1. sid[q] \in StreamIds
    BY <1>9, SMT DEF ReadResponse, OnWire, Placed
  <2>2. \A s \in StreamIds : pending'[s] \in {None, pending[s]}
    BY <1>9, <2>1, SMT DEF ReadResponse
  <2>3. \A h \in Conns : \A p \in wire'[h] : p \in wire[h]
    BY <1>9, SMT DEF ReadResponse
  <2>4. \A h \in Conns : loop'[h] = "read" => loop[h] = "read" \/ trans[h] # "none"
    BY <1>9, SMT DEF ReadResponse, LoopAgain, HasStreams
  <2> QED
    BY <1>9, <2>2, <2>3, <2>4, SMT DEF ReadResponse
<1> QED
  BY <1>1, <1>2, <1>3, <1>4, <1>5, <1>6, <1>7, <1>8, <1>9 DEF ConnStep

LEMMA CloserEnds ==
    ASSUME TypeOK, NEW c \in Closers, UserClose(c) \/ UserCloseDone(c)
    PROVE  OnlyEnds
<1>1. \A h \in Conns : trans[h] = "none" => trans'[h] = "none"
  BY CloseEnds DEF UserClose, UserCloseDone
<1> QED
  BY <1>1, SMT DEF UserClose, UserCloseDone, TypeOK, OnlyEnds, Active, readVars, reqVars

LEMMA ReqEnds ==
    ASSUME TypeOK, Placed, NEW r \in Requests, ReqStep(r), ~Issue(r)
    PROVE  OnlyEnds
<1> USE DEF TypeOK, OnlyEnds, Active, Waiting, CloseStages, connVars, readVars, reqVars
<1>0. task[r] # "idle" => conn[r] \in Conns /\ sid[r] \in StreamIds
  BY SMT DEF Placed, Conns
<1>1. CASE GetLock(r)
  <2>1. CASE HasStreams(conn[r])
    BY <1>1, <2>1, <1>0, SMT DEF GetLock, Write
  <2>2. CASE ~HasStreams(conn[r])
    <3>1. \A h \in Conns : trans[h] = "none" => trans'[h] = "none"
      BY <1>1, <2>2, CloseEnds DEF GetLock, SendFails
    <3> QED
      BY <1>1, <2>2, <3>1, SMT DEF GetLock, SendFails
  <2> QED
    BY <2>1, <2>2
<1>2. CASE DrainOk(r)
  BY <1>2, <1>0, SMT DEF DrainOk
<1>3. CASE DrainFail(r)
  <2>1. \A h \in Conns : trans[h] = "none" => trans'[h] = "none"
    BY <1>3, CloseEnds DEF DrainFail, SendFails
  <2> QED
    BY <1>3, <2>1, SMT DEF DrainFail, SendFails
<1>4. CASE CloseDone(r)
  BY <1>4, CloseEnds, SMT DEF CloseDone
<1>5. CASE OnCloseReturns(r)
  BY <1>5, SMT DEF OnCloseReturns
<1>6. CASE Resume(r)
  BY <1>6, SMT DEF Resume
<1>7. CASE Timeout(r)
  BY <1>7, <1>0, SMT DEF Timeout, CancelAt
<1> QED
  BY <1>1, <1>2, <1>3, <1>4, <1>5, <1>6, <1>7 DEF ReqStep

LEMMA EndsPlace ==
    ASSUME TypeOK, TypeOK', Placed, OnWire, OnlyEnds
    PROVE  Placed' /\ OnWire'
<1>1. Placed'
  BY SMT DEF OnlyEnds, Placed
<1>2. OnWire'
  <2> SUFFICES ASSUME NEW g \in Conns, NEW q \in wire'[g]
               PROVE  conn'[q] = g /\ task'[q] # "idle"
    BY DEF OnWire
  <2>1. q \in Requests
    BY SMT DEF TypeOK
  <2>2. q \in wire[g] \/ (Active(q) /\ conn[q] = g)
    BY DEF OnlyEnds
  <2>3. conn[q] = g /\ task[q] # "idle"
    BY <2>2, SMT DEF OnWire, Active, Waiting, CloseStages
  <2> QED
    BY <2>1, <2>3, SMT DEF OnlyEnds
<1> QED
  BY <1>1, <1>2

\* What only ends things keeps the facts about connections and stream ids.
LEMMA EndsKeep ==
    ASSUME TypeOK, TypeOK', Placed, OnWire, OldSilent, Registered, OnlyEnds
    PROVE  Placed' /\ OnWire' /\ OldSilent' /\ Registered'
<1>1. Placed' /\ OnWire'
  BY EndsPlace
<1>2. OldSilent'
  BY SMT DEF OnlyEnds, OldSilent
<1>3. Registered'
  <2> SUFFICES ASSUME NEW q \in Requests, Live(q)', conn'[q] = curr'
               PROVE  pending'[sid'[q]] \in {None, q}
    BY DEF Registered
  <2>1. Live(q)
    BY SMT DEF Live, OnlyEnds
  <2>2. sid[q] \in StreamIds
    BY <2>1, SMT DEF Live, OnWire, Placed, Active, Waiting, CloseStages
  <2> QED
    BY <2>1, <2>2, SMT DEF OnlyEnds, Registered
<1> QED
  BY <1>1, <1>2, <1>3

-----------------------------------------------------------------------------
(***************************************************************************)
(* The two steps that start something.                                      *)
(***************************************************************************)

\* A new connection, while all is alone, leaves only silent ones behind.
LEMMA EstablishKeeps ==
    ASSUME IInv, Establish
    PROVE  Placed' /\ OnWire' /\ OldSilent' /\ Registered' /\ RightAnswer'
<1>0. alone' => alone /\ (curr # 0 => Settled(curr))
  BY Zenon DEF Establish
<1> USE MultiplexAssumption DEF IInv, TypeOK, Establish, readVars, reqVars
<1>1. Placed' /\ OnWire' /\ RightAnswer'
  BY <1>0, SMT DEF Placed, OnWire, RightAnswer
<1>2. OldSilent'
  <2> SUFFICES ASSUME alone', NEW g \in Conns, g < curr'
               PROVE  loop'[g] # "read" /\ trans'[g] = "none"
    BY DEF OldSilent
  <2>1. loop' = loop /\ trans'[g] = trans[g] /\ alone /\ (curr # 0 => Settled(curr))
    BY <1>0, SMT DEF Conns
  <2>2. CASE g < curr
    BY <2>1, <2>2, SMT DEF OldSilent
  <2>3. CASE g = curr
    BY <2>1, <2>3, SMT DEF Conns, Settled
  <2> QED
    BY <2>2, <2>3, SMT DEF Conns
<1>3. Registered'
  <2> SUFFICES ASSUME NEW q \in Requests, Live(q)', conn'[q] = curr'
               PROVE  FALSE
    BY DEF Registered
  <2>1. task[q] # "idle"
    BY SMT DEF Live, OnWire, Active, Waiting, CloseStages
  <2> QED
    BY <2>1, SMT DEF Placed
<1> QED
  BY <1>1, <1>2, <1>3

\* A new request starts on the newest connection, under the next stream id.
LEMMA IssuePlaces ==
    ASSUME TypeOK, Placed, OnWire, NEW r \in Requests, Issue(r)
    PROVE  /\ \A q \in Requests \ {r} :
                 conn'[q] = conn[q] /\ sid'[q] = sid[q] /\ task'[q] = task[q]
           /\ \A g \in Conns : \A q \in wire'[g] : q \in wire[g] \/ (q = r /\ g = curr)
           /\ Placed' /\ OnWire'
<1> DEFINE s == NextStreamId(counter[curr])
<1> USE MultiplexAssumption DEF TypeOK
<1>1. curr \in Conns /\ s \in StreamIds
  BY SMT DEF Issue, NextStreamId, Conns, StreamIds
<1>2. /\ task[r] = "idle" /\ task'[r] \in {"drain", "lock", "closed"}
      /\ conn'[r] = curr /\ sid'[r] = s /\ curr' = curr
  BY SMT DEF Issue
<1>3. \A q \in Requests \ {r} :
         conn'[q] = conn[q] /\ sid'[q] = sid[q] /\ task'[q] = task[q]
  BY SMT DEF Issue
<1>4. \A g \in Conns : \A q \in wire'[g] : q \in wire[g] \/ (q = r /\ g = curr)
  BY <1>1, SMT DEF Issue, Write
<1>5. Placed'
  <2>1. conn'[r] \in 1..curr' /\ sid'[r] \in StreamIds
    BY <1>1, <1>2, SMT DEF Conns
  <2>2. ASSUME NEW q \in Requests \ {r}, task'[q] # "idle"
        PROVE  conn'[q] \in 1..curr' /\ sid'[q] \in StreamIds
    BY <2>2, <1>2, <1>3, Zenon DEF Placed
  <2> QED
    BY <2>1, <2>2, Zenon DEF Placed
<1>6. OnWire'
  BY <1>2, <1>3, <1>4, SMT DEF OnWire
<1> QED
  BY <1>3, <1>4, <1>5, <1>6

\* A new request takes over its stream id; by StreamIdAvailable no live request
\* of the same connection had it.
LEMMA IssueKeeps ==
    ASSUME IInv, TypeOK', NEW r \in Requests, Issue(r)
    PROVE  Placed' /\ OnWire' /\ OldSilent' /\ Registered' /\ RightAnswer'
<1> DEFINE s == NextStreamId(counter[curr])
<1> USE MultiplexAssumption DEF IInv, TypeOK
<1>1. curr \in Conns /\ s \in StreamIds
  BY SMT DEF Issue, NextStreamId, Conns, StreamIds
<1>2. conn'[r] = curr /\ sid'[r] = s /\ curr' = curr /\ alone' = alone
      /\ pending' = [pending EXCEPT ![s] = r] /\ answer' = answer
      /\ trans' = trans /\ loop' = loop
  BY SMT DEF Issue, readVars
<1>3. Placed' /\ OnWire'
  BY IssuePlaces
<1>4. OldSilent' /\ RightAnswer'
  BY <1>2, SMT DEF OldSilent, RightAnswer
<1>5. Registered'
  <2> SUFFICES ASSUME NEW q \in Requests \ {r}, Live(q)', conn'[q] = curr'
               PROVE  pending'[sid'[q]] \in {None, q}
    BY <1>1, <1>2, SMT DEF Registered
  <2>1. Live(q) /\ conn[q] = curr /\ sid'[q] = sid[q]
    BY <1>2, IssuePlaces, SMT DEF Live, Active
  <2>2. sid[q] # s
    BY <2>1, SMT DEF Issue, StreamIdAvailable, Live, OnWire
  <2> QED
    BY <1>1, <1>2, <2>1, <2>2, SMT DEF Registered
<1> QED
  BY <1>3, <1>4, <1>5

-----------------------------------------------------------------------------
(***************************************************************************)
(* Answers.                                                                 *)
(***************************************************************************)

\* Only ReadResponse hands out answers, and only Establish ends that all is alone.
LEMMA AnswerKept ==
    ASSUME [Next]_vars, ~ \E g \in Conns, q \in Requests : ReadResponse(g, q)
    PROVE  answer' = answer
<1>1. CASE Establish
  BY <1>1 DEF Establish, reqVars
<1>2. ASSUME NEW g \in Conns, ConnStep(g)
      PROVE  answer' = answer
  BY <1>2, Zenon
  DEF ConnStep, Opened, SetState, StartLoop, ReadNotify, HandlerDone, ReadFail,
      LoopCloseDone, LoopOnCloseReturns, reqVars
<1>3. ASSUME NEW r \in Requests, ReqStep(r)
      PROVE  answer' = answer
  BY <1>3, Zenon
  DEF ReqStep, Issue, GetLock, DrainOk, DrainFail, CloseDone, OnCloseReturns,
      Resume, Timeout
<1>4. ASSUME NEW c \in Closers, UserClose(c) \/ UserCloseDone(c)
      PROVE  answer' = answer
  BY <1>4 DEF UserClose, UserCloseDone, reqVars
<1>5. CASE UNCHANGED vars
  BY <1>5 DEF vars
<1> QED
  BY <1>1, <1>2, <1>3, <1>4, <1>5 DEF Next

\* The loop that reads is that of the newest connection, where stream ids lead
\* to their users.
LEMMA ReadKeepsRight ==
    ASSUME IInv, NEW g \in Conns, NEW q \in Requests, ReadResponse(g, q)
    PROVE  RightAnswer'
<1> USE DEF IInv, TypeOK
<1> SUFFICES ASSUME alone
             PROVE  RightAnswer'
  BY DEF RightAnswer, ReadResponse
<1>1. conn[q] = g /\ conn[q] \in 1..curr
  BY SMT DEF ReadResponse, OnWire, Placed
<1>2. g = curr
  BY <1>1, SMT DEF ReadResponse, OldSilent, Conns
<1>3. pending[sid[q]] \in {None, q}
  BY <1>1, <1>2, SMT DEF ReadResponse, Registered, Live
<1> QED
  BY <1>3, SMT DEF ReadResponse, Addressee, RightAnswer

-----------------------------------------------------------------------------
LEMMA InitInv == Init => IInv
<1> SUFFICES ASSUME Init
             PROVE  IInv
  OBVIOUS
<1>1. TypeOK
  BY InitType
<1>2. Placed /\ OnWire /\ OldSilent /\ Registered /\ RightAnswer
  BY MultiplexAssumption, <1>1, SMT
  DEF Init, Placed, OnWire, OldSilent, Registered, RightAnswer, Live, Active,
      Waiting, CloseStages, Conns
<1> QED
  BY <1>1, <1>2 DEF IInv

LEMMA StepInv == IInv /\ [Next]_vars => IInv'
<1> SUFFICES ASSUME IInv, [Next]_vars
             PROVE  IInv'
  OBVIOUS
<1> USE DEF IInv
<1>1. TypeOK'
  BY TypeStep
<1>2. CASE Establish
  BY <1>1, <1>2, EstablishKeeps
<1>3. ASSUME NEW r \in Requests, Issue(r)
      PROVE  IInv'
  BY <1>1, <1>3, IssueKeeps
<1>4. CASE OnlyEnds
  <2>1. RightAnswer'
    <3>1. CASE \E g \in Conns, q \in Requests : ReadResponse(g, q)
      BY <3>1, ReadKeepsRight
    <3>2. CASE ~ \E g \in Conns, q \in Requests : ReadResponse(g, q)
      BY <1>4, <3>2, AnswerKept DEF RightAnswer, OnlyEnds
    <3> QED
      BY <3>1, <3>2
  <2> QED
    BY <1>1, <1>4, <2>1, EndsKeep
<1>5. CASE UNCHANGED vars
  BY <1>1, <1>5, SMT
  DEF vars, Placed, OnWire, OldSilent, Registered, RightAnswer, Live, Active
<1> QED
  BY <1>2, <1>3, <1>4, <1>5, ConnEnds, CloserEnds, ReqEnds DEF Next

\* Every variable keeps its type, for every value of the constants.
THEOREM TypeCorrect == Spec => []TypeOK
<1>1. IInv => TypeOK
  BY DEF IInv
<1> QED
  BY InitInv, StepInv, <1>1, PTL DEF Spec

\* As long as a connection is only replaced once nothing on it is left to run,
\* route_frame gives no request the answer of another, although nobody ever
\* clears the table, however often ids wrap round and connections are replaced.
THEOREM AnswersAreRight == Spec => []RightAnswer
<1>1. IInv => RightAnswer
  BY DEF IInv
<1> QED
  BY InitInv, StepInv, <1>1, PTL DEF Spec

-----------------------------------------------------------------------------
(***************************************************************************)
(* The refinement: the request path implements RequestReply.                *)
(***************************************************************************)

\* A future that holds a result holds an answer, and a call succeeds only with
\* the result of its future.
HasResult ==
    \A r \in Requests : /\ fut[r] = "result" => answer[r] \in Requests
                        /\ task[r] = "ok" => fut[r] = "result"

\* The task of r goes on to x, and no answer is given.
Goes(r, x) == task' = [task EXCEPT ![r] = x] /\ answer' = answer /\ alone' = alone

\* What a caller sees depends on where the task is.
LEMMA Statuses ==
    ASSUME NEW r \in Requests
    PROVE  /\ task[r] = "idle" => Status(r) = "idle"
           /\ Active(r) => Status(r) = "asked"
           /\ task[r] = "ok" => Status(r) = "answered"
           /\ task[r] \in Outcomes \ {"ok"} => Status(r) = "failed"
           /\ task[r] # "ok" => Reply(r) = None
           /\ task[r] = "ok" => Reply(r) = answer[r]
BY SMT DEF Status, Reply, Active, Waiting, Outcomes, CloseStages

\* The same after a step.
LEMMA StatusesAfter ==
    ASSUME NEW r \in Requests
    PROVE  /\ task'[r] = "idle" => Status(r)' = "idle"
           /\ task'[r] \in Waiting => Status(r)' = "asked"
           /\ task'[r] = "ok" => Status(r)' = "answered"
           /\ task'[r] \in Outcomes \ {"ok"} => Status(r)' = "failed"
           /\ task'[r] # "ok" => Reply(r)' = None
           /\ task'[r] = "ok" => Reply(r)' = answer'[r]
BY SMT DEF Status, Reply, Active, Waiting, Outcomes, CloseStages


\* A function that differs from another at one request only is that other one
\* with this value changed.
LEMMA ChangedAt ==
    ASSUME NEW r \in Requests, NEW S, NEW f \in [Requests -> S], NEW g \in [Requests -> S],
           \A q \in Requests \ {r} : g[q] = f[q]
    PROVE  g = [f EXCEPT ![r] = g[r]]
  BY SMT

\* What callers see after the task of r, alone, has gone on to x.
LEMMA Moved ==
    ASSUME TypeOK, NEW r \in Requests, NEW x, Goes(r, x)
    PROVE  /\ task'[r] = x
           /\ \A q \in Requests \ {r} : Status(q)' = Status(q) /\ Reply(q)' = Reply(q)
           /\ [q \in Requests |-> Status(q)]' = [[q \in Requests |-> Status(q)] EXCEPT ![r] = Status(r)']
           /\ [q \in Requests |-> Reply(q)]' = [[q \in Requests |-> Reply(q)] EXCEPT ![r] = Reply(r)']
<1>1. task'[r] = x /\ \A q \in Requests \ {r} : Status(q)' = Status(q) /\ Reply(q)' = Reply(q)
  BY SMT DEF TypeOK, Status, Reply, Goes
<1> DEFINE f == [q \in Requests |-> Status(q)]
           g == [q \in Requests |-> Status(q)']
           h == [q \in Requests |-> Reply(q)]
           k == [q \in Requests |-> Reply(q)']
           S == {f[q] : q \in Requests} \cup {g[q] : q \in Requests}
           T == {h[q] : q \in Requests} \cup {k[q] : q \in Requests}
<1>2. f \in [Requests -> S] /\ g \in [Requests -> S] /\ h \in [Requests -> T] /\ k \in [Requests -> T]
  BY SMT
<1>3. /\ g[r] = Status(r)' /\ \A q \in Requests \ {r} : g[q] = f[q]
      /\ k[r] = Reply(r)' /\ \A q \in Requests \ {r} : k[q] = h[q]
  BY <1>1
<1> HIDE DEF f, g, h, k, S, T
<1>4. g = [f EXCEPT ![r] = g[r]] /\ k = [h EXCEPT ![r] = k[r]]
  BY <1>2, <1>3, ChangedAt
<1> QED
  BY <1>1, <1>3, <1>4 DEF f, g, h, k

\* A step that moves no task and changes no answer already returned is invisible.
LEMMA MapStays ==
    ASSUME TypeOK, task' = task, alone' = alone,
           \A q \in Requests : task[q] = "ok" => answer'[q] = answer[q]
    PROVE  UNCHANGED Calls!vars
  BY SMT DEF TypeOK, Calls!vars, Status, Reply

\* Nor are the steps of a task between its registration and its outcome.
LEMMA MapMoves ==
    ASSUME TypeOK, NEW r \in Requests, Active(r), NEW x \in Waiting, Goes(r, x)
    PROVE  UNCHANGED Calls!vars
<1>0. /\ task'[r] = x
      /\ \A q \in Requests \ {r} : Status(q)' = Status(q) /\ Reply(q)' = Reply(q)
  BY Moved
<1>1. Status(r)' = Status(r) /\ Reply(r)' = Reply(r)
  <2>1. task[r] # "ok" /\ task'[r] # "ok"
    BY <1>0, SMT DEF Active, Waiting, CloseStages
  <2> QED
    BY <1>0, <2>1, Statuses, StatusesAfter
<1> QED
  BY <1>0, <1>1, SMT DEF Calls!vars, Goes

\* Registration is Ask, a failure is Fails (at once, if there is no writer),
\* success is Answered.
LEMMA MapAsk ==
    ASSUME TypeOK, NEW r \in Requests, task[r] = "idle", NEW x \in Waiting, Goes(r, x)
    PROVE  Calls!Ask(r)
<1>0. /\ task'[r] = x
      /\ \A q \in Requests \ {r} : Status(q)' = Status(q) /\ Reply(q)' = Reply(q)
  BY Moved
<1>1. Status(r) = "idle" /\ Status(r)' = "asked" /\ Reply(r)' = Reply(r)
  <2>1. task[r] # "ok" /\ task'[r] # "ok"
    BY <1>0, SMT DEF Waiting, CloseStages
  <2> QED
    BY <1>0, <2>1, Statuses, StatusesAfter
<1>2. UNCHANGED [q \in Requests |-> Reply(q)]
  BY <1>0, <1>1, SMT
<1>3. [q \in Requests |-> Status(q)]' = [[q \in Requests |-> Status(q)] EXCEPT ![r] = "asked"]
  BY Moved, <1>1
<1> QED
  BY <1>1, <1>2, <1>3 DEF Calls!Ask, Goes

LEMMA MapFails ==
    ASSUME TypeOK, NEW r \in Requests, Active(r) \/ task[r] = "idle",
           NEW x \in Outcomes \ {"ok"}, Goes(r, x)
    PROVE  Calls!Fails(r)
<1>0. /\ task'[r] = x
      /\ \A q \in Requests \ {r} : Status(q)' = Status(q) /\ Reply(q)' = Reply(q)
  BY Moved
<1>1. Status(r) \in {"idle", "asked"} /\ Status(r)' = "failed" /\ Reply(r)' = Reply(r)
  <2>1. task[r] # "ok" /\ task'[r] # "ok"
    BY <1>0, SMT DEF Active, Waiting, CloseStages
  <2> QED
    BY <1>0, <2>1, Statuses, StatusesAfter
<1>2. UNCHANGED [q \in Requests |-> Reply(q)]
  BY <1>0, <1>1, SMT
<1>3. [q \in Requests |-> Status(q)]' = [[q \in Requests |-> Status(q)] EXCEPT ![r] = "failed"]
  BY Moved, <1>1
<1> QED
  BY <1>1, <1>2, <1>3 DEF Calls!Fails, Goes

LEMMA MapAnswered ==
    ASSUME TypeOK, NEW r \in Requests, Active(r), Goes(r, "ok"),
           answer[r] \in Requests, alone => answer[r] = r
    PROVE  Calls!Answered(r)
<1>1. task'[r] = "ok" /\ answer'[r] = answer[r]
  BY Moved DEF Goes
<1>2. Status(r) = "asked" /\ Status(r)' = "answered" /\ Reply(r)' = answer[r]
  BY <1>1, Statuses, StatusesAfter, SMT
<1>3. /\ [q \in Requests |-> Status(q)]' = [[q \in Requests |-> Status(q)] EXCEPT ![r] = "answered"]
      /\ [q \in Requests |-> Reply(q)]' = [[q \in Requests |-> Reply(q)] EXCEPT ![r] = answer[r]]
  BY Moved, <1>2
<1> QED
  BY <1>2, <1>3 DEF Calls!Answered, Goes

LEMMA MapInit == Init => Calls!Init
  BY SMT DEF Init, Calls!Init, Status, Reply, Waiting, Outcomes, CloseStages

\* What read loops and other closers do, a caller does not see.
LEMMA MapRead ==
    ASSUME IInv, HasResult, NEW g \in Conns, NEW q \in Requests, ReadResponse(g, q)
    PROVE  UNCHANGED Calls!vars /\ HasResult'
<1> USE DEF IInv, TypeOK
<1> DEFINE p == pending[sid[q]]
<1>1. task' = task /\ alone' = alone
  BY DEF ReadResponse
<1>2. CASE p # None /\ fut[p] = "pending"
  <2>1. sid[q] \in StreamIds /\ p \in Requests
    BY <1>2, SMT DEF ReadResponse, OnWire, Placed
  <2>2. fut' = [fut EXCEPT ![p] = "result"] /\ answer' = [answer EXCEPT ![p] = q]
    BY <1>2 DEF ReadResponse, Addressee
  <2>3. HasResult'
    BY <1>1, <2>1, <2>2, SMT DEF HasResult
  <2>4. \A r \in Requests : task[r] = "ok" => answer'[r] = answer[r]
    BY <1>2, <2>2, SMT DEF HasResult
  <2> QED
    BY <1>1, <2>3, <2>4, MapStays
<1>3. CASE ~(p # None /\ fut[p] = "pending")
  <2>1. UNCHANGED <<fut, answer>>
    BY <1>3 DEF ReadResponse, Addressee
  <2> QED
    BY <1>1, <2>1, MapStays DEF HasResult
<1> QED
  BY <1>2, <1>3

\* Nor does a caller see what connections and other closers do.
LEMMA MapConn ==
    ASSUME TypeOK, HasResult, UNCHANGED <<reqVars, alone>>
    PROVE  UNCHANGED Calls!vars /\ HasResult'
  BY MapStays DEF HasResult, reqVars

LEMMA ConnUnseen ==
    ASSUME NEW g \in Conns, ConnStep(g), ~ \E q \in Requests : ReadResponse(g, q)
    PROVE  UNCHANGED <<reqVars, alone>>
  BY DEF ConnStep, Opened, SetState, StartLoop, ReadNotify, HandlerDone, ReadFail,
         LoopCloseDone, LoopOnCloseReturns

\* A request's own steps are those of its call.
LEMMA MapReq ==
    ASSUME IInv, HasResult, NEW r \in Requests, ReqStep(r)
    PROVE  [Calls!Next]_(Calls!vars) /\ HasResult'
<1> USE DEF IInv, TypeOK
<1>0. TypeOK
  OBVIOUS
<1>1. ASSUME NEW x \in (Waiting \cup Outcomes) \ {"ok"}, Goes(r, x), fut' = fut
      PROVE  HasResult'
  BY <1>1, SMT DEF Goes, HasResult
<1>2. CASE Issue(r)
  <2>1. PICK x \in {"drain", "lock", "closed"} : Goes(r, x)
    BY <1>2, SMT DEF Issue, Goes
  <2>2. task[r] = "idle" /\ fut' = [fut EXCEPT ![r] = "pending"]
    BY <1>2 DEF Issue
  <2>3. Calls!Ask(r) \/ Calls!Fails(r)
    <3>1. CASE x \in Waiting
      BY <1>0, <2>1, <2>2, <3>1, MapAsk
    <3>2. CASE x = "closed"
      BY <1>0, <2>1, <2>2, <3>2, MapFails DEF Outcomes
    <3> QED
      BY <3>1, <3>2 DEF Waiting
  <2>4. HasResult'
    BY <2>1, <2>2, SMT DEF Goes, HasResult
  <2> QED
    BY <2>3, <2>4 DEF Calls!Next
<1>3. CASE GetLock(r) \/ DrainOk(r) \/ DrainFail(r) \/ CloseDone(r) \/ OnCloseReturns(r)
  <2>1. PICK x \in Waiting \cup {"closed"} : Goes(r, x)
    BY <1>3, Zenon
    DEF GetLock, DrainOk, DrainFail, CloseDone, OnCloseReturns, SendFails, Goes,
        Waiting, CloseStages
  <2>2. fut' = fut /\ Active(r)
    BY <1>3 DEF GetLock, DrainOk, DrainFail, CloseDone, OnCloseReturns, Active,
                Waiting, CloseStages
  <2>3. CASE x \in Waiting
    BY <1>0, <1>1, <2>1, <2>2, <2>3, MapMoves, SMT DEF Waiting, CloseStages
  <2>4. CASE x = "closed"
    BY <1>0, <1>1, <2>1, <2>2, <2>4, MapFails DEF Outcomes, Calls!Next
  <2> QED
    BY <2>1, <2>3, <2>4
<1>4. CASE Resume(r)
  <2>1. fut' = fut /\ Active(r)
    BY <1>4 DEF Resume, Active, Waiting
  <2>2. CASE fut[r] = "result"
    <3>1. Goes(r, "ok")
      BY <1>4, <2>2, SMT DEF Resume, Goes
    <3>2. answer[r] \in Requests /\ (alone => answer[r] = r)
      <4>1. answer[r] \in Requests
        BY <2>2 DEF HasResult
      <4>2. alone => answer[r] \in {None, r}
        BY DEF RightAnswer
      <4>3. None \notin Requests
        BY MultiplexAssumption
      <4> QED
        BY <4>1, <4>2, <4>3
    <3>3. HasResult'
      BY <2>1, <2>2, <3>1, SMT DEF HasResult, Goes
    <3> QED
      BY <1>0, <2>1, <3>1, <3>2, <3>3, MapAnswered DEF Calls!Next
  <2>3. CASE fut[r] # "result"
    <3>1. Goes(r, "cancelled")
      BY <1>4, <2>3, SMT DEF Resume, Goes
    <3> QED
      BY <1>0, <1>1, <2>1, <3>1, MapFails DEF Outcomes, Calls!Next
  <2> QED
    BY <2>2, <2>3
<1>5. CASE Timeout(r)
  <2>1. Goes(r, "timeout") /\ Active(r)
    BY <1>5 DEF Timeout, Goes, Active, Waiting
  <2>2. \A q \in Requests : fut'[q] = "result" <=> fut[q] = "result"
    BY <1>5, SMT DEF Timeout, CancelAt
  <2>3. HasResult'
    BY <2>1, <2>2, SMT DEF HasResult, Goes
  <2> QED
    BY <1>0, <2>1, <2>3, MapFails DEF Outcomes, Calls!Next
<1> QED
  BY <1>2, <1>3, <1>4, <1>5 DEF ReqStep

\* A connection that is established beside one in use is what Overlaps allows.
LEMMA MapEstablish ==
    ASSUME TypeOK, HasResult, Establish
    PROVE  [Calls!Next]_(Calls!vars) /\ HasResult'
<1>1. task' = task /\ answer' = answer /\ fut' = fut
  BY DEF Establish, reqVars
<1>2. HasResult'
  BY <1>1 DEF HasResult
<1>3. /\ [q \in Requests |-> Status(q)]' = [q \in Requests |-> Status(q)]
      /\ [q \in Requests |-> Reply(q)]' = [q \in Requests |-> Reply(q)]
  BY <1>1, SMT DEF Status, Reply
<1>4. alone' = alone \/ alone' = FALSE
  BY Zenon DEF Establish, TypeOK
<1> QED
  BY <1>2, <1>3, <1>4 DEF Calls!vars, Calls!Next, Calls!Overlaps

\* The request path implements its promise: every call has one outcome, which is
\* final, and as long as connections follow one another a reply is the call's own.
THEOREM ImplementsPromise == Spec => KeepsPromise
<1> DEFINE Inv == IInv /\ HasResult
<1>1. Init => Inv
  BY InitInv, SMT DEF Init, HasResult
<1>2. Inv /\ [Next]_vars => Inv' /\ [Calls!Next]_(Calls!vars)
  <2> SUFFICES ASSUME IInv, HasResult, [Next]_vars
               PROVE  HasResult' /\ [Calls!Next]_(Calls!vars)
    BY StepInv
  <2>0. TypeOK
    BY DEF IInv
  <2>1. CASE Establish
    BY <2>0, <2>1, MapEstablish
  <2>2. ASSUME NEW g \in Conns, ConnStep(g)
        PROVE  HasResult' /\ [Calls!Next]_(Calls!vars)
    BY <2>0, <2>2, MapRead, MapConn, ConnUnseen
  <2>3. ASSUME NEW c \in Closers, UserClose(c) \/ UserCloseDone(c)
        PROVE  HasResult' /\ [Calls!Next]_(Calls!vars)
    BY <2>0, <2>3, MapConn DEF UserClose, UserCloseDone
  <2>4. CASE UNCHANGED vars
    BY <2>0, <2>4, MapConn DEF vars, reqVars
  <2> QED
    BY <2>1, <2>2, <2>3, <2>4, MapReq DEF Next
<1> QED
  BY <1>1, <1>2, MapInit, PTL DEF Spec, KeepsPromise, Calls!Spec

-----------------------------------------------------------------------------
(***************************************************************************)
(* Connections and their read loops, whatever the requests do.              *)
(***************************************************************************)

\* A connection that is not established has no transport and no loop; until its
\* socket is open nothing reads it; and an open one counts as connected, with a
\* loop that no close() has ended.
ConnInv ==
    \A g \in Conns :
        /\ g > curr => trans[g] = "none" /\ loop[g] = "off"
        /\ trans[g] = "opening" => loop[g] = "off"
        /\ trans[g] = "open" =>
             Connected(g) /\ loop[g] \in {"off", "read", "notify", "killed"}

\* A close() that begins or ends leaves its connection without an open transport.
LEMMA CloseShuts ==
    ASSUME TypeOK, ConnInv, NEW g \in Conns,
           FinishClose(g) \/ \E at \in CloseStages \cup {"return"} : CloseCall(g, at)
    PROVE  /\ trans'[g] # "open"
           /\ trans'[g] = "opening" => trans[g] = "opening"
           /\ trans[g] = "none" => trans'[g] = "none"
           /\ \A h \in Conns \ {g} : trans'[h] = trans[h] /\ state'[h] = state[h]
  BY SMT DEF TypeOK, ConnInv, FinishClose, CloseCall, HasStreams, Connected

\* So ConnInv is kept, whatever becomes of the loop that closes.
LEMMA CloseKeepsConn ==
    ASSUME TypeOK, ConnInv, NEW g \in Conns, curr' = curr,
           FinishClose(g) \/ \E at \in CloseStages \cup {"return"} : CloseCall(g, at),
           \/ loop' = loop
           \/ loop[g] # "off" /\ \A h \in Conns \ {g} : loop'[h] = loop[h]
    PROVE  ConnInv'
<1>1. /\ trans'[g] # "open"
      /\ trans'[g] = "opening" => trans[g] = "opening"
      /\ trans[g] = "none" => trans'[g] = "none"
      /\ \A h \in Conns \ {g} : trans'[h] = trans[h] /\ state'[h] = state[h]
  BY CloseShuts
<1> QED
  BY <1>1, SMT DEF ConnInv, Connected

LEMMA ConnInvStep ==
    ASSUME TypeOK, Placed, OnWire, ConnInv, [Next]_vars
    PROVE  ConnInv'
<1> USE DEF TypeOK, connVars, readVars
<1>1. CASE Establish
  BY <1>1, MultiplexAssumption, SMT DEF Establish, ConnInv, Connected, Conns
<1>2. ASSUME NEW g \in Conns, ConnStep(g)
      PROVE  ConnInv'
  <2>1. CASE Opened(g)
    BY <1>2, <2>1, SMT DEF Opened, ConnInv, Connected
  <2>2. CASE SetState(g)
    BY <1>2, <2>2, SMT DEF SetState, ConnInv, Connected
  <2>3. CASE StartLoop(g)
    BY <1>2, <2>3, MultiplexAssumption, SMT DEF StartLoop, ConnInv, Connected, HasStreams, Conns
  <2>4. CASE ReadNotify(g)
    BY <1>2, <2>4, SMT DEF ReadNotify, ConnInv, Connected
  <2>5. CASE HandlerDone(g)
    BY <1>2, <2>5, SMT DEF HandlerDone, LoopAgain, ConnInv, Connected, HasStreams
  <2>6. CASE ReadFail(g)
    <3>1. /\ loop[g] # "off" /\ curr' = curr
          /\ \A h \in Conns \ {g} : loop'[h] = loop[h]
      BY <2>6, SMT DEF ReadFail
    <3> QED
      BY <2>6, <3>1, CloseKeepsConn DEF ReadFail
  <2>7. CASE LoopCloseDone(g)
    <3>1. /\ loop[g] # "off" /\ curr' = curr
          /\ \A h \in Conns \ {g} : loop'[h] = loop[h]
      BY <2>7, SMT DEF LoopCloseDone
    <3> QED
      BY <2>7, <3>1, CloseKeepsConn DEF LoopCloseDone
  <2>8. CASE LoopOnCloseReturns(g)
    BY <1>2, <2>8, SMT DEF LoopOnCloseReturns, ConnInv, Connected
  <2>9. ASSUME NEW q \in Requests, ReadResponse(g, q)
        PROVE  ConnInv'
    BY <1>2, <2>9, SMT DEF ReadResponse, LoopAgain, ConnInv, Connected, HasStreams
  <2> QED
    BY <1>2, <2>1, <2>2, <2>3, <2>4, <2>5, <2>6, <2>7, <2>8, <2>9 DEF ConnStep
<1>3. ASSUME NEW c \in Closers, UserClose(c)
      PROVE  ConnInv'
  BY <1>3, CloseKeepsConn DEF UserClose
<1>4. ASSUME NEW c \in Closers, UserCloseDone(c)
      PROVE  ConnInv'
  <2>1. CASE closing[c] \in Conns
    BY <1>4, <2>1, CloseKeepsConn DEF UserCloseDone
  <2>2. CASE closing[c] \notin Conns
    <3>1. state' = state /\ trans' = trans /\ loop' = loop /\ curr' = curr
      BY <1>4, <2>2, SMT DEF UserCloseDone, FinishClose
    <3> QED
      BY <3>1 DEF ConnInv, Connected
  <2> QED
    BY <2>1, <2>2
<1>5. ASSUME NEW r \in Requests, ReqStep(r)
      PROVE  ConnInv'
  <2>0. task[r] # "idle" => conn[r] \in Conns
    BY SMT DEF Placed, Conns
  <2>1. CASE UNCHANGED <<curr, state, trans, loop>>
    BY <2>1 DEF ConnInv, Connected
  <2>2. CASE SendFails(r) /\ task[r] # "idle" /\ UNCHANGED <<curr, loop>>
    BY <2>0, <2>2, CloseKeepsConn DEF SendFails
  <2>3. CASE CloseDone(r)
    BY <2>0, <2>3, CloseKeepsConn DEF CloseDone
  <2> QED
    BY <1>5, <2>1, <2>2, <2>3
    DEF ReqStep, Issue, GetLock, DrainOk, DrainFail, OnCloseReturns, Resume, Timeout
<1>6. CASE UNCHANGED vars
  BY <1>6 DEF vars, ConnInv, Connected
<1> QED
  BY <1>1, <1>2, <1>3, <1>4, <1>5, <1>6 DEF Next

-----------------------------------------------------------------------------
(***************************************************************************)
(* The router's table, whatever the connections do.                         *)
(***************************************************************************)

\* An entry belongs to the newest of the requests under way with its stream id:
\* the others are of earlier connections.
NewestWins ==
    \A s \in StreamIds, p \in Requests :
        pending[s] = p =>
            /\ sid[p] = s /\ task[p] # "idle"
            /\ \A q \in Requests \ {p} :
                  Active(q) /\ sid[q] = s => conn[q] < conn[p]

\* On the newest connection, an unresolved request under way is registered.
Tracked ==
    \A r \in Requests :
        Active(r) /\ fut[r] = "pending" /\ conn[r] = curr => pending[sid[r]] = r

TableInv == IInv /\ NewestWins /\ Tracked

\* Whatever pops the entry of a request settles its future.
LEMMA PopSettles ==
    ASSUME TypeOK, Placed, OnWire, [Next]_vars, ~Establish,
           \A x \in Requests : ~Issue(x),
           NEW s \in StreamIds, NEW r \in Requests, pending[s] = r, pending'[s] # r
    PROVE  fut'[r] # "pending"
<1> USE DEF TypeOK
<1>1. CASE \E g \in Conns, q \in Requests : ReadResponse(g, q)
  BY <1>1, MultiplexAssumption, SMT DEF ReadResponse, Addressee, OnWire, Placed
<1>2. CASE \E q \in Requests : Timeout(q)
  BY <1>2, SMT DEF Timeout, CancelAt, Placed
<1>3. CASE pending' = pending
  BY <1>3
<1> QED
  BY <1>1, <1>2, <1>3
  DEF Next, vars, ConnStep, ReqStep, Opened, SetState, StartLoop, UserClose, UserCloseDone,
      ReadNotify, HandlerDone, ReadFail, LoopCloseDone, LoopOnCloseReturns,
      GetLock, DrainOk, DrainFail, CloseDone, OnCloseReturns, Resume

\* Nothing but registration makes a future pending.
LEMMA StaysSettled ==
    ASSUME TypeOK, [Next]_vars, \A x \in Requests : ~Issue(x),
           NEW r \in Requests, fut'[r] = "pending"
    PROVE  fut[r] = "pending"
<1> USE DEF TypeOK
<1>1. CASE \E g \in Conns, q \in Requests : ReadResponse(g, q)
  BY <1>1, SMT DEF ReadResponse
<1>2. CASE \E q \in Requests : Timeout(q)
  BY <1>2, SMT DEF Timeout, CancelAt
<1>3. CASE fut' = fut
  BY <1>3
<1> QED
  BY <1>1, <1>2, <1>3
  DEF Next, vars, ConnStep, ReqStep, Establish, Opened, SetState, StartLoop, UserClose,
      UserCloseDone, ReadNotify, HandlerDone, ReadFail, LoopCloseDone, LoopOnCloseReturns,
      GetLock, DrainOk, DrainFail, CloseDone, OnCloseReturns, Resume, reqVars

\* A new entry is that of the newest request, and takes none from a request under
\* way on the same connection.
LEMMA IssueTable ==
    ASSUME TableInv, TypeOK', NEW r \in Requests, Issue(r)
    PROVE  NewestWins' /\ Tracked'
<1> DEFINE s == NextStreamId(counter[curr])
<1> USE DEF TableInv, IInv, TypeOK
<1>1. curr \in Conns /\ s \in StreamIds
  BY MultiplexAssumption, SMT DEF Issue, NextStreamId, Conns, StreamIds
<1>2. /\ task[r] = "idle" /\ conn'[r] = curr /\ sid'[r] = s /\ curr' = curr
      /\ task'[r] # "idle"
      /\ pending' = [pending EXCEPT ![s] = r]
      /\ \A q \in Requests \ {r} : fut'[q] = fut[q]
  BY SMT DEF Issue
<1>3. \A q \in Requests \ {r} :
         /\ conn'[q] = conn[q] /\ sid'[q] = sid[q] /\ task'[q] = task[q]
         /\ Active(q)' <=> Active(q)
  BY IssuePlaces DEF Active
<1>4. \A q \in Requests \ {r} :
         Active(q) /\ sid[q] = s => conn[q] < curr
  <2> SUFFICES ASSUME NEW q \in Requests \ {r}, Active(q), sid[q] = s
               PROVE  conn[q] < curr
    OBVIOUS
  <2>1. conn[q] # curr
    BY SMT DEF Issue, StreamIdAvailable
  <2>2. conn[q] \in 1..curr
    BY SMT DEF Placed, Active, Waiting, CloseStages
  <2> QED
    BY <2>1, <2>2, <1>1, SMT DEF Conns
<1>5. NewestWins'
  <2> SUFFICES ASSUME NEW t \in StreamIds, NEW p \in Requests, pending'[t] = p
               PROVE  /\ sid'[p] = t /\ task'[p] # "idle"
                      /\ \A q \in Requests \ {p} :
                            Active(q)' /\ sid'[q] = t => conn'[q] < conn'[p]
    BY DEF NewestWins
  <2>1. CASE t = s
    <3>1. p = r
      BY <1>1, <1>2, <2>1, SMT
    <3> QED
      BY <1>2, <1>3, <1>4, <2>1, <3>1
  <2>2. CASE t # s
    <3>1. pending[t] = p
      BY <1>1, <1>2, <2>2, SMT
    <3>2. p # r
      BY <1>2, <3>1 DEF NewestWins
    <3> QED
      BY <1>2, <1>3, <2>2, <3>1, <3>2 DEF NewestWins
  <2> QED
    BY <2>1, <2>2
<1>6. Tracked'
  <2> SUFFICES ASSUME NEW q \in Requests, Active(q)', fut'[q] = "pending", conn'[q] = curr'
               PROVE  pending'[sid'[q]] = q
    BY DEF Tracked
  <2>1. CASE q = r
    BY <1>1, <1>2, <2>1, SMT
  <2>2. CASE q # r
    <3>1. Active(q) /\ fut[q] = "pending" /\ conn[q] = curr /\ sid'[q] = sid[q]
      BY <1>2, <1>3, <2>2
    <3>2. sid[q] # s
      BY <1>1, <1>4, <2>2, <3>1, SMT DEF Conns
    <3>3. sid[q] \in StreamIds
      BY <3>1, SMT DEF Placed, Active, Waiting, CloseStages
    <3> QED
      BY <1>1, <1>2, <3>1, <3>2, <3>3, SMT DEF Tracked
  <2> QED
    BY <2>1, <2>2
<1> QED
  BY <1>5, <1>6

LEMMA TableStep == TableInv /\ [Next]_vars => TableInv'
<1> SUFFICES ASSUME TableInv, [Next]_vars
             PROVE  NewestWins' /\ Tracked'
  BY StepInv DEF TableInv
<1>0. IInv' /\ IInv /\ TypeOK /\ TypeOK' /\ Placed /\ OnWire
  BY StepInv DEF TableInv, IInv
<1>1. CASE Establish
  <2>1. /\ UNCHANGED <<pending, task, conn, sid, fut>>
        /\ \A q \in Requests : Active(q)' <=> Active(q)
    BY <1>1 DEF Establish, reqVars, Active
  <2>2. NewestWins'
    BY <2>1 DEF NewestWins, TableInv
  <2>3. \A q \in Requests : Active(q) => conn[q] # curr'
    BY <1>0, <1>1, MultiplexAssumption, SMT
    DEF Establish, Placed, TypeOK, Active, Waiting, CloseStages
  <2> QED
    BY <2>1, <2>2, <2>3 DEF Tracked
<1>2. ASSUME NEW r \in Requests, Issue(r)
      PROVE  NewestWins' /\ Tracked'
  BY <1>0, <1>2, IssueTable
<1>3. CASE OnlyEnds /\ ~Establish /\ \A x \in Requests : ~Issue(x)
  <2>1. NewestWins'
    <3> SUFFICES ASSUME NEW s \in StreamIds, NEW p \in Requests, pending'[s] = p
                 PROVE  /\ sid'[p] = s /\ task'[p] # "idle"
                        /\ \A q \in Requests \ {p} :
                              Active(q)' /\ sid'[q] = s => conn'[q] < conn'[p]
      BY DEF NewestWins
    <3>1. pending[s] = p
      BY <1>3, MultiplexAssumption DEF OnlyEnds
    <3> QED
      BY <1>3, <3>1 DEF OnlyEnds, NewestWins, TableInv
  <2>2. Tracked'
    <3> SUFFICES ASSUME NEW r \in Requests, Active(r)', fut'[r] = "pending", conn'[r] = curr'
                 PROVE  pending'[sid'[r]] = r
      BY DEF Tracked
    <3>1. Active(r) /\ fut[r] = "pending" /\ conn[r] = curr /\ sid'[r] = sid[r]
      BY <1>0, <1>3, StaysSettled DEF OnlyEnds
    <3>2. pending[sid[r]] = r
      BY <3>1 DEF Tracked, TableInv
    <3>3. sid[r] \in StreamIds
      BY <1>0, <3>1, SMT DEF Placed, Active, Waiting, CloseStages
    <3> QED
      BY <1>0, <1>3, <3>1, <3>2, <3>3, PopSettles
  <2> QED
    BY <2>1, <2>2
<1>4. CASE UNCHANGED vars
  BY <1>4 DEF vars, NewestWins, Tracked, Active, TableInv
<1> QED
  BY <1>0, <1>1, <1>2, <1>3, <1>4, ConnEnds, CloserEnds, ReqEnds DEF Next

LEMMA InitTable == Init => TableInv
<1> SUFFICES ASSUME Init
             PROVE  NewestWins /\ Tracked
  BY InitInv DEF TableInv
<1> QED
  BY MultiplexAssumption, SMT DEF Init, NewestWins, Tracked, Active, Waiting, CloseStages

-----------------------------------------------------------------------------
(***************************************************************************)
(* Who cancels a request.                                                   *)
(***************************************************************************)

\* A future that is cancelled is cancelled by a time-out: its own, or that of a
\* request with its stream id, which NewestWins places on an earlier connection.
LEMMA CancelStep ==
    ASSUME TableInv, [Next]_vars, NEW r \in Requests,
           fut[r] = "pending", fut'[r] = "cancelled"
    PROVE  \/ task'[r] = "timeout"
           \/ \E o \in Requests : task[o] = "wait" /\ OlderTimedOut(o, r)'
<1> USE DEF TableInv, IInv, TypeOK
<1>1. ASSUME NEW o \in Requests, Timeout(o)
      PROVE  \/ task'[r] = "timeout"
             \/ task[o] = "wait" /\ OlderTimedOut(o, r)'
  <2>1. task[o] = "wait" /\ task'[o] = "timeout" /\ conn' = conn /\ sid' = sid
    BY <1>1, SMT DEF Timeout
  <2>2. r = o \/ r = pending[sid[o]]
    BY <1>1, SMT DEF Timeout, CancelAt
  <2>3. ASSUME r # o
        PROVE  conn[o] < conn[r] /\ sid[o] = sid[r]
    <3>1. sid[o] \in StreamIds /\ pending[sid[o]] = r
      BY <2>1, <2>2, <2>3, SMT DEF Placed
    <3>2. Active(o)
      BY <2>1 DEF Active, Waiting
    <3> QED
      BY <2>3, <3>1, <3>2 DEF NewestWins
  <2> QED
    BY <2>1, <2>3 DEF OlderTimedOut
<1>2. CASE \E g \in Conns, q \in Requests : ReadResponse(g, q)
  BY <1>2, SMT DEF ReadResponse
<1>3. CASE \E q \in Requests : Issue(q)
  BY <1>3, SMT DEF Issue
<1>4. CASE fut' = fut
  BY <1>4
<1> QED
  BY <1>1, <1>2, <1>3, <1>4
  DEF Next, vars, ConnStep, ReqStep, Establish, Opened, SetState, StartLoop, UserClose,
      UserCloseDone, ReadNotify, HandlerDone, ReadFail, LoopCloseDone, LoopOnCloseReturns,
      GetLock, DrainOk, DrainFail, CloseDone, OnCloseReturns, Resume, reqVars

\* However often connections are replaced, closed or opened beside one another, a
\* request is cancelled by its own time-out or by that of a request that had its
\* stream id on an earlier connection (cancel_request), and by nothing else.
THEOREM OnlyOlderCancel == Spec => CancelledByOlder
<1>1. TableInv /\ [Next]_vars =>
        [\A r \in Requests :
           fut[r] = "pending" /\ fut'[r] = "cancelled" =>
              \/ task'[r] = "timeout"
              \/ \E o \in Requests : task[o] = "wait" /\ OlderTimedOut(o, r)']_vars
  BY CancelStep
<1> QED
  BY <1>1, InitTable, TableStep, PTL DEF Spec, CancelledByOlder

-----------------------------------------------------------------------------
(***************************************************************************)
(* Readers.                                                                 *)
(***************************************************************************)

\* A task has a future once it has started; the outcome "cancelled" is that of the
\* future; and a future cancelled by another request has its culprit.
Futures ==
    \A r \in Requests :
        /\ task[r] = "idle" <=> fut[r] = "none"
        /\ task[r] = "cancelled" => fut[r] = "cancelled"
        /\ fut[r] = "cancelled" /\ task[r] # "timeout" =>
              \E o \in Requests : OlderTimedOut(o, r)

\* A read loop was killed by the cancellation of its handler's request.
KilledBy ==
    \A g \in Conns :
        loop[g] = "killed" =>
            \E h \in HandlerRequests, o \in Requests :
                task[h] = "cancelled" /\ OlderTimedOut(o, h)

ReaderInv == TableInv /\ ConnInv /\ Futures /\ KilledBy

\* Outcomes are final, and what has started keeps its place.
LEMMA Final ==
    ASSUME TypeOK, [Next]_vars, NEW r \in Requests, task[r] # "idle"
    PROVE  /\ conn'[r] = conn[r] /\ sid'[r] = sid[r] /\ task'[r] # "idle"
           /\ Ended(r) => task'[r] = task[r]
<1> USE DEF TypeOK
<1>1. CASE \E q \in Requests : Issue(q)
  BY <1>1, SMT DEF Issue, Ended, Outcomes
<1>2. CASE \E q \in Requests : GetLock(q) \/ DrainFail(q)
  <2>1. PICK q \in Requests, x \in {"drain", "close", "onclose", "closed"} :
           task[q] \in {"lock", "drain"} /\ task' = [task EXCEPT ![q] = x]
    BY <1>2, SMT DEF GetLock, DrainFail, SendFails, CloseStages
  <2>2. conn' = conn /\ sid' = sid
    BY <1>2 DEF GetLock, DrainFail
  <2> QED
    BY <2>1, <2>2, SMT DEF Ended, Outcomes
<1>3. CASE \E q \in Requests : DrainOk(q) \/ CloseDone(q) \/ OnCloseReturns(q) \/ Resume(q) \/ Timeout(q)
  BY <1>3, SMT DEF DrainOk, CloseDone, OnCloseReturns, Resume, Timeout, Ended, Outcomes
<1>4. CASE UNCHANGED <<task, conn, sid>>
  BY <1>4
<1> QED
  BY <1>1, <1>2, <1>3, <1>4
  DEF Next, vars, ConnStep, ReqStep, Establish, Opened, SetState, StartLoop, UserClose,
      UserCloseDone, ReadNotify, HandlerDone, ReadFail, LoopCloseDone, LoopOnCloseReturns,
      ReadResponse, reqVars

\* Once timed out, always timed out.
LEMMA OlderStays ==
    ASSUME TypeOK, [Next]_vars, NEW o \in Requests, NEW r \in Requests,
           OlderTimedOut(o, r), task[r] # "idle"
    PROVE  OlderTimedOut(o, r)'
<1>1. task[o] = "timeout" /\ Ended(o)
  BY DEF OlderTimedOut, Ended, Outcomes
<1>2. task'[o] = "timeout" /\ conn'[o] = conn[o] /\ sid'[o] = sid[o]
  BY <1>1, Final
<1>3. conn'[r] = conn[r] /\ sid'[r] = sid[r]
  BY Final
<1> QED
  BY <1>2, <1>3 DEF OlderTimedOut

\* A future, once cancelled, stays so; one that was there does not go; and "cancelled"
\* is entered only from a cancelled future.
LEMMA FutureStep ==
    ASSUME TypeOK, [Next]_vars, NEW r \in Requests,
           task[r] = "idle" <=> fut[r] = "none"
    PROVE  /\ task'[r] = "idle" <=> fut'[r] = "none"
           /\ task[r] # "idle" /\ fut[r] = "cancelled" => fut'[r] = "cancelled"
           /\ task'[r] = "cancelled" /\ task[r] # "cancelled" => fut[r] = "cancelled"
           /\ fut'[r] = "cancelled" => fut[r] \in {"cancelled", "pending"}
           /\ task[r] = "idle" /\ task'[r] # "idle" => fut'[r] = "pending"
<1> USE DEF TypeOK
<1>1. CASE \E q \in Requests : Issue(q)
  BY <1>1, SMT DEF Issue
<1>2. CASE \E q \in Requests : GetLock(q) \/ DrainFail(q)
  <2>1. PICK q \in Requests, x \in {"drain", "close", "onclose", "closed"} :
           task[q] \in {"lock", "drain"} /\ task' = [task EXCEPT ![q] = x]
    BY <1>2, SMT DEF GetLock, DrainFail, SendFails, CloseStages
  <2>2. fut' = fut
    BY <1>2 DEF GetLock, DrainFail
  <2> QED
    BY <2>1, <2>2, SMT
<1>3. CASE \E q \in Requests : DrainOk(q) \/ CloseDone(q) \/ OnCloseReturns(q) \/ Resume(q) \/ Timeout(q)
  BY <1>3, SMT DEF DrainOk, CloseDone, OnCloseReturns, Resume, Timeout, CancelAt
<1>4. CASE \E g \in Conns, q \in Requests : ReadResponse(g, q)
  BY <1>4, SMT DEF ReadResponse
<1>5. CASE UNCHANGED <<task, fut>>
  BY <1>5
<1> QED
  BY <1>1, <1>2, <1>3, <1>4, <1>5
  DEF Next, vars, ConnStep, ReqStep, Establish, Opened, SetState, StartLoop, UserClose,
      UserCloseDone, ReadNotify, HandlerDone, ReadFail, LoopCloseDone, LoopOnCloseReturns, reqVars

LEMMA FuturesStep ==
    ASSUME TableInv, Futures, [Next]_vars
    PROVE  Futures'
<1> SUFFICES ASSUME NEW r \in Requests
             PROVE  /\ task'[r] = "idle" <=> fut'[r] = "none"
                    /\ task'[r] = "cancelled" => fut'[r] = "cancelled"
                    /\ fut'[r] = "cancelled" /\ task'[r] # "timeout" =>
                          \E o \in Requests : OlderTimedOut(o, r)'
  BY DEF Futures
<1>0. TypeOK
  BY DEF TableInv, IInv
<1>1. /\ task'[r] = "idle" <=> fut'[r] = "none"
      /\ task[r] # "idle" /\ fut[r] = "cancelled" => fut'[r] = "cancelled"
      /\ task'[r] = "cancelled" /\ task[r] # "cancelled" => fut[r] = "cancelled"
      /\ fut'[r] = "cancelled" => fut[r] \in {"cancelled", "pending"}
      /\ task[r] = "idle" /\ task'[r] # "idle" => fut'[r] = "pending"
  BY <1>0, FutureStep DEF Futures
<1>2. task[r] # "idle" /\ Ended(r) => task'[r] = task[r]
  BY <1>0, Final
<1>3. task'[r] = "cancelled" => fut'[r] = "cancelled"
  BY <1>1 DEF Futures
<1>4. ASSUME fut'[r] = "cancelled", task'[r] # "timeout"
      PROVE  \E o \in Requests : OlderTimedOut(o, r)'
  <2>1. CASE fut[r] = "pending"
    BY <1>4, <2>1, CancelStep
  <2>2. CASE fut[r] = "cancelled"
    <3>1. task[r] # "timeout"
      BY <1>2, <1>4 DEF Ended, Outcomes
    <3>2. PICK o \in Requests : OlderTimedOut(o, r)
      BY <2>2, <3>1 DEF Futures
    <3>3. task[r] # "idle"
      BY <2>2 DEF Futures
    <3> QED
      BY <1>0, <3>2, <3>3, OlderStays
  <2> QED
    BY <1>1, <1>4, <2>1, <2>2
<1> QED
  BY <1>1, <1>3, <1>4

\* A loop that is killed has its culprit, who stays one.
LEMMA KilledStep ==
    ASSUME TableInv, Futures, KilledBy, [Next]_vars
    PROVE  KilledBy'
<1> USE DEF TableInv, IInv, TypeOK
<1> SUFFICES ASSUME NEW g \in Conns, loop'[g] = "killed"
             PROVE  \E h \in HandlerRequests, o \in Requests :
                        task'[h] = "cancelled" /\ OlderTimedOut(o, h)'
  BY DEF KilledBy
<1>1. loop[g] = "killed" \/ (HandlerDone(g) /\ handler[g] \in HandlerRequests
                             /\ task[handler[g]] = "cancelled")
  <2>1. ASSUME NEW h \in Conns, HandlerDone(h)
        PROVE  loop[g] = "killed" \/ (HandlerDone(g) /\ handler[g] \in HandlerRequests
                                      /\ task[handler[g]] = "cancelled")
    BY <2>1, MultiplexAssumption, SMT DEF HandlerDone, LoopAgain
  <2>2. ASSUME NEW h \in Conns, NEW q \in Requests, ReadResponse(h, q)
        PROVE  loop[g] = "killed"
    BY <2>2, SMT DEF ReadResponse, LoopAgain
  <2>3. ASSUME NEW h \in Conns,
               ReadNotify(h) \/ StartLoop(h) \/ LoopCloseDone(h) \/ LoopOnCloseReturns(h)
        PROVE  loop[g] = "killed"
    BY <2>3, SMT DEF ReadNotify, StartLoop, LoopCloseDone, LoopOnCloseReturns
  <2>4. ASSUME NEW h \in Conns, ReadFail(h)
        PROVE  loop[g] = "killed"
    BY <2>4, SMT DEF ReadFail, CloseStages
  <2>5. CASE loop' = loop
    BY <2>5
  <2> QED
    BY <2>1, <2>2, <2>3, <2>4, <2>5
    DEF Next, vars, ConnStep, ReqStep, Establish, Opened, SetState, UserClose,
        UserCloseDone, Issue, GetLock, DrainOk, DrainFail, CloseDone, OnCloseReturns,
        Resume, Timeout, readVars
<1>2. PICK h \in HandlerRequests, o \in Requests :
         task[h] = "cancelled" /\ OlderTimedOut(o, h)
  <2>1. CASE loop[g] = "killed"
    BY <2>1 DEF KilledBy
  <2>2. CASE handler[g] \in HandlerRequests /\ task[handler[g]] = "cancelled"
    <3>1. handler[g] \in Requests
      BY <2>2, MultiplexAssumption
    <3> QED
      BY <2>2, <3>1 DEF Futures
  <2> QED
    BY <1>1, <2>1, <2>2
<1>3. h \in Requests /\ Ended(h) /\ task[h] # "idle"
  BY <1>2, MultiplexAssumption DEF Ended, Outcomes
<1>4. task'[h] = "cancelled" /\ OlderTimedOut(o, h)'
  BY <1>2, <1>3, Final, OlderStays
<1> QED
  BY <1>4

LEMMA InitReader == Init => ReaderInv
<1> SUFFICES ASSUME Init
             PROVE  ConnInv /\ Futures /\ KilledBy
  BY InitTable DEF ReaderInv
<1>1. ConnInv /\ KilledBy
  BY SMT DEF Init, ConnInv, KilledBy
<1>2. Futures
  <2> SUFFICES ASSUME NEW r \in Requests
               PROVE  task[r] = "idle" /\ fut[r] = "none"
    BY DEF Futures
  <2> QED
    BY DEF Init
<1> QED
  BY <1>1, <1>2

LEMMA ReaderStep == ReaderInv /\ [Next]_vars => ReaderInv'
<1> SUFFICES ASSUME ReaderInv, [Next]_vars
             PROVE  ReaderInv'
  OBVIOUS
<1>1. TypeOK /\ Placed /\ OnWire
  BY DEF ReaderInv, TableInv, IInv
<1> QED
  BY <1>1, TableStep, ConnInvStep, FuturesStep, KilledStep DEF ReaderInv

\* An open transport keeps its read loop, although closes begin at any time and
\* overlap; only a notification handler whose request is cancelled for one of an
\* earlier connection kills it (read_frame_loop).
THEOREM ReadersLive == Spec => []NoZombieReader
<1>1. ReaderInv => NoZombieReader
  BY DEF ReaderInv, ConnInv, KilledBy, NoZombieReader
<1> QED
  BY InitReader, ReaderStep, <1>1, PTL DEF Spec

-----------------------------------------------------------------------------
(***************************************************************************)
(* Waiting callers are reachable.                                           *)
(***************************************************************************)

\* What was sent on the newest connection and has no answer is still to be read
\* there, unless the transport has closed; nothing is sent before it is open.
Sent(r) == task[r] \in {"drain", "wait"}
Written ==
    \A r \in Requests :
        Sent(r) =>
            /\ trans[conn[r]] # "opening"
            /\ fut[r] = "pending" /\ conn[r] = curr /\ trans[curr] = "open" => r \in wire[curr]

ReachInv == ReaderInv /\ Written

\* Only Establish begins to open a transport, and only a new one.
LEMMA OpensOnce ==
    ASSUME TypeOK, Placed, ConnInv, [Next]_vars, NEW g \in 1..curr
    PROVE  /\ trans'[g] = "open" => trans[g] \in {"open", "opening"}
           /\ trans'[g] = "opening" => trans[g] = "opening"
<1>0. g \in Conns
  BY MultiplexAssumption, SMT DEF TypeOK, Conns
<1>1. CASE Establish
  BY <1>0, <1>1, SMT DEF Establish, TypeOK, Conns
<1>2. CASE \E h \in Conns : Opened(h)
  BY <1>0, <1>2, SMT DEF Opened, TypeOK
<1>3. ASSUME NEW h \in Conns,
             FinishClose(h) \/ \E at \in CloseStages \cup {"return"} : CloseCall(h, at)
      PROVE  /\ trans'[g] = "open" => trans[g] \in {"open", "opening"}
             /\ trans'[g] = "opening" => trans[g] = "opening"
  BY <1>0, <1>3, CloseShuts
<1>4. CASE trans' = trans
  BY <1>4
<1>5. ASSUME NEW r \in Requests, task[r] # "idle",
             \/ FinishClose(conn[r])
             \/ \E at \in CloseStages \cup {"return"} : CloseCall(conn[r], at)
      PROVE  /\ trans'[g] = "open" => trans[g] \in {"open", "opening"}
             /\ trans'[g] = "opening" => trans[g] = "opening"
  <2>1. conn[r] \in Conns
    BY <1>5, MultiplexAssumption, SMT DEF Placed, TypeOK, Conns
  <2> QED
    BY <1>3, <1>5, <2>1
<1>6. ASSUME NEW c \in Closers, UserClose(c)
      PROVE  /\ trans'[g] = "open" => trans[g] \in {"open", "opening"}
             /\ trans'[g] = "opening" => trans[g] = "opening"
  BY <1>3, <1>6 DEF UserClose
<1>7. ASSUME NEW c \in Closers, UserCloseDone(c)
      PROVE  /\ trans'[g] = "open" => trans[g] \in {"open", "opening"}
             /\ trans'[g] = "opening" => trans[g] = "opening"
  <2>1. CASE closing[c] \in Conns
    BY <1>3, <1>7, <2>1 DEF UserCloseDone
  <2>2. CASE closing[c] \notin Conns
    BY <1>7, <2>2, SMT DEF UserCloseDone, FinishClose, TypeOK
  <2> QED
    BY <2>1, <2>2
<1>8. ASSUME NEW h \in Conns, ConnStep(h)
      PROVE  /\ trans'[g] = "open" => trans[g] \in {"open", "opening"}
             /\ trans'[g] = "opening" => trans[g] = "opening"
  BY <1>2, <1>3, <1>4, <1>8
  DEF ConnStep, SetState, StartLoop, ReadNotify, HandlerDone, ReadFail,
      LoopCloseDone, LoopOnCloseReturns, ReadResponse, connVars
<1>9. ASSUME NEW r \in Requests, ReqStep(r)
      PROVE  /\ trans'[g] = "open" => trans[g] \in {"open", "opening"}
             /\ trans'[g] = "opening" => trans[g] = "opening"
  BY <1>4, <1>5, <1>9
  DEF ReqStep, Issue, GetLock, DrainOk, DrainFail, SendFails, CloseDone, OnCloseReturns,
      Resume, Timeout, connVars
<1> QED
  BY <1>1, <1>4, <1>6, <1>7, <1>8, <1>9 DEF Next, vars

\* What is sent is written to an open transport, or to a closing one.
LEMMA SendWrites ==
    ASSUME TypeOK, Placed, [Next]_vars, NEW r \in Requests, Sent(r)'
    PROVE  \/ Sent(r) /\ conn'[r] = conn[r]
           \/ /\ trans'[conn'[r]] \in {"open", "closing"}
              /\ trans'[conn'[r]] = "open" => r \in wire'[conn'[r]]
<1> USE DEF TypeOK, Sent
<1>1. CASE Issue(r)
  <2>1. curr \in Conns /\ conn'[r] = curr /\ trans' = trans
    BY <1>1, MultiplexAssumption, SMT DEF Issue, Conns
  <2>2. task'[r] = "drain" => HasStreams(curr) /\ Write(r, curr)
    BY <1>1, SMT DEF Issue
  <2>3. task'[r] # "wait"
    BY <1>1, SMT DEF Issue
  <2> QED
    BY <2>1, <2>2, <2>3, SMT DEF Write, HasStreams
<1>2. CASE GetLock(r)
  <2>1. conn[r] \in Conns
    BY <1>2, SMT DEF GetLock, Placed, Conns
  <2>2. CASE HasStreams(conn[r])
    BY <1>2, <2>1, <2>2, SMT DEF GetLock, Write, HasStreams
  <2>3. CASE ~HasStreams(conn[r])
    <3>1. task'[r] \in {"close", "onclose", "closed"}
      BY <1>2, <2>3, SMT DEF GetLock, SendFails, CloseStages
    <3> QED
      BY <3>1
  <2> QED
    BY <2>2, <2>3
<1>3. ASSUME NEW q \in Requests \ {r}, ReqStep(q)
      PROVE  Sent(r) /\ conn'[r] = conn[r]
  BY <1>3, SMT
  DEF ReqStep, Issue, GetLock, DrainOk, DrainFail, SendFails, CloseDone, OnCloseReturns,
      Resume, Timeout
<1>4. CASE DrainFail(r)
  <2>1. task'[r] \in {"close", "onclose", "closed"}
    BY <1>4, SMT DEF DrainFail, SendFails, CloseStages
  <2> QED
    BY <2>1
<1>5. CASE DrainOk(r) \/ CloseDone(r) \/ OnCloseReturns(r) \/ Resume(r) \/ Timeout(r)
  BY <1>5, SMT DEF DrainOk, CloseDone, OnCloseReturns, Resume, Timeout
<1>6. CASE task' = task /\ conn' = conn
  BY <1>6
<1> QED
  BY <1>1, <1>2, <1>3, <1>4, <1>5, <1>6
  DEF Next, vars, ConnStep, ReqStep, Establish, Opened, SetState, StartLoop, UserClose,
      UserCloseDone, ReadNotify, HandlerDone, ReadFail, LoopCloseDone, LoopOnCloseReturns,
      ReadResponse, reqVars

\* What is on the wire stays there until it is read, and reading it resolves the
\* future of a registered caller.
LEMMA WireKept ==
    ASSUME TableInv, [Next]_vars, NEW r \in Requests,
           Active(r), fut'[r] = "pending", fut[r] = "pending",
           conn[r] = curr, r \in wire[curr]
    PROVE  r \in wire'[curr]
<1> USE DEF TableInv, IInv, TypeOK
<1>0. curr \in Conns
  BY MultiplexAssumption, SMT DEF Placed, Active, Waiting, CloseStages, Conns
<1>1. ASSUME NEW g \in Conns, NEW q \in Requests, ReadResponse(g, q)
      PROVE  r \in wire'[curr]
  <2>1. CASE q = r
    <3>1. Addressee(q) = r
      BY <2>1 DEF Tracked, Addressee
    <3>2. fut'[r] = "result"
      BY <1>1, <3>1, MultiplexAssumption, SMT DEF ReadResponse
    <3> QED
      BY <3>2
  <2>2. CASE q # r
    BY <1>0, <1>1, <2>2, SMT DEF ReadResponse
  <2> QED
    BY <2>1, <2>2
<1>2. ASSUME NEW q \in Requests, Issue(q)
      PROVE  r \in wire'[curr]
  BY <1>0, <1>2, SMT DEF Issue, Write
<1>3. ASSUME NEW q \in Requests, GetLock(q)
      PROVE  r \in wire'[curr]
  BY <1>0, <1>3, SMT DEF GetLock, Write
<1>4. CASE wire' = wire
  BY <1>4
<1> QED
  BY <1>1, <1>2, <1>3, <1>4
  DEF Next, vars, ConnStep, ReqStep, Establish, Opened, SetState, StartLoop, UserClose,
      UserCloseDone, ReadNotify, HandlerDone, ReadFail, LoopCloseDone, LoopOnCloseReturns,
      DrainOk, DrainFail, CloseDone, OnCloseReturns, Resume, Timeout

LEMMA WrittenStep ==
    ASSUME ReachInv, [Next]_vars
    PROVE  Written'
<1> USE DEF ReachInv, ReaderInv, TableInv, IInv
<1> SUFFICES ASSUME NEW r \in Requests, Sent(r)'
             PROVE  /\ trans'[conn'[r]] # "opening"
                    /\ fut'[r] = "pending" /\ conn'[r] = curr' /\ trans'[curr'] = "open"
                         => r \in wire'[curr']
  BY DEF Written
<1>1. CASE Sent(r) /\ conn'[r] = conn[r]
  <2>1. Active(r) /\ task[r] # "idle" /\ conn[r] \in 1..curr
    BY <1>1 DEF Sent, Active, Waiting, Placed
  <2>2. trans'[conn'[r]] # "opening"
    BY <1>1, <2>1, OpensOnce DEF Written
  <2>3. ASSUME fut'[r] = "pending", conn'[r] = curr', trans'[curr'] = "open"
        PROVE  r \in wire'[curr']
    <3>1. curr' = curr
      BY <1>1, <2>1, <2>3, MultiplexAssumption, ConnEnds, CloserEnds, ReqEnds, SMT
      DEF Next, Establish, Issue, vars, OnlyEnds, TypeOK
    <3>2. trans[curr] = "open"
      BY <1>1, <2>1, <2>3, <3>1, OpensOnce DEF Written
    <3>3. fut[r] = "pending"
      <4>1. CASE \E q \in Requests : Issue(q)
        BY <1>1, <2>1, <2>3, <4>1, SMT DEF Issue, TypeOK
      <4>2. CASE \A q \in Requests : ~Issue(q)
        BY <2>3, <4>2, StaysSettled
      <4> QED
        BY <4>1, <4>2
    <3>4. r \in wire[curr]
      BY <1>1, <2>3, <3>1, <3>2, <3>3 DEF Written
    <3> QED
      BY <1>1, <2>1, <2>3, <3>1, <3>3, <3>4, WireKept
  <2> QED
    BY <2>2, <2>3
<1>2. CASE /\ trans'[conn'[r]] \in {"open", "closing"}
           /\ trans'[conn'[r]] = "open" => r \in wire'[conn'[r]]
  BY <1>2
<1> QED
  BY <1>1, <1>2, SendWrites

\* A caller that waits on the newest connection is registered, and as long as the
\* transport is open its answer is still to be read and the reader is there.
THEOREM CallersAreReachable == Spec => []PendingIsReachable
<1>1. Init => ReachInv
  <2>1. Init => Written
    BY SMT DEF Init, Written, Sent
  <2> QED
    BY <2>1, InitReader DEF ReachInv
<1>2. ReachInv /\ [Next]_vars => ReachInv'
  BY ReaderStep, WrittenStep DEF ReachInv
<1>3. ReachInv => PendingIsReachable
  <2> SUFFICES ASSUME ReachInv, NEW r \in Requests,
                      task[r] = "wait", fut[r] = "pending", conn[r] = curr
               PROVE  /\ pending[sid[r]] = r
                      /\ trans[curr] = "open" =>
                           /\ r \in wire[curr]
                           /\ loop[curr] \in {"off", "read", "notify", "killed"}
    BY DEF PendingIsReachable
  <2>1. Active(r) /\ Sent(r)
    BY DEF Active, Waiting, Sent
  <2>2. curr \in Conns
    <3>1. conn[r] \in 1..curr /\ curr \in 0..MaxConns
      BY DEF ReachInv, ReaderInv, TableInv, IInv, TypeOK, Placed
    <3> QED
      BY <3>1, MultiplexAssumption, SMT DEF Conns
  <2> QED
    BY <2>1, <2>2 DEF ReachInv, ReaderInv, TableInv, Tracked, Written, ConnInv
<1> QED
  BY <1>1, <1>2, <1>3, PTL DEF Spec
=============================================================================
