------------------------ MODULE ClientSessionProofs ------------------------
(***************************************************************************)
(* Theorems about ClientSession, for every number of tasks, connections,     *)
(* faults and events, whether or not the client may reconnect, and whether   *)
(* or not the read task starts before the handshake.                         *)
(*                                                                          *)
(* The steps compose operators on the state, so the lemmas are about states  *)
(* c and d, and the invariant is an operator on a state.  While task t is in *)
(* the middle of a step its place (at) means nothing: the predicates named   *)
(* ...But hold of what the other tasks do, and of what t carries along.      *)
(***************************************************************************)
EXTENDS ClientSession, FiniteSetTheorems, WellFoundedInduction, NaturalsInduction, TLAPS

Jobs == {"none", "connect", "disconnect", "request", "read", "beat", "redirect", "migrate"}
Places == {"off", "open", "nonce", "auth", "sleep", "closing", "interval", "pong", "answer",
           "read", "graceful", "endbeat", "endread"}
TaskState ==
    [job : Jobs, at : Places, g : {0} \cup Conns, own : {0} \cup Conns, depth : Nat]
State ==
    [running : BOOLEAN, conn : {0} \cup Conns,
     read : {0} \cup Background, beat : {0} \cup Background,
     st : [Conns -> {"DISCONNECTED", "PENDING", "AUTHENTICATING", "AUTHENTICATED", "CLOSING"}],
     sock : [Conns -> BOOLEAN], srv : [Conns -> {"none", "accepts", "refuses"}],
     task : [Tasks -> TaskState], faults : 0..MaxFaults, events : Nat, held : BOOLEAN, calm : BOOLEAN]

\* d is c but for the tasks; d is c but for task t, which is x.
Alike(c, d) ==
    /\ d.running = c.running /\ d.conn = c.conn /\ d.read = c.read /\ d.beat = c.beat
    /\ d.st = c.st /\ d.sock = c.sock /\ d.srv = c.srv
    /\ d.faults = c.faults /\ d.held = c.held /\ d.calm = c.calm
Becomes(c, d, t, x) == d \in State /\ Alike(c, d) /\ d.task = [c.task EXCEPT ![t] = x]

-----------------------------------------------------------------------------
(***************************************************************************)
(* The invariant.                                                           *)
(***************************************************************************)

\* What a task may be doing where it is.
Shape(x) ==
    /\ x.at = "off" => x = Off
    /\ x.own # 0 => x.at = "read" \/ x.job \in {"redirect", "migrate"}
    /\ x.at = "read" => x.job = "read" /\ x.depth = 0 /\ x.own # 0
    /\ x.at \in {"interval", "pong"} => x.job = "beat" /\ x.depth = 0
    /\ x.at = "answer" => x.job = "request" /\ x.depth = 0
    /\ x.at = "graceful" => x.job = "redirect" /\ x.depth = 0
    /\ x.at \in {"endbeat", "endread"} => x.job = "disconnect" /\ x.depth = 0
    /\ x.at \in {"open", "closing"} => x.g # 0
    /\ x.at = "sleep" => x.depth > 0
    /\ x.job = "redirect" => x.at \in {"graceful", "closing"} \/ x.depth > 0
    /\ ~ReaderFirst => x.at # "read" /\ x.job \notin {"redirect", "migrate"}

\* How deep it is in calls of close(), the one it awaits included: beyond the first
\* level, each has cost a failing send.
Level(x) == x.depth + (IF x.at = "closing" THEN 1 ELSE 0)

TaskOK(c, u) ==
    /\ Shape(c.task[u])
    /\ Level(c.task[u]) + c.faults <= MaxFaults + 1
    /\ c.task[u].at # "off" => c.conn # 0
    /\ c.task[u].at \in {"endbeat", "endread"} => u = App /\ ~c.running

Pointers(c) ==
    /\ c.read # 0 => c.task[c.read].job \in {"read", "redirect", "migrate"}
    /\ c.beat # 0 => c.task[c.beat].job = "beat"

Sound(c) == c \in State /\ Pointers(c) /\ \A u \in Tasks : TaskOK(c, u)

\* Task u will see to it that the client has a connection: it is inside a close(),
\* or the connection it reads is alive.
Anchored(c, u) == c.task[u].depth > 0 \/ Connected(c, c.task[u].own)
Committed(c, u) == c.task[u].at = "closing" \/ Anchored(c, u)
Keep(c) == AutoReconnect /\ c.running /\ c.held => \E u \in Tasks : Committed(c, u)

\* In a calm history at most one task drives the connection: the one that reads it,
\* closes it, waits to reconnect or opens the next one; and disconnect() while it awaits
\* the end of the task that it has cancelled.
Driving(x) ==
    \/ x.at \in {"open", "sleep", "closing", "read", "endread"}
    \/ ~ReaderFirst /\ x.at = "nonce"

\* When the client stops, only disconnect() drives, and the read task until
\* disconnect() comes to cancel it.
MayDrive(c, T, t) ==
    \/ c.running
    \/ t = App /\ c.task[t].at \in {"closing", "endread"}
    \/ App \in T \ {t} /\ c.task[App].at = "endbeat" /\ c.task[t].at \in {"read", "closing"}

\* The clauses of that for the tasks of T.
OneDriver(c, T) ==
    /\ \A t, u \in T : Driving(c.task[t]) /\ Driving(c.task[u]) => t = u
    /\ \A t \in T : Driving(c.task[t]) => (t = App \/ t = c.read) /\ MayDrive(c, T, t)
OnCurrent(c, T) ==
    \A t \in T :
        /\ c.task[t].at = "read" =>
               c.task[t].own = c.conn /\ c.sock[c.conn] /\ Connected(c, c.conn)
        /\ c.task[t].at \in {"open", "closing"} => c.task[t].g = c.conn
        /\ c.task[t].at = "closing" => c.task[t].depth = 0
Modest(c) ==
    \A t \in Tasks : c.task[t].depth <= 1 /\ c.task[t].job \notin {"redirect", "migrate"}
SocketsDriven(c, T) ==
    \A g \in Conns : c.sock[g] =>
        /\ g = c.conn /\ c.st[g] # "DISCONNECTED"
        /\ \E t \in T : Driving(c.task[t]) /\ c.task[t].at \notin {"open", "sleep"}
Granted(c) ==
    \A g \in Conns : c.st[g] = "AUTHENTICATED" => c.sock[g] /\ c.srv[g] = "accepts"
Calm(c, T) ==
    OneDriver(c, T) /\ OnCurrent(c, T) /\ Modest(c) /\ SocketsDriven(c, T) /\ Granted(c)

Inv(c) == Sound(c) /\ Keep(c) /\ (c.calm => Calm(c, Tasks))

Others(t) == Tasks \ {t}

\* The same in the middle of a step of t
SoundBut(c, t) ==
    /\ c \in State /\ Pointers(c)
    /\ \A u \in Tasks \ {t} : TaskOK(c, u)
    /\ c.task[t].own # 0 => c.task[t].job \in {"redirect", "migrate"}
    /\ ~ReaderFirst => c.task[t].job \notin {"redirect", "migrate"}
    /\ c.task[t].depth + c.faults <= MaxFaults + 1
KeepBut(c, t) ==
    AutoReconnect /\ c.running /\ c.held => Anchored(c, t) \/ \E u \in Tasks \ {t} : Committed(c, u)
KeepOthers(c, t) == AutoReconnect /\ c.running /\ c.held => \E u \in Others(t) : Committed(c, u)

\* No other task drives, and t is one that may.
Alone(c, t) ==
    /\ \A u \in Others(t) : ~Driving(c.task[u])
    /\ t = App \/ t = c.read

LEMMA Numbers ==
    /\ Conns \subseteq Nat \ {0} /\ Background \subseteq Nat \ {0}
    /\ Background \subseteq Tasks /\ App \in Tasks /\ Caller \in Tasks
    /\ App # Caller /\ 0 \notin Tasks /\ App \notin Background /\ Caller \notin Background
<1>1. MaxTasks \in Nat /\ MaxConns \in Nat
  BY SessionAssumption
<1>2. Conns \subseteq Nat \ {0} /\ Background \subseteq Nat \ {0} /\ Background \subseteq 0..MaxTasks
  BY <1>1 DEF Conns, Background
<1>3. App # Caller /\ App \notin 0..MaxTasks /\ Caller \notin 0..MaxTasks /\ 0 \in 0..MaxTasks
  BY <1>1, SessionAssumption
<1> QED BY <1>2, <1>3 DEF Tasks

-----------------------------------------------------------------------------
(***************************************************************************)
(* The parts of the invariant when task t comes to rest as x.               *)
(***************************************************************************)

LEMMA RestSound ==
    ASSUME NEW c, NEW t \in Tasks, NEW d, NEW x \in TaskState,
           SoundBut(c, t), Becomes(c, d, t, x), Shape(x), c.conn # 0,
           Level(x) + c.faults <= MaxFaults + 1,
           x.job = c.task[t].job \/ {x.job, c.task[t].job} \subseteq {"read", "redirect", "migrate"},
           x.at \in {"endbeat", "endread"} => t = App /\ ~c.running
    PROVE  Sound(d)
<1>1. c.task \in [Tasks -> TaskState] /\ c.read \in {0} \cup Background /\ c.beat \in {0} \cup Background
  BY DEF SoundBut, State
<1>2. d.task[t] = x /\ \A u \in Tasks \ {t} : d.task[u] = c.task[u]
  BY <1>1 DEF Becomes
<1>3. \A u \in Tasks : TaskOK(d, u)
  <2> TAKE u \in Tasks
  <2>1. CASE u = t
    BY <1>2, <2>1 DEF SoundBut, Becomes, Alike, TaskOK
  <2>2. CASE u # t
    BY <1>2, <2>2 DEF SoundBut, Becomes, Alike, TaskOK
  <2> QED BY <2>1, <2>2
<1>4. Background \subseteq Tasks
  BY DEF Tasks
<1>5. Pointers(d)
  BY <1>1, <1>2, <1>4 DEF SoundBut, Becomes, Alike, Pointers
<1> QED BY <1>3, <1>5 DEF Becomes, Sound

LEMMA RestKeep ==
    ASSUME NEW c \in State, NEW t \in Tasks, NEW d, NEW x \in TaskState,
           KeepBut(c, t), Becomes(c, d, t, x),
           Anchored(c, t) => x.at = "closing" \/ x.depth > 0 \/ Connected(c, x.own)
    PROVE  Keep(d)
<1>1. c.task \in [Tasks -> TaskState]
  BY DEF State
<1>2. d.task[t] = x /\ \A u \in Tasks \ {t} : d.task[u] = c.task[u]
  BY <1>1 DEF Becomes
<1>3. \A g : Connected(d, g) <=> Connected(c, g)
  BY DEF Becomes, Alike, Connected
<1>4. Anchored(c, t) => Committed(d, t)
  BY <1>2, <1>3 DEF Committed, Anchored
<1>5. \A u \in Tasks \ {t} : Committed(c, u) => Committed(d, u)
  BY <1>2, <1>3 DEF Committed, Anchored
<1> QED BY <1>4, <1>5 DEF KeepBut, Keep, Becomes, Alike

LEMMA RestCalm ==
    ASSUME NEW c \in State, NEW t \in Tasks, NEW d, NEW x \in TaskState,
           Becomes(c, d, t, x),
           OneDriver(c, Others(t)), OnCurrent(c, Others(t)), Modest(c), Granted(c),
           \/ SocketsDriven(c, Others(t))
           \/ /\ Driving(x) /\ x.at \notin {"open", "sleep"}
              /\ \A g \in Conns : c.sock[g] => g = c.conn /\ c.st[g] # "DISCONNECTED",
           x.depth <= 1, x.job \notin {"redirect", "migrate"},
           Driving(x) =>
               /\ Alone(c, t)
               /\ \/ c.running
                  \/ t = App /\ x.at \in {"closing", "endread"}
                  \/ t # App /\ c.task[App].at = "endbeat" /\ x.at \in {"read", "closing"},
           x.at = "read" => x.own = c.conn /\ c.sock[c.conn] /\ Connected(c, c.conn),
           x.at \in {"open", "closing"} => x.g = c.conn,
           x.at = "closing" => x.depth = 0
    PROVE  Calm(d, Tasks)
<1>1. c.task \in [Tasks -> TaskState]
  BY DEF State
<1>2. d.task[t] = x /\ \A u \in Others(t) : d.task[u] = c.task[u]
  BY <1>1 DEF Becomes, Others
<1>3. OneDriver(d, Tasks)
  <2>1. ASSUME NEW u \in Tasks, NEW v \in Tasks, Driving(d.task[u]), Driving(d.task[v])
        PROVE  u = v
    <3>1. CASE u = t \/ v = t
      BY <1>2, <2>1, <3>1 DEF Alone, Others
    <3>2. CASE u # t /\ v # t
      BY <1>2, <2>1, <3>2 DEF Calm, OneDriver, Others
    <3> QED BY <3>1, <3>2
  <2>2. ASSUME NEW u \in Tasks, Driving(d.task[u])
        PROVE  (u = App \/ u = d.read) /\ MayDrive(d, Tasks, u)
    <3>1. CASE u = t
      BY <1>2, <2>2, <3>1, Numbers DEF Alone, Becomes, Alike, MayDrive, Others
    <3>2. CASE u # t
      BY <1>2, <2>2, <3>2 DEF OneDriver, MayDrive, Others, Becomes, Alike
    <3> QED BY <3>1, <3>2
  <2> QED BY <2>1, <2>2 DEF OneDriver
<1>4. OnCurrent(d, Tasks)
  <2> SUFFICES ASSUME NEW u \in Tasks
               PROVE  /\ d.task[u].at = "read" =>
                            d.task[u].own = d.conn /\ d.sock[d.conn] /\ Connected(d, d.conn)
                      /\ d.task[u].at \in {"open", "closing"} => d.task[u].g = d.conn
                      /\ d.task[u].at = "closing" => d.task[u].depth = 0
    BY DEF OnCurrent
  <2>1. CASE u = t
    BY <1>2, <2>1 DEF Becomes, Alike, Connected
  <2>2. CASE u # t
    BY <1>2, <2>2 DEF Calm, OnCurrent, Others, Becomes, Alike, Connected
  <2> QED BY <2>1, <2>2
<1>5. Modest(d)
  BY <1>2 DEF Calm, Modest, Others
<1>6. SocketsDriven(d, Tasks)
  BY <1>2 DEF Calm, SocketsDriven, Others, Becomes, Alike
<1>7. Granted(d)
  BY DEF Calm, Granted, Becomes, Alike
<1> QED BY <1>3, <1>4, <1>5, <1>6, <1>7 DEF Calm

-----------------------------------------------------------------------------
(***************************************************************************)
(* Which task, which connection                                             *)
(***************************************************************************)

\* A set of numbers that has a member has a smallest one.
LEMMA MinIsMember ==
    ASSUME NEW S \in SUBSET Nat, S # {}
    PROVE  Min(S) \in S
<1> DEFINE R == {p \in Nat \X Nat : p[1] < p[2]}
<1>1. IsWellFoundedOn(R, Nat)
  BY NatLessThanWellFounded, Zenon DEF OpToRel
<1>2. PICK m \in S : \A y \in S : ~ (<<y, m>> \in R)
  BY <1>1, WFMin, Zenon
<1>3. ASSUME NEW y \in S PROVE m <= y
  <2>1. y \in Nat /\ m \in Nat
    OBVIOUS
  <2>2. y < m => <<y, m>> \in R
    BY <2>1, Zenon
  <2> HIDE DEF R
  <2> QED BY <1>2, <2>1, <2>2, SMT
<1> QED BY <1>2, <1>3, Zenon DEF Min

LEMMA IdleMember ==
    ASSUME NEW c, Idle(c) # {}
    PROVE  Min(Idle(c)) \in Background /\ c.task[Min(Idle(c))].at = "off"
<1>1. Idle(c) \subseteq Nat
  BY Numbers DEF Idle
<1>2. Min(Idle(c)) \in Idle(c)
  BY <1>1, MinIsMember
<1> QED BY <1>2 DEF Idle, Live

\* There is a connection object that no task refers to.
Room(c) == \E g \in Conns : \A u \in Tasks : g \notin {c.task[u].g, c.task[u].own}

LEMMA RoomUnused ==
    ASSUME NEW c
    PROVE  Room(c) <=> Unused(c) # {}
BY DEF Room, Unused

LEMMA UnusedMember ==
    ASSUME NEW c, Room(c)
    PROVE  /\ Min(Unused(c)) \in Conns
           /\ \A u \in Tasks : Min(Unused(c)) # c.task[u].g /\ Min(Unused(c)) # c.task[u].own
<1>1. Unused(c) \subseteq Conns /\ Unused(c) # {}
  BY RoomUnused DEF Unused
<1>2. Min(Unused(c)) \in Unused(c)
  BY <1>1, Numbers, MinIsMember
<1>3. \A g \in Unused(c) : \A u \in Tasks : g \notin {c.task[u].g, c.task[u].own}
  BY DEF Unused
<1> QED BY <1>1, <1>2, <1>3

-----------------------------------------------------------------------------
(***************************************************************************)
(* A task ends.                                                             *)
(***************************************************************************)

\* d is c after task t has ended.
Ended(c, d, t) ==
    /\ d \in State
    /\ d.task = [c.task EXCEPT ![t] = Off]
    /\ d.read = (IF c.read = t THEN 0 ELSE c.read)
    /\ d.beat = (IF c.beat = t THEN 0 ELSE c.beat)
    /\ d.running = c.running /\ d.conn = c.conn
    /\ d.st = c.st /\ d.sock = c.sock /\ d.srv = c.srv
    /\ d.faults = c.faults /\ d.events = c.events
    /\ d.held = c.held /\ d.calm = c.calm

LEMMA EndEffect ==
    ASSUME NEW c \in State, NEW t \in Tasks
    PROVE  Ended(c, End(c, t), t)
<1>1. Off \in TaskState
  BY DEF Off, TaskState, Jobs, Places
<1>2. End(c, t) = [c EXCEPT !.task = [c.task EXCEPT ![t] = Off],
                            !.read = IF c.read = t THEN 0 ELSE c.read,
                            !.beat = IF c.beat = t THEN 0 ELSE c.beat]
  BY Numbers DEF End, State
<1>3. [c.task EXCEPT ![t] = Off] \in [Tasks -> TaskState]
  BY <1>1 DEF State
<1>4. /\ (IF c.read = t THEN 0 ELSE c.read) \in {0} \cup Background
      /\ (IF c.beat = t THEN 0 ELSE c.beat) \in {0} \cup Background
  BY DEF State
<1> DEFINE d == End(c, t)
<1> HIDE DEF d
<1>5. d = [c EXCEPT !.task = [c.task EXCEPT ![t] = Off],
                    !.read = IF c.read = t THEN 0 ELSE c.read,
                    !.beat = IF c.beat = t THEN 0 ELSE c.beat]
  BY <1>2 DEF d
<1>6. Ended(c, d, t)
  BY <1>3, <1>4, <1>5 DEF State, Ended
<1> QED BY <1>6 DEF d

LEMMA EndSound ==
    ASSUME NEW c, NEW t \in Tasks, SoundBut(c, t)
    PROVE  Sound(End(c, t))
<1> DEFINE d == End(c, t)
<1>1. c \in State /\ c.task \in [Tasks -> TaskState]
  BY DEF SoundBut, State
<1>2. Ended(c, d, t)
  BY <1>1, EndEffect
<1> HIDE DEF d
<1>3. /\ d \in State /\ d.faults = c.faults /\ d.conn = c.conn /\ d.running = c.running
      /\ d.task = [c.task EXCEPT ![t] = Off]
  BY <1>2 DEF Ended
<1>4. /\ d.read = IF c.read = t THEN 0 ELSE c.read
      /\ d.beat = IF c.beat = t THEN 0 ELSE c.beat
  BY <1>2 DEF Ended
<1>5. c.read \in {0} \cup Tasks /\ c.beat \in {0} \cup Tasks
  BY <1>1, Numbers DEF State
<1>6. Pointers(d)
  BY <1>1, <1>3, <1>4, <1>5, Numbers DEF Pointers, SoundBut
<1>7. c.task[t].depth \in Nat /\ c.faults \in Nat /\ MaxFaults \in Nat
  BY <1>1, SessionAssumption DEF State, TaskState
<1>8. TaskOK(d, t)
  BY <1>1, <1>3, <1>7 DEF TaskOK, Shape, Level, Off, SoundBut
<1>9. \A u \in Tasks \ {t} : TaskOK(d, u)
  BY <1>1, <1>3 DEF TaskOK, SoundBut
<1> QED BY <1>3, <1>6, <1>8, <1>9 DEF Sound, d

LEMMA EndInv ==
    ASSUME NEW c, NEW t \in Tasks, SoundBut(c, t), KeepOthers(c, t),
           c.calm => Calm(c, Others(t))
    PROVE  Inv(End(c, t))
<1> DEFINE d == End(c, t)
<1>1. c \in State /\ c.task \in [Tasks -> TaskState]
  BY DEF SoundBut, State
<1>0. Ended(c, d, t)
  BY <1>1, EndEffect
<1>2. d.task[t] = Off /\ \A u \in Others(t) : d.task[u] = c.task[u]
  BY <1>0, <1>1 DEF Others, Ended
<1>3. /\ d.running = c.running /\ d.conn = c.conn /\ d.st = c.st /\ d.sock = c.sock
      /\ d.srv = c.srv /\ d.held = c.held /\ d.calm = c.calm
      /\ c.read # t => d.read = c.read
  <2> HIDE DEF d
  <2> QED BY <1>0 DEF Ended
<1>4. Sound(d)
  BY EndSound
<1> HIDE DEF d
<1>5. Keep(d)
  BY <1>2, <1>3 DEF Keep, KeepOthers, Committed, Anchored, Connected, Others
<1>6. ~Driving(Off) /\ Off.at = "off" /\ Off.depth = 0 /\ Off.job = "none"
  BY DEF Driving, Off
<1>7. ASSUME c.calm PROVE Calm(d, Tasks)
  <2>1. Calm(c, Others(t))
    BY <1>7
  <2>2. OneDriver(d, Tasks)
    BY <1>2, <1>3, <1>6, <2>1 DEF Calm, OneDriver, MayDrive, Others
  <2>3. OnCurrent(d, Tasks)
    BY <1>2, <1>3, <1>6, <2>1 DEF Calm, OnCurrent, Others, Connected
  <2>4. Modest(d)
    BY <1>2, <1>6, <2>1 DEF Calm, Modest, Others
  <2>5. SocketsDriven(d, Tasks)
    BY <1>2, <1>3, <2>1 DEF Calm, SocketsDriven, Others
  <2>6. Granted(d)
    BY <1>3, <2>1 DEF Calm, Granted
  <2> QED BY <2>2, <2>3, <2>4, <2>5, <2>6 DEF Calm
<1> QED BY <1>3, <1>4, <1>5, <1>7 DEF Inv, d

-----------------------------------------------------------------------------
(***************************************************************************)
(* A task opens a connection.                                               *)
(***************************************************************************)

LEMMA AwaitEffect ==
    ASSUME NEW c \in State, NEW t \in Tasks, NEW at \in Places, NEW g \in {0} \cup Conns
    PROVE  /\ [c.task[t] EXCEPT !.at = at, !.g = g] \in TaskState
           /\ Becomes(c, Await(c, t, at, g), t, [c.task[t] EXCEPT !.at = at, !.g = g])
<1> DEFINE x == [c.task[t] EXCEPT !.at = at, !.g = g]
<1>1. c.task \in [Tasks -> TaskState]
  BY DEF State
<1>2. x \in TaskState /\ [c.task EXCEPT ![t] = x] \in [Tasks -> TaskState]
  BY <1>1 DEF TaskState
<1>3. Await(c, t, at, g) = [c EXCEPT !.task = [c.task EXCEPT ![t] = x]]
  BY <1>1 DEF Await, State, TaskState
<1> QED BY <1>2, <1>3 DEF Becomes, Alike, State

LEMMA EstablishEffect ==
    ASSUME NEW c \in State, NEW t \in Tasks, Room(c)
    PROVE  LET g == Min(Unused(c))
               d == Establish(c, t)
           IN  /\ d \in State
               /\ d.task = [c.task EXCEPT ![t] = [c.task[t] EXCEPT !.at = "open", !.g = g]]
               /\ d.conn = g /\ d.st = [c.st EXCEPT ![g] = "DISCONNECTED"]
               /\ d.sock = [c.sock EXCEPT ![g] = FALSE] /\ d.srv = [c.srv EXCEPT ![g] = "none"]
               /\ d.running = c.running /\ d.read = c.read /\ d.beat = c.beat
               /\ d.faults = c.faults /\ d.held = c.held /\ d.calm = c.calm
<1> DEFINE g == Min(Unused(c))
           a == Await(c, t, "open", g)
<1>1. g \in Conns
  BY UnusedMember
<1> HIDE DEF g
<1>2. Becomes(c, a, t, [c.task[t] EXCEPT !.at = "open", !.g = g])
  BY <1>1, AwaitEffect DEF Places
<1>3. Establish(c, t) = [a EXCEPT !.conn = g, !.st[g] = "DISCONNECTED",
                                  !.sock[g] = FALSE, !.srv[g] = "none"]
  BY DEF Establish, g
<1> HIDE DEF a
<1>4. a \in State
  BY <1>2 DEF Becomes
<1>5. /\ [c.st EXCEPT ![g] = "DISCONNECTED"] \in
            [Conns -> {"DISCONNECTED", "PENDING", "AUTHENTICATING", "AUTHENTICATED", "CLOSING"}]
      /\ [c.sock EXCEPT ![g] = FALSE] \in [Conns -> BOOLEAN]
      /\ [c.srv EXCEPT ![g] = "none"] \in [Conns -> {"none", "accepts", "refuses"}]
  BY <1>1 DEF State
<1>6. Establish(c, t) = [a EXCEPT !.conn = g, !.st = [c.st EXCEPT ![g] = "DISCONNECTED"],
                                  !.sock = [c.sock EXCEPT ![g] = FALSE],
                                  !.srv = [c.srv EXCEPT ![g] = "none"]]
  BY <1>2, <1>3, <1>4 DEF Becomes, Alike, State
<1> DEFINE d == Establish(c, t)
<1>7. d \in State
  <2> DEFINE st == [c.st EXCEPT ![g] = "DISCONNECTED"]
             sock == [c.sock EXCEPT ![g] = FALSE]
             srv == [c.srv EXCEPT ![g] = "none"]
  <2> HIDE DEF st, sock, srv
  <2>1. d = [a EXCEPT !.conn = g, !.st = st, !.sock = sock, !.srv = srv]
    BY <1>6 DEF st, sock, srv
  <2>2. /\ g \in {0} \cup Conns
        /\ st \in [Conns -> {"DISCONNECTED", "PENDING", "AUTHENTICATING", "AUTHENTICATED", "CLOSING"}]
        /\ sock \in [Conns -> BOOLEAN] /\ srv \in [Conns -> {"none", "accepts", "refuses"}]
    BY <1>1, <1>5 DEF st, sock, srv
  <2> HIDE DEF d
  <2> QED BY <1>4, <2>1, <2>2 DEF State
<1>8. /\ d.task = a.task /\ d.conn = g /\ d.st = [c.st EXCEPT ![g] = "DISCONNECTED"]
      /\ d.sock = [c.sock EXCEPT ![g] = FALSE] /\ d.srv = [c.srv EXCEPT ![g] = "none"]
      /\ d.running = a.running /\ d.read = a.read /\ d.beat = a.beat
      /\ d.faults = a.faults /\ d.held = a.held /\ d.calm = a.calm
  BY <1>4, <1>6 DEF State
<1> HIDE DEF d
<1> QED BY <1>2, <1>7, <1>8 DEF Becomes, Alike, g, d

LEMMA EstablishInv ==
    ASSUME NEW c, NEW t \in Tasks, SoundBut(c, t), KeepBut(c, t), Room(c),
           c.task[t].job = "redirect" => c.task[t].depth > 0,
           c.calm => Calm(c, Others(t)) /\ Alone(c, t) /\ c.running
    PROVE  Inv(Establish(c, t))
<1> DEFINE g == Min(Unused(c))
           d == Establish(c, t)
           x == [c.task[t] EXCEPT !.at = "open", !.g = g]
<1>1. c \in State /\ c.task \in [Tasks -> TaskState]
  BY DEF SoundBut, State
<1>2. g \in Conns /\ \A u \in Tasks : g # c.task[u].g /\ g # c.task[u].own
  BY UnusedMember
<1>3. /\ d \in State /\ d.task = [c.task EXCEPT ![t] = x]
      /\ d.conn = g /\ d.st = [c.st EXCEPT ![g] = "DISCONNECTED"]
      /\ d.sock = [c.sock EXCEPT ![g] = FALSE] /\ d.srv = [c.srv EXCEPT ![g] = "none"]
      /\ d.running = c.running /\ d.read = c.read /\ d.beat = c.beat
      /\ d.faults = c.faults /\ d.held = c.held /\ d.calm = c.calm
  BY <1>1, EstablishEffect
<1> HIDE DEF d, g
<1>4. /\ x.at = "open" /\ x.g = g /\ x.job = c.task[t].job /\ x.own = c.task[t].own
      /\ x.depth = c.task[t].depth
  BY <1>1 DEF TaskState
<1> HIDE DEF x
<1>5. d.task[t] = x /\ \A u \in Others(t) : d.task[u] = c.task[u]
  BY <1>1, <1>3 DEF Others
<1>6. g # 0
  BY <1>2, Numbers
<1>7. Sound(d)
  <2>1. TaskOK(d, t)
    <3>1. c.task[t].depth \in Nat
      BY <1>1 DEF TaskState
    <3>2. Shape(x) /\ Level(x) + c.faults <= MaxFaults + 1
      BY <1>1, <1>4, <1>6, <3>1, SessionAssumption DEF Shape, Level, SoundBut, State
    <3> QED BY <1>3, <1>4, <1>5, <1>6, <3>2 DEF TaskOK
  <2>2. \A u \in Others(t) : TaskOK(d, u)
    BY <1>3, <1>5, <1>6 DEF TaskOK, SoundBut, Others
  <2>3. Pointers(d)
    BY <1>1, <1>3, <1>4, <1>5, Numbers DEF Pointers, SoundBut, State, Others
  <2> QED BY <1>3, <2>1, <2>2, <2>3 DEF Sound, Others
<1>8. Keep(d)
  <2>1. \A u \in Tasks : Connected(c, c.task[u].own) => Connected(d, c.task[u].own)
    <3> TAKE u \in Tasks
    <3>1. c.task[u].own \in {0} \cup Conns /\ c.task[u].own # g /\ c.st \in [Conns ->
             {"DISCONNECTED", "PENDING", "AUTHENTICATING", "AUTHENTICATED", "CLOSING"}]
      BY <1>1, <1>2 DEF TaskState, State
    <3> QED BY <1>2, <1>3, <3>1 DEF Connected
  <2>2. Anchored(c, t) => Committed(d, t)
    BY <1>4, <1>5, <2>1 DEF Anchored, Committed
  <2>3. \A u \in Others(t) : Committed(c, u) => Committed(d, u)
    BY <1>5, <2>1 DEF Anchored, Committed, Others
  <2> QED BY <1>3, <2>2, <2>3 DEF Keep, KeepBut, Others
<1>9. ASSUME c.calm PROVE Calm(d, Tasks)
  <2>1. Calm(c, Others(t)) /\ Alone(c, t) /\ c.running
    BY <1>9
  <2>2. \A u \in Tasks : Driving(d.task[u]) => u = t
    BY <1>5, <2>1 DEF Alone, Others
  <2>3. OneDriver(d, Tasks)
    BY <1>3, <2>1, <2>2 DEF OneDriver, MayDrive, Alone
  <2>4. OnCurrent(d, Tasks)
    BY <1>3, <1>4, <1>5, <2>2 DEF OnCurrent, Driving
  <2>5. Modest(d)
    BY <1>4, <1>5, <2>1 DEF Calm, Modest, Others
  <2>6. \A h \in Conns : ~c.sock[h]
    BY <2>1 DEF Calm, SocketsDriven, Alone
  <2>7. \A h \in Conns : ~d.sock[h]
    BY <1>1, <1>2, <1>3, <2>6 DEF State
  <2>8. \A h \in Conns : d.st[h] # "AUTHENTICATED"
    BY <1>1, <1>2, <1>3, <2>1, <2>6 DEF State, Calm, Granted
  <2> QED BY <2>3, <2>4, <2>5, <2>7, <2>8 DEF Calm, SocketsDriven, Granted
<1> QED BY <1>3, <1>7, <1>8, <1>9 DEF Inv, d

-----------------------------------------------------------------------------
(***************************************************************************)
(* What a call returns to.                                                  *)
(***************************************************************************)

\* Two fields of a task that change are one task that changes.
Edited(y, j, n) == [y EXCEPT !.job = j, !.depth = n]
EditedIn(c, t, j, n) == [c EXCEPT !.task[t].job = j, !.task[t].depth = n]

LEMMA EditEffect ==
    ASSUME NEW c \in State, NEW t \in Tasks, NEW j \in Jobs, NEW n \in Nat
    PROVE  Becomes(c, EditedIn(c, t, j, n), t, Edited(c.task[t], j, n))
<1> DEFINE y == [c.task[t] EXCEPT !.job = j]
           x == Edited(c.task[t], j, n)
           f == [c.task EXCEPT ![t] = y]
           g == [c.task EXCEPT ![t] = x]
           d == EditedIn(c, t, j, n)
<1>1. c.task[t] \in TaskState /\ c.task \in [Tasks -> TaskState]
  BY DEF State
<1>2. x = [y EXCEPT !.depth = n] /\ x \in TaskState
  BY <1>1 DEF TaskState, Edited
<1>3. [f EXCEPT ![t].depth = n] = g
  <2>1. f[t] = y
    BY <1>1
  <2> HIDE DEF x, y
  <2> QED BY <1>2, <2>1
<1>4. [c EXCEPT !.task[t].job = j] = [c EXCEPT !.task = f]
  BY DEF State
<1>5. g \in [Tasks -> TaskState]
  <2> HIDE DEF x
  <2> QED BY <1>1, <1>2
<1> HIDE DEF f, g
<1>6. d = [c EXCEPT !.task = g]
  BY <1>3, <1>4 DEF State, EditedIn
<1> HIDE DEF d
<1>7. d \in State /\ Alike(c, d) /\ d.task = g
  BY <1>5, <1>6 DEF Alike, State
<1> QED BY <1>7 DEF Becomes, g, d

LEMMA ReadNextInv ==
    ASSUME NEW c, NEW t \in Tasks, SoundBut(c, t), c.conn # 0, KeepBut(c, t),
           c.running => c.task[t].depth = 0, c.task[t].job \in {"redirect", "migrate"},
           c.calm => Calm(c, Others(t))
    PROVE  Inv(ReadNext(c, t))
<1>1. c \in State /\ c.task \in [Tasks -> TaskState] /\ c.faults \in Nat /\ MaxFaults \in Nat
  BY SessionAssumption DEF SoundBut, State
<1>2. ~c.calm
  BY DEF Calm, Modest
<1>3. CASE Connected(c, c.task[t].own)
  <2> DEFINE a == Await(c, t, "read", 0)
             d == ReadNext(c, t)
             x == [c.task[t] EXCEPT !.at = "read", !.g = 0, !.job = "read", !.depth = 0]
  <2>1. Becomes(c, a, t, [c.task[t] EXCEPT !.at = "read", !.g = 0])
    BY <1>1, AwaitEffect DEF Places
  <2> HIDE DEF a
  <2>2. d = EditedIn(a, t, "read", 0)
    BY <1>3 DEF ReadNext, EditedIn, a
  <2> DEFINE y == [c.task[t] EXCEPT !.at = "read", !.g = 0]
  <2>3. x \in TaskState /\ x = Edited(y, "read", 0)
    <3>1. "read" \in Jobs /\ "read" \in Places
      BY DEF Jobs, Places
    <3> QED BY <1>1, <3>1 DEF TaskState, Edited
  <2> HIDE DEF d, x, y
  <2>4. a \in State /\ a.task = [c.task EXCEPT ![t] = y] /\ a.task[t] = y
    BY <1>1, <2>1 DEF Becomes, y
  <2>5. Becomes(a, d, t, x)
    <3>1. "read" \in Jobs /\ 0 \in Nat
      BY DEF Jobs
    <3> QED BY <2>2, <2>3, <2>4, <3>1, EditEffect
  <2>6. Becomes(c, d, t, x)
    <3>1. [a.task EXCEPT ![t] = x] = [c.task EXCEPT ![t] = x]
      BY <1>1, <2>4
    <3> QED BY <2>1, <2>5, <3>1 DEF Becomes, Alike
  <2>7. /\ x.at = "read" /\ x.g = 0 /\ x.job = "read" /\ x.depth = 0 /\ x.own = c.task[t].own
    BY <1>1 DEF TaskState, x
  <2>8. x.own # 0
    BY <1>3, <2>7 DEF Connected
  <2>9. Sound(d)
    <3>1. Shape(x) /\ Level(x) + c.faults <= MaxFaults + 1
      <4>1. c.task[t].depth \in Nat
        BY <1>1 DEF TaskState
      <4> QED BY <1>1, <2>7, <2>8, <4>1 DEF Shape, Level, SoundBut
    <3> QED BY <2>3, <2>6, <2>7, <3>1, RestSound
  <2>10. Keep(d)
    BY <1>1, <1>3, <2>3, <2>6, <2>7, RestKeep
  <2> QED BY <1>2, <2>6, <2>9, <2>10 DEF Inv, Becomes, Alike, d
<1>4. CASE ~Connected(c, c.task[t].own)
  <2>1. ReadNext(c, t) = End(c, t)
    BY <1>4 DEF ReadNext
  <2>2. KeepOthers(c, t)
    <3>1. c.running => ~Anchored(c, t)
      BY <1>1, <1>4 DEF Anchored, TaskState
    <3> QED BY <3>1 DEF KeepOthers, KeepBut, Others
  <2> QED BY <1>2, <2>1, <2>2, EndInv
<1> QED BY <1>3, <1>4

LEMMA BaseInv ==
    ASSUME NEW c, NEW t \in Tasks, SoundBut(c, t), c.conn # 0, KeepBut(c, t),
           c.running => c.task[t].depth = 0,
           c.running /\ c.task[t].job = "redirect" => Room(c),
           c.calm => Calm(c, Others(t))
    PROVE  Inv(Base(c, t))
<1>1. c \in State /\ c.task \in [Tasks -> TaskState] /\ c.faults \in Nat /\ MaxFaults \in Nat
  BY SessionAssumption DEF SoundBut, State
<1>2. CASE c.task[t].job = "redirect" /\ c.running
  <2> DEFINE x == [c.task[t] EXCEPT !.job = "migrate", !.depth = 0]
             d == [c EXCEPT !.task[t].job = "migrate", !.task[t].depth = 0]
  <2>1. x \in TaskState
    BY <1>1 DEF TaskState, Jobs
  <2>2. Becomes(c, d, t, x)
    <3>1. d = EditedIn(c, t, "migrate", 0) /\ x = Edited(c.task[t], "migrate", 0)
      BY DEF EditedIn, Edited
    <3>2. "migrate" \in Jobs /\ 0 \in Nat
      BY DEF Jobs
    <3> HIDE DEF d, x
    <3> QED BY <1>1, <3>1, <3>2, EditEffect
  <2>3. x.job = "migrate" /\ x.depth = 0 /\ x.own = c.task[t].own /\ x.g = c.task[t].g
    BY <1>1 DEF TaskState
  <2>4. Base(c, t) = Establish(d, t)
    BY <1>2 DEF Base
  <2> HIDE DEF d, x
  <2>5. d.task[t] = x /\ \A u \in Others(t) : d.task[u] = c.task[u]
    BY <1>1, <2>2 DEF Becomes, Others
  <2>6. ~c.calm /\ ~d.calm
    BY <1>2, <2>2 DEF Calm, Modest, Becomes, Alike
  <2>7. SoundBut(d, t)
    <3>1. Pointers(d)
      BY <1>1, <1>2, <2>2, <2>3, <2>5, Numbers DEF Pointers, SoundBut, Becomes, Alike, State, Others
    <3>2. \A u \in Tasks \ {t} : TaskOK(d, u)
      BY <2>2, <2>5 DEF TaskOK, SoundBut, Becomes, Alike, Others
    <3> QED BY <1>1, <1>2, <2>2, <2>3, <2>5, <3>1, <3>2 DEF SoundBut, Becomes, Alike, TaskState
  <2>8. KeepBut(d, t)
    <3>1. \A g : Connected(d, g) <=> Connected(c, g)
      BY <2>2 DEF Becomes, Alike, Connected
    <3>2. Anchored(c, t) => Anchored(d, t)
      BY <1>2, <2>3, <2>5, <3>1 DEF Anchored
    <3>3. \A u \in Others(t) : Committed(c, u) => Committed(d, u)
      BY <2>5, <3>1 DEF Anchored, Committed
    <3> QED BY <2>2, <3>2, <3>3 DEF KeepBut, Becomes, Alike, Others
  <2>9. Room(d)
    BY <1>2, <2>3, <2>5 DEF Room, Others
  <2> QED BY <2>3, <2>4, <2>5, <2>6, <2>7, <2>8, <2>9, EstablishInv
<1>3. CASE c.task[t].job = "redirect" /\ ~c.running
  <2>1. Base(c, t) = ReadNext(c, t)
    BY <1>3 DEF Base
  <2> QED BY <1>3, <2>1, ReadNextInv
<1>4. CASE c.task[t].job = "migrate"
  <2>1. Base(c, t) = ReadNext(c, t)
    BY <1>4 DEF Base
  <2> QED BY <1>4, <2>1, ReadNextInv
<1>5. CASE c.task[t].job \notin {"redirect", "migrate"}
  <2>1. Base(c, t) = End(c, t)
    BY <1>5 DEF Base
  <2>2. c.task[t].own = 0 /\ ~Connected(c, 0)
    BY <1>5 DEF SoundBut, Connected
  <2>3. KeepOthers(c, t)
    BY <2>2 DEF KeepOthers, KeepBut, Anchored, Others
  <2> QED BY <2>1, <2>3, EndInv
<1>6. c.running \in BOOLEAN
  BY <1>1 DEF State
<1> QED BY <1>2, <1>3, <1>4, <1>5, <1>6

\* Task t is in the middle of a step.
Mid(c, t) ==
    /\ SoundBut(c, t) /\ c.conn # 0 /\ KeepBut(c, t)
    /\ c.calm => Calm(c, Others(t))
    /\ c.calm /\ c.running /\ c.task[t].depth > 0 => Alone(c, t)
    /\ c.running /\ c.task[t].job = "redirect" /\ c.task[t].depth = 0 => Room(c)

LEMMA UnwindInv ==
    ASSUME NEW c, NEW t \in Tasks, Mid(c, t)
    PROVE  Inv(Unwind(c, t))
<1>1. c \in State /\ c.task \in [Tasks -> TaskState] /\ c.faults \in Nat /\ MaxFaults \in Nat
  BY SessionAssumption DEF Mid, SoundBut, State
<1>2. CASE c.task[t].depth > 0 /\ c.running
  <2> DEFINE d == Unwind(c, t)
             x == [c.task[t] EXCEPT !.at = "sleep", !.g = 0]
  <2>1. Becomes(c, d, t, x) /\ x \in TaskState
    BY <1>1, <1>2, AwaitEffect DEF Unwind, Places
  <2>2. x.at = "sleep" /\ x.job = c.task[t].job /\ x.own = c.task[t].own /\ x.depth = c.task[t].depth
    BY <1>1 DEF TaskState
  <2> HIDE DEF d, x
  <2>3. Sound(d)
    <3>1. Shape(x) /\ Level(x) + c.faults <= MaxFaults + 1
      BY <1>1, <1>2, <2>1, <2>2 DEF Shape, Level, Mid, SoundBut, TaskState
    <3> QED BY <2>1, <2>2, <3>1, RestSound DEF Mid
  <2>4. Keep(d)
    BY <1>1, <1>2, <2>1, <2>2, RestKeep DEF Mid
  <2>5. c.calm => Calm(d, Tasks)
    BY <1>1, <1>2, <2>1, <2>2, RestCalm DEF Mid, Calm, Modest
  <2> QED BY <2>1, <2>3, <2>4, <2>5 DEF Inv, Becomes, Alike, d
<1>3. CASE ~(c.task[t].depth > 0 /\ c.running)
  <2>1. c.running => c.task[t].depth = 0
    BY <1>1, <1>3 DEF TaskState
  <2>2. Unwind(c, t) = Base(c, t)
    BY <1>3 DEF Unwind
  <2> QED BY <2>1, <2>2, BaseInv DEF Mid
<1> QED BY <1>2, <1>3

-----------------------------------------------------------------------------
(***************************************************************************)
(* Closing a connection.                                                    *)
(***************************************************************************)

\* d is c but for the connections, faults and calm.
SameTasks(c, d) ==
    /\ d.task = c.task /\ d.running = c.running /\ d.conn = c.conn
    /\ d.read = c.read /\ d.beat = c.beat /\ d.held = c.held

LEMMA SoundButSame ==
    ASSUME NEW c, NEW d \in State, NEW t \in Tasks,
           SoundBut(c, t), SameTasks(c, d), d.faults <= c.faults
    PROVE  SoundBut(d, t)
<1>1. /\ c \in State /\ c.faults \in Nat /\ d.faults \in Nat /\ MaxFaults \in Nat
      /\ c.task \in [Tasks -> TaskState]
  BY SessionAssumption DEF SoundBut, State
<1>2. \A u \in Tasks \ {t} : TaskOK(d, u)
  <2> TAKE u \in Tasks \ {t}
  <2>1. TaskOK(c, u)
    BY DEF SoundBut
  <2>2. Level(c.task[u]) \in Nat
    BY <1>1 DEF Level, TaskState
  <2> HIDE DEF Level
  <2> QED BY <1>1, <2>1, <2>2 DEF TaskOK, SameTasks
<1>3. c.task[t].depth + d.faults <= MaxFaults + 1
  BY <1>1 DEF SoundBut, TaskState
<1> QED BY <1>2, <1>3 DEF SoundBut, SameTasks, Pointers

\* What a calm client is like when t, its only driver, closes g.
Sole(c, t, g) ==
    /\ Alone(c, t) /\ g = c.conn /\ Modest(c) /\ Granted(c) /\ c.task[t].depth = 0
    /\ c.running \/ t = App \/ c.task[App].at = "endbeat"
    /\ \A h \in Conns : c.sock[h] => h = g /\ c.st[h] # "DISCONNECTED"

LEMMA ClosedInv ==
    ASSUME NEW c, NEW t \in Tasks, NEW g \in Conns, SoundBut(c, t), c.conn # 0,
           c.task[t].depth + 1 + c.faults <= MaxFaults + 1,
           c.running /\ ~AutoReconnect /\ c.task[t].job = "redirect" /\ c.task[t].depth = 0
               => Room(c),
           c.calm => Sole(c, t, g)
    PROVE  Inv(Closed(c, t, g))
<1> DEFINE d == [c EXCEPT !.st[g] = "DISCONNECTED", !.sock[g] = FALSE, !.srv[g] = "none"]
<1>1. c \in State /\ c.task \in [Tasks -> TaskState] /\ c.faults \in Nat /\ MaxFaults \in Nat
  BY SessionAssumption DEF SoundBut, State
<1>2. d \in State /\ SameTasks(c, d) /\ d.faults = c.faults /\ d.calm = c.calm
  BY <1>1 DEF State, SameTasks
<1>3. /\ d.st = [c.st EXCEPT ![g] = "DISCONNECTED"] /\ d.sock = [c.sock EXCEPT ![g] = FALSE]
      /\ d.srv = [c.srv EXCEPT ![g] = "none"]
  BY <1>1 DEF State
<1>4. Closed(c, t, g) = IF c.running /\ AutoReconnect
                        THEN [Await(d, t, "sleep", 0) EXCEPT !.task[t].depth = @ + 1]
                        ELSE Unwind(d, t)
  BY DEF Closed
<1> HIDE DEF d
<1>5. SoundBut(d, t) /\ d.conn # 0
  BY <1>1, <1>2, SoundButSame DEF SameTasks
<1>6. ASSUME c.calm PROVE Calm(d, Others(t)) /\ Alone(d, t)
  <2>1. Sole(c, t, g)
    BY <1>6
  <2>2. Alone(d, t)
    BY <1>2, <2>1 DEF Sole, Alone, SameTasks
  <2>3. OneDriver(d, Others(t)) /\ OnCurrent(d, Others(t))
    BY <2>2 DEF OneDriver, OnCurrent, Alone, Driving
  <2>4. Modest(d)
    BY <1>2, <2>1 DEF Sole, Modest, SameTasks
  <2>5. \A h \in Conns : ~d.sock[h]
    BY <1>1, <1>3, <2>1 DEF Sole, State
  <2>6. \A h \in Conns : d.st[h] # "AUTHENTICATED"
    BY <1>1, <1>3, <2>1 DEF Sole, State, Granted
  <2> QED BY <2>2, <2>3, <2>4, <2>5, <2>6 DEF Calm, SocketsDriven, Granted
<1>7. CASE c.running /\ AutoReconnect
  <2> DEFINE a == Await(d, t, "sleep", 0)
             e == Closed(c, t, g)
             x == [c.task[t] EXCEPT !.at = "sleep", !.g = 0, !.depth = @ + 1]
  <2>1. Becomes(d, a, t, [c.task[t] EXCEPT !.at = "sleep", !.g = 0])
    BY <1>2, AwaitEffect DEF Places, SameTasks
  <2>0. c.task[t] \in TaskState /\ c.task[t].depth \in Nat /\ c.task[t].depth + 1 \in Nat
    BY <1>1 DEF TaskState
  <2>2. x \in TaskState
    BY <2>0 DEF TaskState, Places
  <2> HIDE DEF a
  <2>3. e = [a EXCEPT !.task[t].depth = @ + 1]
    BY <1>4, <1>7 DEF a
  <2>4. e = [a EXCEPT !.task = [c.task EXCEPT ![t] = x]]
    <3>1. d.task = c.task
      BY <1>2 DEF SameTasks
    <3>2. a \in State /\ a.task = [c.task EXCEPT ![t] = [c.task[t] EXCEPT !.at = "sleep", !.g = 0]]
      BY <2>1, <3>1 DEF Becomes
    <3>3. a.task[t] = [c.task[t] EXCEPT !.at = "sleep", !.g = 0]
      BY <1>1, <3>2
    <3>4. [a.task[t] EXCEPT !.depth = @ + 1] = x
      BY <2>0, <3>3 DEF TaskState
    <3>5. [a.task EXCEPT ![t].depth = @ + 1] = [c.task EXCEPT ![t] = x]
      BY <1>1, <3>2, <3>4
    <3> HIDE DEF x, e
    <3> QED BY <2>3, <3>2, <3>5 DEF State
  <2> HIDE DEF e
  <2>5. Becomes(d, e, t, x)
    <3> DEFINE f == [c.task EXCEPT ![t] = x]
    <3>1. f \in [Tasks -> TaskState]
      BY <1>1, <2>2
    <3> HIDE DEF f, x
    <3>2. e \in State /\ e.task = f /\ Alike(a, e)
      BY <2>1, <2>4, <3>1 DEF Becomes, Alike, State, f
    <3> QED BY <1>2, <2>1, <3>2 DEF Becomes, Alike, SameTasks, f
  <2>6. /\ x.at = "sleep" /\ x.g = 0 /\ x.depth = c.task[t].depth + 1
        /\ x.job = c.task[t].job /\ x.own = c.task[t].own /\ c.task[t].depth \in Nat
    BY <1>1 DEF TaskState
  <2> HIDE DEF x
  <2>7. Sound(e)
    <3>1. Shape(x) /\ Level(x) + d.faults <= MaxFaults + 1
      BY <1>1, <1>2, <2>6 DEF Shape, Level, SoundBut
    <3> QED BY <1>2, <1>5, <2>2, <2>5, <2>6, <3>1, RestSound DEF SameTasks
  <2>8. Keep(e)
    <3>1. e.task[t] = x /\ x.depth > 0
      BY <1>1, <1>2, <2>5, <2>6 DEF Becomes, SameTasks
    <3> QED BY <3>1 DEF Keep, Committed, Anchored
  <2>9. ASSUME d.calm PROVE Calm(e, Tasks)
    <3>1. Sole(c, t, g) /\ Calm(d, Others(t)) /\ Alone(d, t)
      BY <1>2, <1>6, <2>9
    <3>2. x.depth = 1 /\ x.job \notin {"redirect", "migrate"}
      BY <2>6, <3>1 DEF Sole, Modest
    <3>3. d.running
      BY <1>2, <1>7 DEF SameTasks
    <3> QED BY <1>2, <2>2, <2>5, <2>6, <3>1, <3>2, <3>3, RestCalm DEF Calm
  <2> QED BY <2>5, <2>7, <2>8, <2>9 DEF Inv, Becomes, Alike, e
<1>8. CASE ~(c.running /\ AutoReconnect)
  <2>1. Room(c) => Room(d)
    BY <1>2 DEF Room, SameTasks
  <2>2. Mid(d, t)
    BY <1>2, <1>5, <1>6, <1>8, <2>1 DEF Mid, SameTasks, KeepBut
  <2> QED BY <1>4, <1>8, <2>2, UnwindInv
<1> QED BY <1>7, <1>8

LEMMA CloseInv ==
    ASSUME NEW c, NEW t \in Tasks, NEW g \in Conns, SoundBut(c, t), c.conn # 0,
           c.task[t].depth + 1 + c.faults <= MaxFaults + 1,
           c.st[g] = "DISCONNECTED" => KeepBut(c, t),
           c.running /\ c.task[t].job = "redirect" /\ c.task[t].depth = 0 => Room(c),
           c.calm => Sole(c, t, g)
    PROVE  Inv(Close(c, t, g))
<1>1. c \in State /\ c.task \in [Tasks -> TaskState] /\ c.faults \in Nat /\ MaxFaults \in Nat
  BY SessionAssumption DEF SoundBut, State
<1>2. CASE c.st[g] = "DISCONNECTED"
  <2>1. ASSUME c.calm PROVE Calm(c, Others(t)) /\ Alone(c, t)
    <3>1. Sole(c, t, g)
      BY <2>1
    <3>2. OneDriver(c, Others(t)) /\ OnCurrent(c, Others(t))
      BY <3>1 DEF Sole, OneDriver, OnCurrent, Alone, Driving
    <3>3. \A h \in Conns : ~c.sock[h]
      BY <1>2, <3>1 DEF Sole
    <3> QED BY <3>1, <3>2, <3>3 DEF Calm, Sole, SocketsDriven
  <2>2. Mid(c, t)
    BY <1>2, <2>1 DEF Mid
  <2>3. Close(c, t, g) = Unwind(c, t)
    BY <1>2 DEF Close
  <2> QED BY <2>2, <2>3, UnwindInv
<1>3. CASE c.st[g] # "DISCONNECTED" /\ c.sock[g]
  <2> DEFINE d == [c EXCEPT !.st[g] = "CLOSING"]
             e == Close(c, t, g)
             x == [c.task[t] EXCEPT !.at = "closing", !.g = g]
  <2>1. d \in State /\ SameTasks(c, d) /\ d.faults = c.faults /\ d.calm = c.calm
    BY <1>1 DEF State, SameTasks
  <2>2. d.st = [c.st EXCEPT ![g] = "CLOSING"] /\ d.sock = c.sock /\ d.srv = c.srv
    BY <1>1 DEF State
  <2>3. e = Await(d, t, "closing", g)
    BY <1>3 DEF Close
  <2> HIDE DEF d
  <2>4. Becomes(d, e, t, x) /\ x \in TaskState
    BY <2>1, <2>3, AwaitEffect DEF Places, SameTasks
  <2>5. /\ x.at = "closing" /\ x.g = g /\ x.depth = c.task[t].depth
        /\ x.job = c.task[t].job /\ x.own = c.task[t].own /\ c.task[t].depth \in Nat
    BY <1>1 DEF TaskState
  <2> HIDE DEF x, e
  <2>6. Sound(e)
    <3>1. Shape(x) /\ Level(x) + d.faults <= MaxFaults + 1
      BY <1>1, <2>1, <2>5, Numbers DEF Shape, Level, SoundBut
    <3>2. SoundBut(d, t)
      BY <1>1, <2>1, SoundButSame
    <3> QED BY <2>1, <2>4, <2>5, <3>1, <3>2, RestSound DEF SameTasks
  <2>7. Keep(e)
    <3>1. e.task[t] = x
      BY <1>1, <2>1, <2>4 DEF Becomes, SameTasks
    <3> QED BY <2>5, <3>1 DEF Keep, Committed
  <2>8. ASSUME d.calm PROVE Calm(e, Tasks)
    <3>1. Sole(c, t, g)
      BY <2>1, <2>8
    <3>2. /\ Alone(d, t) /\ Modest(d) /\ d.conn = g /\ x.depth = 0
          /\ d.running \/ t = App \/ (t # App /\ d.task[App].at = "endbeat")
      BY <2>1, <2>5, <3>1 DEF Sole, Alone, Modest, SameTasks
    <3>3. OneDriver(d, Others(t)) /\ OnCurrent(d, Others(t))
      BY <3>2 DEF OneDriver, OnCurrent, Alone, Driving
    <3>4. Granted(d)
      BY <1>1, <2>2, <3>1 DEF Sole, Granted, State
    <3>5. \A h \in Conns : d.sock[h] => h = d.conn /\ d.st[h] # "DISCONNECTED"
      BY <1>1, <2>2, <3>1, <3>2 DEF Sole, State
    <3>6. x.job \notin {"redirect", "migrate"}
      BY <2>5, <3>1 DEF Sole, Modest
    <3>7. Driving(x)
      BY <2>5 DEF Driving
    <3> QED BY <2>1, <2>4, <2>5, <3>2, <3>3, <3>4, <3>5, <3>6, <3>7, RestCalm
  <2> QED BY <2>4, <2>6, <2>7, <2>8 DEF Inv, Becomes, Alike, e
<1>4. CASE c.st[g] # "DISCONNECTED" /\ ~c.sock[g]
  <2>1. Close(c, t, g) = Closed(c, t, g)
    BY <1>4 DEF Close
  <2> QED BY <2>1, ClosedInv
<1> QED BY <1>2, <1>3, <1>4

-----------------------------------------------------------------------------
(***************************************************************************)
(* Sending                                                                  *)
(***************************************************************************)

LEMMA SendInv ==
    ASSUME NEW c, NEW t \in Tasks, NEW at \in {"nonce", "auth", "pong", "answer"},
           NEW fails \in Fails(c), SoundBut(c, t), c.conn # 0, KeepBut(c, t),
           Shape([c.task[t] EXCEPT !.at = at, !.g = c.conn]),
           c.running /\ c.task[t].job = "redirect" /\ c.task[t].depth = 0 => Room(c),
           c.calm /\ ~c.sock[c.conn] => /\ Calm(c, Others(t))
                                        /\ c.running /\ c.task[t].depth > 0 => Alone(c, t),
           c.calm => Calm(Await(c, t, at, c.conn), Tasks)
    PROVE  Inv(Send(c, t, at, fails))
<1>1. c \in State /\ c.task \in [Tasks -> TaskState] /\ c.faults \in 0..MaxFaults
      /\ MaxFaults \in Nat
  BY SessionAssumption DEF SoundBut, State
<1>2. c.conn \in Conns
  BY <1>1 DEF State
<1>3. CASE ~c.sock[c.conn]
  <2>1. Mid(c, t)
    BY <1>3 DEF Mid
  <2>2. Send(c, t, at, fails) = Unwind(c, t)
    BY <1>3 DEF Send
  <2> QED BY <2>1, <2>2, UnwindInv
<1>4. CASE c.sock[c.conn] /\ ~fails
  <2> DEFINE d == Send(c, t, at, fails)
             x == [c.task[t] EXCEPT !.at = at, !.g = c.conn]
  <2>1. d = Await(c, t, at, c.conn)
    BY <1>4 DEF Send
  <2>2. Becomes(c, d, t, x) /\ x \in TaskState
    BY <1>1, <1>2, <2>1, AwaitEffect DEF Places
  <2>3. x.at = at /\ x.job = c.task[t].job /\ x.own = c.task[t].own /\ x.depth = c.task[t].depth
    BY <1>1 DEF TaskState
  <2> HIDE DEF d, x
  <2>4. Sound(d)
    <3>1. Level(x) + c.faults <= MaxFaults + 1
      BY <1>1, <2>2, <2>3 DEF Level, SoundBut, TaskState
    <3>2. Shape(x)
      BY DEF x
    <3> QED BY <2>2, <2>3, <3>1, <3>2, RestSound
  <2>5. Keep(d)
    BY <1>1, <2>2, <2>3, RestKeep DEF Anchored
  <2> QED BY <2>1, <2>2, <2>4, <2>5 DEF Inv, Becomes, Alike, d
<1>5. CASE c.sock[c.conn] /\ fails
  <2> DEFINE d == [c EXCEPT !.faults = @ - 1, !.calm = FALSE]
  <2>1. c.faults > 0
    BY <1>5 DEF Fails
  <2>2. d \in State /\ SameTasks(c, d) /\ d.faults = c.faults - 1 /\ ~d.calm /\ d.st = c.st
    <3> DEFINE n == c.faults - 1
    <3>1. n \in 0..MaxFaults
      BY <1>1, <2>1
    <3>2. d = [c EXCEPT !.faults = n, !.calm = FALSE]
      BY <1>1 DEF State
    <3> HIDE DEF n, d
    <3>3. d \in State /\ d.faults = n /\ SameTasks(c, d) /\ ~d.calm /\ d.st = c.st
      BY <1>1, <3>1, <3>2 DEF State, SameTasks
    <3> QED BY <3>3 DEF n
  <2>3. Send(c, t, at, fails) = Close(d, t, c.conn)
    BY <1>5 DEF Send
  <2> HIDE DEF d
  <2>4. SoundBut(d, t)
    BY <1>1, <2>2, SoundButSame
  <2>5. d.task[t].depth + 1 + d.faults <= MaxFaults + 1
    BY <1>1, <2>1, <2>2 DEF SoundBut, SameTasks, TaskState
  <2>6. KeepBut(d, t)
    BY <2>2 DEF KeepBut, Anchored, Committed, Connected, SameTasks
  <2>7. Room(c) => Room(d)
    BY <2>2 DEF Room, SameTasks
  <2> QED BY <1>2, <2>2, <2>3, <2>4, <2>5, <2>6, <2>7, CloseInv DEF SameTasks
<1> QED BY <1>3, <1>4, <1>5

-----------------------------------------------------------------------------
(***************************************************************************)
(* Pieces of steps                                                          *)
(***************************************************************************)

\* What the invariant says when a step of t begins.
LEMMA Enter ==
    ASSUME NEW c, Inv(c), NEW t \in Tasks
    PROVE  /\ c \in State /\ c.task \in [Tasks -> TaskState] /\ TaskOK(c, t) /\ Shape(c.task[t])
           /\ c.task[t].depth \in Nat /\ c.faults \in Nat /\ MaxFaults \in Nat
           /\ c.task[t].at # "read" => SoundBut(c, t)
           /\ c.task[t].at # "closing" => KeepBut(c, t)
           /\ c.task[t].at # "off" => c.conn # 0
           /\ /\ c.calm /\ c.task[t].at # "endbeat"
              /\ Driving(c.task[t]) => c.task[t].at \in {"open", "sleep"}
              => Calm(c, Others(t))
           /\ c.calm /\ Driving(c.task[t]) => Alone(c, t)
<1>1. Sound(c) /\ c \in State /\ c.task \in [Tasks -> TaskState]
  BY DEF Inv, Sound, State
<1>2. TaskOK(c, t) /\ Shape(c.task[t])
  BY <1>1 DEF Sound, TaskOK
<1>3. c.task[t].depth \in Nat /\ c.faults \in Nat /\ MaxFaults \in Nat
  BY <1>1, SessionAssumption DEF State, TaskState
<1>4. ASSUME c.task[t].at # "read" PROVE SoundBut(c, t)
  <2>1. c.task[t].own # 0 => c.task[t].job \in {"redirect", "migrate"}
    BY <1>2, <1>4 DEF Shape
  <2>2. ~ReaderFirst => c.task[t].job \notin {"redirect", "migrate"}
    BY <1>2 DEF Shape
  <2>3. c.task[t].depth + c.faults <= MaxFaults + 1
    BY <1>2, <1>3 DEF TaskOK, Level
  <2> QED BY <1>1, <2>1, <2>2, <2>3 DEF Sound, SoundBut
<1>5. ASSUME c.task[t].at # "closing" PROVE KeepBut(c, t)
  BY <1>5 DEF Inv, Keep, KeepBut, Committed
<1>6. c.task[t].at # "off" => c.conn # 0
  BY <1>2 DEF TaskOK
<1>7. ASSUME c.calm, c.task[t].at # "endbeat",
             Driving(c.task[t]) => c.task[t].at \in {"open", "sleep"}
      PROVE  Calm(c, Others(t))
  <2>1. Calm(c, Tasks)
    BY <1>7 DEF Inv
  <2>2. OneDriver(c, Others(t)) /\ OnCurrent(c, Others(t))
    BY <1>7, <2>1 DEF Calm, OneDriver, OnCurrent, MayDrive, Others
  <2>3. SocketsDriven(c, Others(t))
    BY <1>7, <2>1 DEF Calm, SocketsDriven, Others
  <2> QED BY <2>1, <2>2, <2>3 DEF Calm
<1>8. ASSUME c.calm, Driving(c.task[t]) PROVE Alone(c, t)
  BY <1>8 DEF Inv, Calm, OneDriver, Alone, Others
<1> QED BY <1>1, <1>2, <1>3, <1>4, <1>5, <1>6, <1>7, <1>8

\* In a calm history the connection that is being read is the current one.
LEMMA ReadingCurrent ==
    ASSUME NEW c, Inv(c), c.calm, NEW g, Reading(c, g), g \in {0} \cup Conns
    PROVE  g = c.conn /\ c.sock[g]
BY DEF Inv, Calm, SocketsDriven, Reading

\* Whoever reads is committed.
LEMMA ReaderCommitted ==
    ASSUME NEW c, Inv(c), NEW g, Reading(c, g), NEW t \in Tasks, c.task[t].at # "read"
    PROVE  ReaderFirst /\ \E u \in Others(t) : Committed(c, u) /\ c.task[u].own # 0
<1>1. PICK b \in Background : c.task[b].at = "read" /\ c.task[b].own = g
  BY DEF Reading
<1>2. b \in Tasks /\ b # t /\ g # 0 /\ Connected(c, g)
  BY <1>1, Numbers DEF Reading
<1>3. Shape(c.task[b])
  BY <1>2 DEF Inv, Sound, TaskOK
<1>4. ReaderFirst
  BY <1>1, <1>3, SessionAssumption DEF Shape
<1> QED BY <1>1, <1>2, <1>4 DEF Committed, Anchored, Others

LEMMA SetTask ==
    ASSUME NEW c \in State, NEW t \in Tasks, NEW x \in TaskState
    PROVE  Becomes(c, [c EXCEPT !.task = [c.task EXCEPT ![t] = x]], t, x)
<1> DEFINE f == [c.task EXCEPT ![t] = x]
           d == [c EXCEPT !.task = f]
<1>1. f \in [Tasks -> TaskState]
  BY DEF State
<1> HIDE DEF f
<1>2. d \in State /\ d.task = f /\ Alike(c, d)
  BY <1>1 DEF State, Alike
<1> QED BY <1>2 DEF Becomes, f

\* A task changes its job, or lets go of a connection or a level of close(), in the
\* middle of a step.
LEMMA Carry ==
    ASSUME NEW c \in State, NEW t \in Tasks, NEW d, NEW x \in TaskState, Becomes(c, d, t, x),
           x.g = c.task[t].g
    PROVE  /\ d \in State /\ d.task[t] = x /\ \A u \in Others(t) : d.task[u] = c.task[u]
           /\ SoundBut(c, t) /\ x.own \in {0, c.task[t].own} /\ x.depth <= c.task[t].depth
              /\ (x.job = c.task[t].job \/ (c.task[t].job = "none" /\ x.own = 0
                                            /\ x.job \notin {"redirect", "migrate"})) =>
                  SoundBut(d, t)
           /\ KeepOthers(c, t) => KeepOthers(d, t)
           /\ Calm(c, Others(t)) /\ x.depth <= 1 /\ x.job \notin {"redirect", "migrate"} =>
                  Calm(d, Others(t))
           /\ Room(c) /\ x.own \in {0, c.task[t].own} => Room(d)
<1>1. c.task \in [Tasks -> TaskState] /\ c.read \in {0} \cup Background /\ c.beat \in {0} \cup Background
  BY DEF State
<1>2. d.task[t] = x /\ \A u \in Others(t) : d.task[u] = c.task[u]
  BY <1>1 DEF Becomes, Others
<1>3. ASSUME SoundBut(c, t), x.own \in {0, c.task[t].own}, x.depth <= c.task[t].depth,
             \/ x.job = c.task[t].job
             \/ c.task[t].job = "none" /\ x.own = 0 /\ x.job \notin {"redirect", "migrate"}
      PROVE  SoundBut(d, t)
  <2>1. Pointers(d)
    BY <1>1, <1>2, <1>3, Numbers DEF Pointers, SoundBut, Becomes, Alike, Others
  <2>2. \A u \in Tasks \ {t} : TaskOK(d, u)
    BY <1>2, <1>3 DEF TaskOK, SoundBut, Becomes, Alike, Others
  <2>3. x.depth + d.faults <= MaxFaults + 1
    <3>1. x.depth \in Nat /\ c.task[t].depth \in Nat /\ c.faults \in Nat /\ MaxFaults \in Nat
      BY <1>1, SessionAssumption DEF TaskState, State
    <3> QED BY <1>3, <3>1 DEF SoundBut, Becomes, Alike
  <2> QED BY <1>2, <1>3, <2>1, <2>2, <2>3 DEF SoundBut, Becomes
<1>4. \A g : Connected(d, g) <=> Connected(c, g)
  BY DEF Becomes, Alike, Connected
<1>5. KeepOthers(c, t) => KeepOthers(d, t)
  BY <1>2, <1>4 DEF KeepOthers, Committed, Anchored, Becomes, Alike
<1>6. ASSUME Calm(c, Others(t)), x.depth <= 1, x.job \notin {"redirect", "migrate"}
      PROVE  Calm(d, Others(t))
  <2>1. OneDriver(d, Others(t))
    BY <1>2, <1>6 DEF Calm, OneDriver, MayDrive, Becomes, Alike
  <2>2. OnCurrent(d, Others(t))
    BY <1>2, <1>4, <1>6 DEF Calm, OnCurrent, Becomes, Alike
  <2>3. Modest(d)
    BY <1>2, <1>6 DEF Calm, Modest, Others
  <2>4. SocketsDriven(d, Others(t)) /\ Granted(d)
    BY <1>2, <1>6 DEF Calm, SocketsDriven, Granted, Becomes, Alike
  <2> QED BY <2>1, <2>2, <2>3, <2>4 DEF Calm
<1>7. Room(c) /\ x.own \in {0, c.task[t].own} => Room(d)
  <2> SUFFICES ASSUME Room(c), x.own \in {0, c.task[t].own} PROVE Room(d)
    OBVIOUS
  <2>1. PICK g \in Conns : \A u \in Tasks : g \notin {c.task[u].g, c.task[u].own}
    BY DEF Room
  <2>2. g # 0
    BY Numbers
  <2>3. \A u \in Tasks : g \notin {d.task[u].g, d.task[u].own}
    BY <1>2, <2>1, <2>2 DEF Others
  <2> QED BY <2>3 DEF Room
<1> QED BY <1>2, <1>3, <1>5, <1>6, <1>7 DEF Becomes

LEMMA BeatNextInv ==
    ASSUME NEW c, NEW t \in Tasks, SoundBut(c, t), c.conn # 0, KeepOthers(c, t),
           c.task[t].job = "beat", c.task[t].depth = 0,
           c.calm => Calm(c, Others(t))
    PROVE  Inv(BeatNext(c, t))
<1>1. c \in State /\ c.task \in [Tasks -> TaskState] /\ c.faults \in Nat /\ MaxFaults \in Nat
  BY SessionAssumption DEF SoundBut, State
<1>2. CASE c.running /\ Connected(c, c.conn)
  <2> DEFINE d == BeatNext(c, t)
             x == [c.task[t] EXCEPT !.at = "interval", !.g = 0]
  <2>1. Becomes(c, d, t, x) /\ x \in TaskState
    BY <1>1, <1>2, AwaitEffect DEF BeatNext, Places
  <2>2. x.at = "interval" /\ x.job = "beat" /\ x.own = c.task[t].own /\ x.depth = 0
    BY <1>1 DEF TaskState
  <2> HIDE DEF d, x
  <2>3. c.task[t].own = 0
    BY DEF SoundBut
  <2>4. Shape(x) /\ Level(x) + c.faults <= MaxFaults + 1
    BY <1>1, <2>2, <2>3 DEF Shape, Level, SoundBut
  <2>5. Sound(d)
    BY <2>1, <2>2, <2>4, RestSound
  <2>6. ~Anchored(c, t) /\ KeepBut(c, t)
    BY <2>3 DEF Anchored, Connected, KeepOthers, KeepBut, Others
  <2>7. Keep(d)
    BY <1>1, <2>1, <2>6, RestKeep
  <2>8. ~Driving(x)
    BY <2>2 DEF Driving
  <2>9. c.calm => Calm(d, Tasks)
    BY <1>1, <2>1, <2>2, <2>8, RestCalm DEF Calm
  <2> QED BY <2>1, <2>5, <2>7, <2>9 DEF Inv, Becomes, Alike, d
<1>3. CASE ~(c.running /\ Connected(c, c.conn))
  <2>1. BeatNext(c, t) = End(c, t)
    BY <1>3 DEF BeatNext
  <2> QED BY <2>1, EndInv
<1> QED BY <1>2, <1>3

LEMMA EstablishedInv ==
    ASSUME NEW c, NEW t \in Tasks, SoundBut(c, t), c.conn # 0,
           c.running => \E u \in Others(t) : Committed(c, u),
           c.running /\ c.task[t].job = "redirect" => Room(c),
           c.calm => Calm(c, Others(t))
    PROVE  Inv(Established(c, t))
<1>1. c \in State /\ c.task \in [Tasks -> TaskState] /\ c.task[t] \in TaskState
      /\ c.task[t].depth \in Nat
  BY DEF SoundBut, State, TaskState
<1> DEFINE d == [c EXCEPT !.held = c.running]
<1>2. /\ d.task = c.task /\ d.running = c.running /\ d.conn = c.conn /\ d.held = c.running
      /\ d.read = c.read /\ d.beat = c.beat /\ d.st = c.st /\ d.sock = c.sock /\ d.srv = c.srv
      /\ d.faults = c.faults /\ d.calm = c.calm
  BY <1>1 DEF State
<1>3. d \in State
  BY <1>1 DEF State
<1>4. Established(c, t) = IF d.task[t].depth = 0 THEN Base(d, t)
                          ELSE Unwind([d EXCEPT !.task[t].depth = @ - 1], t)
  BY DEF Established
<1> HIDE DEF d
<1>5. SoundBut(d, t)
  BY <1>2, <1>3 DEF SoundBut, Pointers, TaskOK
<1>6. KeepOthers(d, t) /\ KeepBut(d, t)
  BY <1>2 DEF KeepOthers, KeepBut, Committed, Anchored, Connected, Others
<1>7. c.calm => Calm(d, Others(t))
  BY <1>2 DEF Calm, OneDriver, MayDrive, OnCurrent, Modest, SocketsDriven, Granted, Connected
<1>8. Room(c) => Room(d)
  BY <1>2 DEF Room
<1>9. CASE d.task[t].depth = 0
  BY <1>2, <1>4, <1>5, <1>6, <1>7, <1>8, <1>9, BaseInv
<1>10. CASE d.task[t].depth # 0
  <2> DEFINE e == [d EXCEPT !.task[t].depth = @ - 1]
             n == c.task[t].depth - 1
             x == [c.task[t] EXCEPT !.depth = n]
  <2>1. n \in Nat /\ n <= c.task[t].depth /\ (c.task[t].depth <= 1 => n = 0)
    BY <1>1, <1>2, <1>10
  <2>2. x \in TaskState
    BY <1>1, <2>1 DEF TaskState
  <2>3. [d.task EXCEPT ![t].depth = @ - 1] = [d.task EXCEPT ![t] = x]
    BY <1>1, <1>2 DEF TaskState
  <2>4. e = [d EXCEPT !.task = [d.task EXCEPT ![t] = x]]
    BY <1>3, <2>3 DEF State
  <2> HIDE DEF n, e
  <2>5. x.depth = n /\ x.job = c.task[t].job /\ x.own = c.task[t].own /\ x.g = c.task[t].g
    BY <1>1 DEF TaskState
  <2> HIDE DEF x
  <2>6. Becomes(d, e, t, x)
    BY <1>3, <2>2, <2>4, SetTask
  <2>7. d.task[t] = c.task[t]
    BY <1>2
  <2>8. e \in State /\ SoundBut(e, t) /\ KeepOthers(e, t) /\ e.task[t] = x /\ (Room(d) => Room(e))
    BY <1>3, <1>5, <1>6, <2>1, <2>2, <2>5, <2>6, <2>7, Carry
  <2>9. ASSUME e.calm PROVE Calm(e, Others(t)) /\ n = 0
    <3>1. Calm(d, Others(t))
      BY <1>2, <1>7, <2>6, <2>9 DEF Becomes, Alike
    <3>2. c.task[t].depth <= 1 /\ c.task[t].job \notin {"redirect", "migrate"}
      BY <2>7, <3>1 DEF Calm, Modest
    <3>3. x.depth <= 1 /\ x.job \notin {"redirect", "migrate"} /\ n = 0
      BY <2>1, <2>5, <3>2
    <3> QED BY <1>3, <2>2, <2>5, <2>6, <2>7, <3>1, <3>3, Carry
  <2>10. Mid(e, t)
    <3>1. e.running = c.running /\ e.conn = c.conn
      BY <1>2, <2>6 DEF Becomes, Alike
    <3>2. KeepBut(e, t)
      BY <2>8 DEF KeepOthers, KeepBut, Others
    <3> QED BY <1>8, <2>1, <2>5, <2>8, <2>9, <3>1, <3>2 DEF Mid
  <2>11. Established(c, t) = Unwind(e, t)
    BY <1>4, <1>10 DEF e
  <2> QED BY <2>10, <2>11, UnwindInv
<1> QED BY <1>9, <1>10

\* A new task b starts as x.
Starts(c, d, b, x) ==
    /\ b \in Background /\ c.task[b].at = "off"
    /\ x \in TaskState /\ Shape(x) /\ Level(x) = 0
    /\ d \in State /\ d.task = [c.task EXCEPT ![b] = x]
    /\ d.st = c.st /\ d.conn = c.conn /\ d.faults = c.faults /\ d.running = c.running
    /\ \/ d.read = b /\ d.beat = c.beat /\ x.job = "read"
       \/ d.beat = b /\ d.read = c.read /\ x.job = "beat"

\* That happens in the middle of a step of t.
LEMMA Started ==
    ASSUME NEW c, NEW t \in Tasks, SoundBut(c, t), c.conn # 0, c.task[t].at # "off",
           NEW d, NEW b, NEW x, Starts(c, d, b, x)
    PROVE  /\ SoundBut(d, t) /\ b # t /\ b \in Tasks
           /\ d.task[b] = x /\ \A u \in Tasks \ {b} : d.task[u] = c.task[u]
           /\ \A u \in Others(t) : Committed(c, u) => Committed(d, u)
<1>0. /\ b \in Background /\ c.task[b].at = "off" /\ x \in TaskState /\ Shape(x) /\ Level(x) = 0
      /\ d \in State /\ d.task = [c.task EXCEPT ![b] = x] /\ d.st = c.st /\ d.conn = c.conn
      /\ d.faults = c.faults /\ d.running = c.running
      /\ \/ d.read = b /\ d.beat = c.beat /\ x.job = "read"
         \/ d.beat = b /\ d.read = c.read /\ x.job = "beat"
  BY DEF Starts
<1>1. c.task \in [Tasks -> TaskState] /\ c.faults \in Nat /\ MaxFaults \in Nat
      /\ c.read \in {0} \cup Background /\ c.beat \in {0} \cup Background
  BY SessionAssumption DEF SoundBut, State
<1>2. b \in Tasks /\ b # t /\ Background \subseteq Tasks /\ b # 0
  BY <1>0, Numbers
<1>3. d.task[b] = x /\ \A u \in Tasks \ {b} : d.task[u] = c.task[u]
  BY <1>0, <1>1, <1>2
<1>4. c.task[b] = Off /\ c.faults <= MaxFaults + 1
  <2>1. TaskOK(c, b)
    BY <1>2 DEF SoundBut
  <2>2. c.task[b] = Off
    BY <1>0, <2>1 DEF TaskOK, Shape
  <2>3. Level(Off) = 0
    BY DEF Level, Off
  <2> QED BY <1>1, <2>1, <2>2, <2>3 DEF TaskOK
<1>5. Off.job = "none" /\ Off.at = "off" /\ Off.depth = 0 /\ Off.own = 0
  BY DEF Off
<1>6. \A u \in Tasks \ {t} : TaskOK(d, u)
  <2> TAKE u \in Tasks \ {t}
  <2>1. CASE u = b
    BY <1>0, <1>1, <1>3, <1>4, <2>1 DEF TaskOK, Shape
  <2>2. CASE u # b
    BY <1>0, <1>3, <2>2 DEF TaskOK, SoundBut
  <2> QED BY <2>1, <2>2
<1>7. Pointers(d)
  BY <1>0, <1>1, <1>2, <1>3, <1>4, <1>5 DEF Pointers, SoundBut
<1>8. SoundBut(d, t)
  BY <1>0, <1>2, <1>3, <1>6, <1>7 DEF SoundBut
<1>9. ASSUME NEW u \in Others(t), Committed(c, u) PROVE Committed(d, u)
  <2>1. u # b
    BY <1>4, <1>5, <1>9 DEF Committed, Anchored, Connected
  <2> QED BY <1>0, <1>3, <1>9, <2>1 DEF Committed, Anchored, Connected, Others
<1> QED BY <1>2, <1>3, <1>8, <1>9

LEMMA StartReaderEffect ==
    ASSUME NEW c \in State, c.conn # 0, c.sock[c.conn], Idle(c) # {}
    PROVE  LET b == Min(Idle(c))
               x == [Off EXCEPT !.job = "read", !.at = "read", !.own = c.conn]
               d == StartReader(c)
           IN  /\ b \in Background /\ c.task[b].at = "off" /\ x \in TaskState /\ d \in State
               /\ x.job = "read" /\ x.at = "read" /\ x.own = c.conn /\ x.g = 0 /\ x.depth = 0
               /\ d.task = [c.task EXCEPT ![b] = x] /\ d.read = b
               /\ d.beat = c.beat /\ d.running = c.running /\ d.conn = c.conn /\ d.st = c.st
               /\ d.sock = c.sock /\ d.srv = c.srv /\ d.faults = c.faults /\ d.held = c.held
               /\ d.calm = c.calm
<1> DEFINE b == Min(Idle(c))
           x == [Off EXCEPT !.job = "read", !.at = "read", !.own = c.conn]
           d == StartReader(c)
<1>1. b \in Background /\ c.task[b].at = "off"
  BY IdleMember
<1>2. c.task \in [Tasks -> TaskState] /\ c.conn \in Conns
  BY DEF State
<1>3. x \in TaskState
  BY <1>2 DEF Off, TaskState, Jobs, Places
<1>4. x.job = "read" /\ x.at = "read" /\ x.own = c.conn /\ x.g = 0 /\ x.depth = 0
  BY DEF Off
<1>5. d = [c EXCEPT !.read = b, !.task = [c.task EXCEPT ![b] = x]]
  BY DEF StartReader, State
<1> HIDE DEF b, x, d
<1>6. [c.task EXCEPT ![b] = x] \in [Tasks -> TaskState]
  BY <1>2, <1>3
<1> DEFINE f == [c.task EXCEPT ![b] = x]
<1> HIDE DEF f
<1>7. d = [c EXCEPT !.read = b, !.task = f] /\ f \in [Tasks -> TaskState]
  BY <1>5, <1>6 DEF f
<1>8. /\ d \in State /\ d.task = f /\ d.read = b
      /\ d.beat = c.beat /\ d.running = c.running /\ d.conn = c.conn /\ d.st = c.st
      /\ d.sock = c.sock /\ d.srv = c.srv /\ d.faults = c.faults /\ d.held = c.held
      /\ d.calm = c.calm
  BY <1>1, <1>7 DEF State
<1> QED BY <1>1, <1>3, <1>4, <1>8 DEF b, x, d, f

LEMMA StartBeatEffect ==
    ASSUME NEW c \in State, c.running, Idle(c) # {}
    PROVE  LET b == Min(Idle(c))
               x == [Off EXCEPT !.job = "beat", !.at = "interval"]
               d == StartBeat(c)
           IN  /\ b \in Background /\ c.task[b].at = "off" /\ x \in TaskState /\ d \in State
               /\ x.job = "beat" /\ x.at = "interval" /\ x.own = 0 /\ x.g = 0 /\ x.depth = 0
               /\ d.task = [c.task EXCEPT ![b] = x] /\ d.beat = b
               /\ d.read = c.read /\ d.running = c.running /\ d.conn = c.conn /\ d.st = c.st
               /\ d.sock = c.sock /\ d.srv = c.srv /\ d.faults = c.faults /\ d.held = c.held
               /\ d.calm = c.calm
<1> DEFINE b == Min(Idle(c))
           x == [Off EXCEPT !.job = "beat", !.at = "interval"]
           d == StartBeat(c)
<1>1. b \in Background /\ c.task[b].at = "off"
  BY IdleMember
<1>2. c.task \in [Tasks -> TaskState]
  BY DEF State
<1>3. x \in TaskState
  BY DEF Off, TaskState, Jobs, Places
<1>4. x.job = "beat" /\ x.at = "interval" /\ x.own = 0 /\ x.g = 0 /\ x.depth = 0
  BY DEF Off
<1>5. d = [c EXCEPT !.beat = b, !.task = [c.task EXCEPT ![b] = x]]
  BY DEF StartBeat, State
<1> HIDE DEF b, x, d
<1> DEFINE f == [c.task EXCEPT ![b] = x]
<1>6. f \in [Tasks -> TaskState]
  BY <1>2, <1>3
<1> HIDE DEF f
<1>7. d = [c EXCEPT !.beat = b, !.task = f]
  BY <1>5 DEF f
<1>8. /\ d \in State /\ d.task = f /\ d.beat = b
      /\ d.read = c.read /\ d.running = c.running /\ d.conn = c.conn /\ d.st = c.st
      /\ d.sock = c.sock /\ d.srv = c.srv /\ d.faults = c.faults /\ d.held = c.held
      /\ d.calm = c.calm
  BY <1>1, <1>6, <1>7 DEF State
<1> QED BY <1>1, <1>3, <1>4, <1>8 DEF b, x, d, f

LEMMA SomeIdle ==
    ASSUME NEW c, Cardinality(Idle(c)) >= 1
    PROVE  Idle(c) # {}
<1>1. Cardinality({}) = 0
  BY FS_EmptySet
<1> QED BY <1>1

LEMMA SetStateEffect ==
    ASSUME NEW c \in State, NEW state \in {"AUTHENTICATING", "AUTHENTICATED"}
    PROVE  LET d == SetState(c, state)
           IN  /\ d \in State /\ SameTasks(c, d) /\ d.faults = c.faults /\ d.calm = c.calm
               /\ d.sock = c.sock /\ d.srv = c.srv
               /\ d.st = [c.st EXCEPT ![c.conn] = state]
<1> DEFINE f == [c.st EXCEPT ![c.conn] = state]
<1>1. f \in [Conns -> {"DISCONNECTED", "PENDING", "AUTHENTICATING", "AUTHENTICATED", "CLOSING"}]
  BY DEF State
<1>2. SetState(c, state) = [c EXCEPT !.st = f]
  BY DEF SetState, State
<1> HIDE DEF f
<1>3. LET d == [c EXCEPT !.st = f]
      IN  /\ d \in State /\ SameTasks(c, d) /\ d.faults = c.faults /\ d.calm = c.calm
          /\ d.sock = c.sock /\ d.srv = c.srv /\ d.st = f
  BY <1>1 DEF State, SameTasks
<1> QED BY <1>2, <1>3 DEF f

LEMMA CallEffect ==
    ASSUME s \in State, s.events > 0, NEW t \in Tasks, NEW job \in Jobs
    PROVE  /\ [s.task[t] EXCEPT !.job = job] \in TaskState
           /\ Becomes(s, Call(t, job), t, [s.task[t] EXCEPT !.job = job])
<1> DEFINE x == [s.task[t] EXCEPT !.job = job]
           f == [s.task EXCEPT ![t] = x]
           n == s.events - 1
           d == Call(t, job)
<1>1. s.task \in [Tasks -> TaskState] /\ n \in Nat
  BY DEF State
<1>2. x \in TaskState /\ f \in [Tasks -> TaskState]
  BY <1>1 DEF TaskState
<1>3. d = [s EXCEPT !.events = n, !.task = f]
  BY <1>1 DEF Call, State
<1> HIDE DEF f, n, d
<1>4. d \in State /\ d.task = f /\ Alike(s, d)
  BY <1>1, <1>2, <1>3 DEF State, Alike
<1> QED BY <1>2, <1>4 DEF Becomes, f, d

-----------------------------------------------------------------------------
(***************************************************************************)
(* Each step keeps the invariant: the application's calls.                  *)
(***************************************************************************)

LEMMA InvConnect ==
    ASSUME Inv(s), Connect
    PROVE  Inv(s')
<1>1. App \in Tasks
  BY Numbers
<1>2. s \in State /\ s.task \in [Tasks -> TaskState] /\ s.task[App] = Off
  BY <1>1, Enter DEF Connect, At, Shape
<1>3. s.events > 0 /\ Room(s)
  BY RoomUnused DEF Connect, RoomForConn
<1>4. CASE s.running
  <2> DEFINE d == [s EXCEPT !.events = @ - 1]
             n == s.events - 1
  <2>1. n \in Nat
    BY <1>2, <1>3 DEF State
  <2>2. d = [s EXCEPT !.events = n]
    BY <1>2 DEF State
  <2> HIDE DEF n, d
  <2>3. d \in State /\ d.task = s.task /\ Alike(s, d)
    BY <1>2, <2>1, <2>2 DEF State, Alike
  <2>4. Sound(d)
    BY <2>3 DEF Inv, Sound, Pointers, TaskOK, Alike
  <2>5. Keep(d)
    BY <2>3 DEF Inv, Keep, Committed, Anchored, Connected, Alike
  <2>6. s.calm => Calm(d, Tasks)
    BY <2>3 DEF Inv, Calm, OneDriver, MayDrive, OnCurrent, Modest, SocketsDriven, Granted, Connected, Alike
  <2>7. s' = d
    BY <1>4 DEF Connect, d
  <2> QED BY <2>3, <2>4, <2>5, <2>6, <2>7 DEF Inv, Alike
<1>5. CASE ~s.running
  <2> DEFINE a == Call(App, "connect")
             x == [s.task[App] EXCEPT !.job = "connect"]
             d == [a EXCEPT !.running = TRUE, !.held = FALSE]
  <2>1. x \in TaskState /\ Becomes(s, a, App, x)
    BY <1>1, <1>2, <1>3, CallEffect DEF Jobs
  <2>2. x.job = "connect" /\ x.own = 0 /\ x.depth = 0 /\ x.g = 0
    BY <1>2 DEF Off
  <2> HIDE DEF a, x
  <2>3. s.task[App].at = "off" /\ s.task[App].job = "none" /\ s.task[App].depth = 0
        /\ s.task[App].own = 0 /\ s.task[App].g = 0
    BY <1>2 DEF Off
  <2>4. a \in State /\ a.task[App] = x /\ SoundBut(a, App) /\ Room(a)
        /\ \A u \in Others(App) : a.task[u] = s.task[u]
    <3>1. SoundBut(s, App)
      BY <1>1, <2>3, Enter
    <3> QED BY <1>1, <1>2, <1>3, <2>1, <2>2, <2>3, <3>1, Carry
  <2>5. /\ d \in State /\ d.running /\ ~d.held /\ d.task = a.task /\ d.conn = a.conn
        /\ d.read = a.read /\ d.beat = a.beat /\ d.st = a.st /\ d.sock = a.sock
        /\ d.srv = a.srv /\ d.faults = a.faults /\ d.calm = a.calm
    BY <2>4 DEF State
  <2>6. SoundBut(d, App) /\ KeepBut(d, App) /\ Room(d)
    BY <2>4, <2>5 DEF SoundBut, Pointers, TaskOK, KeepBut, Room
  <2>7. ASSUME d.calm PROVE Calm(d, Others(App)) /\ Alone(d, App)
    <3>1. s.calm /\ Calm(s, Tasks)
      BY <2>1, <2>5, <2>7 DEF Inv, Becomes, Alike
    <3>2. \A u \in Tasks : ~Driving(s.task[u])
      BY <1>5, <2>3, <3>1 DEF Calm, OneDriver, MayDrive
    <3>3. \A u \in Others(App) : ~Driving(d.task[u])
      BY <2>4, <2>5, <3>2 DEF Others
    <3>4. OneDriver(d, Others(App)) /\ OnCurrent(d, Others(App))
      BY <3>3 DEF OneDriver, OnCurrent, Driving
    <3>5. Modest(d)
      BY <2>2, <2>4, <2>5, <3>1 DEF Calm, Modest, Others
    <3>6. SocketsDriven(d, Others(App)) /\ Granted(d)
      BY <2>1, <2>5, <3>1, <3>2 DEF Calm, SocketsDriven, Granted, Becomes, Alike
    <3> QED BY <3>3, <3>4, <3>5, <3>6 DEF Calm, Alone
  <2>8. d.task[App].job = "connect"
    BY <2>2, <2>4, <2>5
  <2>9. s' = Establish(d, App)
    BY <1>5 DEF Connect, a
  <2> HIDE DEF d
  <2> QED BY <1>1, <2>5, <2>6, <2>7, <2>8, <2>9, EstablishInv
<1>6. s.running \in BOOLEAN
  BY <1>2 DEF State
<1> QED BY <1>4, <1>5, <1>6

LEMMA InvRequest ==
    ASSUME Inv(s), Request
    PROVE  Inv(s')
<1>1. Caller \in Tasks
  BY Numbers
<1>2. s \in State /\ s.task \in [Tasks -> TaskState] /\ s.task[Caller] = Off
  BY <1>1, Enter DEF Request, At, Shape
<1>3. s.events > 0 /\ s.conn # 0
  BY DEF Request
<1> DEFINE c == Call(Caller, "request")
           x == [s.task[Caller] EXCEPT !.job = "request"]
<1>4. x \in TaskState /\ Becomes(s, c, Caller, x)
  BY <1>1, <1>2, <1>3, CallEffect DEF Jobs
<1>5. PICK fails \in Fails(c) : s' = Send(c, Caller, "answer", fails)
  BY DEF Request
<1>6. x.job = "request" /\ x.own = 0 /\ x.depth = 0 /\ x.g = 0
  BY <1>2 DEF Off
<1> HIDE DEF c, x
<1>7. /\ s.task[Caller].at = "off" /\ s.task[Caller].job = "none" /\ s.task[Caller].depth = 0
      /\ s.task[Caller].own = 0 /\ s.task[Caller].g = 0
  BY <1>2 DEF Off
<1>8. SoundBut(s, Caller) /\ KeepBut(s, Caller) /\ ~Driving(s.task[Caller])
  BY <1>1, <1>7, Enter DEF Driving
<1>9. KeepOthers(s, Caller)
  BY <1>7, <1>8 DEF KeepBut, KeepOthers, Anchored, Connected, Others
<1>10. c \in State /\ c.task[Caller] = x /\ SoundBut(c, Caller) /\ KeepOthers(c, Caller)
  BY <1>1, <1>2, <1>4, <1>6, <1>7, <1>8, <1>9, Carry
<1>11. c.conn # 0 /\ c.calm = s.calm
  BY <1>3, <1>4 DEF Becomes, Alike
<1>12. c.calm => Calm(c, Others(Caller))
  <2>1. s.calm => Calm(s, Others(Caller))
    BY <1>1, <1>7, <1>8, Enter
  <2>2. x.g = s.task[Caller].g /\ x.depth <= 1 /\ x.job \notin {"redirect", "migrate"}
    BY <1>6, <1>7
  <2>3. Calm(s, Others(Caller)) => Calm(c, Others(Caller))
    BY <1>1, <1>2, <1>4, <2>2, Carry
  <2> QED BY <1>11, <2>1, <2>3
<1> DEFINE y == [c.task[Caller] EXCEPT !.at = "answer", !.g = c.conn]
<1>13. y \in TaskState /\ Becomes(c, Await(c, Caller, "answer", c.conn), Caller, y)
  BY <1>1, <1>10, AwaitEffect DEF State, Places
<1>14. y.at = "answer" /\ y.job = "request" /\ y.depth = 0 /\ y.own = 0
  BY <1>4, <1>6, <1>10 DEF TaskState
<1>15. Shape(y)
  BY <1>14 DEF Shape
<1> HIDE DEF y
<1>16. c.calm => Calm(Await(c, Caller, "answer", c.conn), Tasks)
  BY <1>1, <1>10, <1>12, <1>13, <1>14, RestCalm DEF Calm, Driving
<1>17. KeepBut(c, Caller)
  BY <1>10 DEF KeepOthers, KeepBut, Others
<1>18. c.task[Caller].job # "redirect" /\ ~(c.task[Caller].depth > 0)
  BY <1>6, <1>10
<1> QED BY <1>1, <1>5, <1>10, <1>11, <1>12, <1>15, <1>16, <1>17, <1>18, SendInv DEF y

LEMMA EndZero ==
    ASSUME NEW c \in State, NEW b \in {0} \cup Background
    PROVE  LET d == End(c, b)
           IN  /\ d \in State
               /\ \A u \in Tasks : d.task[u] = IF u = b THEN Off ELSE c.task[u]
               /\ d.read = (IF c.read = b THEN 0 ELSE c.read)
               /\ d.beat = (IF c.beat = b THEN 0 ELSE c.beat)
               /\ d.running = c.running /\ d.conn = c.conn
               /\ d.st = c.st /\ d.sock = c.sock /\ d.srv = c.srv
               /\ d.faults = c.faults /\ d.held = c.held /\ d.calm = c.calm
<1>1. CASE b = 0
  <2>1. End(c, b) = c /\ \A u \in Tasks : u # b
    BY <1>1, Numbers DEF End
  <2> QED BY <1>1, <2>1
<1>2. CASE b # 0
  <2>1. b \in Tasks
    BY <1>2, Numbers
  <2>2. c.task \in [Tasks -> TaskState]
    BY DEF State
  <2> DEFINE d == End(c, b)
  <2>4. Ended(c, d, b)
    BY <2>1, EndEffect
  <2> HIDE DEF d
  <2>5. \A u \in Tasks : d.task[u] = IF u = b THEN Off ELSE c.task[u]
    BY <2>1, <2>2, <2>4 DEF Ended
  <2>6. /\ d \in State
        /\ d.read = (IF c.read = b THEN 0 ELSE c.read)
        /\ d.beat = (IF c.beat = b THEN 0 ELSE c.beat)
    BY <2>4 DEF Ended
  <2>7. /\ d.running = c.running /\ d.conn = c.conn
        /\ d.st = c.st /\ d.sock = c.sock /\ d.srv = c.srv
        /\ d.faults = c.faults /\ d.held = c.held /\ d.calm = c.calm
    BY <2>4 DEF Ended
  <2> QED BY <2>5, <2>6, <2>7 DEF d
<1> QED BY <1>1, <1>2

\* disconnect() from where the heartbeat task is gone, when only the read task drives.
LEMMA CancelReadInv ==
    ASSUME NEW c, SoundBut(c, App), c.conn # 0, ~c.running,
           c.task[App].job = "disconnect", c.task[App].own = 0, c.task[App].depth = 0,
           c.calm =>
               /\ \A u \in Others(App) : Driving(c.task[u]) => u = c.read
               /\ Modest(c) /\ Granted(c)
               /\ \A h \in Conns : c.sock[h] => h = c.conn /\ c.st[h] # "DISCONNECTED"
    PROVE  Inv(CancelRead(c))
<1>1. /\ c \in State /\ c.task \in [Tasks -> TaskState] /\ c.conn \in Conns
      /\ c.faults \in 0..MaxFaults /\ MaxFaults \in Nat /\ App \in Tasks
      /\ c.read \in {0} \cup Background /\ App \notin {0} \cup Background
  BY SessionAssumption, Numbers DEF SoundBut, State
<1>2. CASE c.read = 0
  <2>1. CancelRead(c) = Close(c, App, c.conn)
    BY <1>2 DEF CancelRead
  <2>2. c.calm => Sole(c, App, c.conn)
    BY <1>1, <1>2, Numbers DEF Sole, Alone, Others
  <2>3. KeepBut(c, App) /\ c.task[App].depth + 1 + c.faults <= MaxFaults + 1
    BY <1>1 DEF KeepBut
  <2> QED BY <1>1, <2>1, <2>2, <2>3, CloseInv
<1>3. CASE c.read # 0
  <2> DEFINE e == End(c, c.read)
             d == CancelRead(c)
             x == [e.task[App] EXCEPT !.at = "endread", !.g = 0]
  <2>1. d = Await(e, App, "endread", 0)
    BY <1>3 DEF CancelRead
  <2>2. /\ e \in State
        /\ \A u \in Tasks : e.task[u] = IF u = c.read THEN Off ELSE c.task[u]
        /\ e.read = 0 /\ e.beat \in {0, c.beat} /\ (e.beat = c.read => e.beat = 0)
        /\ ~e.running /\ e.conn = c.conn
        /\ e.st = c.st /\ e.sock = c.sock /\ e.srv = c.srv
        /\ e.faults = c.faults /\ e.calm = c.calm
    <3>1. /\ e \in State
          /\ \A u \in Tasks : e.task[u] = IF u = c.read THEN Off ELSE c.task[u]
          /\ e.read = (IF c.read = c.read THEN 0 ELSE c.read)
          /\ e.beat = (IF c.beat = c.read THEN 0 ELSE c.beat)
          /\ e.running = c.running /\ e.conn = c.conn
          /\ e.st = c.st /\ e.sock = c.sock /\ e.srv = c.srv
          /\ e.faults = c.faults /\ e.held = c.held /\ e.calm = c.calm
      BY <1>1, EndZero
    <3> HIDE DEF e
    <3> QED BY <1>3, <3>1
  <2> HIDE DEF e
  <2>3. e.task[App] = c.task[App]
    BY <1>1, <1>3, <2>2
  <2>4. /\ Becomes(e, d, App, x) /\ x \in TaskState /\ x.at = "endread" /\ x.g = 0
        /\ x.job = "disconnect" /\ x.own = 0 /\ x.depth = 0
    <3>1. /\ x \in TaskState
          /\ Becomes(e, Await(e, App, "endread", 0), App, x)
      BY <1>1, <2>2, AwaitEffect DEF Places
    <3>2. /\ x.at = "endread" /\ x.g = 0
          /\ x.job = "disconnect" /\ x.own = 0 /\ x.depth = 0
      BY <1>1, <2>3 DEF TaskState
    <3> QED BY <2>1, <3>1, <3>2
  <2> HIDE DEF d, x
  <2>5. SoundBut(e, App)
    <3>1. \A u \in Others(App) : TaskOK(e, u)
      <4> TAKE u \in Others(App)
      <4>1. TaskOK(c, u) /\ u \in Tasks
        BY DEF SoundBut, Others
      <4>2. Shape(Off) /\ Level(Off) = 0 /\ Off.at = "off"
        BY DEF Shape, Level, Off
      <4> QED BY <1>1, <2>2, <4>1, <4>2 DEF TaskOK
    <3>2. Pointers(e)
      <4>1. Pointers(c) /\ c.beat \in {0} \cup Tasks
        BY <1>1, Numbers DEF SoundBut, State
      <4>2. e.beat # 0 => e.beat = c.beat /\ e.beat # c.read
        BY <2>2
      <4> QED BY <2>2, <4>1, <4>2 DEF Pointers
    <3> QED BY <1>1, <2>2, <2>3, <3>1, <3>2 DEF SoundBut, Others
  <2>6. Sound(d)
    <3>1. Shape(x) /\ Level(x) + e.faults <= MaxFaults + 1
      BY <1>1, <2>2, <2>4 DEF Shape, Level
    <3>2. e.conn # 0 /\ x.job = e.task[App].job /\ ~e.running
      BY <2>2, <2>3, <2>4
    <3> QED BY <1>1, <2>4, <2>5, <3>1, <3>2, RestSound
  <2>7. Keep(d)
    BY <2>2, <2>4 DEF Keep, Becomes, Alike
  <2>8. ASSUME d.calm PROVE Calm(d, Tasks)
    <3>1. c.calm
      BY <2>2, <2>4, <2>8 DEF Becomes, Alike
    <3>2. ~Driving(Off) /\ Off.depth = 0 /\ Off.job = "none"
      BY DEF Driving, Off
    <3>3. Alone(e, App)
      BY <2>2, <3>1, <3>2 DEF Alone, Others
    <3>4. OneDriver(e, Others(App)) /\ OnCurrent(e, Others(App))
      BY <3>3 DEF OneDriver, OnCurrent, Alone, Driving
    <3>5. Modest(e) /\ Granted(e)
      BY <2>2, <3>1, <3>2 DEF Modest, Granted
    <3>6. \A h \in Conns : e.sock[h] => h = e.conn /\ e.st[h] # "DISCONNECTED"
      BY <2>2, <3>1
    <3>7. Driving(x)
      BY <2>4 DEF Driving
    <3> QED BY <1>1, <2>2, <2>4, <3>3, <3>4, <3>5, <3>6, <3>7, RestCalm
  <2> QED BY <2>6, <2>7, <2>8 DEF Inv, d
<1> QED BY <1>2, <1>3

LEMMA InvDisconnect ==
    ASSUME Inv(s), Disconnect
    PROVE  Inv(s')
<1>1. App \in Tasks /\ App \notin {0} \cup Background
  BY Numbers
<1>2. s \in State /\ s.task \in [Tasks -> TaskState] /\ s.task[App] = Off
  BY <1>1, Enter DEF Disconnect, At, Shape
<1>3. s.events > 0 /\ s.conn # 0 /\ s.conn \in Conns /\ s.faults \in 0..MaxFaults /\ MaxFaults \in Nat
  BY <1>2, SessionAssumption DEF Disconnect, State
<1> DEFINE a == Call(App, "disconnect")
           x == [s.task[App] EXCEPT !.job = "disconnect"]
           c == [a EXCEPT !.running = FALSE, !.held = FALSE, !.calm = @ /\ Establishing(s) = {}]
<1>4. x \in TaskState /\ Becomes(s, a, App, x)
  BY <1>1, <1>2, <1>3, CallEffect DEF Jobs
<1>5. s' = IF c.beat = 0 THEN CancelRead(c) ELSE Await(End(c, c.beat), App, "endbeat", 0)
  BY DEF Disconnect
<1>6. x.job = "disconnect" /\ x.own = 0 /\ x.depth = 0
  BY <1>2 DEF Off
<1> HIDE DEF a, x
<1>7. a \in State /\ a.task[App] = x /\ \A u \in Others(App) : a.task[u] = s.task[u]
  BY <1>1, <1>2, <1>4 DEF Becomes, Others
<1>8. /\ c \in State /\ ~c.running /\ ~c.held /\ c.task = a.task /\ c.conn = s.conn
      /\ c.read = s.read /\ c.beat = s.beat /\ c.st = s.st /\ c.sock = s.sock
      /\ c.srv = s.srv /\ c.faults = s.faults /\ (c.calm => s.calm /\ Establishing(s) = {})
  <2> DEFINE k == (a.calm /\ Establishing(s) = {})
  <2>1. k \in BOOLEAN
    OBVIOUS
  <2>2. c = [a EXCEPT !.running = FALSE, !.held = FALSE, !.calm = k]
    BY <1>7 DEF State
  <2>3. k => s.calm /\ Establishing(s) = {}
    BY <1>4 DEF Becomes, Alike
  <2> HIDE DEF k, c
  <2> QED BY <1>4, <1>7, <2>1, <2>2, <2>3 DEF Becomes, Alike, State
<1> HIDE DEF c
<1>9. c.beat \in {0} \cup Background /\ c.read \in {0} \cup Background
  BY <1>8 DEF State
<1>10. c.task[App] = x /\ \A u \in Others(App) : c.task[u] = s.task[u]
  BY <1>7, <1>8
<1>11. SoundBut(c, App)
  <2>1. \A u \in Others(App) : TaskOK(c, u)
    BY <1>8, <1>10 DEF Inv, Sound, TaskOK, Others
  <2>2. Pointers(c)
    BY <1>1, <1>8, <1>9, <1>10, Numbers DEF Inv, Sound, Pointers, Others
  <2> QED BY <1>3, <1>6, <1>8, <1>10, <2>1, <2>2 DEF SoundBut, Others
\* The read task alone may drive, and it reads or closes.
<1>12. ASSUME c.calm
       PROVE  /\ \A u \in Others(App) : Driving(c.task[u]) =>
                     u = c.read /\ c.task[u].at \in {"read", "closing"}
              /\ OnCurrent(c, Others(App)) /\ Modest(c) /\ Granted(c)
              /\ SocketsDriven(c, Others(App))
  <2>1. s.calm /\ Calm(s, Tasks) /\ Establishing(s) = {}
    BY <1>8, <1>12 DEF Inv
  <2>2. ASSUME NEW u \in Others(App), Driving(c.task[u])
        PROVE  u = c.read /\ c.task[u].at \in {"read", "closing"}
    <3>1. u \in Tasks /\ u # App /\ c.task[u] = s.task[u] /\ u = s.read
      BY <1>10, <2>1, <2>2 DEF Calm, OneDriver, Others
    <3>2. c.task[u].at \notin {"open", "nonce", "sleep"}
      BY <2>1, <3>1 DEF Establishing
    <3>3. c.task[u].at # "endread"
      BY <3>1 DEF Inv, Sound, TaskOK
    <3> QED BY <1>8, <2>2, <3>1, <3>2, <3>3 DEF Driving
  <2>3. OnCurrent(c, Others(App))
    BY <1>8, <1>10, <2>1 DEF Calm, OnCurrent, Connected, Others
  <2>4. Modest(c)
    BY <1>6, <1>10, <2>1 DEF Calm, Modest, Others
  <2>5. Granted(c)
    BY <1>8, <2>1 DEF Calm, Granted
  <2>6. SocketsDriven(c, Others(App))
    <3>1. ~Driving(s.task[App])
      BY <1>2 DEF Driving, Off
    <3> QED BY <1>8, <1>10, <2>1, <3>1 DEF Calm, SocketsDriven, Others
  <2> QED BY <2>2, <2>3, <2>4, <2>5, <2>6
<1>13. CASE c.beat = 0
  <2>1. c.calm =>
            /\ \A u \in Others(App) : Driving(c.task[u]) => u = c.read
            /\ Modest(c) /\ Granted(c)
            /\ \A h \in Conns : c.sock[h] => h = c.conn /\ c.st[h] # "DISCONNECTED"
    BY <1>12 DEF SocketsDriven
  <2>2. c.conn # 0 /\ c.task[App].job = "disconnect" /\ c.task[App].own = 0 /\ c.task[App].depth = 0
    BY <1>3, <1>6, <1>8, <1>10
  <2> QED BY <1>5, <1>8, <1>11, <1>13, <2>1, <2>2, CancelReadInv
<1>14. CASE c.beat # 0
  <2> DEFINE e == End(c, c.beat)
             d == Await(e, App, "endbeat", 0)
             y == [e.task[App] EXCEPT !.at = "endbeat", !.g = 0]
  <2>1. /\ e \in State
        /\ \A u \in Tasks : e.task[u] = IF u = c.beat THEN Off ELSE c.task[u]
        /\ e.read = (IF c.read = c.beat THEN 0 ELSE c.read) /\ e.beat = 0
        /\ ~e.running /\ ~e.held /\ e.conn = c.conn
        /\ e.st = c.st /\ e.sock = c.sock /\ e.srv = c.srv
        /\ e.faults = c.faults /\ e.calm = c.calm
    <3>1. /\ e \in State
          /\ \A u \in Tasks : e.task[u] = IF u = c.beat THEN Off ELSE c.task[u]
          /\ e.read = (IF c.read = c.beat THEN 0 ELSE c.read)
          /\ e.beat = (IF c.beat = c.beat THEN 0 ELSE c.beat)
          /\ e.running = c.running /\ e.conn = c.conn
          /\ e.st = c.st /\ e.sock = c.sock /\ e.srv = c.srv
          /\ e.faults = c.faults /\ e.held = c.held /\ e.calm = c.calm
      BY <1>8, <1>9, EndZero
    <3> HIDE DEF e
    <3> QED BY <1>8, <3>1
  <2> HIDE DEF e
  <2>2. e.task[App] = x
    BY <1>1, <1>9, <1>10, <2>1
  <2>3. /\ Becomes(e, d, App, y) /\ y \in TaskState /\ y.at = "endbeat" /\ y.g = 0
        /\ y.job = "disconnect" /\ y.own = 0 /\ y.depth = 0
    <3>1. y \in TaskState /\ Becomes(e, d, App, y)
      BY <1>1, <2>1, AwaitEffect DEF Places
    <3>2. /\ y.at = "endbeat" /\ y.g = 0
          /\ y.job = "disconnect" /\ y.own = 0 /\ y.depth = 0
      BY <1>1, <1>4, <1>6, <2>1, <2>2 DEF TaskState
    <3> QED BY <3>1, <3>2
  <2> HIDE DEF d, y
  <2>4. SoundBut(e, App)
    <3>1. \A u \in Others(App) : TaskOK(e, u)
      <4> TAKE u \in Others(App)
      <4>1. TaskOK(c, u) /\ u \in Tasks
        BY <1>11 DEF SoundBut, Others
      <4>2. Shape(Off) /\ Level(Off) = 0 /\ Off.at = "off"
        BY DEF Shape, Level, Off
      <4> QED BY <1>3, <1>8, <2>1, <4>1, <4>2 DEF TaskOK
    <3>2. Pointers(e)
      BY <1>9, <1>11, <2>1, Numbers DEF Pointers, SoundBut
    <3> QED BY <1>3, <1>6, <1>8, <1>11, <2>1, <2>2, <3>1, <3>2 DEF SoundBut, Others
  <2>5. Sound(d)
    <3>1. Shape(y) /\ Level(y) + e.faults <= MaxFaults + 1
      BY <1>3, <1>8, <2>1, <2>3 DEF Shape, Level
    <3>2. e.conn # 0 /\ y.job = e.task[App].job
      BY <1>3, <1>6, <1>8, <2>1, <2>2, <2>3
    <3> QED BY <1>1, <2>1, <2>3, <2>4, <3>1, <3>2, RestSound
  <2>6. Keep(d)
    BY <2>1, <2>3 DEF Keep, Becomes, Alike
  <2>7. ASSUME d.calm PROVE Calm(d, Tasks)
    <3>1. c.calm
      BY <2>1, <2>3, <2>7 DEF Becomes, Alike
    <3>2. /\ d.task[App] = y /\ ~Driving(y) /\ ~Driving(Off)
          /\ Off.depth = 0 /\ Off.job = "none" /\ Off.at = "off"
      BY <1>1, <2>1, <2>3 DEF Becomes, State, Driving, Off
    <3>3. \A u \in Others(App) : d.task[u] = IF u = c.beat THEN Off ELSE c.task[u]
      BY <1>1, <2>1, <2>3 DEF Becomes, State, Others
    <3>4. /\ d.conn = c.conn /\ d.st = c.st /\ d.sock = c.sock /\ d.srv = c.srv
          /\ d.read = (IF c.read = c.beat THEN 0 ELSE c.read)
      BY <2>1, <2>3 DEF Becomes, Alike
    \* The heartbeat task does not drive, and so it is not the read task.
    <3>5. ~Driving(c.task[c.beat])
      <4>1. c.beat \in Others(App)
        BY <1>1, <1>9, <1>14, Numbers DEF Others
      <4>2. c.task[c.beat].job = "beat" /\ Shape(c.task[c.beat])
        BY <1>11, <1>14, <4>1 DEF SoundBut, Pointers, TaskOK, Others
      <4>3. Driving(c.task[c.beat]) => c.beat = c.read
        BY <1>12, <3>1, <4>1
      <4>4. c.beat = c.read => FALSE
        BY <1>11, <1>14, <4>2 DEF SoundBut, Pointers
      <4> QED BY <4>3, <4>4
    <3>6. ASSUME NEW u \in Tasks, Driving(d.task[u])
          PROVE  /\ u \in Others(App) /\ u = d.read /\ d.task[u] = c.task[u]
                 /\ d.task[u].at \in {"read", "closing"}
      <4>1. u \in Others(App) /\ u # c.beat /\ d.task[u] = c.task[u]
        BY <3>2, <3>3, <3>6 DEF Others
      <4>2. u = c.read /\ c.task[u].at \in {"read", "closing"}
        BY <1>12, <3>1, <3>6, <4>1
      <4> QED BY <3>4, <4>1, <4>2
    <3>7. OneDriver(d, Tasks)
      BY <1>1, <2>3, <3>2, <3>6 DEF OneDriver, MayDrive, Others
    <3>8. OnCurrent(d, Tasks)
      BY <1>12, <2>3, <3>1, <3>2, <3>3, <3>4 DEF OnCurrent, Connected, Others
    <3>9. Modest(d)
      BY <1>12, <2>3, <3>1, <3>2, <3>3 DEF Modest, Others
    <3>10. SocketsDriven(d, Tasks)
      BY <1>12, <3>1, <3>3, <3>4, <3>5 DEF SocketsDriven, Others
    <3>11. Granted(d)
      BY <1>12, <3>1, <3>4 DEF Granted
    <3> QED BY <3>7, <3>8, <3>9, <3>10, <3>11 DEF Calm
  <2>8. s' = d
    BY <1>5, <1>14 DEF d, e
  <2> QED BY <2>5, <2>6, <2>7, <2>8 DEF Inv
<1> QED BY <1>13, <1>14

LEMMA InvBeatEnded ==
    ASSUME Inv(s), NEW t \in Tasks, BeatEnded(t)
    PROVE  Inv(s')
<1>1. t = App /\ s.task[App].at = "endbeat" /\ s' = CancelRead(s)
  BY DEF BeatEnded, At
<1>2. /\ SoundBut(s, App) /\ Shape(s.task[App]) /\ s.conn # 0 /\ ~s.running
      /\ ~Driving(s.task[App])
  BY <1>1, Enter DEF TaskOK, Driving
<1>3. s.task[App].job = "disconnect" /\ s.task[App].own = 0 /\ s.task[App].depth = 0
  BY <1>1, <1>2 DEF Shape
<1>4. ASSUME s.calm
      PROVE  /\ \A u \in Others(App) : Driving(s.task[u]) => u = s.read
             /\ Modest(s) /\ Granted(s)
             /\ \A h \in Conns : s.sock[h] => h = s.conn /\ s.st[h] # "DISCONNECTED"
  <2>1. Calm(s, Tasks)
    BY <1>4 DEF Inv
  <2> QED BY <2>1 DEF Calm, OneDriver, SocketsDriven, Others
<1> QED BY <1>1, <1>2, <1>3, <1>4, CancelReadInv

LEMMA InvReadEnded ==
    ASSUME Inv(s), NEW t \in Tasks, ReadEnded(t)
    PROVE  Inv(s')
<1>1. t = App /\ s.task[t].at = "endread" /\ s' = Close(s, t, s.conn)
  BY DEF ReadEnded, At
<1>2. /\ s \in State /\ SoundBut(s, t) /\ Shape(s.task[t]) /\ s.conn # 0 /\ ~s.running
      /\ s.faults \in Nat /\ MaxFaults \in Nat /\ Driving(s.task[t])
  BY <1>1, Enter DEF TaskOK, Driving
<1>3. s.task[t].job = "disconnect" /\ s.task[t].depth = 0
  BY <1>1, <1>2 DEF Shape
<1>4. s.conn \in Conns /\ s.faults <= MaxFaults
  BY <1>2 DEF State
<1>5. s.task[t].depth + 1 + s.faults <= MaxFaults + 1
  BY <1>2, <1>3, <1>4
<1>6. KeepBut(s, t)
  BY <1>2 DEF KeepBut
<1>7. ASSUME s.calm PROVE Sole(s, t, s.conn)
  <2>1. Calm(s, Tasks) /\ Alone(s, t)
    BY <1>2, <1>7, Enter DEF Inv
  <2> QED BY <1>1, <1>3, <2>1 DEF Sole, Calm, SocketsDriven
<1> QED BY <1>1, <1>2, <1>3, <1>4, <1>5, <1>6, <1>7, CloseInv

-----------------------------------------------------------------------------
(***************************************************************************)
(* Each step keeps the invariant: opening a connection and the handshake.   *)
(***************************************************************************)

LEMMA InvOpened ==
    ASSUME Inv(s), NEW t \in Tasks, Opened(t)
    PROVE  Inv(s')
<1> DEFINE g == Conn(t)
           c == [s EXCEPT !.sock[g] = TRUE, !.st[g] = "PENDING"]
           d == IF ReaderFirst THEN StartReader(c) ELSE c
           e == SetState(d, "AUTHENTICATING")
<1>1. s.task[t].at = "open" /\ s \in State /\ s.task \in [Tasks -> TaskState]
      /\ Shape(s.task[t]) /\ s.conn # 0
  BY Enter DEF Opened, At
<1>2. g \in Conns /\ s.task[t].depth \in Nat
  BY <1>1 DEF Shape, TaskState, Conn
<1>3. PICK fails \in Fails(s) : s' = Send(e, t, "nonce", fails)
  BY DEF Opened
<1>4. SoundBut(s, t) /\ KeepBut(s, t)
  BY <1>1, Enter
<1>5. Driving(s.task[t]) /\ (s.task[t].job = "redirect" => s.task[t].depth > 0)
  BY <1>1 DEF Driving, Shape
<1>6. ASSUME s.calm
      PROVE  Alone(s, t) /\ Modest(s) /\ Granted(s) /\ g = s.conn /\ s.running
             /\ \A h \in Conns : s.sock[h] => h = s.conn
  <2>1. Calm(s, Tasks)
    BY <1>6 DEF Inv
  <2> QED BY <1>1, <1>5, <1>6, <2>1, Enter DEF Calm, OnCurrent, OneDriver, MayDrive, SocketsDriven, Conn
<1>7. /\ c \in State /\ SameTasks(s, c) /\ c.faults = s.faults /\ c.calm = s.calm
      /\ c.st = [s.st EXCEPT ![g] = "PENDING"] /\ c.sock = [s.sock EXCEPT ![g] = TRUE]
      /\ c.srv = s.srv
  BY <1>1, <1>2 DEF State, SameTasks
<1> HIDE DEF c, g
<1>8. SoundBut(c, t) /\ c.conn # 0
  BY <1>1, <1>4, <1>7, SoundButSame DEF SameTasks, State
<1>9. c.task[t] = s.task[t] /\ c.task[t].at = "open"
  BY <1>1, <1>7 DEF SameTasks
<1>10. Idle(c) # {}
  <2>1. Idle(c) = Idle(s)
    BY <1>7 DEF Idle, Live, SameTasks
  <2>2. Cardinality(Idle(s)) >= 2 \/ Cardinality(Idle(s)) >= 1
    BY DEF Opened, RoomForTasks
  <2>3. Idle(s) # {}
    <3>1. Cardinality({}) = 0
      BY FS_EmptySet
    <3> QED BY <2>2, <3>1
  <2> QED BY <2>1, <2>3
\* After the read task, if it starts now.
<1>11. /\ SoundBut(d, t) /\ d \in State
       /\ d.task[t] = s.task[t] /\ d.running = s.running /\ d.conn = s.conn /\ d.st = c.st
       /\ d.sock = c.sock /\ d.srv = s.srv /\ d.faults = s.faults /\ d.held = s.held
       /\ d.calm = s.calm
       /\ \A u \in Others(t) : Committed(c, u) => Committed(d, u)
       /\ d.sock[d.conn] /\ ReaderFirst =>
              \E b \in Others(t) :
                  /\ d.task[b].at = "read" /\ d.task[b].own = d.conn /\ d.task[b].job = "read"
                  /\ d.task[b].depth = 0 /\ d.read = b
                  /\ \A u \in Tasks \ {b} : d.task[u] = c.task[u]
       /\ ~ReaderFirst => d = c
  <2>1. CASE ReaderFirst /\ c.sock[c.conn]
    <3> DEFINE b == Min(Idle(c))
               x == [Off EXCEPT !.job = "read", !.at = "read", !.own = c.conn]
    <3>1. /\ b \in Background /\ c.task[b].at = "off" /\ x \in TaskState /\ d \in State
          /\ x.job = "read" /\ x.at = "read" /\ x.own = c.conn /\ x.g = 0 /\ x.depth = 0
          /\ d.task = [c.task EXCEPT ![b] = x] /\ d.read = b
          /\ d.beat = c.beat /\ d.running = c.running /\ d.conn = c.conn /\ d.st = c.st
          /\ d.sock = c.sock /\ d.srv = c.srv /\ d.faults = c.faults /\ d.held = c.held
          /\ d.calm = c.calm
      <4>1. d = StartReader(c)
        BY <2>1
      <4> QED BY <1>7, <1>8, <1>10, <2>1, <4>1, StartReaderEffect
    <3> HIDE DEF b, x, d
    <3>2. Shape(x) /\ Level(x) = 0
      BY <1>8, <2>1, <3>1 DEF Shape, Level
    <3>3. /\ SoundBut(d, t) /\ b # t /\ b \in Tasks
          /\ d.task[b] = x /\ \A u \in Tasks \ {b} : d.task[u] = c.task[u]
          /\ \A u \in Others(t) : Committed(c, u) => Committed(d, u)
      <4>1. Starts(c, d, b, x)
        BY <3>1, <3>2 DEF Starts
      <4>2. SoundBut(c, t) /\ c.conn # 0 /\ c.task[t].at # "off"
        BY <1>8, <1>9
      <4> QED BY <4>1, <4>2, Started
    <3>4. d.task[t] = s.task[t]
      BY <1>9, <3>3
    <3> QED BY <1>7, <2>1, <3>1, <3>3, <3>4 DEF SameTasks, Others
  <2>2. CASE ReaderFirst /\ ~c.sock[c.conn]
    <3>1. d = [c EXCEPT !.read = 0]
      BY <2>2 DEF StartReader
    <3> HIDE DEF d
    <3>2. /\ d \in State /\ d.task = c.task /\ d.read = 0 /\ d.beat = c.beat
          /\ d.running = c.running /\ d.conn = c.conn /\ d.st = c.st
          /\ d.sock = c.sock /\ d.srv = c.srv /\ d.faults = c.faults /\ d.held = c.held
          /\ d.calm = c.calm
      BY <1>7, <3>1 DEF State
    <3>3. SoundBut(d, t)
      BY <1>8, <3>2 DEF SoundBut, Pointers, TaskOK
    <3> QED BY <1>7, <1>9, <2>2, <3>2, <3>3 DEF SameTasks, Committed, Anchored, Connected
  <2>3. CASE ~ReaderFirst
    BY <1>7, <1>8, <1>9, <2>3 DEF SameTasks
  <2> QED BY <2>1, <2>2, <2>3
<1> HIDE DEF d
<1>12. /\ e \in State /\ SameTasks(d, e) /\ e.faults = d.faults /\ e.calm = d.calm
       /\ e.sock = d.sock /\ e.srv = d.srv
       /\ e.st = [d.st EXCEPT ![d.conn] = "AUTHENTICATING"]
  BY <1>11, SetStateEffect
<1> HIDE DEF e
<1>13. SoundBut(e, t) /\ e.conn # 0 /\ e.task[t] = s.task[t] /\ e.conn = s.conn
  <2>1. e.faults <= d.faults
    BY <1>11, <1>12 DEF State
  <2> QED BY <1>1, <1>11, <1>12, <2>1, SoundButSame DEF SameTasks
<1>14. \A h \in {0} \cup Conns : Connected(s, h) => Connected(e, h)
  BY <1>1, <1>7, <1>11, <1>12 DEF Connected, State
<1>15. KeepBut(e, t)
  <2>1. Anchored(s, t) => Anchored(e, t)
    BY <1>1, <1>13, <1>14 DEF Anchored, TaskState
  <2>2. \A u \in Others(t) : Committed(s, u) => Committed(c, u)
    <3> SUFFICES ASSUME NEW u \in Others(t), Connected(s, s.task[u].own)
                 PROVE  Connected(c, s.task[u].own)
      BY <1>7 DEF Committed, Anchored, SameTasks
    <3>1. s.task[u].own \in {0} \cup Conns
      BY <1>1 DEF Others, TaskState
    <3> QED BY <1>1, <1>2, <1>7, <3>1 DEF Connected, State
  <2>3. \A u \in Others(t) : Committed(d, u) => Committed(e, u)
    <3> SUFFICES ASSUME NEW u \in Others(t), Connected(d, d.task[u].own)
                 PROVE  Connected(e, d.task[u].own)
      BY <1>12 DEF Committed, Anchored, SameTasks
    <3>1. d.task[u].own \in {0} \cup Conns
      BY <1>11 DEF Others, TaskState, State
    <3> QED BY <1>11, <1>12, <3>1 DEF Connected, State
  <2> QED BY <1>4, <1>11, <1>12, <2>1, <2>2, <2>3 DEF KeepBut, SameTasks, Others
<1> DEFINE y == [e.task[t] EXCEPT !.at = "nonce", !.g = e.conn]
<1>16. /\ y \in TaskState /\ Becomes(e, Await(e, t, "nonce", e.conn), t, y)
       /\ e.conn \in Conns
  BY <1>12, <1>13, AwaitEffect DEF State, Places
<1>17. y.at = "nonce" /\ y.job = s.task[t].job /\ y.own = s.task[t].own /\ y.depth = s.task[t].depth
  BY <1>1, <1>13 DEF TaskState
<1> HIDE DEF y
<1>18. Shape(y)
  BY <1>1, <1>5, <1>17 DEF Shape
<1>19. ASSUME e.calm
       PROVE  e.sock[e.conn] /\ Calm(Await(e, t, "nonce", e.conn), Tasks)
  <2>1. s.calm /\ g = s.conn
    BY <1>6, <1>11, <1>12, <1>19
  <2>2. e.sock[e.conn] /\ d.sock[d.conn]
    BY <1>1, <1>2, <1>7, <1>11, <1>12, <1>13, <2>1 DEF State
  <2>3. e.st[e.conn] = "AUTHENTICATING" /\ Connected(e, e.conn)
    BY <1>11, <1>12, <1>13, <1>16 DEF Connected, State
  <2>4. \A h \in Conns : e.sock[h] => h = e.conn /\ e.st[h] # "DISCONNECTED"
    BY <1>1, <1>2, <1>6, <1>7, <1>11, <1>12, <1>13, <2>1, <2>3 DEF State
  <2>5. Granted(e)
    <3> SUFFICES ASSUME NEW h \in Conns, e.st[h] = "AUTHENTICATED"
                 PROVE  e.sock[h] /\ e.srv[h] = "accepts"
      BY DEF Granted
    <3>1. h # e.conn
      BY <2>3
    <3>2. s.st[h] = "AUTHENTICATED"
      BY <1>1, <1>2, <1>7, <1>11, <1>12, <1>13, <2>1, <3>1 DEF State
    <3>3. s.sock[h] /\ s.srv[h] = "accepts"
      BY <1>6, <2>1, <3>2 DEF Granted
    <3> QED BY <1>6, <1>13, <2>1, <3>1, <3>3
  <2>6. e.running /\ e.task = d.task /\ e.read = d.read /\ e.conn = d.conn
    BY <1>6, <1>11, <1>12, <2>1 DEF SameTasks
  <2>7. s.task[t].depth <= 1 /\ s.task[t].job \notin {"redirect", "migrate"}
    BY <1>6, <2>1 DEF Modest
  <2>8. CASE ReaderFirst
    <3>1. PICK b \in Others(t) :
              /\ d.task[b].at = "read" /\ d.task[b].own = d.conn /\ d.task[b].job = "read"
              /\ d.task[b].depth = 0 /\ d.read = b
              /\ \A u \in Tasks \ {b} : d.task[u] = c.task[u]
      BY <1>11, <2>2, <2>8
    <3>2. \A u \in Others(t) : u # b => ~Driving(e.task[u]) /\ e.task[u] = s.task[u]
      BY <1>6, <1>7, <2>1, <2>6, <3>1 DEF Alone, SameTasks, Others
    <3>3. OneDriver(e, Others(t))
      BY <2>6, <3>1, <3>2 DEF OneDriver, MayDrive
    <3>4. OnCurrent(e, Others(t))
      BY <2>2, <2>3, <2>6, <3>1, <3>2 DEF OnCurrent, Driving
    <3>5. Modest(e)
      BY <1>6, <1>13, <2>1, <2>6, <3>1, <3>2 DEF Modest, Others
    <3>6. SocketsDriven(e, Others(t))
      <4>1. Driving(e.task[b]) /\ e.task[b].at \notin {"open", "sleep"}
        BY <2>6, <3>1 DEF Driving
      <4> QED BY <2>4, <4>1 DEF SocketsDriven
    <3>7. ~Driving(y)
      BY <1>17, <2>8 DEF Driving
    <3> QED BY <1>12, <1>16, <1>17, <2>2, <2>5, <2>7, <3>3, <3>4, <3>5, <3>6, <3>7, RestCalm
  <2>9. CASE ~ReaderFirst
    <3>1. e.task = s.task /\ e.read = s.read
      BY <1>7, <1>11, <2>6, <2>9 DEF SameTasks
    <3>2. Alone(e, t)
      BY <1>6, <2>1, <3>1 DEF Alone
    <3>3. OneDriver(e, Others(t)) /\ OnCurrent(e, Others(t))
      BY <3>2 DEF OneDriver, OnCurrent, Alone, Driving
    <3>4. Modest(e)
      BY <1>6, <2>1, <3>1 DEF Modest
    <3>5. Driving(y) /\ y.at \notin {"open", "sleep"}
      BY <1>17, <2>9 DEF Driving
    <3> QED BY <1>12, <1>16, <1>17, <2>2, <2>4, <2>5, <2>6, <2>7, <3>2, <3>3, <3>4, <3>5, RestCalm
  <2> QED BY <2>2, <2>8, <2>9
<1>20. fails \in Fails(e)
  BY <1>3, <1>11, <1>12 DEF Fails
<1>21. ~(e.task[t].job = "redirect" /\ e.task[t].depth = 0)
  BY <1>5, <1>13
<1> QED BY <1>3, <1>13, <1>15, <1>18, <1>19, <1>20, <1>21, SendInv DEF y

LEMMA InvOpenFails ==
    ASSUME Inv(s), NEW t \in Tasks, OpenFails(t)
    PROVE  Inv(s')
<1> DEFINE n == s.faults - 1
           c == [s EXCEPT !.faults = @ - 1]
<1>1. s.task[t].at = "open" /\ s \in State /\ s.task \in [Tasks -> TaskState]
      /\ Shape(s.task[t]) /\ s.conn # 0 /\ SoundBut(s, t) /\ KeepBut(s, t)
  BY Enter DEF OpenFails, At
<1>2. n \in 0..MaxFaults /\ n <= s.faults
  BY <1>1, SessionAssumption DEF OpenFails, State
<1>3. c = [s EXCEPT !.faults = n]
  BY <1>1 DEF State
<1>4. s' = Unwind(c, t)
  BY DEF OpenFails
<1> HIDE DEF n, c
<1>5. /\ c \in State /\ SameTasks(s, c) /\ c.faults = n /\ c.calm = s.calm
      /\ c.st = s.st /\ c.sock = s.sock /\ c.srv = s.srv
  BY <1>1, <1>2, <1>3 DEF State, SameTasks
<1>6. SoundBut(c, t)
  BY <1>1, <1>2, <1>5, SoundButSame
<1>7. KeepBut(c, t)
  BY <1>1, <1>5 DEF KeepBut, Committed, Anchored, Connected, SameTasks
<1>8. ASSUME c.calm PROVE Calm(c, Others(t)) /\ Alone(c, t)
  <2>1. Calm(s, Others(t)) /\ Alone(s, t)
    BY <1>1, <1>5, <1>8, Enter DEF Driving
  <2> QED BY <1>5, <2>1 DEF SameTasks, Calm, OneDriver, OnCurrent, Modest, SocketsDriven,
                            Granted, Connected, Alone
<1>9. ~(c.task[t].job = "redirect" /\ c.task[t].depth = 0)
  BY <1>1, <1>5 DEF Shape, SameTasks
<1>10. c.conn # 0
  BY <1>1, <1>5 DEF SameTasks
<1> QED BY <1>4, <1>6, <1>7, <1>8, <1>9, <1>10, UnwindInv DEF Mid

LEMMA InvNonceAnswered ==
    ASSUME Inv(s), NEW t \in Tasks, NonceAnswered(t)
    PROVE  Inv(s')
<1> DEFINE v == IF Conn(t) = s.conn THEN "accepts" ELSE "refuses"
           w == IF s.sock[s.conn] THEN v ELSE s.srv[s.conn]
           c == [s EXCEPT !.srv[s.conn] = IF s.sock[s.conn] THEN v ELSE @]
<1>1. /\ s.task[t].at = "nonce" /\ Reading(s, Conn(t)) /\ s \in State
      /\ s.task \in [Tasks -> TaskState] /\ Shape(s.task[t]) /\ s.conn # 0
      /\ SoundBut(s, t) /\ KeepBut(s, t)
  BY Enter DEF NonceAnswered, At
<1>2. PICK fails \in Fails(s) : s' = Send(c, t, "auth", fails)
  BY DEF NonceAnswered
<1>3. s.conn \in Conns /\ Conn(t) \in {0} \cup Conns
  BY <1>1 DEF State, TaskState, Conn
<1>4. w \in {"none", "accepts", "refuses"} /\ v \in {"accepts", "refuses"}
  BY <1>1, <1>3 DEF State
<1>5. c = [s EXCEPT !.srv = [s.srv EXCEPT ![s.conn] = w]]
  BY <1>1, <1>3 DEF State
<1> DEFINE f == [s.srv EXCEPT ![s.conn] = w]
<1>6. f \in [Conns -> {"none", "accepts", "refuses"}]
      /\ (Conn(t) = s.conn => \A h \in Conns : s.srv[h] = "accepts" => f[h] = "accepts")
  BY <1>1, <1>3, <1>4 DEF State
<1>7. c = [s EXCEPT !.srv = f]
  BY <1>5
<1> HIDE DEF c, f
<1>8. /\ c \in State /\ SameTasks(s, c) /\ c.faults = s.faults /\ c.calm = s.calm
      /\ c.st = s.st /\ c.sock = s.sock /\ c.srv = f
  BY <1>1, <1>6, <1>7 DEF State, SameTasks
<1>9. SoundBut(c, t) /\ c.conn # 0 /\ c.task[t] = s.task[t]
  <2>1. c.faults <= s.faults
    BY <1>1, <1>8 DEF State
  <2> QED BY <1>1, <1>8, <2>1, SoundButSame DEF SameTasks
<1>10. KeepBut(c, t)
  BY <1>1, <1>8 DEF KeepBut, Committed, Anchored, Connected, SameTasks
<1> DEFINE y == [c.task[t] EXCEPT !.at = "auth", !.g = c.conn]
<1>11. y \in TaskState /\ Becomes(c, Await(c, t, "auth", c.conn), t, y)
  BY <1>8, <1>9, AwaitEffect DEF State, Places
<1>12. y.at = "auth" /\ y.job = s.task[t].job /\ y.own = s.task[t].own /\ y.depth = s.task[t].depth
  BY <1>1, <1>9 DEF TaskState
<1> HIDE DEF y
<1>13. Shape(y)
  BY <1>1, <1>12 DEF Shape
<1>14. ~(c.task[t].job = "redirect" /\ c.task[t].depth = 0)
  BY <1>1, <1>9 DEF Shape
<1>15. ReaderFirst
  BY <1>1, ReaderCommitted
<1>16. ASSUME c.calm
       PROVE  c.sock[c.conn] /\ Calm(Await(c, t, "auth", c.conn), Tasks)
  <2>1. s.calm /\ Conn(t) = s.conn /\ s.sock[s.conn]
    BY <1>1, <1>3, <1>8, <1>16, ReadingCurrent
  <2>2. ~Driving(s.task[t])
    BY <1>1, <1>15 DEF Driving
  <2>3. Calm(s, Others(t))
    BY <1>1, <2>1, <2>2, Enter
  <2>4. OneDriver(c, Others(t)) /\ OnCurrent(c, Others(t)) /\ Modest(c) /\ SocketsDriven(c, Others(t))
    BY <1>8, <2>3 DEF Calm, OneDriver, MayDrive, OnCurrent, Modest, SocketsDriven, Connected, SameTasks
  <2>5. Granted(c)
    BY <1>6, <1>8, <2>1, <2>3 DEF Calm, Granted
  <2>6. ~Driving(y) /\ y.depth <= 1 /\ y.job \notin {"redirect", "migrate"}
    BY <1>12, <1>15, <2>3 DEF Driving, Calm, Modest
  <2> QED BY <1>8, <1>11, <1>12, <2>1, <2>4, <2>5, <2>6, RestCalm DEF SameTasks
<1>17. fails \in Fails(c)
  BY <1>2, <1>8 DEF Fails
<1> QED BY <1>2, <1>9, <1>10, <1>13, <1>14, <1>16, <1>17, SendInv DEF y

LEMMA InvHandshakeRefused ==
    ASSUME Inv(s), NEW t \in Tasks, HandshakeRefused(t)
    PROVE  Inv(s')
<1> DEFINE c == [s EXCEPT !.calm = FALSE]
<1>1. /\ s.task[t].at = "auth" /\ s \in State /\ Shape(s.task[t]) /\ s.conn # 0
      /\ SoundBut(s, t) /\ KeepBut(s, t)
  BY Enter DEF HandshakeRefused, At
<1>2. /\ c \in State /\ SameTasks(s, c) /\ c.faults = s.faults /\ ~c.calm
      /\ c.st = s.st /\ c.sock = s.sock /\ c.srv = s.srv
  BY <1>1 DEF State, SameTasks
<1>3. s' = Unwind(c, t)
  BY DEF HandshakeRefused
<1> HIDE DEF c
<1>4. SoundBut(c, t)
  BY <1>1, <1>2 DEF SoundBut, Pointers, TaskOK, SameTasks
<1>5. KeepBut(c, t)
  BY <1>1, <1>2 DEF KeepBut, Committed, Anchored, Connected, SameTasks
<1>6. ~(c.task[t].job = "redirect" /\ c.task[t].depth = 0) /\ c.conn # 0
  BY <1>1, <1>2 DEF Shape, SameTasks
<1> QED BY <1>2, <1>3, <1>4, <1>5, <1>6, UnwindInv DEF Mid

LEMMA InvAuthenticated ==
    ASSUME Inv(s), NEW t \in Tasks, Authenticated(t)
    PROVE  Inv(s')
<1> DEFINE c == SetState(s, "AUTHENTICATED")
           d == IF ReaderFirst THEN c ELSE StartReader(c)
           e == StartBeat(d)
<1>1. /\ s.task[t].at = "auth" /\ Reading(s, Conn(t)) /\ s \in State
      /\ s.task \in [Tasks -> TaskState] /\ Shape(s.task[t]) /\ s.conn # 0
      /\ SoundBut(s, t) /\ KeepBut(s, t)
  BY Enter DEF Authenticated, At
<1>2. s.srv[Conn(t)] = "accepts" /\ s' = Established(e, t)
  BY DEF Authenticated
<1>3. s.conn \in Conns /\ Conn(t) \in {0} \cup Conns
  BY <1>1 DEF State, TaskState, Conn
<1>4. ReaderFirst /\ \E u \in Others(t) : Committed(s, u)
  BY <1>1, ReaderCommitted
<1>5. d = c
  BY <1>4
<1>6. /\ c \in State /\ SameTasks(s, c) /\ c.faults = s.faults /\ c.calm = s.calm
      /\ c.sock = s.sock /\ c.srv = s.srv /\ c.st = [s.st EXCEPT ![s.conn] = "AUTHENTICATED"]
  BY <1>1, SetStateEffect
<1> HIDE DEF c, d
<1>7. SoundBut(c, t) /\ c.conn # 0 /\ c.task[t] = s.task[t]
  <2>1. c.faults <= s.faults
    BY <1>1, <1>6 DEF State
  <2> QED BY <1>1, <1>6, <2>1, SoundButSame DEF SameTasks
<1>8. \A u \in Others(t) : Committed(s, u) => Committed(c, u)
  <2> SUFFICES ASSUME NEW u \in Others(t), Connected(s, s.task[u].own)
               PROVE  Connected(c, s.task[u].own)
    BY <1>6 DEF Committed, Anchored, SameTasks
  <2>1. s.task[u].own \in {0} \cup Conns
    BY <1>1 DEF Others, TaskState
  <2> QED BY <1>1, <1>3, <1>6, <2>1 DEF Connected, State
<1>9. Room(s) => Room(c)
  BY <1>6 DEF Room, SameTasks
<1>10. c.calm => Calm(c, Others(t))
  <2> SUFFICES ASSUME c.calm PROVE Calm(c, Others(t))
    OBVIOUS
  <2>1. s.calm /\ Conn(t) = s.conn /\ s.sock[s.conn]
    BY <1>1, <1>3, <1>6, ReadingCurrent
  <2>2. ~Driving(s.task[t])
    BY <1>1 DEF Driving
  <2>3. Calm(s, Others(t))
    BY <1>1, <2>1, <2>2, Enter
  <2>4. c.st[s.conn] = "AUTHENTICATED" /\ \A h \in Conns : h # s.conn => c.st[h] = s.st[h]
    BY <1>1, <1>3, <1>6 DEF State
  <2>5. OneDriver(c, Others(t)) /\ Modest(c)
    BY <1>6, <2>3 DEF Calm, OneDriver, MayDrive, Modest, SameTasks
  <2>6. OnCurrent(c, Others(t))
    BY <1>3, <1>6, <2>3, <2>4 DEF Calm, OnCurrent, Connected, SameTasks
  <2>7. SocketsDriven(c, Others(t))
    BY <1>6, <2>3, <2>4 DEF Calm, SocketsDriven, SameTasks
  <2>8. Granted(c)
    BY <1>2, <1>6, <2>1, <2>3, <2>4 DEF Calm, Granted
  <2> QED BY <2>3, <2>5, <2>6, <2>7, <2>8 DEF Calm
<1>11. s.running /\ s.task[t].job = "redirect" => Room(s)
  BY RoomUnused DEF Authenticated, RoomToMigrate, RoomForConn
\* After the heartbeat task, if the client runs.
<1>12. /\ SoundBut(e, t) /\ e.conn # 0 /\ e.running = c.running /\ e.calm = c.calm
       /\ e.task[t] = c.task[t] /\ (Room(c) => Room(e))
       /\ \A u \in Others(t) : Committed(c, u) => Committed(e, u)
       /\ e.calm => Calm(e, Others(t))
  <2>1. CASE c.running
    <3> DEFINE b == Min(Idle(c))
               x == [Off EXCEPT !.job = "beat", !.at = "interval"]
    <3>1. Idle(c) # {}
      <4>1. Idle(c) = Idle(s)
        BY <1>6 DEF Idle, Live, SameTasks
      <4>2. Cardinality(Idle(s)) >= 2
        BY <1>6, <2>1 DEF Authenticated, RoomForTasks, SameTasks
      <4>3. Cardinality({}) = 0
        BY FS_EmptySet
      <4> QED BY <4>1, <4>2, <4>3
    <3>2. /\ b \in Background /\ c.task[b].at = "off" /\ x \in TaskState /\ e \in State
          /\ x.job = "beat" /\ x.at = "interval" /\ x.own = 0 /\ x.g = 0 /\ x.depth = 0
          /\ e.task = [c.task EXCEPT ![b] = x] /\ e.beat = b
          /\ e.read = c.read /\ e.running = c.running /\ e.conn = c.conn /\ e.st = c.st
          /\ e.sock = c.sock /\ e.srv = c.srv /\ e.faults = c.faults /\ e.held = c.held
          /\ e.calm = c.calm
      <4>1. e = StartBeat(c)
        BY <1>5
      <4> HIDE DEF e
      <4> QED BY <1>6, <2>1, <3>1, <4>1, StartBeatEffect
    <3> HIDE DEF b, x, e
    <3>3. Starts(c, e, b, x)
      <4>1. Shape(x) /\ Level(x) = 0
        BY <3>2 DEF Shape, Level
      <4> QED BY <3>2, <4>1 DEF Starts
    <3>4. /\ SoundBut(e, t) /\ b # t /\ b \in Tasks
          /\ e.task[b] = x /\ \A u \in Tasks \ {b} : e.task[u] = c.task[u]
          /\ \A u \in Others(t) : Committed(c, u) => Committed(e, u)
      <4>1. SoundBut(c, t) /\ c.conn # 0 /\ c.task[t].at # "off"
        BY <1>1, <1>7
      <4> QED BY <3>3, <4>1, Started
    <3>5. Room(c) => Room(e)
      <4> SUFFICES ASSUME NEW h \in Conns, \A u \in Tasks : h \notin {c.task[u].g, c.task[u].own}
                   PROVE  \A u \in Tasks : h \notin {e.task[u].g, e.task[u].own}
        BY DEF Room
      <4>1. h # 0
        BY Numbers
      <4> QED BY <3>2, <3>4, <4>1
    <3>6. ASSUME e.calm PROVE Calm(e, Others(t))
      <4>1. Calm(c, Others(t))
        BY <1>10, <3>2, <3>6
      <4>2. ~Driving(x) /\ ~Driving(c.task[b])
        BY <3>2 DEF Driving
      <4>3. \A u \in Others(t) : Driving(e.task[u]) <=> Driving(c.task[u])
        BY <3>4, <4>2 DEF Others
      <4>4. \A u \in Others(t) : u # b => e.task[u] = c.task[u]
        BY <3>4 DEF Others
      <4>5. OneDriver(e, Others(t))
        BY <3>2, <4>1, <4>2, <4>3, <4>4 DEF Calm, OneDriver, MayDrive
      <4>6. OnCurrent(e, Others(t))
        BY <3>2, <3>4, <4>1, <4>4 DEF Calm, OnCurrent, Connected
      <4>7. Modest(e)
        BY <3>2, <3>4, <4>1 DEF Calm, Modest
      <4>8. SocketsDriven(e, Others(t)) /\ Granted(e)
        BY <3>2, <4>1, <4>2, <4>3, <4>4 DEF Calm, SocketsDriven, Granted
      <4> QED BY <4>5, <4>6, <4>7, <4>8 DEF Calm
    <3> QED BY <1>7, <3>2, <3>4, <3>5, <3>6
  <2>2. CASE ~c.running
    <3>1. e = [c EXCEPT !.beat = 0]
      BY <1>5, <2>2 DEF StartBeat
    <3> HIDE DEF e
    <3>2. /\ e \in State /\ e.task = c.task /\ e.beat = 0 /\ e.read = c.read
          /\ e.running = c.running /\ e.conn = c.conn /\ e.st = c.st
          /\ e.sock = c.sock /\ e.srv = c.srv /\ e.faults = c.faults /\ e.held = c.held
          /\ e.calm = c.calm
      BY <1>6, <3>1 DEF State
    <3>3. SoundBut(e, t)
      BY <1>7, <3>2 DEF SoundBut, Pointers, TaskOK
    <3>4. e.calm => Calm(e, Others(t))
      BY <1>10, <3>2 DEF Calm, OneDriver, MayDrive, OnCurrent, Modest, SocketsDriven, Granted, Connected
    <3>5. Room(c) => Room(e)
      BY <3>2 DEF Room
    <3>6. \A u \in Others(t) : Committed(c, u) => Committed(e, u)
      BY <3>2 DEF Committed, Anchored, Connected
    <3> QED BY <1>7, <3>2, <3>3, <3>4, <3>5, <3>6
  <2>3. c.running \in BOOLEAN
    BY <1>6 DEF State
  <2> QED BY <2>1, <2>2, <2>3
<1> HIDE DEF e
<1>13. e.running => \E u \in Others(t) : Committed(e, u)
  BY <1>4, <1>8, <1>12
<1>14. e.running /\ e.task[t].job = "redirect" => Room(e)
  BY <1>6, <1>7, <1>9, <1>11, <1>12 DEF SameTasks
<1> QED BY <1>2, <1>12, <1>13, <1>14, EstablishedInv

LEMMA InvTimeout ==
    ASSUME Inv(s), NEW t \in Tasks, Timeout(t)
    PROVE  Inv(s')
<1> DEFINE n == IF Reading(s, Conn(t)) THEN s.faults - 1 ELSE s.faults
           k == s.calm /\ At(t, "answer")
           c == IF Reading(s, Conn(t)) THEN [s EXCEPT !.faults = @ - 1] ELSE s
           d == [c EXCEPT !.calm = @ /\ At(t, "answer")]
<1>1. /\ s.task[t].at \in {"nonce", "auth", "pong", "answer"} /\ s \in State /\ s.conn # 0
      /\ s.task \in [Tasks -> TaskState] /\ Shape(s.task[t]) /\ SoundBut(s, t) /\ KeepBut(s, t)
  BY Enter DEF Timeout
<1>2. n \in 0..MaxFaults /\ n <= s.faults
  <2>1. s.faults \in 0..MaxFaults /\ MaxFaults \in Nat
    BY <1>1, SessionAssumption DEF State
  <2> QED BY <2>1 DEF Timeout
<1>3. c = [s EXCEPT !.faults = n]
  BY <1>1 DEF State
<1>4. s' = IF At(t, "pong") THEN BeatNext(c, t) ELSE Unwind(d, t)
  BY DEF Timeout
<1>5. k \in BOOLEAN
  OBVIOUS
<1>6. d = [s EXCEPT !.faults = n, !.calm = k]
  BY <1>1, <1>3 DEF State
<1> HIDE DEF n, c, d
<1>7. /\ c \in State /\ SameTasks(s, c) /\ c.faults = n /\ c.calm = s.calm
      /\ c.st = s.st /\ c.sock = s.sock /\ c.srv = s.srv
  BY <1>1, <1>2, <1>3 DEF State, SameTasks
<1>8. /\ d \in State /\ SameTasks(s, d) /\ d.faults = n /\ d.calm = k
      /\ d.st = s.st /\ d.sock = s.sock /\ d.srv = s.srv
  <2> HIDE DEF k
  <2> QED BY <1>1, <1>2, <1>5, <1>6 DEF State, SameTasks
<1>9. CASE At(t, "pong")
  <2>1. s.task[t].at = "pong" /\ s.task[t].job = "beat" /\ s.task[t].depth = 0
    BY <1>1, <1>9 DEF At, Shape
  <2>2. SoundBut(c, t)
    BY <1>1, <1>2, <1>7, SoundButSame
  <2>3. s.task[t].own = 0
    BY <1>1, <2>1 DEF SoundBut
  <2>4. KeepOthers(c, t)
    BY <1>1, <1>7, <2>1, <2>3
       DEF KeepBut, KeepOthers, Committed, Anchored, Connected, SameTasks, Others
  <2>5. c.calm => Calm(c, Others(t))
    <3>1. s.calm => Calm(s, Others(t))
      BY <2>1, Enter DEF Driving
    <3> QED BY <1>7, <3>1 DEF SameTasks, Calm, OneDriver, MayDrive, OnCurrent, Modest, SocketsDriven,
                              Granted, Connected
  <2>6. c.task[t] = s.task[t] /\ c.conn # 0
    BY <1>1, <1>7 DEF SameTasks
  <2>7. s' = BeatNext(c, t)
    BY <1>4, <1>9
  <2> QED BY <2>1, <2>2, <2>4, <2>5, <2>6, <2>7, BeatNextInv
<1>10. CASE ~At(t, "pong")
  <2>1. SoundBut(d, t)
    BY <1>1, <1>2, <1>8, SoundButSame
  <2>2. KeepBut(d, t)
    BY <1>1, <1>8 DEF KeepBut, Committed, Anchored, Connected, SameTasks
  <2>3. ASSUME d.calm PROVE Calm(d, Others(t)) /\ d.task[t].depth = 0
    <3>1. s.calm /\ s.task[t].at = "answer" /\ s.task[t].depth = 0
      BY <1>1, <1>8, <2>3 DEF At, Shape
    <3>2. Calm(s, Others(t))
      BY <3>1, Enter DEF Driving
    <3> QED BY <1>8, <3>1, <3>2 DEF SameTasks, Calm, OneDriver, MayDrive, OnCurrent, Modest,
                                    SocketsDriven, Granted, Connected
  <2>4. ~(d.task[t].job = "redirect" /\ d.task[t].depth = 0)
    BY <1>1, <1>8 DEF Shape, SameTasks
  <2>5. d.conn # 0
    BY <1>1, <1>8 DEF SameTasks
  <2>6. s' = Unwind(d, t)
    BY <1>4, <1>10
  <2>7. Mid(d, t)
    BY <2>1, <2>2, <2>3, <2>4, <2>5 DEF Mid
  <2> QED BY <2>6, <2>7, UnwindInv
<1> QED BY <1>9, <1>10

LEMMA InvSleepDone ==
    ASSUME Inv(s), NEW t \in Tasks, SleepDone(t)
    PROVE  Inv(s')
<1>1. /\ s.task[t].at = "sleep" /\ Shape(s.task[t]) /\ SoundBut(s, t) /\ KeepBut(s, t)
      /\ s.task[t].depth > 0
  BY Enter DEF SleepDone, At, Shape
<1>2. ASSUME s.calm PROVE Calm(s, Others(t)) /\ Alone(s, t) /\ s.running
  <2>1. Driving(s.task[t])
    BY <1>1 DEF Driving
  <2> QED BY <1>1, <1>2, <2>1, Enter DEF Inv, Calm, OneDriver, MayDrive
<1>3. Room(s) /\ s' = Establish(s, t)
  BY RoomUnused DEF SleepDone, RoomForConn
<1> QED BY <1>1, <1>2, <1>3, EstablishInv

-----------------------------------------------------------------------------
(***************************************************************************)
(* Each step keeps the invariant: closing, heartbeats, answers, reading and *)
(* redirects.                                                               *)
(***************************************************************************)

LEMMA InvCloseDone ==
    ASSUME Inv(s), NEW t \in Tasks, CloseDone(t)
    PROVE  Inv(s')
<1>1. /\ s.task[t].at = "closing" /\ s \in State /\ s.task \in [Tasks -> TaskState]
      /\ Shape(s.task[t]) /\ TaskOK(s, t) /\ s.conn # 0 /\ SoundBut(s, t)
      /\ s.task[t].depth \in Nat /\ s.faults \in Nat /\ MaxFaults \in Nat
  BY Enter DEF CloseDone, At
<1>2. Conn(t) \in Conns
  BY <1>1 DEF Shape, TaskState, Conn
<1>3. s.task[t].depth + 1 + s.faults <= MaxFaults + 1
  BY <1>1 DEF TaskOK, Level
<1>4. ASSUME s.calm PROVE Sole(s, t, Conn(t))
  <2>1. Calm(s, Tasks) /\ Driving(s.task[t])
    BY <1>1, <1>4 DEF Inv, Driving
  <2>2. Alone(s, t)
    BY <1>4, <2>1, Enter
  <2>3. Conn(t) = s.conn /\ s.task[t].depth = 0
    BY <1>1, <2>1 DEF Calm, OnCurrent, Conn
  <2> QED BY <2>1, <2>2, <2>3 DEF Sole, Calm, OneDriver, MayDrive, SocketsDriven
<1>5. s' = Closed(s, t, Conn(t))
  BY DEF CloseDone
<1>6. s.running /\ ~AutoReconnect /\ s.task[t].job = "redirect" => Room(s)
  BY RoomUnused DEF CloseDone, RoomToMigrate, RoomForConn
<1> QED BY <1>1, <1>2, <1>3, <1>4, <1>5, <1>6, ClosedInv

LEMMA InvBeatWakes ==
    ASSUME Inv(s), NEW t \in Tasks, BeatWakes(t)
    PROVE  Inv(s')
<1>1. /\ s.task[t].at = "interval" /\ s \in State /\ s.task \in [Tasks -> TaskState]
      /\ Shape(s.task[t]) /\ s.conn # 0 /\ SoundBut(s, t) /\ KeepBut(s, t)
      /\ ~Driving(s.task[t])
  BY Enter DEF BeatWakes, At, Driving
<1>2. s.task[t].job = "beat" /\ s.task[t].depth = 0 /\ s.task[t].own = 0
  BY <1>1 DEF Shape
<1>3. KeepOthers(s, t)
  BY <1>1, <1>2 DEF KeepBut, KeepOthers, Anchored, Connected, Others
<1>4. s.calm => Calm(s, Others(t))
  BY <1>1, Enter
<1>5. CASE Connected(s, s.conn)
  <2>1. PICK fails \in Fails(s) : s' = Send(s, t, "pong", fails)
    BY <1>5 DEF BeatWakes
  <2> DEFINE y == [s.task[t] EXCEPT !.at = "pong", !.g = s.conn]
  <2>2. y \in TaskState /\ Becomes(s, Await(s, t, "pong", s.conn), t, y)
    BY <1>1, AwaitEffect DEF State, Places
  <2>3. y.at = "pong" /\ y.job = "beat" /\ y.depth = 0 /\ y.own = 0
    BY <1>1, <1>2 DEF TaskState
  <2> HIDE DEF y
  <2>4. Shape(y) /\ ~Driving(y)
    BY <2>3 DEF Shape, Driving
  <2>5. s.calm => Calm(Await(s, t, "pong", s.conn), Tasks)
    BY <1>1, <1>4, <2>2, <2>3, <2>4, RestCalm DEF Calm
  <2>6. Shape([s.task[t] EXCEPT !.at = "pong", !.g = s.conn])
    BY <2>4 DEF y
  <2>7. s.task[t].job # "redirect" /\ ~(s.task[t].depth > 0)
    BY <1>2
  <2> QED BY <1>1, <1>4, <2>1, <2>5, <2>6, <2>7, SendInv
<1>6. CASE ~Connected(s, s.conn)
  <2>1. s' = End(s, t)
    BY <1>6 DEF BeatWakes
  <2> QED BY <1>1, <1>3, <1>4, <2>1, EndInv
<1> QED BY <1>5, <1>6

LEMMA InvPong ==
    ASSUME Inv(s), NEW t \in Tasks, Pong(t)
    PROVE  Inv(s')
<1>1. /\ s.task[t].at = "pong" /\ Shape(s.task[t]) /\ s.conn # 0 /\ SoundBut(s, t)
      /\ KeepBut(s, t) /\ ~Driving(s.task[t])
  BY Enter DEF Pong, At, Driving
<1>2. s.task[t].job = "beat" /\ s.task[t].depth = 0 /\ s.task[t].own = 0
  BY <1>1 DEF Shape
<1>3. KeepOthers(s, t)
  BY <1>1, <1>2 DEF KeepBut, KeepOthers, Anchored, Connected, Others
<1>4. s.calm => Calm(s, Others(t))
  BY <1>1, Enter
<1>5. s' = BeatNext(s, t)
  BY DEF Pong
<1> QED BY <1>1, <1>2, <1>3, <1>4, <1>5, BeatNextInv

LEMMA InvAnswered ==
    ASSUME Inv(s), NEW t \in Tasks, Answered(t)
    PROVE  Inv(s')
<1>1. /\ s.task[t].at = "answer" /\ Shape(s.task[t]) /\ SoundBut(s, t)
      /\ KeepBut(s, t) /\ ~Driving(s.task[t])
  BY Enter DEF Answered, At, Driving
<1>2. s.task[t].job = "request" /\ s.task[t].depth = 0 /\ s.task[t].own = 0
  BY <1>1 DEF Shape
<1>3. KeepOthers(s, t)
  BY <1>1, <1>2 DEF KeepBut, KeepOthers, Anchored, Connected, Others
<1>4. s.calm => Calm(s, Others(t))
  BY <1>1, Enter
<1>5. s' = End(s, t)
  BY DEF Answered
<1> QED BY <1>1, <1>3, <1>4, <1>5, EndInv

LEMMA InvReadFails ==
    ASSUME Inv(s), NEW t \in Tasks, ReadFails(t)
    PROVE  Inv(s')
<1> DEFINE g == s.task[t].own
           expected == ~s.sock[g] \/ ~Connected(s, g) \/ Silent(g)
           n == IF expected THEN s.faults ELSE s.faults - 1
           x == [s.task[t] EXCEPT !.own = 0]
           f == [s.task EXCEPT ![t] = x]
           c == [s EXCEPT !.faults = IF expected THEN @ ELSE @ - 1, !.task[t].own = 0]
<1>1. /\ s.task[t].at = "read" /\ s \in State /\ s.task \in [Tasks -> TaskState]
      /\ Shape(s.task[t]) /\ TaskOK(s, t) /\ s.conn # 0 /\ KeepBut(s, t)
      /\ s.faults \in 0..MaxFaults /\ MaxFaults \in Nat
  BY Enter DEF ReadFails, At, State
<1>2. g \in Conns /\ s.task[t].job = "read" /\ s.task[t].depth = 0
  BY <1>1 DEF Shape, TaskState
<1>3. n \in 0..MaxFaults /\ n <= s.faults
  BY <1>1 DEF ReadFails
<1>4. x \in TaskState /\ f \in [Tasks -> TaskState]
  BY <1>1 DEF TaskState
<1>5. x.own = 0 /\ x.job = "read" /\ x.depth = 0 /\ x.at = "read"
  BY <1>1, <1>2 DEF TaskState
<1>6. c = [s EXCEPT !.faults = n, !.task = f]
  BY <1>1 DEF State
<1>7. s' = Close(c, t, g)
  BY DEF ReadFails
<1> HIDE DEF n, f, c
<1>8. /\ c \in State /\ c.task = f /\ c.faults = n /\ c.running = s.running /\ c.conn = s.conn
      /\ c.read = s.read /\ c.beat = s.beat /\ c.st = s.st /\ c.sock = s.sock
      /\ c.srv = s.srv /\ c.held = s.held /\ c.calm = s.calm
  BY <1>1, <1>3, <1>4, <1>6 DEF State
<1> HIDE DEF x, g
<1>9. c.task[t] = x /\ \A u \in Others(t) : c.task[u] = s.task[u]
  BY <1>1, <1>8 DEF f, Others
<1>10. SoundBut(c, t)
  <2>1. Pointers(c)
    <3>1. Pointers(s) /\ s.read \in {0} \cup Background /\ s.beat \in {0} \cup Background
      BY <1>1 DEF Inv, Sound, State
    <3>2. \A u \in Tasks : c.task[u].job = s.task[u].job
      BY <1>2, <1>5, <1>9 DEF Others
    <3> QED BY <1>8, <3>1, <3>2, Numbers DEF Pointers
  <2>2. \A u \in Others(t) : TaskOK(c, u)
    <3> TAKE u \in Others(t)
    <3>1. TaskOK(s, u) /\ u \in Tasks
      BY DEF Inv, Sound, Others
    <3>2. Level(s.task[u]) \in Nat
      BY <1>1, <3>1 DEF Level, TaskState
    <3> HIDE DEF Level
    <3> QED BY <1>1, <1>3, <1>8, <1>9, <3>1, <3>2 DEF TaskOK
  <2>3. x.depth + c.faults <= MaxFaults + 1
    BY <1>1, <1>3, <1>5, <1>8
  <2> QED BY <1>5, <1>8, <1>9, <2>1, <2>2, <2>3 DEF SoundBut, Others
<1>11. c.task[t].depth + 1 + c.faults <= MaxFaults + 1
  BY <1>1, <1>3, <1>5, <1>8, <1>9
<1>12. ASSUME c.st[g] = "DISCONNECTED" PROVE KeepBut(c, t)
  <2>1. ~Anchored(s, t)
    BY <1>2, <1>8, <1>12 DEF Anchored, Connected, g
  <2>2. \A u \in Others(t) : Committed(s, u) => Committed(c, u)
    BY <1>8, <1>9 DEF Committed, Anchored, Connected
  <2> QED BY <1>1, <1>8, <2>1, <2>2 DEF KeepBut, Others
<1>13. ASSUME c.calm PROVE Sole(c, t, g)
  <2>1. s.calm /\ Calm(s, Tasks) /\ Driving(s.task[t])
    BY <1>1, <1>8, <1>13 DEF Inv, Driving
  <2>2. Alone(s, t)
    BY <2>1, Enter
  <2>3. Alone(c, t)
    BY <1>8, <1>9, <2>2 DEF Alone
  <2>4. /\ g = s.conn
        /\ s.running \/ t = App \/ (s.task[App].at = "endbeat" /\ App \in Others(t))
    BY <1>1, <2>1, Numbers DEF Calm, OnCurrent, OneDriver, MayDrive, Others, g
  <2>5. Modest(c)
    BY <1>5, <1>9, <2>1 DEF Calm, Modest, Others
  <2> QED BY <1>5, <1>8, <1>9, <2>1, <2>3, <2>4, <2>5 DEF Sole, Calm, Granted, SocketsDriven
<1>14. c.conn # 0 /\ c.task[t].job # "redirect"
  BY <1>1, <1>5, <1>8, <1>9
<1> QED BY <1>2, <1>7, <1>10, <1>11, <1>12, <1>13, <1>14, CloseInv DEF g

LEMMA InvRedirected ==
    ASSUME Inv(s), NEW t \in Tasks, Redirected(t)
    PROVE  Inv(s')
<1> DEFINE a == Await(s, t, "graceful", 0)
           y == [s.task[t] EXCEPT !.at = "graceful", !.g = 0]
           x == [y EXCEPT !.job = "redirect"]
           f == [s.task EXCEPT ![t] = x]
           n == s.events - 1
           d == [a EXCEPT !.task[t].job = "redirect", !.events = @ - 1, !.calm = FALSE]
<1>1. /\ s.task[t].at = "read" /\ s \in State /\ s.task \in [Tasks -> TaskState]
      /\ Shape(s.task[t]) /\ TaskOK(s, t) /\ s.conn # 0 /\ KeepBut(s, t)
  BY Enter DEF Redirected, At
<1>2. n \in Nat /\ s' = d
  BY <1>1 DEF Redirected, State
<1>3. y \in TaskState /\ Becomes(s, a, t, y)
  BY <1>1, AwaitEffect DEF Places
<1>4. /\ y.at = "graceful" /\ y.job = s.task[t].job /\ y.own = s.task[t].own
      /\ y.depth = s.task[t].depth
  BY <1>1 DEF TaskState
<1>5. a = [s EXCEPT !.task = [s.task EXCEPT ![t] = y]]
  BY <1>1 DEF Await, State, TaskState
<1> HIDE DEF y
<1>6. x \in TaskState /\ f \in [Tasks -> TaskState]
  BY <1>1, <1>3 DEF TaskState, Jobs
<1>7. x.at = "graceful" /\ x.job = "redirect" /\ x.own = s.task[t].own /\ x.depth = s.task[t].depth
  BY <1>3, <1>4 DEF TaskState
<1> HIDE DEF a
<1>8. [a.task EXCEPT ![t].job = "redirect"] = f
  <2>1. a.task = [s.task EXCEPT ![t] = y]
    BY <1>3 DEF Becomes
  <2>2. a.task[t] = y
    BY <1>1, <2>1
  <2> QED BY <1>1, <2>1, <2>2
<1>9. d = [s EXCEPT !.task = f, !.events = n, !.calm = FALSE]
  <2>1. d = [a EXCEPT !.task = f, !.events = a.events - 1, !.calm = FALSE]
    BY <1>3, <1>8 DEF Becomes, State
  <2> HIDE DEF f
  <2> QED BY <1>1, <1>5, <2>1 DEF State
<1> HIDE DEF d, f, n, x
<1>10. /\ d \in State /\ d.task = f /\ d.faults = s.faults /\ d.running = s.running
       /\ d.conn = s.conn /\ d.read = s.read /\ d.beat = s.beat /\ d.st = s.st
       /\ d.sock = s.sock /\ d.srv = s.srv /\ d.held = s.held /\ ~d.calm
  BY <1>1, <1>2, <1>6, <1>9 DEF State
<1>11. d.task[t] = x /\ \A u \in Others(t) : d.task[u] = s.task[u]
  BY <1>1, <1>10 DEF f, Others
<1>12. Sound(d)
  <2>1. Pointers(s) /\ s.read \in {0} \cup Background /\ s.beat \in {0} \cup Background
    BY <1>1 DEF Inv, Sound, State
  <2>2. s.task[t].job = "read" /\ s.task[t].depth = 0 /\ ReaderFirst
    BY <1>1, SessionAssumption DEF Shape
  <2>3. Pointers(d)
    <3>1. \A u \in Tasks :
              \/ d.task[u].job = s.task[u].job
              \/ s.task[u].job = "read" /\ d.task[u].job = "redirect"
      <4> TAKE u \in Tasks
      <4>1. CASE u = t
        BY <1>7, <1>11, <2>2, <4>1
      <4>2. CASE u \in Others(t)
        BY <1>11, <4>2
      <4> QED BY <4>1, <4>2 DEF Others
    <3>2. ASSUME d.read # 0 PROVE d.task[d.read].job \in {"read", "redirect", "migrate"}
      <4>1. d.read \in Tasks /\ s.task[d.read].job \in {"read", "redirect", "migrate"}
        BY <1>10, <2>1, <3>2, Numbers DEF Pointers
      <4> QED BY <3>1, <4>1
    <3>3. ASSUME d.beat # 0 PROVE d.task[d.beat].job = "beat"
      <4>1. d.beat \in Tasks /\ s.task[d.beat].job = "beat"
        BY <1>10, <2>1, <3>3, Numbers DEF Pointers
      <4> QED BY <3>1, <4>1
    <3> QED BY <3>2, <3>3 DEF Pointers
  <2>4. TaskOK(d, t)
    BY <1>1, <1>7, <1>10, <1>11, <2>2 DEF TaskOK, Shape, Level
  <2>5. \A u \in Others(t) : TaskOK(d, u)
    BY <1>10, <1>11 DEF Inv, Sound, TaskOK, Others
  <2> QED BY <1>10, <2>3, <2>4, <2>5 DEF Sound, Others
<1>13. Keep(d)
  <2>1. Anchored(s, t) => Committed(d, t)
    BY <1>7, <1>10, <1>11 DEF Anchored, Committed, Connected
  <2>2. \A u \in Others(t) : Committed(s, u) => Committed(d, u)
    BY <1>10, <1>11 DEF Anchored, Committed, Connected
  <2> QED BY <1>1, <1>10, <2>1, <2>2 DEF Keep, KeepBut, Others
<1> QED BY <1>2, <1>10, <1>12, <1>13 DEF Inv

LEMMA InvGracefulDone ==
    ASSUME Inv(s), NEW t \in Tasks, GracefulDone(t)
    PROVE  Inv(s')
<1>1. /\ s.task[t].at = "graceful" /\ Shape(s.task[t]) /\ s \in State /\ s.conn # 0
      /\ SoundBut(s, t) /\ KeepBut(s, t)
  BY Enter DEF GracefulDone, At
<1>2. s.task[t].job = "redirect" /\ s.task[t].depth = 0
  BY <1>1 DEF Shape
<1>3. s.conn \in Conns /\ s.faults \in 0..MaxFaults /\ MaxFaults \in Nat
  BY <1>1, SessionAssumption DEF State
<1>4. s.task[t].depth + 1 + s.faults <= MaxFaults + 1
  BY <1>2, <1>3
<1>5. ~s.calm
  BY <1>2 DEF Inv, Calm, Modest
<1>6. s.running => Room(s)
  BY <1>2, RoomUnused DEF GracefulDone, RoomToMigrate, RoomForConn
<1>7. s' = Close(s, t, s.conn)
  BY DEF GracefulDone
<1> QED BY <1>1, <1>3, <1>4, <1>5, <1>6, <1>7, CloseInv

-----------------------------------------------------------------------------
(***************************************************************************)
(* The theorems.                                                            *)
(***************************************************************************)

LEMMA InvInit == Init => Inv(s)
<1> SUFFICES ASSUME Init PROVE Inv(s)
  OBVIOUS
<1>1. Off \in TaskState /\ Shape(Off) /\ Level(Off) = 0 /\ ~Driving(Off) /\ Off.at = "off"
      /\ Off.depth = 0 /\ Off.job = "none"
  BY DEF Off, TaskState, Jobs, Places, Shape, Level, Driving
<1> DEFINE f == [t \in Tasks |-> Off]
           st == [g \in Conns |-> "DISCONNECTED"]
           sock == [g \in Conns |-> FALSE]
           srv == [g \in Conns |-> "none"]
<1>2. /\ f \in [Tasks -> TaskState] /\ \A t \in Tasks : f[t] = Off
      /\ st \in [Conns -> {"DISCONNECTED", "PENDING", "AUTHENTICATING", "AUTHENTICATED", "CLOSING"}]
      /\ sock \in [Conns -> BOOLEAN] /\ srv \in [Conns -> {"none", "accepts", "refuses"}]
      /\ \A g \in Conns : ~sock[g] /\ st[g] # "AUTHENTICATED"
  BY <1>1
<1>3. s = [running |-> FALSE, conn |-> 0, read |-> 0, beat |-> 0, st |-> st, sock |-> sock,
           srv |-> srv, task |-> f, faults |-> MaxFaults, events |-> MaxEvents,
           held |-> FALSE, calm |-> TRUE]
  BY DEF Init
<1>4. MaxFaults \in Nat /\ MaxFaults \in 0..MaxFaults /\ MaxEvents \in Nat
  BY SessionAssumption
<1> HIDE DEF f, st, sock, srv
<1>5. /\ s \in State /\ s.task = f /\ s.read = 0 /\ s.beat = 0 /\ s.faults = MaxFaults
      /\ ~s.running /\ s.sock = sock /\ s.st = st
  BY <1>2, <1>3, <1>4 DEF State
<1>6. Sound(s)
  BY <1>1, <1>2, <1>4, <1>5 DEF Sound, Pointers, TaskOK
<1>7. Keep(s)
  BY <1>5 DEF Keep
<1>8. Calm(s, Tasks)
  <2>1. OneDriver(s, Tasks) /\ OnCurrent(s, Tasks) /\ Modest(s)
    BY <1>1, <1>2, <1>5 DEF OneDriver, OnCurrent, Modest
  <2>2. SocketsDriven(s, Tasks) /\ Granted(s)
    BY <1>2, <1>5 DEF SocketsDriven, Granted
  <2> QED BY <2>1, <2>2 DEF Calm
<1> QED BY <1>6, <1>7, <1>8 DEF Inv

LEMMA InvNext == Inv(s) /\ [Next]_s => Inv(s')
<1> SUFFICES ASSUME Inv(s), [Next]_s PROVE Inv(s')
  OBVIOUS
<1>1. CASE Connect
  BY <1>1, InvConnect
<1>2. CASE Disconnect
  BY <1>2, InvDisconnect
<1>3. CASE Request
  BY <1>3, InvRequest
<1>4. ASSUME NEW t \in Tasks, Progress(t) PROVE Inv(s')
  <2>1. CASE Opened(t)
    BY <2>1, InvOpened
  <2>2. CASE NonceAnswered(t)
    BY <2>2, InvNonceAnswered
  <2>3. CASE HandshakeRefused(t)
    BY <2>3, InvHandshakeRefused
  <2>4. CASE Authenticated(t)
    BY <2>4, InvAuthenticated
  <2>5. CASE Timeout(t)
    BY <2>5, InvTimeout
  <2>6. CASE SleepDone(t)
    BY <2>6, InvSleepDone
  <2>7. CASE CloseDone(t)
    BY <2>7, InvCloseDone
  <2>8. CASE BeatWakes(t)
    BY <2>8, InvBeatWakes
  <2>9. CASE Pong(t)
    BY <2>9, InvPong
  <2>10. CASE GracefulDone(t)
    BY <2>10, InvGracefulDone
  <2>11. CASE Answered(t)
    BY <2>11, InvAnswered
  <2>12. CASE ReadFails(t)
    BY <2>12, InvReadFails
  <2>13. CASE BeatEnded(t)
    BY <2>13, InvBeatEnded
  <2>14. CASE ReadEnded(t)
    BY <2>14, InvReadEnded
  <2> QED BY <1>4, <2>1, <2>2, <2>3, <2>4, <2>5, <2>6, <2>7, <2>8, <2>9, <2>10, <2>11, <2>12,
             <2>13, <2>14 DEF Progress
<1>5. ASSUME NEW t \in Tasks, OpenFails(t) PROVE Inv(s')
  BY <1>5, InvOpenFails
<1>6. ASSUME NEW t \in Tasks, ReadFails(t) PROVE Inv(s')
  BY <1>6, InvReadFails
<1>7. ASSUME NEW t \in Tasks, Redirected(t) PROVE Inv(s')
  BY <1>7, InvRedirected
<1>8. CASE UNCHANGED s
  BY <1>8
<1> QED BY <1>1, <1>2, <1>3, <1>4, <1>5, <1>6, <1>7, <1>8 DEF Next

SessionInv == Inv(s)

\* In every state that the client can reach, the invariant holds.
THEOREM SessionInvariant == Spec => []SessionInv
<1>1. Init => SessionInv
  BY InvInit DEF SessionInv
<1>2. SessionInv /\ [Next]_s => SessionInv'
  BY InvNext DEF SessionInv
<1> QED BY <1>1, <1>2, PTL DEF Spec

\* The state has its type; what _read_task and _heartbeat_task refer to is a task that
\* reads, or migrates, or sends heartbeats, so disconnect() cancels what it means to; and
\* calls of close() are nested at most one deeper than there can be failing sends.
THEOREM TypeCorrect == Spec => []TypeOK
<1>1. SessionInv => TypeOK
  <2> SUFFICES ASSUME Inv(s) PROVE TypeOK
    BY DEF SessionInv
  <2>1. s \in State /\ Pointers(s) /\ s.task \in [Tasks -> TaskState]
    BY DEF Inv, Sound, State
  <2>2. ASSUME NEW t \in Tasks
        PROVE  s.task[t].depth \in 0..(MaxFaults + 1) /\ Conn(t) \in {0} \cup Conns
    <3>1. s.task[t].depth \in Nat /\ s.faults \in Nat /\ MaxFaults \in Nat
      BY <2>1, SessionAssumption DEF State, TaskState
    <3>2. TaskOK(s, t)
      BY DEF Inv, Sound
    <3>3. s.task[t].depth <= MaxFaults + 1
      BY <3>1, <3>2 DEF TaskOK, Level
    <3>4. Conn(t) \in {0} \cup Conns
      BY <2>1 DEF TaskState, Conn
    <3> QED BY <3>1, <3>3, <3>4
  <2>3. /\ s.conn \in {0} \cup Conns /\ {s.running, s.held, s.calm} \subseteq BOOLEAN
        /\ {s.read, s.beat} \subseteq {0} \cup Background
        /\ s.st \in [Conns -> {"DISCONNECTED", "PENDING", "AUTHENTICATING", "AUTHENTICATED", "CLOSING"}]
        /\ s.sock \in [Conns -> BOOLEAN]
    BY <2>1 DEF State
  <2> QED BY <2>1, <2>2, <2>3 DEF TypeOK, Pointers
<1> QED BY <1>1, SessionInvariant, PTL

\* A client that had a session, still runs and may reconnect (auto_reconnect) is never
\* abandoned, whatever fails, closes, reconnects or migrates at the same time: some task
\* still reads a connection, or is inside close(), whose handler _on_connection_close
\* reconnects, or is reconnecting.
THEOREM NobodyAbandons == Spec => []NeverAbandoned
<1>1. SessionInv => NeverAbandoned
  <2> SUFFICES ASSUME Inv(s), AutoReconnect, s.running, s.held
               PROVE  \/ \E t \in Tasks : s.task[t].at \in {"read", "closing"}
                      \/ Establishing(s) # {}
    BY DEF NeverAbandoned, SessionInv
  <2>1. PICK t \in Tasks : Committed(s, t)
    BY DEF Inv, Keep
  <2>2. /\ Shape(s.task[t]) /\ s.task[t].at \in Places
    BY DEF Inv, Sound, TaskOK, State, TaskState
  <2>3. s.task[t].depth > 0 \/ s.task[t].own # 0 \/ s.task[t].at = "closing"
    BY <2>1 DEF Committed, Anchored, Connected
  <2>4. s.task[t].at \notin {"off", "interval", "pong", "answer", "endbeat", "endread"}
    BY <2>2, <2>3 DEF Shape, Off
  <2>5. s.task[t].at \in {"read", "closing", "open", "nonce", "auth", "sleep", "graceful"}
    BY <2>2, <2>4 DEF Places
  <2> QED BY <2>5 DEF Establishing
<1> QED BY <1>1, SessionInvariant, PTL

\* Short of a failing send, a failing handshake, a redirect, or a disconnect() that meets a
\* reconnection, the client has at most one open connection: one task at a time reads,
\* closes and opens connections, and _establish_connection finds the last one closed.
THEOREM OneAtATime == Spec => []OneConnection
<1>1. SessionInv => OneConnection
  BY DEF SessionInv, Inv, Calm, SocketsDriven, OneConnection
<1> QED BY <1>1, SessionInvariant, PTL

\* In the same histories a connection in state AUTHENTICATED is open, and the server
\* accepted the handshake on that connection: no task authenticates another's.
THEOREM SessionsAreGranted == Spec => []SessionIsGranted
<1>1. SessionInv => SessionIsGranted
  BY DEF SessionInv, Inv, Calm, Granted, SessionIsGranted
<1> QED BY <1>1, SessionInvariant, PTL
=============================================================================
