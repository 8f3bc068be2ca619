---------------------------- MODULE Backpressure ----------------------------
(***************************************************************************)
(* BackpressureController (backpressure.py) and the requests that call       *)
(* apply_delay_if_needed before they are sent.  Time is counted in units of  *)
(* which a delay and its half are whole numbers.                            *)
(*                                                                          *)
(* A definition without a comment of its own, placed before the one it      *)
(* alters, is a seeded mistake (README, "Seeded mistakes").                 *)
(***************************************************************************)
EXTENDS Integers

CONSTANTS
    Requests,             \* the client's requests; an id is used again and again
    BASE_DELAY,           \* the delay a controller starts with, before it doubles
    MIN_DELAY,            \* the 10 of on_normal_response
    MAX_DELAY,
    RECOVERY_WINDOW

ASSUME DelayAssumption ==
    /\ {BASE_DELAY, MIN_DELAY, MAX_DELAY, RECOVERY_WINDOW} \subseteq Nat
    /\ 0 < MIN_DELAY /\ MIN_DELAY <= BASE_DELAY /\ BASE_DELAY <= MAX_DELAY

VARIABLES
    active,   \* _active
    since,    \* time since _backpressure_start_time, up to RECOVERY_WINDOW + 1
    delay,    \* _delay_ms
    req,      \* what each request does: "idle", "asleep" or "sent"
    left,     \* how long it still has to sleep
    silence   \* (history) time since the last signal, up to Longest

vars == <<active, since, delay, req, left, silence>>
controller == <<active, since, delay>>

\* No request should sleep longer after the last signal.
Longest == RECOVERY_WINDOW + MAX_DELAY

Init ==
    /\ active = FALSE /\ since = RECOVERY_WINDOW + 1 /\ delay = BASE_DELAY
    /\ req = [r \in Requests |-> "idle"] /\ left = [r \in Requests |-> 0]
    /\ silence = Longest

Recovering == since > RECOVERY_WINDOW

RecoverLate ==
    /\ active' = FALSE
    /\ UNCHANGED <<since, delay>>

\* _recover, where _active holds
Recover ==
    /\ active' = FALSE /\ delay' = BASE_DELAY
    /\ UNCHANGED since

SignalUncapped ==
    /\ active' = TRUE /\ since' = 0 /\ silence' = 0
    /\ delay' = 2 * delay

\* on_backpressure_signal
Signal ==
    /\ active' = TRUE /\ since' = 0 /\ silence' = 0
    /\ delay' = IF 2 * delay < MAX_DELAY THEN 2 * delay ELSE MAX_DELAY

\* on_normal_response
Normal ==
    /\ UNCHANGED silence
    /\ IF ~active THEN UNCHANGED controller
       ELSE IF Recovering THEN Recover
       ELSE /\ delay' = IF delay \div 2 > MIN_DELAY THEN delay \div 2 ELSE MIN_DELAY
            /\ UNCHANGED <<active, since>>

StartAnyway(r) ==
    /\ req[r] = "idle"
    /\ IF active THEN req' = [req EXCEPT ![r] = "asleep"] /\ left' = [left EXCEPT ![r] = delay]
       ELSE req' = [req EXCEPT ![r] = "sent"] /\ UNCHANGED left
    /\ UNCHANGED <<controller, silence>>

\* apply_delay_if_needed, with compute_delay_ms, up to its sleep
Start(r) ==
    /\ req[r] = "idle"
    /\ IF active /\ ~Recovering
       THEN /\ req' = [req EXCEPT ![r] = "asleep"] /\ left' = [left EXCEPT ![r] = delay]
            /\ UNCHANGED controller
       ELSE /\ req' = [req EXCEPT ![r] = "sent"]
            /\ IF active THEN Recover ELSE UNCHANGED controller
            /\ UNCHANGED left
    /\ UNCHANGED silence

WakeReview(r) ==
    /\ req[r] = "asleep" /\ left[r] = 0
    /\ IF active /\ ~Recovering
       THEN left' = [left EXCEPT ![r] = delay] /\ UNCHANGED req
       ELSE req' = [req EXCEPT ![r] = "sent"] /\ UNCHANGED left
    /\ UNCHANGED <<controller, silence>>

\* asyncio.sleep returns.
Wake(r) ==
    /\ req[r] = "asleep" /\ left[r] = 0
    /\ req' = [req EXCEPT ![r] = "sent"]
    /\ UNCHANGED <<controller, left, silence>>

\* The response comes, with FLAG_BACKPRESSURE or without.
Response(r) ==
    /\ req[r] = "sent"
    /\ req' = [req EXCEPT ![r] = "idle"]
    /\ Signal \/ Normal
    /\ UNCHANGED left

\* No response comes.
GiveUp(r) ==
    /\ req[r] = "sent"
    /\ req' = [req EXCEPT ![r] = "idle"]
    /\ UNCHANGED <<controller, left, silence>>

\* reset: a _backpressure_start_time of 0 is long ago.
Reset ==
    /\ active' = FALSE /\ delay' = BASE_DELAY /\ since' = RECOVERY_WINDOW + 1
    /\ UNCHANGED <<req, left, silence>>

\* A unit of time passes; who has slept long enough may still wait for the loop.
Tick ==
    /\ since' = IF Recovering THEN since ELSE since + 1
    /\ left' = [r \in Requests |-> IF left[r] = 0 THEN 0 ELSE left[r] - 1]
    /\ silence' = IF silence = Longest THEN silence ELSE silence + 1
    /\ UNCHANGED <<active, delay, req>>

Next ==
    \/ \E r \in Requests : Start(r) \/ Wake(r) \/ Response(r) \/ GiveUp(r)
    \/ Reset
    \/ Tick

Spec == Init /\ [][Next]_vars

\* Time passes, and the event loop resumes a task whose sleep is over.
Fairness == WF_vars(Tick) /\ \A r \in Requests : WF_vars(Wake(r))

-----------------------------------------------------------------------------
TypeOK ==
    /\ active \in BOOLEAN
    /\ since \in 0..(RECOVERY_WINDOW + 1)
    /\ delay \in MIN_DELAY..MAX_DELAY
    /\ req \in [Requests -> {"idle", "asleep", "sent"}]
    /\ left \in [Requests -> 0..MAX_DELAY]
    /\ silence \in 0..Longest

\* An escalation leaves nothing behind: however it ended (by a request, by a
\* response or by reset), the next one starts from the base delay again.
Rested == ~active => delay = BASE_DELAY

\* Pressure wears off by itself: no request has to sleep beyond MAX_DELAY after the
\* RECOVERY_WINDOW that the last signal opened, although recovery is lazy
\* (backpressure.py:81), a sleep once begun is not reviewed, and reset wakes nobody.
NoLateSleeper == \A r \in Requests : left[r] > 0 => left[r] + silence <= Longest

\* Signals that come while a request sleeps do not hold it back: it is sent.
SleepersGo == \A r \in Requests : req[r] = "asleep" ~> req[r] = "sent"
=============================================================================
