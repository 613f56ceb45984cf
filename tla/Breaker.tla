------------------------------- MODULE Breaker -------------------------------
(***************************************************************************)
(* The in-memory circuit breaker (src/src/sync/breaker.ts) and the two     *)
(* callers that share it: SyncEngine.dispatch and                          *)
(* BackfillScheduler.processBinding.  Both ask isOpen, then await their    *)
(* work, then record its outcome, so the outcome of one caller is recorded *)
(* in a state that other callers may have changed since it was admitted.   *)
(*                                                                         *)
(* Time is the age of the opening, `Date.now() - openedAt`, which the code *)
(* only compares with OPEN_DURATION_MS: it is kept up to that bound.       *)
(***************************************************************************)
EXTENDS Naturals

CONSTANTS
  Bindings,
  Callers,            \* concurrent dispatches and scheduler sweeps
  FAILURE_THRESHOLD,  \* 5
  OPEN_DURATION,      \* OPEN_DURATION_MS in ticks
  Null                \* openedAt = null; no binding

ASSUME BreakerAssumption ==
  /\ FAILURE_THRESHOLD \in Nat \ {0}
  /\ OPEN_DURATION \in Nat \ {0}
  /\ Null \notin Nat
  /\ Null \notin Bindings

VARIABLES
  state,      \* entry.state of each binding
  failures,   \* entry.failures
  age,        \* time since entry.openedAt, Null when that is null
  working,    \* the binding a caller is working for, or Null
  admitted,   \* history: state in which the caller was admitted
  streak,     \* history: failures recorded in a row, up to the threshold
  rest        \* history: time since a failure last opened the breaker

breakerVars == <<state, failures, age, working, admitted, streak, rest>>

BreakerState == {"closed", "open", "half-open"}

BreakerTypeOK ==
  /\ state \in [Bindings -> BreakerState]
  /\ failures \in [Bindings -> 0..FAILURE_THRESHOLD]
  /\ age \in [Bindings -> 0..OPEN_DURATION \cup {Null}]
  /\ working \in [Callers -> Bindings \cup {Null}]
  /\ admitted \in [Callers -> BreakerState]
  /\ streak \in [Bindings -> 0..FAILURE_THRESHOLD]
  /\ rest \in [Bindings -> 0..OPEN_DURATION \cup {Null}]

BreakerInit ==
  /\ state = [b \in Bindings |-> "closed"]
  /\ failures = [b \in Bindings |-> 0]
  /\ age = [b \in Bindings |-> Null]
  /\ working = [c \in Callers |-> Null]
  /\ admitted = [c \in Callers |-> "closed"]
  /\ streak = [b \in Bindings |-> 0]
  /\ rest = [b \in Bindings |-> Null]

-----------------------------------------------------------------------------
(* Mutants: the opening never ages out; a success forgets the counter; a   *)
(* half-open failure does not restart the clock.                           *)

getState_NeverAges(b) == state[b]

FailuresAfterSuccess_Kept(b) == failures[b]

AgeAfterReopen_Kept(b) == age[b]

-----------------------------------------------------------------------------
(* getState writes open -> half-open back as a side effect. *)
getState(b) ==
  IF state[b] = "open" /\ age[b] = OPEN_DURATION THEN "half-open" ELSE state[b]

isOpen(b) == getState(b) = "open"

Trips(n) == n >= FAILURE_THRESHOLD

FailuresAfterSuccess(b) == 0

AgeAfterReopen(b) == 0

(* The history variables, kept apart from the fields they judge. *)
OneMoreFailure(b) ==
  streak' = [streak EXCEPT ![b] = IF @ < FAILURE_THRESHOLD THEN @ + 1 ELSE @]

-----------------------------------------------------------------------------
(* A caller asks isOpen and goes on to its work. *)
Admit(c, b) ==
  /\ working[c] = Null
  /\ ~isOpen(b)
  /\ state' = [state EXCEPT ![b] = getState(b)]
  /\ working' = [working EXCEPT ![c] = b]
  /\ admitted' = [admitted EXCEPT ![c] = getState(b)]
  /\ UNCHANGED <<failures, age, streak, rest>>

(* recordSuccess closes the breaker from every state. *)
Succeed(c, b) ==
  /\ working[c] = b
  /\ state' = [state EXCEPT ![b] = "closed"]
  /\ failures' = [failures EXCEPT ![b] = FailuresAfterSuccess(b)]
  /\ age' = [age EXCEPT ![b] = Null]
  /\ working' = [working EXCEPT ![c] = Null]
  /\ streak' = [streak EXCEPT ![b] = 0]
  /\ rest' = [rest EXCEPT ![b] = Null]
  /\ UNCHANGED admitted

(* recordFailure, by the refreshed state. *)
FailHalfOpen(c, b) ==
  /\ working[c] = b
  /\ getState(b) = "half-open"
  /\ state' = [state EXCEPT ![b] = "open"]
  /\ failures' = [failures EXCEPT ![b] = FAILURE_THRESHOLD]
  /\ age' = [age EXCEPT ![b] = AgeAfterReopen(b)]
  /\ working' = [working EXCEPT ![c] = Null]
  /\ OneMoreFailure(b)
  /\ rest' = [rest EXCEPT ![b] = 0]
  /\ UNCHANGED admitted

FailOpen(c, b) ==
  /\ working[c] = b
  /\ getState(b) = "open"
  /\ working' = [working EXCEPT ![c] = Null]
  /\ OneMoreFailure(b)
  /\ UNCHANGED <<state, failures, age, admitted, rest>>

FailClosed(c, b) ==
  /\ working[c] = b
  /\ getState(b) = "closed"
  /\ LET n == failures[b] + 1 IN
     /\ failures' = [failures EXCEPT ![b] = n]
     /\ state' = [state EXCEPT ![b] = IF Trips(n) THEN "open" ELSE "closed"]
     /\ age' = [age EXCEPT ![b] = IF Trips(n) THEN 0 ELSE @]
  /\ working' = [working EXCEPT ![c] = Null]
  /\ OneMoreFailure(b)
  /\ rest' = [rest EXCEPT ![b] = IF state'[b] = "open" THEN 0 ELSE @]
  /\ UNCHANGED admitted

Fail(c, b) == FailHalfOpen(c, b) \/ FailOpen(c, b) \/ FailClosed(c, b)

(* One unit of time passes for every opening that still ages. *)
Older(a) == IF a # Null /\ a < OPEN_DURATION THEN a + 1 ELSE a

Tick ==
  /\ \E b \in Bindings : Older(age[b]) # age[b]
  /\ age' = [b \in Bindings |-> Older(age[b])]
  /\ rest' = [b \in Bindings |-> Older(rest[b])]
  /\ UNCHANGED <<state, failures, working, admitted, streak>>

BreakerNext ==
  \/ \E c \in Callers, b \in Bindings :
        Admit(c, b) \/ Succeed(c, b) \/ Fail(c, b)
  \/ Tick

BreakerSpec == BreakerInit /\ [][BreakerNext]_breakerVars

(* Time passes, and the backfill timer keeps asking for every enabled      *)
(* binding (strong: a free caller may find the breaker open in between).   *)
BreakerFairness ==
  /\ WF_breakerVars(Tick)
  /\ \A b \in Bindings : SF_breakerVars(\E c \in Callers : Admit(c, b))
  /\ \A c \in Callers : WF_breakerVars(\E b \in Bindings : Succeed(c, b) \/ Fail(c, b))

BreakerFairSpec == BreakerSpec /\ BreakerFairness

-----------------------------------------------------------------------------
(* Properties. *)

(* closed -> open after FAILURE_THRESHOLD consecutive failures, no sooner   *)
(* and no later, and back only by a success: the breaker is off duty       *)
(* exactly while the last FAILURE_THRESHOLD recorded outcomes, whichever   *)
(* callers recorded them, were failures.                                   *)
OffExactlyOnStreak ==
  \A b \in Bindings : state[b] # "closed" <=> streak[b] = FAILURE_THRESHOLD

(* The three fields of an entry agree: only a closed breaker counts below  *)
(* the threshold and has no openedAt.  getState relies on it: an "open"    *)
(* entry without openedAt would never become half-open.                    *)
EntryConsistent ==
  \A b \in Bindings :
    /\ state[b] = "closed" <=> age[b] = Null
    /\ state[b] = "closed" <=> failures[b] < FAILURE_THRESHOLD
    /\ state[b] = "half-open" => age[b] = OPEN_DURATION

(* After every failure that opens the breaker, a failed probe included, no *)
(* caller starts work for the binding until OPEN_DURATION has passed or a  *)
(* success was recorded, whatever the callers admitted earlier record.     *)
RestsAfterTrip ==
  [][\A c \in Callers, b \in Bindings :
       working[c] = Null /\ working'[c] = b =>
         rest[b] = Null \/ rest[b] = OPEN_DURATION]_breakerVars

(* A breaker never stays open for good: a success closes it or, once the   *)
(* time has passed, some caller is let through as a probe.                 *)
EventuallyProbed ==
  \A b \in Bindings :
    state[b] = "open" ~>
      \/ state[b] = "closed"
      \/ \E c \in Callers : working[c] = b /\ admitted[c] = "half-open"
=============================================================================
