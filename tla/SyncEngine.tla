----------------------------- MODULE SyncEngine -----------------------------
(***************************************************************************)
(* The custody of remote changes from GitLab to Huly for one binding:      *)
(* webhook handlers and the periodic sweep feed enqueueWebhookEvent, which *)
(* marks the event seen (dedup), records an inflight row and puts the      *)
(* event in its resource's line; dispatch consults the breaker, lets the   *)
(* IssuesSyncManager apply it, records the outcome and deletes the row;    *)
(* a crash forgets all but the store, and start() resumes from the rows.   *)
(*                                                                         *)
(* The queue is the keyed FIFO that EventQueue implements (KeyedFifo):     *)
(* the head of a line is in dispatch.  dispatch asks the breaker in the    *)
(* same callback that makes the entry the head.                            *)
(***************************************************************************)
EXTENDS Integers, Sequences, FiniteSets

CONSTANTS
  Objs,               \* GitLab issues of the project
  Slots,              \* concurrent webhook requests
  FAILURE_THRESHOLD,
  MaxVer,             \* bound: edits made on GitLab
  MaxDeliveries,      \* bound: webhook deliveries, repeated ones included
  MaxThrows,          \* bound: failures of an apply or a listing
  MaxCrashes,         \* bound: crashes of the pod
  MaxStale,           \* bound: inflight rows that grow older than 1 h
  MaxNotes,           \* bound: times the notes cursor is set
  MaxWaiting          \* bound: backfill entries waiting behind a running one

ASSUME EngineAssumption ==
  /\ FAILURE_THRESHOLD \in Nat \ {0}
  /\ MaxVer \in Nat /\ MaxDeliveries \in Nat /\ MaxThrows \in Nat
  /\ MaxCrashes \in Nat /\ MaxStale \in Nat /\ MaxWaiting \in Nat
  /\ MaxNotes \in Nat
  /\ "sweep" \notin Slots

VARIABLES
  (* GitLab and Huly *)
  remote,      \* updated_at of each issue, 0 before it exists
  clock,       \* the last updated_at given out
  edits,       \* issue versions that made a webhook
  mirror,      \* modifiedOn of the mirrored Huly issue, 0 before it exists
  (* MongoDB *)
  dedup,       \* events marked seen
  inflight,    \* events with an inflight row
  stale,       \* those whose row is older than INFLIGHT_MAX_AGE_MS
  cursor,      \* the 'issues' cursor, 0 when there is none
  notes,       \* the 'notes' cursor, 0 when there is none
  (* the pod's memory *)
  pod,         \* "down", "starting" or "up"
  resume,      \* rows start() has listed and not yet looked at
  call,        \* the enqueueWebhookEvent in progress per slot and for the sweep
  line,        \* per issue: the queued events, the head being dispatched
  phase,       \* per issue: where the dispatch of the head is
  brk,         \* the binding's breaker
  tick,        \* processBinding between resolveSince and enqueueBackfill
  sweep,       \* the dispatched backfill entry
  waiting,     \* the `since` of the backfill entries queued behind it
  (* bounds and history *)
  deliveries, throws, crashes, aged, settled,
  moves,       \* times the notes cursor was set
  blind,       \* the latest `since` that came from the notes cursor alone
  lost         \* events that fell to an exception, a drop, a crash or an old row

gitlab == <<remote, clock, edits>>
memory == <<pod, resume, call, line, phase, brk, tick, sweep, waiting>>
counts == <<deliveries, throws, crashes>>
polling == <<notes, moves, blind>>
vars == <<gitlab, mirror, dedup, inflight, stale, cursor, memory, counts,
          polling, aged, settled, lost>>

-----------------------------------------------------------------------------
(* An event's identity is its eventId and version: a webhook carries       *)
(* GitLab's event UUID, a sweep makes `backfill:project:iid:updatedAt`, so *)
(* one change has two identities, and every sweep that lists the same      *)
(* change makes the same one.                                              *)
Event == [obj : Objs, ver : 1..MaxVer, src : {"hook", "poll"}]

Hook(o, v) == [obj |-> o, ver |-> v, src |-> "hook"]
Poll(o, v) == [obj |-> o, ver |-> v, src |-> "poll"]

(* What a record has at its top level: a listed one is a SyncIssue made by *)
(* the adapter, a webhook's is the raw payload, whose issue attributes are *)
(* under object_attributes.  Only what applyRemote reads is listed.        *)
Fields(src) ==
  IF src = "poll"
  THEN {"iid", "description", "assignees", "labels", "milestone", "state"}
  ELSE {"object_attributes", "assignees", "labels"}

(* applyRemote takes a member of these unless they are null: undefined     *)
(* makes it throw a TypeError.                                             *)
Dereferenced == {"assignees", "labels", "milestone"}

Readable(e) == Dereferenced \subseteq Fields(e.src)

(* Points in time a cursor may name: an updated_at, or a moment after the  *)
(* last one.                                                               *)
Times == 0..(MaxVer + 1)

Callers == Slots \cup {"sweep"}

NoCall == [at |-> "none"]
Calls == {NoCall} \cup [at : {"find", "insert", "row", "enqueue"}, ev : Event]

NoSweep == [at |-> "off"]
Sweeps == {NoSweep} \cup [at : {"drop"}]
          \cup [at : {"list"}, since : Times]
          \cup [at : {"loop"}, todo : SUBSET Event]

NoTick == [at |-> "off"]
Ticks == {NoTick} \cup [at : {"read"}, since : 0..MaxVer]

Closed == [state |-> "closed", failures |-> 0]

Elems(s) == {s[n] : n \in 1..Len(s)}

TypeOK ==
  /\ remote \in [Objs -> 0..MaxVer]
  /\ clock \in 0..MaxVer
  /\ edits \subseteq Objs \X (1..MaxVer)
  /\ mirror \in [Objs -> 0..MaxVer]
  /\ dedup \subseteq Event
  /\ inflight \subseteq Event
  /\ stale \subseteq inflight
  /\ cursor \in 0..MaxVer
  /\ notes \in Times
  /\ pod \in {"down", "starting", "up"}
  /\ resume \subseteq Event
  /\ call \in [Callers -> Calls]
  /\ line \in [Objs -> Seq(Event)]
  /\ phase \in [Objs -> {"none", "drop", "apply", "settle"}]
  /\ brk \in [state : {"closed", "open", "half-open"},
              failures : 0..FAILURE_THRESHOLD]
  /\ tick \in Ticks
  /\ sweep \in Sweeps
  /\ waiting \in Seq(Times)
  /\ deliveries \in 0..MaxDeliveries
  /\ throws \in 0..MaxThrows
  /\ crashes \in 0..MaxCrashes
  /\ moves \in 0..MaxNotes
  /\ blind \in Times
  /\ aged \subseteq Event
  /\ settled \subseteq Event
  /\ lost \subseteq Event

(* A fresh installation: an empty project, an empty store, the pod down. *)
Init ==
  /\ remote = [o \in Objs |-> 0]
  /\ clock = 0
  /\ edits = {}
  /\ mirror = [o \in Objs |-> 0]
  /\ dedup = {} /\ inflight = {} /\ stale = {} /\ cursor = 0 /\ notes = 0
  /\ pod = "down"
  /\ resume = {}
  /\ call = [c \in Callers |-> NoCall]
  /\ line = [o \in Objs |-> <<>>]
  /\ phase = [o \in Objs |-> "none"]
  /\ brk = Closed
  /\ tick = NoTick
  /\ sweep = NoSweep
  /\ waiting = <<>>
  /\ deliveries = 0 /\ throws = 0 /\ crashes = 0
  /\ moves = 0 /\ blind = 0
  /\ aged = {} /\ settled = {} /\ lost = {}

-----------------------------------------------------------------------------
(* Where an event may be. *)

Queued == UNION {Elems(line[o]) : o \in Objs}

(* A call that has won the mark and not yet handed its event to the queue. *)
Holds(c) == call[c].at \in {"row", "enqueue"}

(* Events the pod holds in memory and will dispatch. *)
InHand == Queued \cup {call[c].ev : c \in {x \in Callers : call[x].at = "enqueue"}}

InTransit ==
  Queued \cup {call[c].ev : c \in {x \in Callers : call[x] # NoCall}}
         \cup (IF sweep.at = "loop" THEN sweep.todo ELSE {})

(* With the rows that start() will look at, or is looking at. *)
OnTheWay == InTransit \cup resume \cup (IF pod = "down" THEN inflight ELSE {})

-----------------------------------------------------------------------------
(* The environment: GitLab and time. *)

(* Somebody edits an issue on GitLab, which gives it a newer updated_at. *)
EditRemote(o) ==
  /\ clock < MaxVer
  /\ clock' = clock + 1
  /\ remote' = [remote EXCEPT ![o] = clock + 1]
  /\ edits' = edits \cup {<<o, clock + 1>>}
  /\ UNCHANGED <<mirror, dedup, inflight, stale, cursor, memory, counts,
                 polling, aged, settled, lost>>

(* A webhook of some earlier edit arrives: late, out of order, again, or   *)
(* (when this never happens for an edit) not at all.                       *)
DeliverHook(c, o, v) ==
  /\ pod = "up"
  /\ deliveries < MaxDeliveries
  /\ call[c] = NoCall
  /\ <<o, v>> \in edits
  /\ call' = [call EXCEPT ![c] = [at |-> "find", ev |-> Hook(o, v)]]
  /\ deliveries' = deliveries + 1
  /\ UNCHANGED <<gitlab, mirror, dedup, inflight, stale, cursor, pod, resume,
                 line, phase, brk, tick, sweep, waiting, throws, crashes, polling, aged, settled, lost>>

(* NotesSyncManager handles a comment of a merge request or of an issue    *)
(* and sets its cursor, to the note's updatedAt or to the present.         *)
NotesCursorSet(v) ==
  /\ pod = "up"
  /\ moves < MaxNotes
  /\ v \in 1..(clock + 1)
  /\ notes' = v
  /\ moves' = moves + 1
  /\ UNCHANGED <<gitlab, mirror, dedup, inflight, stale, cursor, memory, counts,
                 blind, aged, settled, lost>>

(* An inflight row turns older than an hour, and MongoDB's TTL monitor     *)
(* deletes it, also under an event that still waits or runs.  start()      *)
(* takes the age of a row when it lists it.                                *)
AgeRow(e) ==
  /\ e \in inflight \ (stale \cup resume)
  /\ Cardinality(aged) < MaxStale
  /\ stale' = stale \cup {e}
  /\ aged' = aged \cup {e}
  /\ UNCHANGED <<gitlab, mirror, dedup, inflight, cursor, memory, counts, polling, settled, lost>>

ExpireRow(e) ==
  /\ e \in stale
  /\ inflight' = inflight \ {e}
  /\ stale' = stale \ {e}
  /\ lost' = IF e \in InHand THEN lost ELSE lost \cup {e}
  /\ UNCHANGED <<gitlab, mirror, dedup, cursor, memory, counts, polling, aged, settled>>

(* Fifteen minutes after opening, the breaker answers half-open. *)
BreakerAges ==
  /\ brk.state = "open"
  /\ brk' = [brk EXCEPT !.state = "half-open"]
  /\ UNCHANGED <<gitlab, mirror, dedup, inflight, stale, cursor, pod, resume,
                 call, line, phase, tick, sweep, waiting, counts, polling, aged, settled, lost>>

-----------------------------------------------------------------------------
(* Mutants: the insert does not notice another call's mark; the row is not *)
(* written; a dropped event keeps its row; the cursor is set to the        *)
(* present; the sweep starts at the newer of the two cursors.              *)

Fresh_NoUniqueIndex(e) == TRUE

RowsWith_Skipped(e) == inflight

RowsWithout_DropKeeps(e, p) == IF p = "drop" THEN inflight ELSE inflight \ {e}

CursorAt_Now(e) == clock + 1

Since_Newest(c, n) == IF c >= n THEN c ELSE n

-----------------------------------------------------------------------------
(* The pieces of the store and of the breaker that the steps use. *)

Seen(e) == e \in dedup

(* The unique index of the dedup collection. *)
Fresh(e) == e \notin dedup

RowsWith(e) == inflight \cup {e}

(* deleteInflight, after a drop as after a dispatch. *)
RowsWithout(e, p) == inflight \ {e}

(* resolveLww: the newer side wins, the remote side on a tie. *)
Newer(o, v) == v >= mirror[o]

(* start() resumes the rows that are not older than INFLIGHT_MAX_AGE_MS. *)
Resumable(e) == e \in inflight \ stale

(* listIssues with updatedAfter; 0 stands for no cursor, a full listing. *)
Lists(o, since) == remote[o] > 0 /\ remote[o] >= since

(* resolveSince: the older of the cursors that exist.  The clamp to the     *)
(* present changes nothing where GitLab's clock and the pod's agree.       *)
Since(c, n) == IF c = 0 \/ (n > 0 /\ n < c) THEN n ELSE c

(* setCursor stores the version as it is; it takes no maximum. *)
CursorAt(e) == e.ver

Trips(n) == n >= FAILURE_THRESHOLD

AfterSuccess == Closed

AfterFailure ==
  CASE brk.state = "half-open" -> [state |-> "open", failures |-> FAILURE_THRESHOLD]
    [] brk.state = "open"      -> brk
    [] brk.state = "closed"    ->
         [state    |-> IF Trips(brk.failures + 1) THEN "open" ELSE "closed",
          failures |-> brk.failures + 1]

(* dispatch's first step for an entry that becomes the head of its line. *)
Begin == IF brk.state = "open" THEN "drop" ELSE "apply"

(* queue.enqueue under the issue's key. *)
PutInLine(e) ==
  /\ line' = [line EXCEPT ![e.obj] = Append(@, e)]
  /\ phase' = [phase EXCEPT ![e.obj] = IF line[e.obj] = <<>> THEN Begin ELSE @]

-----------------------------------------------------------------------------
(* enqueueWebhookEvent, for a webhook request or for the sweep's loop. *)

(* checkAndMarkSeen's findOne: a known event is dropped at once. *)
FindSeen(c) ==
  /\ call[c].at = "find"
  /\ call' = [call EXCEPT ![c] = IF Seen(@.ev) THEN NoCall
                                 ELSE [@ EXCEPT !.at = "insert"]]
  /\ UNCHANGED <<gitlab, mirror, dedup, inflight, stale, cursor, pod, resume,
                 line, phase, brk, tick, sweep, waiting, counts, polling, aged, settled, lost>>

(* checkAndMarkSeen's insertOne: a duplicate key means another call won. *)
MarkSeen(c) ==
  /\ call[c].at = "insert"
  /\ dedup' = dedup \cup {call[c].ev}
  /\ call' = [call EXCEPT ![c] = IF Fresh(@.ev) THEN [@ EXCEPT !.at = "row"]
                                 ELSE NoCall]
  /\ UNCHANGED <<gitlab, mirror, inflight, stale, cursor, pod, resume,
                 line, phase, brk, tick, sweep, waiting, counts, polling, aged, settled, lost>>

CreateInflight(c) ==
  /\ call[c].at = "row"
  /\ inflight' = RowsWith(call[c].ev)
  /\ call' = [call EXCEPT ![c].at = "enqueue"]
  /\ UNCHANGED <<gitlab, mirror, dedup, stale, cursor, pod, resume,
                 line, phase, brk, tick, sweep, waiting, counts, polling, aged, settled, lost>>

Enqueue(c) ==
  /\ call[c].at = "enqueue"
  /\ PutInLine(call[c].ev)
  /\ call' = [call EXCEPT ![c] = NoCall]
  /\ UNCHANGED <<gitlab, mirror, dedup, inflight, stale, cursor, pod, resume,
                 brk, tick, sweep, waiting, counts, polling, aged, settled, lost>>

-----------------------------------------------------------------------------
(* dispatch of the head of a line. *)

(* IssuesSyncManager.applyRemote on a record the adapter listed: create    *)
(* the issue, or update it where the remote version is not older; the      *)
(* cursor becomes this version where it is newer than the mirrored one.    *)
ApplyRemote(o) ==
  LET e == Head(line[o]) IN
  /\ phase[o] = "apply"
  /\ Readable(e)
  /\ mirror' = [mirror EXCEPT ![o] = IF Newer(o, e.ver) THEN e.ver ELSE @]
  /\ cursor' = IF mirror[o] = 0 \/ e.ver > mirror[o] THEN CursorAt(e) ELSE cursor
  /\ brk' = AfterSuccess
  /\ phase' = [phase EXCEPT ![o] = "settle"]
  /\ UNCHANGED <<gitlab, dedup, inflight, stale, pod, resume, call, line,
                 tick, sweep, waiting, counts, polling, aged, settled, lost>>

(* applyRemote throws: always on a record without the fields it reads, and *)
(* on a well-formed one when a call to GitLab or Huly fails.               *)
ApplyThrows(o) ==
  LET e == Head(line[o]) IN
  /\ phase[o] = "apply"
  /\ \/ ~Readable(e) /\ UNCHANGED throws
     \/ Readable(e) /\ throws < MaxThrows /\ throws' = throws + 1
  /\ brk' = AfterFailure
  /\ phase' = [phase EXCEPT ![o] = "settle"]
  /\ lost' = lost \cup {e}
  /\ UNCHANGED <<gitlab, mirror, dedup, inflight, stale, cursor, pod, resume,
                 call, line, tick, sweep, waiting, deliveries, crashes, polling, aged, settled>>

(* The row goes, dispatch returns and runKey starts the next entry. *)
Settle(o) ==
  LET e == Head(line[o]) IN
  /\ phase[o] \in {"drop", "settle"}
  /\ inflight' = RowsWithout(e, phase[o])
  /\ stale' = stale \ {e}
  /\ line' = [line EXCEPT ![o] = Tail(@)]
  /\ phase' = [phase EXCEPT ![o] = IF Len(line[o]) = 1 THEN "none" ELSE Begin]
  /\ settled' = settled \cup {e}
  /\ lost' = IF phase[o] = "drop" THEN lost \cup {e} ELSE lost
  /\ UNCHANGED <<gitlab, mirror, dedup, cursor, pod, resume, call,
                 brk, tick, sweep, waiting, counts, polling, aged>>

-----------------------------------------------------------------------------
(* BackfillScheduler and IssuesSyncManager.backfill.  All backfill entries *)
(* of the binding share one key of the queue.                              *)

(* dispatch of a backfill entry that becomes the head, the breaker being b. *)
StartSweep(since, b) ==
  IF b.state = "open" THEN [at |-> "drop"] ELSE [at |-> "list", since |-> since]

(* dispatch returns and runKey starts the next entry of the key. *)
EndSweep(b) ==
  IF waiting = <<>>
  THEN sweep' = NoSweep /\ UNCHANGED waiting
  ELSE sweep' = StartSweep(Head(waiting), b) /\ waiting' = Tail(waiting)

(* processBinding skips an open breaker, then resolveSince reads the       *)
(* cursor of the issues.                                                   *)
TickRead ==
  /\ pod = "up"
  /\ tick = NoTick
  /\ brk.state # "open"
  /\ tick' = [at |-> "read", since |-> cursor]
  /\ UNCHANGED <<gitlab, mirror, dedup, inflight, stale, cursor, pod, resume,
                 call, line, phase, brk, sweep, waiting, counts, polling, aged, settled, lost>>

(* An await later resolveSince has the cursor of the notes too and         *)
(* enqueueBackfill queues the entry or starts its dispatch, whose breaker  *)
(* check may drop it; then processBinding records a success.  Where there  *)
(* was no issues cursor, the sweep starts at the notes cursor alone: blind *)
(* keeps the latest such start.                                            *)
TickEnqueue ==
  LET since == Since(tick.since, notes) IN
  /\ tick.at = "read"
  /\ \/ /\ sweep = NoSweep
        /\ sweep' = StartSweep(since, brk)
        /\ UNCHANGED waiting
     \/ /\ sweep # NoSweep
        /\ Len(waiting) < MaxWaiting
        /\ waiting' = Append(waiting, since)
        /\ UNCHANGED sweep
  /\ blind' = IF tick.since = 0 /\ since > blind THEN since ELSE blind
  /\ brk' = AfterSuccess
  /\ tick' = NoTick
  /\ UNCHANGED <<gitlab, mirror, dedup, inflight, stale, cursor, pod, resume,
                 call, line, phase, counts, notes, moves, aged, settled, lost>>

(* The store fails under resolveSince: processBinding records a failure.   *)
TickThrows ==
  /\ tick.at = "read"
  /\ throws < MaxThrows
  /\ throws' = throws + 1
  /\ tick' = NoTick
  /\ brk' = AfterFailure
  /\ UNCHANGED <<gitlab, mirror, dedup, inflight, stale, cursor, pod, resume,
                 call, line, phase, sweep, waiting, deliveries, crashes, polling,
                 aged, settled, lost>>

SweepDropped ==
  /\ sweep.at = "drop"
  /\ EndSweep(brk)
  /\ UNCHANGED <<gitlab, mirror, dedup, inflight, stale, cursor, pod, resume,
                 call, line, phase, brk, tick, counts, polling, aged, settled, lost>>

ListIssues ==
  /\ sweep.at = "list"
  /\ sweep' = [at   |-> "loop",
               todo |-> {Poll(o, remote[o]) :
                           o \in {x \in Objs : Lists(x, sweep.since)}}]
  /\ UNCHANGED <<gitlab, mirror, dedup, inflight, stale, cursor, pod, resume,
                 call, line, phase, brk, tick, waiting, counts, polling, aged, settled, lost>>

ListThrows ==
  /\ sweep.at = "list"
  /\ throws < MaxThrows
  /\ throws' = throws + 1
  /\ brk' = AfterFailure
  /\ EndSweep(AfterFailure)
  /\ UNCHANGED <<gitlab, mirror, dedup, inflight, stale, cursor, pod, resume,
                 call, line, phase, tick, deliveries, crashes, polling, aged, settled, lost>>

SweepNext(e) ==
  /\ sweep.at = "loop"
  /\ call["sweep"] = NoCall
  /\ e \in sweep.todo
  /\ sweep' = [sweep EXCEPT !.todo = @ \ {e}]
  /\ call' = [call EXCEPT !["sweep"] = [at |-> "find", ev |-> e]]
  /\ UNCHANGED <<gitlab, mirror, dedup, inflight, stale, cursor, pod, resume,
                 line, phase, brk, tick, waiting, counts, polling, aged, settled, lost>>

SweepDone ==
  /\ sweep.at = "loop"
  /\ call["sweep"] = NoCall
  /\ sweep.todo = {}
  /\ brk' = AfterSuccess
  /\ EndSweep(AfterSuccess)
  /\ UNCHANGED <<gitlab, mirror, dedup, inflight, stale, cursor, pod, resume,
                 call, line, phase, tick, counts, polling, aged, settled, lost>>

-----------------------------------------------------------------------------
(* Crash and start(). *)

Crash ==
  /\ pod # "down"
  /\ crashes < MaxCrashes
  /\ crashes' = crashes + 1
  /\ pod' = "down"
  /\ resume' = {}
  /\ call' = [c \in Callers |-> NoCall]
  /\ line' = [o \in Objs |-> <<>>]
  /\ phase' = [o \in Objs |-> "none"]
  /\ brk' = Closed
  /\ tick' = NoTick
  /\ sweep' = NoSweep
  /\ waiting' = <<>>
  /\ settled' = {}
  /\ lost' = lost \cup (OnTheWay \ inflight)
  /\ UNCHANGED <<gitlab, mirror, dedup, inflight, stale, cursor,
                 deliveries, throws, polling, aged>>

(* start() lists the rows; HTTP and the scheduler wait until it is through. *)
StartListing ==
  /\ pod = "down"
  /\ pod' = "starting"
  /\ resume' = inflight
  /\ UNCHANGED <<gitlab, mirror, dedup, inflight, stale, cursor, call, line,
                 phase, brk, tick, sweep, waiting, counts, polling, aged, settled, lost>>

Resume(e) ==
  /\ e \in resume
  /\ Resumable(e)
  /\ resume' = resume \ {e}
  /\ PutInLine(e)
  /\ UNCHANGED <<gitlab, mirror, dedup, inflight, stale, cursor, pod, call,
                 brk, tick, sweep, waiting, counts, polling, aged, settled, lost>>

Discard(e) ==
  /\ e \in resume
  /\ ~Resumable(e)
  /\ resume' = resume \ {e}
  /\ inflight' = inflight \ {e}
  /\ stale' = stale \ {e}
  /\ lost' = lost \cup {e}
  /\ UNCHANGED <<gitlab, mirror, dedup, cursor, pod, call, line, phase,
                 brk, tick, sweep, waiting, counts, polling, aged, settled>>

Started ==
  /\ pod = "starting"
  /\ resume = {}
  /\ pod' = "up"
  /\ UNCHANGED <<gitlab, mirror, dedup, inflight, stale, cursor, resume, call,
                 line, phase, brk, tick, sweep, waiting, counts, polling, aged, settled, lost>>

-----------------------------------------------------------------------------
EngineStep ==
  \/ \E c \in Callers :
        FindSeen(c) \/ MarkSeen(c) \/ CreateInflight(c) \/ Enqueue(c)
  \/ \E o \in Objs : ApplyRemote(o) \/ ApplyThrows(o) \/ Settle(o)
  \/ TickRead \/ TickThrows \/ TickEnqueue \/ ListIssues \/ ListThrows \/ SweepDone
  \/ SweepDropped
  \/ \E e \in Event : SweepNext(e) \/ Resume(e) \/ Discard(e)
  \/ StartListing \/ Started

Next ==
  \/ EngineStep
  \/ \E o \in Objs : EditRemote(o)
  \/ \E v \in Times : NotesCursorSet(v)
  \/ \E c \in Slots, o \in Objs, v \in 1..MaxVer : DeliverHook(c, o, v)
  \/ \E e \in Event : AgeRow(e) \/ ExpireRow(e)
  \/ BreakerAges
  \/ Crash

Spec == Init /\ [][Next]_vars

(* The pod keeps running: a pending callback runs, an awaited call settles, *)
(* the five-minute timer fires, a dead pod is restarted, time passes.  No   *)
(* failure, crash, edit or delivery is promised.                            *)
Fairness ==
  /\ \A c \in Callers :
       WF_vars(FindSeen(c) \/ MarkSeen(c) \/ CreateInflight(c) \/ Enqueue(c))
  /\ \A o \in Objs : WF_vars(ApplyRemote(o) \/ ApplyThrows(o) \/ Settle(o))
  /\ SF_vars(TickRead)
  /\ WF_vars(TickEnqueue)
  /\ WF_vars(\/ ListIssues \/ ListThrows \/ SweepDone \/ SweepDropped
             \/ \E e \in Event : SweepNext(e))
  /\ WF_vars(StartListing \/ Started \/ \E e \in Event : Resume(e) \/ Discard(e))
  /\ WF_vars(BreakerAges)

FairSpec == Spec /\ Fairness

-----------------------------------------------------------------------------
(* Properties. *)

(* Crash recovery: an event that is in line, in dispatch, or about to be   *)
(* put in line has its inflight row, so that start() would find it, until  *)
(* the hour is over.  Duplicates, resumes and drops of other events never  *)
(* take the row away.                                                      *)
RowWhileInHand == InHand \subseteq inflight \cup aged

(* Deduplication: whatever webhooks are repeated, however their handlers   *)
(* interleave with each other, with the sweep and with start(), an event   *)
(* is in line once at most, and not again after it was settled (until a    *)
(* restart).                                                               *)
DispatchedOnce ==
  /\ \A o \in Objs :
       /\ \A m, n \in 1..Len(line[o]) : line[o][m] = line[o][n] => m = n
       /\ Elems(line[o]) \cap settled = {}
  /\ \A c \in Callers : Holds(c) => call[c].ev \notin Queued \cup settled
  /\ \A c, d \in Callers :
       Holds(c) /\ Holds(d) /\ call[c].ev = call[d].ev => c = d

(* No inflight row is left behind: once GitLab is quiet, every row that    *)
(* there was has been settled, discarded or resumed and settled, across    *)
(* failures, drops at an open breaker and crashes.                         *)
RowsAreReleased == <>[](inflight = {})

(* README: polling "ensures eventual consistency if webhooks are missed":  *)
(* once GitLab is quiet, Huly shows the last version of every issue,       *)
(* unless that version was itself lost: its apply threw, it was dropped at *)
(* an open breaker, the pod died after its listing and before its row, or  *)
(* the row was too old for start().  It stays marked as seen, so no sweep  *)
(* brings it again.  Nor is one listed that is older than a start taken    *)
(* from the notes cursor alone.                                            *)
Converges ==
  <>[](\A o \in Objs : \/ mirror[o] = remote[o]
                       \/ Poll(o, remote[o]) \in lost
                       \/ remote[o] < blind)

(* The cursor never runs ahead: an issue version older than the cursor,    *)
(* which the next sweep will not list, is mirrored, on its way, or lost,   *)
(* although each event sets the cursor to its own version, forwards and    *)
(* back, and sweeps read it long before they list.  The exception is what  *)
(* was older than a start taken from the notes cursor alone: no sweep      *)
(* listed it, and the cursor of the issues is then set past it.            *)
Covered(o) ==
  \/ mirror[o] = remote[o]
  \/ Poll(o, remote[o]) \in OnTheWay \cup lost
  \/ remote[o] < blind

CursorCovers == \A o \in Objs : remote[o] \in 1..(cursor - 1) => Covered(o)

(* README: "Webhooks: Real-time issue/note updates via GitLab webhooks": a *)
(* webhook that was dispatched shows in Huly.                              *)
HookIsApplied ==
  \A e \in settled : e.src = "hook" => mirror[e.obj] >= e.ver
=============================================================================
