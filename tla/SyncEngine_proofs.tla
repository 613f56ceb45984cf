-------------------------- MODULE SyncEngine_proofs --------------------------
(***************************************************************************)
(* Deduplication and custody in the sync engine, for any number of issues, *)
(* concurrent requests, deliveries, failures and crashes.                  *)
(***************************************************************************)
EXTENDS SyncEngine, SequenceTheorems, TLAPS

(* A line holds events of its own issue, and is empty when none is in dispatch. *)
LinesWellFormed ==
  \A o \in Objs :
    /\ \A n \in 1..Len(line[o]) : line[o][n].obj = o
    /\ phase[o] = "none" <=> line[o] = <<>>

(* Everything that got past the dedup collection is marked in it.  With it *)
(* the winner of the insert is the only holder of its event.               *)
Marked ==
  /\ inflight \cup Queued \cup settled \cup resume \subseteq dedup
  /\ \A c \in Callers : Holds(c) => call[c].ev \in dedup

(* What start() has listed still has its row and is nowhere else. *)
ResumeApart ==
  /\ resume \subseteq inflight \cup aged
  /\ resume \cap (Queued \cup settled) = {}
  /\ stale \subseteq aged

(* HTTP and the scheduler are quiet until start() is through, and a pod    *)
(* that is down remembers nothing.                                         *)
BootOrder ==
  /\ pod # "up" => /\ \A c \in Callers : call[c] = NoCall
                   /\ tick = NoTick
                   /\ sweep = NoSweep
  /\ pod # "starting" => resume = {}
  /\ pod = "down" => (\A o \in Objs : line[o] = <<>>) /\ settled = {}

(* A closed breaker is below the threshold. *)
BreakerCounts == brk.state = "closed" => brk.failures < FAILURE_THRESHOLD

(* Where an event is: in line, held by a call, listed by start(). *)
Custody ==
  /\ LinesWellFormed
  /\ Marked
  /\ DispatchedOnce
  /\ RowWhileInHand
  /\ ResumeApart
  /\ BootOrder

IInv == TypeOK /\ BreakerCounts /\ Custody

(* While the pod runs, whoever has a row has its event in hand, or start() *)
(* is about to look at it.                                                 *)
RowsHeld == pod # "down" => inflight \subseteq InHand \cup resume

(* A listed version was GitLab's, and Huly has nothing newer. *)
Dated ==
  /\ \A o \in Objs : mirror[o] <= remote[o] /\ remote[o] <= clock
  /\ \A e \in OnTheWay : e.src = "poll" => e.ver <= remote[e.obj]

(* The cursor as it is, as processBinding or a backfill entry has read it, *)
(* or as an event on its way will set it.                                  *)
Read(b) ==
  \/ b = cursor
  \/ tick.at = "read" /\ b = tick.since
  \/ sweep.at = "list" /\ b = sweep.since
  \/ \E n \in 1..Len(waiting) : b = waiting[n]

IsPoint(b) == Read(b) \/ \E e \in OnTheWay : e.src = "poll" /\ b = e.ver

Safe(b) ==
  b <= clock + 1 /\ \A o \in Objs : 0 < remote[o] /\ remote[o] < b => Covered(o)

(* Nothing that is older than such a point escapes. *)
PointsSafe == \A b \in Times : IsPoint(b) => Safe(b)

(* The notes cursor is not in the future, nor is a start taken from it, and *)
(* the latest such start only grows.                                       *)
Timely == notes <= clock + 1 /\ blind <= clock + 1

Grows == Timely /\ Timely' /\ blind <= blind'

(* The marks of the dedup collection: what a later sweep will find there   *)
(* has reached Huly, is lost, or is in the hands of somebody who has       *)
(* passed the mark.                                                        *)
Kept(e) ==
  \/ e \in Queued \cup resume
  \/ \E c \in Callers : Holds(c) /\ call[c].ev = e
  \/ pod = "down" /\ e \in inflight

Reached(e) == mirror[e.obj] >= e.ver \/ e \in lost

MarksKept == \A e \in dedup : e.src = "poll" => Reached(e) \/ Kept(e)

(* A head whose manager has returned or thrown has reached Huly or is lost. *)
HeadsReached == \A o \in Objs : phase[o] = "settle" => Reached(Head(line[o]))

Cover == RowsHeld /\ Dated /\ PointsSafe /\ MarksKept /\ HeadsReached

-----------------------------------------------------------------------------
(* Types. *)

(* A call that is under way carries an event. *)
LEMMA CallHasEvent ==
  ASSUME TypeOK, NEW c \in Callers, call[c].at # "none"
  PROVE  /\ call[c] \in [at : {"find", "insert", "row", "enqueue"}, ev : Event]
         /\ call[c].ev \in Event
BY DEF TypeOK, Calls, NoCall

(* The head of a line in dispatch is an event. *)
LEMMA HeadIsEvent ==
  ASSUME TypeOK, LinesWellFormed, NEW o \in Objs, phase[o] # "none"
  PROVE  /\ line[o] \in Seq(Event) /\ line[o] # <<>>
         /\ Head(line[o]) \in Event /\ Tail(line[o]) \in Seq(Event)
         /\ Len(line[o]) \in Nat \ {0}
BY DEF TypeOK, LinesWellFormed

(* queue.enqueue keeps lines and phases well typed. *)
LEMMA PutType ==
  ASSUME TypeOK, NEW e \in Event, PutInLine(e)
  PROVE  /\ line' \in [Objs -> Seq(Event)]
         /\ phase' \in [Objs -> {"none", "drop", "apply", "settle"}]
<1>1. e.obj \in Objs
  BY DEF Event
<1>2. Begin \in {"drop", "apply"}
  BY DEF Begin
<1> QED
  BY <1>1, <1>2 DEF TypeOK, PutInLine

(* recordFailure yields a breaker entry. *)
LEMMA FailureType ==
  ASSUME TypeOK, BreakerCounts
  PROVE  /\ AfterFailure \in [state : {"closed", "open", "half-open"},
                               failures : 0..FAILURE_THRESHOLD]
         /\ AfterFailure.state = "closed" => AfterFailure.failures < FAILURE_THRESHOLD
<1>1. brk \in [state : {"closed", "open", "half-open"}, failures : 0..FAILURE_THRESHOLD]
  BY DEF TypeOK
<1> QED
  BY <1>1, EngineAssumption DEF BreakerCounts, AfterFailure, Trips

(* Starting a backfill entry, or the next one, keeps the types. *)
LEMMA SweepType ==
  ASSUME TypeOK
  PROVE  /\ \A since \in Times : \A b : StartSweep(since, b) \in Sweeps
         /\ \A b : EndSweep(b) => sweep' \in Sweeps /\ waiting' \in Seq(Times)
<1>1. \A since \in Times : \A b : StartSweep(since, b) \in Sweeps
  BY DEF StartSweep, Sweeps
<1>2. ASSUME NEW b, EndSweep(b), waiting # <<>>
      PROVE  sweep' \in Sweeps /\ waiting' \in Seq(Times)
  <2>1. Head(waiting) \in Times /\ Tail(waiting) \in Seq(Times)
    BY <1>2, HeadTailProperties DEF TypeOK
  <2> QED
    BY <1>1, <1>2, <2>1 DEF EndSweep
<1>3. ASSUME NEW b, EndSweep(b), waiting = <<>>
      PROVE  sweep' \in Sweeps /\ waiting' \in Seq(Times)
  BY <1>3 DEF EndSweep, Sweeps, TypeOK
<1> QED
  BY <1>1, <1>2, <1>3

(* Everything on its way is an event. *)
LEMMA WayType ==
  ASSUME TypeOK
  PROVE  OnTheWay \subseteq Event
<1>1. \A o \in Objs : Elems(line[o]) \subseteq Event
  <2> SUFFICES ASSUME NEW o \in Objs, NEW n \in 1..Len(line[o])
               PROVE  line[o][n] \in Event
    BY DEF Elems
  <2>1. line[o] \in Seq(Event)
    BY DEF TypeOK
  <2> QED
    BY <2>1
<1>2. \A c \in Callers : call[c] # NoCall => call[c].ev \in Event
  BY DEF TypeOK, Calls
<1>3. sweep.at = "loop" => sweep.todo \subseteq Event
  BY DEF TypeOK, Sweeps, NoSweep
<1> QED
  BY <1>1, <1>2, <1>3 DEF TypeOK, OnTheWay, InTransit, Queued

(* Every step keeps the types and the breaker's counter. *)
LEMMA TypeStep ==
  ASSUME TypeOK, BreakerCounts, LinesWellFormed, [Next]_vars
  PROVE  TypeOK' /\ BreakerCounts'
<1> USE EngineAssumption DEF polling, Times
<1>1. ASSUME NEW o \in Objs, EditRemote(o) PROVE TypeOK' /\ BreakerCounts'
  BY <1>1 DEF EditRemote, TypeOK, BreakerCounts, memory, counts
<1>2. ASSUME NEW c \in Slots, NEW o \in Objs, NEW v \in 1..MaxVer, DeliverHook(c, o, v)
      PROVE  TypeOK' /\ BreakerCounts'
  <2>1. [at |-> "find", ev |-> Hook(o, v)] \in Calls
    BY DEF Calls, Hook, Event
  <2>2. call' \in [Callers -> Calls] /\ deliveries' \in 0..MaxDeliveries
    BY <1>2, <2>1 DEF DeliverHook, TypeOK, Callers
  <2> QED
    BY <1>2, <2>2 DEF DeliverHook, TypeOK, BreakerCounts, gitlab
<1>3. ASSUME NEW e \in Event, AgeRow(e) PROVE TypeOK' /\ BreakerCounts'
  BY <1>3 DEF AgeRow, TypeOK, BreakerCounts, gitlab, memory, counts
<1>4. ASSUME NEW e \in Event, ExpireRow(e) PROVE TypeOK' /\ BreakerCounts'
  BY <1>4 DEF ExpireRow, TypeOK, BreakerCounts, gitlab, memory, counts
<1>5. ASSUME BreakerAges PROVE TypeOK' /\ BreakerCounts'
  BY <1>5 DEF BreakerAges, TypeOK, BreakerCounts, gitlab, counts
<1>6. ASSUME NEW c \in Callers, FindSeen(c) PROVE TypeOK' /\ BreakerCounts'
  <2>1. call[c] \in [at : {"find", "insert", "row", "enqueue"}, ev : Event]
    BY <1>6, CallHasEvent DEF FindSeen
  <2>2. [call[c] EXCEPT !.at = "insert"] \in Calls /\ NoCall \in Calls
    BY <2>1 DEF Calls
  <2>3. call' \in [Callers -> Calls]
    BY <1>6, <2>2 DEF FindSeen, TypeOK
  <2> QED
    BY <1>6, <2>3 DEF FindSeen, TypeOK, BreakerCounts, gitlab, counts
<1>7. ASSUME NEW c \in Callers, MarkSeen(c) PROVE TypeOK' /\ BreakerCounts'
  <2>1. /\ call[c] \in [at : {"find", "insert", "row", "enqueue"}, ev : Event]
        /\ call[c].ev \in Event
    BY <1>7, CallHasEvent DEF MarkSeen
  <2>2. [call[c] EXCEPT !.at = "row"] \in Calls /\ NoCall \in Calls
    BY <2>1 DEF Calls
  <2>3. call' \in [Callers -> Calls]
    BY <1>7, <2>2 DEF MarkSeen, TypeOK
  <2> QED
    BY <1>7, <2>1, <2>3 DEF MarkSeen, TypeOK, BreakerCounts, gitlab, counts
<1>8. ASSUME NEW c \in Callers, CreateInflight(c) PROVE TypeOK' /\ BreakerCounts'
  <2>1. /\ call[c] \in [at : {"find", "insert", "row", "enqueue"}, ev : Event]
        /\ call[c].ev \in Event
    BY <1>8, CallHasEvent DEF CreateInflight
  <2>2. [call[c] EXCEPT !.at = "enqueue"] \in Calls
    BY <2>1 DEF Calls
  <2>3. call' \in [Callers -> Calls]
    BY <1>8, <2>2 DEF CreateInflight, TypeOK
  <2> QED
    BY <1>8, <2>1, <2>3
    DEF CreateInflight, RowsWith, TypeOK, BreakerCounts, gitlab, counts
<1>9. ASSUME NEW c \in Callers, Enqueue(c) PROVE TypeOK' /\ BreakerCounts'
  <2>1. call[c].ev \in Event
    BY <1>9, CallHasEvent DEF Enqueue
  <2>2. /\ line' \in [Objs -> Seq(Event)]
        /\ phase' \in [Objs -> {"none", "drop", "apply", "settle"}]
    BY <1>9, <2>1, PutType DEF Enqueue
  <2>3. call' \in [Callers -> Calls]
    BY <1>9 DEF Enqueue, TypeOK, Calls
  <2> QED
    BY <1>9, <2>2, <2>3 DEF Enqueue, TypeOK, BreakerCounts, gitlab, counts
<1>10. ASSUME NEW o \in Objs, ApplyRemote(o) PROVE TypeOK' /\ BreakerCounts'
  <2>1. Head(line[o]).ver \in 0..MaxVer
    BY <1>10, HeadIsEvent DEF ApplyRemote, Event
  <2>2. /\ mirror' \in [Objs -> 0..MaxVer] /\ cursor' \in 0..MaxVer
        /\ phase' \in [Objs -> {"none", "drop", "apply", "settle"}]
    BY <1>10, <2>1 DEF ApplyRemote, CursorAt, TypeOK
  <2>3. brk' = [state |-> "closed", failures |-> 0]
    BY <1>10 DEF ApplyRemote, AfterSuccess, Closed
  <2> QED
    BY <1>10, <2>2, <2>3 DEF ApplyRemote, TypeOK, BreakerCounts, gitlab, counts
<1>11. ASSUME NEW o \in Objs, ApplyThrows(o) PROVE TypeOK' /\ BreakerCounts'
  <2>1. throws' \in 0..MaxThrows /\ lost' \subseteq Event
    BY <1>11, HeadIsEvent DEF ApplyThrows, TypeOK
  <2> QED
    BY <1>11, <2>1, FailureType
    DEF ApplyThrows, TypeOK, BreakerCounts, gitlab
<1>12. ASSUME NEW o \in Objs, Settle(o) PROVE TypeOK' /\ BreakerCounts'
  <2>1. Head(line[o]) \in Event /\ Tail(line[o]) \in Seq(Event)
    BY <1>12, HeadIsEvent DEF Settle
  <2>2. Begin \in {"drop", "apply"}
    BY DEF Begin
  <2> QED
    BY <1>12, <2>1, <2>2
    DEF Settle, RowsWithout, TypeOK, BreakerCounts, gitlab, counts
<1>13. ASSUME TickRead PROVE TypeOK' /\ BreakerCounts'
  <2>1. tick' \in Ticks
    BY <1>13 DEF TickRead, Ticks, TypeOK
  <2> QED
    BY <1>13, <2>1 DEF TickRead, TypeOK, BreakerCounts, gitlab, counts
<1>14. ASSUME TickEnqueue PROVE TypeOK' /\ BreakerCounts'
  <2> DEFINE since == Since(tick.since, notes)
  <2>1. since \in Times
    BY <1>14 DEF TickEnqueue, TypeOK, Ticks, NoTick, Since
  <2> HIDE DEF since
  <2>2. sweep' \in Sweeps /\ tick' \in Ticks /\ waiting' \in Seq(Times)
    <3>1. CASE sweep = NoSweep
      BY <1>14, <2>1, <3>1, SweepType DEF TickEnqueue, TypeOK, Ticks, since
    <3>2. CASE sweep # NoSweep
      <4>1. /\ waiting' = Append(waiting, since) /\ waiting \in Seq(Times)
            /\ sweep' = sweep /\ tick' = NoTick
        BY <1>14, <3>2 DEF TickEnqueue, TypeOK, since
      <4>2. waiting' \in Seq(Times)
        BY <2>1, <4>1, AppendProperties
      <4> QED
        BY <4>1, <4>2 DEF TypeOK, Ticks
    <3> QED
      BY <3>1, <3>2
  <2>3. blind' \in Times
    BY <1>14, <2>1 DEF TickEnqueue, TypeOK, since
  <2> QED
    BY <1>14, <2>2, <2>3
    DEF TickEnqueue, AfterSuccess, Closed, TypeOK, BreakerCounts, gitlab, counts
<1>15. ASSUME ListIssues PROVE TypeOK' /\ BreakerCounts'
  <2>1. \A x \in Objs : Lists(x, sweep.since) => Poll(x, remote[x]) \in Event
    BY DEF TypeOK, Lists, Poll, Event
  <2>2. sweep' \in Sweeps
    BY <1>15, <2>1 DEF ListIssues, Sweeps
  <2> QED
    BY <1>15, <2>2 DEF ListIssues, TypeOK, BreakerCounts, gitlab, counts
<1>16. ASSUME ListThrows PROVE TypeOK' /\ BreakerCounts'
  <2>1. sweep' \in Sweeps /\ waiting' \in Seq(Times)
    BY <1>16, SweepType DEF ListThrows
  <2>2. throws' \in 0..MaxThrows
    BY <1>16 DEF ListThrows, TypeOK
  <2> QED
    BY <1>16, <2>1, <2>2, FailureType DEF ListThrows, TypeOK, BreakerCounts, gitlab
<1>17. ASSUME NEW e \in Event, SweepNext(e) PROVE TypeOK' /\ BreakerCounts'
  <2>1. [sweep EXCEPT !.todo = @ \ {e}] \in Sweeps
    BY <1>17 DEF SweepNext, TypeOK, Sweeps, NoSweep
  <2>2. [at |-> "find", ev |-> e] \in Calls
    BY DEF Calls
  <2> QED
    BY <1>17, <2>1, <2>2
    DEF SweepNext, TypeOK, BreakerCounts, gitlab, counts, Callers
<1>18. ASSUME SweepDone PROVE TypeOK' /\ BreakerCounts'
  <2>1. sweep' \in Sweeps /\ waiting' \in Seq(Times)
    BY <1>18, SweepType DEF SweepDone
  <2>2. brk' = [state |-> "closed", failures |-> 0]
    BY <1>18 DEF SweepDone, AfterSuccess, Closed
  <2> QED
    BY <1>18, <2>1, <2>2 DEF SweepDone, TypeOK, BreakerCounts, gitlab, counts
<1>19. ASSUME Crash PROVE TypeOK' /\ BreakerCounts'
  <2>1. call' \in [Callers -> Calls] /\ tick' \in Ticks /\ sweep' \in Sweeps
    BY <1>19 DEF Crash, Calls, Ticks, Sweeps
  <2>2. line' \in [Objs -> Seq(Event)]
    BY <1>19 DEF Crash
  <2>3. lost' \subseteq Event
    BY <1>19, WayType DEF Crash, TypeOK
  <2> QED
    BY <1>19, <2>1, <2>2, <2>3 DEF Crash, Closed, TypeOK, BreakerCounts, gitlab
<1>20. ASSUME StartListing PROVE TypeOK' /\ BreakerCounts'
  BY <1>20 DEF StartListing, TypeOK, BreakerCounts, gitlab, counts
<1>21. ASSUME NEW e \in Event, Resume(e) PROVE TypeOK' /\ BreakerCounts'
  <2>1. /\ line' \in [Objs -> Seq(Event)]
        /\ phase' \in [Objs -> {"none", "drop", "apply", "settle"}]
    BY <1>21, PutType DEF Resume
  <2> QED
    BY <1>21, <2>1 DEF Resume, TypeOK, BreakerCounts, gitlab, counts
<1>22. ASSUME NEW e \in Event, Discard(e) PROVE TypeOK' /\ BreakerCounts'
  BY <1>22 DEF Discard, TypeOK, BreakerCounts, gitlab, counts
<1>23. ASSUME Started PROVE TypeOK' /\ BreakerCounts'
  BY <1>23 DEF Started, TypeOK, BreakerCounts, gitlab, counts
<1>24. ASSUME SweepDropped PROVE TypeOK' /\ BreakerCounts'
  <2>1. sweep' \in Sweeps /\ waiting' \in Seq(Times)
    BY <1>24, SweepType DEF SweepDropped
  <2> QED
    BY <1>24, <2>1 DEF SweepDropped, TypeOK, BreakerCounts, gitlab, counts
<1>26. ASSUME NEW v \in Times, NotesCursorSet(v) PROVE TypeOK' /\ BreakerCounts'
  BY <1>26 DEF NotesCursorSet, TypeOK, BreakerCounts, gitlab, memory, counts
<1>27. ASSUME TickThrows PROVE TypeOK' /\ BreakerCounts'
  <2>1. tick' \in Ticks /\ throws' \in 0..MaxThrows
    BY <1>27 DEF TickThrows, Ticks, TypeOK
  <2> QED
    BY <1>27, <2>1, FailureType DEF TickThrows, TypeOK, BreakerCounts, gitlab
<1>25. ASSUME UNCHANGED vars PROVE TypeOK' /\ BreakerCounts'
  BY <1>25 DEF vars, gitlab, memory, counts, TypeOK, BreakerCounts
<1> QED
  BY <1>1, <1>2, <1>3, <1>4, <1>5, <1>6, <1>7, <1>8, <1>9, <1>10, <1>11, <1>12,
     <1>13, <1>14, <1>15, <1>16, <1>17, <1>18, <1>19, <1>20, <1>21, <1>22,
     <1>23, <1>24, <1>25, <1>26, <1>27
  DEF Next, EngineStep

-----------------------------------------------------------------------------
(* Lines. *)

NoRepeats == \A o \in Objs : \A m, n \in 1..Len(line[o]) :
               line[o][m] = line[o][n] => m = n

(* Membership in Queued, position by position. *)
LEMMA QueuedIs ==
  ASSUME NEW e
  PROVE  e \in Queued <=> \E o \in Objs : \E n \in 1..Len(line[o]) : line[o][n] = e
BY DEF Queued, Elems

(* DispatchedOnce, stated with Queued. *)
OnceEach ==
  /\ NoRepeats
  /\ Queued \cap settled = {}
  /\ \A c \in Callers : Holds(c) => call[c].ev \notin Queued \cup settled
  /\ \A c, d \in Callers :
       Holds(c) /\ Holds(d) /\ call[c].ev = call[d].ev => c = d

(* The two agree, before and after a step. *)
LEMMA OnceIs ==
  (DispatchedOnce <=> OnceEach) /\ (DispatchedOnce <=> OnceEach)'
BY DEF DispatchedOnce, OnceEach, NoRepeats, Queued, Elems, Holds

(* Putting a new event in line adds it to Queued and nothing else. *)
LEMMA PutFacts ==
  ASSUME TypeOK, LinesWellFormed, NoRepeats, NEW e \in Event, e \notin Queued,
         PutInLine(e)
  PROVE  LinesWellFormed' /\ NoRepeats' /\ Queued' = Queued \cup {e}
<1>1. e.obj \in Objs /\ line \in [Objs -> Seq(Event)]
  BY DEF Event, TypeOK
<1> DEFINE q == e.obj
           old == line[q]
           new == Append(old, e)
<1>2. /\ line' = [line EXCEPT ![q] = new]
      /\ phase' = [phase EXCEPT ![q] = IF old = <<>> THEN Begin ELSE phase[q]]
  BY DEF PutInLine
<1>3. /\ old \in Seq(Event) /\ Len(old) \in Nat /\ Len(new) = Len(old) + 1
      /\ new[Len(old) + 1] = e /\ new # <<>>
      /\ \A n \in 1..Len(old) : new[n] = old[n]
  <2>1. old \in Seq(Event)
    BY <1>1
  <2> HIDE DEF old
  <2> QED
    BY <2>1, AppendProperties
<1>4. line'[q] = new /\ \A o \in Objs : o # q => line'[o] = line[o]
  BY <1>1, <1>2
<1>5. phase'[q] # "none" /\ \A o \in Objs : o # q => phase'[o] = phase[o]
  BY <1>1, <1>2 DEF TypeOK, LinesWellFormed, Begin
<1>6. \A n \in 1..Len(old) : old[n] # e /\ old[n].obj = q
  BY <1>1, QueuedIs DEF LinesWellFormed
<1> HIDE DEF new, old
<1>7. \A n \in 1..Len(new) : new[n].obj = q
  BY <1>3, <1>6
<1>8. \A m, n \in 1..Len(new) : new[m] = new[n] => m = n
  <2>1. \A m, n \in 1..Len(old) : old[m] = old[n] => m = n
    BY <1>1 DEF NoRepeats, old
  <2> QED
    BY <1>3, <1>6, <2>1
<1>9. LinesWellFormed'
  BY <1>1, <1>3, <1>4, <1>5, <1>7 DEF LinesWellFormed
<1>10. NoRepeats'
  BY <1>4, <1>8 DEF NoRepeats
<1>11. Elems(new) = Elems(old) \cup {e}
  BY <1>3 DEF Elems
<1>12. \A o \in Objs : Elems(line'[o]) = IF o = q THEN Elems(line[o]) \cup {e}
                                        ELSE Elems(line[o])
  BY <1>4, <1>11 DEF old
<1>13. Queued' = UNION {Elems(line'[o]) : o \in Objs}
  BY DEF Queued, Elems
<1>14. Queued' = Queued \cup {e}
  BY <1>1, <1>12, <1>13 DEF Queued
<1> QED
  BY <1>9, <1>10, <1>14

(* Settling takes the head, and only it, out of Queued. *)
LEMMA SettleFacts ==
  ASSUME TypeOK, LinesWellFormed, NoRepeats, NEW o \in Objs, Settle(o)
  PROVE  /\ LinesWellFormed' /\ NoRepeats'
         /\ Head(line[o]) \in Queued
         /\ Queued' = Queued \ {Head(line[o])}
<1> DEFINE old == line[o]
           new == Tail(old)
           e == Head(old)
<1>1. phase[o] # "none"
  BY DEF Settle
<1>2. /\ old \in Seq(Event) /\ old # <<>> /\ Len(old) \in Nat \ {0}
      /\ e = old[1] /\ e \in Event /\ new \in Seq(Event)
      /\ Len(new) = Len(old) - 1
      /\ \A n \in 1..Len(new) : new[n] = old[n + 1]
  BY <1>1, HeadIsEvent, HeadTailProperties
<1>3. /\ line' = [line EXCEPT ![o] = new]
      /\ phase' = [phase EXCEPT ![o] = IF Len(old) = 1 THEN "none" ELSE Begin]
  BY DEF Settle
<1>4. line'[o] = new /\ \A x \in Objs : x # o => line'[x] = line[x]
  BY <1>3 DEF TypeOK
<1>5. /\ phase'[o] = "none" <=> Len(old) = 1
      /\ \A x \in Objs : x # o => phase'[x] = phase[x]
  BY <1>3 DEF TypeOK, Begin
<1>6. /\ \A m, n \in 1..Len(old) : old[m] = old[n] => m = n
      /\ \A n \in 1..Len(old) : old[n].obj = o
  BY DEF NoRepeats, LinesWellFormed
<1> HIDE DEF new, old, e
<1>7. new = <<>> <=> Len(old) = 1
  BY <1>2
<1>8. \A n \in 1..Len(new) : n + 1 \in 1..Len(old)
  BY <1>2
<1>9. LinesWellFormed'
  <2>1. \A n \in 1..Len(new) : new[n].obj = o
    BY <1>2, <1>6, <1>8
  <2> QED
    BY <1>4, <1>5, <1>7, <2>1 DEF LinesWellFormed
<1>10. NoRepeats'
  <2>1. \A m, n \in 1..Len(new) : new[m] = new[n] => m = n
    BY <1>2, <1>6, <1>8
  <2> QED
    BY <1>4, <2>1 DEF NoRepeats
<1>11. e \in Queued
  <2>1. 1 \in 1..Len(line[o]) /\ line[o][1] = e
    BY <1>2 DEF old
  <2> QED
    BY <2>1, QueuedIs
<1>12. Elems(new) = Elems(old) \ {e}
  <2>1. Elems(new) \subseteq Elems(old) \ {e}
    <3>1. ASSUME NEW n \in 1..Len(new) PROVE new[n] \in Elems(old) \ {e}
      <4>1. new[n] = old[n + 1] /\ n + 1 \in 1..Len(old) /\ 1 \in 1..Len(old)
        BY <1>2, <1>8
      <4>2. old[n + 1] # old[1]
        BY <1>6, <4>1
      <4> QED
        BY <1>2, <4>1, <4>2 DEF Elems
    <3> QED
      BY <3>1 DEF Elems
  <2>2. ASSUME NEW n \in 1..Len(old), old[n] # e PROVE old[n] \in Elems(new)
    <3>1. n - 1 \in 1..Len(new) /\ new[n - 1] = old[n]
      BY <1>2, <2>2
    <3> QED
      BY <3>1 DEF Elems
  <2> QED
    BY <2>1, <2>2 DEF Elems
<1>13. \A x \in Objs : x # o => e \notin Elems(line[x])
  <2>1. ASSUME NEW x \in Objs, x # o, e \in Elems(line[x]) PROVE FALSE
    <3>1. PICK n \in 1..Len(line[x]) : line[x][n] = e
      BY <2>1 DEF Elems
    <3>2. e.obj = x
      BY <3>1 DEF LinesWellFormed
    <3>3. e.obj = o
      BY <1>2, <1>6
    <3> QED
      BY <2>1, <3>2, <3>3
  <2> QED
    BY <2>1
<1>14. \A x \in Objs : Elems(line'[x]) = Elems(line[x]) \ {e}
  BY <1>4, <1>12, <1>13 DEF old
<1>15. Queued' = UNION {Elems(line'[x]) : x \in Objs}
  BY DEF Queued, Elems
<1>16. Queued' = Queued \ {e}
  BY <1>14, <1>15 DEF Queued
<1> QED
  BY <1>9, <1>10, <1>11, <1>16 DEF e, old

-----------------------------------------------------------------------------
(* Custody. *)

(* RowWhileInHand, caller by caller. *)
RowEach ==
  /\ Queued \subseteq inflight \cup aged
  /\ \A c \in Callers :
       call[c].at = "enqueue" => call[c].ev \in inflight \cup aged

(* The two agree, before and after a step. *)
LEMMA InHandIs ==
  (RowWhileInHand <=> RowEach) /\ (RowWhileInHand <=> RowEach)'
BY DEF RowWhileInHand, RowEach, InHand, Queued, Elems

(* A step that moves no event keeps the custody, given the rest. *)
LEMMA Frame ==
  ASSUME Custody, LinesWellFormed', BootOrder',
         UNCHANGED <<dedup, inflight, stale, resume, call, line, aged, settled>>
  PROVE  Custody'
<1>1. UNCHANGED Queued
  BY DEF Queued, Elems
<1>2. Marked' /\ ResumeApart'
  BY <1>1 DEF Custody, Marked, ResumeApart, Holds
<1>3. DispatchedOnce'
  BY DEF Custody, DispatchedOnce, Queued, Elems, Holds
<1>4. RowWhileInHand'
  BY DEF Custody, RowWhileInHand, InHand, Queued, Elems
<1> QED
  BY <1>2, <1>3, <1>4 DEF Custody

(* So does a call that begins, asks the dedup collection, or ends there. *)
LEMMA Asking ==
  ASSUME TypeOK, Custody, BootOrder', NEW c \in Callers, NEW x,
         call' = [call EXCEPT ![c] = x], x.at \notin {"row", "enqueue"},
         UNCHANGED <<dedup, inflight, stale, resume, line, phase, aged, settled>>
  PROVE  Custody'
<1>1. UNCHANGED Queued /\ UNCHANGED NoRepeats
  BY DEF Queued, Elems, NoRepeats
<1>2. \A d \in Callers : call'[d].at \in {"row", "enqueue"} => call'[d] = call[d]
  BY DEF TypeOK
<1>3. Marked' /\ ResumeApart' /\ LinesWellFormed'
  BY <1>1, <1>2 DEF Custody, Marked, ResumeApart, LinesWellFormed, Holds
<1>4. DispatchedOnce'
  BY <1>1, <1>2, OnceIs DEF Custody, OnceEach, Holds
<1>5. RowWhileInHand'
  BY <1>1, <1>2, InHandIs DEF Custody, RowEach
<1> QED
  BY <1>3, <1>4, <1>5 DEF Custody

(* A pod with a call, a tick or a sweep under way is up; one with rows     *)
(* left to look at is starting and has no call.                            *)
LEMMA PodIs ==
  ASSUME Custody
  PROVE  /\ \A c \in Callers : call[c] # NoCall => pod = "up" /\ resume = {}
         /\ tick # NoTick \/ sweep # NoSweep => pod = "up"
         /\ resume # {} => pod = "starting" /\ \A c \in Callers : call[c] = NoCall
BY DEF Custody, BootOrder

(* The insert of enqueueWebhookEvent: its winner is the event's only holder. *)
LEMMA MarkSeenKeeps ==
  ASSUME TypeOK, Custody, NEW c \in Callers, MarkSeen(c)
  PROVE  Custody'
<1> DEFINE e == call[c].ev
<1>1. /\ call[c] \in [at : {"find", "insert", "row", "enqueue"}, ev : Event]
      /\ call[c] # NoCall /\ ~Holds(c)
  BY CallHasEvent DEF MarkSeen, NoCall, Holds
<1>2. UNCHANGED Queued /\ UNCHANGED NoRepeats
  BY DEF MarkSeen, Queued, Elems, NoRepeats
<1>3. /\ \A d \in Callers : d # c => call'[d] = call[d]
      /\ e \in dedup => call'[c] = NoCall
      /\ e \notin dedup => call'[c].at = "row" /\ call'[c].ev = e
  BY <1>1 DEF MarkSeen, Fresh, TypeOK
<1>4. /\ \A d \in Callers : Holds(d)' => (d # c /\ Holds(d)) \/ (d = c /\ e \notin dedup)
      /\ \A d \in Callers : call'[d].at = "enqueue" => d # c
  BY <1>3 DEF Holds, NoCall
<1>5. dedup' = dedup \cup {e}
  BY DEF MarkSeen
<1> HIDE DEF e
<1>6. Marked' /\ ResumeApart' /\ LinesWellFormed'
  BY <1>2, <1>3, <1>4, <1>5
  DEF Custody, MarkSeen, Marked, ResumeApart, LinesWellFormed
<1>7. OnceEach'
  <2>1. e \notin dedup => /\ e \notin Queued \cup settled
                          /\ \A d \in Callers : Holds(d) => call[d].ev # e
    BY DEF Custody, Marked
  <2> QED
    BY <1>2, <1>3, <1>4, <2>1, OnceIs DEF Custody, OnceEach, MarkSeen
<1>8. RowEach'
  BY <1>2, <1>3, <1>4, InHandIs DEF Custody, RowEach, MarkSeen
<1>9. BootOrder'
  BY <1>1, PodIs DEF Custody, BootOrder, MarkSeen
<1> QED
  BY <1>6, <1>7, <1>8, <1>9, OnceIs, InHandIs DEF Custody

(* createInflight: the row is there before the event is in hand. *)
LEMMA CreateInflightKeeps ==
  ASSUME TypeOK, Custody, NEW c \in Callers, CreateInflight(c)
  PROVE  Custody'
<1> DEFINE e == call[c].ev
<1>1. /\ call[c] \in [at : {"find", "insert", "row", "enqueue"}, ev : Event]
      /\ call[c] # NoCall /\ Holds(c)
  BY CallHasEvent DEF CreateInflight, NoCall, Holds
<1>2. UNCHANGED Queued /\ UNCHANGED NoRepeats
  BY DEF CreateInflight, Queued, Elems, NoRepeats
<1>3. /\ \A d \in Callers : d # c => call'[d] = call[d]
      /\ call'[c].at = "enqueue" /\ call'[c].ev = e
  BY <1>1 DEF CreateInflight, TypeOK
<1>4. \A d \in Callers : (Holds(d)' => Holds(d)) /\ (Holds(d)' => call'[d].ev = call[d].ev)
  BY <1>1, <1>3 DEF Holds
<1>5. inflight' = inflight \cup {e} /\ e \in dedup
  BY <1>1 DEF CreateInflight, RowsWith, Custody, Marked
<1> HIDE DEF e
<1>6. Marked' /\ ResumeApart' /\ LinesWellFormed'
  BY <1>2, <1>4, <1>5
  DEF Custody, CreateInflight, Marked, ResumeApart, LinesWellFormed
<1>7. OnceEach'
  BY <1>2, <1>4, OnceIs DEF Custody, OnceEach, CreateInflight
<1>8. RowEach'
  BY <1>2, <1>3, <1>5, InHandIs DEF Custody, RowEach, CreateInflight
<1>9. BootOrder'
  BY <1>1, PodIs DEF Custody, BootOrder, CreateInflight
<1> QED
  BY <1>6, <1>7, <1>8, <1>9, OnceIs, InHandIs DEF Custody

(* queue.enqueue by the holder: the event passes from the call to the line. *)
LEMMA EnqueueKeeps ==
  ASSUME TypeOK, Custody, NEW c \in Callers, Enqueue(c)
  PROVE  Custody'
<1> DEFINE e == call[c].ev
<1>1. e \in Event /\ call[c] # NoCall /\ Holds(c)
  BY CallHasEvent DEF Enqueue, NoCall, Holds
<1>2. e \notin Queued \cup settled /\ e \in dedup /\ e \in inflight \cup aged
  BY <1>1, OnceIs, InHandIs DEF Custody, OnceEach, RowEach, Marked, Enqueue
<1>3. /\ \A d \in Callers : d # c => call'[d] = call[d]
      /\ call'[c] = NoCall
  BY DEF Enqueue, TypeOK
<1>4. /\ \A d \in Callers : Holds(d)' => d # c /\ Holds(d)
      /\ \A d \in Callers : call'[d].at = "enqueue" => d # c
  BY <1>3 DEF Holds, NoCall
<1>5. pod = "up" /\ resume = {}
  BY <1>1, PodIs
<1>6. LinesWellFormed' /\ NoRepeats' /\ Queued' = Queued \cup {e}
  BY <1>1, <1>2, PutFacts, OnceIs DEF Custody, OnceEach, Enqueue
<1>7. \A d \in Callers : d # c /\ Holds(d) => call[d].ev # e
  BY <1>1, OnceIs DEF Custody, OnceEach
<1> HIDE DEF e
<1>8. Marked' /\ ResumeApart'
  BY <1>2, <1>3, <1>4, <1>5, <1>6 DEF Custody, Enqueue, Marked, ResumeApart
<1>9. OnceEach'
  BY <1>2, <1>3, <1>4, <1>6, <1>7, OnceIs DEF Custody, OnceEach, Enqueue
<1>10. RowEach'
  BY <1>2, <1>3, <1>4, <1>6, InHandIs DEF Custody, RowEach, Enqueue
<1>11. BootOrder'
  BY <1>5 DEF BootOrder, Enqueue
<1> QED
  BY <1>6, <1>8, <1>9, <1>10, <1>11, OnceIs, InHandIs DEF Custody

(* The end of dispatch: the event leaves the line with its row. *)
LEMMA SettleKeeps ==
  ASSUME TypeOK, Custody, NEW o \in Objs, Settle(o)
  PROVE  Custody'
<1> DEFINE e == Head(line[o])
<1>1. /\ LinesWellFormed' /\ NoRepeats'
      /\ e \in Queued /\ Queued' = Queued \ {e}
  BY SettleFacts, OnceIs DEF Custody, OnceEach
<1>2. /\ inflight' = inflight \ {e} /\ stale' = stale \ {e}
      /\ settled' = settled \cup {e}
      /\ UNCHANGED <<dedup, aged, call, resume, pod, tick, sweep>>
  BY DEF Settle, RowsWithout
<1>3. pod # "down"
  BY DEF Custody, BootOrder, LinesWellFormed, Settle
<1>4. \A c \in Callers : /\ Holds(c)' <=> Holds(c)
                         /\ Holds(c) => call[c].ev # e
                         /\ call[c].at = "enqueue" => Holds(c)
  BY <1>1, <1>2, OnceIs DEF Custody, OnceEach, Holds
<1>5. e \notin resume
  BY <1>1 DEF Custody, ResumeApart
<1> HIDE DEF e
<1>6. Marked' /\ ResumeApart'
  BY <1>1, <1>2, <1>4, <1>5 DEF Custody, Marked, ResumeApart
<1>7. OnceEach'
  BY <1>1, <1>2, <1>4, OnceIs DEF Custody, OnceEach
<1>8. RowEach'
  BY <1>1, <1>2, <1>4, InHandIs DEF Custody, RowEach
<1>9. BootOrder'
  BY <1>2, <1>3 DEF Custody, BootOrder
<1> QED
  BY <1>1, <1>6, <1>7, <1>8, <1>9, OnceIs, InHandIs DEF Custody

(* start() resumes a row: nobody else has the event, nobody else is up. *)
LEMMA ResumeKeeps ==
  ASSUME TypeOK, Custody, NEW e \in Event, Resume(e)
  PROVE  Custody'
<1>1. /\ e \in resume /\ e \notin Queued \cup settled
      /\ e \in dedup /\ e \in inflight \cup aged
  BY DEF Resume, Custody, ResumeApart, Marked
<1>2. pod = "starting" /\ \A c \in Callers : call[c] = NoCall
  BY <1>1, PodIs
<1>3. LinesWellFormed' /\ NoRepeats' /\ Queued' = Queued \cup {e}
  BY <1>1, PutFacts, OnceIs DEF Custody, OnceEach, Resume
<1>4. \A c \in Callers : ~Holds(c)' /\ call'[c].at # "enqueue"
  BY <1>2 DEF Resume, Holds, NoCall
<1>5. Marked' /\ ResumeApart'
  BY <1>1, <1>3, <1>4 DEF Custody, Resume, Marked, ResumeApart
<1>6. OnceEach'
  BY <1>1, <1>3, <1>4, OnceIs DEF Custody, OnceEach, Resume
<1>7. RowEach'
  BY <1>1, <1>3, <1>4, InHandIs DEF Custody, RowEach, Resume
<1>8. BootOrder'
  BY <1>2 DEF Custody, BootOrder, Resume
<1> QED
  BY <1>3, <1>5, <1>6, <1>7, <1>8, OnceIs, InHandIs DEF Custody

(* Rows that age, expire or are listed or discarded by start(), and the    *)
(* crash, leave what is in hand alone.                                     *)
LEMMA RowStepsKeep ==
  ASSUME TypeOK, Custody,
         \/ \E e \in Event : AgeRow(e) \/ ExpireRow(e) \/ Discard(e)
         \/ StartListing \/ Crash
  PROVE  Custody'
<1>1. ASSUME NEW e \in Event, AgeRow(e) \/ ExpireRow(e) \/ Discard(e)
      PROVE  Custody'
  <2>1. /\ UNCHANGED <<dedup, pod, call, line, phase, tick, sweep, settled>>
        /\ resume' \subseteq resume /\ inflight' \subseteq inflight
        /\ inflight \cup aged \subseteq inflight' \cup aged'
        /\ stale' \subseteq aged'
    BY <1>1
    DEF AgeRow, ExpireRow, Discard, Resumable, memory, Custody, ResumeApart
  <2>2. UNCHANGED Queued /\ UNCHANGED NoRepeats
    BY <2>1 DEF Queued, Elems, NoRepeats
  <2>3. Marked' /\ ResumeApart' /\ LinesWellFormed'
    BY <2>1, <2>2 DEF Custody, Marked, ResumeApart, LinesWellFormed, Holds
  <2>4. OnceEach' /\ RowEach'
    BY <2>1, <2>2, OnceIs, InHandIs DEF Custody, OnceEach, RowEach, Holds
  <2>5. BootOrder'
    BY <2>1 DEF Custody, BootOrder
  <2> QED
    BY <2>3, <2>4, <2>5, OnceIs, InHandIs DEF Custody
<1>2. ASSUME StartListing PROVE Custody'
  <2>1. /\ UNCHANGED <<dedup, inflight, stale, aged, call, line, phase, tick,
                       sweep, settled>>
        /\ resume' = inflight /\ pod' = "starting"
    BY <1>2 DEF StartListing
  <2>2. Queued = {} /\ settled = {} /\ \A c \in Callers : call[c] = NoCall
    BY <1>2 DEF StartListing, Custody, BootOrder, Queued, Elems
  <2>3. UNCHANGED Queued /\ UNCHANGED NoRepeats
    BY <2>1 DEF Queued, Elems, NoRepeats
  <2>4. Marked' /\ ResumeApart' /\ LinesWellFormed'
    BY <2>1, <2>2, <2>3 DEF Custody, Marked, ResumeApart, LinesWellFormed, Holds
  <2>5. OnceEach' /\ RowEach'
    BY <2>1, <2>3, OnceIs, InHandIs DEF Custody, OnceEach, RowEach, Holds
  <2>6. BootOrder'
    BY <1>2, <2>1 DEF StartListing, Custody, BootOrder
  <2> QED
    BY <2>4, <2>5, <2>6, OnceIs, InHandIs DEF Custody
<1>3. ASSUME Crash PROVE Custody'
  <2>1. /\ UNCHANGED <<dedup, inflight, stale, aged>>
        /\ resume' = {} /\ settled' = {}
        /\ \A c \in Callers : call'[c] = NoCall
        /\ \A o \in Objs : line'[o] = <<>> /\ phase'[o] = "none"
    BY <1>3 DEF Crash
  <2>2. Queued' = {}
    BY <2>1 DEF Queued, Elems
  <2>3. Marked' /\ ResumeApart' /\ LinesWellFormed' /\ BootOrder'
    BY <1>3, <2>1, <2>2
    DEF Crash, Custody, Marked, ResumeApart, LinesWellFormed, BootOrder, Holds, NoCall
  <2>4. OnceEach' /\ RowEach'
    BY <2>1, <2>2 DEF OnceEach, RowEach, NoRepeats, Holds, NoCall
  <2> QED
    BY <2>3, <2>4, OnceIs, InHandIs DEF Custody
<1> QED
  BY <1>1, <1>2, <1>3

(* Every step keeps the custody. *)
LEMMA CustodyStep ==
  ASSUME TypeOK, Custody, [Next]_vars
  PROVE  Custody'
<1> DEFINE still == <<dedup, inflight, stale, resume, call, line, aged, settled>>
           quiet == <<dedup, inflight, stale, resume, line, phase, aged, settled>>
<1>1. ASSUME UNCHANGED still, UNCHANGED <<phase, pod, tick, sweep>> PROVE Custody'
  <2>1. LinesWellFormed' /\ BootOrder'
    BY <1>1 DEF Custody, LinesWellFormed, BootOrder
  <2> QED
    BY <1>1, <2>1, Frame
<1>2. ASSUME \/ UNCHANGED vars
             \/ BreakerAges
             \/ \E o \in Objs : EditRemote(o)
             \/ \E v \in Times : NotesCursorSet(v)
      PROVE  Custody'
  BY <1>1, <1>2
  DEF vars, gitlab, memory, counts, BreakerAges, EditRemote, NotesCursorSet
<1>3. ASSUME NEW o \in Objs, ApplyRemote(o) \/ ApplyThrows(o) PROVE Custody'
  <2>1. /\ UNCHANGED still /\ UNCHANGED <<pod, tick, sweep>>
        /\ phase[o] = "apply" /\ phase' = [phase EXCEPT ![o] = "settle"]
    BY <1>3 DEF ApplyRemote, ApplyThrows
  <2>2. LinesWellFormed' /\ BootOrder'
    BY <2>1 DEF Custody, LinesWellFormed, BootOrder, TypeOK
  <2> QED
    BY <2>1, <2>2, Frame
<1>4. ASSUME \/ TickRead \/ TickEnqueue \/ TickThrows \/ ListIssues \/ ListThrows
             \/ SweepDone \/ SweepDropped \/ Started
      PROVE  Custody'
  <2>1. /\ UNCHANGED still /\ UNCHANGED phase
        /\ \/ pod = "up" /\ UNCHANGED pod
           \/ Started
    BY <1>4, PodIs
    DEF TickRead, TickEnqueue, TickThrows, ListIssues, ListThrows, SweepDone,
        SweepDropped, Started, NoTick, NoSweep
  <2>2. LinesWellFormed' /\ BootOrder'
    BY <2>1 DEF Custody, LinesWellFormed, BootOrder, Started
  <2> QED
    BY <2>1, <2>2, Frame
<1>5. ASSUME NEW c \in Slots, NEW o \in Objs, NEW v \in 1..MaxVer, DeliverHook(c, o, v)
      PROVE  Custody'
  <2>1. /\ UNCHANGED quiet /\ c \in Callers
        /\ call' = [call EXCEPT ![c] = [at |-> "find", ev |-> Hook(o, v)]]
    BY <1>5 DEF DeliverHook, Callers
  <2>2. BootOrder'
    BY <1>5 DEF Custody, DeliverHook, BootOrder
  <2> QED
    BY <2>1, <2>2, Asking
<1>6. ASSUME NEW e \in Event, SweepNext(e) PROVE Custody'
  <2>1. /\ UNCHANGED quiet /\ "sweep" \in Callers
        /\ call' = [call EXCEPT !["sweep"] = [at |-> "find", ev |-> e]]
    BY <1>6 DEF SweepNext, Callers
  <2>2. BootOrder'
    BY <1>6, PodIs DEF Custody, SweepNext, BootOrder, NoSweep
  <2> QED
    BY <2>1, <2>2, Asking
<1>7. ASSUME NEW c \in Callers, FindSeen(c) PROVE Custody'
  <2> DEFINE x == IF Seen(call[c].ev) THEN NoCall ELSE [call[c] EXCEPT !.at = "insert"]
  <2>1. UNCHANGED quiet /\ call' = [call EXCEPT ![c] = x]
    BY <1>7 DEF FindSeen
  <2>2. call[c] # NoCall
    BY <1>7 DEF FindSeen, NoCall
  <2>3. BootOrder'
    BY <1>7, <2>2, PodIs DEF Custody, FindSeen, BootOrder
  <2>4. x.at \notin {"row", "enqueue"}
    <3>1. call[c] \in [at : {"find", "insert", "row", "enqueue"}, ev : Event]
      BY <1>7, CallHasEvent DEF FindSeen
    <3> QED
      BY <3>1 DEF NoCall
  <2> HIDE DEF x
  <2> QED
    BY <2>1, <2>3, <2>4, Asking
<1> QED
  BY <1>2, <1>3, <1>4, <1>5, <1>6, <1>7, MarkSeenKeeps, CreateInflightKeeps,
     EnqueueKeeps, SettleKeeps, ResumeKeeps, RowStepsKeep
  DEF Next, EngineStep

-----------------------------------------------------------------------------
(* What the cursor covers. *)

(* On its way, place by place. *)
Way(e) ==
  \/ e \in Queued \cup resume
  \/ \E c \in Callers : call[c] # NoCall /\ call[c].ev = e
  \/ sweep.at = "loop" /\ e \in sweep.todo
  \/ pod = "down" /\ e \in inflight

(* The two agree, before and after a step. *)
LEMMA WayIs ==
  (\A e : e \in OnTheWay <=> Way(e)) /\ (\A e : e \in OnTheWay <=> Way(e))'
BY DEF OnTheWay, InTransit, Way, Queued, Elems

(* So do RowsHeld and its places. *)
HeldEach ==
  pod # "down" =>
    \A e \in inflight : \/ e \in Queued \cup resume
                        \/ \E c \in Callers : call[c].at = "enqueue" /\ call[c].ev = e

LEMMA HeldIs ==
  (RowsHeld <=> HeldEach) /\ (RowsHeld <=> HeldEach)'
BY DEF RowsHeld, HeldEach, InHand, Queued, Elems

(* A step that reads no new point and takes polled events off their way    *)
(* only when they have reached Huly or are lost keeps every point safe.    *)
LEMMA Carry ==
  ASSUME TypeOK, TypeOK', Grows, Dated, PointsSafe,
         UNCHANGED <<remote, clock>>, lost \subseteq lost',
         \A o \in Objs : mirror[o] <= mirror'[o] /\ mirror'[o] <= remote[o],
         \A e \in OnTheWay' : e.src = "poll" => e \in OnTheWay,
         \A e \in OnTheWay : e.src = "poll" => e \in OnTheWay' \/ Reached(e)',
         \A b \in Times : Read(b)' => \/ IsPoint(b)
                                      \/ \E p \in Times : IsPoint(p) /\ b <= p
                                      \/ b <= blind'
  PROVE  Dated' /\ PointsSafe'
<1>1. /\ remote \in [Objs -> 0..MaxVer] /\ mirror \in [Objs -> 0..MaxVer]
      /\ mirror' \in [Objs -> 0..MaxVer] /\ clock \in 0..MaxVer
      /\ MaxVer \in Nat /\ blind \in Int /\ blind' \in Int /\ blind <= blind'
      /\ blind' <= clock + 1 /\ \A b \in Times : b \in Int
  BY EngineAssumption DEF TypeOK, Times, Grows, Timely
<1>2. Dated'
  BY <1>1 DEF Dated
<1>3. ASSUME NEW o \in Objs, Covered(o) PROVE Covered(o)'
  <2> DEFINE p == Poll(o, remote[o])
  <2>1. p.obj = o /\ p.ver = remote[o] /\ p.src = "poll" /\ p' = p
    BY DEF Poll
  <2>2. CASE mirror[o] = remote[o]
    <3>1. mirror'[o] = remote'[o]
      BY <1>1, <2>2
    <3> QED
      BY <3>1 DEF Covered
  <2>3. CASE p \in OnTheWay \cup lost
    <3>1. p \in OnTheWay' \cup lost' \/ mirror'[o] >= remote[o]
      BY <2>1, <2>3 DEF Reached
    <3>2. p \in OnTheWay' \cup lost' \/ mirror'[o] = remote'[o]
      BY <1>1, <3>1
    <3> QED
      BY <2>1, <3>2 DEF Covered
  <2>4. CASE remote[o] < blind
    <3>1. remote'[o] < blind'
      BY <1>1, <2>4
    <3> QED
      BY <3>1 DEF Covered
  <2> QED
    BY <1>3, <2>2, <2>3, <2>4 DEF Covered
<1>4. ASSUME NEW b \in Times, IsPoint(b)' PROVE Safe(b)'
  <2>1. \/ IsPoint(b)
        \/ \E p \in Times : IsPoint(p) /\ b <= p
        \/ b <= blind'
    BY <1>4 DEF IsPoint
  <2>2. CASE IsPoint(b)
    <3>1. Safe(b)
      BY <2>2 DEF PointsSafe
    <3> QED
      BY <1>3, <3>1 DEF Safe
  <2>3. CASE \E p \in Times : IsPoint(p) /\ b <= p
    <3>1. PICK p \in Times : IsPoint(p) /\ b <= p
      BY <2>3
    <3>2. Safe(p) /\ p \in Int /\ b \in Int
      BY <1>1, <3>1 DEF PointsSafe
    <3> QED
      BY <1>1, <1>3, <3>1, <3>2 DEF Safe
  <2>4. CASE b <= blind'
    <3>1. b \in Int
      BY <1>1
    <3>2. ASSUME NEW o \in Objs, remote'[o] < b PROVE Covered(o)'
      BY <1>1, <2>4, <3>1, <3>2 DEF Covered
    <3> QED
      BY <1>1, <2>4, <3>1, <3>2 DEF Safe
  <2> QED
    BY <2>1, <2>2, <2>3, <2>4
<1> QED
  BY <1>2, <1>4 DEF PointsSafe

(* So do the marks, if the holders of marked events keep them. *)
LEMMA CarryMarks ==
  ASSUME TypeOK, TypeOK', MarksKept, lost \subseteq lost',
         \A o \in Objs : mirror[o] <= mirror'[o],
         \A e \in dedup' : e.src = "poll" => e \in dedup \/ Kept(e)',
         \A e \in dedup : e.src = "poll" /\ Kept(e) => Kept(e)' \/ Reached(e)'
  PROVE  MarksKept'
<1>1. ASSUME NEW e \in dedup, Reached(e) PROVE Reached(e)'
  <2>1. e \in Event /\ e.obj \in Objs /\ e.ver \in 1..MaxVer
    BY DEF TypeOK, Event
  <2>2. mirror[e.obj] \in 0..MaxVer /\ mirror'[e.obj] \in 0..MaxVer /\ MaxVer \in Nat
    BY <2>1, EngineAssumption DEF TypeOK
  <2> QED
    BY <1>1, <2>1, <2>2 DEF Reached
<1> QED
  BY <1>1 DEF MarksKept

(* Ticks, sweeps that begin or end, ageing rows and the breaker's clock     *)
(* move no event and only hand points on.                                  *)
LEMMA QuietCovers ==
  ASSUME TypeOK, TypeOK', Grows, Cover,
         UNCHANGED <<remote, clock, mirror, dedup, inflight, lost, resume, call,
                     line, phase, pod>>,
         \A e : sweep'.at = "loop" /\ e \in sweep'.todo
                  <=> sweep.at = "loop" /\ e \in sweep.todo,
         \A b \in Times : Read(b)' => \/ Read(b)
                                      \/ \E p \in Times : Read(p) /\ b <= p
                                      \/ b <= blind'
  PROVE  Cover'
<1>1. UNCHANGED Queued
  BY DEF Queued, Elems
<1>2. \A e : e \in OnTheWay' <=> e \in OnTheWay
  <2>1. \A e : Way(e)' <=> Way(e)
    BY <1>1 DEF Way
  <2> QED
    BY <2>1, WayIs
<1>3. \A o \in Objs : mirror[o] <= mirror'[o] /\ mirror'[o] <= remote[o]
  <2>1. mirror \in [Objs -> 0..MaxVer] /\ MaxVer \in Nat /\ mirror' = mirror
    BY EngineAssumption DEF TypeOK
  <2>2. \A o \in Objs : mirror[o] <= remote[o]
    BY DEF Cover, Dated
  <2> QED
    BY <2>1, <2>2
<1>4. Dated' /\ PointsSafe'
  BY <1>2, <1>3, Carry DEF Cover, IsPoint
<1>5. \A e : Kept(e)' <=> Kept(e)
  BY <1>1 DEF Kept, Holds
<1>6. MarksKept'
  BY <1>3, <1>5, CarryMarks DEF Cover
<1>7. HeadsReached' /\ RowsHeld'
  BY <1>1, HeldIs DEF Cover, HeadsReached, Reached, HeldEach
<1> QED
  BY <1>4, <1>6, <1>7 DEF Cover

(* dispatch of the next backfill entry takes its `since` from the line. *)
LEMMA EndSweepReads ==
  ASSUME TypeOK, NEW b, EndSweep(b), UNCHANGED <<cursor, tick>>
  PROVE  /\ sweep'.at # "loop"
         /\ \A p \in Times : Read(p)' => Read(p)
<1>1. CASE waiting = <<>>
  BY <1>1 DEF EndSweep, NoSweep, Read
<1>2. CASE waiting # <<>>
  <2>1. /\ sweep' = StartSweep(waiting[1], b) /\ 1 \in 1..Len(waiting)
        /\ \A n \in 1..Len(waiting') : /\ n + 1 \in 1..Len(waiting)
                                       /\ waiting'[n] = waiting[n + 1]
    <3>1. waiting \in Seq(Times) /\ waiting' = Tail(waiting)
      BY <1>2 DEF EndSweep, TypeOK
    <3>2. Head(waiting) = waiting[1] /\ Len(waiting) \in Nat \ {0}
      BY <1>2, <3>1
    <3>3. /\ Len(waiting') = Len(waiting) - 1
          /\ \A n \in 1..Len(waiting') : waiting'[n] = waiting[n + 1]
      BY <1>2, <3>1, HeadTailProperties
    <3> QED
      BY <1>2, <3>2, <3>3 DEF EndSweep
  <2>2. /\ sweep'.at # "loop"
        /\ sweep'.at = "list" => sweep'.since = waiting[1]
    BY <2>1 DEF StartSweep
  <2> QED
    BY <2>1, <2>2 DEF Read
<1> QED
  BY <1>1, <1>2

LEMMA QuietSteps ==
  ASSUME TypeOK, TypeOK', Grows, Cover,
         \/ TickRead \/ TickEnqueue \/ TickThrows \/ ListThrows \/ SweepDone
         \/ SweepDropped \/ BreakerAges \/ \E v \in Times : NotesCursorSet(v)
         \/ UNCHANGED vars
         \/ \E e \in Event : AgeRow(e)
  PROVE  Cover'
<1>1. UNCHANGED <<remote, clock, mirror, dedup, inflight, lost, resume, call,
                  line, phase, pod, cursor>>
  BY DEF TickRead, TickEnqueue, TickThrows, ListThrows, SweepDone, SweepDropped,
         BreakerAges, AgeRow, NotesCursorSet, vars, gitlab, memory, counts
<1>2. CASE TickRead
  <2>1. \A b \in Times : Read(b)' => Read(b)
    BY <1>1, <1>2 DEF TickRead, Read
  <2> QED
    BY <1>1, <1>2, <2>1, QuietCovers DEF TickRead
<1>3. CASE TickEnqueue
  <2> DEFINE since == Since(tick.since, notes)
             below(b) == \/ Read(b)
                         \/ \E p \in Times : Read(p) /\ b <= p
                         \/ b <= blind'
  <2>1. /\ tick.at = "read" /\ tick' = NoTick /\ tick.since \in Times
        /\ notes \in Times /\ blind \in Times /\ \A b \in Times : b \in Nat
        /\ blind' = IF tick.since = 0 /\ since > blind THEN since ELSE blind
    BY <1>3, EngineAssumption DEF TickEnqueue, TypeOK, Ticks, NoTick, Times
  <2>2. since \in Times /\ (since <= tick.since \/ since <= blind')
    BY <2>1 DEF Since
  <2>3. below(since)
    BY <2>1, <2>2 DEF Read
  <2> HIDE DEF since
  <2>4. CASE sweep = NoSweep
    <3>1. sweep' = StartSweep(since, brk) /\ UNCHANGED waiting /\ sweep.at = "off"
      BY <1>3, <2>4 DEF TickEnqueue, NoSweep, since
    <3>2. sweep'.at # "loop" /\ sweep.at # "loop"
      BY <3>1 DEF StartSweep
    <3>3. \A b \in Times : Read(b)' => Read(b) \/ b = since
      BY <1>1, <2>1, <3>1 DEF StartSweep, Read, NoTick
    <3>4. \A b \in Times : Read(b)' => below(b)
      BY <2>3, <3>3
    <3> QED
      BY <1>1, <3>2, <3>4, QuietCovers
  <2>5. CASE sweep # NoSweep
    <3>1. /\ waiting' = Append(waiting, since) /\ UNCHANGED sweep
          /\ waiting \in Seq(Times)
      BY <1>3, <2>5 DEF TickEnqueue, TypeOK, since
    <3>2. \A n \in 1..Len(waiting') : \/ waiting'[n] = since
                                      \/ n \in 1..Len(waiting) /\ waiting'[n] = waiting[n]
      BY <2>2, <3>1, AppendProperties
    <3>3. \A b \in Times : Read(b)' => Read(b) \/ b = since
      BY <1>1, <2>1, <3>1, <3>2 DEF Read, NoTick
    <3>4. \A b \in Times : Read(b)' => below(b)
      BY <2>3, <3>3
    <3> QED
      BY <1>1, <3>1, <3>4, QuietCovers
  <2> QED
    BY <2>4, <2>5
<1>6. CASE TickThrows
  <2>1. UNCHANGED <<sweep, waiting>> /\ tick' = NoTick
    BY <1>6 DEF TickThrows
  <2>2. \A b \in Times : Read(b)' => Read(b)
    BY <1>1, <2>1 DEF Read, NoTick
  <2> QED
    BY <1>1, <2>1, <2>2, QuietCovers
<1>4. CASE ListThrows \/ SweepDone \/ SweepDropped
  <2>1. PICK b : EndSweep(b)
    BY <1>4 DEF ListThrows, SweepDone, SweepDropped
  <2>2. UNCHANGED tick /\ ~(\E e : sweep.at = "loop" /\ e \in sweep.todo)
    BY <1>4 DEF ListThrows, SweepDone, SweepDropped
  <2>3. sweep'.at # "loop" /\ \A p \in Times : Read(p)' => Read(p)
    BY <1>1, <2>1, <2>2, EndSweepReads
  <2> QED
    BY <1>1, <2>2, <2>3, QuietCovers
<1>5. CASE \/ BreakerAges \/ UNCHANGED vars \/ \E e \in Event : AgeRow(e)
           \/ \E v \in Times : NotesCursorSet(v)
  <2>1. UNCHANGED <<sweep, tick, waiting>>
    BY <1>5 DEF BreakerAges, AgeRow, NotesCursorSet, vars, memory
  <2>2. \A b \in Times : Read(b)' => Read(b)
    BY <1>1, <2>1 DEF Read
  <2> QED
    BY <1>1, <2>1, <2>2, QuietCovers
<1> QED
  BY <1>2, <1>3, <1>4, <1>5, <1>6

(* A new version is newer than every point. *)
LEMMA EditCovers ==
  ASSUME TypeOK, TypeOK', Grows, Cover, NEW o \in Objs, EditRemote(o)
  PROVE  Cover'
<1>1. /\ UNCHANGED <<mirror, dedup, inflight, lost, resume, call, line, phase, pod,
                     cursor, tick, sweep, waiting>>
      /\ clock' = clock + 1 /\ remote'[o] = clock + 1
      /\ \A x \in Objs : x # o => remote'[x] = remote[x]
  BY DEF EditRemote, memory, counts, TypeOK
<1>2. UNCHANGED Queued
  BY <1>1 DEF Queued, Elems
<1>3. /\ OnTheWay' = OnTheWay
      /\ \A e : Kept(e)' <=> Kept(e)
      /\ \A b : Read(b)' <=> Read(b)
  BY <1>1, <1>2 DEF OnTheWay, InTransit, Kept, Holds, Read
<1>4. /\ remote \in [Objs -> 0..MaxVer] /\ mirror \in [Objs -> 0..MaxVer]
      /\ clock \in 0..MaxVer /\ MaxVer \in Nat /\ OnTheWay \subseteq Event
      /\ \A b \in Times : b \in Int
      /\ blind \in Int /\ blind' \in Int /\ blind <= blind'
  <2>1. /\ remote \in [Objs -> 0..MaxVer] /\ mirror \in [Objs -> 0..MaxVer]
        /\ clock \in 0..MaxVer /\ blind \in Times /\ blind' \in Times
    BY DEF TypeOK
  <2>2. MaxVer \in Nat /\ \A b \in Times : b \in Int
    BY EngineAssumption DEF Times
  <2> QED
    BY <2>1, <2>2, WayType DEF Grows
<1>5. \A x \in Objs : remote[x] <= clock /\ remote[x] <= remote'[x] /\ remote'[x] <= clock'
  BY <1>1, <1>4 DEF Cover, Dated
<1>6. Dated'
  <2>1. \A x \in Objs : mirror[x] <= remote'[x]
    <3> SUFFICES ASSUME NEW x \in Objs PROVE mirror[x] <= remote'[x]
      OBVIOUS
    <3>1. mirror[x] <= remote[x]
      BY DEF Cover, Dated
    <3>2. mirror[x] \in Int /\ remote[x] \in Int /\ remote'[x] \in Int
      BY <1>1, <1>4
    <3> QED
      BY <1>5, <3>1, <3>2
  <2>2. \A e \in OnTheWay : e.src = "poll" => e.ver <= remote'[e.obj]
    <3> SUFFICES ASSUME NEW e \in OnTheWay, e.src = "poll" PROVE e.ver <= remote'[e.obj]
      OBVIOUS
    <3>1. e.obj \in Objs /\ e.ver \in 1..MaxVer /\ e.ver <= remote[e.obj]
      BY <1>4 DEF Event, Cover, Dated
    <3>2. remote'[e.obj] \in Int /\ remote[e.obj] \in Int
      BY <1>1, <1>4, <3>1
    <3> QED
      BY <1>5, <3>1, <3>2
  <2> QED
    BY <1>1, <1>3, <1>5, <2>1, <2>2 DEF Dated
<1>7. PointsSafe'
  <2> SUFFICES ASSUME NEW b \in Times, IsPoint(b)' PROVE Safe(b)'
    BY DEF PointsSafe
  <2>1. IsPoint(b)
    BY <1>3 DEF IsPoint
  <2>2. Safe(b)
    BY <2>1 DEF Cover, PointsSafe
  <2>3. ASSUME NEW x \in Objs, 0 < remote'[x], remote'[x] < b PROVE Covered(x)'
    <3>1. x # o /\ remote'[x] = remote[x]
      BY <1>1, <1>4, <2>2, <2>3 DEF Safe
    <3>2. Covered(x)
      BY <2>2, <2>3, <3>1 DEF Safe
    <3> QED
      BY <1>1, <1>3, <1>4, <3>1, <3>2 DEF Covered, Poll
  <2>4. b <= clock' + 1
    BY <1>1, <1>4, <2>2 DEF Safe
  <2> QED
    BY <2>3, <2>4 DEF Safe
<1>8. MarksKept' /\ HeadsReached'
  BY <1>1, <1>3 DEF Cover, MarksKept, HeadsReached, Reached
<1>9. RowsHeld'
  BY <1>1, <1>2, HeldIs DEF Cover, HeldEach
<1> QED
  BY <1>6, <1>7, <1>8, <1>9 DEF Cover

(* A listing puts every issue that the point it used does not cover on its *)
(* way.                                                                    *)
LEMMA ListCovers ==
  ASSUME TypeOK, TypeOK', Grows, Cover, ListIssues
  PROVE  Cover'
<1> DEFINE listed == {Poll(o, remote[o]) : o \in {x \in Objs : Lists(x, sweep.since)}}
<1>1. /\ UNCHANGED <<remote, clock, mirror, dedup, inflight, lost, resume, call, line,
                     phase, pod, cursor, tick, waiting>>
      /\ sweep.at = "list" /\ sweep' = [at |-> "loop", todo |-> listed]
  BY DEF ListIssues, gitlab
<1>2. UNCHANGED Queued
  BY <1>1 DEF Queued, Elems
<1>3. sweep'.at = "loop" /\ sweep'.todo = listed
  BY <1>1
<1>4. /\ remote \in [Objs -> 0..MaxVer] /\ clock \in 0..MaxVer /\ MaxVer \in Nat
      /\ sweep.since \in Times /\ \A b \in Times : b \in Int
      /\ blind \in Int /\ blind' \in Int /\ blind <= blind'
  BY <1>1, EngineAssumption DEF TypeOK, Sweeps, NoSweep, Times, Grows
<1>5. \A e \in listed : e.ver = remote[e.obj] /\ e.obj \in Objs
  BY DEF Poll
<1>6. \A o \in Objs : 0 < remote[o] /\ sweep.since <= remote[o]
                        => Poll(o, remote[o]) \in listed
  BY <1>4 DEF Lists
<1> HIDE DEF listed
<1>7. \A e : e \in OnTheWay' <=> e \in OnTheWay \cup listed
  <2>1. \A e : Way(e)' <=> Way(e) \/ e \in listed
    BY <1>1, <1>2, <1>3 DEF Way
  <2> QED
    BY <2>1, WayIs
<1>8. Safe(sweep.since)
  BY <1>1, <1>4 DEF Cover, PointsSafe, IsPoint, Read
<1>9. ASSUME NEW o \in Objs, 0 < remote[o] PROVE Covered(o)'
  <2>1. CASE remote[o] < sweep.since
    <3>1. Covered(o)
      BY <1>8, <1>9, <2>1 DEF Safe
    <3> QED
      BY <1>1, <1>4, <1>7, <3>1 DEF Covered, Poll
  <2>2. CASE sweep.since <= remote[o]
    <3>1. Poll(o, remote[o]) \in OnTheWay'
      BY <1>6, <1>7, <1>9, <2>2
    <3> QED
      BY <1>1, <3>1 DEF Covered, Poll
  <2> QED
    BY <1>4, <2>1, <2>2
<1>10. \A o \in Objs : mirror[o] <= remote[o] /\ remote[o] <= clock
  BY DEF Cover, Dated
<1>11. Dated'
  <2>1. \A e \in OnTheWay' : e.src = "poll" => e.ver <= remote[e.obj]
    <3> SUFFICES ASSUME NEW e \in OnTheWay', e.src = "poll" PROVE e.ver <= remote[e.obj]
      OBVIOUS
    <3>1. CASE e \in OnTheWay
      BY <3>1 DEF Cover, Dated
    <3>2. CASE e \in listed
      BY <1>4, <1>5, <3>2
    <3> QED
      BY <1>7, <3>1, <3>2
  <2> QED
    BY <1>1, <1>10, <2>1 DEF Dated
<1>12. PointsSafe'
  <2> SUFFICES ASSUME NEW b \in Times, IsPoint(b)' PROVE Safe(b)'
    BY DEF PointsSafe
  <2>1. b <= clock + 1
    <3>1. CASE Read(b)'
      <4>1. Read(b)
        BY <1>1, <1>3, <3>1 DEF Read
      <4> QED
        BY <4>1 DEF Cover, PointsSafe, IsPoint, Safe
    <3>2. ASSUME NEW e \in OnTheWay', e.src = "poll", b = e.ver PROVE b <= clock + 1
      <4>1. CASE e \in OnTheWay
        BY <3>2, <4>1 DEF Cover, PointsSafe, IsPoint, Safe
      <4>2. CASE e \in listed
        BY <1>4, <1>5, <1>10, <3>2, <4>2
      <4> QED
        BY <1>7, <3>2, <4>1, <4>2
    <3> QED
      BY <3>1, <3>2 DEF IsPoint
  <2> QED
    BY <1>1, <1>9, <2>1 DEF Safe
<1>13. \A e : Kept(e)' <=> Kept(e)
  BY <1>1, <1>2 DEF Kept, Holds
<1>14. MarksKept' /\ HeadsReached' /\ RowsHeld'
  BY <1>1, <1>2, <1>13, HeldIs
  DEF Cover, MarksKept, HeadsReached, Reached, HeldEach
<1> QED
  BY <1>11, <1>12, <1>14 DEF Cover

(* What a step keeps of Cover when events move and nothing is applied or    *)
(* listed: a polled event leaves its way, or the hands of who holds it,    *)
(* only lost.                                                              *)
LEMMA MoveCovers ==
  ASSUME TypeOK, TypeOK', Grows, Cover, HeadsReached', RowsHeld',
         UNCHANGED <<remote, clock, mirror, cursor>>, lost \subseteq lost',
         \A e \in OnTheWay' : e.src = "poll" => e \in OnTheWay,
         \A e \in OnTheWay : e.src = "poll" => e \in OnTheWay' \/ Reached(e)',
         \A b \in Times : Read(b)' => IsPoint(b),
         \A e \in dedup' : e.src = "poll" => e \in dedup \/ Kept(e)',
         \A e \in dedup : e.src = "poll" /\ Kept(e) => Kept(e)' \/ Reached(e)'
  PROVE  Cover'
<1>1. \A o \in Objs : mirror[o] <= mirror'[o] /\ mirror'[o] <= remote[o]
  <2>1. mirror \in [Objs -> 0..MaxVer] /\ MaxVer \in Nat /\ mirror' = mirror
    BY EngineAssumption DEF TypeOK
  <2>2. \A o \in Objs : mirror[o] <= remote[o]
    BY DEF Cover, Dated
  <2> QED
    BY <2>1, <2>2
<1>2. Dated' /\ PointsSafe'
  BY <1>1, Carry DEF Cover
<1>3. MarksKept'
  BY <1>1, CarryMarks DEF Cover
<1> QED
  BY <1>2, <1>3 DEF Cover

(* A call that leaves before the mark, or is refused it, leaves an event   *)
(* that is marked and so has reached Huly, is lost, or is kept by another. *)
LEMMA CallCovers ==
  ASSUME TypeOK, TypeOK', Grows, Custody, Cover, NEW c \in Callers,
         FindSeen(c) \/ MarkSeen(c) \/ CreateInflight(c)
  PROVE  Cover'
<1> SUFFICES ASSUME NEW e, e = call[c].ev PROVE Cover'
  OBVIOUS
<1>1. /\ UNCHANGED <<remote, clock, mirror, cursor, lost, resume, line, phase, pod,
                     tick, sweep, waiting>>
      /\ dedup' \subseteq dedup \cup {e} /\ dedup \subseteq dedup'
      /\ inflight' \subseteq inflight \cup {e} /\ inflight \subseteq inflight'
  BY DEF FindSeen, MarkSeen, CreateInflight, RowsWith, gitlab
<1>2. UNCHANGED Queued
  BY <1>1 DEF Queued, Elems
<1>3. /\ call[c] \in [at : {"find", "insert", "row", "enqueue"}, ev : Event]
      /\ e \in Event /\ call[c] # NoCall /\ pod = "up"
  BY CallHasEvent, PodIs DEF FindSeen, MarkSeen, CreateInflight, NoCall
<1>4. \A d \in Callers : d # c => call'[d] = call[d]
  BY DEF FindSeen, MarkSeen, CreateInflight, TypeOK
<1>5. \/ /\ call'[c] = NoCall /\ e \in dedup /\ dedup' = dedup /\ inflight' = inflight
         /\ ~Holds(c)
      \/ /\ call'[c].ev = e /\ call'[c] # NoCall
         /\ Holds(c) => Holds(c)'
         /\ call[c].at # "enqueue"
         /\ e \in dedup' \ dedup => Holds(c)'
         /\ e \in inflight' \ inflight => call'[c].at = "enqueue"
  <2>1. \A a \in {"insert", "row", "enqueue"} :
          LET r == [call[c] EXCEPT !.at = a] IN r.at = a /\ r.ev = e /\ r # NoCall
    BY <1>3 DEF NoCall
  <2>2. c \in DOMAIN call
    BY DEF TypeOK
  <2>3. CASE FindSeen(c)
    BY <1>3, <2>1, <2>2, <2>3 DEF FindSeen, Seen, Holds
  <2>4. CASE MarkSeen(c)
    BY <1>3, <2>1, <2>2, <2>4 DEF MarkSeen, Fresh, Holds
  <2>5. CASE CreateInflight(c)
    <3>1. call'[c] = [call[c] EXCEPT !.at = "enqueue"] /\ e \in dedup /\ UNCHANGED dedup
      BY <2>2, <2>5 DEF CreateInflight, Custody, Marked, Holds
    <3> QED
      BY <2>1, <2>5, <3>1 DEF CreateInflight, Holds
  <2> QED
    BY <2>3, <2>4, <2>5
<1>6. \A x \in OnTheWay' : x \in OnTheWay
  <2>1. \A x : Way(x)' => Way(x)
    BY <1>1, <1>2, <1>3, <1>4, <1>5 DEF Way
  <2> QED
    BY <2>1, WayIs
<1>7. \A x \in Event : x \in OnTheWay => x \in OnTheWay' \/ (x = e /\ call'[c] = NoCall)
  <2>1. \A x \in Event : Way(x) => Way(x)' \/ (x = e /\ call'[c] = NoCall)
    <3> SUFFICES ASSUME NEW x \in Event, Way(x), ~(x = e /\ call'[c] = NoCall)
                 PROVE  Way(x)'
      OBVIOUS
    <3>1. ASSUME NEW d \in Callers, call[d] # NoCall, call[d].ev = x PROVE Way(x)'
      <4>1. call'[d] # NoCall /\ call'[d].ev = x
        BY <1>4, <1>5, <3>1
      <4> QED
        BY <4>1 DEF Way
    <3> QED
      BY <1>1, <1>2, <1>3, <3>1 DEF Way
  <2> QED
    BY <2>1, WayIs
<1>8. \A x : Kept(x) => Kept(x)'
  BY <1>1, <1>2, <1>3, <1>4, <1>5 DEF Kept, Holds
<1>9. \A x : Kept(x)' => Way(x)'
  BY <1>1 DEF Kept, Way, Holds, NoCall
<1>10. \A x \in OnTheWay : x.src = "poll" => x \in OnTheWay' \/ Reached(x)'
  <2> SUFFICES ASSUME NEW x \in OnTheWay, x.src = "poll", x = e, call'[c] = NoCall
               PROVE  x \in OnTheWay' \/ Reached(x)'
    BY <1>7, WayType
  <2>1. e \in dedup
    BY <1>3, <1>5
  <2>2. Reached(e) \/ Kept(e)
    BY <2>1 DEF Cover, MarksKept
  <2>3. Reached(e) => Reached(e)'
    BY <1>1 DEF Reached
  <2> QED
    BY <1>8, <1>9, <2>2, <2>3, WayIs
<1>11. \A x \in dedup' : x \in dedup \/ Kept(x)'
  BY <1>1, <1>5 DEF Kept
<1>12. HeadsReached'
  BY <1>1 DEF Cover, HeadsReached, Reached
<1>13. RowsHeld'
  <2>1. HeldEach
    BY HeldIs DEF Cover
  <2>2. HeldEach'
    BY <1>1, <1>2, <1>3, <1>4, <1>5, <2>1 DEF HeldEach, NoCall, Holds
  <2> QED
    BY <2>2, HeldIs
<1>14. \A b \in Times : Read(b)' => IsPoint(b)
  BY <1>1 DEF Read, IsPoint
<1> QED
  BY <1>1, <1>6, <1>8, <1>10, <1>11, <1>12, <1>13, <1>14, MoveCovers

(* A webhook's call has nothing to do with the cursor; the sweep's next    *)
(* call takes its event from the listing.                                  *)
LEMMA BeginCovers ==
  ASSUME TypeOK, TypeOK', Grows, Custody, Cover,
         \/ \E c \in Slots, o \in Objs, v \in 1..MaxVer : DeliverHook(c, o, v)
         \/ \E x \in Event : SweepNext(x)
  PROVE  Cover'
<1>1. UNCHANGED <<remote, clock, mirror, cursor, lost, resume, line, phase, pod,
                  tick, waiting, dedup, inflight>>
  BY DEF DeliverHook, SweepNext, gitlab
<1>2. UNCHANGED Queued
  BY <1>1 DEF Queued, Elems
<1> DEFINE Begun(c, e) ==
             /\ call[c] = NoCall /\ call'[c] = [at |-> "find", ev |-> e]
             /\ \A d \in Callers : d # c => call'[d] = call[d]
             /\ sweep'.at = sweep.at /\ (sweep.at = "list" => sweep'.since = sweep.since)
             /\ \/ e.src = "hook" /\ sweep' = sweep
                \/ sweep.at = "loop" /\ e \in sweep.todo /\ sweep'.todo = sweep.todo \ {e}
<1>2b. \E c \in Callers, e \in Event : Begun(c, e)
  <2>1. ASSUME NEW c \in Slots, NEW o \in Objs, NEW v \in 1..MaxVer, DeliverHook(c, o, v)
        PROVE  c \in Callers /\ Hook(o, v) \in Event /\ Begun(c, Hook(o, v))
    BY <2>1 DEF DeliverHook, Callers, Hook, Event, TypeOK
  <2>2. ASSUME NEW x \in Event, SweepNext(x)
        PROVE  "sweep" \in Callers /\ Begun("sweep", x)
    <3>1. sweep \in [at : {"loop"}, todo : SUBSET Event]
      BY <2>2 DEF SweepNext, TypeOK, Sweeps, NoSweep
    <3>2. sweep' = [sweep EXCEPT !.todo = @ \ {x}] /\ x \in sweep.todo
      BY <2>2 DEF SweepNext
    <3>3. sweep.at = "loop" /\ sweep'.at = "loop" /\ sweep'.todo = sweep.todo \ {x}
      BY <3>1, <3>2
    <3> QED
      BY <2>2, <3>2, <3>3 DEF SweepNext, Callers, TypeOK
  <2> HIDE DEF Begun
  <2> QED
    BY <2>1, <2>2
<1>3. PICK c \in Callers, e \in Event : Begun(c, e)
  BY <1>2b
<1>4. call'[c] # NoCall /\ call'[c].ev = e /\ call'[c].at = "find"
  BY <1>3 DEF NoCall
<1>5. \A x : Way(x)' => Way(x) \/ x.src = "hook"
  <2> SUFFICES ASSUME NEW x, Way(x)' PROVE Way(x) \/ x.src = "hook"
    OBVIOUS
  <2>1. ASSUME NEW d \in Callers, call'[d] # NoCall, call'[d].ev = x
        PROVE  Way(x) \/ x.src = "hook"
    BY <1>3, <1>4, <2>1 DEF Way
  <2> QED
    BY <1>1, <1>2, <1>3, <2>1 DEF Way
<1>6. \A x : Way(x) => Way(x)'
  <2> SUFFICES ASSUME NEW x, Way(x) PROVE Way(x)'
    OBVIOUS
  <2>1. ASSUME NEW d \in Callers, call[d] # NoCall, call[d].ev = x PROVE Way(x)'
    BY <1>3, <2>1 DEF Way
  <2>2. Way(e)'
    BY <1>4 DEF Way
  <2> QED
    BY <1>1, <1>2, <1>3, <2>1, <2>2 DEF Way
<1>7. \A d \in Callers : /\ Holds(d)' <=> Holds(d)
                         /\ Holds(d) => call'[d] = call[d]
                         /\ call[d].at = "enqueue" => call'[d] = call[d]
  BY <1>3, <1>4 DEF Holds, NoCall
<1>8. \A x : Kept(x)' <=> Kept(x)
  BY <1>1, <1>2, <1>7 DEF Kept
<1>9. HeadsReached'
  BY <1>1 DEF Cover, HeadsReached, Reached
<1>10. RowsHeld'
  <2>1. HeldEach
    BY HeldIs DEF Cover
  <2>2. HeldEach'
    BY <1>1, <1>2, <1>7, <2>1 DEF HeldEach
  <2> QED
    BY <2>2, HeldIs
<1>11. \A b \in Times : Read(b)' => IsPoint(b)
  BY <1>1, <1>3 DEF Read, IsPoint
<1>12. \A x : x \in OnTheWay' => x \in OnTheWay \/ x.src = "hook"
  BY <1>5, WayIs
<1>13. \A x : x \in OnTheWay => x \in OnTheWay'
  BY <1>6, WayIs
<1> QED
  BY <1>1, <1>8, <1>9, <1>10, <1>11, <1>12, <1>13, MoveCovers

(* queue.enqueue leaves the heads of the lines in dispatch where they are. *)
LEMMA PutKeepsHeads ==
  ASSUME TypeOK, LinesWellFormed, HeadsReached, NEW e \in Event, PutInLine(e),
         UNCHANGED <<mirror, lost>>
  PROVE  HeadsReached'
<1> SUFFICES ASSUME NEW o \in Objs, phase'[o] = "settle" PROVE Reached(Head(line[o]))'
  BY DEF HeadsReached
<1>1. e.obj \in Objs /\ Begin \in {"drop", "apply"}
  BY DEF Event, Begin
<1>2. phase[o] = "settle" /\ line[o] # <<>> /\ line[o] \in Seq(Event)
  <2>1. phase' = [phase EXCEPT ![e.obj] = IF line[e.obj] = <<>> THEN Begin ELSE @]
    BY DEF PutInLine
  <2>2. phase[o] = "settle"
    BY <1>1, <2>1 DEF TypeOK
  <2> QED
    BY <2>2 DEF LinesWellFormed, TypeOK
<1>3. Head(line'[o]) = Head(line[o])
  <2>1. line'[o] = line[o] \/ line'[o] = Append(line[o], e)
    BY <1>1 DEF PutInLine, TypeOK
  <2>2. Head(Append(line[o], e)) = Head(line[o])
    BY <1>2
  <2> QED
    BY <2>1, <2>2
<1>4. Reached(Head(line[o]))
  BY <1>2 DEF HeadsReached
<1> QED
  BY <1>3, <1>4 DEF Reached

(* queue.enqueue: the event passes from the call to the line. *)
LEMMA EnqueueCovers ==
  ASSUME TypeOK, TypeOK', Grows, Custody, Cover, NEW c \in Callers, Enqueue(c)
  PROVE  Cover'
<1> SUFFICES ASSUME NEW e, e = call[c].ev PROVE Cover'
  OBVIOUS
<1>1. /\ UNCHANGED <<remote, clock, mirror, cursor, lost, resume, pod, tick, sweep,
                     waiting, dedup, inflight>>
      /\ PutInLine(e)
  BY DEF Enqueue, gitlab
<1>2. e \in Event /\ call[c] # NoCall /\ Holds(c)
  BY CallHasEvent DEF Enqueue, NoCall, Holds
<1>3. e \notin Queued
  BY <1>2, OnceIs DEF Custody, OnceEach
<1>4. Queued' = Queued \cup {e}
  BY <1>1, <1>2, <1>3, PutFacts, OnceIs DEF Custody, OnceEach
<1>5. call'[c] = NoCall /\ \A d \in Callers : d # c => call'[d] = call[d]
  BY DEF Enqueue, TypeOK
<1>6. \A x : Way(x)' <=> Way(x)
  <2>1. \A x : Way(x)' => Way(x)
    BY <1>1, <1>2, <1>4, <1>5 DEF Way
  <2>2. \A x : Way(x) => Way(x)'
    BY <1>1, <1>4, <1>5 DEF Way
  <2> QED
    BY <2>1, <2>2
<1>7. \A x : Kept(x) => Kept(x)'
  BY <1>1, <1>4, <1>5 DEF Kept, Holds
<1>8. HeadsReached'
  BY <1>1, <1>2, PutKeepsHeads DEF Cover, Custody
<1>9. RowsHeld'
  <2>1. HeldEach
    BY HeldIs DEF Cover
  <2>2. HeldEach'
    BY <1>1, <1>4, <1>5, <2>1 DEF HeldEach
  <2> QED
    BY <2>2, HeldIs
<1>10. \A b \in Times : Read(b)' => IsPoint(b)
  BY <1>1 DEF Read, IsPoint
<1>11. \A x : x \in OnTheWay' <=> x \in OnTheWay
  BY <1>6, WayIs
<1> QED
  BY <1>1, <1>7, <1>8, <1>9, <1>10, <1>11, MoveCovers

(* applyRemote: the mirror takes the version or has a newer one, and the   *)
(* cursor goes to a point that was on its way.                             *)
LEMMA ApplyCovers ==
  ASSUME TypeOK, TypeOK', Grows, Custody, Cover, NEW o \in Objs, ApplyRemote(o)
  PROVE  Cover'
<1> SUFFICES ASSUME NEW e, e = Head(line[o]) PROVE Cover'
  OBVIOUS
<1>1. /\ UNCHANGED <<remote, clock, lost, resume, line, call, pod, tick, sweep,
                     waiting, dedup, inflight>>
      /\ phase[o] = "apply" /\ phase' = [phase EXCEPT ![o] = "settle"]
      /\ mirror' = [mirror EXCEPT ![o] = IF e.ver >= mirror[o] THEN e.ver ELSE @]
      /\ cursor' = e.ver \/ cursor' = cursor
      /\ Readable(e)
  BY DEF ApplyRemote, gitlab, Newer, CursorAt
<1>2. UNCHANGED Queued
  BY <1>1 DEF Queued, Elems
<1>3. /\ e \in Event /\ line[o] \in Seq(Event) /\ line[o] # <<>>
      /\ e = line[o][1] /\ 1 \in 1..Len(line[o])
  BY <1>1, HeadIsEvent DEF Custody
<1>4. e.obj = o /\ e.ver \in 1..MaxVer /\ e.src = "poll"
  <2>1. e.src \in {"hook", "poll"}
    BY <1>3 DEF Event
  <2>2. e.src = "poll"
    BY <1>1, <2>1 DEF Readable, Dereferenced, Fields
  <2> QED
    BY <1>3, <2>2 DEF Event, Custody, LinesWellFormed
<1>5. e \in OnTheWay
  BY <1>3, QueuedIs, WayIs DEF Way
<1>6. /\ mirror \in [Objs -> 0..MaxVer] /\ remote \in [Objs -> 0..MaxVer] /\ MaxVer \in Nat
      /\ \A x \in Objs : mirror[x] <= remote[x]
      /\ e.ver <= remote[o]
  BY <1>4, <1>5, EngineAssumption DEF TypeOK, Cover, Dated
<1>7. /\ \A x \in Objs : mirror[x] <= mirror'[x] /\ mirror'[x] <= remote[x]
      /\ mirror'[o] >= e.ver
  BY <1>1, <1>4, <1>6
<1>8. \A x : x \in OnTheWay' <=> x \in OnTheWay
  <2>1. \A x : Way(x)' <=> Way(x)
    BY <1>1, <1>2 DEF Way
  <2> QED
    BY <2>1, WayIs
<1>9. \A b \in Times : Read(b)' => IsPoint(b)
  BY <1>1, <1>4, <1>5 DEF Read, IsPoint
<1>10. Dated' /\ PointsSafe'
  BY <1>1, <1>7, <1>8, <1>9, Carry DEF Cover
<1>11. \A x : Kept(x)' <=> Kept(x)
  BY <1>1, <1>2 DEF Kept, Holds
<1>12. MarksKept'
  BY <1>1, <1>7, <1>11, CarryMarks DEF Cover
<1>13. HeadsReached'
  <2> SUFFICES ASSUME NEW x \in Objs, phase'[x] = "settle" PROVE Reached(Head(line[x]))'
    BY DEF HeadsReached
  <2>1. CASE x = o
    BY <1>1, <1>4, <1>7, <2>1 DEF Reached
  <2>2. CASE x # o
    <3>1. phase[x] = "settle" /\ mirror'[x] = mirror[x]
      BY <1>1, <2>2 DEF TypeOK
    <3>2. Head(line[x]).obj = x
      <4>1. line[x] \in Seq(Event) /\ line[x] # <<>>
        BY <3>1 DEF Custody, LinesWellFormed, TypeOK
      <4>2. Head(line[x]) = line[x][1] /\ 1 \in 1..Len(line[x])
        BY <4>1
      <4> QED
        BY <4>2 DEF Custody, LinesWellFormed
    <3> QED
      BY <1>1, <3>1, <3>2 DEF Cover, HeadsReached, Reached
  <2> QED
    BY <2>1, <2>2
<1>14. RowsHeld'
  BY <1>1, <1>2, HeldIs DEF Cover, HeldEach
<1> QED
  BY <1>10, <1>12, <1>13, <1>14 DEF Cover

(* An apply that throws loses its event, which leaves the line with the    *)
(* next step.                                                              *)
LEMMA ThrowCovers ==
  ASSUME TypeOK, TypeOK', Grows, Cover, NEW o \in Objs, ApplyThrows(o)
  PROVE  Cover'
<1>1. /\ UNCHANGED <<remote, clock, mirror, cursor, resume, line, call, pod, tick,
                     sweep, waiting, dedup, inflight>>
      /\ phase' = [phase EXCEPT ![o] = "settle"]
      /\ lost' = lost \cup {Head(line[o])}
  BY DEF ApplyThrows, gitlab
<1>2. UNCHANGED Queued
  BY <1>1 DEF Queued, Elems
<1>3. \A x : x \in OnTheWay' <=> x \in OnTheWay
  <2>1. \A x : Way(x)' <=> Way(x)
    BY <1>1, <1>2 DEF Way
  <2> QED
    BY <2>1, WayIs
<1>4. \A x : Kept(x)' <=> Kept(x)
  BY <1>1, <1>2 DEF Kept, Holds
<1>5. HeadsReached'
  <2> SUFFICES ASSUME NEW x \in Objs, phase'[x] = "settle" PROVE Reached(Head(line[x]))'
    BY DEF HeadsReached
  <2>1. CASE x = o
    BY <1>1, <2>1 DEF Reached
  <2>2. CASE x # o
    BY <1>1, <2>2 DEF TypeOK, Cover, HeadsReached, Reached
  <2> QED
    BY <2>1, <2>2
<1>6. RowsHeld'
  BY <1>1, <1>2, HeldIs DEF Cover, HeldEach
<1>7. \A b \in Times : Read(b)' => IsPoint(b)
  BY <1>1 DEF Read, IsPoint
<1> QED
  BY <1>1, <1>3, <1>4, <1>5, <1>6, <1>7, MoveCovers

(* The end of dispatch: the head has reached Huly, was lost to an           *)
(* exception, or is lost to the open breaker now.                          *)
LEMMA SettleCovers ==
  ASSUME TypeOK, TypeOK', Grows, Custody, Cover, NEW o \in Objs, Settle(o)
  PROVE  Cover'
<1> SUFFICES ASSUME NEW e, e = Head(line[o]) PROVE Cover'
  OBVIOUS
<1>1. /\ UNCHANGED <<remote, clock, mirror, cursor, resume, call, pod, tick,
                     sweep, waiting, dedup>>
      /\ inflight' = inflight \ {e}
      /\ lost' = IF phase[o] = "drop" THEN lost \cup {e} ELSE lost
      /\ phase[o] \in {"drop", "settle"}
      /\ line' = [line EXCEPT ![o] = Tail(@)]
      /\ phase' = [phase EXCEPT ![o] = IF Len(line[o]) = 1 THEN "none" ELSE Begin]
  BY DEF Settle, RowsWithout, gitlab
<1>2. Queued' = Queued \ {e}
  BY SettleFacts, OnceIs DEF Custody, OnceEach
<1>3. Reached(e)'
  BY <1>1 DEF Cover, HeadsReached, Reached
<1>4. pod # "down"
  BY <1>1 DEF Custody, BootOrder, LinesWellFormed
<1>5. /\ \A x : Way(x)' => Way(x)
      /\ \A x : Way(x) => Way(x)' \/ x = e
      /\ \A x : Kept(x) => Kept(x)' \/ x = e
  BY <1>1, <1>2, <1>4 DEF Way, Kept, Holds
<1>6. /\ \A x : x \in OnTheWay' => x \in OnTheWay
      /\ \A x : x \in OnTheWay => x \in OnTheWay' \/ x = e
  BY <1>5, WayIs
<1>7. HeadsReached'
  <2> SUFFICES ASSUME NEW x \in Objs, phase'[x] = "settle" PROVE Reached(Head(line[x]))'
    BY DEF HeadsReached
  <2>1. x # o
    <3>1. Begin \in {"drop", "apply"}
      BY DEF Begin
    <3> QED
      BY <1>1, <3>1 DEF TypeOK
  <2>2. phase[x] = "settle" /\ line'[x] = line[x]
    BY <1>1, <2>1 DEF TypeOK
  <2>3. Reached(Head(line[x])) /\ lost \subseteq lost'
    BY <1>1, <2>2 DEF Cover, HeadsReached
  <2> QED
    BY <1>1, <2>2, <2>3 DEF Reached
<1>8. RowsHeld'
  <2>1. HeldEach
    BY HeldIs DEF Cover
  <2>2. HeldEach'
    BY <1>1, <1>2, <2>1 DEF HeldEach
  <2> QED
    BY <2>2, HeldIs
<1>9. \A b \in Times : Read(b)' => IsPoint(b)
  BY <1>1 DEF Read, IsPoint
<1> QED
  BY <1>1, <1>3, <1>5, <1>6, <1>7, <1>8, <1>9, MoveCovers

(* A row that goes with nobody holding its event, by age or by start(),    *)
(* loses it; one that goes under a holder does not.                        *)
LEMMA RowGoneCovers ==
  ASSUME TypeOK, TypeOK', Grows, Custody, Cover, NEW e \in Event, ExpireRow(e) \/ Discard(e)
  PROVE  Cover'
<1>1. /\ UNCHANGED <<remote, clock, mirror, cursor, line, phase, call, pod, tick,
                     sweep, waiting, dedup>>
      /\ inflight' = inflight \ {e} /\ lost \subseteq lost' /\ lost' \subseteq lost \cup {e}
  BY DEF ExpireRow, Discard, gitlab, memory
<1>2. UNCHANGED Queued
  BY <1>1 DEF Queued, Elems
<1>3. \/ resume' = resume /\ (e \in InHand \/ e \in lost')
      \/ resume' = resume \ {e} /\ e \in lost'
  BY DEF ExpireRow, Discard, memory
<1>4. e \in InHand => pod # "down"
  BY DEF Custody, BootOrder, InHand, Queued, Elems, NoCall
<1>5. /\ \A x : Way(x)' => Way(x)
      /\ \A x : Way(x) => Way(x)' \/ (x = e /\ e \in lost')
      /\ \A x : Kept(x) => Kept(x)' \/ (x = e /\ e \in lost')
  BY <1>1, <1>2, <1>3, <1>4 DEF Way, Kept, Holds
<1>6. /\ \A x : x \in OnTheWay' => x \in OnTheWay
      /\ \A x : x \in OnTheWay => x \in OnTheWay' \/ (x = e /\ e \in lost')
  BY <1>5, WayIs
<1>7. HeadsReached'
  BY <1>1 DEF Cover, HeadsReached, Reached
<1>8. RowsHeld'
  <2>1. HeldEach
    BY HeldIs DEF Cover
  <2>2. HeldEach'
    BY <1>1, <1>2, <1>3, <2>1 DEF HeldEach
  <2> QED
    BY <2>2, HeldIs
<1>9. \A b \in Times : Read(b)' => IsPoint(b)
  BY <1>1 DEF Read, IsPoint
<1>10. e \in lost' => Reached(e)'
  BY DEF Reached
<1> QED
  BY <1>1, <1>5, <1>6, <1>7, <1>8, <1>9, <1>10, MoveCovers

(* start() and its end move rows to lines. *)
LEMMA StartCovers ==
  ASSUME TypeOK, TypeOK', Grows, Custody, Cover,
         StartListing \/ Started \/ \E e \in Event : Resume(e)
  PROVE  Cover'
<1>1. UNCHANGED <<remote, clock, mirror, cursor, call, tick, sweep, waiting, dedup,
                  inflight, lost>>
  BY DEF StartListing, Started, Resume, gitlab
<1>2. \A b \in Times : Read(b)' => IsPoint(b)
  BY <1>1 DEF Read, IsPoint
<1>3. HeldEach
  BY HeldIs DEF Cover
<1>4. CASE StartListing \/ Started
  <2>1. UNCHANGED <<line, phase>>
    BY <1>4 DEF StartListing, Started
  <2>2. UNCHANGED Queued
    BY <2>1 DEF Queued, Elems
  <2>3. \/ pod = "down" /\ pod' = "starting" /\ resume' = inflight /\ resume = {}
        \/ pod = "starting" /\ pod' = "up" /\ resume' = resume
    BY <1>4 DEF StartListing, Started, Custody, BootOrder
  <2>4. \A x : (Way(x)' <=> Way(x)) /\ (Kept(x)' <=> Kept(x))
    BY <1>1, <2>2, <2>3 DEF Way, Kept, Holds
  <2>5. \A x : x \in OnTheWay' <=> x \in OnTheWay
    BY <2>4, WayIs
  <2>6. HeadsReached'
    BY <1>1, <2>1 DEF Cover, HeadsReached, Reached
  <2>7. HeldEach'
    BY <1>1, <1>3, <2>2, <2>3 DEF HeldEach
  <2>8. RowsHeld'
    BY <2>7, HeldIs
  <2> QED
    BY <1>1, <1>2, <2>4, <2>5, <2>6, <2>8, MoveCovers
<1>5. ASSUME NEW e \in Event, Resume(e) PROVE Cover'
  <2>1. /\ UNCHANGED pod /\ e \in resume /\ resume' = resume \ {e} /\ PutInLine(e)
        /\ e \notin Queued
    BY <1>5 DEF Resume, Custody, ResumeApart
  <2>2. Queued' = Queued \cup {e}
    BY <2>1, PutFacts, OnceIs DEF Custody, OnceEach
  <2>3. \A x : (Way(x)' <=> Way(x)) /\ (Kept(x)' <=> Kept(x))
    BY <1>1, <2>1, <2>2 DEF Way, Kept, Holds
  <2>4. \A x : x \in OnTheWay' <=> x \in OnTheWay
    BY <2>3, WayIs
  <2>5. HeadsReached'
    BY <1>1, <2>1, PutKeepsHeads DEF Cover, Custody
  <2>6. HeldEach'
    BY <1>1, <1>3, <2>1, <2>2 DEF HeldEach
  <2>7. RowsHeld'
    BY <2>6, HeldIs
  <2> QED
    BY <1>1, <1>2, <2>3, <2>4, <2>5, <2>7, MoveCovers
<1> QED
  BY <1>4, <1>5

(* A crash: the rows are on their way to start(), the rest is lost. *)
LEMMA CrashCovers ==
  ASSUME TypeOK, TypeOK', Grows, Custody, Cover, Crash
  PROVE  Cover'
<1>1. /\ UNCHANGED <<remote, clock, mirror, cursor, dedup, inflight>>
      /\ pod # "down" /\ pod' = "down" /\ resume' = {} /\ tick' = NoTick
      /\ sweep' = NoSweep /\ waiting' = <<>>
      /\ lost' = lost \cup (OnTheWay \ inflight)
      /\ \A c \in Callers : call'[c] = NoCall
      /\ \A o \in Objs : line'[o] = <<>> /\ phase'[o] = "none"
  BY DEF Crash, gitlab
<1>2. Queued' = {}
  BY <1>1 DEF Queued, Elems
<1>3. \A x : x \in OnTheWay' <=> x \in inflight
  <2>1. \A x : Way(x)' <=> x \in inflight
    BY <1>1, <1>2 DEF Way, NoSweep
  <2> QED
    BY <2>1, WayIs
<1>4. \A x \in inflight : x \in OnTheWay
  <2>1. \A x \in inflight : Way(x)
    BY <1>1, HeldIs DEF Cover, HeldEach, Way, NoCall
  <2> QED
    BY <2>1, WayIs
<1>5. \A x : Kept(x) => x \in OnTheWay
  <2>1. \A x : Kept(x) => Way(x)
    BY DEF Kept, Way, Holds, NoCall
  <2> QED
    BY <2>1, WayIs
<1>6. \A x : x \in inflight => Kept(x)'
  BY <1>1 DEF Kept
<1>7. \A x \in OnTheWay : x \in inflight \/ Reached(x)'
  BY <1>1 DEF Reached
<1>8. HeadsReached' /\ RowsHeld'
  BY <1>1, HeldIs DEF HeadsReached, HeldEach
<1>9. \A b \in Times : Read(b)' => IsPoint(b)
  BY <1>1 DEF Read, IsPoint, NoTick, NoSweep
<1> QED
  BY <1>1, <1>3, <1>4, <1>5, <1>6, <1>7, <1>8, <1>9, MoveCovers

(* Every step keeps the cover. *)
LEMMA CoverStep ==
  ASSUME TypeOK, TypeOK', Grows, Custody, Cover, [Next]_vars
  PROVE  Cover'
BY QuietSteps, EditCovers, ListCovers, CallCovers, BeginCovers, EnqueueCovers,
   ApplyCovers, ThrowCovers, SettleCovers, RowGoneCovers, StartCovers, CrashCovers
DEF Next, EngineStep

-----------------------------------------------------------------------------
(* Theorems. *)

(* The inductive invariant: types, the breaker's counter, and where every  *)
(* event between the dedup mark and the end of its dispatch is.            *)
THEOREM Invariance == Spec => []IInv
<1>1. Init => IInv
  <2> SUFFICES ASSUME Init PROVE IInv
    OBVIOUS
  <2>1. TypeOK /\ BreakerCounts
    <3>1. brk = [state |-> "closed", failures |-> 0] /\ 0 \in Times
      BY EngineAssumption DEF Init, Closed, Times
    <3>2. call \in [Callers -> Calls] /\ tick \in Ticks /\ sweep \in Sweeps
      BY DEF Init, Calls, Ticks, Sweeps
    <3> QED
      BY <3>1, <3>2, EngineAssumption DEF Init, TypeOK, BreakerCounts
  <2>2. Queued = {} /\ \A c \in Callers : call[c] = NoCall
    BY DEF Init, Queued, Elems
  <2>3. LinesWellFormed /\ Marked /\ ResumeApart /\ BootOrder
    BY <2>2
    DEF Init, LinesWellFormed, Marked, ResumeApart, BootOrder, Holds, NoCall
  <2>4. OnceEach /\ RowEach
    BY <2>2 DEF Init, OnceEach, RowEach, NoRepeats, Holds, NoCall
  <2> QED
    BY <2>1, <2>3, <2>4, OnceIs, InHandIs DEF IInv, Custody
<1>2. IInv /\ [Next]_vars => IInv'
  BY TypeStep, CustodyStep DEF IInv, Custody
<1> QED
  BY <1>1, <1>2, PTL DEF Spec

(* The engine's state keeps its types: bounds on the breaker's counter and *)
(* stale rows being rows, whatever the interleaving.                       *)
THEOREM TypeCorrect == Spec => []TypeOK
<1>1. IInv => TypeOK
  BY DEF IInv
<1> QED
  BY <1>1, Invariance, PTL

(* enqueueWebhookEvent and start(): an event is in line or held by a call  *)
(* once at most, and never again after its dispatch.                       *)
THEOREM Deduplication == Spec => []DispatchedOnce
<1>1. IInv => DispatchedOnce
  BY DEF IInv, Custody
<1> QED
  BY <1>1, Invariance, PTL

(* Every event in hand can be found by start() after a crash, unless its   *)
(* row is over an hour old.                                                *)
THEOREM CrashCustody == Spec => []RowWhileInHand
<1>1. IInv => RowWhileInHand
  BY DEF IInv, Custody
<1> QED
  BY <1>1, Invariance, PTL

(* The notes cursor and the starts taken from it stay behind the clock. *)
LEMMA TimelyStep ==
  ASSUME TypeOK, TypeOK', Timely, [Next]_vars
  PROVE  Grows
<1>1. /\ clock \in Int /\ clock' \in Int /\ notes \in Int /\ blind \in Int
      /\ tick.at = "read" => tick.since \in Nat
  <2>1. /\ clock \in 0..MaxVer /\ clock' \in 0..MaxVer
        /\ notes \in Times /\ blind \in Times /\ tick \in Ticks
    BY DEF TypeOK
  <2>2. MaxVer \in Nat /\ \A b \in Times : b \in Int
    BY EngineAssumption DEF Times
  <2>3. tick.at = "read" => tick.since \in 0..MaxVer
    BY <2>1 DEF Ticks, NoTick
  <2> QED
    BY <2>1, <2>2, <2>3
<1>2. CASE TickEnqueue
  BY <1>1, <1>2 DEF TickEnqueue, Since, Timely, Grows, gitlab
<1>3. CASE \E o \in Objs : EditRemote(o)
  BY <1>1, <1>3 DEF EditRemote, Timely, Grows, polling
<1>4. CASE \E v \in Times : NotesCursorSet(v)
  <2>1. UNCHANGED <<clock, blind>> /\ notes' <= clock + 1
    BY <1>1, <1>4, EngineAssumption DEF NotesCursorSet, gitlab, Times
  <2> QED
    BY <1>1, <2>1 DEF Timely, Grows
<1>5. CASE UNCHANGED <<clock, polling>>
  BY <1>1, <1>5 DEF Timely, Grows, polling
<1>6. \/ TickEnqueue \/ \E o \in Objs : EditRemote(o)
      \/ \E v \in Times : NotesCursorSet(v)
      \/ UNCHANGED <<clock, polling>>
  BY DEF Next, EngineStep, DeliverHook, AgeRow, ExpireRow, BreakerAges, FindSeen,
         MarkSeen, CreateInflight, Enqueue, ApplyRemote, ApplyThrows, Settle, TickRead,
         TickThrows, ListIssues, ListThrows, SweepNext, SweepDone, SweepDropped,
         Crash, StartListing, Resume, Discard, Started, vars, gitlab
<1> QED
  BY <1>2, <1>3, <1>4, <1>5, <1>6

(* The second inductive invariant, on top of the first: the points the     *)
(* cursor takes and has taken hide nothing.                                *)
THEOREM CoverHolds == Spec => [](Timely /\ Cover)
<1>1. Init => Timely /\ Cover
  <2> SUFFICES ASSUME Init PROVE Timely /\ Cover
    OBVIOUS
  <2>1. OnTheWay = {}
    BY DEF Init, OnTheWay, InTransit, Queued, Elems, NoSweep
  <2>2. RowsHeld /\ MarksKept /\ HeadsReached
    BY DEF Init, RowsHeld, MarksKept, HeadsReached
  <2>3. Timely /\ Dated /\ PointsSafe
    BY <2>1, EngineAssumption
    DEF Init, Timely, Dated, PointsSafe, IsPoint, Read, Safe, NoTick, NoSweep
  <2> QED
    BY <2>2, <2>3 DEF Cover
<1>2. IInv /\ IInv' /\ (Timely /\ Cover) /\ [Next]_vars => (Timely /\ Cover)'
  BY TimelyStep, CoverStep DEF IInv, Grows
<1> QED
  BY <1>1, <1>2, Invariance, PTL DEF Spec

(* IssuesSyncManager and BackfillScheduler: whatever the cursor passes is   *)
(* in Huly, on its way there, lost to a named cause, or older than a start *)
(* that was taken from the notes cursor alone, for any number of issues,   *)
(* requests, failures and crashes.                                         *)
THEOREM CursorNeverHides == Spec => []CursorCovers
<1>1. IInv /\ Timely /\ Cover => CursorCovers
  <2> SUFFICES ASSUME IInv, Cover, NEW o \in Objs, remote[o] \in 1..(cursor - 1)
               PROVE  Covered(o)
    BY DEF CursorCovers
  <2>1. cursor \in Times /\ cursor \in Nat
    BY EngineAssumption DEF IInv, TypeOK, Times
  <2>2. Safe(cursor)
    BY <2>1 DEF Cover, PointsSafe, IsPoint, Read
  <2> QED
    BY <2>1, <2>2 DEF Safe
<1> QED
  BY <1>1, Invariance, CoverHolds, PTL
=============================================================================
