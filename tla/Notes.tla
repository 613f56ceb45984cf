-------------------------------- MODULE Notes --------------------------------
(***************************************************************************)
(* GitLab's comments in Huly: NotesSyncManager (src/src/sync/notes.ts),    *)
(* ReviewThreadsSyncManager (src/src/sync/mr-review.ts) and the deferral   *)
(* of deferred-parent.ts.  The notes are those of one merge request; an    *)
(* issue's notes go the way of the plain ones, without the discussions.    *)
(*                                                                         *)
(* Every note is in a discussion, a plain one often alone in its own, and  *)
(* listDiscussions maps them all.  So a sweep lists every note twice, as a *)
(* note and in its discussion, and Huly gets two messages.  A webhook      *)
(* brings a plain note as a note, and hands a line note to the review      *)
(* manager.                                                                *)
(*                                                                         *)
(* All updates of notes are compared with ONE cursor of the binding, which *)
(* every applied note sets to its own time, and which also says since when *)
(* the sweep lists notes and discussions.                                  *)
(*                                                                         *)
(* Nothing goes from Huly to GitLab: the transactions that reach the two   *)
(* applyLocal carry none of the hints (noteableIid, issueIid,              *)
(* mergeRequestIid) without which both return at once.                     *)
(***************************************************************************)
EXTENDS Integers, FiniteSets, FiniteSetsExt

CONSTANTS
  Plain, Lines,  \* the notes, numbered; Lines are those on a line of the diff
  Threads,       \* the discussions, numbered
  In,            \* the discussion of each note
  MaxEvents,     \* bound: changes that people make at GitLab, and troubles:
                 \* a late parent, lost events, exceptions, crashes, moves of
                 \* `issues'
  None

Notes == Plain \cup Lines

ASSUME NotesAssumption ==
  /\ IsFiniteSet(Plain) /\ Plain \subseteq Nat \ {0}
  /\ IsFiniteSet(Lines) /\ Lines \subseteq Nat \ {0}
  /\ Plain \cap Lines = {}
  /\ Threads \subseteq Nat /\ In \in [Notes -> Threads]
  /\ MaxEvents \in Nat \ {0}
  /\ None \notin Nat

Kinds == {"note", "review"}
Items == (Kinds \X Notes) \cup ({"thread"} \X Threads)
Time == 0..MaxEvents
Version == [body : Time, ts : Time]
Message == [body : Time, ts : Time, resolved : BOOLEAN]
Event == [kind : Kinds, via : {"hook", "sweep"}, thread : Threads, resolved : BOOLEAN,
          notes : UNION {[S -> Version] : S \in SUBSET Notes}, ts : Time, retried : BOOLEAN]
Job == [ev : Event, new : BOOLEAN]

ASSUME NoneAssumption == None \notin Job

VARIABLES
  gitlab,    \* GitLab's notes; ts 0 for none
  resolved,  \* GitLab: the discussions that are resolved
  mapped,    \* whether the id map knows the merge request
  queued,    \* remote events: webhooks on their way, and rows of the queue
  seen,      \* dedup keys
  work,      \* NotesSyncManager.applyRemote, for each note, after its write
  msg,       \* the ChatMessage mapped to each note, kind `note'
  rev,       \* the ChatMessage mapped to each note, kind `review_thread'
  copies,    \* the ChatMessages created, by kind
  cursor,    \* the `notes' cursor
  issues,    \* the `issues' cursor, which Issues moves
  clock,     \* the time, as a number of changes
  troubles,  \* troubles so far
  torn,      \* history: creations whose mapping a crash or an exception prevented
  rewound,   \* history: the cursor went back, or was kept back by one of these
  excuse     \* history: the present version was lost to a known cause

vars == <<gitlab, resolved, mapped, queued, seen, work, msg, rev, copies, cursor,
          issues, clock, troubles, torn, rewound, excuse>>

Unmirrored == [body |-> 0, ts |-> 0]

TypeOK ==
  /\ gitlab \in [Notes -> Version]
  /\ resolved \subseteq Threads
  /\ mapped \in BOOLEAN
  /\ queued \subseteq Event
  /\ seen \subseteq ({"deferred", "deferred:review", "sweep", "sweep:review"}
                     \X (Notes \cup Threads) \X Time)
  /\ work \in [Notes -> Job \cup {None}]
  /\ msg \in [Notes -> Version]
  /\ rev \in [Notes -> Message]
  /\ copies \in [Kinds -> [Notes -> Nat]] /\ torn \in [Kinds -> [Notes -> Nat]]
  /\ cursor \in Time \cup {None} /\ issues \in Time \cup {None}
  /\ clock \in Time /\ troubles \in Time
  /\ rewound \in BOOLEAN
  /\ excuse \subseteq Items

Init ==
  /\ gitlab = [n \in Notes |-> Unmirrored]
  /\ resolved = {}
  /\ mapped \in BOOLEAN
  /\ queued = {} /\ seen = {}
  /\ work = [n \in Notes |-> None]
  /\ msg = [n \in Notes |-> Unmirrored]
  /\ rev = [n \in Notes |-> [body |-> 0, ts |-> 0, resolved |-> FALSE]]
  /\ copies = [k \in Kinds |-> [n \in Notes |-> 0]] /\ torn = copies
  /\ cursor = None /\ issues = None
  /\ clock = 0
  /\ troubles = IF mapped THEN 0 ELSE 1
  /\ rewound = FALSE
  /\ excuse = {}

Room == clock + troubles < MaxEvents
Trouble == Room /\ troubles' = troubles + 1

hulyside == <<work, msg, rev, copies>>
outside == <<gitlab, resolved, mapped, issues, clock>>

-----------------------------------------------------------------------------
(* GitLab *)

Present == {n \in Notes : gitlab[n].ts # 0}
Members(d) == {n \in Present : In[n] = d}
Root(d) == Min(Members(d))

(* Mutants: the mapping is not written; every update is newer; the sweep's  *)
(* key has no version.                                                      *)

AfterCreation_Unmapped(n, v) == msg

Newer_Always(ts) == TRUE

SweepKey_Versionless(n) == <<"sweep", n, 0>>

ThreadTs(d) == Max({gitlab[n].ts : n \in Members(d)} \cup {0})

(* A webhook and a sweep's record both carry one note as it is at present. *)
NoteEvent(n, v, via) ==
  [kind |-> "note", via |-> via, thread |-> In[n], resolved |-> FALSE, ts |-> v.ts,
   notes |-> [m \in {n} |-> v], retried |-> FALSE]
(* listDiscussions: every note of the discussion, and the newest of their times. *)
ThreadEvent(d) ==
  [kind |-> "review", via |-> "sweep", thread |-> d, resolved |-> d \in resolved,
   ts |-> ThreadTs(d), notes |-> [n \in Members(d) |-> gitlab[n]], retried |-> FALSE]

NoteOf(e) == CHOOSE n \in DOMAIN e.notes : TRUE
ItemOf(e) == IF e.kind = "review" THEN e.thread ELSE NoteOf(e)

(* What the next sweep brings anew. *)
Renewed(n) == {<<"note", n>>, <<"thread", In[n]>>} \cup {<<"review", m>> : m \in {m \in Notes : In[m] = In[n]}}

(* Somebody writes or edits a note; GitLab sends a webhook. *)
EditNote(n) ==
  /\ Room /\ clock' = clock + 1
  /\ n \in Present \/ \A m \in Notes : m < n /\ (m \in Plain <=> n \in Plain) => m \in Present
  /\ gitlab' = [gitlab EXCEPT ![n] = [body |-> clock', ts |-> clock']]
  /\ queued' = queued \cup {NoteEvent(n, gitlab'[n], "hook")}
  /\ excuse' = excuse \ Renewed(n)
  /\ UNCHANGED <<resolved, mapped, seen, hulyside, cursor, issues, troubles, torn, rewound>>

(* Somebody resolves or reopens a discussion: no webhook, a new time. *)
ResolveDiscussion(d) ==
  /\ Room /\ clock' = clock + 1
  /\ Members(d) # {}
  /\ resolved' = IF d \in resolved THEN resolved \ {d} ELSE resolved \cup {d}
  /\ gitlab' = [gitlab EXCEPT ![Root(d)].ts = clock']
  /\ excuse' = excuse \ Renewed(Root(d))
  /\ UNCHANGED <<mapped, queued, seen, hulyside, cursor, issues, troubles, torn, rewound>>

(* MergeRequestsSyncManager writes the parent's mapping. *)
MapParent ==
  /\ ~mapped /\ mapped' = TRUE
  /\ UNCHANGED <<gitlab, resolved, queued, seen, hulyside, cursor, issues, clock, troubles,
                 torn, rewound, excuse>>

-----------------------------------------------------------------------------
(* History: what is to come, and what will not come any more.               *)

(* parseWebhookPayload: a webhook of a line note goes to the review manager. *)
IsReview(e) == e.kind = "note" /\ e.via = "hook" /\ NoteOf(e) \in Lines
ForReview(e) == e.kind = "review" \/ IsReview(e)

Agree(x) ==
  CASE x[1] = "note"   -> x[2] \in Present => msg[x[2]].body = gitlab[x[2]].body
    [] x[1] = "review" -> x[2] \in Present => rev[x[2]].body = gitlab[x[2]].body
    [] x[1] = "thread" -> \A n \in Notes :
         In[n] = x[2] /\ rev[n].ts # 0 => (rev[n].resolved <=> x[2] \in resolved)

(* The event e brings the item as it is at GitLab. *)
Brings(e, x) ==
  IF x[1] = "thread" THEN e.kind = "review" /\ e.thread = x[2] /\ e.ts = ThreadTs(x[2])
  ELSE /\ x[2] \in DOMAIN e.notes /\ e.notes[x[2]].body = gitlab[x[2]].body
       /\ ForReview(e) <=> x[1] = "review"

SweepKey(n) == <<"sweep", n, gitlab[n].ts>>
ThreadKey(d) == <<"sweep:review", d, ThreadTs(d)>>

(* resolveSince: the older of the two cursors that it reads. *)
Since(c, i) == LET known == {c, i} \ {None} IN IF known = {} THEN 0 ELSE Min(known)

(* listMRNotes and listDiscussions, with updated_after. *)
NotesListed(s) == {n \in Present : gitlab[n].ts >= s}
DiscussionsListed(s) == {d \in Threads : Members(d) # {} /\ ThreadTs(d) >= s}

(* A sweep has yet to bring it. *)
Listable(x) ==
  LET s == Since(cursor, issues)
      d == IF x[1] = "thread" THEN x[2] ELSE In[x[2]]
  IN  IF x[1] = "note" THEN x[2] \in NotesListed(s) /\ SweepKey(x[2]) \notin seen
      ELSE d \in DiscussionsListed(s) /\ ThreadKey(d) \notin seen

Missed(x) == ~Agree(x) /\ ~Listable(x) /\ \A e \in queued : ~Brings(e, x)

(* By this step, one of the items is missed. *)
Excuse(items) == excuse' = excuse \cup {x \in items : Missed(x)' /\ ~Missed(x)}

-----------------------------------------------------------------------------
(* Cursors, and lost events *)

(* setCursor writes what it is given. *)
SetCursor(t) ==
  /\ cursor' = t
  /\ rewound' = (rewound \/ (cursor # None /\ t < cursor))

(* Issues moves its own cursor up to the present.  A sweep will pass by what
   it has not listed by now.                                                *)
IssuesCursor ==
  /\ Trouble
  /\ issues' = clock
  /\ UNCHANGED <<gitlab, resolved, mapped, queued, seen, hulyside, cursor, clock, torn, rewound>>
  /\ Excuse(Items)

(* The queue: enqueueWebhookEvent drops an event whose key it has seen. *)
Enqueue(key, e, rest) ==
  /\ seen' = seen \cup {key}
  /\ queued' = IF key \in seen THEN rest ELSE rest \cup {e}

(* One event of a note, and one of a discussion, at a time.  Webhooks overtake
   each other and the sweep; the records of two sweeps come in order.       *)
Ready(e) ==
  /\ e.kind = "note" => work[NoteOf(e)] = None
  /\ \A f \in queued :
       /\ f.kind = e.kind /\ ItemOf(f) = ItemOf(e)
       /\ f.via = "sweep" /\ e.via = "sweep" /\ ~f.retried /\ ~e.retried
       => e.ts <= f.ts

(* GitLab gives up on the delivery, the breaker is open, or applyRemote throws
   before its first write.  The dedup key remains.                          *)
Lose(e) ==
  /\ Trouble
  /\ Ready(e)
  /\ queued' = queued \ {e}
  /\ UNCHANGED <<gitlab, resolved, mapped, seen, hulyside, cursor, issues, clock, torn, rewound>>
  /\ Excuse({x \in Items : Brings(e, x)})

(* markAndRetry: once more at the end of the queue, then dropped. *)
Retried(e) == [e EXCEPT !.retried = TRUE]
DeferKey(e) == <<IF ForReview(e) THEN "deferred:review" ELSE "deferred", ItemOf(e), e.ts>>

(* The second event with that key is dropped at once. *)
Defer(e) ==
  /\ Ready(e) /\ ~mapped /\ ~e.retried
  /\ Enqueue(DeferKey(e), Retried(e), queued \ {e})
  /\ UNCHANGED <<outside, hulyside, cursor, troubles, torn, rewound>>
  /\ Excuse({x \in Items : Brings(e, x)})

Drop(e) ==
  /\ Ready(e) /\ ~mapped /\ e.retried
  /\ queued' = queued \ {e}
  /\ UNCHANGED <<outside, seen, hulyside, cursor, troubles, torn, rewound>>
  /\ Excuse({x \in Items : Brings(e, x)})

-----------------------------------------------------------------------------
(* NotesSyncManager.applyRemote *)

Applicable(e) == e.kind = "note" /\ ~IsReview(e) /\ Ready(e) /\ mapped

Newer(ts) == ts > (IF cursor = None THEN 0 ELSE cursor)

NoteCreate(e) ==
  LET n == NoteOf(e) IN
  /\ Applicable(e) /\ msg[n] = Unmirrored
  /\ copies' = [copies EXCEPT !["note"][n] = @ + 1]
  /\ work' = [work EXCEPT ![n] = [ev |-> e, new |-> TRUE]]
  /\ UNCHANGED <<outside, queued, seen, msg, rev, cursor, troubles, torn, rewound, excuse>>

(* History: an older version may be written over a newer one. *)
NoteUpdate(e) ==
  LET n == NoteOf(e) IN
  /\ Applicable(e) /\ msg[n] # Unmirrored /\ Newer(e.ts)
  /\ msg' = [msg EXCEPT ![n] = e.notes[n]]
  /\ work' = [work EXCEPT ![n] = [ev |-> e, new |-> FALSE]]
  /\ UNCHANGED <<outside, queued, seen, rev, copies, cursor, troubles, torn, rewound>>
  /\ Excuse({x \in {<<"note", n>>} : e.notes[n].body < msg[n].body})

(* Not newer than the binding's cursor, whichever note that was. *)
NoteStale(e) ==
  LET n == NoteOf(e) IN
  /\ Applicable(e) /\ msg[n] # Unmirrored /\ ~Newer(e.ts)
  /\ queued' = queued \ {e}
  /\ UNCHANGED <<outside, seen, hulyside, cursor, troubles, torn, rewound>>
  /\ Excuse({x \in {<<"note", n>>} : Brings(e, x)})

(* upsertIdMap after a creation, then the cursor, which a sweep starts from. *)
AfterCreation(n, v) == [msg EXCEPT ![n] = v]

NoteFinish(n) ==
  /\ work[n] # None
  /\ msg' = IF work[n].new THEN AfterCreation(n, work[n].ev.notes[n]) ELSE msg
  /\ SetCursor(work[n].ev.ts)
  /\ queued' = queued \ {work[n].ev}
  /\ work' = [work EXCEPT ![n] = None]
  /\ UNCHANGED <<outside, seen, rev, copies, troubles, torn>>
  /\ Excuse(Items)

(* upsertIdMap or setCursor throws instead: the event ends. *)
NoteThrows(n) ==
  /\ Trouble
  /\ work[n] # None
  /\ torn' = [torn EXCEPT !["note"][n] = @ + IF work[n].new THEN 1 ELSE 0]
  /\ rewound' = (rewound \/ ~work[n].new)
  /\ queued' = queued \ {work[n].ev}
  /\ work' = [work EXCEPT ![n] = None]
  /\ UNCHANGED <<outside, seen, msg, rev, copies, cursor>>
  /\ Excuse({x \in {<<"note", n>>} : Brings(work[n].ev, x)})

-----------------------------------------------------------------------------
(* ReviewThreadsSyncManager.applyRemote: each note's body by its own time,  *)
(* the discussion's state on all of them.  Only this manager writes these   *)
(* messages, one event at a time, so the loop is one step; its own cursor   *)
(* is read by nobody.                                                       *)

Applied(old, v, res) ==
  IF v.ts > old.ts /\ v.body # old.body
  THEN [body |-> v.body, ts |-> v.ts, resolved |-> res]
  ELSE [old EXCEPT !.resolved = res]

(* The loop over the event's notes, as far as done; unmapped is the note whose
   message it creates at last, without the mapping.                         *)
ReviewLoop(e, done, unmapped, res) ==
  /\ rev' = [n \in Notes |-> IF n \in done THEN Applied(rev[n], e.notes[n], res) ELSE rev[n]]
  /\ copies' = [copies EXCEPT !["review"] =
       [n \in Notes |-> @[n] + IF n \in done \cup unmapped /\ rev[n].ts = 0 THEN 1 ELSE 0]]
  /\ torn' = [torn EXCEPT !["review"] =
       [n \in Notes |-> @[n] + IF n \in unmapped /\ rev[n].ts = 0 THEN 1 ELSE 0]]

(* History: a webhook or an older record may undo the state that a sweep brought. *)
ReviewWrite(e, res) ==
  /\ ReviewLoop(e, DOMAIN e.notes, {}, res)
  /\ queued' = queued \ {e}
  /\ UNCHANGED <<outside, seen, work, msg, cursor, troubles, rewound>>
  /\ Excuse({<<"thread", d>> : d \in {d \in {e.thread} : res # (d \in resolved)}})

ReviewApply(e) == e.kind = "review" /\ Ready(e) /\ mapped /\ ReviewWrite(e, e.resolved)

(* NotesSyncManager.applyRemote re-enqueues a line note's webhook with kind
   `review', in an envelope that says `resolved: false' whatever the state of
   the discussion.  Its wait in that queue is part of the webhook's delay.  *)
RouteToReview(e) == IsReview(e) /\ Ready(e) /\ mapped /\ ReviewWrite(e, FALSE)

(* The loop stops at one of its notes, created perhaps but not mapped.  A
   message that lacks its mixin counts as that of an unresolved discussion. *)
ReviewStops(e) ==
  \E last \in DOMAIN e.notes, created \in BOOLEAN :
    ReviewLoop(e, {n \in DOMAIN e.notes : n < last}, {n \in {last} : created},
               e.kind = "review" /\ e.resolved)

ReviewThrows(e) ==
  /\ Trouble
  /\ ForReview(e) /\ Ready(e) /\ mapped
  /\ ReviewStops(e)
  /\ queued' = queued \ {e}
  /\ UNCHANGED <<outside, seen, work, msg, cursor, rewound>>
  /\ Excuse({x \in Items : Brings(e, x) \/ x = <<"thread", e.thread>>})

-----------------------------------------------------------------------------
(* The two backfill methods, which the sweep calls with one `since'. *)

Backfill ==
  LET s == Since(cursor, issues)
      ns == {n \in NotesListed(s) : SweepKey(n) \notin seen}
      ds == {d \in DiscussionsListed(s) : ThreadKey(d) \notin seen}
  IN
  /\ ns # {} \/ ds # {}
  /\ seen' = seen \cup {SweepKey(n) : n \in ns} \cup {ThreadKey(d) : d \in ds}
  /\ queued' = queued \cup {NoteEvent(n, gitlab[n], "sweep") : n \in ns}
                      \cup {ThreadEvent(d) : d \in ds}
  /\ UNCHANGED <<outside, hulyside, cursor, troubles, torn, rewound, excuse>>

(* The rows of the queue survive; messages may be left without their mapping,
   and the cursor behind an update that was made.                           *)
Crash ==
  /\ Trouble
  /\ \E n \in Notes : work[n] # None
  /\ work' = [n \in Notes |-> None]
  /\ torn' = [torn EXCEPT !["note"] =
       [n \in Notes |-> @[n] + IF work[n] # None /\ work[n].new THEN 1 ELSE 0]]
  /\ rewound' = (rewound \/ \E n \in Notes : work[n] # None /\ ~work[n].new)
  /\ UNCHANGED <<outside, queued, seen, msg, rev, copies, cursor, excuse>>

(* In the middle of the review manager's loop. *)
CrashInReview(e) ==
  /\ Trouble
  /\ \A n \in Notes : work[n] = None
  /\ ForReview(e) /\ Ready(e) /\ mapped
  /\ ReviewStops(e)
  /\ UNCHANGED <<outside, queued, seen, work, msg, cursor, rewound, excuse>>

Handle(e) == Defer(e) \/ Drop(e) \/ RouteToReview(e) \/ NoteCreate(e) \/ NoteUpdate(e)
             \/ NoteStale(e) \/ ReviewApply(e)

Work == Backfill \/ (\E n \in Notes : NoteFinish(n)) \/ \E e \in queued : Handle(e)

Next ==
  \/ \E n \in Notes : EditNote(n) \/ NoteThrows(n)
  \/ \E d \in Threads : ResolveDiscussion(d)
  \/ MapParent
  \/ IssuesCursor
  \/ \E e \in queued : Lose(e) \/ ReviewThrows(e) \/ CrashInReview(e)
  \/ Crash
  \/ Work

Spec == Init /\ [][Next]_vars

(* The pod's event loop and its timers run on. *)
FairSpec == Spec /\ WF_vars(Work)

-----------------------------------------------------------------------------
(* Properties *)

(* A note becomes one message of each kind (notes.ts:575, mr-review.ts:236),
   although webhooks, sweeps and deferred events bring it several times, and
   out of order; one more for each time that a crash or an exception came
   between createDoc and upsertIdMap.                                       *)
MirroredOnce == \A k \in Kinds, n \in Notes : copies[k][n] <= 1 + torn[k][n]

(* notes.ts:587: a message goes back to an older version only after the shared
   cursor itself has gone back, or was kept back by a crash or an exception. *)
NoSpontaneousReversal == [][\A n \in Notes : msg'[n].ts < msg[n].ts => rewound]_vars

(* When people stop, both messages of every note and the state of every
   discussion are what GitLab has, unless the history says what made the item
   miss the present version: its event was lost or threw, the parent was
   missing twice, another note's time made it look old, an older version or
   state was written over it, or the sweep's `since' had passed it.         *)
Converges == \A x \in Items : <>[](Agree(x) \/ x \in excuse)

=============================================================================
