---------------------------- MODULE MergeRequests ----------------------------
(***************************************************************************)
(* A merge request and an epic as Huly issues: MergeRequestsSyncManager    *)
(* (src/src/sync/mr.ts), EpicsSyncManager (src/src/sync/epics.ts), and     *)
(* what becomes of a change made to their mirrors in Huly.                 *)
(*                                                                         *)
(* - Only sweeps bring them: both applyRemote throw on a raw webhook.  The *)
(*   sweep starts where the cursors of ISSUES and NOTES are, whatever has  *)
(*   been done for merge requests and epics.                               *)
(* - The epic may get a child, which it names by an iid.  Its event links  *)
(*   the merge request with that iid if the id map knows one by then, else *)
(*   the issue.  Both exist here, with the same iid.                       *)
(* - TxSubscriber takes a change of a mirror's title for one of an issue,  *)
(*   because that is the document's class, and IssuesSyncManager.applyLocal*)
(*   finds a mapping without asking for its kind: it updates the GitLab    *)
(*   ISSUE with the same iid.  Before the mapping is written it creates a  *)
(*   GitLab issue and takes the mirror for itself.                         *)
(*                                                                         *)
(* Reviews, approvals and the mixins are in ReviewData.                    *)
(***************************************************************************)
EXTENDS Integers

CONSTANTS
  MaxEdits,     \* bound: changes that people make on either side
  MaxTroubles,  \* bound: crashes, exceptions, removals, lost events, and
                \* advances of other managers' cursors
  Resolved,     \* whether the service account's PersonId is the right one
  None

ASSUME MergeRequestsAssumption ==
  /\ {MaxEdits, MaxTroubles} \subseteq Nat
  /\ Resolved \in BOOLEAN
  /\ None \notin Nat

Kinds == {"mr", "epic"}
Time == 0..MaxEdits
Version == [val : Time, ts : Time]
Absent == [val |-> 0, ts |-> 0]
Step == [at : {"map", "write", "link"}, ts : Time, seen : Version]

ASSUME NoneAssumption == None \notin Version \cup Step

VARIABLES
  gitlab,     \* updated_at of the two at GitLab, which stands for their content
  childAt,    \* since when the epic has its child; 0 for not
  huly,       \* their mirrors; None for removed
  mapped,     \* the mirrors that the id map knows
  issueKnown, \* whether it knows the issue with the child's iid
  queued,     \* events that a sweep enqueued, by their version
  polled,     \* dedup keys of the events that sweeps have enqueued
  work,       \* applyRemote, between two awaits
  line,       \* queued local events of the mirrors
  parent,     \* the mirrors that name the epic as their parent
  since,      \* the older of the cursors of issues and notes
  clock,      \* the time, as a number of changes
  edits,      \* history: changes that people made to a mirror in Huly
  unmarked,   \* history: the pod's own updates that carry no marker
  overwrites, \* history: updates of GitLab issues with a mirror's iid
  copies,     \* history: mirrors created
  spares,     \* history: mirrors left unmapped by a crash or an exception, or
              \* taken by a local event
  deferred,   \* history: version of the epic whose event last put off the child
  troubles,   \* troubles so far
  excuse      \* history: GitLab's present version was itself lost

vars == <<gitlab, childAt, huly, mapped, issueKnown, queued, polled, work, line, parent,
          since, clock, edits, unmarked, overwrites, copies, spares, deferred, troubles,
          excuse>>

Items == Kinds \cup {"link"}

TypeOK ==
  /\ gitlab \in [Kinds -> Time] /\ childAt \in Time
  /\ huly \in [Kinds -> Version \cup {None}]
  /\ mapped \subseteq Kinds /\ issueKnown \in BOOLEAN
  /\ queued \in [Kinds -> SUBSET Time] /\ polled \in [Kinds -> SUBSET Time]
  /\ work \in [Kinds -> Step \cup {None}]
  /\ line \in [Kinds -> Nat]
  /\ parent \subseteq {"mr", "issue"} /\ deferred \in Time
  /\ clock \in Time /\ since \in 0..clock
  /\ {edits, unmarked, overwrites} \subseteq Nat
  /\ copies \in [Kinds -> Nat] /\ spares \in [Kinds -> Nat]
  /\ troubles \in 0..MaxTroubles
  /\ excuse \in [Items -> BOOLEAN]

Init ==
  /\ gitlab = [k \in Kinds |-> 0] /\ childAt = 0
  /\ huly = [k \in Kinds |-> Absent]
  /\ mapped = {} /\ issueKnown = FALSE
  /\ queued = [k \in Kinds |-> {}] /\ polled = [k \in Kinds |-> {}]
  /\ work = [k \in Kinds |-> None]
  /\ line = [k \in Kinds |-> 0]
  /\ parent = {} /\ deferred = 0
  /\ since = 0 /\ clock = 0 /\ edits = 0 /\ unmarked = 0 /\ overwrites = 0
  /\ copies = [k \in Kinds |-> 0] /\ spares = [k \in Kinds |-> 0]
  /\ troubles = 0
  /\ excuse = [x \in Items |-> FALSE]

counts == <<edits, unmarked, overwrites, copies, spares>>
pipes == <<queued, polled, work, line>>
links == <<issueKnown, parent, deferred>>

Trouble == troubles < MaxTroubles /\ troubles' = troubles + 1
Tick == clock < MaxEdits /\ clock' = clock + 1
Excuse(items) == excuse' = [x \in Items |-> excuse[x] \/ x \in items]
Anew(items) == excuse' = [x \in Items |-> excuse[x] /\ x \notin items]

Mirrored(k) == huly[k] # None /\ huly[k] # Absent

-----------------------------------------------------------------------------
(* Mutants: the pod's own writes come back; the older version wins; the     *)
(* mapping is not written; the dedup key is ignored while the child is put  *)
(* off.                                                                    *)

Echo_Through(by, marked) == FALSE

RemoteWins_Older(k, l, r) == l >= r

Mapped_Forgets(k) == mapped

NotSeen_PutOff(k) ==
  \/ gitlab[k] \notin polled[k]
  \/ k = "epic" /\ deferred = gitlab[k] /\ parent = {} /\ "mr" \in mapped

-----------------------------------------------------------------------------
(* People *)

(* History: what the loss of an item's present version costs. *)
Costs(k) == IF k = "epic" THEN {"epic", "link"} ELSE {k}

(* History: the event of version ts came to nothing. *)
Lost(k, ts) == Excuse(IF ts = gitlab[k] THEN Costs(k) ELSE {})

EditGitlab(k) ==
  /\ Tick
  /\ gitlab' = [gitlab EXCEPT ![k] = clock']
  /\ Anew(Costs(k))
  /\ UNCHANGED <<childAt, huly, mapped, pipes, links, since, counts, troubles>>

(* The epic gets its child, and its time moves. *)
AddChild ==
  /\ Tick
  /\ childAt = 0 /\ gitlab["epic"] # 0
  /\ childAt' = clock'
  /\ gitlab' = [gitlab EXCEPT !["epic"] = clock']
  /\ Anew(Costs("epic"))
  /\ UNCHANGED <<huly, mapped, pipes, links, since, counts, troubles>>

(* IssuesSyncManager has mirrored and mapped the issue with the child's iid. *)
IssueMapped ==
  /\ ~issueKnown
  /\ issueKnown' = TRUE
  /\ UNCHANGED <<gitlab, childAt, huly, mapped, pipes, parent, deferred, since, clock,
                 counts, troubles, excuse>>

(* TxSubscriber.onTx: who wrote it, and whether it carries the marker. *)
Echo(by, marked) == (by = "pod" /\ Resolved) \/ marked

OnTx(k, by, marked) == line' = IF Echo(by, marked) THEN line ELSE [line EXCEPT ![k] = @ + 1]

EditHuly(k) ==
  /\ Tick
  /\ Mirrored(k)
  /\ huly' = [huly EXCEPT ![k] = [val |-> clock', ts |-> clock']]
  /\ OnTx(k, "user", FALSE)
  /\ edits' = edits + 1
  /\ UNCHANGED <<gitlab, childAt, mapped, queued, polled, work, links, since, unmarked,
                 overwrites, copies, spares, troubles, excuse>>

RemoveHuly(k) ==
  /\ Trouble
  /\ Mirrored(k)
  /\ huly' = [huly EXCEPT ![k] = None]
  /\ UNCHANGED <<gitlab, childAt, mapped, pipes, links, since, clock, counts, excuse>>

(* IssuesSyncManager.applyLocal, on a document that mirrors something else. *)
LocalOverwrites(k) ==
  /\ line[k] > 0 /\ k \in mapped
  /\ line' = [line EXCEPT ![k] = @ - 1]
  /\ overwrites' = overwrites + 1
  /\ UNCHANGED <<gitlab, childAt, huly, mapped, queued, polled, work, links, since, clock,
                 edits, unmarked, copies, spares, troubles, excuse>>

(* A new GitLab issue takes the unmapped mirror, and its further changes. *)
LocalTakes(k) ==
  /\ line[k] > 0 /\ k \notin mapped
  /\ line' = [line EXCEPT ![k] = 0]
  /\ huly' = [huly EXCEPT ![k] = Absent]
  /\ spares' = [spares EXCEPT ![k] = @ + 1]
  /\ IF work[k] = None THEN UNCHANGED excuse ELSE Lost(k, work[k].ts)
  /\ UNCHANGED <<gitlab, childAt, mapped, queued, polled, work, links, since, clock,
                 edits, unmarked, overwrites, copies, troubles>>

(* It throws, or is dropped at an open breaker. *)
LocalLost(k) ==
  /\ Trouble
  /\ line[k] > 0
  /\ line' = [line EXCEPT ![k] = @ - 1]
  /\ UNCHANGED <<gitlab, childAt, huly, mapped, queued, polled, work, links, since, clock,
                 counts, excuse>>

-----------------------------------------------------------------------------
(* The sweep: MergeRequestsSyncManager.backfill and EpicsSyncManager.backfill, *)
(* each a queue entry of its own.                                              *)

(* listMergeRequests and listEpics, with updated_after; listEpicIssues names
   the children there are when the epic is listed.                          *)
MergeRequestListed == gitlab["mr"] # 0 /\ gitlab["mr"] >= since
EpicListed == gitlab["epic"] # 0 /\ gitlab["epic"] >= since
ChildListed(ts) == childAt # 0 /\ childAt <= ts

(* The dedup key of a sweep's event is its version: mr.ts:573, epics.ts:277. *)
NotSeen(k) == gitlab[k] \notin polled[k]

Backfill(k) ==
  /\ IF k = "mr" THEN MergeRequestListed ELSE EpicListed
  /\ NotSeen(k)
  /\ queued' = [queued EXCEPT ![k] = @ \cup {gitlab[k]}]
  /\ polled' = [polled EXCEPT ![k] = @ \cup {gitlab[k]}]
  /\ UNCHANGED <<gitlab, childAt, huly, mapped, work, line, links, since, clock, counts,
                 troubles, excuse>>

(* resolveSince: a cursor in the future counts as the present. *)
Clamped(t) == IF t < clock THEN t ELSE clock

(* Issues and notes have been synchronised up to the present, or further if a
   clock is ahead.  History: what no sweep has listed by now will not be
   listed as it is.                                                         *)
OthersAdvance ==
  /\ Trouble
  /\ since < clock
  /\ \E skew \in 0..1 : since' = Clamped(clock + skew)
  /\ LET behind == {k \in Kinds : gitlab[k] # 0 /\ gitlab[k] < clock /\ gitlab[k] \notin polled[k]}
     IN  Excuse(UNION {Costs(k) : k \in behind})
  /\ UNCHANGED <<gitlab, childAt, huly, mapped, pipes, links, clock, counts>>

-----------------------------------------------------------------------------
(* applyRemote, of either manager *)

(* Field by field for the merge request, equal times to GitLab; the whole
   epic, equal times to Huly.                                               *)
RemoteWins(k, l, r) == IF k = "mr" THEN r >= l ELSE r > l

(* The oldest event of the item is next. *)
Begins(k, ts) == work[k] = None /\ \A u \in queued[k] : ts <= u
Goto(k, at, ts, seen) == work' = [work EXCEPT ![k] = [at |-> at, ts |-> ts, seen |-> seen]]
End(k, ts) ==
  /\ work' = [work EXCEPT ![k] = None]
  /\ queued' = [queued EXCEPT ![k] = @ \ {ts}]

RemoteCreate(k, ts) ==
  /\ Begins(k, ts) /\ k \notin mapped
  /\ huly' = [huly EXCEPT ![k] = [val |-> ts, ts |-> ts]]
  /\ copies' = [copies EXCEPT ![k] = @ + 1]
  /\ OnTx(k, "pod", TRUE)
  /\ Goto(k, "map", ts, Absent)
  /\ UNCHANGED <<gitlab, childAt, mapped, queued, polled, links, since, clock,
                 edits, unmarked, overwrites, spares, troubles, excuse>>

(* upsertIdMap throws if a local event has mapped the document meanwhile. *)
Mapped(k) == mapped \cup {k}

RemoteMap(k) ==
  /\ work[k] # None /\ work[k].at = "map"
  /\ IF huly[k] = Absent
     THEN End(k, work[k].ts) /\ UNCHANGED mapped
     ELSE /\ mapped' = Mapped(k)
          /\ IF k = "epic"
             THEN Goto(k, "link", work[k].ts, Absent) /\ UNCHANGED queued
             ELSE End(k, work[k].ts)
  /\ UNCHANGED <<gitlab, childAt, huly, polled, line, links, since, clock, counts,
                 troubles, excuse>>

(* findOne; a mapping to an issue that is gone ends the event. *)
RemoteRead(k, ts) ==
  /\ Begins(k, ts) /\ k \in mapped
  /\ IF huly[k] = None
     THEN End(k, ts)
     ELSE Goto(k, "write", ts, huly[k]) /\ UNCHANGED queued
  /\ UNCHANGED <<gitlab, childAt, huly, mapped, polled, line, links, since, clock, counts,
                 troubles, excuse>>

(* Over whatever was written since findOne.  The merge request's update is
   marked, the epic's is not.                                               *)
RemoteWrite(k) ==
  LET ts == work[k].ts
      writes == RemoteWins(k, work[k].seen.ts, ts) /\ work[k].seen.val # ts /\ huly[k] # None
  IN
  /\ work[k] # None /\ work[k].at = "write"
  /\ huly' = IF writes THEN [huly EXCEPT ![k] = [val |-> ts, ts |-> ts]] ELSE huly
  /\ IF writes THEN OnTx(k, "pod", k = "mr") ELSE UNCHANGED line
  /\ IF k = "epic"
     THEN Goto(k, "link", ts, Absent) /\ UNCHANGED queued
     ELSE End(k, ts)
  /\ unmarked' = unmarked + IF writes /\ k = "epic" THEN 1 ELSE 0
  /\ UNCHANGED <<gitlab, childAt, mapped, polled, links, since, clock,
                 edits, overwrites, copies, spares, troubles, excuse>>

(* findByGitlab with the child's iid, for a merge request and then an issue. *)
Child == IF "mr" \in mapped THEN {"mr"} ELSE IF issueKnown THEN {"issue"} ELSE {}

(* The child as the event lists it: whoever the id map knows gets the link;
   if nobody, it is put off.                                                *)
LinkChildren ==
  LET ts == work["epic"].ts IN
  /\ work["epic"] # None /\ work["epic"].at = "link"
  /\ parent' = IF ChildListed(ts) THEN parent \cup Child ELSE parent
  /\ deferred' = IF ChildListed(ts) /\ Child = {} THEN ts ELSE deferred
  /\ End("epic", ts)
  /\ UNCHANGED <<gitlab, childAt, huly, mapped, issueKnown, polled, line, since, clock,
                 counts, troubles, excuse>>

(* The breaker is open, the binding cannot be loaded or something else throws
   before a write; or the merge request is locked, or the project has no
   statuses, and applyRemote returns.  The event ends here, and its key
   remains.                                                                 *)
RemoteLost(k, ts) ==
  /\ Trouble
  /\ Begins(k, ts)
  /\ End(k, ts)
  /\ Lost(k, ts)
  /\ UNCHANGED <<gitlab, childAt, huly, mapped, polled, line, links, since, clock, counts>>

(* A mirror that nobody will map any more: it and the changes that people make
   to it are no longer this item's.                                         *)
Torn(ks) ==
  /\ huly' = [k \in Kinds |-> IF k \in ks THEN Absent ELSE huly[k]]
  /\ spares' = [k \in Kinds |-> spares[k] + IF k \in ks THEN 1 ELSE 0]

Nascent(k) == work[k] # None /\ work[k].at = "map" /\ huly[k] # Absent

(* A call throws on the way: createMixin or upsertIdMap after createDoc,
   updateDoc, or updateMixin of the epic or its child.  The engine swallows it. *)
RemoteThrows(k) ==
  /\ Trouble
  /\ work[k] # None
  /\ Torn({j \in {k} : Nascent(j)})
  /\ line' = IF Nascent(k) THEN [line EXCEPT ![k] = 0] ELSE line
  /\ End(k, work[k].ts)
  /\ Lost(k, work[k].ts)
  /\ UNCHANGED <<gitlab, childAt, mapped, polled, links, since, clock, edits, unmarked,
                 overwrites, copies>>

(* Remote events are resumed from their rows; local ones have none. *)
Crash ==
  /\ Trouble
  /\ Torn({k \in Kinds : Nascent(k)})
  /\ work' = [k \in Kinds |-> None]
  /\ line' = [k \in Kinds |-> 0]
  /\ UNCHANGED <<gitlab, childAt, mapped, queued, polled, links, since, clock, edits,
                 unmarked, overwrites, copies, excuse>>

Work ==
  \/ \E k \in Kinds : LocalOverwrites(k) \/ LocalTakes(k) \/ Backfill(k) \/ RemoteMap(k) \/ RemoteWrite(k)
  \/ \E k \in Kinds : \E ts \in queued[k] : RemoteCreate(k, ts) \/ RemoteRead(k, ts)
  \/ LinkChildren

Next ==
  \/ \E k \in Kinds : EditGitlab(k) \/ EditHuly(k) \/ RemoveHuly(k)
  \/ \E k \in Kinds : \E ts \in queued[k] : RemoteLost(k, ts)
  \/ \E k \in Kinds : RemoteThrows(k) \/ LocalLost(k)
  \/ AddChild
  \/ IssueMapped
  \/ OthersAdvance
  \/ Work
  \/ Crash

Spec == Init /\ [][Next]_vars

(* The pod's event loop and its timers run on. *)
FairSpec == Spec /\ WF_vars(Work)

-----------------------------------------------------------------------------
(* Properties *)

(* tx-subscription.ts, MR-2: what the pod writes in Huly does not come back as
   a local event, so GitLab's issues are changed at most once for every change
   that a person made to a mirror, and once for every update that carries no
   marker (epics.ts:167), if the service account is not resolved.           *)
NoEchoToGitlab == overwrites <= edits + (IF Resolved THEN 0 ELSE unmarked)

(* mr.ts:346 and epics.ts:109: one mirror of each, although it is created
   before its mapping is written; one more for each that a crash, an exception
   or a local event left or took in between.                                *)
MirroredOnce == \A k \in Kinds : copies[k] <= 1 + spares[k]

(* epics.ts:28 and 229 expect the next sweep to link a child that was not
   mirrored in time.  What the code does: the sweep finds its dedup key, and
   only a newer version of the epic links the child.                        *)
LinkedByNewVersion == [][parent' # parent => work["epic"].ts > deferred]_vars

(* Once people stop, the mirrors hold GitLab's present versions, or a newer
   change made in Huly, and the child names its epic.  Except for an item whose
   present version was itself lost: to an exception or an open breaker, to a
   sweep that starts later than it, or with a mirror that a local event took;
   and for a child that was put off by the epic's present version.          *)
Agree(x) ==
  IF x = "link"
  THEN childAt # 0 =>
         \/ parent # {}
         \/ deferred = gitlab["epic"]
         \/ \E k \in Kinds : huly[k] = None
  ELSE gitlab[x] # 0 =>
         \/ huly[x] = None
         \/ huly[x].val = gitlab[x]
         \/ huly[x].ts > gitlab[x]

Converges == \A x \in Items : <>[](Agree(x) \/ excuse[x])

=============================================================================
