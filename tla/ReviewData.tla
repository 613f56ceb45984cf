------------------------------ MODULE ReviewData ------------------------------
(***************************************************************************)
(* Who reviews and who approves a merge request, kept in mixins of its     *)
(* Huly issue, and the two migrations that move them:                      *)
(*                                                                         *)
(* - the legacy mixin `gitlab-mr', the only one whose changes TxSubscriber *)
(*   takes for changes of a merge request;                                 *)
(* - its successors `gitlab-mr-core', which applyRemote writes             *)
(*   (src/src/sync/mr.ts), and `gitlab-mr-review', which the records of a  *)
(*   sweep carry nothing for, and into which EpicsSyncManager writes the   *)
(*   parent epic.  As soon as one of the two is there, readers ignore the  *)
(*   legacy one (readMRMixinAttributes, src/src/sync/mr-mixin.ts);         *)
(* - migrateReviewerLabels (src/src/sync/reviewer-migration.ts), labels    *)
(*   into the legacy mixin, and migrateMixinSplit                          *)
(*   (src/src/sync/mixin-migration.ts), the legacy mixin into the others.  *)
(*                                                                         *)
(* Both migrations ask that the binding be paused.  A pause keeps sweeps   *)
(* from starting and webhooks from entering; what is queued goes on, and   *)
(* so do local changes.  The flag that the split waits for                 *)
(* (backfillInFlight) is set by nobody.  The merge request is mapped and   *)
(* its issue exists.                                                       *)
(***************************************************************************)
EXTENDS Integers, Sequences, FiniteSets

CONSTANTS
  People,     \* reviewers and approvers
  Tokens,     \* those of them whose GitLab token is stored
  Service,    \* the account that acts for the others
  MaxEvents,  \* bound: changes, choices, admin requests, exceptions, crashes
  None

ASSUME ReviewDataAssumption ==
  /\ IsFiniteSet(People) /\ Tokens \subseteq People
  /\ Service \notin People
  /\ MaxEvents \in Nat
  /\ None \notin Nat

VARIABLES
  gitlab,     \* the merge request's version at GitLab
  approvals,  \* GitLab: the accounts that approve it
  labels,     \* the people in `gitlab:reviewer:' labels of the Huly issue
  legacy,     \* the mixin `gitlab-mr'; a key that it lacks is None
  core,       \* the mixin `gitlab-mr-core': the version it was made from
  review,     \* the mixin `gitlab-mr-review'
  paused,     \* BindingDoc.disabled
  queued,     \* remote events that a sweep enqueued, by their version
  polled,     \* dedup keys of those events
  line,       \* queued local events: the approvers after the change
  since,      \* where a sweep starts: the older cursor of issues and notes
  calls,      \* applyApprovalActions: the calls it has yet to make
  split,      \* migrateMixinSplit, between two awaits
  relabel,    \* migrateReviewerLabels, between two awaits
  events,     \* events so far
  asked,      \* history: people who changed their approval in Huly
  shifted,    \* history: the mixins changed under a queued choice
  excused,    \* history: reviewers lost to a known cause
  lost,       \* history: the last version whose event came to nothing
  undone      \* history: the last version that the split wrote over

vars == <<gitlab, approvals, labels, legacy, core, review, paused, queued, polled, since,
          line, calls, split, relabel, events, asked, shifted, excused, lost, undone>>

Time == 0..MaxEvents
Field == {None} \cup SUBSET People
Legacy == [core : Time \cup {None}, reviewers : Field, approvedBy : Field]
Review == [reviewers : SUBSET People, approvedBy : SUBSET People, epic : BOOLEAN]
Split == [at : {"core", "review", "strip"}, legacy : Legacy,
          core : Time \cup {None}, review : BOOLEAN]
Relabel == [at : {"merge", "strip", "write"}, named : SUBSET People, keep : SUBSET People]
Accounts == Tokens \cup {Service}

ASSUME NoneAssumption == None \notin Review \cup Split \cup Relabel /\ \A s \in SUBSET People : s # None

Listed(field) == IF field = None THEN {} ELSE field

TypeOK ==
  /\ gitlab \in Time
  /\ approvals \subseteq Accounts
  /\ labels \subseteq People
  /\ legacy \in Legacy
  /\ core \in Time \cup {None}
  /\ review \in Review \cup {None}
  /\ paused \in BOOLEAN
  /\ queued \subseteq Time /\ polled \subseteq Time /\ since \in Nat
  /\ line \in Seq(SUBSET People)
  /\ calls \subseteq ({"approve", "unapprove"} \X People)
  /\ split \in Split \cup {None}
  /\ relabel \in Relabel \cup {None}
  /\ events \in Time
  /\ asked \subseteq People /\ excused \subseteq People
  /\ shifted \in BOOLEAN
  /\ {lost, undone} \subseteq Time \cup {None}

(* A merge request mirrored before the split; a legacy mixin may lack a core
   field.                                                                   *)
Init ==
  /\ gitlab = 0 /\ events = 0
  /\ legacy \in [core : {0, None}, reviewers : {{}} \cup {{p} : p \in People},
                 approvedBy : {None} \cup {{p} : p \in Tokens}]
  /\ approvals \in {{}, Listed(legacy.approvedBy)}
  /\ labels = People \ legacy.reviewers
  /\ core = None /\ review = None
  /\ paused \in BOOLEAN
  /\ queued = {} /\ polled = {0} /\ since = 0
  /\ line = <<>> /\ calls = {}
  /\ split = None /\ relabel = None
  /\ asked = {} /\ excused = {}
  /\ shifted = FALSE
  /\ lost = None /\ undone = None

Event == events < MaxEvents /\ events' = events + 1

mixins == <<legacy, core, review>>
sweeps == <<queued, polled, since, lost>>
local == <<line, calls>>
admin == <<split, relabel, undone>>

-----------------------------------------------------------------------------
(* Mutants: all approvers are approved again; the reviewers are not copied; *)
(* a core that is there is written again.                                   *)

Added_Everyone(incoming) == incoming

Linked == review # None /\ review.epic
ReviewPayload_NoReviewers(l) == [reviewers |-> {}, approvedBy |-> Listed(l.approvedBy), epic |-> Linked]

NeedsCore_Always == split.legacy.core # None

-----------------------------------------------------------------------------
(* readMRMixinAttributes: the new mixins if one is there, else the legacy one. *)
ReadsSplit == core # None \/ review # None
CurrentReviewers ==
  IF ~ReadsSplit THEN Listed(legacy.reviewers) ELSE IF review = None THEN {} ELSE review.reviewers
Current ==
  IF ~ReadsSplit THEN Listed(legacy.approvedBy) ELSE IF review = None THEN {} ELSE review.approvedBy

(* History: readers find something else than the person who chose did. *)
Shifts == shifted' = (shifted \/ (line # <<>> /\ Current' # Current))

-----------------------------------------------------------------------------
(* Approvals *)

(* A person gives or withdraws an approval in Huly, from the list that the
   common reader shows.  History: in the legacy mixin alone, the change is
   itself what applyLocal will find.                                        *)
Choose(p) ==
  LET chosen == IF p \in Current THEN Current \ {p} ELSE Current \cup {p} IN
  /\ Event
  /\ legacy' = [legacy EXCEPT !.approvedBy = chosen]
  /\ line' = Append(line, chosen)
  /\ asked' = asked \cup {p}
  /\ UNCHANGED <<core, review>> /\ Shifts
  /\ UNCHANGED <<gitlab, approvals, labels, paused, sweeps, calls, admin, excused>>

(* applyApprovalActions: the difference between the change and the present list. *)
Added(incoming) == incoming \ Current
Removed(incoming) == Current \ incoming

LocalRead ==
  /\ line # <<>> /\ calls = {}
  /\ calls' = ({"approve"} \X Added(Head(line))) \cup ({"unapprove"} \X Removed(Head(line)))
  /\ line' = Tail(line)
  /\ UNCHANGED <<gitlab, approvals, labels, mixins, paused, sweeps, admin, events, asked,
                 shifted, excused>>

(* resolveActorToken: the service account acts for people without a token. *)
Account(p) == IF p \in Tokens THEN p ELSE Service

approveMR(p) == approvals \cup {Account(p)}
unapproveMR(p) == approvals \ {Account(p)}

(* invokeApprovalAction: first those to add, then those to remove.  What GitLab
   refuses (a second approval, or none to withdraw) is noted in a comment.  *)
LocalCall ==
  \E c \in calls :
    /\ c[1] = "unapprove" => \A d \in calls : d[1] = "unapprove"
    /\ approvals' = IF c[1] = "approve" THEN approveMR(c[2]) ELSE unapproveMR(c[2])
    /\ calls' = calls \ {c}
    /\ UNCHANGED <<gitlab, labels, mixins, paused, sweeps, line, admin, events, asked,
                   shifted, excused>>

(* The breaker is open, or something else throws: the event ends. *)
LocalLost ==
  /\ Event
  /\ line # <<>> \/ calls # {}
  /\ IF calls = {} THEN line' = Tail(line) /\ UNCHANGED calls
                  ELSE calls' = {} /\ UNCHANGED line
  /\ UNCHANGED <<gitlab, approvals, labels, mixins, paused, sweeps, admin, asked, shifted,
                 excused>>

-----------------------------------------------------------------------------
(* What the sweeps bring *)

EditGitlab ==
  /\ Event
  /\ gitlab' = gitlab + 1
  /\ UNCHANGED <<approvals, labels, mixins, paused, sweeps, local, admin, asked, shifted,
                 excused>>

(* resolveSince looks at the cursors of issues and notes, which their managers
   set, forwards or back, to any time up to now.                            *)
OthersSet ==
  /\ Event
  /\ since' \in 0..(gitlab + 1)
  /\ UNCHANGED <<gitlab, approvals, labels, mixins, paused, queued, polled, lost, local,
                 admin, asked, shifted, excused>>

Backfill ==
  /\ ~paused /\ gitlab >= since /\ gitlab \notin polled
  /\ queued' = queued \cup {gitlab}
  /\ polled' = polled \cup {gitlab}
  /\ UNCHANGED <<gitlab, approvals, labels, mixins, paused, since, lost, local, admin,
                 events, asked, shifted, excused>>

(* GitLab's labels in place of all labels, if the record is newer than the issue. *)
Relabelled ==
  \E newer \in BOOLEAN :
    /\ labels' = IF newer THEN {} ELSE labels
    /\ excused' = IF newer THEN excused \cup labels ELSE excused

(* MergeRequestsSyncManager.applyRemote on a record of a list: the issue's
   fields, then the core mixin always and the review mixin never.           *)
RemoteApply(ts) ==
  /\ \A u \in queued : ts <= u
  /\ queued' = queued \ {ts}
  /\ Relabelled
  /\ core' = ts
  /\ UNCHANGED <<legacy, review>> /\ Shifts
  /\ UNCHANGED <<gitlab, approvals, paused, polled, since, lost, local, admin, events,
                 asked>>

(* It is dropped at an open breaker or throws, before the first write or
   between the two: the event ends, and its dedup key remains.              *)
RemoteLost(ts) ==
  /\ Event
  /\ \A u \in queued : ts <= u
  /\ queued' = queued \ {ts}
  /\ Relabelled
  /\ lost' = ts
  /\ UNCHANGED <<gitlab, approvals, mixins, paused, polled, since, local, admin, asked,
                 shifted>>

(* EpicsSyncManager.applyRemote links a child. *)
LinkEpic ==
  /\ Event
  /\ review' = IF review = None THEN [reviewers |-> {}, approvedBy |-> {}, epic |-> TRUE]
                                ELSE [review EXCEPT !.epic = TRUE]
  /\ UNCHANGED <<core, legacy>> /\ Shifts
  /\ UNCHANGED <<gitlab, approvals, labels, paused, sweeps, local, admin, asked, excused>>

SetDisabled ==
  /\ Event
  /\ paused' = ~paused
  /\ UNCHANGED <<gitlab, approvals, labels, mixins, sweeps, local, admin, asked, shifted,
                 excused>>

-----------------------------------------------------------------------------
(* migrateReviewerLabels *)

(* The labels are read and their people looked up: some are unknown to Huly. *)
RelabelRead ==
  /\ Event /\ paused /\ relabel = None
  /\ labels # {}
  /\ \E named \in SUBSET labels : relabel' = [at |-> "merge", named |-> named, keep |-> {}]
  /\ UNCHANGED <<gitlab, approvals, labels, mixins, paused, sweeps, local, split, undone,
                 asked, shifted, excused>>

(* readExistingReviewers: those that readers see are kept as well. *)
RelabelMerge ==
  /\ relabel # None /\ relabel.at = "merge"
  /\ relabel' = [relabel EXCEPT !.at = "strip", !.keep = relabel.named \cup CurrentReviewers]
  /\ UNCHANGED <<gitlab, approvals, labels, mixins, paused, sweeps, local, split, undone,
                 events, asked, shifted, excused>>

(* The labels go, also those of unknown people, whom no mixin will hold.
   History: these are lost.                                                 *)
RelabelStrip ==
  /\ relabel # None /\ relabel.at = "strip"
  /\ labels' = {}
  /\ excused' = excused \cup (labels \ relabel.named)
  /\ relabel' = [relabel EXCEPT !.at = "write"]
  /\ UNCHANGED <<gitlab, approvals, mixins, paused, sweeps, local, split, undone, events,
                 asked, shifted>>

(* Then the legacy mixin.  History: reviewers in it that readers did not see. *)
RelabelWrite ==
  /\ relabel # None /\ relabel.at = "write"
  /\ legacy' = [legacy EXCEPT !.reviewers = relabel.keep]
  /\ excused' = IF ReadsSplit THEN excused \cup (Listed(legacy.reviewers) \ relabel.keep)
                              ELSE excused
  /\ relabel' = None
  /\ UNCHANGED <<gitlab, approvals, labels, core, review, paused, sweeps, local, split,
                 undone, events, asked, shifted>>

(* History: the people of the labels that are gone by now. *)
InHand == IF relabel # None /\ relabel.at = "write" THEN relabel.named ELSE {}

(* One of its calls throws: the request ends. *)
RelabelThrows ==
  /\ Event
  /\ relabel # None
  /\ relabel' = None
  /\ excused' = excused \cup InHand
  /\ UNCHANGED <<gitlab, approvals, labels, mixins, paused, sweeps, local, split, undone,
                 asked, shifted>>

-----------------------------------------------------------------------------
(* migrateMixinSplit *)

NeedsCore == split.core = None

(* Written over what may have come meanwhile, except the parent epic. *)
ReviewPayload(l) == [reviewers |-> Listed(l.reviewers), approvedBy |-> Listed(l.approvedBy), epic |-> Linked]

(* The route's check and the one after the wait, then one read of the issue. *)
SplitRead ==
  /\ Event /\ paused /\ split = None
  /\ \E k \in DOMAIN legacy : legacy[k] # None
  /\ core # None \/ legacy.core # None
  /\ split' = [at |-> "core", legacy |-> legacy, core |-> core, review |-> review # None]
  /\ UNCHANGED <<gitlab, approvals, labels, mixins, paused, sweeps, local, relabel, undone,
                 asked, shifted, excused>>

(* createMixin of the core, unless the read found one.  History: applyRemote
   has written one since.                                                   *)
SplitCore ==
  /\ split # None /\ split.at = "core"
  /\ core' = IF NeedsCore THEN split.legacy.core ELSE core
  /\ split' = [split EXCEPT !.at = "review"]
  /\ undone' = IF split.core = None /\ core # None THEN core ELSE undone
  /\ UNCHANGED <<legacy, review>> /\ Shifts
  /\ UNCHANGED <<gitlab, approvals, labels, paused, sweeps, local, relabel, events, asked,
                 excused>>

(* createMixin of the review data, unless the read found any. *)
SplitReview ==
  /\ split # None /\ split.at = "review"
  /\ review' = IF split.review \/ {split.legacy.reviewers, split.legacy.approvedBy} = {None}
               THEN review ELSE ReviewPayload(split.legacy)
  /\ split' = [split EXCEPT !.at = "strip"]
  /\ UNCHANGED <<legacy, core>> /\ Shifts
  /\ UNCHANGED <<gitlab, approvals, labels, paused, sweeps, local, relabel, undone, events,
                 asked, excused>>

(* updateMixin clears every key that was read.  History: reviewers that were
   not copied because review data was there, or that came after the read.   *)
SplitStrip ==
  /\ split # None /\ split.at = "strip"
  /\ legacy' = [k \in DOMAIN legacy |-> IF split.legacy[k] = None THEN legacy[k] ELSE None]
  /\ excused' = IF legacy'.reviewers = legacy.reviewers THEN excused
                ELSE excused \cup (legacy.reviewers \ (IF split.review THEN {} ELSE split.legacy.reviewers))
  /\ split' = None
  /\ UNCHANGED <<core, review>> /\ Shifts
  /\ UNCHANGED <<gitlab, approvals, labels, paused, sweeps, local, relabel, undone, events,
                 asked>>

(* One of its calls throws: the request ends, and a new one goes on from there. *)
SplitThrows ==
  /\ Event
  /\ split # None
  /\ split' = None
  /\ UNCHANGED <<gitlab, approvals, labels, mixins, paused, sweeps, local, relabel, undone,
                 asked, shifted, excused>>

(* Remote events are resumed; local ones and admin requests are gone. *)
Crash ==
  /\ Event
  /\ line' = <<>> /\ calls' = {}
  /\ split' = None /\ relabel' = None
  /\ excused' = excused \cup InHand
  /\ UNCHANGED <<gitlab, approvals, labels, mixins, paused, sweeps, undone, asked, shifted>>

Work ==
  \/ LocalRead \/ LocalCall \/ Backfill
  \/ \E ts \in queued : RemoteApply(ts)
  \/ RelabelMerge \/ RelabelStrip \/ RelabelWrite
  \/ SplitCore \/ SplitReview \/ SplitStrip

Next ==
  \/ \E p \in People : Choose(p)
  \/ EditGitlab \/ OthersSet \/ LinkEpic \/ SetDisabled
  \/ RelabelRead \/ SplitRead
  \/ Work
  \/ LocalLost \/ RelabelThrows \/ SplitThrows \/ Crash
  \/ \E ts \in queued : RemoteLost(ts)

Spec == Init /\ [][Next]_vars

(* The pod's event loop and its timers run on. *)
FairSpec == Spec /\ WF_vars(Work)

-----------------------------------------------------------------------------
(* Properties *)

(* mixin-migration.ts and reviewer-migration.ts: a person who was a reviewer
   when the migrations came is still one, in a label or a mixin, unless the
   history names the person as lost to one of these: the label was replaced by
   GitLab's, or was stripped although Huly does not know the person, or was
   stripped by a request that came no further; review data was there before
   the split; the two migrations did not see each other's reviewers.        *)
Held ==
  labels \cup Listed(legacy.reviewers)
         \cup (IF review = None THEN {} ELSE review.reviewers)
         \cup InHand
ReviewersKept == People \subseteq Held \cup excused

(* mr-approvals.ts:88: nobody's approval at GitLab is given or withdrawn in
   their name unless they, or somebody who shares the account, changed it in
   Huly, although the list is compared with one that is read later; except
   when the mixins changed while a choice was queued.                       *)
InTheirName ==
  [][\A a \in Accounts : (a \in approvals) # (a \in approvals')
       => shifted \/ \E p \in asked : Account(p) = a]_vars

(* mr.ts:490 and mixin-migration.ts:196: when people stop, the core mixin is
   made from GitLab's present version, although the split writes it as well;
   unless no sweep has that version because the binding is paused or the
   cursors of issues and notes are past it, its event came to nothing, or the
   split, whose read came before, wrote over that very version.             *)
CoreConverges ==
  <>[](\/ core = gitlab \/ gitlab \in {0, lost, undone}
       \/ gitlab \notin polled /\ (paused \/ gitlab < since))

=============================================================================
