-------------------------- MODULE ReviewData_proofs --------------------------
(***************************************************************************)
(* Reviewers and approvals, for any people, any accounts and any number of *)
(* migrations, sweeps, choices, exceptions and crashes.                    *)
(***************************************************************************)
EXTENDS ReviewData, SequenceTheorems, TLAPS

GitlabDated == gitlab <= events

(* The review data that the split found missing is empty until it writes it,
   and holds the reviewers that it read from then on.                       *)
SplitCopies ==
  split # None /\ ~split.review =>
    /\ split.at \in {"core", "review"} /\ review # None => review.reviewers = {}
    /\ split.at = "strip" /\ split.legacy.reviewers # None =>
         review # None /\ split.legacy.reviewers \subseteq review.reviewers

(* The split copies a core unless it found one, and the label migration keeps
   the reviewers that it looked up, and those of the legacy mixin as long as
   readers see that one.                                                    *)
SplitHasCore == split # None => split.core # None \/ split.legacy.core # None
RelabelKeeps ==
  relabel # None /\ relabel.at \in {"strip", "write"} =>
    /\ relabel.named \subseteq relabel.keep
    /\ ReadsSplit \/ Listed(legacy.reviewers) \subseteq relabel.keep

(* Until the mixins change under them, the queued choices differ from what
   readers find, and the calls to make are, in nothing but what people asked. *)
Differs(chosen) == Added(chosen) \cup Removed(chosen)
ChoicesAsked == ~shifted => \A n \in DOMAIN line : Differs(line[n]) \subseteq asked
CallsAsked == ~shifted => \A c \in calls : c[2] \in asked

IInv ==
  /\ TypeOK /\ GitlabDated /\ SplitCopies /\ SplitHasCore /\ RelabelKeeps
  /\ ReviewersKept /\ ChoicesAsked /\ CallsAsked

-----------------------------------------------------------------------------
(* Types. *)

LEMMA Constants ==
  /\ MaxEvents \in Nat /\ Tokens \subseteq People
  /\ None \notin Nat /\ None \notin Review /\ None \notin Split /\ None \notin Relabel /\ None \notin SUBSET People
  /\ 0 \in Time
BY ReviewDataAssumption, NoneAssumption DEF Time

LEMMA ListedType ==
  ASSUME NEW f \in Field
  PROVE  Listed(f) \subseteq People /\ (f # None => Listed(f) = f /\ f \subseteq People)
BY DEF Field, Listed

LEMMA LegacyType ==
  ASSUME NEW l \in Legacy
  PROVE  /\ l.core \in Time \cup {None} /\ l.reviewers \in Field /\ l.approvedBy \in Field
         /\ Listed(l.reviewers) \subseteq People /\ Listed(l.approvedBy) \subseteq People
         /\ DOMAIN l = {"core", "reviewers", "approvedBy"}
<1>1. /\ l.core \in Time \cup {None} /\ l.reviewers \in Field /\ l.approvedBy \in Field
      /\ DOMAIN l = {"core", "reviewers", "approvedBy"}
  BY DEF Legacy
<1> QED
  BY <1>1, ListedType

LEMMA ReviewType ==
  ASSUME TypeOK, review # None
  PROVE  review \in Review /\ review.reviewers \subseteq People /\ review.approvedBy \subseteq People
         /\ review.epic \in BOOLEAN
BY DEF TypeOK, Review

LEMMA SplitType ==
  ASSUME TypeOK, split # None
  PROVE  /\ split \in Split /\ split.at \in {"core", "review", "strip"} /\ split.legacy \in Legacy
         /\ split.core \in Time \cup {None} /\ split.review \in BOOLEAN
BY DEF TypeOK, Split

LEMMA RelabelType ==
  ASSUME TypeOK, relabel # None
  PROVE  /\ relabel \in Relabel /\ relabel.at \in {"merge", "strip", "write"}
         /\ relabel.named \subseteq People /\ relabel.keep \subseteq People
BY DEF TypeOK, Relabel

LEMMA InHandType ==
  ASSUME TypeOK
  PROVE  InHand \subseteq People
BY RelabelType DEF InHand

LEMMA CurrentType ==
  ASSUME TypeOK
  PROVE  Current \subseteq People /\ CurrentReviewers \subseteq People
<1>1. legacy \in Legacy
  BY DEF TypeOK
<1> QED
  BY <1>1, LegacyType, ReviewType DEF Current, CurrentReviewers

LEMMA EventStep ==
  ASSUME TypeOK, GitlabDated, Event
  PROVE  /\ events \in Nat /\ gitlab \in Nat /\ events' \in Time /\ gitlab < events'
         /\ events' = events + 1 /\ events' <= MaxEvents
BY Constants DEF TypeOK, Time, Event, GitlabDated

-----------------------------------------------------------------------------
(* What a step must leave alone. *)

(* What readers find depends on one key of the legacy mixin. *)
LEMMA CurrentStays ==
  ASSUME UNCHANGED <<core, review>>, legacy'.approvedBy = legacy.approvedBy
  PROVE  Current' = Current
BY DEF Current, ReadsSplit, Listed

LEMMA ChoicesStay ==
  ASSUME ChoicesAsked, CallsAsked, Current' = Current,
         UNCHANGED <<line, calls, asked, shifted>>
  PROVE  ChoicesAsked' /\ CallsAsked'
<1>1. \A s : Added(s)' = Added(s) /\ Removed(s)' = Removed(s)
  BY DEF Added, Removed
<1>2. \A n \in DOMAIN line : Differs(line[n])' = Differs(line[n])
  BY <1>1 DEF Differs, Added, Removed
<1> QED
  BY <1>2 DEF ChoicesAsked, CallsAsked

(* A change of the mixins under a queued choice is on record. *)
LEMMA ShiftsStep ==
  ASSUME TypeOK, ChoicesAsked, CallsAsked, Shifts, UNCHANGED <<line, calls, asked>>
  PROVE  shifted' \in BOOLEAN /\ ChoicesAsked' /\ CallsAsked'
<1>1. shifted' \in BOOLEAN
  BY DEF Shifts
<1>2. CASE shifted'
  BY <1>1, <1>2 DEF ChoicesAsked, CallsAsked
<1>3. CASE ~shifted' /\ line = <<>>
  <2>1. ~shifted
    BY <1>3 DEF Shifts
  <2>2. line' = <<>>
    BY <1>3
  <2>3. \A n : n \notin DOMAIN line'
    BY <2>2
  <2> QED
    BY <1>1, <2>1, <2>3 DEF ChoicesAsked, CallsAsked
<1>4. CASE ~shifted' /\ line # <<>>
  <2>1. ~shifted /\ Current' = Current
    BY <1>4 DEF Shifts
  <2>2. \A n \in DOMAIN line : Differs(line[n])' = Differs(line[n])
    BY <2>1 DEF Differs, Added, Removed
  <2> QED
    BY <1>1, <2>1, <2>2 DEF ChoicesAsked, CallsAsked
<1> QED
  BY <1>1, <1>2, <1>3, <1>4

LEMMA KeptStay ==
  ASSUME ReviewersKept, UNCHANGED <<labels, review, relabel>>, excused \subseteq excused',
         legacy'.reviewers = legacy.reviewers
  PROVE  ReviewersKept'
BY DEF ReviewersKept, Held, InHand, Listed

LEMMA CopiesStay ==
  ASSUME SplitCopies, SplitHasCore, UNCHANGED <<review, split>>
  PROVE  SplitCopies' /\ SplitHasCore'
BY DEF SplitCopies, SplitHasCore

(* The new mixins do not go, and the legacy one gets reviewers in one action. *)
LEMMA KeepsStay ==
  ASSUME RelabelKeeps, UNCHANGED relabel,
         core' = core \/ core' # None, review' = review \/ review' # None,
         legacy'.reviewers \in {legacy.reviewers, None}
  PROVE  RelabelKeeps'
<1>1. ReadsSplit => ReadsSplit'
  BY DEF ReadsSplit
<1>2. Listed(legacy.reviewers)' \subseteq Listed(legacy.reviewers)
  BY DEF Listed
<1> QED
  BY <1>1, <1>2 DEF RelabelKeeps

-----------------------------------------------------------------------------
(* Approvals. *)

LEMMA ChooseStep ==
  ASSUME IInv, NEW p \in People, Choose(p)
  PROVE  IInv'
<1> DEFINE chosen == IF p \in Current THEN Current \ {p} ELSE Current \cup {p}
<1>1. /\ Event /\ legacy' = [legacy EXCEPT !.approvedBy = chosen] /\ line' = Append(line, chosen)
      /\ asked' = asked \cup {p} /\ Shifts
      /\ UNCHANGED <<core, review, gitlab, approvals, labels, paused, queued, polled, since,
                     lost, calls, split, relabel, undone, excused>>
  BY DEF Choose, sweeps, admin
<1>2. chosen \subseteq People /\ Differs(chosen) = {p}
  <2>1. Current \subseteq People
    BY CurrentType DEF IInv
  <2> QED
    BY <2>1 DEF Differs, Added, Removed
<1> HIDE DEF chosen
<1>3. legacy' \in Legacy /\ legacy'.approvedBy = chosen /\ legacy'.reviewers = legacy.reviewers
  BY <1>1, <1>2 DEF IInv, TypeOK, Legacy, Field
<1>4. line' \in Seq(SUBSET People) /\ Len(line') = Len(line) + 1 /\ line'[Len(line) + 1] = chosen
      /\ Len(line) \in Nat /\ \A n \in 1..Len(line) : line'[n] = line[n]
  BY <1>1, <1>2, AppendProperties, LenProperties DEF IInv, TypeOK
<1>5. shifted' \in BOOLEAN /\ (shifted' <=> shifted \/ (line # <<>> /\ Current' # Current))
  BY <1>1 DEF Shifts
<1>6. TypeOK' /\ GitlabDated'
  <2>1. events' \in Time /\ gitlab' <= events'
    BY <1>1, EventStep DEF IInv, GitlabDated
  <2> QED
    BY <1>1, <1>3, <1>4, <1>5, <2>1 DEF IInv, TypeOK, GitlabDated
<1>7. ChoicesAsked'
  <2> SUFFICES ASSUME ~shifted', NEW n \in DOMAIN line', NEW q \in Differs(line[n])'
               PROVE  q \in asked'
    BY DEF ChoicesAsked
  <2>1. ~shifted /\ (line = <<>> \/ Current' = Current)
    BY <1>5
  <2>2. n \in 1..(Len(line) + 1)
    BY <1>4, LenProperties
  <2>3. CASE Current' = Current
    <3>1. Differs(line[n])' = Differs(line'[n])
      BY <2>3 DEF Differs, Added, Removed
    <3>2. CASE n \in 1..Len(line)
      BY <1>1, <1>4, <2>1, <3>1, <3>2, LenProperties DEF IInv, TypeOK, ChoicesAsked
    <3>3. CASE n = Len(line) + 1
      BY <1>1, <1>2, <1>4, <3>1, <3>3
    <3> QED
      BY <1>4, <2>2, <3>2, <3>3
  <2>4. CASE Current' # Current
    <3>1. line = <<>> /\ n = 1 /\ line'[n] = chosen
      BY <1>4, <2>1, <2>2, <2>4
    <3>2. ~ReadsSplit
      BY <1>1, <2>4 DEF Current, ReadsSplit
    <3>3. Current' = Listed(chosen)
      BY <1>1, <1>3, <3>2 DEF Current, ReadsSplit, Listed
    <3>4. Listed(chosen) = chosen
      BY <1>2, Constants DEF Listed
    <3>5. Differs(line[n])' = {}
      BY <3>1, <3>3, <3>4 DEF Differs, Added, Removed
    <3> QED
      BY <3>5
  <2> QED
    BY <2>3, <2>4
<1>8. CallsAsked'
  BY <1>1, <1>5 DEF IInv, CallsAsked
<1> QED
  BY <1>1, <1>3, <1>6, <1>7, <1>8, KeptStay, CopiesStay, KeepsStay DEF IInv

(* The calls to make are the difference that people asked for. *)
LEMMA LocalReadStep ==
  ASSUME IInv, LocalRead
  PROVE  IInv'
<1> USE DEF LocalRead, mixins, sweeps, local, admin
<1>1. line \in Seq(SUBSET People) /\ line # <<>>
  BY DEF IInv, TypeOK
<1>2. /\ Len(line) \in Nat /\ 1 \in DOMAIN line /\ Head(line) = line[1] /\ Head(line) \subseteq People
      /\ line' \in Seq(SUBSET People) /\ Len(line') = Len(line) - 1
      /\ \A n \in 1..Len(line') : n + 1 \in DOMAIN line /\ line'[n] = line[n + 1]
      /\ DOMAIN line' = 1..Len(line')
  BY <1>1, HeadTailProperties, LenProperties, EmptySeq
<1>3. Added(Head(line)) \subseteq People /\ Removed(Head(line)) \subseteq People
  BY <1>2, CurrentType DEF IInv, Added, Removed
<1>4. calls' \subseteq ({"approve", "unapprove"} \X People)
  BY <1>3
<1>5. TypeOK'
  BY <1>2, <1>4 DEF IInv, TypeOK
<1>6. Current' = Current
  BY CurrentStays
<1>7. ChoicesAsked'
  <2> SUFFICES ASSUME ~shifted', NEW n \in DOMAIN line' PROVE Differs(line[n])' \subseteq asked'
    BY DEF ChoicesAsked
  <2>1. Differs(line[n])' = Differs(line'[n])
    BY <1>6 DEF Differs, Added, Removed
  <2>2. n + 1 \in DOMAIN line /\ line'[n] = line[n + 1]
    BY <1>2
  <2> QED
    BY <2>1, <2>2 DEF IInv, ChoicesAsked
<1>8. CallsAsked'
  <2> SUFFICES ASSUME ~shifted', NEW c \in calls' PROVE c[2] \in asked'
    BY DEF CallsAsked
  <2>1. c[2] \in Differs(Head(line))
    BY DEF Differs
  <2> QED
    BY <1>2, <2>1 DEF IInv, ChoicesAsked
<1> QED
  BY <1>5, <1>7, <1>8, KeptStay, CopiesStay, KeepsStay DEF IInv, GitlabDated

LEMMA LocalCallStep ==
  ASSUME IInv, LocalCall
  PROVE  IInv'
<1>1. PICK c \in calls :
        /\ approvals' = IF c[1] = "approve" THEN approveMR(c[2]) ELSE unapproveMR(c[2])
        /\ calls' = calls \ {c}
        /\ UNCHANGED <<gitlab, labels, legacy, core, review, paused, queued, polled, since,
                       lost, line, split, relabel, undone, events, asked, shifted, excused>>
  BY DEF LocalCall, mixins, sweeps, admin
<1>2. c[2] \in People
  BY DEF IInv, TypeOK
<1>3. Account(c[2]) \in Accounts
  BY DEF Account, Accounts
<1>4. approvals' \subseteq Accounts
  BY <1>1, <1>3 DEF IInv, TypeOK, approveMR, unapproveMR
<1>5. TypeOK'
  BY <1>1, <1>4 DEF IInv, TypeOK
<1>6. Current' = Current
  BY <1>1, CurrentStays
<1>7. ChoicesAsked'
  <2>1. \A n \in DOMAIN line : Differs(line[n])' = Differs(line[n])
    BY <1>1, <1>6 DEF Differs, Added, Removed
  <2> QED
    BY <1>1, <2>1 DEF IInv, ChoicesAsked
<1>8. CallsAsked'
  BY <1>1 DEF IInv, CallsAsked
<1> QED
  BY <1>1, <1>5, <1>7, <1>8, KeptStay, CopiesStay, KeepsStay DEF IInv, GitlabDated

LEMMA LocalLostStep ==
  ASSUME IInv, LocalLost
  PROVE  IInv'
<1> USE DEF LocalLost, mixins, sweeps, local, admin
<1>1. events' \in Time /\ gitlab' <= events'
  BY EventStep DEF IInv
<1>2. Current' = Current
  BY CurrentStays
<1>3. CASE calls = {}
  <2>1. line \in Seq(SUBSET People) /\ line # <<>> /\ line' = Tail(line) /\ UNCHANGED calls
    BY <1>3 DEF IInv, TypeOK
  <2>2. /\ Len(line) \in Nat /\ line' \in Seq(SUBSET People) /\ Len(line') = Len(line) - 1
        /\ \A n \in 1..Len(line') : n + 1 \in DOMAIN line /\ line'[n] = line[n + 1]
        /\ DOMAIN line' = 1..Len(line')
    BY <2>1, HeadTailProperties, LenProperties, EmptySeq
  <2>3. TypeOK' /\ CallsAsked'
    BY <1>1, <2>1, <2>2 DEF IInv, TypeOK, CallsAsked
  <2>4. ChoicesAsked'
    <3> SUFFICES ASSUME ~shifted', NEW n \in DOMAIN line' PROVE Differs(line[n])' \subseteq asked'
      BY DEF ChoicesAsked
    <3>1. Differs(line[n])' = Differs(line'[n])
      BY <1>2 DEF Differs, Added, Removed
    <3>2. n + 1 \in DOMAIN line /\ line'[n] = line[n + 1]
      BY <2>2
    <3> QED
      BY <3>1, <3>2 DEF IInv, ChoicesAsked
  <2> QED
    BY <1>1, <2>3, <2>4, KeptStay, CopiesStay, KeepsStay DEF IInv, GitlabDated
<1>4. CASE calls # {}
  <2>1. calls' = {} /\ UNCHANGED line
    BY <1>4
  <2>2. TypeOK' /\ CallsAsked'
    BY <1>1, <2>1 DEF IInv, TypeOK, CallsAsked
  <2>3. \A n \in DOMAIN line : Differs(line[n])' = Differs(line[n])
    BY <1>2, <2>1 DEF Differs, Added, Removed
  <2>4. ChoicesAsked'
    BY <2>1, <2>3 DEF IInv, ChoicesAsked
  <2> QED
    BY <1>1, <2>2, <2>4, KeptStay, CopiesStay, KeepsStay DEF IInv, GitlabDated
<1> QED
  BY <1>3, <1>4

-----------------------------------------------------------------------------
(* What the sweeps bring. *)

LEMMA EditGitlabStep ==
  ASSUME IInv, EditGitlab
  PROVE  IInv'
<1> USE DEF EditGitlab, mixins, sweeps, local, admin
<1>1. gitlab' \in Time /\ events' \in Time /\ gitlab' <= events'
  BY EventStep, Constants DEF IInv, Time
<1>2. TypeOK'
  BY <1>1 DEF IInv, TypeOK
<1>3. Current' = Current
  BY CurrentStays
<1> QED
  BY <1>1, <1>2, <1>3, KeptStay, CopiesStay, KeepsStay, ChoicesStay DEF IInv, GitlabDated

LEMMA OthersSetStep ==
  ASSUME IInv, OthersSet
  PROVE  IInv'
<1> USE DEF OthersSet, mixins, sweeps, local, admin
<1>1. events' \in Time /\ gitlab' <= events' /\ since' \in Nat
  BY EventStep DEF IInv
<1>2. TypeOK'
  BY <1>1 DEF IInv, TypeOK
<1>3. Current' = Current
  BY CurrentStays
<1> QED
  BY <1>1, <1>2, <1>3, KeptStay, CopiesStay, KeepsStay, ChoicesStay DEF IInv, GitlabDated

LEMMA BackfillStep ==
  ASSUME IInv, Backfill
  PROVE  IInv'
<1> USE DEF Backfill, mixins, sweeps, local, admin
<1>1. TypeOK'
  BY DEF IInv, TypeOK
<1>2. Current' = Current
  BY CurrentStays
<1> QED
  BY <1>1, <1>2, KeptStay, CopiesStay, KeepsStay, ChoicesStay DEF IInv, GitlabDated

LEMMA RelabelledStep ==
  ASSUME IInv, Relabelled, UNCHANGED <<legacy, review, relabel>>
  PROVE  labels' \subseteq People /\ excused' \subseteq People /\ ReviewersKept'
<1>1. PICK newer \in BOOLEAN :
        /\ labels' = IF newer THEN {} ELSE labels
        /\ excused' = IF newer THEN excused \cup labels ELSE excused
  BY DEF Relabelled
<1>2. ReviewersKept'
  BY <1>1 DEF IInv, ReviewersKept, Held, InHand, Listed
<1> QED
  BY <1>1, <1>2 DEF IInv, TypeOK

LEMMA RemoteApplyStep ==
  ASSUME IInv, NEW ts \in queued, RemoteApply(ts)
  PROVE  IInv'
<1> USE DEF RemoteApply, mixins, sweeps, local, admin
<1>1. ts \in Time /\ ts # None
  BY Constants DEF IInv, TypeOK, Time
<1>2. labels' \subseteq People /\ excused' \subseteq People /\ ReviewersKept'
  BY RelabelledStep
<1>3. shifted' \in BOOLEAN /\ ChoicesAsked' /\ CallsAsked'
  BY ShiftsStep DEF IInv
<1>4. TypeOK'
  BY <1>1, <1>2, <1>3 DEF IInv, TypeOK
<1>5. RelabelKeeps'
  BY <1>1, KeepsStay DEF IInv
<1> QED
  BY <1>2, <1>3, <1>4, <1>5, CopiesStay DEF IInv, GitlabDated

LEMMA RemoteLostStep ==
  ASSUME IInv, NEW ts \in queued, RemoteLost(ts)
  PROVE  IInv'
<1> USE DEF RemoteLost, mixins, sweeps, local, admin
<1>1. ts \in Time /\ events' \in Time /\ gitlab' <= events'
  BY EventStep DEF IInv, TypeOK
<1>2. labels' \subseteq People /\ excused' \subseteq People /\ ReviewersKept'
  BY RelabelledStep
<1>3. Current' = Current
  BY CurrentStays
<1>4. TypeOK'
  BY <1>1, <1>2 DEF IInv, TypeOK
<1> QED
  BY <1>1, <1>2, <1>3, <1>4, KeepsStay, CopiesStay, ChoicesStay DEF IInv, GitlabDated

(* A link adds review data without reviewers, or keeps those there are. *)
LEMMA LinkEpicStep ==
  ASSUME IInv, LinkEpic
  PROVE  IInv'
<1> USE DEF LinkEpic, mixins, sweeps, local, admin
<1>1. events' \in Time /\ gitlab' <= events'
  BY EventStep DEF IInv
<1>2. shifted' \in BOOLEAN /\ ChoicesAsked' /\ CallsAsked'
  BY ShiftsStep DEF IInv
<1>3. /\ review' \in Review
      /\ review'.reviewers = IF review = None THEN {} ELSE review.reviewers
  <2>1. CASE review = None
    BY <2>1 DEF Review
  <2>2. CASE review # None
    BY <2>2, ReviewType DEF IInv, Review
  <2> QED
    BY <2>1, <2>2
<1>4. review' # None
  BY <1>3, Constants
<1>5. TypeOK'
  BY <1>1, <1>2, <1>3 DEF IInv, TypeOK
<1>6. ReviewersKept'
  BY <1>3, <1>4 DEF IInv, ReviewersKept, Held, InHand, Listed
<1>7. SplitCopies' /\ SplitHasCore'
  BY <1>3, <1>4 DEF IInv, SplitCopies, SplitHasCore
<1>8. RelabelKeeps'
  BY <1>4, KeepsStay DEF IInv
<1> QED
  BY <1>1, <1>2, <1>5, <1>6, <1>7, <1>8 DEF IInv, GitlabDated

LEMMA SetDisabledStep ==
  ASSUME IInv, SetDisabled
  PROVE  IInv'
<1> USE DEF SetDisabled, mixins, sweeps, local, admin
<1>1. events' \in Time /\ gitlab' <= events'
  BY EventStep DEF IInv
<1>2. TypeOK'
  BY <1>1 DEF IInv, TypeOK
<1>3. Current' = Current
  BY CurrentStays
<1> QED
  BY <1>1, <1>2, <1>3, KeptStay, CopiesStay, KeepsStay, ChoicesStay DEF IInv, GitlabDated

-----------------------------------------------------------------------------
(* The migrations. *)

LEMMA RelabelReadStep ==
  ASSUME IInv, RelabelRead
  PROVE  IInv'
<1> USE DEF RelabelRead, mixins, sweeps, local, admin
<1>1. events' \in Time /\ gitlab' <= events'
  BY EventStep DEF IInv
<1>2. PICK named \in SUBSET labels : relabel' = [at |-> "merge", named |-> named, keep |-> {}]
  OBVIOUS
<1>3. relabel' \in Relabel /\ relabel'.at = "merge" /\ relabel = None
  BY <1>2 DEF IInv, TypeOK, Relabel
<1>4. TypeOK'
  BY <1>1, <1>3 DEF IInv, TypeOK
<1>5. ReviewersKept' /\ RelabelKeeps'
  BY <1>3 DEF IInv, ReviewersKept, Held, InHand, Listed, RelabelKeeps
<1>6. Current' = Current
  BY CurrentStays
<1> QED
  BY <1>1, <1>4, <1>5, <1>6, CopiesStay, ChoicesStay DEF IInv, GitlabDated

LEMMA RelabelMergeStep ==
  ASSUME IInv, RelabelMerge
  PROVE  IInv'
<1> USE DEF RelabelMerge, mixins, sweeps, local, admin
<1>1. relabel \in Relabel /\ relabel.named \subseteq People /\ CurrentReviewers \subseteq People
      /\ relabel.at = "merge"
  BY RelabelType, CurrentType DEF IInv
<1>2. /\ relabel' \in Relabel /\ relabel'.at = "strip" /\ relabel'.named = relabel.named
      /\ relabel'.keep = relabel.named \cup CurrentReviewers
  BY <1>1 DEF Relabel
<1>3. TypeOK'
  BY <1>2 DEF IInv, TypeOK
<1>4. ReviewersKept'
  BY <1>1, <1>2 DEF IInv, ReviewersKept, Held, InHand, Listed
<1>5. RelabelKeeps'
  BY <1>2 DEF RelabelKeeps, CurrentReviewers, ReadsSplit, Listed
<1>6. Current' = Current
  BY CurrentStays
<1> QED
  BY <1>3, <1>4, <1>5, <1>6, CopiesStay, ChoicesStay DEF IInv, GitlabDated

LEMMA RelabelStripStep ==
  ASSUME IInv, RelabelStrip
  PROVE  IInv'
<1> USE DEF RelabelStrip, mixins, sweeps, local, admin
<1>1. relabel \in Relabel /\ relabel.named \subseteq People /\ relabel.at = "strip"
  BY RelabelType DEF IInv
<1>2. /\ relabel' \in Relabel /\ relabel'.at = "write" /\ relabel' # None
      /\ relabel'.named = relabel.named /\ relabel'.keep = relabel.keep
  <2>1. relabel' \in Relabel /\ relabel'.at = "write" /\ relabel'.named = relabel.named
        /\ relabel'.keep = relabel.keep
    BY <1>1 DEF Relabel
  <2> QED
    BY <2>1, Constants
<1>3. TypeOK'
  BY <1>2 DEF IInv, TypeOK
<1>4. ReviewersKept'
  BY <1>1, <1>2 DEF IInv, ReviewersKept, Held, InHand, Listed
<1>5. RelabelKeeps'
  BY <1>1, <1>2 DEF IInv, RelabelKeeps, ReadsSplit, Listed
<1>6. Current' = Current
  BY CurrentStays
<1> QED
  BY <1>3, <1>4, <1>5, <1>6, CopiesStay, ChoicesStay DEF IInv, GitlabDated

LEMMA RelabelWriteStep ==
  ASSUME IInv, RelabelWrite
  PROVE  IInv'
<1> USE DEF RelabelWrite, mixins, sweeps, local, admin
<1>1. relabel.keep \subseteq People /\ relabel.keep # None /\ relabel.named \subseteq relabel.keep
  BY RelabelType, Constants DEF IInv, RelabelKeeps
<1>2. legacy' \in Legacy /\ legacy'.reviewers = relabel.keep /\ legacy'.approvedBy = legacy.approvedBy
  BY <1>1 DEF IInv, TypeOK, Legacy, Field
<1>3. excused' \subseteq People
  BY LegacyType DEF IInv, TypeOK
<1>4. TypeOK'
  BY <1>2, <1>3 DEF IInv, TypeOK
<1>5. ReviewersKept'
  <2>1. Listed(legacy'.reviewers) = relabel.keep
    BY <1>1, <1>2 DEF Listed
  <2>2. Held' = labels \cup relabel.keep \cup (IF review = None THEN {} ELSE review.reviewers)
    BY <2>1 DEF Held, InHand, Listed
  <2>3. Listed(legacy.reviewers) \subseteq relabel.keep \cup excused'
    BY DEF IInv, RelabelKeeps
  <2>4. InHand \subseteq relabel.keep /\ excused \subseteq excused'
    BY <1>1 DEF InHand
  <2> QED
    BY <2>2, <2>3, <2>4 DEF IInv, ReviewersKept, Held
<1>6. Current' = Current
  BY <1>2, CurrentStays
<1>7. RelabelKeeps'
  BY DEF RelabelKeeps
<1> QED
  BY <1>4, <1>5, <1>6, <1>7, CopiesStay, ChoicesStay DEF IInv, GitlabDated

LEMMA RelabelThrowsStep ==
  ASSUME IInv, RelabelThrows
  PROVE  IInv'
<1> USE DEF RelabelThrows, mixins, sweeps, local, admin
<1>1. events' \in Time /\ gitlab' <= events' /\ excused' \subseteq People
  BY EventStep, InHandType DEF IInv, TypeOK
<1>2. TypeOK'
  BY <1>1 DEF IInv, TypeOK
<1>3. ReviewersKept' /\ RelabelKeeps'
  BY DEF IInv, ReviewersKept, Held, InHand, Listed, RelabelKeeps
<1>4. Current' = Current
  BY CurrentStays
<1> QED
  BY <1>1, <1>2, <1>3, <1>4, CopiesStay, ChoicesStay DEF IInv, GitlabDated

LEMMA SplitReadStep ==
  ASSUME IInv, SplitRead
  PROVE  IInv'
<1> USE DEF SplitRead, mixins, sweeps, local, admin
<1>1. events' \in Time /\ gitlab' <= events'
  BY EventStep DEF IInv
<1>2. split' \in Split /\ split'.at = "core" /\ (split'.review <=> review # None)
  BY DEF IInv, TypeOK, Split
<1>3. TypeOK'
  BY <1>1, <1>2 DEF IInv, TypeOK
<1>4. SplitCopies' /\ SplitHasCore'
  BY <1>2 DEF SplitCopies, SplitHasCore
<1>5. Current' = Current
  BY CurrentStays
<1> QED
  BY <1>1, <1>3, <1>4, <1>5, KeptStay, KeepsStay, ChoicesStay DEF IInv, GitlabDated

LEMMA SplitCoreStep ==
  ASSUME IInv, SplitCore
  PROVE  IInv'
<1> USE DEF SplitCore, mixins, sweeps, local, admin
<1>1. split # None /\ split \in Split /\ split.at = "core" /\ split.legacy \in Legacy
  BY SplitType DEF IInv
<1>2. core' \in Time \cup {None}
  BY <1>1, LegacyType DEF IInv, TypeOK
<1>3. /\ split' \in Split /\ split'.at = "review" /\ split'.review = split.review
      /\ split'.core = split.core /\ split'.legacy = split.legacy
  BY <1>1 DEF Split
<1>4. shifted' \in BOOLEAN /\ ChoicesAsked' /\ CallsAsked'
  BY ShiftsStep DEF IInv
<1>5. TypeOK'
  BY <1>2, <1>3, <1>4 DEF IInv, TypeOK
<1>6. SplitCopies' /\ SplitHasCore'
  BY <1>1, <1>3 DEF IInv, SplitCopies, SplitHasCore
<1>7. core' = core \/ core' # None
  BY DEF IInv, SplitHasCore, NeedsCore
<1> QED
  BY <1>4, <1>5, <1>6, <1>7, KeptStay, KeepsStay DEF IInv, GitlabDated

(* Whatever the split overwrites has no reviewers. *)
LEMMA SplitReviewStep ==
  ASSUME IInv, SplitReview
  PROVE  IInv'
<1> USE DEF SplitReview, mixins, sweeps, local, admin
<1>1. split # None /\ split \in Split /\ split.at = "review" /\ split.legacy \in Legacy
      /\ split.review \in BOOLEAN
  BY SplitType DEF IInv
<1>2. /\ split' \in Split /\ split'.at = "strip" /\ split'.review = split.review
      /\ split'.legacy = split.legacy /\ split'.core = split.core
  BY <1>1 DEF Split
<1>3. shifted' \in BOOLEAN /\ ChoicesAsked' /\ CallsAsked'
  BY ShiftsStep DEF IInv
<1> DEFINE w == ReviewPayload(split.legacy)
           writes == ~split.review /\ {split.legacy.reviewers, split.legacy.approvedBy} # {None}
<1>4. w \in Review /\ w.reviewers = Listed(split.legacy.reviewers) /\ w # None
  <2>1. Listed(split.legacy.reviewers) \subseteq People /\ Listed(split.legacy.approvedBy) \subseteq People
    BY <1>1, LegacyType
  <2>2. Linked \in BOOLEAN
    BY ReviewType DEF IInv, Linked
  <2>3. w \in Review /\ w.reviewers = Listed(split.legacy.reviewers)
    BY <2>1, <2>2 DEF ReviewPayload, Review
  <2> QED
    BY <2>3, Constants
<1>5. review' = IF writes THEN w ELSE review
  BY <1>1
<1> HIDE DEF w
<1>6. TypeOK'
  BY <1>2, <1>3, <1>4, <1>5 DEF IInv, TypeOK
<1>7. ReviewersKept'
  <2>1. writes /\ review # None => review.reviewers = {}
    BY <1>1 DEF IInv, SplitCopies
  <2> QED
    BY <1>4, <1>5, <2>1 DEF IInv, ReviewersKept, Held, InHand, Listed
<1>8. SplitCopies'
  <2> SUFFICES ASSUME ~split.review, split.legacy.reviewers # None
               PROVE  review' # None /\ split.legacy.reviewers \subseteq review'.reviewers
    BY <1>2 DEF SplitCopies
  <2>1. writes
    OBVIOUS
  <2> QED
    BY <1>4, <1>5, <2>1 DEF Listed
<1>9. SplitHasCore' /\ RelabelKeeps'
  <2>1. review' = review \/ review' # None
    BY <1>4, <1>5
  <2> QED
    BY <1>2, <2>1, KeepsStay DEF IInv, SplitHasCore
<1> QED
  BY <1>3, <1>6, <1>7, <1>8, <1>9 DEF IInv, GitlabDated

(* What is cleared has been copied, or is on record. *)
LEMMA SplitStripStep ==
  ASSUME IInv, SplitStrip
  PROVE  IInv'
<1> USE DEF SplitStrip, mixins, sweeps, local, admin
<1>1. split # None /\ split \in Split /\ split.at = "strip" /\ split.legacy \in Legacy
      /\ split.review \in BOOLEAN
  BY SplitType DEF IInv
<1>2. /\ legacy \in Legacy /\ legacy.core \in Time \cup {None} /\ legacy.reviewers \in Field
      /\ legacy.approvedBy \in Field /\ DOMAIN legacy = {"core", "reviewers", "approvedBy"}
  BY LegacyType DEF IInv, TypeOK
<1>3. legacy' \in Legacy /\ legacy'.reviewers = IF split.legacy.reviewers = None THEN legacy.reviewers ELSE None
  <2>1. DOMAIN legacy' = {"core", "reviewers", "approvedBy"}
    BY <1>2
  <2>2. /\ legacy'.core \in Time \cup {None} /\ legacy'.approvedBy \in Field
        /\ legacy'.reviewers = IF split.legacy.reviewers = None THEN legacy.reviewers ELSE None
    BY <1>2 DEF Field
  <2>3. legacy'.reviewers \in Field
    BY <1>2, <2>2 DEF Field
  <2>4. legacy' = [core |-> legacy'.core, reviewers |-> legacy'.reviewers, approvedBy |-> legacy'.approvedBy]
    BY <1>2
  <2> QED
    BY <2>2, <2>3, <2>4 DEF Legacy
<1>4. shifted' \in BOOLEAN /\ ChoicesAsked' /\ CallsAsked'
  BY ShiftsStep DEF IInv
<1>5. legacy'.reviewers # legacy.reviewers =>
        /\ legacy'.reviewers = None /\ split.legacy.reviewers # None
        /\ legacy.reviewers # None /\ legacy.reviewers \subseteq People
  BY <1>2, <1>3 DEF Field
<1>6. excused' \subseteq People /\ excused \subseteq excused'
  BY <1>5 DEF IInv, TypeOK
<1>7. TypeOK'
  BY <1>3, <1>4, <1>6 DEF IInv, TypeOK
<1>8. ReviewersKept'
  <2>1. CASE legacy'.reviewers = legacy.reviewers
    BY <1>6, <2>1, KeptStay DEF IInv
  <2>2. CASE legacy'.reviewers # legacy.reviewers
    <3>1. legacy.reviewers \subseteq excused' \cup (IF review = None THEN {} ELSE review.reviewers)
      BY <1>1, <1>5, <2>2 DEF IInv, SplitCopies
    <3>2. Listed(legacy.reviewers) = legacy.reviewers
      BY <1>5, <2>2 DEF Listed
    <3>3. Held \subseteq Held' \cup legacy.reviewers
      BY <3>2 DEF Held, InHand
    <3>4. (IF review = None THEN {} ELSE review.reviewers) \subseteq Held'
      BY DEF Held, InHand
    <3> QED
      BY <1>6, <3>1, <3>3, <3>4 DEF IInv, ReviewersKept
  <2> QED
    BY <2>1, <2>2
<1>9. SplitCopies' /\ SplitHasCore' /\ RelabelKeeps'
  BY <1>3, KeepsStay DEF IInv, SplitCopies, SplitHasCore
<1> QED
  BY <1>4, <1>7, <1>8, <1>9 DEF IInv, GitlabDated

LEMMA SplitThrowsStep ==
  ASSUME IInv, SplitThrows
  PROVE  IInv'
<1> USE DEF SplitThrows, mixins, sweeps, local, admin
<1>1. events' \in Time /\ gitlab' <= events'
  BY EventStep DEF IInv
<1>2. TypeOK'
  BY <1>1 DEF IInv, TypeOK
<1>3. SplitCopies' /\ SplitHasCore'
  BY DEF SplitCopies, SplitHasCore
<1>4. Current' = Current
  BY CurrentStays
<1> QED
  BY <1>1, <1>2, <1>3, <1>4, KeptStay, KeepsStay, ChoicesStay DEF IInv, GitlabDated

LEMMA CrashStep ==
  ASSUME IInv, Crash
  PROVE  IInv'
<1> USE DEF Crash, mixins, sweeps, local, admin
<1>1. events' \in Time /\ gitlab' <= events'
  BY EventStep DEF IInv
<1>2. excused' \subseteq People
  BY InHandType DEF IInv, TypeOK
<1>3. TypeOK'
  <2>1. line' \in Seq(SUBSET People)
    BY EmptySeq
  <2> QED
    BY <1>1, <1>2, <2>1 DEF IInv, TypeOK
<1>4. ReviewersKept' /\ RelabelKeeps'
  BY DEF IInv, ReviewersKept, Held, InHand, Listed, RelabelKeeps
<1>5. SplitCopies' /\ SplitHasCore' /\ CallsAsked'
  BY DEF SplitCopies, SplitHasCore, CallsAsked
<1>6. ChoicesAsked'
  <2>1. line' = <<>>
    OBVIOUS
  <2>2. \A n : n \notin DOMAIN line'
    BY <2>1
  <2> QED
    BY <2>2 DEF ChoicesAsked
<1> QED
  BY <1>1, <1>3, <1>4, <1>5, <1>6 DEF IInv, GitlabDated

-----------------------------------------------------------------------------
LEMMA InitInv ==
  ASSUME Init
  PROVE  IInv
<1>1. /\ legacy \in [core : {0, None}, reviewers : {{}} \cup {{p} : p \in People},
                     approvedBy : {None} \cup {{p} : p \in Tokens}]
      /\ approvals \in {{}, Listed(legacy.approvedBy)} /\ labels = People \ legacy.reviewers
  BY DEF Init
<1>2. /\ legacy.core \in {0, None} /\ legacy.reviewers \in {{}} \cup {{p} : p \in People}
      /\ legacy.approvedBy \in {None} \cup {{p} : p \in Tokens}
  BY <1>1
<1>3. legacy.reviewers \subseteq People /\ legacy.reviewers # None
  BY <1>2, Constants
<1>4. legacy.approvedBy = None \/ legacy.approvedBy \subseteq Tokens
  BY <1>2
<1>5. legacy \in Legacy
  <2>1. legacy.core \in Time \cup {None}
    BY <1>2, Constants
  <2>2. legacy.reviewers \in Field /\ legacy.approvedBy \in Field
    BY <1>3, <1>4, Constants DEF Field
  <2>3. legacy = [core |-> legacy.core, reviewers |-> legacy.reviewers, approvedBy |-> legacy.approvedBy]
    BY <1>1
  <2> QED
    BY <2>1, <2>2, <2>3 DEF Legacy
<1>6. approvals \subseteq Accounts
  <2>1. Listed(legacy.approvedBy) \subseteq Tokens
    BY <1>4 DEF Listed
  <2> QED
    BY <1>1, <2>1 DEF Accounts
<1>7. /\ gitlab = 0 /\ events = 0 /\ core = None /\ review = None /\ paused \in BOOLEAN
      /\ queued = {} /\ polled = {0} /\ calls = {}
      /\ split = None /\ relabel = None /\ asked = {} /\ excused = {}
  BY DEF Init
<1>8. line = <<>>
  BY DEF Init
<1>9. shifted = FALSE /\ lost = None /\ undone = None /\ since = 0
  BY DEF Init
<1>10. shifted \in BOOLEAN /\ {lost, undone} \subseteq Time \cup {None} /\ since \in Nat
  BY <1>9
<1>11. line \in Seq(SUBSET People) /\ \A n : n \notin DOMAIN line
  BY <1>8, EmptySeq
<1>12. labels \subseteq People
  BY <1>1
<1>13. gitlab \in Time /\ events \in Time /\ core \in Time \cup {None} /\ polled \subseteq Time
       /\ GitlabDated
  BY <1>7, Constants DEF GitlabDated
<1>14. review \in Review \cup {None} /\ split \in Split \cup {None} /\ relabel \in Relabel \cup {None}
  BY <1>7
<1>15. queued \subseteq Time /\ calls \subseteq ({"approve", "unapprove"} \X People)
       /\ asked \subseteq People /\ excused \subseteq People
  BY <1>7
<1>16. TypeOK
  BY <1>5, <1>6, <1>7, <1>10, <1>11, <1>12, <1>13, <1>14, <1>15 DEF TypeOK
<1>17. ReviewersKept
  BY <1>1, <1>3 DEF ReviewersKept, Held, Listed
<1>18. SplitCopies /\ SplitHasCore /\ RelabelKeeps /\ ChoicesAsked /\ CallsAsked
  BY <1>7, <1>11 DEF SplitCopies, SplitHasCore, RelabelKeeps, ChoicesAsked, CallsAsked
<1> QED
  BY <1>13, <1>16, <1>17, <1>18 DEF IInv

LEMMA NextInv ==
  ASSUME IInv, [Next]_vars
  PROVE  IInv'
<1>1. ASSUME Work PROVE IInv'
  BY <1>1, LocalReadStep, LocalCallStep, BackfillStep, RemoteApplyStep, RelabelMergeStep,
     RelabelStripStep, RelabelWriteStep, SplitCoreStep, SplitReviewStep, SplitStripStep DEF Work
<1>2. CASE UNCHANGED vars
  <2>1. TypeOK' /\ GitlabDated' /\ Current' = Current
    BY <1>2, CurrentStays DEF vars, IInv, TypeOK, GitlabDated
  <2> QED
    BY <1>2, <2>1, KeptStay, CopiesStay, KeepsStay, ChoicesStay DEF vars, IInv
<1> QED
  BY <1>1, <1>2, ChooseStep, EditGitlabStep, LinkEpicStep, OthersSetStep, SetDisabledStep,
     RelabelReadStep, SplitReadStep, LocalLostStep, RelabelThrowsStep, SplitThrowsStep, CrashStep,
     RemoteLostStep DEF Next

LEMMA InvHolds == Spec => []IInv
<1>1. IInv /\ [Next]_vars => IInv'
  BY NextInv
<1> QED
  BY <1>1, InitInv, PTL DEF Spec

(* Every reachable state is well typed. *)
THEOREM TypesHold == Spec => []TypeOK
<1>1. IInv => TypeOK
  BY DEF IInv
<1> QED
  BY <1>1, InvHolds, PTL

(* Whoever was a reviewer when the migrations came is still one, or the
   history says how that was lost, whichever way the two migrations, sweeps
   and crashes interleave (mixin-migration.ts, reviewer-migration.ts).      *)
THEOREM ReviewersAlwaysKept == Spec => []ReviewersKept
<1>1. IInv => ReviewersKept
  BY DEF IInv
<1> QED
  BY <1>1, InvHolds, PTL

(* Approvals change in one action only. *)
LEMMA OnlyCallsApprove ==
  ASSUME IInv, [Next]_vars, approvals' # approvals
  PROVE  LocalCall
<1>1. \A ts \in queued : ~RemoteApply(ts) /\ ~RemoteLost(ts)
  BY DEF RemoteApply, RemoteLost
<1>2. \A p \in People : ~Choose(p)
  BY DEF Choose
<1>3. /\ ~LocalRead /\ ~LocalLost /\ ~Backfill /\ ~EditGitlab /\ ~OthersSet
      /\ ~LinkEpic /\ ~SetDisabled /\ ~Crash
  BY DEF LocalRead, LocalLost, Backfill, EditGitlab, OthersSet, LinkEpic, SetDisabled, Crash
<1>4. /\ ~RelabelRead /\ ~RelabelMerge /\ ~RelabelStrip /\ ~RelabelWrite /\ ~RelabelThrows
      /\ ~SplitRead /\ ~SplitCore /\ ~SplitReview /\ ~SplitStrip /\ ~SplitThrows
  BY DEF RelabelRead, RelabelMerge, RelabelStrip, RelabelWrite, RelabelThrows,
         SplitRead, SplitCore, SplitReview, SplitStrip, SplitThrows
<1> QED
  BY <1>1, <1>2, <1>3, <1>4 DEF Next, Work, vars

(* Nobody's approval is given or withdrawn in their name unless somebody who
   acts through that account changed it in Huly, although the list that was
   chosen is compared with one read later (mr-approvals.ts).                *)
THEOREM ApprovalsInTheirName == Spec => InTheirName
<1>1. ASSUME IInv, [Next]_vars, NEW a \in Accounts, (a \in approvals) # (a \in approvals')
      PROVE  shifted \/ \E p \in asked : Account(p) = a
  <2>1. LocalCall
    BY <1>1, OnlyCallsApprove
  <2>2. PICK c \in calls :
          approvals' = IF c[1] = "approve" THEN approveMR(c[2]) ELSE unapproveMR(c[2])
    BY <2>1 DEF LocalCall
  <2>3. a = Account(c[2])
    BY <1>1, <2>2 DEF approveMR, unapproveMR
  <2> QED
    BY <1>1, <2>3 DEF IInv, CallsAsked
<1>2. IInv /\ [Next]_vars =>
        [\A a \in Accounts : (a \in approvals) # (a \in approvals')
           => shifted \/ \E p \in asked : Account(p) = a]_vars
  BY <1>1
<1> QED
  BY <1>2, InvHolds, PTL DEF Spec, InTheirName
=============================================================================
