----------------------------- MODULE Notes_proofs -----------------------------
(***************************************************************************)
(* GitLab's comments in Huly, for any notes in any discussions, and any     *)
(* number of changes, sweeps, lost events, exceptions and crashes.         *)
(***************************************************************************)
EXTENDS Notes, FiniteSetTheorems, WellFoundedInduction, TLAPS

(* A note at GitLab, and each version that an event carries, is not blank. *)
Written(v) == v.body # 0 /\ v.ts # 0

GitlabWritten == \A n \in Notes : gitlab[n] = Unmirrored \/ Written(gitlab[n])

(* An event of kind `note' carries one note and its time. *)
WellFormed(e) ==
  /\ \A n \in DOMAIN e.notes : Written(e.notes[n])
  /\ e.kind = "note" => /\ DOMAIN e.notes = {NoteOf(e)}
                        /\ e.ts = e.notes[NoteOf(e)].ts

EventsWellFormed == \A e \in queued : WellFormed(e)

(* What is under way after a write: a creation is not mapped yet, an update
   has been made.                                                          *)
Creating(n) == work[n] # None /\ work[n].new
Updating(n) == work[n] # None /\ ~work[n].new

WorkAgrees ==
  \A n \in Notes : work[n] # None =>
    LET e == work[n].ev IN
    /\ e.kind = "note" /\ WellFormed(e) /\ NoteOf(e) = n
    /\ work[n].new => msg[n] = Unmirrored
    /\ ~work[n].new => msg[n] = e.notes[n]

(* The messages of the discussions: no body before the first version. *)
RevWritten == \A n \in Notes : rev[n].ts = 0 => rev[n].body = 0

(* What a note's messages of each kind are charged to: its mapping, done or
   to come, and the creations that a crash or an exception has torn.       *)
NoteCharge(n) == IF msg[n] # Unmirrored \/ Creating(n) THEN 1 ELSE 0
RevCharge(n) == IF rev[n].ts # 0 THEN 1 ELSE 0

CopiesCharged ==
  \A n \in Notes : /\ copies["note"][n] <= torn["note"][n] + NoteCharge(n)
                   /\ copies["review"][n] <= torn["review"][n] + RevCharge(n)

(* Until the cursor goes back it is at or past every message that no update
   in progress is about to account for.                                    *)
Past(c, t) == t = 0 \/ (c # None /\ t <= c)

CursorCovers == ~rewound => \A n \in Notes : ~Updating(n) => Past(cursor, msg[n].ts)

NotesInv ==
  /\ TypeOK /\ GitlabWritten /\ EventsWellFormed /\ WorkAgrees /\ RevWritten
  /\ CopiesCharged /\ CursorCovers

-----------------------------------------------------------------------------
(* The operators of the model *)

(* Every nonempty set of naturals has a least element: Min is that one. *)
LEMMA MinOf ==
  ASSUME NEW S \in SUBSET Nat, S # {}
  PROVE  Min(S) \in S /\ \A y \in S : Min(S) <= y
<1> DEFINE R == OpToRel(<, Nat)
<1>1. IsWellFoundedOn(R, Nat)
  BY NatLessThanWellFounded
<1>2. \A a, b \in Nat : a < b => <<a, b>> \in R
  BY DEF OpToRel
<1> HIDE DEF R
<1>3. PICK x \in S : \A y \in S : ~(<<y, x>> \in R)
  BY <1>1, WFMin
<1>4. ASSUME NEW y \in S PROVE x <= y
  <2>1. x \in Nat /\ y \in Nat OBVIOUS
  <2>2. y < x => <<y, x>> \in R BY <1>2, <2>1
  <2> QED BY <1>3, <2>1, <2>2
<1> QED
  BY <1>4 DEF Min

(* Every nonempty bounded set of naturals has a greatest element: Max. *)
LEMMA MaxOf ==
  ASSUME NEW m \in Nat, NEW S \in SUBSET (0..m), S # {}
  PROVE  Max(S) \in S /\ \A y \in S : Max(S) >= y
<1> DEFINE T == {m - x : x \in S}
<1>1. T \in SUBSET Nat /\ T # {}
  <2>1. ASSUME NEW t \in T PROVE t \in Nat
    <3>1. PICK x \in S : t = m - x OBVIOUS
    <3>2. x \in 0..m OBVIOUS
    <3> QED BY <3>1, <3>2
  <2>2. PICK x \in S : TRUE OBVIOUS
  <2>3. m - x \in T OBVIOUS
  <2> HIDE DEF T
  <2> QED BY <2>1, <2>3
<1>2. Min(T) \in T /\ \A y \in T : Min(T) <= y
  <2> HIDE DEF T
  <2> QED BY <1>1, MinOf
<1>3. PICK x \in S : Min(T) = m - x
  BY <1>2
<1>4. \A y \in S : x >= y
  <2> SUFFICES ASSUME NEW y \in S PROVE x >= y OBVIOUS
  <2>1. m - x <= m - y
    BY <1>2, <1>3
  <2> QED BY <2>1
<1> QED
  BY <1>4 DEF Max

LEMMA TimeIsNat == Time \subseteq Nat /\ 0 \in Time /\ MaxEvents \in Nat
  BY NotesAssumption DEF Time

LEMMA NotesFacts == Notes \subseteq Nat \ {0}
  BY NotesAssumption DEF Notes

(* The notes that an event carries. *)
LEMMA NotesCarried ==
  ASSUME NEW f
  PROVE  f \in UNION {[S -> Version] : S \in SUBSET Notes}
         <=> /\ DOMAIN f \subseteq Notes
             /\ f = [n \in DOMAIN f |-> f[n]]
             /\ \A n \in DOMAIN f : f[n] \in Version
<1>1. ASSUME f \in UNION {[S -> Version] : S \in SUBSET Notes}
      PROVE  /\ DOMAIN f \subseteq Notes
             /\ f = [n \in DOMAIN f |-> f[n]]
             /\ \A n \in DOMAIN f : f[n] \in Version
  <2>1. PICK S \in SUBSET Notes : f \in [S -> Version] BY <1>1
  <2> QED BY <2>1
<1>2. ASSUME DOMAIN f \subseteq Notes, f = [n \in DOMAIN f |-> f[n]],
             \A n \in DOMAIN f : f[n] \in Version
      PROVE  f \in UNION {[S -> Version] : S \in SUBSET Notes}
  <2>1. f \in [DOMAIN f -> Version] BY <1>2
  <2> QED BY <2>1, <1>2
<1> QED BY <1>1, <1>2

LEMMA EventFacts ==
  ASSUME NEW e \in Event
  PROVE  /\ e.kind \in {"note", "review"} /\ e.via \in {"hook", "sweep"}
         /\ e.resolved \in BOOLEAN /\ e.retried \in BOOLEAN
         /\ e.thread \in Threads /\ e.ts \in Time /\ DOMAIN e.notes \subseteq Notes
         /\ \A n \in DOMAIN e.notes : e.notes[n] \in Version
  BY NotesCarried DEF Event, Kinds

LEMMA NoteEventFacts ==
  ASSUME NEW n \in Notes, NEW v \in Version, Written(v), NEW via \in {"hook", "sweep"}
  PROVE  /\ NoteEvent(n, v, via) \in Event /\ WellFormed(NoteEvent(n, v, via))
         /\ NoteOf(NoteEvent(n, v, via)) = n
<1> DEFINE e == NoteEvent(n, v, via)
<1>1. /\ e.kind = "note" /\ e.via = via /\ e.resolved = FALSE /\ e.ts = v.ts
      /\ e.notes = [m \in {n} |-> v] /\ e.retried = FALSE
  BY DEF NoteEvent
<1>2. e.notes \in UNION {[S -> Version] : S \in SUBSET Notes}
  BY <1>1, NotesCarried
<1>3. NoteOf(e) = n
  BY <1>1 DEF NoteOf
<1>4. e \in Event
  BY <1>2, NotesAssumption DEF Event, NoteEvent, Version, Kinds
<1>5. WellFormed(e)
  BY <1>1, <1>3 DEF WellFormed
<1> QED BY <1>3, <1>4, <1>5

LEMMA ThreadTsFacts ==
  ASSUME gitlab \in [Notes -> Version], NEW d
  PROVE  ThreadTs(d) \in Time
<1> DEFINE S == {gitlab[n].ts : n \in Members(d)} \cup {0}
<1>1. S \in SUBSET (0..MaxEvents) /\ S # {}
  BY TimeIsNat DEF Members, Present, Version, Time
<1> HIDE DEF S
<1>2. Max(S) \in S
  BY <1>1, MaxOf, TimeIsNat
<1>3. Max(S) \in Time
  BY <1>1, <1>2 DEF Time
<1> QED BY <1>3 DEF ThreadTs, S

LEMMA ThreadEventFacts ==
  ASSUME gitlab \in [Notes -> Version], GitlabWritten, NEW d \in Threads
  PROVE  ThreadEvent(d) \in Event /\ WellFormed(ThreadEvent(d))
<1>1. /\ ThreadEvent(d).kind = "review"
      /\ ThreadEvent(d).notes = [n \in Members(d) |-> gitlab[n]]
  BY DEF ThreadEvent
<1>0. Members(d) \subseteq Notes
  BY DEF Members, Present
<1>2. ThreadEvent(d).notes \in UNION {[S -> Version] : S \in SUBSET Notes}
  BY <1>0, <1>1, NotesCarried
<1>3. ThreadEvent(d) \in Event
  BY <1>2, ThreadTsFacts DEF Event, ThreadEvent, Kinds
<1>4. \A n \in Members(d) : Written(gitlab[n])
  BY <1>0 DEF GitlabWritten, Members, Present, Unmirrored
<1>5. WellFormed(ThreadEvent(d))
  BY <1>1, <1>4 DEF WellFormed
<1> QED BY <1>3, <1>5

(* A second attempt carries what the first one did. *)
LEMMA RetriedFacts ==
  ASSUME NEW e \in Event, WellFormed(e)
  PROVE  Retried(e) \in Event /\ WellFormed(Retried(e))
<1>1. /\ Retried(e) \in Event /\ Retried(e).kind = e.kind
      /\ Retried(e).notes = e.notes /\ Retried(e).ts = e.ts
  BY DEF Retried, Event
<1>2. NoteOf(Retried(e)) = NoteOf(e)
  BY <1>1 DEF NoteOf
<1> QED BY <1>1, <1>2 DEF WellFormed

LEMMA NoteOfFacts ==
  ASSUME NEW e \in Event, WellFormed(e), e.kind = "note"
  PROVE  /\ NoteOf(e) \in Notes /\ NoteOf(e) \in DOMAIN e.notes
         /\ e.notes[NoteOf(e)] \in Version /\ Written(e.notes[NoteOf(e)])
         /\ e.ts = e.notes[NoteOf(e)].ts /\ e.ts \in Time /\ e.ts # 0
  BY EventFacts DEF WellFormed, Written

-----------------------------------------------------------------------------
(* Types *)

LEMMA InitTypeOK == Init => TypeOK
<1> SUFFICES ASSUME Init PROVE TypeOK OBVIOUS
<1>1. Unmirrored \in Version
  BY TimeIsNat DEF Unmirrored, Version
<1>2. gitlab \in [Notes -> Version] /\ msg \in [Notes -> Version]
  BY <1>1 DEF Init
<1>3. rev \in [Notes -> Message]
  BY TimeIsNat DEF Init, Message
<1>4. copies \in [Kinds -> [Notes -> Nat]] /\ torn \in [Kinds -> [Notes -> Nat]]
  BY DEF Init
<1>5. clock \in Time /\ troubles \in Time
  BY NotesAssumption DEF Init, Time
<1>6. queued \subseteq Event /\ work \in [Notes -> Job \cup {None}]
  BY DEF Init
<1>7. seen = {} /\ cursor = None /\ issues = None
  BY DEF Init
<1>8. resolved \subseteq Threads /\ mapped \in BOOLEAN /\ rewound \in BOOLEAN
      /\ excuse \subseteq Items
  BY DEF Init
<1> QED BY <1>2, <1>3, <1>4, <1>5, <1>6, <1>7, <1>8 DEF TypeOK

(* The parts of the type that a step leaves alone stay as they are. *)
LEMMA TypeStutter ==
  ASSUME TypeOK, UNCHANGED vars
  PROVE  TypeOK'
  BY DEF TypeOK, vars

LEMMA TroubleType ==
  ASSUME TypeOK, Trouble
  PROVE  troubles' \in Time
  BY NotesAssumption DEF TypeOK, Trouble, Room, Time

LEMMA ClockType ==
  ASSUME TypeOK, Room
  PROVE  clock + 1 \in Time /\ clock + 1 # 0 /\ clock \in Nat
  BY NotesAssumption DEF TypeOK, Room, Time

LEMMA ExcuseType ==
  ASSUME TypeOK, NEW items \in SUBSET Items, Excuse(items)
  PROVE  excuse' \subseteq Items
  BY DEF Excuse, TypeOK

LEMMA ItemsFacts ==
  /\ \A n \in Notes : <<"note", n>> \in Items
  /\ \A d \in Threads : <<"thread", d>> \in Items
  BY DEF Items, Kinds

SeenKeys == {"deferred", "deferred:review", "sweep", "sweep:review"}
            \X (Notes \cup Threads) \X Time

LEMMA TypeEditNote ==
  ASSUME NotesInv, NEW n \in Notes, EditNote(n)
  PROVE  TypeOK'
<1> USE DEF NotesInv
<1>1. /\ clock' = clock + 1 /\ clock' \in Time /\ clock' # 0
  BY ClockType DEF EditNote
<1>2. gitlab' \in [Notes -> Version] /\ gitlab'[n] = [body |-> clock', ts |-> clock']
  BY <1>1 DEF EditNote, TypeOK, Version
<1>3. queued' \subseteq Event
  <2>1. NoteEvent(n, gitlab'[n], "hook") \in Event
    BY <1>1, <1>2, NoteEventFacts DEF Written
  <2> QED BY <2>1 DEF EditNote, TypeOK
<1>4. excuse' \subseteq Items
  BY DEF EditNote, TypeOK
<1> QED BY <1>1, <1>2, <1>3, <1>4 DEF EditNote, hulyside, TypeOK

LEMMA RootFacts ==
  ASSUME NEW d, Members(d) # {}
  PROVE  Root(d) \in Notes /\ gitlab[Root(d)].ts # 0
<1>1. Members(d) \in SUBSET Nat BY NotesFacts DEF Members, Present
<1>2. Root(d) \in Members(d) BY <1>1, MinOf DEF Root
<1> QED BY <1>2 DEF Members, Present

LEMMA TypeResolveDiscussion ==
  ASSUME NotesInv, NEW d \in Threads, ResolveDiscussion(d)
  PROVE  TypeOK'
<1> USE DEF NotesInv
<1>1. clock' \in Time BY ClockType DEF ResolveDiscussion
<1>2. gitlab' \in [Notes -> Version]
  <2>1. Root(d) \in Notes BY RootFacts DEF ResolveDiscussion
  <2> QED BY <1>1, <2>1 DEF ResolveDiscussion, TypeOK, Version
<1>3. resolved' \subseteq Threads /\ excuse' \subseteq Items
  BY DEF ResolveDiscussion, TypeOK
<1> QED BY <1>1, <1>2, <1>3 DEF ResolveDiscussion, hulyside, TypeOK

LEMMA TypeOthers ==
  ASSUME NotesInv, MapParent \/ IssuesCursor \/ (\E e \in queued : Lose(e))
  PROVE  TypeOK'
<1> USE DEF NotesInv
<1>1. CASE MapParent
  BY <1>1 DEF MapParent, hulyside, TypeOK
<1>2. CASE IssuesCursor
  <2>1. troubles' \in Time /\ issues' \in Time \cup {None}
    BY <1>2, TroubleType DEF IssuesCursor, TypeOK
  <2>2. excuse' \subseteq Items
    BY <1>2, ExcuseType DEF IssuesCursor
  <2> QED BY <1>2, <2>1, <2>2 DEF IssuesCursor, hulyside, TypeOK
<1>3. ASSUME NEW e \in queued, Lose(e) PROVE TypeOK'
  <2>1. troubles' \in Time BY <1>3, TroubleType DEF Lose
  <2> DEFINE I == {x \in Items : Brings(e, x)}
  <2>2. I \in SUBSET Items /\ Excuse(I)
    BY <1>3 DEF Lose
  <2> HIDE DEF I
  <2>3. excuse' \subseteq Items
    BY <2>2, ExcuseType
  <2> QED BY <1>3, <2>1, <2>3 DEF Lose, hulyside, TypeOK
<1> QED BY <1>1, <1>2, <1>3

LEMMA TypeDefer ==
  ASSUME NotesInv, NEW e \in queued, Defer(e) \/ Drop(e)
  PROVE  TypeOK'
<1> USE DEF NotesInv
<1>1. e \in Event /\ WellFormed(e) BY DEF TypeOK, EventsWellFormed
<1>2. excuse' \subseteq Items
  <2> DEFINE I == {x \in Items : Brings(e, x)}
  <2>1. I \in SUBSET Items /\ Excuse(I)
    BY DEF Defer, Drop
  <2> HIDE DEF I
  <2> QED BY <2>1, ExcuseType
<1>3. CASE Defer(e)
  <2>1. DeferKey(e) \in SeenKeys
    <3>1. ItemOf(e) \in Notes \cup Threads
      BY <1>1, NoteOfFacts, EventFacts DEF ItemOf
    <3>2. e.ts \in Time BY <1>1, EventFacts
    <3> QED BY <3>1, <3>2 DEF DeferKey, SeenKeys
  <2>2. seen' \subseteq SeenKeys
    BY <1>3, <2>1 DEF Defer, Enqueue, TypeOK, SeenKeys
  <2>3. queued' \subseteq Event
    BY <1>1, <1>3, RetriedFacts DEF Defer, Enqueue, TypeOK
  <2> QED BY <1>2, <1>3, <2>2, <2>3 DEF Defer, outside, hulyside, TypeOK, SeenKeys
<1>4. CASE Drop(e)
  BY <1>2, <1>4 DEF Drop, outside, hulyside, TypeOK
<1> QED BY <1>3, <1>4

LEMMA TypeNote ==
  ASSUME NotesInv, NEW e \in queued, NoteCreate(e) \/ NoteUpdate(e) \/ NoteStale(e)
  PROVE  TypeOK'
<1> USE DEF NotesInv
<1>1. e \in Event /\ WellFormed(e) BY DEF TypeOK, EventsWellFormed
<1>2. e.kind = "note" BY DEF NoteCreate, NoteUpdate, NoteStale, Applicable
<1>3. NoteOf(e) \in Notes /\ e.notes[NoteOf(e)] \in Version
  BY <1>1, <1>2, NoteOfFacts
<1>4. [ev |-> e, new |-> TRUE] \in Job /\ [ev |-> e, new |-> FALSE] \in Job
  BY <1>1 DEF Job
<1>5. CASE NoteCreate(e)
  <2>1. copies' \in [Kinds -> [Notes -> Nat]]
    BY <1>3, <1>5 DEF NoteCreate, TypeOK, Kinds
  <2>2. work' \in [Notes -> Job \cup {None}]
    BY <1>3, <1>4, <1>5 DEF NoteCreate, TypeOK
  <2> QED BY <1>5, <2>1, <2>2 DEF NoteCreate, outside, TypeOK
<1> DEFINE I == {x \in {<<"note", NoteOf(e)>>} : e.notes[NoteOf(e)].body < msg[NoteOf(e)].body}
           J == {x \in {<<"note", NoteOf(e)>>} : Brings(e, x)}
<1>6. I \in SUBSET Items /\ J \in SUBSET Items
  BY <1>3, ItemsFacts
<1>7. CASE NoteUpdate(e)
  <2>1. msg' \in [Notes -> Version]
    BY <1>3, <1>7 DEF NoteUpdate, TypeOK
  <2>2. work' \in [Notes -> Job \cup {None}]
    BY <1>3, <1>4, <1>7 DEF NoteUpdate, TypeOK
  <2>3. Excuse(I) BY <1>7 DEF NoteUpdate
  <2> HIDE DEF I
  <2>4. excuse' \subseteq Items
    BY <1>6, <2>3, ExcuseType
  <2> QED BY <1>7, <2>1, <2>2, <2>4 DEF NoteUpdate, outside, TypeOK
<1>8. CASE NoteStale(e)
  <2>1. Excuse(J) BY <1>8 DEF NoteStale
  <2> HIDE DEF J
  <2>2. excuse' \subseteq Items
    BY <1>6, <2>1, ExcuseType
  <2> QED BY <1>8, <2>2 DEF NoteStale, outside, hulyside, TypeOK
<1> QED BY <1>5, <1>7, <1>8

(* The work in progress on a note: its event is of that note and well formed. *)
LEMMA WorkFacts ==
  ASSUME NotesInv, NEW n \in Notes, work[n] # None
  PROVE  /\ work[n] \in Job /\ work[n].ev \in Event /\ work[n].new \in BOOLEAN
         /\ n \in DOMAIN work[n].ev.notes
         /\ work[n].ev.notes[n] \in Version /\ Written(work[n].ev.notes[n])
         /\ work[n].ev.ts = work[n].ev.notes[n].ts
         /\ work[n].ev.ts \in Time /\ work[n].ev.ts # 0
<1>1. work[n] \in Job /\ work[n].ev \in Event /\ work[n].new \in BOOLEAN
  BY DEF NotesInv, TypeOK, Job
<1>2. work[n].ev.kind = "note" /\ WellFormed(work[n].ev) /\ NoteOf(work[n].ev) = n
  BY DEF NotesInv, WorkAgrees
<1> QED BY <1>1, <1>2, NoteOfFacts

LEMMA TypeNoteFinish ==
  ASSUME NotesInv, NEW n \in Notes, NoteFinish(n)
  PROVE  TypeOK'
<1>1. work[n] # None BY DEF NoteFinish
<1>2. msg' \in [Notes -> Version]
  BY <1>1, WorkFacts DEF NoteFinish, AfterCreation, NotesInv, TypeOK
<1>3. work' \in [Notes -> Job \cup {None}] /\ queued' \subseteq Event
  BY DEF NoteFinish, NotesInv, TypeOK
<1>4. cursor' \in Time \cup {None}
  BY <1>1, WorkFacts DEF NoteFinish, SetCursor
<1>5. rewound' \in BOOLEAN
  BY Zenon DEF NoteFinish, SetCursor, NotesInv, TypeOK
<1>6. excuse' \subseteq Items
  BY ExcuseType DEF NoteFinish, NotesInv
<1> QED BY <1>2, <1>3, <1>4, <1>5, <1>6 DEF NoteFinish, outside, NotesInv, TypeOK

LEMMA TypeNoteThrows ==
  ASSUME NotesInv, NEW n \in Notes, NoteThrows(n)
  PROVE  TypeOK'
<1>1. troubles' \in Time
  BY TroubleType DEF NoteThrows, NotesInv
<1>2. work' \in [Notes -> Job \cup {None}] /\ queued' \subseteq Event
  BY DEF NoteThrows, NotesInv, TypeOK
<1>3. torn' \in [Kinds -> [Notes -> Nat]]
  BY DEF NoteThrows, NotesInv, TypeOK, Kinds
<1>4. rewound' \in BOOLEAN
  BY Zenon DEF NoteThrows, NotesInv, TypeOK
<1>5. excuse' \subseteq Items
  <2> DEFINE I == {x \in {<<"note", n>>} : Brings(work[n].ev, x)}
  <2>1. I \in SUBSET Items BY ItemsFacts
  <2>2. Excuse(I) BY DEF NoteThrows
  <2> HIDE DEF I
  <2> QED BY <2>1, <2>2, ExcuseType DEF NotesInv
<1> QED
  BY <1>1, <1>2, <1>3, <1>4, <1>5 DEF NoteThrows, outside, NotesInv, TypeOK, Trouble

(* The review manager's loop: what it leaves, wherever it stops. *)
LEMMA ReviewLoopFacts ==
  ASSUME NotesInv, NEW e \in Event, WellFormed(e), NEW res \in BOOLEAN,
         NEW done \in SUBSET DOMAIN e.notes, NEW unmapped \in SUBSET DOMAIN e.notes,
         done \cap unmapped = {}, ReviewLoop(e, done, unmapped, res)
  PROVE  /\ rev' \in [Notes -> Message] /\ RevWritten'
         /\ copies' \in [Kinds -> [Notes -> Nat]] /\ torn' \in [Kinds -> [Notes -> Nat]]
         /\ copies'["note"] = copies["note"] /\ torn'["note"] = torn["note"]
         /\ \A n \in Notes : copies'["review"][n] <= torn'["review"][n] + RevCharge(n)'
<1>0. DOMAIN e.notes \subseteq Notes /\ \A n \in DOMAIN e.notes :
        e.notes[n] \in Version /\ Written(e.notes[n])
  BY EventFacts DEF WellFormed
<1>1. /\ rev \in [Notes -> Message]
      /\ copies \in [Kinds -> [Notes -> Nat]] /\ torn \in [Kinds -> [Notes -> Nat]]
  BY DEF NotesInv, TypeOK
<1>2. ASSUME NEW n \in done
      PROVE  Applied(rev[n], e.notes[n], res) \in Message
             /\ Applied(rev[n], e.notes[n], res).ts # 0
  <2>1. /\ rev[n] \in Message /\ rev[n].ts \in Nat
        /\ e.notes[n] \in Version /\ e.notes[n].ts \in Nat
        /\ e.notes[n].ts # 0 /\ e.notes[n].body # 0
    BY <1>0, <1>1, TimeIsNat DEF Message, Version, Written
  <2>2. rev[n].ts = 0 => rev[n].body = 0
    BY <1>0 DEF NotesInv, RevWritten
  <2> QED BY <2>1, <2>2 DEF Applied, Message, Version
<1>3. rev' = [n \in Notes |-> IF n \in done THEN Applied(rev[n], e.notes[n], res) ELSE rev[n]]
  BY DEF ReviewLoop
<1>4. rev' \in [Notes -> Message]
  BY <1>1, <1>2, <1>3
<1>5. RevWritten'
  BY <1>2, <1>3 DEF RevWritten, NotesInv
<1>6. /\ copies' \in [Kinds -> [Notes -> Nat]]
      /\ copies'["note"] = copies["note"]
      /\ \A n \in Notes : copies'["review"][n] =
           copies["review"][n] + IF n \in done \cup unmapped /\ rev[n].ts = 0 THEN 1 ELSE 0
  BY <1>1 DEF ReviewLoop, Kinds
<1>7. /\ torn' \in [Kinds -> [Notes -> Nat]]
      /\ torn'["note"] = torn["note"]
      /\ \A n \in Notes : torn'["review"][n] =
           torn["review"][n] + IF n \in unmapped /\ rev[n].ts = 0 THEN 1 ELSE 0
  BY <1>1 DEF ReviewLoop, Kinds
<1>8. ASSUME NEW n \in Notes
      PROVE  copies'["review"][n] <= torn'["review"][n] + RevCharge(n)'
  <2>1. copies["review"][n] \in Nat /\ torn["review"][n] \in Nat
    BY <1>1 DEF Kinds
  <2>2. copies["review"][n] <= torn["review"][n] + RevCharge(n)
    BY DEF NotesInv, CopiesCharged
  <2>3. RevCharge(n)' = IF rev'[n].ts # 0 THEN 1 ELSE 0
    BY DEF RevCharge
  <2>4. CASE n \in done
    <3>1. rev'[n].ts # 0 /\ n \notin unmapped BY <1>2, <1>3, <2>4
    <3> QED BY <1>6, <1>7, <2>1, <2>2, <2>3, <2>4, <3>1 DEF RevCharge
  <2>5. CASE n \notin done
    <3>1. rev'[n] = rev[n] BY <1>3, <2>5
    <3> QED BY <1>6, <1>7, <2>1, <2>2, <2>3, <2>5, <3>1 DEF RevCharge
  <2> QED BY <2>4, <2>5
<1> QED BY <1>4, <1>5, <1>6, <1>7, <1>8

Reviewing(e) == ReviewApply(e) \/ RouteToReview(e) \/ ReviewThrows(e) \/ CrashInReview(e)

(* Every step of the review manager runs the loop, to its end or in part. *)
LEMMA ReviewingFacts ==
  ASSUME NotesInv, NEW e \in queued, Reviewing(e)
  PROVE  /\ rev' \in [Notes -> Message] /\ RevWritten'
         /\ copies' \in [Kinds -> [Notes -> Nat]] /\ torn' \in [Kinds -> [Notes -> Nat]]
         /\ copies'["note"] = copies["note"] /\ torn'["note"] = torn["note"]
         /\ \A n \in Notes : copies'["review"][n] <= torn'["review"][n] + RevCharge(n)'
         /\ UNCHANGED <<work, msg, cursor, rewound, gitlab, clock, seen, mapped, issues, resolved>>
         /\ queued' \subseteq queued
<1>1. e \in Event /\ WellFormed(e) BY DEF NotesInv, TypeOK, EventsWellFormed
<1>2. e.resolved \in BOOLEAN /\ DOMAIN e.notes \subseteq Nat
  BY <1>1, EventFacts, NotesFacts
<1>3. PICK res \in BOOLEAN, done \in SUBSET DOMAIN e.notes, unmapped \in SUBSET DOMAIN e.notes :
        done \cap unmapped = {} /\ ReviewLoop(e, done, unmapped, res)
  <2>1. CASE ReviewApply(e)
    BY <1>2, <2>1 DEF ReviewApply, ReviewWrite
  <2>2. CASE RouteToReview(e)
    BY <2>2 DEF RouteToReview, ReviewWrite
  <2>3. CASE ReviewStops(e)
    <3>1. PICK last \in DOMAIN e.notes, created \in BOOLEAN :
            ReviewLoop(e, {n \in DOMAIN e.notes : n < last}, {n \in {last} : created},
                       e.kind = "review" /\ e.resolved)
      BY <2>3 DEF ReviewStops
    <3> DEFINE D == {n \in DOMAIN e.notes : n < last}
               U == {n \in {last} : created}
               r == e.kind = "review" /\ e.resolved
    <3>2. D \in SUBSET DOMAIN e.notes /\ U \in SUBSET DOMAIN e.notes /\ D \cap U = {}
      BY <1>2
    <3>3. r \in BOOLEAN OBVIOUS
    <3>4. ReviewLoop(e, D, U, r) BY <3>1
    <3> HIDE DEF D, U, r
    <3> QED BY <3>2, <3>3, <3>4
  <2> QED BY <2>1, <2>2, <2>3 DEF Reviewing, ReviewThrows, CrashInReview
<1>4. UNCHANGED <<work, msg, cursor, rewound, gitlab, clock, seen, mapped, issues, resolved>>
      /\ queued' \subseteq queued
  BY DEF Reviewing, ReviewApply, RouteToReview, ReviewWrite, ReviewThrows, CrashInReview,
         outside
<1> QED BY <1>1, <1>3, <1>4, ReviewLoopFacts

LEMMA TypeReview ==
  ASSUME NotesInv, NEW e \in queued, Reviewing(e)
  PROVE  TypeOK'
<1>1. e \in Event BY DEF NotesInv, TypeOK
<1>2. troubles' \in Time
  <2>1. CASE Trouble BY <2>1, TroubleType DEF NotesInv
  <2>2. CASE UNCHANGED troubles BY <2>2 DEF NotesInv, TypeOK
  <2> QED BY <2>1, <2>2 DEF Reviewing, ReviewApply, RouteToReview, ReviewWrite, ReviewThrows,
                            CrashInReview
<1>3. excuse' \subseteq Items
  <2>1. ASSUME NEW res, ReviewWrite(e, res) PROVE excuse' \subseteq Items
    <3> DEFINE I == {<<"thread", d>> : d \in {d \in {e.thread} : res # (d \in resolved)}}
    <3>1. I \in SUBSET Items BY <1>1, ItemsFacts, EventFacts
    <3>2. Excuse(I) BY <2>1 DEF ReviewWrite
    <3> HIDE DEF I
    <3> QED BY <3>1, <3>2, ExcuseType DEF NotesInv
  <2>2. CASE ReviewThrows(e)
    <3> DEFINE I == {x \in Items : Brings(e, x) \/ x = <<"thread", e.thread>>}
    <3>1. I \in SUBSET Items OBVIOUS
    <3>2. Excuse(I) BY <2>2 DEF ReviewThrows
    <3> HIDE DEF I
    <3> QED BY <3>1, <3>2, ExcuseType DEF NotesInv
  <2>3. CASE CrashInReview(e) BY <2>3 DEF CrashInReview, NotesInv, TypeOK
  <2> QED BY <2>1, <2>2, <2>3 DEF Reviewing, ReviewApply, RouteToReview
<1>4. UNCHANGED <<work, msg, cursor, rewound, gitlab, clock, seen, mapped, issues, resolved>>
  BY ReviewingFacts
<1>5. queued' \subseteq Event
  BY ReviewingFacts DEF NotesInv, TypeOK
<1> QED BY <1>2, <1>3, <1>4, <1>5, ReviewingFacts DEF NotesInv, TypeOK

LEMMA TypeBackfill ==
  ASSUME NotesInv, Backfill
  PROVE  TypeOK'
<1> DEFINE s == Since(cursor, issues)
           ns == {n \in NotesListed(s) : SweepKey(n) \notin seen}
           ds == {d \in DiscussionsListed(s) : ThreadKey(d) \notin seen}
<1>1. ns \subseteq Present /\ Present \subseteq Notes /\ ds \subseteq Threads
  BY DEF NotesListed, DiscussionsListed, Present
<1>2. \A d \in Threads : ThreadKey(d) \in SeenKeys
  BY ThreadTsFacts DEF NotesInv, TypeOK, ThreadKey, SeenKeys
<1>3. \A n \in Notes : SweepKey(n) \in SeenKeys
  BY DEF NotesInv, TypeOK, SweepKey, SeenKeys, Version
<1>4. seen' = seen \cup {SweepKey(n) : n \in ns} \cup {ThreadKey(d) : d \in ds}
      /\ queued' = queued \cup {NoteEvent(n, gitlab[n], "sweep") : n \in ns}
                          \cup {ThreadEvent(d) : d \in ds}
  BY DEF Backfill
<1> HIDE DEF ns, ds
<1>5. seen' \subseteq SeenKeys
  BY <1>1, <1>2, <1>3, <1>4 DEF NotesInv, TypeOK, SeenKeys
<1>6. \A n \in Present : NoteEvent(n, gitlab[n], "sweep") \in Event
  BY <1>1, NoteEventFacts DEF NotesInv, TypeOK, GitlabWritten, Present, Unmirrored
<1>7. \A d \in Threads : ThreadEvent(d) \in Event
  BY ThreadEventFacts DEF NotesInv, TypeOK
<1>8. queued' \subseteq Event
  BY <1>1, <1>4, <1>6, <1>7 DEF NotesInv, TypeOK
<1> QED BY <1>5, <1>8 DEF Backfill, outside, hulyside, NotesInv, TypeOK, SeenKeys

LEMMA TypeCrash ==
  ASSUME NotesInv, Crash
  PROVE  TypeOK'
<1>1. troubles' \in Time
  BY TroubleType DEF Crash, NotesInv
<1>2. torn' \in [Kinds -> [Notes -> Nat]]
  BY DEF Crash, NotesInv, TypeOK, Kinds
<1>3. work' \in [Notes -> Job \cup {None}]
  BY DEF Crash
<1>4. rewound' \in BOOLEAN
  BY Zenon DEF Crash, NotesInv, TypeOK
<1> QED BY <1>1, <1>2, <1>3, <1>4 DEF Crash, outside, NotesInv, TypeOK

(* What a step may be, apart from the changes at GitLab. *)
LEMMA StepCases ==
  ASSUME [Next]_vars
  PROVE  \/ \E n \in Notes : EditNote(n) \/ NoteThrows(n) \/ NoteFinish(n)
         \/ \E d \in Threads : ResolveDiscussion(d)
         \/ MapParent \/ IssuesCursor \/ Crash \/ Backfill \/ UNCHANGED vars
         \/ \E e \in queued : \/ Lose(e) \/ Defer(e) \/ Drop(e) \/ Reviewing(e)
                               \/ NoteCreate(e) \/ NoteUpdate(e) \/ NoteStale(e)
  BY DEF Next, Work, Handle, Reviewing

LEMMA TypeStep ==
  ASSUME NotesInv, [Next]_vars
  PROVE  TypeOK'
<1>1. CASE UNCHANGED vars BY <1>1, TypeStutter DEF NotesInv
<1> QED
  BY <1>1, StepCases, TypeEditNote, TypeResolveDiscussion, TypeOthers, TypeCrash, TypeBackfill,
     TypeNoteFinish, TypeNoteThrows, TypeDefer, TypeNote, TypeReview

-----------------------------------------------------------------------------
(* Versions and events *)

LEMMA InitNotesInv == Init => NotesInv
<1> SUFFICES ASSUME Init PROVE NotesInv OBVIOUS
<1>1. TypeOK BY InitTypeOK
<1>2. GitlabWritten /\ EventsWellFormed
  BY DEF Init, GitlabWritten, EventsWellFormed
<1>3. \A n \in Notes : work[n] = None /\ msg[n] = Unmirrored
  BY DEF Init
<1>4. WorkAgrees
  BY <1>3 DEF WorkAgrees
<1>5. RevWritten
  BY DEF Init, RevWritten
<1>6. CopiesCharged
  <2> SUFFICES ASSUME NEW n \in Notes
               PROVE  /\ copies["note"][n] <= torn["note"][n] + NoteCharge(n)
                      /\ copies["review"][n] <= torn["review"][n] + RevCharge(n)
    BY DEF CopiesCharged
  <2>1. /\ copies["note"][n] = 0 /\ copies["review"][n] = 0
        /\ torn["note"][n] = 0 /\ torn["review"][n] = 0
    BY DEF Init, Kinds
  <2>2. NoteCharge(n) \in Nat /\ RevCharge(n) \in Nat BY DEF NoteCharge, RevCharge
  <2> QED BY <2>1, <2>2
<1>7. CursorCovers
  BY <1>3 DEF CursorCovers, Past, Unmirrored
<1> QED BY <1>1, <1>2, <1>4, <1>5, <1>6, <1>7 DEF NotesInv

LEMMA StepGitlabWritten ==
  ASSUME NotesInv, [Next]_vars
  PROVE  GitlabWritten'
<1>1. ASSUME NEW n \in Notes, EditNote(n) PROVE GitlabWritten'
  <2>2. clock' # 0 BY <1>1, ClockType DEF EditNote, NotesInv
  <2> QED BY <1>1, <2>2 DEF EditNote, GitlabWritten, Written, NotesInv, TypeOK
<1>2. ASSUME NEW d \in Threads, ResolveDiscussion(d) PROVE GitlabWritten'
  <2>1. clock' # 0 BY <1>2, ClockType DEF ResolveDiscussion, NotesInv
  <2>2. Root(d) \in Notes /\ gitlab[Root(d)].ts # 0
    BY <1>2, RootFacts DEF ResolveDiscussion
  <2>3. Written(gitlab[Root(d)])
    BY <2>2 DEF GitlabWritten, NotesInv, Unmirrored
  <2>4. gitlab' = [gitlab EXCEPT ![Root(d)].ts = clock']
    BY <1>2 DEF ResolveDiscussion
  <2> QED BY <2>1, <2>2, <2>3, <2>4 DEF GitlabWritten, Written, NotesInv, TypeOK, Version
<1>3. CASE UNCHANGED gitlab
  BY <1>3 DEF GitlabWritten, NotesInv
<1>4. ASSUME NEW e \in queued, Reviewing(e) PROVE UNCHANGED gitlab
  BY <1>4, ReviewingFacts
<1> QED
  BY <1>1, <1>2, <1>3, <1>4, StepCases
  DEF vars, outside, MapParent, IssuesCursor, Lose, Crash, Backfill, NoteFinish, NoteThrows,
      Defer, Drop, NoteCreate, NoteUpdate, NoteStale

LEMMA StepEventsWellFormed ==
  ASSUME NotesInv, [Next]_vars
  PROVE  EventsWellFormed'
<1> SUFFICES \A e \in queued' : WellFormed(e)
  BY DEF EventsWellFormed, WellFormed, Written, NoteOf
<1>0. \A e \in queued : e \in Event /\ WellFormed(e)
  BY DEF NotesInv, TypeOK, EventsWellFormed
<1>1. ASSUME NEW n \in Notes, EditNote(n) PROVE \A e \in queued' : WellFormed(e)
  <2>2. clock' \in Time /\ clock' # 0 BY <1>1, ClockType DEF EditNote, NotesInv
  <2>3. gitlab'[n] = [body |-> clock', ts |-> clock']
    BY <1>1 DEF EditNote, NotesInv, TypeOK
  <2>4. WellFormed(NoteEvent(n, gitlab'[n], "hook"))
    BY <2>2, <2>3, NoteEventFacts DEF Written, Version
  <2> QED BY <1>0, <1>1, <2>4 DEF EditNote
<1>2. CASE \E e \in queued : Defer(e)
  BY <1>0, <1>2, RetriedFacts DEF Defer, Enqueue
<1>3. CASE Backfill
  <2>1. /\ Present \subseteq Notes
        /\ \A s : NotesListed(s) \subseteq Present
        /\ \A s : DiscussionsListed(s) \subseteq Threads
    BY DEF NotesListed, DiscussionsListed, Present
  <2>2. \A n \in Present : WellFormed(NoteEvent(n, gitlab[n], "sweep"))
    BY <2>1, NoteEventFacts DEF NotesInv, TypeOK, GitlabWritten, Present, Unmirrored
  <2>3. \A d \in Threads : WellFormed(ThreadEvent(d))
    BY ThreadEventFacts DEF NotesInv, TypeOK
  <2>4. \A e \in queued' : \/ e \in queued
                           \/ \E n \in Present : e = NoteEvent(n, gitlab[n], "sweep")
                           \/ \E d \in Threads : e = ThreadEvent(d)
    BY <1>3, <2>1 DEF Backfill
  <2> QED BY <1>0, <2>2, <2>3, <2>4
<1>4. CASE queued' \subseteq queued
  BY <1>0, <1>4
<1>5. ASSUME NEW e \in queued, Reviewing(e) PROVE queued' \subseteq queued
  BY <1>5, ReviewingFacts
<1> QED
  BY <1>1, <1>2, <1>3, <1>4, <1>5, StepCases
  DEF vars, MapParent, IssuesCursor, Lose, Crash, NoteFinish, NoteThrows, Drop, NoteCreate,
      NoteUpdate, NoteStale, ResolveDiscussion

LEMMA StepRevWritten ==
  ASSUME NotesInv, [Next]_vars
  PROVE  RevWritten'
<1>1. ASSUME NEW e \in queued, Reviewing(e) PROVE RevWritten'
  BY <1>1, ReviewingFacts
<1>2. CASE UNCHANGED rev
  BY <1>2 DEF RevWritten, NotesInv
<1> QED
  BY <1>1, <1>2, StepCases
  DEF vars, hulyside, MapParent, IssuesCursor, Lose, Crash, NoteFinish, NoteThrows, Drop, Defer,
      NoteCreate, NoteUpdate, NoteStale, ResolveDiscussion, EditNote, Backfill

-----------------------------------------------------------------------------
(* Work in progress *)

LEMMA StepWorkAgrees ==
  ASSUME NotesInv, [Next]_vars
  PROVE  WorkAgrees'
<1> SUFFICES ASSUME NEW n \in Notes, work'[n] # None
             PROVE  /\ work'[n].ev.kind = "note" /\ WellFormed(work'[n].ev)
                    /\ NoteOf(work'[n].ev) = n
                    /\ work'[n].new => msg'[n] = Unmirrored
                    /\ ~work'[n].new => msg'[n] = work'[n].ev.notes[n]
  BY DEF WorkAgrees, WellFormed, Written, NoteOf, Unmirrored
<1>0. \A e \in queued : e \in Event /\ WellFormed(e)
  BY DEF NotesInv, TypeOK, EventsWellFormed
<1>1. CASE work'[n] = work[n] /\ msg'[n] = msg[n]
  BY <1>1 DEF NotesInv, WorkAgrees
<1>2. ASSUME NEW e \in queued, NoteCreate(e)
      PROVE  \/ work'[n] = work[n] /\ msg'[n] = msg[n]
             \/ /\ work'[n] = [ev |-> e, new |-> TRUE] /\ NoteOf(e) = n
                /\ msg'[n] = Unmirrored /\ e.kind = "note"
  BY <1>2 DEF NoteCreate, Applicable, NotesInv, TypeOK
<1>3. ASSUME NEW e \in queued, NoteUpdate(e)
      PROVE  \/ work'[n] = work[n] /\ msg'[n] = msg[n]
             \/ /\ work'[n] = [ev |-> e, new |-> FALSE] /\ NoteOf(e) = n
                /\ msg'[n] = e.notes[n] /\ e.kind = "note"
  BY <1>3 DEF NoteUpdate, Applicable, NotesInv, TypeOK
<1>4. ASSUME NEW m \in Notes, NoteFinish(m)
      PROVE  work'[n] = work[n] /\ msg'[n] = msg[n]
  BY <1>4 DEF NoteFinish, AfterCreation, NotesInv, TypeOK
<1>5. CASE Crash
  BY <1>5 DEF Crash
<1>6. CASE UNCHANGED <<work, msg>>
  BY <1>1, <1>6
<1>7. CASE \E e \in queued : NoteCreate(e)
  <2>1. PICK e \in queued : NoteCreate(e) BY <1>7
  <2>2. CASE /\ work'[n] = [ev |-> e, new |-> TRUE] /\ NoteOf(e) = n
             /\ msg'[n] = Unmirrored /\ e.kind = "note"
    BY <1>0, <2>2
  <2> QED BY <1>1, <1>2, <2>1, <2>2
<1>8. CASE \E e \in queued : NoteUpdate(e)
  <2>1. PICK e \in queued : NoteUpdate(e) BY <1>8
  <2>2. CASE /\ work'[n] = [ev |-> e, new |-> FALSE] /\ NoteOf(e) = n
             /\ msg'[n] = e.notes[n] /\ e.kind = "note"
    BY <1>0, <2>2
  <2> QED BY <1>1, <1>3, <2>1, <2>2
<1>9. CASE \E m \in Notes : NoteFinish(m)
  BY <1>1, <1>4, <1>9
<1>10. ASSUME NEW m \in Notes, NoteThrows(m)
       PROVE  work'[n] = work[n] /\ msg'[n] = msg[n]
  BY <1>10 DEF NoteThrows, NotesInv, TypeOK
<1>11. CASE \E m \in Notes : NoteThrows(m)
  BY <1>1, <1>10, <1>11
<1>12. CASE \E e \in queued : Reviewing(e)
  BY <1>6, <1>12, ReviewingFacts
<1> QED
  BY <1>5, <1>6, <1>7, <1>8, <1>9, <1>11, <1>12, StepCases
  DEF vars, hulyside, MapParent, IssuesCursor, Lose, Drop, Defer, NoteStale,
      ResolveDiscussion, EditNote, Backfill

-----------------------------------------------------------------------------
(* One message for each mapping *)

LEMMA ChargeIsBit ==
  \A n \in Notes : NoteCharge(n) \in {0, 1} /\ RevCharge(n) \in {0, 1}
  BY DEF NoteCharge, RevCharge

LEMMA ChargeIsBitNext ==
  \A n \in Notes : NoteCharge(n)' \in {0, 1} /\ RevCharge(n)' \in {0, 1}
  BY DEF NoteCharge, RevCharge

NoteCharged(n) == copies["note"][n] <= torn["note"][n] + NoteCharge(n)

(* A creation is charged to the mapping to come. *)
LEMMA ChargedByCreate ==
  ASSUME NotesInv, NEW n \in Notes, NEW e \in queued, NoteCreate(e)
  PROVE  NoteCharged(n)'
<1>0. /\ copies["note"][n] \in Nat /\ torn["note"][n] \in Nat /\ torn' = torn
      /\ NoteCharged(n)
  BY DEF NotesInv, TypeOK, Kinds, CopiesCharged, NoteCharged, NoteCreate
<1>1. e \in Event /\ WellFormed(e) /\ e.kind = "note"
  BY DEF NotesInv, TypeOK, EventsWellFormed, NoteCreate, Applicable
<1>2. CASE NoteOf(e) = n
  <2>1. NoteCharge(n) = 0
    BY <1>1, <1>2 DEF NoteCreate, Applicable, Ready, NoteCharge, Creating
  <2>2. work'[n] = [ev |-> e, new |-> TRUE] BY <1>2 DEF NoteCreate, NotesInv, TypeOK
  <2>3. work'[n] \in Job BY <2>2, <1>1 DEF Job
  <2>4. work'[n] # None BY <2>3, NoneAssumption
  <2>5. work'[n].new BY <2>2
  <2>6. Creating(n)' BY <2>4, <2>5 DEF Creating
  <2>7. NoteCharge(n)' = 1 BY <2>6 DEF NoteCharge
  <2>8. copies'["note"][n] = copies["note"][n] + 1
    BY <1>2 DEF NoteCreate, NotesInv, TypeOK, Kinds
  <2> QED BY <1>0, <2>1, <2>7, <2>8 DEF NoteCharged
<1>3. CASE NoteOf(e) # n
  <2>1. copies'["note"][n] = copies["note"][n]
    BY <1>3 DEF NoteCreate, NotesInv, TypeOK, Kinds
  <2>2. NoteCharge(n)' = NoteCharge(n)
    BY <1>3 DEF NoteCreate, NotesInv, TypeOK, NoteCharge, Creating
  <2> QED BY <1>0, <2>1, <2>2 DEF NoteCharged
<1> QED BY <1>2, <1>3

(* A mapping written, and an update of a mapped message, keep the charge. *)
LEMMA ChargeKept ==
  ASSUME NotesInv, NEW n \in Notes,
         (\E e \in queued : NoteUpdate(e)) \/ (\E m \in Notes : NoteFinish(m))
  PROVE  UNCHANGED <<copies, torn>> /\ NoteCharge(n)' >= NoteCharge(n)
<1>1. ASSUME NEW e \in queued, NoteUpdate(e)
      PROVE  UNCHANGED <<copies, torn>> /\ NoteCharge(n)' >= NoteCharge(n)
  <2>1. e \in Event /\ WellFormed(e) /\ e.kind = "note"
    BY <1>1 DEF NotesInv, TypeOK, EventsWellFormed, NoteUpdate, Applicable
  <2>2. CASE NoteOf(e) = n
    <3>1. msg'[n] = e.notes[n] BY <1>1, <2>2 DEF NoteUpdate, NotesInv, TypeOK
    <3>2. Written(msg'[n]) BY <2>1, <2>2, <3>1, NoteOfFacts
    <3>3. NoteCharge(n)' = 1 BY <3>2 DEF NoteCharge, Written, Unmirrored
    <3> QED BY <1>1, <3>3, ChargeIsBit DEF NoteUpdate
  <2>3. CASE NoteOf(e) # n
    <3>1. NoteCharge(n)' = NoteCharge(n)
      BY <1>1, <2>3 DEF NoteUpdate, NotesInv, TypeOK, NoteCharge, Creating
    <3> QED BY <1>1, <3>1, ChargeIsBit DEF NoteUpdate
  <2> QED BY <2>2, <2>3
<1>2. ASSUME NEW m \in Notes, NoteFinish(m)
      PROVE  UNCHANGED <<copies, torn>> /\ NoteCharge(n)' >= NoteCharge(n)
  <2>1. work[m] # None BY <1>2 DEF NoteFinish
  <2>2. CASE m = n /\ work[m].new
    <3>1. msg'[n] = work[n].ev.notes[n]
      BY <1>2, <2>2 DEF NoteFinish, AfterCreation, NotesInv, TypeOK
    <3>2. Written(msg'[n]) BY <2>1, <2>2, <3>1, WorkFacts
    <3>3. NoteCharge(n)' = 1 BY <3>2 DEF NoteCharge, Written, Unmirrored
    <3> QED BY <1>2, <3>3, ChargeIsBit DEF NoteFinish
  <2>3. CASE m # n \/ ~work[m].new
    <3>1. msg'[n] = msg[n] /\ (Creating(n) => Creating(n)')
      BY <1>2, <2>3 DEF NoteFinish, AfterCreation, NotesInv, TypeOK, Creating
    <3> QED BY <1>2, <3>1 DEF NoteFinish, NoteCharge, Unmirrored
  <2> QED BY <2>2, <2>3
<1> QED BY <1>1, <1>2

(* An exception or a crash between the creation and the mapping is counted. *)
LEMMA ChargedTorn ==
  ASSUME NotesInv, NEW n \in Notes, Crash \/ (\E m \in Notes : NoteThrows(m))
  PROVE  NoteCharged(n)' /\ copies' = copies /\ torn'["review"] = torn["review"]
         /\ UNCHANGED rev
<1>0. /\ copies["note"][n] \in Nat /\ torn["note"][n] \in Nat
      /\ NoteCharged(n)
      /\ NoteCharge(n) \in {0, 1} /\ NoteCharge(n)' \in {0, 1}
  BY ChargeIsBit, ChargeIsBitNext DEF NotesInv, TypeOK, Kinds, CopiesCharged, NoteCharged
<1>1. /\ copies' = copies /\ torn'["review"] = torn["review"] /\ UNCHANGED <<rev, msg>>
  BY DEF Crash, NoteThrows, NotesInv, TypeOK, Kinds
<1>2. CASE Crash
  <2>1. torn'["note"][n] = torn["note"][n] + IF Creating(n) THEN 1 ELSE 0
    BY <1>2 DEF Crash, NotesInv, TypeOK, Kinds, Creating
  <2>2. NoteCharge(n) <= NoteCharge(n)' \/ Creating(n)
    BY <1>0, <1>1 DEF NoteCharge, Unmirrored
  <2> QED BY <1>0, <1>1, <2>1, <2>2 DEF NoteCharged
<1>3. ASSUME NEW m \in Notes, NoteThrows(m) PROVE NoteCharged(n)'
  <2>1. CASE m = n
    <3>1. torn'["note"][n] = torn["note"][n] + IF Creating(n) THEN 1 ELSE 0
      BY <1>3, <2>1 DEF NoteThrows, NotesInv, TypeOK, Kinds, Creating
    <3>2. NoteCharge(n) <= NoteCharge(n)' \/ Creating(n)
      BY <1>0, <1>1 DEF NoteCharge, Unmirrored
    <3> QED BY <1>0, <1>1, <3>1, <3>2 DEF NoteCharged
  <2>2. CASE m # n
    <3>1. torn'["note"][n] = torn["note"][n]
      BY <1>3, <2>2 DEF NoteThrows, NotesInv, TypeOK, Kinds
    <3>2. work'[n] = work[n]
      BY <1>3, <2>2 DEF NoteThrows, NotesInv, TypeOK
    <3>3. NoteCharge(n)' = NoteCharge(n)
      BY <1>1, <3>2 DEF NoteCharge, Creating
    <3> QED BY <1>0, <1>1, <3>1, <3>3 DEF NoteCharged
  <2> QED BY <2>1, <2>2
<1> QED BY <1>1, <1>2, <1>3

LEMMA StepCopiesCharged ==
  ASSUME NotesInv, [Next]_vars
  PROVE  CopiesCharged'
<1> SUFFICES ASSUME NEW n \in Notes
             PROVE  /\ NoteCharged(n)'
                    /\ copies'["review"][n] <= torn'["review"][n] + RevCharge(n)'
  BY DEF CopiesCharged, NoteCharged
<1>0. /\ copies["note"][n] \in Nat /\ copies["review"][n] \in Nat
      /\ torn["note"][n] \in Nat /\ torn["review"][n] \in Nat
      /\ NoteCharged(n)
      /\ copies["review"][n] <= torn["review"][n] + RevCharge(n)
      /\ NoteCharge(n) \in {0, 1} /\ RevCharge(n) \in {0, 1}
  BY ChargeIsBit DEF NotesInv, TypeOK, Kinds, CopiesCharged, NoteCharged
<1>1. NoteCharge(n)' \in {0, 1} /\ RevCharge(n)' \in {0, 1}
  BY ChargeIsBitNext
<1>2. CASE UNCHANGED <<copies, torn, msg, work, rev>>
  <2>1. NoteCharge(n)' = NoteCharge(n) /\ RevCharge(n)' = RevCharge(n)
    BY <1>2 DEF NoteCharge, RevCharge, Creating
  <2> QED BY <1>0, <1>2, <2>1 DEF NoteCharged
<1>3. ASSUME copies'["review"] = copies["review"], torn'["review"] = torn["review"],
             UNCHANGED rev
      PROVE  copies'["review"][n] <= torn'["review"][n] + RevCharge(n)'
  BY <1>0, <1>3 DEF RevCharge
<1>4. CASE \E e \in queued : NoteCreate(e)
  <2>1. PICK e \in queued : NoteCreate(e) BY <1>4
  <2>2. copies'["review"] = copies["review"] /\ UNCHANGED <<rev, torn>>
    BY <2>1 DEF NoteCreate, NotesInv, TypeOK, Kinds
  <2> QED BY <1>3, <2>1, <2>2, ChargedByCreate
<1>5. CASE (\E e \in queued : NoteUpdate(e)) \/ (\E m \in Notes : NoteFinish(m))
  <2>1. UNCHANGED rev BY <1>5 DEF NoteUpdate, NoteFinish
  <2>2. UNCHANGED <<copies, torn>> /\ NoteCharge(n)' >= NoteCharge(n)
    BY <1>5, ChargeKept
  <2>3. NoteCharged(n)' BY <1>0, <1>1, <2>2 DEF NoteCharged
  <2> QED BY <1>3, <2>1, <2>2, <2>3
<1>6. CASE Crash \/ (\E m \in Notes : NoteThrows(m))
  BY <1>3, <1>6, ChargedTorn
<1>7. CASE \E e \in queued : Reviewing(e)
  <2>1. /\ UNCHANGED <<work, msg>>
        /\ copies'["note"] = copies["note"] /\ torn'["note"] = torn["note"]
        /\ copies'["review"][n] <= torn'["review"][n] + RevCharge(n)'
    BY <1>7, ReviewingFacts
  <2>2. NoteCharge(n)' = NoteCharge(n) BY <2>1 DEF NoteCharge, Creating
  <2> QED BY <1>0, <2>1, <2>2 DEF NoteCharged
<1> QED
  BY <1>2, <1>4, <1>5, <1>6, <1>7, StepCases
  DEF vars, hulyside, MapParent, IssuesCursor, Lose, Drop, Defer, NoteStale,
      ResolveDiscussion, EditNote, Backfill

-----------------------------------------------------------------------------
(* The shared cursor *)

LEMMA StepCursorCovers ==
  ASSUME NotesInv, [Next]_vars
  PROVE  CursorCovers'
<1> SUFFICES ASSUME ~rewound', NEW n \in Notes, ~Updating(n)'
             PROVE  Past(cursor', msg'[n].ts)
  BY DEF CursorCovers, Past
<1>0. /\ msg[n] \in Version /\ msg[n].ts \in Nat
      /\ cursor \in Nat \cup {None} /\ cursor' \in Nat \cup {None}
  BY TypeStep, TimeIsNat DEF NotesInv, TypeOK, Version
<1>1. ~rewound /\ ~Updating(n) => Past(cursor, msg[n].ts)
  BY DEF NotesInv, CursorCovers
<1>2. CASE UNCHANGED <<cursor, rewound, msg, work>>
  BY <1>1, <1>2 DEF Updating
<1>3. CASE \E e \in queued : NoteCreate(e)
  <2>1. PICK e \in queued : NoteCreate(e) BY <1>3
  <2>2. UNCHANGED <<cursor, rewound, msg>> BY <2>1 DEF NoteCreate
  <2>3. ~Updating(n)
    <3>1. CASE NoteOf(e) = n
      BY <2>1, <3>1 DEF NoteCreate, Applicable, Ready, Updating
    <3>2. CASE NoteOf(e) # n
      BY <2>1, <3>2 DEF NoteCreate, Updating, NotesInv, TypeOK
    <3> QED BY <3>1, <3>2
  <2> QED BY <1>1, <2>2, <2>3
<1>4. CASE \E e \in queued : NoteUpdate(e)
  <2>1. PICK e \in queued : NoteUpdate(e) BY <1>4
  <2>2. e \in Event BY DEF NotesInv, TypeOK
  <2>3. NoteOf(e) # n
    <3> SUFFICES ASSUME NoteOf(e) = n PROVE FALSE OBVIOUS
    <3>1. work'[n] = [ev |-> e, new |-> FALSE] BY <2>1 DEF NoteUpdate, NotesInv, TypeOK
    <3>2. work'[n] \in Job BY <3>1, <2>2 DEF Job
    <3>3. work'[n] # None BY <3>2, NoneAssumption
    <3>4. ~work'[n].new BY <3>1
    <3> QED BY <3>3, <3>4 DEF Updating
  <2>4. UNCHANGED <<cursor, rewound, msg[n], work[n]>>
    BY <2>1, <2>3 DEF NoteUpdate, NotesInv, TypeOK
  <2> QED BY <1>1, <2>4 DEF Updating
<1>5. CASE \E m \in Notes : NoteFinish(m)
  <2>1. PICK m \in Notes : NoteFinish(m) BY <1>5
  <2>2. work[m] # None BY <2>1 DEF NoteFinish
  <2>3. /\ cursor' = work[m].ev.ts /\ work[m].ev.ts \in Nat
        /\ ~rewound /\ (cursor # None => cursor <= cursor')
    <3>1. cursor' = work[m].ev.ts /\ work[m].ev.ts \in Nat
      BY <2>1, <2>2, WorkFacts, TimeIsNat DEF NoteFinish, SetCursor
    <3>2. rewound' = (rewound \/ (cursor # None /\ work[m].ev.ts < cursor))
      BY <2>1 DEF NoteFinish, SetCursor
    <3>3. ~rewound /\ ~(cursor # None /\ work[m].ev.ts < cursor)
      BY <3>2
    <3> QED BY <1>0, <3>1, <3>3
  <2>4. CASE m = n
    <3>1. msg'[n] = work[n].ev.notes[n]
      <4>1. CASE work[n].new
        BY <2>1, <2>4, <4>1 DEF NoteFinish, AfterCreation, NotesInv, TypeOK
      <4>2. CASE ~work[n].new
        BY <2>1, <2>2, <2>4, <4>2 DEF NoteFinish, NotesInv, WorkAgrees
      <4> QED BY <4>1, <4>2
    <3>2. msg'[n].ts = cursor' BY <2>2, <2>3, <2>4, <3>1, WorkFacts
    <3>3. cursor' # None BY <2>3, NotesAssumption
    <3> QED BY <2>3, <3>2, <3>3 DEF Past
  <2>5. CASE m # n
    <3>1. msg'[n] = msg[n] /\ work'[n] = work[n]
      BY <2>1, <2>5 DEF NoteFinish, AfterCreation, NotesInv, TypeOK
    <3>2. Past(cursor, msg[n].ts) BY <1>1, <2>3, <3>1 DEF Updating
    <3>3. cursor' # None BY <2>3, NotesAssumption
    <3> QED BY <1>0, <2>3, <3>1, <3>2, <3>3 DEF Past
  <2> QED BY <2>4, <2>5
<1>6. CASE Crash
  <2>1. UNCHANGED <<cursor, msg>> /\ ~rewound /\ ~Updating(n)
    BY <1>6 DEF Crash, Updating
  <2> QED BY <1>1, <2>1
<1>7. CASE \E m \in Notes : NoteThrows(m)
  <2>1. PICK m \in Notes : NoteThrows(m) BY <1>7
  <2>2. UNCHANGED <<cursor, msg>> /\ ~rewound /\ work[m].new
    BY <2>1 DEF NoteThrows
  <2>3. ~Updating(n)
    <3>1. CASE m = n BY <2>2, <3>1 DEF Updating
    <3>2. CASE m # n
      BY <2>1, <3>2 DEF NoteThrows, Updating, NotesInv, TypeOK
    <3> QED BY <3>1, <3>2
  <2> QED BY <1>1, <2>2, <2>3
<1>8. CASE \E e \in queued : Reviewing(e)
  BY <1>2, <1>8, ReviewingFacts
<1> QED
  BY <1>2, <1>3, <1>4, <1>5, <1>6, <1>7, <1>8, StepCases
  DEF vars, hulyside, MapParent, IssuesCursor, Lose, Drop, Defer, NoteStale,
      ResolveDiscussion, EditNote, Backfill

-----------------------------------------------------------------------------
(* Theorems *)

(* The inductive invariant holds of every behaviour of notes.ts and
   mr-review.ts, whatever the notes, their order and the crashes.          *)
THEOREM NotesInvariance == Spec => []NotesInv
<1>1. NotesInv /\ [Next]_vars => NotesInv'
  BY TypeStep, StepGitlabWritten, StepEventsWellFormed, StepWorkAgrees, StepRevWritten,
     StepCopiesCharged, StepCursorCovers DEF NotesInv
<1> QED BY InitNotesInv, <1>1, PTL DEF Spec

(* Every variable keeps its type: in particular the cursor is a time that
   GitLab gave, and each event carries notes of this merge request.        *)
THEOREM TypesHold == Spec => []TypeOK
<1>1. NotesInv => TypeOK BY DEF NotesInv
<1> QED BY NotesInvariance, <1>1, PTL

(* notes.ts and mr-review.ts create one message of each kind for a note,
   plain or on a line, however often and in whichever order webhooks, sweeps
   and deferred events bring it, and one more of that kind for each time that
   a crash or an exception came before upsertIdMap.                        *)
THEOREM MirroredOnceHolds == Spec => []MirroredOnce
<1>1. NotesInv => MirroredOnce
  <2> SUFFICES ASSUME NotesInv, NEW k \in Kinds, NEW n \in Notes
               PROVE  copies[k][n] <= 1 + torn[k][n]
    BY DEF MirroredOnce
  <2>1. /\ copies["note"][n] \in Nat /\ copies["review"][n] \in Nat
        /\ torn["note"][n] \in Nat /\ torn["review"][n] \in Nat
        /\ copies["note"][n] <= torn["note"][n] + NoteCharge(n)
        /\ copies["review"][n] <= torn["review"][n] + RevCharge(n)
        /\ NoteCharge(n) \in {0, 1} /\ RevCharge(n) \in {0, 1}
    BY ChargeIsBit DEF NotesInv, TypeOK, Kinds, CopiesCharged
  <2> QED BY <2>1 DEF Kinds
<1> QED BY NotesInvariance, <1>1, PTL

(* notes.ts:587: a message goes back to an older version only after the
   binding's one cursor has gone back, or was kept back by a crash or an
   exception, although the cursor is moved by other notes too.             *)
THEOREM NoSpontaneousReversalHolds == Spec => NoSpontaneousReversal
<1>1. NotesInv /\ [Next]_vars => [\A n \in Notes : msg'[n].ts < msg[n].ts => rewound]_vars
  <2> SUFFICES ASSUME NotesInv, Next, NEW n \in Notes, msg'[n].ts < msg[n].ts, ~rewound
               PROVE  FALSE
    OBVIOUS
  <2>0. msg[n].ts \in Nat /\ cursor \in Nat \cup {None}
    BY TimeIsNat DEF NotesInv, TypeOK, Version
  <2>1. CASE UNCHANGED msg
    BY <2>0, <2>1
  <2>2. CASE \E e \in queued : NoteUpdate(e)
    <3>1. PICK e \in queued : NoteUpdate(e) BY <2>2
    <3>2. e \in Event /\ WellFormed(e) /\ e.kind = "note"
      BY <3>1 DEF NotesInv, TypeOK, EventsWellFormed, NoteUpdate, Applicable
    <3>3. NoteOf(e) = n BY <2>0, <3>1 DEF NoteUpdate, NotesInv, TypeOK
    <3>4. msg'[n].ts = e.ts /\ e.ts \in Nat
      BY <3>1, <3>2, <3>3, NoteOfFacts, TimeIsNat DEF NoteUpdate, NotesInv, TypeOK
    <3>5. work[n] = None BY <3>1, <3>2, <3>3 DEF NoteUpdate, Applicable, Ready
    <3>6. Past(cursor, msg[n].ts) BY <3>5 DEF NotesInv, CursorCovers, Updating
    <3>7. Newer(e.ts) BY <3>1 DEF NoteUpdate
    <3> QED BY <2>0, <3>4, <3>6, <3>7 DEF Past, Newer
  <2>3. CASE \E m \in Notes : NoteFinish(m)
    <3>1. PICK m \in Notes : NoteFinish(m) BY <2>3
    <3>2. work[m] # None BY <3>1 DEF NoteFinish
    <3>3. m = n /\ work[n].new
      BY <2>0, <3>1 DEF NoteFinish, AfterCreation, NotesInv, TypeOK
    <3>4. msg[n].ts = 0 BY <3>2, <3>3 DEF NotesInv, WorkAgrees, Unmirrored
    <3>5. msg'[n] = work[n].ev.notes[n]
      BY <3>1, <3>3 DEF NoteFinish, AfterCreation, NotesInv, TypeOK
    <3>6. msg'[n].ts \in Nat BY <3>2, <3>3, <3>5, WorkFacts, TimeIsNat DEF Version
    <3> QED BY <3>4, <3>6
  <2>4. CASE \E e \in queued : Reviewing(e)
    BY <2>1, <2>4, ReviewingFacts
  <2> QED
    BY <2>1, <2>2, <2>3, <2>4, StepCases
    DEF vars, hulyside, MapParent, IssuesCursor, Lose, Crash, NoteThrows, Drop, Defer,
        NoteStale, NoteCreate, ResolveDiscussion, EditNote, Backfill
<1> QED BY NotesInvariance, <1>1, PTL DEF Spec, NoSpontaneousReversal

=============================================================================
