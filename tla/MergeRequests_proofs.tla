------------------------ MODULE MergeRequests_proofs ------------------------
(***************************************************************************)
(* What a merge request and an epic may cost GitLab and Huly, for any      *)
(* number of changes and troubles, whoever the service account is.         *)
(***************************************************************************)
EXTENDS MergeRequests, TLAPS

(* A queued event has a version. *)
EventsDated == \A k \in Kinds : 0 \notin queued[k]

(* Every local event on its way stands for a change that a person made, or for
   an update without marker that was not recognised.                        *)
Owed == edits + (IF Resolved THEN 0 ELSE unmarked)
EchoBudget == overwrites + line["mr"] + line["epic"] <= Owed

(* A mirror is mapped, or nascent while applyRemote is about to map it, or a
   spare.                                                                   *)
CopyBudget ==
  \A k \in Kinds : copies[k] <= spares[k] + (IF k \in mapped \/ Nascent(k) THEN 1 ELSE 0)

IInv == TypeOK /\ EventsDated /\ EchoBudget /\ CopyBudget

-----------------------------------------------------------------------------
(* Types. *)

LEMMA Constants ==
  /\ MaxEdits \in Nat /\ MaxTroubles \in Nat /\ Resolved \in BOOLEAN
  /\ None \notin Nat /\ None \notin Version /\ None \notin Step
  /\ Kinds = {"mr", "epic"} /\ Kinds \subseteq Items
BY MergeRequestsAssumption, NoneAssumption DEF Kinds, Items

LEMMA Numbers ==
  ASSUME TypeOK
  PROVE  /\ edits \in Nat /\ unmarked \in Nat /\ overwrites \in Nat
         /\ clock \in Nat /\ clock <= MaxEdits /\ troubles \in Nat
         /\ line["mr"] \in Nat /\ line["epic"] \in Nat /\ Owed \in Nat
         /\ \A k \in Kinds : line[k] \in Nat /\ copies[k] \in Nat /\ spares[k] \in Nat
<1>1. /\ edits \in Nat /\ unmarked \in Nat /\ overwrites \in Nat
      /\ clock \in Nat /\ clock <= MaxEdits /\ troubles \in Nat
  BY Constants DEF TypeOK, Time
<1>2. "mr" \in Kinds /\ "epic" \in Kinds
  BY Constants
<1>3. \A k \in Kinds : line[k] \in Nat /\ copies[k] \in Nat /\ spares[k] \in Nat
  BY DEF TypeOK
<1> QED
  BY <1>1, <1>2, <1>3, Constants DEF Owed

LEMMA VersionType ==
  ASSUME NEW t \in Time
  PROVE  /\ [val |-> t, ts |-> t] \in Version /\ (t # 0 => [val |-> t, ts |-> t] # Absent)
         /\ Absent \in Version
<1>1. 0 \in Time
  BY Constants DEF Time
<1> QED
  BY <1>1 DEF Version, Absent

LEMMA StepType ==
  ASSUME NEW at \in {"map", "write", "link"}, NEW ts \in Time, NEW seen \in Version
  PROVE  /\ [at |-> at, ts |-> ts, seen |-> seen] \in Step
         /\ [at |-> at, ts |-> ts, seen |-> seen].at = at
BY DEF Step

LEMMA GotoStep ==
  ASSUME TypeOK, NEW k \in Kinds, NEW at \in {"map", "write", "link"}, NEW ts \in Time,
         NEW seen \in Version, Goto(k, at, ts, seen)
  PROVE  /\ work' \in [Kinds -> Step \cup {None}]
         /\ work'[k] # None /\ work'[k].at = at
         /\ \A j \in Kinds \ {k} : work'[j] = work[j]
BY StepType, Constants DEF Goto, TypeOK

LEMMA EndStep ==
  ASSUME TypeOK, EventsDated, NEW k \in Kinds, NEW ts, End(k, ts)
  PROVE  /\ work' \in [Kinds -> Step \cup {None}] /\ queued' \in [Kinds -> SUBSET Time]
         /\ EventsDated'
         /\ work'[k] = None /\ \A j \in Kinds \ {k} : work'[j] = work[j]
BY DEF End, TypeOK, EventsDated

LEMMA OnTxStep ==
  ASSUME TypeOK, NEW k \in Kinds, NEW by, NEW marked \in BOOLEAN, OnTx(k, by, marked)
  PROVE  /\ line' \in [Kinds -> Nat]
         /\ Echo(by, marked) => line' = line
         /\ ~Echo(by, marked) =>
              line'["mr"] + line'["epic"] = line["mr"] + line["epic"] + 1
<1>1. CASE Echo(by, marked)
  BY <1>1 DEF OnTx, TypeOK
<1>2. CASE ~Echo(by, marked)
  <2>1. line' = [line EXCEPT ![k] = line[k] + 1] /\ line \in [Kinds -> Nat]
    BY <1>2 DEF OnTx, TypeOK
  <2>2. CASE k = "mr"
    BY <1>2, <2>1, <2>2, Constants
  <2>3. CASE k = "epic"
    BY <1>2, <2>1, <2>3, Constants
  <2> QED
    BY <2>2, <2>3, Constants
<1> QED
  BY <1>1, <1>2

LEMMA ExcuseType ==
  ASSUME TypeOK, NEW items, Excuse(items) \/ Anew(items)
  PROVE  excuse' \in [Items -> BOOLEAN]
<1>1. \A x \in Items : excuse[x] \in BOOLEAN
  BY DEF TypeOK
<1> QED
  BY <1>1 DEF Excuse, Anew

LEMMA TickStep ==
  ASSUME TypeOK, Tick
  PROVE  /\ clock' = clock + 1 /\ clock' \in Time /\ clock' # 0
         /\ since \in 0..clock'
BY Numbers, Constants DEF Tick, Time, TypeOK

LEMMA TroubleStep ==
  ASSUME TypeOK, Trouble
  PROVE  troubles' \in 0..MaxTroubles
BY Numbers, Constants DEF Trouble, TypeOK

(* No copy is made, and no nascent mirror is lost. *)
LEMMA CopiesKept ==
  ASSUME TypeOK, CopyBudget, UNCHANGED <<copies, spares>>, mapped \subseteq mapped',
         \A k \in Kinds : Nascent(k) => Nascent(k)' \/ k \in mapped'
  PROVE  CopyBudget'
<1> SUFFICES ASSUME NEW k \in Kinds
             PROVE  copies'[k] <= spares'[k] + (IF k \in mapped' \/ Nascent(k)' THEN 1 ELSE 0)
  BY DEF CopyBudget
<1>1. copies'[k] = copies[k] /\ spares'[k] = spares[k] /\ copies[k] \in Nat /\ spares[k] \in Nat
  BY Numbers
<1>2. copies[k] <= spares[k] + (IF k \in mapped \/ Nascent(k) THEN 1 ELSE 0)
  BY DEF CopyBudget
<1>3. k \in mapped \/ Nascent(k) => k \in mapped' \/ Nascent(k)'
  OBVIOUS
<1> QED
  BY <1>1, <1>2, <1>3

(* The same, when work and mirrors stay. *)
LEMMA CopiesStay ==
  ASSUME TypeOK, CopyBudget, UNCHANGED <<copies, spares, mapped, work, huly>>
  PROVE  CopyBudget'
BY CopiesKept DEF Nascent

LEMMA EchoStays ==
  ASSUME TypeOK, EchoBudget, UNCHANGED <<overwrites, line, edits, unmarked>>
  PROVE  EchoBudget'
BY DEF EchoBudget, Owed

-----------------------------------------------------------------------------
(* People. *)

LEMMA EditGitlabStep ==
  ASSUME IInv, NEW k \in Kinds, EditGitlab(k)
  PROVE  IInv'
<1> USE DEF EditGitlab, pipes, counts, links
<1>1. excuse' \in [Items -> BOOLEAN] /\ clock' \in Time /\ since' \in 0..clock'
  BY ExcuseType, TickStep DEF IInv
<1>2. TypeOK'
  BY <1>1 DEF IInv, TypeOK
<1> QED
  BY <1>2, CopiesStay, EchoStays DEF IInv, EventsDated

LEMMA AddChildStep ==
  ASSUME IInv, AddChild
  PROVE  IInv'
<1> USE DEF AddChild, pipes, counts, links
<1>1. excuse' \in [Items -> BOOLEAN] /\ clock' \in Time /\ since' \in 0..clock'
  BY ExcuseType, TickStep DEF IInv
<1>2. TypeOK'
  BY <1>1 DEF IInv, TypeOK
<1> QED
  BY <1>2, CopiesStay, EchoStays DEF IInv, EventsDated

LEMMA EditHulyStep ==
  ASSUME IInv, NEW k \in Kinds, EditHuly(k)
  PROVE  IInv'
<1> USE DEF EditHuly, links
<1> DEFINE v == [val |-> clock', ts |-> clock']
<1>1. excuse' \in [Items -> BOOLEAN] /\ clock' \in Time /\ clock' # 0 /\ since' \in 0..clock'
  BY TickStep DEF IInv, TypeOK
<1>2. v \in Version /\ v # Absent
  BY <1>1, VersionType
<1>3. huly' = [huly EXCEPT ![k] = v] /\ huly \in [Kinds -> Version \cup {None}] /\ Mirrored(k)
  BY DEF IInv, TypeOK
<1> HIDE DEF v
<1>4. huly' \in [Kinds -> Version \cup {None}]
  BY <1>2, <1>3
<1>5. ~Echo("user", FALSE)
  BY DEF Echo
<1>6. line' \in [Kinds -> Nat] /\ line'["mr"] + line'["epic"] = line["mr"] + line["epic"] + 1
  BY <1>5, OnTxStep DEF IInv
<1>7. edits \in Nat /\ edits' = edits + 1 /\ edits' \in Nat
  BY Numbers DEF IInv
<1>8. TypeOK'
  BY <1>1, <1>4, <1>6, <1>7 DEF IInv, TypeOK
<1>9. EchoBudget'
  <2>1. Owed' = Owed + 1
    BY <1>7, Numbers, Constants DEF IInv, Owed
  <2>2. line'["mr"] \in Nat /\ line'["epic"] \in Nat
    BY <1>6, Constants
  <2> QED
    BY <1>6, <2>1, <2>2, Numbers DEF IInv, EchoBudget
<1>10. CopyBudget'
  <2>1. ASSUME NEW j \in Kinds, Nascent(j) PROVE Nascent(j)'
    BY <1>2, <1>3, <2>1 DEF Nascent
  <2> QED
    BY <2>1, CopiesKept DEF IInv
<1> QED
  BY <1>8, <1>9, <1>10 DEF IInv, EventsDated

LEMMA RemoveHulyStep ==
  ASSUME IInv, NEW k \in Kinds, RemoveHuly(k)
  PROVE  IInv'
<1> USE DEF RemoveHuly, pipes, counts, links
<1>1. huly' \in [Kinds -> Version \cup {None}] /\ troubles' \in 0..MaxTroubles
  BY TroubleStep DEF IInv, TypeOK
<1>2. TypeOK'
  BY <1>1 DEF IInv, TypeOK
<1>3. CopyBudget'
  <2>1. None # Absent
    <3>1. 0 \in Time
      BY Constants DEF Time
    <3> QED
      BY <3>1, VersionType, Constants
  <2>2. ASSUME NEW j \in Kinds, Nascent(j) PROVE Nascent(j)'
    BY <2>1, <2>2 DEF Nascent, IInv, TypeOK
  <2> QED
    BY <2>2, CopiesKept DEF IInv
<1> QED
  BY <1>2, <1>3, EchoStays DEF IInv, EventsDated

LEMMA LocalOverwritesStep ==
  ASSUME IInv, NEW k \in Kinds, LocalOverwrites(k)
  PROVE  IInv'
<1> USE DEF LocalOverwrites, links
<1>1. line \in [Kinds -> Nat] /\ line[k] > 0 /\ line[k] \in Nat
  BY DEF IInv, TypeOK
<1>2. line' \in [Kinds -> Nat]
  BY <1>1
<1>3. line'["mr"] + line'["epic"] = line["mr"] + line["epic"] - 1
  <2>1. CASE k = "mr"
    BY <1>1, <2>1, Constants
  <2>2. CASE k = "epic"
    BY <1>1, <2>2, Constants
  <2> QED
    BY <2>1, <2>2, Constants
<1>4. TypeOK'
  BY <1>2, Numbers DEF IInv, TypeOK
<1>5. EchoBudget'
  <2>1. Owed' = Owed /\ overwrites' = overwrites + 1
    BY DEF Owed
  <2>2. line'["mr"] \in Nat /\ line'["epic"] \in Nat
    BY <1>2, Constants
  <2> QED
    BY <1>3, <2>1, <2>2, Numbers DEF IInv, EchoBudget
<1> QED
  BY <1>4, <1>5, CopiesStay DEF IInv, EventsDated

(* The mirror goes to the new GitLab issue: one more is due, and it is paid for. *)
LEMMA LocalTakesStep ==
  ASSUME IInv, NEW k \in Kinds, LocalTakes(k)
  PROVE  IInv'
<1> USE DEF LocalTakes, links
<1>1. line \in [Kinds -> Nat] /\ line' = [line EXCEPT ![k] = 0]
  BY DEF IInv, TypeOK
<1>2. line' \in [Kinds -> Nat]
  BY <1>1
<1>3. /\ huly' \in [Kinds -> Version \cup {None}] /\ excuse' \in [Items -> BOOLEAN]
      /\ spares' \in [Kinds -> Nat]
  <2>1. 0 \in Time
    BY Constants DEF Time
  <2>2. Absent \in Version
    BY <2>1, VersionType
  <2>3. excuse' \in [Items -> BOOLEAN]
    BY ExcuseType DEF IInv, TypeOK, Lost
  <2> QED
    BY <2>2, <2>3 DEF IInv, TypeOK
<1>4. TypeOK'
  BY <1>2, <1>3 DEF IInv, TypeOK
<1>5. EchoBudget'
  <2>1. line'["mr"] <= line["mr"] /\ line'["epic"] <= line["epic"]
    BY <1>1, Constants
  <2>2. line'["mr"] \in Nat /\ line'["epic"] \in Nat /\ Owed' = Owed
    BY <1>2, Constants DEF Owed
  <2> QED
    BY <2>1, <2>2, Numbers DEF IInv, EchoBudget
<1>6. CopyBudget'
  <2> SUFFICES ASSUME NEW j \in Kinds
               PROVE  copies'[j] <= spares'[j] + (IF j \in mapped' \/ Nascent(j)' THEN 1 ELSE 0)
    BY DEF CopyBudget
  <2>1. copies'[j] = copies[j] /\ copies[j] \in Nat /\ spares[j] \in Nat /\ mapped' = mapped
    BY Numbers DEF IInv
  <2>2. copies[j] <= spares[j] + (IF j \in mapped \/ Nascent(j) THEN 1 ELSE 0)
    BY DEF IInv, CopyBudget
  <2>3. CASE j = k
    <3>1. spares'[j] = spares[j] + 1
      BY <2>3 DEF IInv, TypeOK
    <3> QED
      BY <2>1, <2>2, <3>1
  <2>4. CASE j # k
    <3>1. spares'[j] = spares[j] /\ huly'[j] = huly[j] /\ work' = work
      BY <2>4 DEF IInv, TypeOK
    <3>2. Nascent(j)' <=> Nascent(j)
      BY <3>1 DEF Nascent
    <3> QED
      BY <2>1, <2>2, <3>1, <3>2
  <2> QED
    BY <2>3, <2>4
<1> QED
  BY <1>4, <1>5, <1>6 DEF IInv, EventsDated

-----------------------------------------------------------------------------
(* The sweep, and what becomes of its events. *)

LEMMA BackfillStep ==
  ASSUME IInv, NEW k \in Kinds, Backfill(k)
  PROVE  IInv'
<1> USE DEF Backfill, counts, links
<1>1. gitlab[k] # 0 /\ gitlab[k] \in Time
  BY Constants DEF IInv, TypeOK, MergeRequestListed, EpicListed
<1>2. queued' \in [Kinds -> SUBSET Time] /\ polled' \in [Kinds -> SUBSET Time]
  BY <1>1 DEF IInv, TypeOK
<1>3. EventsDated'
  BY <1>1 DEF IInv, TypeOK, EventsDated
<1>4. TypeOK'
  BY <1>2 DEF IInv, TypeOK
<1> QED
  BY <1>3, <1>4, CopiesStay, EchoStays DEF IInv

LEMMA OthersAdvanceStep ==
  ASSUME IInv, OthersAdvance
  PROVE  IInv'
<1> USE DEF OthersAdvance, pipes, counts, links
<1>1. excuse' \in [Items -> BOOLEAN] /\ troubles' \in 0..MaxTroubles
  BY ExcuseType, TroubleStep DEF IInv
<1>2. since' \in 0..clock
  BY Numbers DEF IInv, Clamped
<1>3. TypeOK'
  BY <1>1, <1>2 DEF IInv, TypeOK
<1> QED
  BY <1>3, CopiesStay, EchoStays DEF IInv, EventsDated

(* A mirror is made only for an item that has none, mapped or nascent. *)
LEMMA RemoteCreateStep ==
  ASSUME IInv, NEW k \in Kinds, NEW ts \in queued[k], RemoteCreate(k, ts)
  PROVE  IInv'
<1> USE DEF RemoteCreate, links
<1> DEFINE v == [val |-> ts, ts |-> ts]
<1>1. ts \in Time /\ ts # 0
  BY DEF IInv, TypeOK, EventsDated
<1>2. v \in Version /\ v # Absent /\ Absent \in Version
  BY <1>1, VersionType
<1>3. huly' = [huly EXCEPT ![k] = v] /\ work[k] = None /\ k \notin mapped
  BY DEF Begins
<1> HIDE DEF v
<1>4. huly' \in [Kinds -> Version \cup {None}]
  BY <1>2, <1>3 DEF IInv, TypeOK
<1>5. Echo("pod", TRUE)
  BY DEF Echo
<1>6. line' = line
  BY <1>5, OnTxStep DEF IInv
<1>7. /\ work' \in [Kinds -> Step \cup {None}] /\ work'[k] # None /\ work'[k].at = "map"
      /\ \A j \in Kinds \ {k} : work'[j] = work[j]
  BY <1>1, <1>2, GotoStep DEF IInv
<1>8. copies \in [Kinds -> Nat] /\ copies' = [copies EXCEPT ![k] = copies[k] + 1]
  BY DEF IInv, TypeOK
<1>9. TypeOK'
  <2>1. copies' \in [Kinds -> Nat]
    BY <1>8
  <2> QED
    BY <1>4, <1>6, <1>7, <2>1 DEF IInv, TypeOK
<1>10. CopyBudget'
  <2> SUFFICES ASSUME NEW j \in Kinds
               PROVE  copies'[j] <= spares'[j] + (IF j \in mapped' \/ Nascent(j)' THEN 1 ELSE 0)
    BY DEF CopyBudget
  <2>1. copies[j] \in Nat /\ spares[j] \in Nat /\ mapped' = mapped /\ spares' = spares
    BY Numbers DEF IInv
  <2>2. copies[j] <= spares[j] + (IF j \in mapped \/ Nascent(j) THEN 1 ELSE 0)
    BY DEF IInv, CopyBudget
  <2>3. CASE j = k
    <3>1. ~Nascent(j) /\ j \notin mapped
      BY <1>3, <2>3 DEF Nascent
    <3>2. Nascent(j)'
      BY <1>2, <1>3, <1>7, <2>3 DEF Nascent, IInv, TypeOK
    <3>3. copies'[j] = copies[j] + 1
      BY <1>8, <2>3
    <3> QED
      BY <2>1, <2>2, <3>1, <3>2, <3>3
  <2>4. CASE j # k
    <3>1. copies'[j] = copies[j] /\ huly'[j] = huly[j] /\ work'[j] = work[j]
      BY <1>3, <1>7, <1>8, <2>4 DEF IInv, TypeOK
    <3>2. Nascent(j)' <=> Nascent(j)
      BY <3>1 DEF Nascent
    <3> QED
      BY <2>1, <2>2, <3>1, <3>2
  <2> QED
    BY <2>3, <2>4
<1> QED
  BY <1>6, <1>9, <1>10, EchoStays DEF IInv, EventsDated

LEMMA RemoteMapStep ==
  ASSUME IInv, NEW k \in Kinds, RemoteMap(k)
  PROVE  IInv'
<1> USE DEF RemoteMap, counts, links
<1>1. work[k] # None /\ work[k] \in Step /\ work[k].ts \in Time /\ Absent \in Version
  <2>1. work[k] \in Step
    BY DEF IInv, TypeOK
  <2>2. work[k].ts \in Time
    BY <2>1 DEF Step
  <2> QED
    BY <2>1, <2>2, VersionType
<1>2. /\ work' \in [Kinds -> Step \cup {None}] /\ queued' \in [Kinds -> SUBSET Time] /\ EventsDated'
      /\ \A j \in Kinds \ {k} : work'[j] = work[j]
  <2>1. CASE End(k, work[k].ts)
    BY <2>1, EndStep DEF IInv
  <2>2. CASE Goto(k, "link", work[k].ts, Absent) /\ UNCHANGED queued
    <3>1. work' \in [Kinds -> Step \cup {None}] /\ \A j \in Kinds \ {k} : work'[j] = work[j]
      BY <1>1, <2>2, GotoStep DEF IInv
    <3> QED
      BY <2>2, <3>1 DEF IInv, TypeOK, EventsDated
  <2> QED
    BY <2>1, <2>2
<1>3. mapped \subseteq mapped' /\ mapped' \subseteq Kinds /\ (huly[k] = Absent \/ k \in mapped')
  BY DEF Mapped, IInv, TypeOK
<1>4. TypeOK'
  BY <1>2, <1>3 DEF IInv, TypeOK
<1>5. CopyBudget'
  <2>1. ASSUME NEW j \in Kinds, Nascent(j) PROVE Nascent(j)' \/ j \in mapped'
    BY <1>2, <1>3, <2>1 DEF Nascent
  <2> QED
    BY <1>3, <2>1, CopiesKept DEF IInv
<1> QED
  BY <1>2, <1>4, <1>5, EchoStays DEF IInv

(* Steps of applyRemote outside the creation of a mirror. *)
LEMMA Settled ==
  ASSUME IInv, NEW k \in Kinds, work[k] = None \/ work[k].at # "map",
         UNCHANGED <<copies, spares, mapped>>,
         \A j \in Kinds \ {k} : work'[j] = work[j] /\ huly'[j] = huly[j]
  PROVE  CopyBudget'
<1>1. ASSUME NEW j \in Kinds, Nascent(j) PROVE Nascent(j)'
  BY <1>1 DEF Nascent
<1> QED
  BY <1>1, CopiesKept DEF IInv

LEMMA RemoteReadStep ==
  ASSUME IInv, NEW k \in Kinds, NEW ts \in queued[k], RemoteRead(k, ts)
  PROVE  IInv'
<1> USE DEF RemoteRead, counts, links
<1>1. ts \in Time /\ work[k] = None
  BY DEF IInv, TypeOK, Begins
<1>2. /\ work' \in [Kinds -> Step \cup {None}] /\ queued' \in [Kinds -> SUBSET Time] /\ EventsDated'
      /\ \A j \in Kinds \ {k} : work'[j] = work[j]
  <2>1. CASE huly[k] = None
    BY <2>1, EndStep DEF IInv
  <2>2. CASE huly[k] # None
    <3>1. huly[k] \in Version
      BY <2>2 DEF IInv, TypeOK
    <3>2. work' \in [Kinds -> Step \cup {None}] /\ \A j \in Kinds \ {k} : work'[j] = work[j]
      BY <1>1, <2>2, <3>1, GotoStep DEF IInv
    <3> QED
      BY <2>2, <3>2 DEF IInv, TypeOK, EventsDated
  <2> QED
    BY <2>1, <2>2
<1>3. TypeOK'
  BY <1>2 DEF IInv, TypeOK
<1> QED
  BY <1>1, <1>2, <1>3, Settled, EchoStays DEF IInv

(* Only the epic's update goes unmarked, and it is counted. *)
LEMMA RemoteWriteStep ==
  ASSUME IInv, NEW k \in Kinds, RemoteWrite(k)
  PROVE  IInv'
<1> DEFINE ts == work[k].ts
           v == [val |-> ts, ts |-> ts]
           writes == RemoteWins(k, work[k].seen.ts, ts) /\ work[k].seen.val # ts /\ huly[k] # None
<1>1. work[k] # None /\ work[k].at = "write" /\ ts \in Time
  <2>1. work[k] # None /\ work[k].at = "write" /\ work[k] \in Step
    BY DEF RemoteWrite, IInv, TypeOK
  <2> QED
    BY <2>1 DEF Step
<1>2. v \in Version /\ Absent \in Version
  BY <1>1, VersionType
<1>3. /\ huly' = IF writes THEN [huly EXCEPT ![k] = v] ELSE huly
      /\ IF writes THEN OnTx(k, "pod", k = "mr") ELSE UNCHANGED line
      /\ IF k = "epic" THEN Goto(k, "link", ts, Absent) /\ UNCHANGED queued ELSE End(k, ts)
      /\ unmarked' = unmarked + IF writes /\ k = "epic" THEN 1 ELSE 0
      /\ UNCHANGED <<gitlab, childAt, mapped, issueKnown, polled, parent, deferred, since,
                     clock, edits, overwrites, copies, spares, troubles, excuse>>
  BY DEF RemoteWrite, links
<1> HIDE DEF v, ts, writes
<1>4. huly' \in [Kinds -> Version \cup {None}] /\ \A j \in Kinds \ {k} : huly'[j] = huly[j]
  BY <1>2, <1>3 DEF IInv, TypeOK
<1>5. /\ work' \in [Kinds -> Step \cup {None}] /\ queued' \in [Kinds -> SUBSET Time] /\ EventsDated'
      /\ \A j \in Kinds \ {k} : work'[j] = work[j]
  <2>1. CASE k = "epic"
    <3>1. work' \in [Kinds -> Step \cup {None}] /\ \A j \in Kinds \ {k} : work'[j] = work[j]
      BY <1>1, <1>2, <1>3, <2>1, GotoStep DEF IInv
    <3> QED
      BY <1>3, <2>1, <3>1 DEF IInv, TypeOK, EventsDated
  <2>2. CASE k # "epic"
    BY <1>3, <2>2, EndStep DEF IInv
  <2> QED
    BY <2>1, <2>2
<1>6. /\ line' \in [Kinds -> Nat] /\ unmarked' \in Nat
      /\ line'["mr"] + line'["epic"] <= line["mr"] + line["epic"] + (Owed' - Owed)
      /\ Owed' \in Nat
  <2>1. CASE ~writes
    <3>1. line' = line /\ unmarked' = unmarked /\ Owed' = Owed
      BY <1>3, <2>1, Numbers DEF IInv, Owed
    <3> QED
      BY <3>1, Numbers DEF IInv, TypeOK
  <2>2. CASE writes /\ k = "mr"
    <3>1. Echo("pod", k = "mr") /\ OnTx(k, "pod", k = "mr")
      BY <1>3, <2>2 DEF Echo
    <3>2. line' = line
      BY <3>1, OnTxStep DEF IInv
    <3>3. unmarked' = unmarked /\ edits' = edits
      BY <1>3, <2>2, Numbers DEF IInv
    <3>4. Owed' = Owed
      BY <3>3 DEF Owed
    <3> QED
      BY <3>2, <3>3, <3>4, Numbers DEF IInv, TypeOK
  <2>3. CASE writes /\ k = "epic"
    <3>1. unmarked \in Nat /\ unmarked' = unmarked + 1 /\ edits' = edits /\ edits \in Nat
      BY <1>3, <2>3, Numbers DEF IInv
    <3>2. line' \in [Kinds -> Nat] /\ (Resolved => line' = line)
          /\ (~Resolved => line'["mr"] + line'["epic"] = line["mr"] + line["epic"] + 1)
      <4>1. OnTx(k, "pod", k = "mr") /\ (k = "mr") \in BOOLEAN
        BY <1>3, <2>3
      <4>2. Echo("pod", k = "mr") <=> Resolved
        BY <2>3, Constants DEF Echo
      <4> QED
        BY <4>1, <4>2, OnTxStep DEF IInv
    <3>3. Owed' = Owed + (IF Resolved THEN 0 ELSE 1) /\ Owed \in Nat
      BY <3>1, Numbers, Constants DEF IInv, Owed
    <3> QED
      BY <3>1, <3>2, <3>3, Numbers, Constants DEF IInv
  <2> QED
    BY <2>1, <2>2, <2>3, Constants
<1>7. TypeOK'
  BY <1>3, <1>4, <1>5, <1>6 DEF IInv, TypeOK
<1>8. EchoBudget'
  <2>1. line'["mr"] \in Nat /\ line'["epic"] \in Nat /\ overwrites' = overwrites
    BY <1>3, <1>6, Constants
  <2> QED
    BY <1>6, <2>1, Numbers DEF IInv, EchoBudget
<1>9. CopyBudget'
  BY <1>1, <1>3, <1>4, <1>5, Settled
<1> QED
  BY <1>5, <1>7, <1>8, <1>9 DEF IInv

LEMMA LinkChildrenStep ==
  ASSUME IInv, LinkChildren
  PROVE  IInv'
<1> USE DEF LinkChildren, counts
<1>1. /\ "epic" \in Kinds /\ work["epic"] # None /\ work["epic"].at = "link"
      /\ work["epic"].ts \in Time
  <2>1. "epic" \in Kinds /\ work["epic"] # None /\ work["epic"] \in Step
    BY Constants DEF IInv, TypeOK
  <2> QED
    BY <2>1 DEF Step
<1>2. parent' \subseteq {"mr", "issue"} /\ deferred' \in Time
  BY <1>1 DEF IInv, TypeOK, Child
<1>3. /\ work' \in [Kinds -> Step \cup {None}] /\ queued' \in [Kinds -> SUBSET Time] /\ EventsDated'
      /\ \A j \in Kinds \ {"epic"} : work'[j] = work[j]
  BY <1>1, EndStep DEF IInv
<1>5. TypeOK'
  BY <1>2, <1>3 DEF IInv, TypeOK
<1> QED
  BY <1>1, <1>3, <1>5, Settled, EchoStays DEF IInv

LEMMA RemoteLostStep ==
  ASSUME IInv, NEW k \in Kinds, NEW ts \in queued[k], RemoteLost(k, ts)
  PROVE  IInv'
<1> USE DEF RemoteLost, counts, links
<1>1. work[k] = None
  BY DEF Begins
<1>2. excuse' \in [Items -> BOOLEAN] /\ troubles' \in 0..MaxTroubles
  BY ExcuseType, TroubleStep DEF IInv, Lost
<1>3. /\ work' \in [Kinds -> Step \cup {None}] /\ queued' \in [Kinds -> SUBSET Time] /\ EventsDated'
      /\ \A j \in Kinds \ {k} : work'[j] = work[j]
  BY EndStep DEF IInv
<1>4. TypeOK'
  BY <1>2, <1>3 DEF IInv, TypeOK
<1> QED
  BY <1>1, <1>3, <1>4, Settled, EchoStays DEF IInv

LEMMA IssueMappedStep ==
  ASSUME IInv, IssueMapped
  PROVE  IInv'
<1> USE DEF IssueMapped, pipes, counts
<1>1. TypeOK'
  BY DEF IInv, TypeOK
<1> QED
  BY <1>1, CopiesStay, EchoStays DEF IInv, EventsDated

LEMMA LocalLostStep ==
  ASSUME IInv, NEW k \in Kinds, LocalLost(k)
  PROVE  IInv'
<1> USE DEF LocalLost, counts, links
<1>1. line \in [Kinds -> Nat] /\ line[k] > 0 /\ line[k] \in Nat
  BY DEF IInv, TypeOK
<1>2. line' \in [Kinds -> Nat]
  BY <1>1
<1>3. line'["mr"] + line'["epic"] = line["mr"] + line["epic"] - 1
  <2>1. CASE k = "mr"
    BY <1>1, <2>1, Constants
  <2>2. CASE k = "epic"
    BY <1>1, <2>2, Constants
  <2> QED
    BY <2>1, <2>2, Constants
<1>4. TypeOK'
  <2>1. troubles' \in 0..MaxTroubles
    BY TroubleStep DEF IInv
  <2> QED
    BY <1>2, <2>1 DEF IInv, TypeOK
<1>5. EchoBudget'
  <2>1. Owed' = Owed /\ overwrites' = overwrites
    BY DEF Owed
  <2>2. line'["mr"] \in Nat /\ line'["epic"] \in Nat
    BY <1>2, Constants
  <2> QED
    BY <1>3, <2>1, <2>2, Numbers DEF IInv, EchoBudget
<1> QED
  BY <1>4, <1>5, CopiesStay DEF IInv, EventsDated

(* A nascent mirror that nobody will map is a spare. *)
LEMMA TornStep ==
  ASSUME IInv, NEW ks, Torn(ks), \A k \in Kinds : k \in ks => Nascent(k),
         UNCHANGED <<copies, mapped>>,
         \A k \in Kinds : Nascent(k) => k \in ks \/ Nascent(k)'
  PROVE  /\ huly' \in [Kinds -> Version \cup {None}]
         /\ spares' \in [Kinds -> Nat]
         /\ CopyBudget'
<1>1. Absent \in Version
  <2>1. 0 \in Time
    BY Constants DEF Time
  <2> QED
    BY <2>1, VersionType
<1>2. huly' \in [Kinds -> Version \cup {None}] /\ spares' \in [Kinds -> Nat]
  BY <1>1, Numbers DEF Torn, IInv, TypeOK
<1>3. CopyBudget'
  <2> SUFFICES ASSUME NEW k \in Kinds
               PROVE  copies'[k] <= spares'[k] + (IF k \in mapped' \/ Nascent(k)' THEN 1 ELSE 0)
    BY DEF CopyBudget
  <2>1. /\ copies'[k] = copies[k] /\ copies[k] \in Nat /\ spares[k] \in Nat /\ mapped' = mapped
        /\ spares'[k] = spares[k] + (IF k \in ks THEN 1 ELSE 0)
    BY Numbers DEF IInv, Torn
  <2>2. copies[k] <= spares[k] + (IF k \in mapped \/ Nascent(k) THEN 1 ELSE 0)
    BY DEF IInv, CopyBudget
  <2>3. CASE k \in ks
    BY <2>1, <2>2, <2>3
  <2>4. CASE k \notin ks
    <3>1. Nascent(k) => Nascent(k)'
      BY <2>4
    <3> QED
      BY <2>1, <2>2, <2>4, <3>1
  <2> QED
    BY <2>3, <2>4
<1> QED
  BY <1>2, <1>3

LEMMA RemoteThrowsStep ==
  ASSUME IInv, NEW k \in Kinds, RemoteThrows(k)
  PROVE  IInv'
<1> DEFINE torn == {j \in {k} : Nascent(j)}
<1>1. /\ Torn(torn) /\ End(k, work[k].ts) /\ Lost(k, work[k].ts) /\ Trouble
      /\ line' = IF Nascent(k) THEN [line EXCEPT ![k] = 0] ELSE line
      /\ UNCHANGED <<gitlab, childAt, mapped, issueKnown, polled, parent, deferred, since,
                     clock, edits, unmarked, overwrites, copies>>
  BY DEF RemoteThrows, links
<1>2. \A j \in Kinds : j \in torn <=> j = k /\ Nascent(k)
  OBVIOUS
<1> HIDE DEF torn
<1>3. /\ work' \in [Kinds -> Step \cup {None}] /\ queued' \in [Kinds -> SUBSET Time] /\ EventsDated'
      /\ \A j \in Kinds \ {k} : work'[j] = work[j]
  BY <1>1, EndStep DEF IInv
<1>4. ASSUME NEW j \in Kinds, Nascent(j) PROVE j \in torn \/ Nascent(j)'
  <2>1. CASE j = k
    BY <1>2, <1>4, <2>1
  <2>2. CASE j # k
    <3>1. huly'[j] = huly[j] /\ work'[j] = work[j]
      BY <1>1, <1>2, <1>3, <2>2 DEF Torn
    <3> QED
      BY <1>4, <3>1 DEF Nascent
  <2> QED
    BY <2>1, <2>2
<1>5. huly' \in [Kinds -> Version \cup {None}] /\ spares' \in [Kinds -> Nat] /\ CopyBudget'
  BY <1>1, <1>2, <1>4, TornStep
<1>6. excuse' \in [Items -> BOOLEAN] /\ troubles' \in 0..MaxTroubles
  BY <1>1, ExcuseType, TroubleStep DEF IInv, Lost
<1>7. /\ line' \in [Kinds -> Nat]
      /\ line'["mr"] <= line["mr"] /\ line'["epic"] <= line["epic"]
  BY <1>1, Constants, Numbers DEF IInv, TypeOK
<1>8. TypeOK'
  BY <1>1, <1>3, <1>5, <1>6, <1>7 DEF IInv, TypeOK
<1>9. EchoBudget'
  <2>1. /\ line'["mr"] \in Nat /\ line'["epic"] \in Nat /\ Owed' = Owed
        /\ overwrites' = overwrites
    BY <1>1, <1>7, Constants DEF Owed
  <2> QED
    BY <1>7, <2>1, Numbers DEF IInv, EchoBudget
<1> QED
  BY <1>3, <1>5, <1>8, <1>9 DEF IInv

LEMMA CrashStep ==
  ASSUME IInv, Crash
  PROVE  IInv'
<1> DEFINE torn == {k \in Kinds : Nascent(k)}
<1>1. /\ Torn(torn)
      /\ work' = [k \in Kinds |-> None]
      /\ line' = [k \in Kinds |-> 0]
      /\ UNCHANGED <<gitlab, childAt, mapped, issueKnown, queued, polled, parent, deferred,
                     since, clock, edits, unmarked, overwrites, copies, excuse>>
      /\ Trouble
  BY DEF Crash, links
<1>2. \A k \in Kinds : k \in torn <=> Nascent(k)
  OBVIOUS
<1> HIDE DEF torn
<1>3. huly' \in [Kinds -> Version \cup {None}] /\ spares' \in [Kinds -> Nat] /\ CopyBudget'
  BY <1>1, <1>2, TornStep
<1>4. TypeOK'
  <2>1. troubles' \in 0..MaxTroubles
    BY <1>1, TroubleStep DEF IInv
  <2>2. line' \in [Kinds -> Nat] /\ work' \in [Kinds -> Step \cup {None}]
    BY <1>1
  <2> QED
    BY <1>1, <1>3, <2>1, <2>2 DEF IInv, TypeOK
<1>5. EchoBudget'
  <2>1. line'["mr"] = 0 /\ line'["epic"] = 0 /\ Owed' = Owed /\ overwrites' = overwrites
    BY <1>1, Constants DEF Owed
  <2> QED
    BY <2>1, Numbers DEF IInv, EchoBudget
<1> QED
  BY <1>1, <1>3, <1>4, <1>5 DEF IInv, EventsDated

-----------------------------------------------------------------------------
LEMMA InitInv ==
  ASSUME Init
  PROVE  IInv
<1> USE DEF Init
<1>1. 0 \in Time /\ 0 \in 0..clock
  BY Constants DEF Time
<1>2. Absent \in Version
  BY <1>1, VersionType
<1>3. TypeOK
  <2>1. gitlab \in [Kinds -> Time] /\ huly \in [Kinds -> Version \cup {None}]
    BY <1>1, <1>2
  <2>2. work \in [Kinds -> Step \cup {None}] /\ excuse \in [Items -> BOOLEAN]
    OBVIOUS
  <2>3. /\ line \in [Kinds -> Nat] /\ copies \in [Kinds -> Nat] /\ spares \in [Kinds -> Nat]
        /\ troubles \in 0..MaxTroubles
    BY Constants
  <2>4. queued \in [Kinds -> SUBSET Time] /\ polled \in [Kinds -> SUBSET Time]
    OBVIOUS
  <2>5. childAt \in Time /\ clock \in Time /\ since \in 0..clock /\ deferred \in Time
    BY <1>1
  <2>6. {edits, unmarked, overwrites} \subseteq Nat
    OBVIOUS
  <2>7. mapped \subseteq Kinds /\ parent \subseteq {"mr", "issue"}
    OBVIOUS
  <2>8. issueKnown \in BOOLEAN
    OBVIOUS
  <2> QED
    BY <2>1, <2>2, <2>3, <2>4, <2>5, <2>6, <2>7, <2>8 DEF TypeOK
<1>4. EchoBudget
  BY Constants DEF EchoBudget, Owed
<1>5. EventsDated /\ CopyBudget
  BY DEF EventsDated, CopyBudget, Nascent
<1> QED
  BY <1>3, <1>4, <1>5 DEF IInv

LEMMA NextInv ==
  ASSUME IInv, [Next]_vars
  PROVE  IInv'
<1>1. ASSUME Work PROVE IInv'
  BY <1>1, LocalOverwritesStep, LocalTakesStep, BackfillStep, RemoteMapStep, RemoteWriteStep,
     RemoteCreateStep, RemoteReadStep, LinkChildrenStep DEF Work
<1>2. CASE UNCHANGED vars
  <2>1. TypeOK' /\ EventsDated'
    BY <1>2 DEF vars, IInv, TypeOK, EventsDated
  <2> QED
    BY <1>2, <2>1, CopiesStay, EchoStays DEF vars, IInv
<1> QED
  BY <1>1, <1>2, EditGitlabStep, EditHulyStep, RemoveHulyStep, RemoteLostStep, AddChildStep,
     RemoteThrowsStep, LocalLostStep, IssueMappedStep, OthersAdvanceStep, CrashStep DEF Next

LEMMA InvHolds == Spec => []IInv
<1>1. IInv /\ [Next]_vars => IInv'
  BY NextInv
<1> QED
  BY <1>1, InitInv, PTL DEF Spec

(* Every reachable state is well typed. *)
THEOREM TypesHold == Spec => []TypeOK
<1>1. IInv => TypeOK
  BY DEF IInv
<1> QED
  BY <1>1, InvHolds, PTL

(* However long the pod runs and whether or not it knows its own account,
   GitLab's issues are changed no more often than people changed a mirror,
   and once for each update that carries no marker (tx-subscription.ts,
   epics.ts).                                                               *)
THEOREM EchoesNeverReachGitlab == Spec => []NoEchoToGitlab
<1>1. IInv => NoEchoToGitlab
  BY Numbers DEF IInv, EchoBudget, Owed, NoEchoToGitlab
<1> QED
  BY <1>1, InvHolds, PTL

(* A merge request and an epic have one mirror each, and one more for each
   that a crash, an exception or a local event left or took before its mapping
   was written (mr.ts, epics.ts).                                           *)
THEOREM OneMirrorEach == Spec => []MirroredOnce
<1>1. ASSUME IInv PROVE MirroredOnce
  <2> SUFFICES ASSUME NEW k \in Kinds PROVE copies[k] <= 1 + spares[k]
    BY DEF MirroredOnce
  <2> QED
    BY <1>1, Numbers DEF IInv, CopyBudget
<1> QED
  BY <1>1, InvHolds, PTL

-----------------------------------------------------------------------------
(* The epic's versions come once and in order: an event is as new as every one
   that was listed before it, what is queued is newer than what last put off
   the child, and the one at work is the oldest of the queue.               *)
EpicInOrder ==
  /\ gitlab["epic"] <= clock
  /\ \A t \in polled["epic"] : t <= gitlab["epic"]
  /\ deferred # 0 => deferred \in polled["epic"]
  /\ \A t \in queued["epic"] : t \in polled["epic"] /\ t > deferred
  /\ work["epic"] # None =>
       /\ work["epic"].ts \in queued["epic"]
       /\ \A u \in queued["epic"] : work["epic"].ts <= u

(* Its times are numbers. *)
LEMMA EpicTimes ==
  ASSUME TypeOK
  PROVE  /\ "epic" \in Kinds /\ clock \in Nat /\ gitlab["epic"] \in Nat /\ deferred \in Nat
         /\ gitlab \in [Kinds -> Time] /\ polled \in [Kinds -> SUBSET Time]
         /\ queued \in [Kinds -> SUBSET Time] /\ work \in [Kinds -> Step \cup {None}]
         /\ \A t \in Time : t \in Nat
<1>1. "epic" \in Kinds
  BY Constants
<1> QED
  BY <1>1, Constants DEF TypeOK, Time

(* An event of the epic begins, or goes on. *)
LEMMA EpicGoes ==
  ASSUME IInv, EpicInOrder, NEW k \in Kinds, NEW at \in {"map", "write", "link"},
         NEW ts \in queued[k], NEW seen \in Version, Goto(k, at, ts, seen),
         \A u \in queued[k] : ts <= u,
         UNCHANGED <<gitlab, clock, polled, deferred, queued>>
  PROVE  EpicInOrder'
<1>1. ts \in Time
  BY DEF IInv, TypeOK
<1>2. CASE k = "epic"
  <2>1. work'["epic"] = [at |-> at, ts |-> ts, seen |-> seen]
    BY <1>2, EpicTimes DEF Goto, IInv
  <2>2. work'["epic"].ts = ts
    BY <2>1
  <2> QED
    BY <1>2, <2>2 DEF EpicInOrder
<1>3. CASE k # "epic"
  <2>1. work'["epic"] = work["epic"]
    BY <1>3, EpicTimes DEF Goto, IInv
  <2> QED
    BY <2>1 DEF EpicInOrder
<1> QED
  BY <1>2, <1>3

(* An event ends. *)
LEMMA EpicEnds ==
  ASSUME IInv, EpicInOrder, NEW k \in Kinds, NEW ts, End(k, ts),
         work[k] = None \/ work[k].ts = ts,
         UNCHANGED <<gitlab, clock, polled, deferred>>
  PROVE  EpicInOrder'
<1>1. CASE k = "epic"
  <2>1. work'["epic"] = None /\ queued'["epic"] \subseteq queued["epic"]
    BY <1>1, EpicTimes DEF End, IInv
  <2> QED
    BY <2>1 DEF EpicInOrder
<1>2. CASE k # "epic"
  <2>1. work'["epic"] = work["epic"] /\ queued'["epic"] = queued["epic"]
    BY <1>2, EpicTimes DEF End, IInv
  <2> QED
    BY <2>1 DEF EpicInOrder
<1> QED
  BY <1>1, <1>2

LEMMA EpicStays ==
  ASSUME EpicInOrder, UNCHANGED <<gitlab, clock, polled, deferred, queued, work>>
  PROVE  EpicInOrder'
BY DEF EpicInOrder

LEMMA EpicTicks ==
  ASSUME IInv, EpicInOrder, Tick, UNCHANGED <<polled, deferred, queued, work>>,
         gitlab' = gitlab \/ \E k \in Kinds : gitlab' = [gitlab EXCEPT ![k] = clock']
  PROVE  EpicInOrder'
<1>1. clock' = clock + 1 /\ clock \in Nat /\ gitlab["epic"] \in Nat
  BY EpicTimes DEF Tick, IInv
<1>2. gitlab'["epic"] = gitlab["epic"] \/ gitlab'["epic"] = clock'
  BY EpicTimes DEF IInv
<1>3. \A t \in polled["epic"] : t \in Nat
  BY EpicTimes DEF IInv
<1> QED
  BY <1>1, <1>2, <1>3 DEF EpicInOrder

LEMMA EpicOrderStep ==
  ASSUME IInv, EpicInOrder, [Next]_vars
  PROVE  EpicInOrder'
<1>1. ASSUME NEW k \in Kinds, EditGitlab(k) \/ EditHuly(k) PROVE EpicInOrder'
  BY <1>1, EpicTicks DEF EditGitlab, EditHuly, pipes, links
<1>2. ASSUME AddChild PROVE EpicInOrder'
  BY <1>2, EpicTicks, Constants DEF AddChild, pipes, links
<1>3. ASSUME NEW k \in Kinds,
             RemoveHuly(k) \/ LocalOverwrites(k) \/ LocalTakes(k) \/ LocalLost(k)
      PROVE  EpicInOrder'
  BY <1>3, EpicStays DEF RemoveHuly, LocalOverwrites, LocalTakes, LocalLost, pipes, links
<1>4. ASSUME IssueMapped \/ OthersAdvance PROVE EpicInOrder'
  BY <1>4, EpicStays DEF IssueMapped, OthersAdvance, pipes, links
<1>5. ASSUME NEW k \in Kinds, Backfill(k) PROVE EpicInOrder'
  <2>1. /\ gitlab[k] \notin polled[k] /\ UNCHANGED <<gitlab, clock, deferred, work>>
        /\ queued' = [queued EXCEPT ![k] = queued[k] \cup {gitlab[k]}]
        /\ polled' = [polled EXCEPT ![k] = polled[k] \cup {gitlab[k]}]
    BY <1>5 DEF Backfill, NotSeen, links
  <2>2. CASE k = "epic"
    <3> DEFINE g == gitlab["epic"]
    <3>1. /\ queued'["epic"] = queued["epic"] \cup {g}
          /\ polled'["epic"] = polled["epic"] \cup {g}
          /\ g \notin polled["epic"] /\ g # 0 /\ g \in Nat /\ deferred \in Nat
      BY <1>5, <2>1, <2>2, EpicTimes DEF IInv, Backfill, EpicListed
    <3>2. \A t \in polled["epic"] : t <= g /\ t # g /\ t \in Nat
      BY <3>1, EpicTimes DEF EpicInOrder, IInv
    <3>3. g > deferred
      BY <3>1, <3>2 DEF EpicInOrder
    <3>4. work["epic"] # None => work["epic"].ts <= g
      BY <3>1, <3>2 DEF EpicInOrder
    <3> QED
      BY <2>1, <3>1, <3>3, <3>4 DEF EpicInOrder
  <2>3. CASE k # "epic"
    <3>1. queued'["epic"] = queued["epic"] /\ polled'["epic"] = polled["epic"]
      BY <2>1, <2>3, EpicTimes DEF IInv
    <3> QED
      BY <2>1, <3>1 DEF EpicInOrder
  <2> QED
    BY <2>2, <2>3
<1>6. ASSUME NEW k \in Kinds, NEW ts \in queued[k],
             RemoteCreate(k, ts) \/ RemoteRead(k, ts) \/ RemoteLost(k, ts)
      PROVE  EpicInOrder'
  <2>1. /\ work[k] = None /\ \A u \in queued[k] : ts <= u
        /\ UNCHANGED <<gitlab, clock, polled, deferred>>
        /\ \/ End(k, ts)
           \/ Goto(k, "map", ts, Absent) /\ queued' = queued
           \/ huly[k] # None /\ Goto(k, "write", ts, huly[k]) /\ queued' = queued
    BY <1>6 DEF RemoteCreate, RemoteRead, RemoteLost, Begins, links
  <2>2. huly[k] # None => huly[k] \in Version
    BY DEF IInv, TypeOK
  <2>3. Absent \in Version
    <3>1. 0 \in Time
      BY Constants DEF Time
    <3> QED
      BY <3>1, VersionType
  <2> QED
    BY <2>1, <2>2, <2>3, EpicGoes, EpicEnds
<1>7. ASSUME NEW k \in Kinds, RemoteMap(k) \/ RemoteWrite(k) \/ RemoteThrows(k)
      PROVE  EpicInOrder'
  <2>1. /\ work[k] # None /\ UNCHANGED <<gitlab, clock, polled, deferred>>
        /\ \/ End(k, work[k].ts)
           \/ k = "epic" /\ Goto(k, "link", work[k].ts, Absent) /\ queued' = queued
    BY <1>7 DEF RemoteMap, RemoteWrite, RemoteThrows, links
  <2>2. Absent \in Version
    <3>1. 0 \in Time
      BY Constants DEF Time
    <3> QED
      BY <3>1, VersionType
  <2>3. k = "epic" => /\ work[k].ts \in queued[k]
                      /\ \A u \in queued[k] : work[k].ts <= u
    BY <2>1 DEF EpicInOrder
  <2> QED
    BY <2>1, <2>2, <2>3, EpicGoes, EpicEnds
<1>8. ASSUME LinkChildren PROVE EpicInOrder'
  <2> DEFINE ts == work["epic"].ts
  <2>1. /\ work["epic"] # None /\ UNCHANGED <<gitlab, clock, polled>> /\ End("epic", ts)
        /\ deferred' = ts \/ deferred' = deferred
    BY <1>8 DEF LinkChildren
  <2>2. /\ work'["epic"] = None /\ queued'["epic"] = queued["epic"] \ {ts}
    BY <2>1, EpicTimes DEF End, IInv
  <2>3. /\ ts \in queued["epic"] /\ ts \in polled["epic"]
        /\ \A u \in queued["epic"] : ts <= u /\ u \in Nat
    BY <2>1, EpicTimes DEF EpicInOrder, IInv
  <2> HIDE DEF ts
  <2>4. \A u \in queued'["epic"] : u > ts
    BY <2>2, <2>3
  <2> QED
    BY <2>1, <2>2, <2>3, <2>4 DEF EpicInOrder
<1>9. ASSUME Crash PROVE EpicInOrder'
  <2>1. work'["epic"] = None /\ UNCHANGED <<gitlab, clock, polled, deferred, queued>>
    BY <1>9, Constants DEF Crash, links
  <2> QED
    BY <2>1 DEF EpicInOrder
<1>10. CASE UNCHANGED vars
  BY <1>10, EpicStays DEF vars
<1> QED
  BY <1>1, <1>2, <1>3, <1>4, <1>5, <1>6, <1>7, <1>8, <1>9, <1>10 DEF Next, Work

(* Only LinkChildren gives a child its parent, and the event at work is newer
   than the one that put the child off.                                     *)
LEMMA LinkStep ==
  ASSUME IInv, EpicInOrder, [Next]_vars, parent' # parent
  PROVE  work["epic"].ts > deferred
<1>1. LinkChildren
  BY DEF Next, Work, vars, links, EditGitlab, EditHuly, AddChild, RemoveHuly, LocalOverwrites,
     LocalTakes, LocalLost, IssueMapped, OthersAdvance, Backfill, RemoteCreate, RemoteRead,
     RemoteLost, RemoteMap, RemoteWrite, RemoteThrows, Crash
<1> QED
  BY <1>1 DEF LinkChildren, EpicInOrder

(* For any number of versions, sweeps, crashes and exceptions, a child that the
   epic's event put off is linked only by the event of a newer version: no
   sweep applies the same one again (epics.ts:277).                         *)
THEOREM ChildrenWaitForNewVersion == Spec => LinkedByNewVersion
<1>1. Init => EpicInOrder
  BY Constants DEF Init, EpicInOrder
<1>2. IInv /\ EpicInOrder /\ [Next]_vars => EpicInOrder'
  BY EpicOrderStep
<1>3. IInv /\ EpicInOrder /\ [Next]_vars => [parent' # parent => work["epic"].ts > deferred]_vars
  BY LinkStep
<1> QED
  BY <1>1, <1>2, <1>3, InvHolds, PTL DEF Spec, LinkedByNewVersion
=============================================================================
