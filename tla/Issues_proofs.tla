----------------------------- MODULE Issues_proofs -----------------------------
(***************************************************************************)
(* The two directions of the issue synchronisation, for any number of      *)
(* issues on either side, of changes, crashes, removals and failures, any  *)
(* size of the cold-start buffer, and whether or not the service account   *)
(* is known.                                                               *)
(***************************************************************************)
EXTENDS Issues, FiniteSetTheorems, SequenceTheorems, WellFoundedInduction, TLAPS

USE DEF history, sides, inside, outside, people, lost

(* What people changed in Huly and nobody has sent to GitLab yet: each value
   is the time of its change.                                              *)
Vals(s) == {s[n].val : n \in DOMAIN s} \ {None}
Calling(d) == IF local[d] # None /\ local[d].at = "call" THEN {local[d].val} ELSE {}
Waiting(d) == Vals(line[d]) \cup Calling(d)
InFlight == Vals(buffer) \cup UNION {Waiting(d) : d \in Docs}

Ascending(s) ==
  \A m, n \in DOMAIN s : m < n /\ s[m].val # None /\ s[n].val # None => s[m].val < s[n].val

(* Every change in flight is there once, and is not from the future. *)
OnceEach ==
  /\ InFlight \subseteq 1..clock
  /\ Ascending(buffer)
  /\ \A d \in Docs : Ascending(line[d]) /\ Calling(d) \cap Vals(line[d]) = {}
  /\ \A d, f \in Docs : d # f => Waiting(d) \cap Waiting(f) = {}

(* The buffer is for the time before the engine starts. *)
ColdStart ==
  /\ started => buffer = <<>>
  /\ ~started => \A d \in Docs : line[d] = <<>> /\ local[d] = None

(* GitLab's clock beyond the changes of people is the calls so far: they and
   the changes in flight are paid for by the changes made in Huly.         *)
Calls == clock - edits["gitlab"] - edits["huly"]
CallBudget == Calls + Cardinality(InFlight) <= edits["huly"]
EditBudget == edits["gitlab"] + edits["huly"] <= MaxEdits + touches

(* Times. *)
Dated ==
  /\ cursor <= clock + 1
  /\ \A i \in Iids : gitlab[i] = Absent \/ (gitlab[i].val # 0 /\ gitlab[i].ts \in 1..clock)
  /\ \A e \in queued \cup polled : e.val # 0 /\ e.ts \in 1..clock

(* What does not exist yet is nowhere. *)
NoIidYet ==
  \A i \in Iids : gitlab[i] = Absent =>
    /\ idmap[i] = None /\ remote[i] = None
    /\ \A e \in queued : e.iid # i
    /\ \A d \in Docs : local[d] # None => local[d].iid # i
NoDocYet ==
  \A d \in Docs : huly[d] = Absent =>
    /\ local[d] = None /\ FindByHuly(d) = {} /\ line[d] = <<>>
    /\ \A n \in DOMAIN buffer : buffer[n].doc # d
    /\ \A i \in Iids : remote[i] # None => remote[i].doc # d

(* applyRemote and applyLocal, between two awaits. *)
RemoteAgrees ==
  \A i \in Iids : remote[i] # None =>
    /\ remote[i].ev \in queued /\ remote[i].ev.iid = i
    /\ remote[i].at = "create" => remote[i].doc = None
    /\ remote[i].at # "create" => remote[i].doc \in Docs
    /\ remote[i].at \in {"read", "write"} => idmap[i] # None
LocalAgrees ==
  \A d \in Docs : local[d] # None =>
    /\ local[d].val # 0
    /\ local[d].at = "finish" => local[d].iid \in Iids
    /\ ~local[d].new => local[d].iid \in Iids /\ idmap[local[d].iid] # None
    /\ local[d].new /\ local[d].at = "call" => local[d].iid = None

(* What may write the mapping of an issue, on either side. *)
Mirroring(i) == remote[i] # None /\ remote[i].at \in {"create", "map"}
Copying(i, d) == remote[i] # None /\ remote[i].at = "map" /\ remote[i].doc = d
Creator(d, i) == local[d] # None /\ local[d].new /\ local[d].iid = i

(* At most two of them compete for one issue. *)
FewClaims ==
  /\ \A i, j \in Iids, d \in Docs : Copying(i, d) /\ Copying(j, d) => i = j
  /\ \A i \in Iids, d, f \in Docs : Creator(d, i) /\ Creator(f, i) => d = f
  /\ \A i \in Iids, d \in Docs : Mirroring(i) /\ idmap[i] # None => ~Creator(d, i)
  /\ \A i \in Iids, d \in Docs : Creating(d) /\ FindByHuly(d) # {} => ~Copying(i, d)

ConflictIids ==
  {i \in Iids : \/ Mirroring(i) /\ idmap[i] # None
                \/ Mirroring(i) /\ \E d \in Docs : Creator(d, i)
                \/ idmap[i] # None /\ \E d \in Docs : Creator(d, i)}
ConflictDocs ==
  {d \in Docs : \/ Creating(d) /\ FindByHuly(d) # {}
                \/ Creating(d) /\ \E i \in Iids : Copying(i, d)
                \/ FindByHuly(d) # {} /\ \E i \in Iids : Copying(i, d)}

(* Issues without a partner that no change, event or job will give one, and
   of which nothing was lost to a known cause.                              *)
Changing(d) == Vals(line[d]) # {} \/ \E n \in DOMAIN buffer : buffer[n].doc = d /\ buffer[n].val # None
Coming(i) == (\E e \in queued : e.iid = i) \/ (Listed(i) /\ Current(i) \notin polled)
LooseDocs ==
  {d \in Docs \ unsent : /\ Alive(d) /\ FindByHuly(d) = {} /\ ~Changing(d) /\ ~Creating(d)
                         /\ \A i \in Iids : ~Copying(i, d)}
LooseIids ==
  {i \in Iids \ undone : /\ gitlab[i] # Absent /\ idmap[i] = None /\ ~Coming(i)
                         /\ \A d \in Docs : ~Creator(d, i)}

(* Every issue that has lost its partner, or of two that compete for one is
   about to, is paid for by a race.                                        *)
RaceBudget ==
  Cardinality(LooseDocs) + Cardinality(LooseIids)
    + Cardinality(ConflictDocs) + Cardinality(ConflictIids) <= races

IssuesInv ==
  /\ TypeOK /\ OnceEach /\ ColdStart /\ CallBudget /\ EditBudget /\ Dated
  /\ NoIidYet /\ NoDocYet /\ RemoteAgrees /\ LocalAgrees /\ FewClaims /\ RaceBudget

-----------------------------------------------------------------------------
(* Constants and types *)

LEMMA ConstantFacts ==
  /\ MaxClock \in Nat /\ Time \subseteq Nat /\ 0 \in Time /\ None \notin Time
  /\ Docs \subseteq Nat /\ Iids \subseteq Nat /\ None \notin Docs /\ None \notin Iids
  /\ IsFiniteSet(Docs) /\ IsFiniteSet(Iids)
<1>1. MaxDocs \in Nat /\ MaxIids \in Nat /\ MaxClock \in Nat
  BY IssuesAssumption DEF MaxClock
<1>2. IsFiniteSet(Docs) /\ IsFiniteSet(Iids)
  BY <1>1, FS_Interval DEF Docs, Iids
<1> QED BY <1>1, <1>2, IssuesAssumption DEF Time, Docs, Iids

LEMMA JobFacts ==
  /\ Absent \in Version /\ Absent # None
  /\ \A x \in Version : x # None
  /\ \A x \in RemoteJob : x # None
  /\ \A x \in LocalJob : x # None
  BY ConstantFacts, NoneAssumption DEF Absent, Version

-----------------------------------------------------------------------------
(* The changes that wait in a line *)

LEMMA ValsAppend ==
  ASSUME NEW s \in Seq(Change), NEW c \in Change
  PROVE  /\ Append(s, c) \in Seq(Change)
         /\ Vals(Append(s, c)) = Vals(s) \cup ({c.val} \ {None})
<1>1. /\ Append(s, c) \in Seq(Change)
      /\ DOMAIN Append(s, c) = 1..(Len(s) + 1) /\ DOMAIN s = 1..Len(s) /\ Len(s) \in Nat
      /\ \A n \in DOMAIN s : Append(s, c)[n] = s[n]
      /\ Append(s, c)[Len(s) + 1] = c
  OBVIOUS
<1>2. {Append(s, c)[n].val : n \in DOMAIN Append(s, c)} = {s[n].val : n \in DOMAIN s} \cup {c.val}
  BY <1>1
<1> QED BY <1>1, <1>2 DEF Vals

LEMMA ValsTail ==
  ASSUME NEW s \in Seq(Change), s # <<>>
  PROVE  /\ Tail(s) \in Seq(Change) /\ Head(s) \in Change
         /\ Vals(Tail(s)) \subseteq Vals(s)
         /\ Vals(s) = Vals(Tail(s)) \cup ({Head(s).val} \ {None})
         /\ Ascending(s) => /\ Ascending(Tail(s))
                            /\ Head(s).val # None => Head(s).val \notin Vals(Tail(s))
<1>1. /\ Tail(s) \in Seq(Change) /\ Head(s) \in Change /\ Head(s) = s[1]
      /\ DOMAIN Tail(s) = 1..(Len(s) - 1) /\ DOMAIN s = 1..Len(s) /\ Len(s) \in Nat \ {0}
      /\ \A n \in DOMAIN Tail(s) : Tail(s)[n] = s[n + 1]
  OBVIOUS
<1>2. {Tail(s)[n].val : n \in DOMAIN Tail(s)} = {s[n].val : n \in 2..Len(s)}
  <2>1. ASSUME NEW n \in 2..Len(s) PROVE n - 1 \in DOMAIN Tail(s) /\ Tail(s)[n - 1] = s[n]
    BY <1>1
  <2>2. ASSUME NEW n \in DOMAIN Tail(s) PROVE n + 1 \in 2..Len(s) /\ Tail(s)[n] = s[n + 1]
    BY <1>1
  <2>3. ASSUME NEW v \in {s[n].val : n \in 2..Len(s)}
        PROVE  v \in {Tail(s)[n].val : n \in DOMAIN Tail(s)}
    <3>1. PICK n \in 2..Len(s) : v = s[n].val OBVIOUS
    <3> QED BY <2>1, <3>1
  <2>4. ASSUME NEW v \in {Tail(s)[n].val : n \in DOMAIN Tail(s)}
        PROVE  v \in {s[n].val : n \in 2..Len(s)}
    <3>1. PICK n \in DOMAIN Tail(s) : v = Tail(s)[n].val OBVIOUS
    <3> QED BY <2>2, <3>1
  <2> QED BY <2>3, <2>4
<1>3. Vals(s) = Vals(Tail(s)) \cup ({Head(s).val} \ {None})
  <2>1. {s[n].val : n \in DOMAIN s} = {s[n].val : n \in 2..Len(s)} \cup {s[1].val}
    BY <1>1
  <2> QED BY <1>1, <1>2, <2>1 DEF Vals
<1>4. ASSUME Ascending(s) PROVE Ascending(Tail(s))
  BY <1>1, <1>4 DEF Ascending
<1>5. ASSUME Ascending(s), Head(s).val # None PROVE Head(s).val \notin Vals(Tail(s))
  <2> SUFFICES ASSUME NEW n \in 2..Len(s), s[n].val = s[1].val PROVE FALSE
    BY <1>1, <1>2 DEF Vals
  <2>1. s[n].val \in Time
    <3>1. s[n] \in Change BY <1>1
    <3> QED BY <1>1, <1>5, <3>1 DEF Change
  <2>2. s[1].val < s[n].val
    <3>1. 1 \in DOMAIN s /\ n \in DOMAIN s /\ 1 < n BY <1>1
    <3>2. s[1].val # None BY <1>1, <1>5
    <3> QED BY <1>5, <3>1, <3>2 DEF Ascending
  <2>3. s[n].val \in Nat BY <2>1, ConstantFacts
  <2> QED BY <2>2, <2>3
<1> QED BY <1>1, <1>3, <1>4, <1>5

LEMMA ValsEmpty == Vals(<<>>) = {} /\ Ascending(<<>>)
  BY DEF Vals, Ascending

(* A change later than the others keeps the order. *)
LEMMA AscendingAppend ==
  ASSUME NEW s \in Seq(Change), NEW c \in Change, Ascending(s),
         c.val = None \/ \A v \in Vals(s) : v < c.val
  PROVE  Ascending(Append(s, c))
<1>1. /\ DOMAIN Append(s, c) = 1..(Len(s) + 1) /\ DOMAIN s = 1..Len(s) /\ Len(s) \in Nat
      /\ \A n \in DOMAIN s : Append(s, c)[n] = s[n]
      /\ Append(s, c)[Len(s) + 1] = c
  OBVIOUS
<1> SUFFICES ASSUME NEW m \in 1..(Len(s) + 1), NEW n \in 1..(Len(s) + 1), m < n,
                    Append(s, c)[m].val # None, Append(s, c)[n].val # None
             PROVE  Append(s, c)[m].val < Append(s, c)[n].val
  BY <1>1 DEF Ascending
<1>2. CASE n = Len(s) + 1
  <2>1. m \in DOMAIN s BY <1>1, <1>2
  <2>2. s[m].val \in Vals(s) BY <1>1, <2>1 DEF Vals
  <2> QED BY <1>1, <1>2, <2>1, <2>2
<1>3. CASE n # Len(s) + 1
  BY <1>1, <1>3 DEF Ascending
<1> QED BY <1>2, <1>3

-----------------------------------------------------------------------------
(* The changes of one issue in the buffer, by induction on its length *)

Collects(f, b, d, m) ==
  f = [n \in 0..m |-> IF n = 0 THEN <<>>
                      ELSE IF b[n].doc = d THEN Append(f[n - 1], b[n]) ELSE f[n - 1]]

(* The least element that every nonempty set of naturals has. *)
LEMMA LeastNat ==
  ASSUME NEW S \in SUBSET Nat, S # {}
  PROVE  \E x \in S : \A y \in S : x <= y
<1> DEFINE R == OpToRel(<, Nat)
<1>1. IsWellFoundedOn(R, Nat)
  BY NatLessThanWellFounded
<1>2. \A a, b \in Nat : a < b => <<a, b>> \in R
  BY DEF OpToRel
<1> HIDE DEF R
<1>3. PICK x \in S : \A y \in S : ~(<<y, x>> \in R)
  BY <1>1, WFMin
<1>4. ASSUME NEW y \in S PROVE x <= y
  <2>1. x \in Nat /\ y \in Nat OBVIOUS
  <2>2. y < x => <<y, x>> \in R BY <1>2, <2>1
  <2> QED BY <1>3, <2>1, <2>2
<1> QED BY <1>4

(* The recursive function exists: its first argument without one would be a
   successor, and one step extends the function before it.                 *)
LEMMA CollectsExists ==
  ASSUME NEW b, NEW d, NEW k \in Nat
  PROVE  \E f : Collects(f, b, d, k)
<1> DEFINE Bad == {m \in Nat : ~\E f : Collects(f, b, d, m)}
<1> SUFFICES ASSUME Bad # {} PROVE FALSE OBVIOUS
<1>1. PICK m \in Bad : \A y \in Bad : m <= y
  <2>1. Bad \in SUBSET Nat OBVIOUS
  <2> HIDE DEF Bad
  <2> QED BY <2>1, LeastNat
<1>2. m # 0
  <2>1. Collects([n \in 0..0 |-> <<>>], b, d, 0) BY DEF Collects
  <2> QED BY <2>1
<1>3. m - 1 \in Nat /\ m - 1 \notin Bad BY <1>1, <1>2
<1>4. PICK g : Collects(g, b, d, m - 1) BY <1>3
<1> DEFINE h == [n \in 0..m |->
                   IF n = m THEN IF b[m].doc = d THEN Append(g[m - 1], b[m]) ELSE g[m - 1]
                   ELSE g[n]]
<1>5. \A n \in 0..(m - 1) :
        g[n] = IF n = 0 THEN <<>>
               ELSE IF b[n].doc = d THEN Append(g[n - 1], b[n]) ELSE g[n - 1]
  BY <1>4 DEF Collects
<1>6. ASSUME NEW n \in 0..m
      PROVE  h[n] = IF n = 0 THEN <<>>
                    ELSE IF b[n].doc = d THEN Append(h[n - 1], b[n]) ELSE h[n - 1]
  <2>1. CASE n = m BY <2>1, <1>2, <1>3
  <2>2. CASE n # m /\ n # 0 BY <2>2, <1>5, <1>2, <1>3
  <2>3. CASE n = 0 BY <2>3, <1>5, <1>2, <1>3
  <2> QED BY <2>1, <2>2, <2>3
<1>7. Collects(h, b, d, m) BY <1>6 DEF Collects
<1> QED BY <1>7

LEMMA ChangesOfCollects ==
  ASSUME NEW b \in Seq(Change), NEW d
  PROVE  \E f : Collects(f, b, d, Len(b)) /\ ChangesOf(b, d) = f[Len(b)]
<1> DEFINE g == CHOOSE f : f = [n \in 0..Len(b) |->
                  IF n = 0 THEN <<>>
                  ELSE IF b[n].doc = d THEN Append(f[n - 1], b[n]) ELSE f[n - 1]]
<1>1. \E f : f = [n \in 0..Len(b) |->
                    IF n = 0 THEN <<>>
                    ELSE IF b[n].doc = d THEN Append(f[n - 1], b[n]) ELSE f[n - 1]]
  <2>0. Len(b) \in Nat OBVIOUS
  <2>1. PICK f : Collects(f, b, d, Len(b)) BY <2>0, CollectsExists
  <2> QED BY <2>1 DEF Collects
<1>2. Collects(g, b, d, Len(b)) BY <1>1 DEF Collects
<1>3. ChangesOf(b, d) = g[Len(b)] BY DEF ChangesOf
<1> QED BY <1>2, <1>3

(* What is collected from the first m entries: d's changes, in their order. *)
ValsOf(b, d, m) == {b[n].val : n \in {k \in 1..m : b[k].doc = d}} \ {None}

LEMMA ChangesOfFacts ==
  ASSUME NEW b \in Seq(Change), NEW d
  PROVE  /\ ChangesOf(b, d) \in Seq(Change)
         /\ Vals(ChangesOf(b, d)) = ValsOf(b, d, Len(b))
         /\ Ascending(b) => Ascending(ChangesOf(b, d))
         /\ (\A n \in DOMAIN b : b[n].doc # d) => ChangesOf(b, d) = <<>>
<1>1. PICK f : Collects(f, b, d, Len(b)) /\ ChangesOf(b, d) = f[Len(b)]
  BY ChangesOfCollects
<1>2. \A n \in 0..Len(b) :
        f[n] = IF n = 0 THEN <<>>
               ELSE IF b[n].doc = d THEN Append(f[n - 1], b[n]) ELSE f[n - 1]
  BY <1>1 DEF Collects
<1> DEFINE Good(m) == /\ f[m] \in Seq(Change) /\ Vals(f[m]) = ValsOf(b, d, m)
                      /\ Ascending(b) => Ascending(f[m])
                      /\ (\A n \in DOMAIN b : b[n].doc # d) => f[m] = <<>>
           Bad == {m \in 0..Len(b) : ~Good(m)}
<1>3. Good(0)
  <2>0. 0 \in 0..Len(b) OBVIOUS
  <2>1. f[0] = <<>> BY <1>2, <2>0
  <2>2. ValsOf(b, d, 0) = {} BY DEF ValsOf
  <2>3. f[0] \in Seq(Change) BY <2>1
  <2>4. Vals(f[0]) = ValsOf(b, d, 0) BY <2>1, <2>2, ValsEmpty
  <2>5. Ascending(f[0]) BY <2>1, ValsEmpty
  <2> QED BY <2>1, <2>3, <2>4, <2>5
<1>4. ASSUME NEW m \in 1..Len(b), Good(m - 1) PROVE Good(m)
  <2>1. b[m] \in Change /\ m \in Nat /\ Len(b) \in Nat /\ m - 1 \in Nat OBVIOUS
  <2>2. f[m] = IF b[m].doc = d THEN Append(f[m - 1], b[m]) ELSE f[m - 1]
    BY <1>2, <2>1
  <2>3. ValsOf(b, d, m) = ValsOf(b, d, m - 1) \cup (IF b[m].doc = d THEN {b[m].val} \ {None} ELSE {})
    <3>1. {k \in 1..m : b[k].doc = d} = {k \in 1..(m - 1) : b[k].doc = d}
                                         \cup (IF b[m].doc = d THEN {m} ELSE {})
      BY <2>1
    <3> QED BY <3>1 DEF ValsOf
  <2>4. CASE b[m].doc # d BY <1>4, <2>2, <2>3, <2>4
  <2>5. CASE b[m].doc = d
    <3>1. f[m] \in Seq(Change) /\ Vals(f[m]) = ValsOf(b, d, m)
      BY <1>4, <2>1, <2>2, <2>3, <2>5, ValsAppend
    <3>2. ASSUME Ascending(b) PROVE Ascending(f[m])
      <4>1. b[m].val = None \/ \A v \in Vals(f[m - 1]) : v < b[m].val
        <5> SUFFICES ASSUME b[m].val # None, NEW v \in ValsOf(b, d, m - 1) PROVE v < b[m].val
          BY <1>4
        <5>1. PICK k \in 1..(m - 1) : v = b[k].val /\ v # None BY DEF ValsOf
        <5> QED BY <2>1, <3>2, <5>1 DEF Ascending
      <4> QED BY <1>4, <2>1, <2>2, <2>5, <3>2, <4>1, AscendingAppend
    <3>3. m \in DOMAIN b BY <2>1
    <3> QED BY <2>5, <3>1, <3>2, <3>3
  <2> QED BY <2>4, <2>5
<1>5. Bad = {}
  <2> SUFFICES ASSUME Bad # {} PROVE FALSE OBVIOUS
  <2>1. PICK m \in Bad : \A y \in Bad : m <= y
    <3>1. Bad \in SUBSET Nat OBVIOUS
    <3> HIDE DEF Bad
    <3> QED BY <3>1, LeastNat
  <2>2. m \in 1..Len(b) /\ m - 1 \in 0..Len(b)
    <3>1. m \in 0..Len(b) /\ ~Good(m) OBVIOUS
    <3>2. m # 0 BY <1>3, <3>1
    <3> QED BY <3>1, <3>2
  <2>3. m - 1 \notin Bad BY <2>1, <2>2
  <2>4. Good(m - 1) BY <2>2, <2>3
  <2>5. Good(m)
    <3> HIDE DEF Good
    <3> QED BY <1>4, <2>2, <2>4
  <2> QED BY <2>5
<1>6. Good(Len(b)) BY <1>5
<1> QED BY <1>1, <1>6

-----------------------------------------------------------------------------
(* TxSubscriber.onTx *)

(* The pod's own writes carry the marker: they leave lines and buffer alone. *)
LEMMA OnTxPod ==
  ASSUME NEW d, NEW val, NEW titled, OnTx(d, val, titled, "pod", TRUE)
  PROVE  UNCHANGED <<line, buffer>>
  BY DEF OnTx, Echo

(* A person's change, with its title or without. *)
UserTx(d, val) == \E titled \in BOOLEAN : OnTx(d, val, titled, "user", FALSE)

LEMMA PeopleWrite ==
  ASSUME NEW d \in Docs
  PROVE  /\ EditHuly(d) => UserTx(d, clock')
         /\ TouchHuly(d) \/ RemoveHuly(d) => UserTx(d, None)
  BY DEF UserTx, EditHuly, TouchHuly, RemoveHuly

LEMMA OnTxUser ==
  ASSUME TypeOK, NEW d \in Docs, NEW val \in Time \cup {None}, UserTx(d, val)
  PROVE  \E c \in Change :
         /\ c.doc = d /\ c.val = val
         /\ \/ started /\ line' = [line EXCEPT ![d] = Append(line[d], c)] /\ buffer' = buffer
            \/ ~started /\ ~Overflows /\ line' = line /\ buffer' = Append(buffer, c)
            \/ Overflows /\ UNCHANGED <<line, buffer>>
         /\ line' \in [Docs -> Seq(Change)]
         /\ buffer' \in Seq(Change) /\ Len(buffer') <= BUFFER_MAX
<1> PICK titled \in BOOLEAN : OnTx(d, val, titled, "user", FALSE) BY DEF UserTx
<1> DEFINE c == [doc |-> d, val |-> val, titled |-> titled]
<1>0. ~Echo("user", FALSE) BY DEF Echo
<1>1. c \in Change /\ c.doc = d /\ c.val = val BY DEF Change
<1>2. line \in [Docs -> Seq(Change)] /\ buffer \in Seq(Change) /\ Len(buffer) <= BUFFER_MAX
      /\ BUFFER_MAX \in Nat
  BY IssuesAssumption DEF TypeOK
<1>3. CASE started
  <2>1. line' = [line EXCEPT ![d] = Append(line[d], c)] /\ buffer' = buffer
    BY <1>0, <1>3 DEF OnTx
  <2>2. line' \in [Docs -> Seq(Change)] BY <1>1, <1>2, <2>1, ValsAppend
  <2> QED BY <1>1, <1>2, <1>3, <2>1, <2>2
<1>4. CASE ~started /\ HasRoom
  <2>1. line' = line /\ buffer' = Append(buffer, c) BY <1>0, <1>4 DEF OnTx
  <2>2. Len(buffer) < BUFFER_MAX /\ Len(buffer) \in Nat BY <1>2, <1>4 DEF HasRoom
  <2>3. buffer' \in Seq(Change) /\ Len(buffer') = Len(buffer) + 1 BY <1>1, <1>2, <2>1
  <2> QED BY <1>1, <1>2, <1>4, <2>1, <2>2, <2>3 DEF Overflows
<1>5. CASE ~started /\ ~HasRoom
  <2>1. line' = line /\ buffer' = buffer BY <1>0, <1>5 DEF OnTx
  <2> QED BY <1>1, <1>2, <1>5, <2>1 DEF Overflows
<1> QED BY <1>3, <1>4, <1>5

-----------------------------------------------------------------------------
(* Types *)

LEMMA InitTypeOK == Init => TypeOK
<1> SUFFICES ASSUME Init PROVE TypeOK OBVIOUS
<1>1. gitlab \in [Iids -> Version] /\ huly \in [Docs -> Version \cup {None}]
  BY JobFacts DEF Init
<1>2. idmap \in [Iids -> Docs \cup {None}] /\ cursor \in 0..(MaxClock + 1) /\ clock \in Time
  BY ConstantFacts DEF Init
<1>3. queued \subseteq Event /\ polled \subseteq Event
  BY DEF Init
<1>4. remote \in [Iids -> RemoteJob \cup {None}] /\ local \in [Docs -> LocalJob \cup {None}]
  BY DEF Init
<1>5. line \in [Docs -> Seq(Change)] /\ buffer \in Seq(Change) /\ Len(buffer) <= BUFFER_MAX
  BY IssuesAssumption DEF Init
<1>6. edits \in [{"gitlab", "huly"} -> 0..(MaxEdits + MaxTouches)]
  BY IssuesAssumption DEF Init
<1>7. touches \in 0..MaxTouches /\ troubles \in 0..MaxTroubles /\ races \in Nat
  BY IssuesAssumption DEF Init
<1>8. started \in BOOLEAN /\ undone \subseteq Iids /\ unsent \subseteq Docs
  BY DEF Init
<1> QED BY <1>1, <1>2, <1>3, <1>4, <1>5, <1>6, <1>7, <1>8 DEF TypeOK

LEMMA CountFacts ==
  ASSUME TypeOK
  PROVE  /\ edits["gitlab"] \in Nat /\ edits["huly"] \in Nat /\ clock \in Nat /\ touches \in Nat
         /\ MaxEdits \in Nat /\ MaxTouches \in Nat /\ MaxTroubles \in Nat /\ races \in Nat
         /\ troubles \in Nat /\ cursor \in Nat
  BY IssuesAssumption, ConstantFacts DEF TypeOK

LEMMA InFlightFinite ==
  ASSUME TypeOK, OnceEach
  PROVE  IsFiniteSet(InFlight) /\ Cardinality(InFlight) \in Nat
<1>1. clock \in Int BY CountFacts
<1>2. IsFiniteSet(1..clock) BY <1>1, FS_Interval
<1>3. InFlight \in SUBSET (1..clock) BY DEF OnceEach
<1>4. IsFiniteSet(InFlight)
  <2> HIDE DEF InFlight
  <2> QED BY <1>2, <1>3, FS_Subset
<1> QED BY <1>4, FS_CardinalityType

(* The clock never runs out, because the calls are paid for. *)
LEMMA ClockBound ==
  ASSUME IssuesInv
  PROVE  clock <= 2 * (edits["gitlab"] + edits["huly"])
<1>1. Cardinality(InFlight) \in Nat BY InFlightFinite DEF IssuesInv
<1>2. clock - edits["gitlab"] - edits["huly"] + Cardinality(InFlight) <= edits["huly"]
  BY DEF IssuesInv, CallBudget, Calls
<1> QED BY <1>1, <1>2, CountFacts DEF IssuesInv

LEMMA ClockRoom ==
  ASSUME IssuesInv,
         edits["gitlab"] + edits["huly"] < MaxEdits \/ touches < MaxTouches
  PROVE  clock + 1 \in Time /\ clock + 1 # 0
<1> DEFINE a == edits["gitlab"]
           h == edits["huly"]
<1>1. a \in Nat /\ h \in Nat /\ clock \in Nat /\ touches \in Nat /\ MaxEdits \in Nat /\ MaxTouches \in Nat
  BY CountFacts DEF IssuesInv
<1>2. clock <= 2 * (a + h) BY ClockBound
<1>3. a + h <= MaxEdits + touches /\ touches <= MaxTouches
  BY <1>1 DEF IssuesInv, EditBudget, TypeOK
<1> HIDE DEF a, h
<1>4. a + h < MaxEdits + MaxTouches
  BY <1>1, <1>3 DEF a, h
<1>5. clock + 1 <= 2 * MaxEdits + 2 * MaxTouches + 2 BY <1>1, <1>2, <1>4
<1> QED BY <1>1, <1>5 DEF Time, MaxClock

LEMMA TroubleType ==
  ASSUME TypeOK, Trouble
  PROVE  troubles' \in 0..MaxTroubles
  BY CountFacts DEF TypeOK, Trouble

(* setCursor writes its value or fails. *)
LEMMA SetCursorType ==
  ASSUME TypeOK, NEW t \in 0..(MaxClock + 1), SetCursor(t)
  PROVE  /\ cursor' \in 0..(MaxClock + 1) /\ troubles' \in 0..MaxTroubles
         /\ cursor' = t \/ cursor' = cursor
<1>1. CASE cursor' = t /\ UNCHANGED troubles BY <1>1 DEF TypeOK
<1>2. CASE Trouble /\ UNCHANGED cursor BY <1>2, TroubleType DEF TypeOK
<1> QED BY <1>1, <1>2 DEF SetCursor

(* A time and the present are cursors. *)
LEMMA CursorTimes ==
  ASSUME TypeOK
  PROVE  clock + 1 \in 0..(MaxClock + 1) /\ Time \subseteq 0..(MaxClock + 1)
<1>1. clock \in 0..MaxClock /\ MaxClock \in Nat BY ConstantFacts DEF TypeOK, Time
<1> QED BY <1>1 DEF Time

LEMMA CountType ==
  ASSUME TypeOK, EditBudget, NEW side \in {"gitlab", "huly"}, Count(side),
         edits["gitlab"] + edits["huly"] < MaxEdits \/ touches < MaxTouches
  PROVE  edits' \in [{"gitlab", "huly"} -> 0..(MaxEdits + MaxTouches)]
<1>1. edits["gitlab"] + edits["huly"] < MaxEdits + MaxTouches
  BY CountFacts DEF EditBudget, TypeOK
<1>2. edits[side] + 1 \in 0..(MaxEdits + MaxTouches)
  BY <1>1, CountFacts
<1> QED BY <1>2 DEF TypeOK, Count

LEMMA TypeEdit ==
  ASSUME IssuesInv,
         \/ \E i \in Iids : EditGitlab(i)
         \/ \E d \in Docs : EditHuly(d) \/ TouchHuly(d)
  PROVE  TypeOK' /\ clock' = clock + 1 /\ clock' \in Time /\ clock' # 0
<1>1. ASSUME NEW i \in Iids, EditGitlab(i)
      PROVE  TypeOK' /\ clock' = clock + 1 /\ clock' \in Time /\ clock' # 0
  <2>1. clock' = clock + 1 /\ clock' \in Time /\ clock' # 0 BY <1>1, ClockRoom DEF EditGitlab
  <2>2. gitlab' \in [Iids -> Version]
    BY <1>1, <2>1 DEF EditGitlab, IssuesInv, TypeOK, Version
  <2>3. edits' \in [{"gitlab", "huly"} -> 0..(MaxEdits + MaxTouches)]
    BY <1>1, CountType DEF EditGitlab, IssuesInv
  <2>4. undone' \subseteq Iids BY <1>1 DEF EditGitlab, IssuesInv, TypeOK
  <2> QED BY <1>1, <2>1, <2>2, <2>3, <2>4 DEF EditGitlab, IssuesInv, TypeOK
<1>2. ASSUME NEW d \in Docs, EditHuly(d)
      PROVE  TypeOK' /\ clock' = clock + 1 /\ clock' \in Time /\ clock' # 0
  <2>1. clock' = clock + 1 /\ clock' \in Time /\ clock' # 0 BY <1>2, ClockRoom DEF EditHuly
  <2>2. huly' \in [Docs -> Version \cup {None}]
    BY <1>2, <2>1 DEF EditHuly, IssuesInv, TypeOK, Version
  <2>3. edits' \in [{"gitlab", "huly"} -> 0..(MaxEdits + MaxTouches)]
    BY <1>2, CountType DEF EditHuly, IssuesInv
  <2>4. line' \in [Docs -> Seq(Change)] /\ buffer' \in Seq(Change) /\ Len(buffer') <= BUFFER_MAX
    BY <1>2, <2>1, PeopleWrite, OnTxUser DEF IssuesInv
  <2>5. unsent' \subseteq Docs BY <1>2 DEF EditHuly, IssuesInv, TypeOK
  <2> QED BY <1>2, <2>1, <2>2, <2>3, <2>4, <2>5 DEF EditHuly, IssuesInv, TypeOK
<1>3. ASSUME NEW d \in Docs, TouchHuly(d)
      PROVE  TypeOK' /\ clock' = clock + 1 /\ clock' \in Time /\ clock' # 0
  <2>1. clock' = clock + 1 /\ clock' \in Time /\ clock' # 0 BY <1>3, ClockRoom DEF TouchHuly
  <2>2. huly' \in [Docs -> Version \cup {None}]
    <3>1. huly[d] \in Version BY <1>3 DEF TouchHuly, Alive, IssuesInv, TypeOK
    <3>2. [huly[d] EXCEPT !.ts = clock'] \in Version BY <2>1, <3>1 DEF Version
    <3> QED BY <1>3, <3>2 DEF TouchHuly, IssuesInv, TypeOK
  <2>3. edits' \in [{"gitlab", "huly"} -> 0..(MaxEdits + MaxTouches)]
    BY <1>3, CountType DEF TouchHuly, IssuesInv
  <2>4. line' \in [Docs -> Seq(Change)] /\ buffer' \in Seq(Change) /\ Len(buffer') <= BUFFER_MAX
    BY <1>3, PeopleWrite, OnTxUser DEF IssuesInv
  <2>5. touches' \in 0..MaxTouches BY <1>3, CountFacts DEF TouchHuly, IssuesInv, TypeOK
  <2> QED BY <1>3, <2>1, <2>2, <2>3, <2>4, <2>5 DEF TouchHuly, IssuesInv, TypeOK
<1> QED BY <1>1, <1>2, <1>3

LEMMA TypeRemoveHuly ==
  ASSUME IssuesInv, NEW d \in Docs, RemoveHuly(d)
  PROVE  TypeOK'
<1>1. line' \in [Docs -> Seq(Change)] /\ buffer' \in Seq(Change) /\ Len(buffer') <= BUFFER_MAX
  BY PeopleWrite, OnTxUser DEF IssuesInv
<1>2. troubles' \in 0..MaxTroubles BY TroubleType DEF RemoveHuly, IssuesInv
<1>3. huly' \in [Docs -> Version \cup {None}] BY DEF RemoveHuly, IssuesInv, TypeOK
<1> QED BY <1>1, <1>2, <1>3 DEF RemoveHuly, IssuesInv, TypeOK

LEMMA TypeMarkEngineStarted ==
  ASSUME IssuesInv, MarkEngineStarted
  PROVE  TypeOK'
<1>1. \A d \in Docs : ChangesOf(buffer, d) \in Seq(Change)
  BY ChangesOfFacts DEF IssuesInv, TypeOK
<1>2. line' \in [Docs -> Seq(Change)]
  BY <1>1 DEF MarkEngineStarted, IssuesInv, TypeOK
<1>3. buffer' \in Seq(Change) /\ Len(buffer') <= BUFFER_MAX
  BY IssuesAssumption DEF MarkEngineStarted
<1> QED BY <1>2, <1>3 DEF MarkEngineStarted, IssuesInv, TypeOK

LEMMA FindByHulyFacts ==
  ASSUME NEW d
  PROVE  FindByHuly(d) \subseteq Iids
         /\ (FindByHuly(d) # {} => (CHOOSE i \in FindByHuly(d) : TRUE) \in FindByHuly(d))
  BY DEF FindByHuly

(* The valued change at the head of a line becomes a job. *)
BeginJob(d) ==
  [at |-> "call", val |-> Head(line[d]).val, new |-> FindByHuly(d) = {},
   iid |-> IF FindByHuly(d) = {} THEN None ELSE CHOOSE i \in FindByHuly(d) : TRUE]

LEMMA LocalBeginFacts ==
  ASSUME IssuesInv, NEW d \in Docs, LocalBegin(d)
  PROVE  /\ local[d] = None /\ line[d] \in Seq(Change) /\ line[d] # <<>>
         /\ line' = [line EXCEPT ![d] = Tail(line[d])]
         /\ line' \in [Docs -> Seq(Change)] /\ Head(line[d]) \in Change
         /\ \/ UNCHANGED local /\ (Head(line[d]).val = None \/ unsent' = unsent \cup {d})
            \/ /\ Head(line[d]).val # None /\ local' = [local EXCEPT ![d] = BeginJob(d)]
               /\ BeginJob(d) \in LocalJob
         /\ unsent' \subseteq Docs /\ unsent \subseteq unsent'
<1>1. local[d] = None /\ line[d] \in Seq(Change) /\ line[d] # <<>>
  BY DEF LocalBegin, IssuesInv, TypeOK
<1>2. Tail(line[d]) \in Seq(Change) /\ Head(line[d]) \in Change BY <1>1, ValsTail
<1>3. line' = [line EXCEPT ![d] = Tail(line[d])] BY DEF LocalBegin
<1>4. line' \in [Docs -> Seq(Change)] BY <1>2, <1>3 DEF IssuesInv, TypeOK
<1>7. unsent' \subseteq Docs /\ unsent \subseteq unsent' BY DEF LocalBegin, IssuesInv, TypeOK
<1>5. CASE ~Begins(Head(line[d]), d) BY <1>1, <1>2, <1>3, <1>4, <1>5, <1>7 DEF LocalBegin
<1>6. CASE Begins(Head(line[d]), d)
  <2>0. Head(line[d]).val # None BY <1>6 DEF Begins
  <2>1. local' = [local EXCEPT ![d] = BeginJob(d)] BY <1>6 DEF LocalBegin, BeginJob
  <2>2. Head(line[d]).val \in Time BY <1>2, <2>0 DEF Change
  <2>3. BeginJob(d) \in LocalJob
    <3> DEFINE i == IF FindByHuly(d) = {} THEN None ELSE CHOOSE j \in FindByHuly(d) : TRUE
    <3>1. i \in Iids \cup {None} BY FindByHulyFacts
    <3> HIDE DEF i
    <3>2. BeginJob(d) = [at |-> "call", val |-> Head(line[d]).val, new |-> FindByHuly(d) = {}, iid |-> i]
      BY DEF BeginJob, i
    <3> QED BY <2>2, <3>1, <3>2 DEF LocalJob
  <2> QED BY <1>1, <1>2, <1>3, <1>4, <1>7, <2>0, <2>1, <2>3
<1> QED BY <1>5, <1>6

(* What an event leaves when it is dropped at an open breaker. *)
LEMMA LocalDroppedFacts ==
  ASSUME IssuesInv, NEW d \in Docs, LocalDropped(d)
  PROVE  /\ local[d] = None /\ line[d] \in Seq(Change) /\ line[d] # <<>>
         /\ line' = [line EXCEPT ![d] = Tail(line[d])]
         /\ line' \in [Docs -> Seq(Change)]
<1>1. local[d] = None /\ line[d] \in Seq(Change) /\ line[d] # <<>>
  BY DEF LocalDropped, IssuesInv, TypeOK
<1>2. Tail(line[d]) \in Seq(Change) BY <1>1, ValsTail
<1>3. line' = [line EXCEPT ![d] = Tail(line[d])] BY DEF LocalDropped
<1> QED BY <1>1, <1>2, <1>3 DEF IssuesInv, TypeOK

LEMMA TypeLocal ==
  ASSUME IssuesInv, NEW d \in Docs,
         LocalBegin(d) \/ LocalCall(d) \/ LocalFinish(d) \/ LocalDropped(d) \/ LocalThrows(d)
  PROVE  TypeOK'
<1>1. CASE LocalBegin(d)
  <2>1. local' \in [Docs -> LocalJob \cup {None}] /\ line' \in [Docs -> Seq(Change)]
    BY <1>1, LocalBeginFacts DEF IssuesInv, TypeOK
  <2>2. races' \in Nat
    <3>1. races' = races \/ races' = races + 1 BY <1>1 DEF LocalBegin
    <3> QED BY <3>1, CountFacts DEF IssuesInv
  <2> QED BY <1>1, <2>1, <2>2 DEF LocalBegin, IssuesInv, TypeOK
<1>2. CASE LocalCall(d)
  <2>1. local[d] \in LocalJob BY <1>2 DEF LocalCall, IssuesInv, TypeOK
  <2>2. PICK i \in Iids :
          /\ clock' = clock + 1
          /\ gitlab' = [gitlab EXCEPT ![i] = [val |-> local[d].val, ts |-> clock']]
          /\ local' = [local EXCEPT ![d].at = "finish", ![d].iid = i]
    BY <1>2 DEF LocalCall
  <2>3. clock' \in Time
    <3>1. clock \in 0..MaxClock BY DEF IssuesInv, TypeOK, Time
    <3>2. clock < MaxClock BY <1>2 DEF LocalCall
    <3>3. clock + 1 \in 0..MaxClock BY <3>1, <3>2, ConstantFacts
    <3> QED BY <2>2, <3>3 DEF Time
  <2>4. gitlab' \in [Iids -> Version]
    BY <2>1, <2>2, <2>3 DEF IssuesInv, TypeOK, Version, LocalJob
  <2>5. local' \in [Docs -> LocalJob \cup {None}]
    <3>1. [local[d] EXCEPT !.at = "finish", !.iid = i] \in LocalJob BY <2>1 DEF LocalJob
    <3>2. local' = [local EXCEPT ![d] = [local[d] EXCEPT !.at = "finish", !.iid = i]]
      BY <2>2 DEF IssuesInv, TypeOK
    <3> QED BY <3>1, <3>2 DEF IssuesInv, TypeOK
  <2>6. undone' \subseteq Iids BY <1>2 DEF LocalCall, IssuesInv, TypeOK
  <2> QED BY <1>2, <2>3, <2>4, <2>5, <2>6 DEF LocalCall, IssuesInv, TypeOK
<1>3. CASE LocalFinish(d)
  <2>1. local[d] \in LocalJob BY <1>3 DEF LocalFinish, IssuesInv, TypeOK
  <2>2. local[d].iid \in Iids BY <1>3 DEF LocalFinish, IssuesInv, LocalAgrees
  <2>3. idmap' \in [Iids -> Docs \cup {None}]
    BY <1>3, <2>2 DEF LocalFinish, Mapped, IssuesInv, TypeOK
  <2>4. cursor' \in 0..(MaxClock + 1) /\ troubles' \in 0..MaxTroubles
    <3>1. CASE SetCursor(clock + 1) BY <3>1, SetCursorType, CursorTimes DEF IssuesInv
    <3>2. CASE UNCHANGED <<cursor, troubles>> BY <3>2 DEF IssuesInv, TypeOK
    <3> QED BY <1>3, <3>1, <3>2 DEF LocalFinish
  <2>5. undone' \subseteq Iids /\ unsent' \subseteq Docs
    BY <1>3, <2>2 DEF LocalFinish, Skipped, Displaced, IssuesInv, TypeOK
  <2>6. local' \in [Docs -> LocalJob \cup {None}]
    BY <1>3 DEF LocalFinish, IssuesInv, TypeOK
  <2> QED BY <1>3, <2>3, <2>4, <2>5, <2>6 DEF LocalFinish, IssuesInv, TypeOK
<1>4. CASE LocalDropped(d)
  <2>1. troubles' \in 0..MaxTroubles BY <1>4, TroubleType DEF LocalDropped, IssuesInv
  <2>2. unsent' \subseteq Docs BY <1>4 DEF LocalDropped, IssuesInv, TypeOK
  <2> QED BY <1>4, <2>1, <2>2, LocalDroppedFacts DEF LocalDropped, IssuesInv, TypeOK
<1>5. CASE LocalThrows(d)
  <2>1. troubles' \in 0..MaxTroubles BY <1>5, TroubleType DEF LocalThrows, IssuesInv
  <2>2. unsent' \subseteq Docs /\ undone' \subseteq Iids BY <1>5 DEF LocalThrows, IssuesInv, TypeOK
  <2>3. local' \in [Docs -> LocalJob \cup {None}] BY <1>5 DEF LocalThrows, IssuesInv, TypeOK
  <2> QED BY <1>5, <2>1, <2>2, <2>3 DEF LocalThrows, IssuesInv, TypeOK
<1> QED BY <1>1, <1>2, <1>3, <1>4, <1>5

LEMMA RemoteFacts ==
  ASSUME IssuesInv, NEW i \in Iids, remote[i] # None
  PROVE  /\ remote[i] \in RemoteJob /\ remote[i].ev \in Event /\ remote[i].ev \in queued
         /\ remote[i].ev.iid = i /\ remote[i].ev.val \in Time /\ remote[i].ev.ts \in Time
         /\ remote[i].ev.val # 0 /\ remote[i].ev.ts \in 1..clock
         /\ remote[i].seen \in Version
         /\ remote[i].at \in {"create", "map", "read", "write"}
         /\ remote[i].at # "create" => remote[i].doc \in Docs
<1>1. remote[i] \in RemoteJob BY DEF IssuesInv, TypeOK
<1>2. remote[i].ev \in queued /\ remote[i].ev.iid = i
      /\ (remote[i].at # "create" => remote[i].doc \in Docs)
  BY DEF IssuesInv, RemoteAgrees
<1>3. remote[i].ev.val # 0 /\ remote[i].ev.ts \in 1..clock
  BY <1>2 DEF IssuesInv, Dated
<1> QED BY <1>1, <1>2, <1>3 DEF RemoteJob, Event

LEMMA RemoteEndType ==
  ASSUME TypeOK, NEW i \in Iids, RemoteEnd(i)
  PROVE  remote' \in [Iids -> RemoteJob \cup {None}] /\ queued' \subseteq Event
  BY DEF TypeOK, RemoteEnd

LEMMA TypeRemote ==
  ASSUME IssuesInv,
         \/ \E e \in queued : RemoteBegin(e) \/ RemoteDropped(e)
         \/ \E i \in Iids : RemoteCreate(i) \/ RemoteMap(i) \/ RemoteRead(i) \/ RemoteWrite(i)
                            \/ RemoteThrows(i)
  PROVE  TypeOK'
<1>1. ASSUME NEW e \in queued, RemoteBegin(e) PROVE TypeOK'
  <2>1. e \in Event /\ e.iid \in Iids BY DEF IssuesInv, TypeOK, Event
  <2>2. [at |-> IF idmap[e.iid] = None THEN "create" ELSE "read", ev |-> e,
         doc |-> idmap[e.iid], seen |-> Absent] \in RemoteJob
    BY <2>1, JobFacts DEF RemoteJob, IssuesInv, TypeOK
  <2>3. remote' \in [Iids -> RemoteJob \cup {None}]
    BY <1>1, <2>1, <2>2 DEF RemoteBegin, IssuesInv, TypeOK
  <2>4. races' \in Nat
    <3>1. races' = races \/ races' = races + 1 BY <1>1 DEF RemoteBegin
    <3> QED BY <3>1, CountFacts DEF IssuesInv
  <2> QED BY <1>1, <2>3, <2>4 DEF RemoteBegin, IssuesInv, TypeOK
<1>2. ASSUME NEW i \in Iids, RemoteCreate(i) PROVE TypeOK'
  <2>1. remote[i] # None BY <1>2 DEF RemoteCreate
  <2>2. PICK d \in Docs :
          /\ huly' = [huly EXCEPT ![d] = [val |-> remote[i].ev.val, ts |-> remote[i].ev.ts]]
          /\ OnTx(d, remote[i].ev.val, TRUE, "pod", TRUE)
          /\ remote' = [remote EXCEPT ![i].at = "map", ![i].doc = d]
    BY <1>2 DEF RemoteCreate
  <2>3. UNCHANGED <<line, buffer>> BY <2>2, OnTxPod
  <2>4. huly' \in [Docs -> Version \cup {None}]
    BY <2>1, <2>2, RemoteFacts DEF IssuesInv, TypeOK, Version
  <2>5. remote' \in [Iids -> RemoteJob \cup {None}]
    <3>1. remote[i] \in RemoteJob BY <2>1, RemoteFacts
    <3>2. [remote[i] EXCEPT !.at = "map", !.doc = d] \in RemoteJob BY <3>1 DEF RemoteJob
    <3>3. remote' = [remote EXCEPT ![i] = [remote[i] EXCEPT !.at = "map", !.doc = d]]
      BY <2>2 DEF IssuesInv, TypeOK
    <3> QED BY <3>2, <3>3 DEF IssuesInv, TypeOK
  <2> QED BY <1>2, <2>3, <2>4, <2>5 DEF RemoteCreate, IssuesInv, TypeOK
<1>3. ASSUME NEW i \in Iids, RemoteMap(i) PROVE TypeOK'
  <2>1. remote[i] # None BY <1>3 DEF RemoteMap
  <2>2. remote[i].doc \in Docs BY <1>3, <2>1, RemoteFacts DEF RemoteMap
  <2>3. idmap' \in [Iids -> Docs \cup {None}]
    BY <1>3, <2>2 DEF RemoteMap, Mapped, IssuesInv, TypeOK
  <2>4. cursor' \in 0..(MaxClock + 1) /\ troubles' \in 0..MaxTroubles
    <3>1. CASE SetCursor(remote[i].ev.ts)
      BY <3>1, <2>1, RemoteFacts, SetCursorType, CursorTimes DEF IssuesInv
    <3>2. CASE UNCHANGED <<cursor, troubles>> BY <3>2 DEF IssuesInv, TypeOK
    <3> QED BY <1>3, <3>1, <3>2 DEF RemoteMap
  <2>5. undone' \subseteq Iids
    BY <1>3 DEF RemoteMap, Skipped, Displaced, IssuesInv, TypeOK
  <2>6. remote' \in [Iids -> RemoteJob \cup {None}] /\ queued' \subseteq Event
    BY <1>3, RemoteEndType DEF RemoteMap, IssuesInv
  <2> QED BY <1>3, <2>3, <2>4, <2>5, <2>6 DEF RemoteMap, IssuesInv, TypeOK
<1>4. ASSUME NEW i \in Iids, RemoteRead(i) PROVE TypeOK'
  <2>1. remote[i] # None BY <1>4 DEF RemoteRead
  <2>2. remote[i].doc \in Docs BY <1>4, <2>1, RemoteFacts DEF RemoteRead
  <2>3. remote' \in [Iids -> RemoteJob \cup {None}] /\ queued' \subseteq Event
    <3>1. CASE huly[remote[i].doc] = None
      BY <1>4, <3>1, RemoteEndType DEF RemoteRead, IssuesInv
    <3>2. CASE huly[remote[i].doc] # None
      <4>1. huly[remote[i].doc] \in Version BY <2>2, <3>2 DEF IssuesInv, TypeOK
      <4>2. remote[i] \in RemoteJob BY <2>1, RemoteFacts
      <4>3. [remote[i] EXCEPT !.at = "write", !.seen = huly[remote[i].doc]] \in RemoteJob
        BY <4>1, <4>2 DEF RemoteJob
      <4>4. remote' = [remote EXCEPT ![i] = [remote[i] EXCEPT !.at = "write", !.seen = huly[remote[i].doc]]]
        BY <1>4, <3>2 DEF RemoteRead, IssuesInv, TypeOK
      <4> QED BY <1>4, <3>2, <4>3, <4>4 DEF RemoteRead, IssuesInv, TypeOK
    <3> QED BY <3>1, <3>2
  <2> QED BY <1>4, <2>3 DEF RemoteRead, IssuesInv, TypeOK
<1>5. ASSUME NEW i \in Iids, RemoteWrite(i) PROVE TypeOK'
  <2>1. remote[i] # None BY <1>5 DEF RemoteWrite
  <2>2. UNCHANGED <<line, buffer>> BY <1>5, OnTxPod DEF RemoteWrite
  <2>3. huly' \in [Docs -> Version \cup {None}]
    <3>1. [val |-> remote[i].ev.val, ts |-> remote[i].ev.ts] \in Version
      BY <2>1, RemoteFacts DEF Version
    <3> QED BY <1>5, <3>1 DEF RemoteWrite, IssuesInv, TypeOK
  <2>4. cursor' \in 0..(MaxClock + 1) /\ troubles' \in 0..MaxTroubles
    <3>1. CASE SetCursor(remote[i].ev.ts)
      BY <3>1, <2>1, RemoteFacts, SetCursorType, CursorTimes DEF IssuesInv
    <3>2. CASE UNCHANGED <<cursor, troubles>> BY <3>2 DEF IssuesInv, TypeOK
    <3> QED BY <1>5, <3>1, <3>2 DEF RemoteWrite
  <2>5. undone' \subseteq Iids /\ unsent' \subseteq Docs
    BY <1>5 DEF RemoteWrite, Skipped, FindByHuly, IssuesInv, TypeOK
  <2>6. remote' \in [Iids -> RemoteJob \cup {None}] /\ queued' \subseteq Event
    BY <1>5, RemoteEndType DEF RemoteWrite, IssuesInv
  <2> QED BY <1>5, <2>2, <2>3, <2>4, <2>5, <2>6 DEF RemoteWrite, IssuesInv, TypeOK
<1>6. ASSUME NEW i \in Iids, RemoteThrows(i) PROVE TypeOK'
  <2>1. remote' \in [Iids -> RemoteJob \cup {None}] /\ queued' \subseteq Event
    BY <1>6, RemoteEndType DEF RemoteThrows, IssuesInv
  <2>2. troubles' \in 0..MaxTroubles BY <1>6, TroubleType DEF RemoteThrows, IssuesInv
  <2>3. undone' \subseteq Iids /\ unsent' \subseteq Docs BY <1>6 DEF RemoteThrows, IssuesInv, TypeOK
  <2> QED BY <1>6, <2>1, <2>2, <2>3 DEF RemoteThrows, IssuesInv, TypeOK
<1>7. ASSUME NEW e \in queued, RemoteDropped(e) PROVE TypeOK'
  <2>1. troubles' \in 0..MaxTroubles BY <1>7, TroubleType DEF RemoteDropped, IssuesInv
  <2>2. e.iid \in Iids BY DEF IssuesInv, TypeOK, Event
  <2>3. undone' \subseteq Iids BY <1>7, <2>2 DEF RemoteDropped, IssuesInv, TypeOK
  <2> QED BY <1>7, <2>1, <2>3 DEF RemoteDropped, IssuesInv, TypeOK
<1> QED BY <1>1, <1>2, <1>3, <1>4, <1>5, <1>6, <1>7

LEMMA TypeBackfill ==
  ASSUME IssuesInv, Backfill
  PROVE  TypeOK'
<1>1. \A i \in Iids : Current(i) \in Event
  BY DEF Current, Event, IssuesInv, TypeOK, Version
<1>2. queued' \subseteq Event /\ polled' \subseteq Event
  BY <1>1 DEF Backfill, IssuesInv, TypeOK
<1> QED BY <1>2 DEF Backfill, IssuesInv, TypeOK

LEMMA TypeCrash ==
  ASSUME IssuesInv, Crash
  PROVE  TypeOK'
<1>1. troubles' \in 0..MaxTroubles BY TroubleType DEF Crash, IssuesInv
<1>2. remote' \in [Iids -> RemoteJob \cup {None}] /\ local' \in [Docs -> LocalJob \cup {None}]
  BY DEF Crash
<1>3. line' \in [Docs -> Seq(Change)] /\ buffer' \in Seq(Change) /\ Len(buffer') <= BUFFER_MAX
  BY IssuesAssumption DEF Crash
<1>4. undone' \subseteq Iids /\ unsent' \subseteq Docs BY DEF Crash, IssuesInv, TypeOK
<1> QED BY <1>1, <1>2, <1>3, <1>4 DEF Crash, IssuesInv, TypeOK

LEMMA TypeStep ==
  ASSUME IssuesInv, [Next]_vars
  PROVE  TypeOK'
<1>1. CASE UNCHANGED vars BY <1>1 DEF vars, IssuesInv, TypeOK
<1>2. CASE Next
  BY <1>2, TypeEdit, TypeRemoveHuly, TypeMarkEngineStarted, TypeLocal, TypeRemote,
     TypeBackfill, TypeCrash DEF Next, Work
<1> QED BY <1>1, <1>2

-----------------------------------------------------------------------------
(* The changes in flight *)

(* Steps that bring no change: what is in flight only gets less. *)
LEMMA OnceFewer ==
  ASSUME IssuesInv, clock' \in Nat, clock <= clock',
         \A d \in Docs : Waiting(d)' \subseteq Waiting(d),
         \A d \in Docs : Ascending(line'[d]) /\ Calling(d)' \cap Vals(line'[d]) = {},
         Vals(buffer') \subseteq Vals(buffer), Ascending(buffer')
  PROVE  OnceEach' /\ InFlight' \subseteq InFlight
<1>1. InFlight' \subseteq InFlight BY DEF InFlight
<1>2. clock \in Nat /\ InFlight \subseteq 1..clock BY CountFacts DEF IssuesInv, OnceEach
<1>3. InFlight' \subseteq 1..clock' BY <1>1, <1>2
<1>4. \A d, f \in Docs : d # f => Waiting(d)' \cap Waiting(f)' = {}
  BY DEF IssuesInv, OnceEach
<1> QED BY <1>1, <1>3, <1>4 DEF OnceEach

LEMMA OnceSame ==
  ASSUME IssuesInv, clock' \in Nat, clock <= clock', UNCHANGED <<line, local, buffer>>
  PROVE  OnceEach' /\ InFlight' \subseteq InFlight
<1>1. \A d \in Docs : Waiting(d)' = Waiting(d) /\ Calling(d)' = Calling(d)
  BY DEF Waiting, Calling
<1>2. \A d \in Docs : Ascending(line'[d]) /\ Calling(d)' \cap Vals(line'[d]) = {}
  BY <1>1 DEF IssuesInv, OnceEach
<1>3. Vals(buffer') \subseteq Vals(buffer) /\ Ascending(buffer')
  BY DEF IssuesInv, OnceEach
<1> QED BY <1>1, <1>2, <1>3, OnceFewer

(* A change of a person: none, or one with the present time. *)
LEMMA OnceUser ==
  ASSUME IssuesInv, NEW d \in Docs, NEW val \in Time \cup {None}, UserTx(d, val),
         UNCHANGED local, clock' \in Nat, clock <= clock',
         val = None \/ (val = clock' /\ clock < clock')
  PROVE  OnceEach' /\ InFlight' \subseteq InFlight \cup ({val} \ {None})
<1>9. PICK c \in Change :
        /\ c.doc = d /\ c.val = val
        /\ \/ started /\ line' = [line EXCEPT ![d] = Append(line[d], c)] /\ buffer' = buffer
           \/ ~started /\ ~Overflows /\ line' = line /\ buffer' = Append(buffer, c)
           \/ Overflows /\ UNCHANGED <<line, buffer>>
  BY OnTxUser DEF IssuesInv
<1>0. c \in Change /\ c.val = val /\ TypeOK /\ OnceEach /\ ColdStart
  BY <1>9 DEF IssuesInv
<1>1. clock \in Nat /\ InFlight \subseteq 1..clock BY <1>0, CountFacts DEF OnceEach
<1>2. \A f \in Docs : Calling(f)' = Calling(f) /\ Calling(f) \subseteq InFlight
                      /\ Vals(line[f]) \subseteq InFlight /\ Waiting(f) \subseteq InFlight
  BY DEF Calling, Waiting, InFlight
<1>3. val # None => val \notin InFlight /\ \A v \in InFlight : v < val
  BY <1>1
<1>4. Vals(buffer) \subseteq InFlight BY DEF InFlight
<1>5. line \in [Docs -> Seq(Change)] /\ buffer \in Seq(Change) BY <1>0 DEF TypeOK
<1>6. CASE Overflows /\ UNCHANGED <<line, buffer>>
  BY <1>6, OnceSame
<1>7. CASE ~started /\ line' = line /\ buffer' = Append(buffer, c)
  <2>1. Vals(buffer') = Vals(buffer) \cup ({val} \ {None}) BY <1>0, <1>5, <1>7, ValsAppend
  <2>2. Ascending(buffer')
    <3>1. Ascending(buffer) BY <1>0 DEF OnceEach
    <3>2. c.val = None \/ \A v \in Vals(buffer) : v < c.val BY <1>0, <1>3, <1>4
    <3> QED BY <1>0, <1>5, <1>7, <3>1, <3>2, AscendingAppend
  <2>3. \A f \in Docs : Waiting(f)' = Waiting(f) BY <1>2, <1>7 DEF Waiting
  <2>4. InFlight' = InFlight \cup ({val} \ {None}) BY <2>1, <2>3 DEF InFlight
  <2>5. InFlight' \subseteq 1..clock'
    <3>1. \A v \in InFlight : v \in 1..clock' BY <1>1
    <3>2. val # None => val \in 1..clock' BY <1>1
    <3> QED BY <2>4, <3>1, <3>2
  <2>6. \A f \in Docs : Ascending(line'[f]) /\ Calling(f)' \cap Vals(line'[f]) = {}
    BY <1>0, <1>2, <1>7 DEF OnceEach
  <2>7. \A f, g \in Docs : f # g => Waiting(f)' \cap Waiting(g)' = {}
    BY <1>0, <2>3 DEF OnceEach
  <2> QED BY <2>2, <2>4, <2>5, <2>6, <2>7 DEF OnceEach
<1>8. CASE started /\ line' = [line EXCEPT ![d] = Append(line[d], c)] /\ buffer' = buffer
  <2>1. line'[d] = Append(line[d], c) /\ \A f \in Docs : f # d => line'[f] = line[f]
    BY <1>5, <1>8
  <2>2. line[d] \in Seq(Change) BY <1>5
  <2>3. Vals(line'[d]) = Vals(line[d]) \cup ({val} \ {None})
    BY <1>0, <2>1, <2>2, ValsAppend
  <2>4. Ascending(line'[d])
    <3>1. Ascending(line[d]) BY <1>0 DEF OnceEach
    <3>2. c.val = None \/ \A v \in Vals(line[d]) : v < c.val BY <1>0, <1>2, <1>3
    <3> QED BY <1>0, <2>1, <2>2, <3>1, <3>2, AscendingAppend
  <2>5. Waiting(d)' = Waiting(d) \cup ({val} \ {None}) BY <1>2, <2>3 DEF Waiting
  <2>6. \A f \in Docs : f # d => Waiting(f)' = Waiting(f) BY <1>2, <2>1 DEF Waiting
  <2>7. InFlight' = InFlight \cup ({val} \ {None})
    <3>1. InFlight' = Vals(buffer) \cup UNION {Waiting(f)' : f \in Docs} BY <1>8 DEF InFlight
    <3> QED BY <2>5, <2>6, <3>1 DEF InFlight
  <2>8. InFlight' \subseteq 1..clock'
    <3>1. \A v \in InFlight : v \in 1..clock' BY <1>1
    <3>2. val # None => val \in 1..clock' BY <1>1
    <3> QED BY <2>7, <3>1, <3>2
  <2>9. \A f \in Docs : Ascending(line'[f]) /\ Calling(f)' \cap Vals(line'[f]) = {}
    BY <1>0, <1>2, <1>3, <2>1, <2>3, <2>4 DEF OnceEach
  <2>10. \A f, g \in Docs : f # g => Waiting(f)' \cap Waiting(g)' = {}
    BY <1>0, <1>2, <1>3, <2>5, <2>6 DEF OnceEach
  <2>11. Ascending(buffer') BY <1>0, <1>8 DEF OnceEach
  <2> QED BY <2>7, <2>8, <2>9, <2>10, <2>11 DEF OnceEach
<1> QED BY <1>6, <1>7, <1>8, <1>9

LEMMA OnceNone ==
  ASSUME IssuesInv, NEW d \in Docs, UserTx(d, None), UNCHANGED local,
         clock' \in Nat, clock <= clock'
  PROVE  OnceEach' /\ InFlight' \subseteq InFlight
<1>1. None \in Time \cup {None} OBVIOUS
<1>2. OnceEach' /\ InFlight' \subseteq InFlight \cup ({None} \ {None})
  BY <1>1, OnceUser
<1> QED BY <1>2

LEMMA OnceValue ==
  ASSUME IssuesInv, NEW d \in Docs, UserTx(d, clock'), UNCHANGED local,
         clock' \in Time, clock' = clock + 1
  PROVE  OnceEach' /\ InFlight' \subseteq InFlight \cup {clock'}
<1> SUFFICES ASSUME NEW v, v = clock'
             PROVE  OnceEach' /\ InFlight' \subseteq InFlight \cup {v}
  OBVIOUS
<1>1. v \in Time \cup {None} /\ UserTx(d, v) OBVIOUS
<1>2. clock \in Nat BY CountFacts DEF IssuesInv
<1>3. clock' \in Nat /\ clock <= clock' /\ v = clock' /\ clock < clock' BY <1>2
<1>4. OnceEach' /\ InFlight' \subseteq InFlight \cup ({v} \ {None})
  BY <1>1, <1>3, OnceUser
<1> QED BY <1>4

LEMMA MarkFacts ==
  ASSUME IssuesInv, MarkEngineStarted, NEW d \in Docs
  PROVE  /\ line[d] = <<>> /\ local[d] = None /\ local'[d] = None
         /\ line'[d] = ChangesOf(buffer, d)
         /\ Vals(line'[d]) = ValsOf(buffer, d, Len(buffer))
         /\ Ascending(line'[d])
<1>1. line[d] = <<>> /\ local[d] = None /\ local'[d] = None
  BY DEF MarkEngineStarted, IssuesInv, ColdStart
<1>2. buffer \in Seq(Change) /\ Ascending(buffer) BY DEF IssuesInv, TypeOK, OnceEach
<1>3. ChangesOf(buffer, d) \in Seq(Change) BY <1>2, ChangesOfFacts
<1>4. line'[d] = <<>> \o ChangesOf(buffer, d) BY <1>1 DEF MarkEngineStarted
<1>5. line'[d] = ChangesOf(buffer, d) BY <1>3, <1>4
<1> QED BY <1>1, <1>2, <1>5, ChangesOfFacts

LEMMA OnceMark ==
  ASSUME IssuesInv, MarkEngineStarted
  PROVE  OnceEach' /\ InFlight' \subseteq InFlight
<1>0. buffer \in Seq(Change) /\ Ascending(buffer) /\ buffer' = <<>> /\ clock' = clock
  BY DEF IssuesInv, TypeOK, OnceEach, MarkEngineStarted
<1>1. \A d \in Docs : Calling(d)' = {} /\ Waiting(d)' = ValsOf(buffer, d, Len(buffer))
                      /\ Ascending(line'[d])
  BY MarkFacts DEF Calling, Waiting
<1>2. \A d \in Docs : ValsOf(buffer, d, Len(buffer)) \subseteq Vals(buffer)
  <2>1. DOMAIN buffer = 1..Len(buffer) BY <1>0
  <2> QED BY <2>1 DEF ValsOf, Vals
<1>3. Vals(buffer') = {} /\ Ascending(buffer') BY <1>0, ValsEmpty
<1>4. InFlight' \subseteq InFlight BY <1>1, <1>2, <1>3 DEF InFlight
<1>5. InFlight' \subseteq 1..clock' BY <1>0, <1>4 DEF IssuesInv, OnceEach
<1>6. ASSUME NEW d \in Docs, NEW f \in Docs, NEW v,
             v \in ValsOf(buffer, d, Len(buffer)), v \in ValsOf(buffer, f, Len(buffer))
      PROVE  d = f
  <2>1. PICK m \in 1..Len(buffer) : buffer[m].doc = d /\ buffer[m].val = v /\ v # None
    BY <1>6 DEF ValsOf
  <2>2. PICK n \in 1..Len(buffer) : buffer[n].doc = f /\ buffer[n].val = v
    BY <1>6 DEF ValsOf
  <2>3. v \in Nat
    <3>1. buffer[m] \in Change BY <1>0
    <3> QED BY <2>1, <3>1, ConstantFacts DEF Change
  <2>4. m \in DOMAIN buffer /\ n \in DOMAIN buffer /\ m \in Nat /\ n \in Nat BY <1>0
  <2>5. ~(m < n) /\ ~(n < m) BY <1>0, <2>1, <2>2, <2>3, <2>4 DEF Ascending
  <2>6. m = n BY <2>4, <2>5
  <2> QED BY <2>1, <2>2, <2>6
<1>7. \A d, f \in Docs : d # f => Waiting(d)' \cap Waiting(f)' = {}
  BY <1>1, <1>6
<1> QED BY <1>1, <1>3, <1>4, <1>5, <1>7 DEF OnceEach

LEMMA LocalCallFacts ==
  ASSUME IssuesInv, NEW d \in Docs, LocalCall(d)
  PROVE  /\ local[d] # None /\ local[d] \in LocalJob /\ local[d].at = "call"
         /\ clock' = clock + 1
         /\ \E i \in Iids :
              /\ IF local[d].new THEN NewIid(i) ELSE i = local[d].iid
              /\ gitlab' = [gitlab EXCEPT ![i] = [val |-> local[d].val, ts |-> clock']]
              /\ local' = [local EXCEPT ![d] = [local[d] EXCEPT !.at = "finish", !.iid = i]]
              /\ undone' = undone \ {i}
<1>1. local[d] # None /\ local[d] \in LocalJob /\ local[d].at = "call" /\ clock' = clock + 1
  BY DEF LocalCall, IssuesInv, TypeOK
<1>2. PICK i \in Iids :
        /\ IF local[d].new THEN NewIid(i) ELSE i = local[d].iid
        /\ gitlab' = [gitlab EXCEPT ![i] = [val |-> local[d].val, ts |-> clock']]
        /\ local' = [local EXCEPT ![d].at = "finish", ![d].iid = i]
        /\ undone' = undone \ {i}
  BY DEF LocalCall
<1>3. local' = [local EXCEPT ![d] = [local[d] EXCEPT !.at = "finish", !.iid = i]]
  BY <1>2 DEF IssuesInv, TypeOK
<1> QED BY <1>1, <1>2, <1>3

LEMMA OnceLocal ==
  ASSUME IssuesInv, NEW d \in Docs,
         LocalBegin(d) \/ LocalCall(d) \/ LocalFinish(d) \/ LocalDropped(d) \/ LocalThrows(d)
  PROVE  /\ OnceEach' /\ InFlight' \subseteq InFlight
         /\ LocalCall(d) => local[d].val \in InFlight /\ local[d].val \notin InFlight'
<1>0. /\ clock \in Nat /\ line \in [Docs -> Seq(Change)] /\ local \in [Docs -> LocalJob \cup {None}]
      /\ OnceEach /\ Ascending(buffer)
  BY CountFacts DEF IssuesInv, TypeOK, OnceEach
<1>1. CASE LocalBegin(d)
  <2>1. /\ local[d] = None /\ line[d] \in Seq(Change) /\ line[d] # <<>>
        /\ line' = [line EXCEPT ![d] = Tail(line[d])]
    BY <1>1, LocalBeginFacts
  <2>2. UNCHANGED <<buffer, clock>> BY <1>1 DEF LocalBegin
  <2>3. \A f \in Docs : f # d => line'[f] = line[f] /\ local'[f] = local[f]
    BY <1>0, <1>1, <2>1, LocalBeginFacts
  <2>4. line'[d] = Tail(line[d]) BY <1>0, <2>1
  <2>5. Calling(d) = {} BY <2>1 DEF Calling
  <2>6. /\ Vals(line[d]) = Vals(line'[d]) \cup ({Head(line[d]).val} \ {None})
        /\ Ascending(line'[d])
        /\ Head(line[d]).val # None => Head(line[d]).val \notin Vals(line'[d])
    BY <1>0, <2>1, <2>4, ValsTail DEF OnceEach
  <2>7. Waiting(d)' \subseteq Waiting(d) /\ Calling(d)' \cap Vals(line'[d]) = {}
    <3>1. CASE UNCHANGED local
      <4>2. Calling(d)' = {} BY <2>5, <3>1 DEF Calling
      <4> QED BY <2>5, <2>6, <4>2 DEF Waiting
    <3>2. CASE Head(line[d]).val # None /\ local' = [local EXCEPT ![d] = BeginJob(d)]
      <4>1. local'[d] = BeginJob(d) BY <1>0, <3>2
      <4>2. Calling(d)' \subseteq {Head(line[d]).val} BY <4>1 DEF Calling, BeginJob
      <4> QED BY <2>6, <3>2, <4>2 DEF Waiting
    <3> QED BY <1>1, <3>1, <3>2, LocalBeginFacts
  <2>8. \A f \in Docs : f # d => Waiting(f)' = Waiting(f) /\ Calling(f)' = Calling(f)
    BY <2>3 DEF Waiting, Calling
  <2>9. \A f \in Docs : Waiting(f)' \subseteq Waiting(f) BY <2>7, <2>8
  <2>10. \A f \in Docs : Ascending(line'[f]) /\ Calling(f)' \cap Vals(line'[f]) = {}
    BY <1>0, <2>3, <2>6, <2>7, <2>8 DEF OnceEach
  <2>11. OnceEach' /\ InFlight' \subseteq InFlight
    BY <1>0, <2>2, <2>9, <2>10, OnceFewer
  <2>12. ~LocalCall(d) BY <2>1 DEF LocalCall
  <2> QED BY <2>11, <2>12
<1>2. CASE LocalCall(d)
  <2>1. local[d] # None /\ local[d].at = "call" /\ UNCHANGED <<line, buffer>> /\ clock' = clock + 1
    BY <1>2 DEF LocalCall
  <2>2. local'[d].at = "finish" /\ \A f \in Docs : f # d => local'[f] = local[f]
    <3>1. PICK i \in Iids :
            local' = [local EXCEPT ![d] = [local[d] EXCEPT !.at = "finish", !.iid = i]]
      BY <1>2, LocalCallFacts
    <3>2. local[d] \in LocalJob BY <1>0, <2>1
    <3> QED BY <1>0, <3>1, <3>2 DEF LocalJob
  <2>3. Calling(d) = {local[d].val} /\ Calling(d)' = {}
    BY <2>1, <2>2 DEF Calling
  <2>4. \A f \in Docs : f # d => Calling(f)' = Calling(f) /\ Waiting(f)' = Waiting(f)
    BY <2>1, <2>2 DEF Calling, Waiting
  <2>5. Waiting(d)' = Vals(line[d]) BY <2>1, <2>3 DEF Waiting
  <2>6. \A f \in Docs : Waiting(f)' \subseteq Waiting(f) BY <2>4, <2>5 DEF Waiting
  <2>7. \A f \in Docs : Ascending(line'[f]) /\ Calling(f)' \cap Vals(line'[f]) = {}
    BY <1>0, <2>1, <2>3, <2>4 DEF OnceEach
  <2>8. OnceEach' /\ InFlight' \subseteq InFlight
    BY <1>0, <2>1, <2>6, <2>7, OnceFewer
  <2>9. local[d].val \in Waiting(d) /\ local[d].val \in InFlight
    BY <2>3 DEF Waiting, InFlight
  <2>10. \A f \in Docs : local[d].val \notin Waiting(f)'
    <3>1. local[d].val \notin Waiting(d)' BY <1>0, <2>3, <2>5 DEF OnceEach
    <3>2. ASSUME NEW f \in Docs, f # d PROVE local[d].val \notin Waiting(f)'
      BY <1>0, <2>4, <2>9, <3>2 DEF OnceEach
    <3> QED BY <3>1, <3>2
  <2>11. buffer' = <<>>
    BY <2>1 DEF IssuesInv, ColdStart
  <2>12. local[d].val \notin InFlight' BY <2>10, <2>11, ValsEmpty DEF InFlight
  <2> QED BY <2>8, <2>9, <2>12
<1>3. CASE LocalFinish(d)
  <2>1. local[d].at = "finish" /\ UNCHANGED <<line, buffer, clock>>
        /\ local' = [local EXCEPT ![d] = None]
    BY <1>3 DEF LocalFinish
  <2>2. Calling(d)' = {} /\ Calling(d) = {} BY <1>0, <2>1 DEF Calling
  <2>3. \A f \in Docs : Calling(f)' = Calling(f) /\ Waiting(f)' = Waiting(f)
    BY <1>0, <2>1, <2>2 DEF Calling, Waiting
  <2>4. \A f \in Docs : Ascending(line'[f]) /\ Calling(f)' \cap Vals(line'[f]) = {}
    BY <1>0, <2>1, <2>3 DEF OnceEach
  <2>5. OnceEach' /\ InFlight' \subseteq InFlight
    BY <1>0, <2>1, <2>3, <2>4, OnceFewer
  <2> QED BY <2>1, <2>5 DEF LocalCall
<1>4. CASE LocalDropped(d)
  <2>1. /\ local[d] = None /\ line[d] \in Seq(Change) /\ line[d] # <<>>
        /\ line' = [line EXCEPT ![d] = Tail(line[d])]
    BY <1>4, LocalDroppedFacts
  <2>2. UNCHANGED <<buffer, clock, local>> BY <1>4 DEF LocalDropped
  <2>3. line'[d] = Tail(line[d]) /\ \A f \in Docs : f # d => line'[f] = line[f] BY <1>0, <2>1
  <2>4. Vals(line'[d]) \subseteq Vals(line[d]) /\ Ascending(line'[d])
    BY <1>0, <2>1, <2>3, ValsTail DEF OnceEach
  <2>5. \A f \in Docs : Calling(f)' = Calling(f) BY <2>2 DEF Calling
  <2>6. \A f \in Docs : Waiting(f)' \subseteq Waiting(f) BY <2>3, <2>4, <2>5 DEF Waiting
  <2>7. \A f \in Docs : Ascending(line'[f]) /\ Calling(f)' \cap Vals(line'[f]) = {}
    BY <1>0, <2>3, <2>4, <2>5 DEF OnceEach
  <2>8. OnceEach' /\ InFlight' \subseteq InFlight
    BY <1>0, <2>2, <2>6, <2>7, OnceFewer
  <2> QED BY <2>1, <2>8 DEF LocalCall
<1>5. CASE LocalThrows(d)
  <2>1. UNCHANGED <<line, buffer, clock>> /\ local' = [local EXCEPT ![d] = None]
    BY <1>5 DEF LocalThrows
  <2>2. Calling(d)' = {} BY <1>0, <2>1 DEF Calling
  <2>3. \A f \in Docs : Calling(f)' \subseteq Calling(f) /\ Waiting(f)' \subseteq Waiting(f)
    BY <1>0, <2>1, <2>2 DEF Calling, Waiting
  <2>4. \A f \in Docs : Ascending(line'[f]) /\ Calling(f)' \cap Vals(line'[f]) = {}
    BY <1>0, <2>1, <2>3 DEF OnceEach
  <2>5. OnceEach' /\ InFlight' \subseteq InFlight
    BY <1>0, <2>1, <2>3, <2>4, OnceFewer
  <2>6. ASSUME LocalCall(d) PROVE FALSE
    <3>1. clock' = clock + 1 BY <2>6, LocalCallFacts
    <3> QED BY <1>0, <2>1, <3>1
  <2> QED BY <2>5, <2>6
<1> QED BY <1>1, <1>2, <1>3, <1>4, <1>5

LEMMA OnceCrash ==
  ASSUME IssuesInv, Crash
  PROVE  OnceEach' /\ InFlight' \subseteq InFlight
<1>1. \A d \in Docs : line'[d] = <<>> /\ local'[d] = None
  BY DEF Crash
<1>2. buffer' = <<>> /\ clock' = clock /\ clock \in Nat BY CountFacts DEF Crash, IssuesInv
<1>3. \A d \in Docs : Waiting(d)' = {} /\ Calling(d)' = {} /\ Ascending(line'[d])
  BY <1>1, ValsEmpty DEF Waiting, Calling
<1>4. Vals(buffer') = {} /\ Ascending(buffer') BY <1>2, ValsEmpty
<1> QED BY <1>2, <1>3, <1>4, OnceFewer

-----------------------------------------------------------------------------
(* Steps by what they leave alone *)

(* All but these leave what is in flight as it is. *)
LEMMA QuietSteps ==
  ASSUME IssuesInv, [Next]_vars
  PROVE  \/ UNCHANGED <<line, local, buffer, started, edits, touches, clock>>
         \/ \E i \in Iids : EditGitlab(i)
         \/ \E d \in Docs : EditHuly(d) \/ TouchHuly(d) \/ RemoveHuly(d)
         \/ MarkEngineStarted
         \/ \E d \in Docs : \/ LocalBegin(d) \/ LocalCall(d) \/ LocalFinish(d)
                            \/ LocalDropped(d) \/ LocalThrows(d)
         \/ Crash
<1>1. ASSUME NEW i \in Iids, RemoteCreate(i) PROVE UNCHANGED <<line, buffer>>
  BY <1>1, OnTxPod DEF RemoteCreate
<1>2. ASSUME NEW i \in Iids, RemoteWrite(i) PROVE UNCHANGED <<line, buffer>>
  BY <1>2, OnTxPod DEF RemoteWrite
<1>3. CASE \E i \in Iids : RemoteCreate(i)
  BY <1>1, <1>3 DEF RemoteCreate
<1>4. CASE \E i \in Iids : RemoteWrite(i)
  BY <1>2, <1>4 DEF RemoteWrite
<1> QED
  BY <1>3, <1>4
  DEF Next, Work, vars, RemoteBegin, RemoteDropped, RemoteMap, RemoteRead, RemoteThrows, Backfill

LEMMA StepOnceEach ==
  ASSUME IssuesInv, [Next]_vars
  PROVE  OnceEach'
<1>0. clock \in Nat BY CountFacts DEF IssuesInv
<1>1. CASE UNCHANGED <<line, local, buffer, started, edits, touches, clock>>
  BY <1>0, <1>1, OnceSame
<1>2. ASSUME NEW i \in Iids, EditGitlab(i) PROVE OnceEach'
  BY <1>0, <1>2, OnceSame DEF EditGitlab
<1>3. ASSUME NEW d \in Docs, EditHuly(d) PROVE OnceEach'
  <2>1. clock' = clock + 1 /\ clock' \in Time BY <1>3, TypeEdit
  <2>2. UserTx(d, clock') /\ UNCHANGED local BY <1>3, PeopleWrite DEF EditHuly
  <2> QED BY <2>1, <2>2, OnceValue
<1>4. ASSUME NEW d \in Docs, TouchHuly(d) PROVE OnceEach'
  <2>1. clock' \in Nat /\ clock <= clock' BY <1>0, <1>4 DEF TouchHuly
  <2>2. UserTx(d, None) /\ UNCHANGED local BY <1>4, PeopleWrite DEF TouchHuly
  <2> QED BY <2>1, <2>2, OnceNone
<1>5. ASSUME NEW d \in Docs, RemoveHuly(d) PROVE OnceEach'
  <2>1. clock' \in Nat /\ clock <= clock' BY <1>0, <1>5 DEF RemoveHuly
  <2>2. UserTx(d, None) /\ UNCHANGED local BY <1>5, PeopleWrite DEF RemoveHuly
  <2> QED BY <2>1, <2>2, OnceNone
<1> QED BY <1>1, <1>2, <1>3, <1>4, <1>5, OnceMark, OnceLocal, OnceCrash, QuietSteps

LEMMA StepColdStart ==
  ASSUME IssuesInv, [Next]_vars
  PROVE  ColdStart'
<1>0. ColdStart /\ TypeOK BY DEF IssuesInv
<1>1. CASE UNCHANGED <<line, local, buffer, started, edits, touches, clock>>
  BY <1>0, <1>1 DEF ColdStart
<1>2. ASSUME NEW i \in Iids, EditGitlab(i) PROVE ColdStart'
  BY <1>0, <1>2 DEF EditGitlab, ColdStart
<1>3. ASSUME NEW d \in Docs, NEW val \in Time \cup {None}, UserTx(d, val),
             UNCHANGED <<local, started>>
      PROVE  ColdStart'
  BY <1>0, <1>3, OnTxUser DEF ColdStart, Overflows
<1>4. ASSUME NEW d \in Docs, EditHuly(d) PROVE ColdStart'
  <2>1. clock' \in Time BY <1>4, TypeEdit
  <2> QED BY <1>3, <1>4, <2>1, PeopleWrite DEF EditHuly
<1>5. ASSUME NEW d \in Docs, TouchHuly(d) PROVE ColdStart'
  BY <1>3, <1>5, PeopleWrite DEF TouchHuly
<1>6. ASSUME NEW d \in Docs, RemoveHuly(d) PROVE ColdStart'
  BY <1>3, <1>6, PeopleWrite DEF RemoveHuly
<1>7. CASE MarkEngineStarted
  BY <1>7 DEF MarkEngineStarted, ColdStart
<1>8. ASSUME NEW d \in Docs,
             LocalBegin(d) \/ LocalCall(d) \/ LocalFinish(d) \/ LocalDropped(d) \/ LocalThrows(d)
      PROVE  ColdStart'
  <2>1. started
    BY <1>0, <1>8 DEF LocalBegin, LocalCall, LocalFinish, LocalDropped, LocalThrows, Aborted, ColdStart
  <2>2. UNCHANGED <<started, buffer>>
    BY <1>8 DEF LocalBegin, LocalCall, LocalFinish, LocalDropped, LocalThrows
  <2> QED BY <1>0, <2>1, <2>2 DEF ColdStart
<1>9. CASE Crash
  BY <1>9 DEF Crash, ColdStart
<1> QED BY <1>1, <1>2, <1>4, <1>5, <1>6, <1>7, <1>8, <1>9, QuietSteps

-----------------------------------------------------------------------------
(* The calls to GitLab *)

LEMMA FewerInFlight ==
  ASSUME IssuesInv, InFlight' \subseteq InFlight
  PROVE  Cardinality(InFlight') <= Cardinality(InFlight) /\ Cardinality(InFlight') \in Nat
<1>1. IsFiniteSet(InFlight) BY InFlightFinite DEF IssuesInv
<1> SUFFICES ASSUME NEW S, S = InFlight, NEW T, T = InFlight'
             PROVE  Cardinality(T) <= Cardinality(S) /\ Cardinality(T) \in Nat
  OBVIOUS
<1> QED BY <1>1, FS_Subset, FS_CardinalityType

LEMMA BudgetKept ==
  ASSUME IssuesInv, InFlight' \subseteq InFlight, clock' \in Nat, edits'["huly"] \in Nat,
         edits'["gitlab"] \in Nat,
         clock' - edits'["gitlab"] - edits'["huly"] = clock - edits["gitlab"] - edits["huly"],
         edits["huly"] <= edits'["huly"]
  PROVE  CallBudget'
<1>1. Cardinality(InFlight') <= Cardinality(InFlight) /\ Cardinality(InFlight') \in Nat
  BY FewerInFlight
<1>2. Cardinality(InFlight) \in Nat BY InFlightFinite DEF IssuesInv
<1>3. clock - edits["gitlab"] - edits["huly"] + Cardinality(InFlight) <= edits["huly"]
  BY DEF IssuesInv, CallBudget, Calls
<1>4. clock' - edits'["gitlab"] - edits'["huly"] + Cardinality(InFlight') <= edits'["huly"]
  BY <1>1, <1>2, <1>3, CountFacts DEF IssuesInv
<1> QED BY <1>4 DEF CallBudget, Calls

LEMMA CountStep ==
  ASSUME TypeOK, NEW side \in {"gitlab", "huly"}, Count(side)
  PROVE  /\ edits'["gitlab"] \in Nat /\ edits'["huly"] \in Nat
         /\ edits'["gitlab"] = edits["gitlab"] + (IF side = "gitlab" THEN 1 ELSE 0)
         /\ edits'["huly"] = edits["huly"] + (IF side = "huly" THEN 1 ELSE 0)
  BY CountFacts DEF TypeOK, Count

LEMMA StepCallBudget ==
  ASSUME IssuesInv, [Next]_vars
  PROVE  CallBudget'
<1>0. /\ clock \in Nat /\ edits["gitlab"] \in Nat /\ edits["huly"] \in Nat /\ TypeOK
      /\ Cardinality(InFlight) \in Nat /\ IsFiniteSet(InFlight)
      /\ clock - edits["gitlab"] - edits["huly"] + Cardinality(InFlight) <= edits["huly"]
  BY CountFacts, InFlightFinite DEF IssuesInv, CallBudget, Calls
<1>1. ASSUME UNCHANGED <<edits, clock>>, InFlight' \subseteq InFlight PROVE CallBudget'
  BY <1>0, <1>1, BudgetKept
<1>2. CASE UNCHANGED <<line, local, buffer, started, edits, touches, clock>>
  BY <1>0, <1>1, <1>2, OnceSame
<1>3. ASSUME NEW i \in Iids, EditGitlab(i) PROVE CallBudget'
  <2>1. clock' = clock + 1 /\ Count("gitlab") /\ UNCHANGED <<line, local, buffer>>
    BY <1>3 DEF EditGitlab
  <2>2. InFlight' \subseteq InFlight BY <1>0, <2>1, OnceSame
  <2> QED BY <1>0, <2>1, <2>2, CountStep, BudgetKept
<1>4. ASSUME NEW d \in Docs, EditHuly(d) PROVE CallBudget'
  <2>1. clock' = clock + 1 /\ clock' \in Time /\ clock' # None
    BY <1>4, TypeEdit, ConstantFacts
  <2>2. Count("huly") BY <1>4 DEF EditHuly
  <2>3. InFlight' \subseteq InFlight \cup {clock'}
    <3>1. UserTx(d, clock') /\ UNCHANGED local BY <1>4, PeopleWrite DEF EditHuly
    <3> QED BY <2>1, <3>1, OnceValue
  <2>4. Cardinality(InFlight') <= Cardinality(InFlight) + 1 /\ Cardinality(InFlight') \in Nat
    <3> SUFFICES ASSUME NEW S, S = InFlight, NEW T, T = InFlight', NEW v, v = clock'
                 PROVE  Cardinality(T) <= Cardinality(S) + 1 /\ Cardinality(T) \in Nat
      OBVIOUS
    <3>1. IsFiniteSet(S) /\ Cardinality(S) \in Nat /\ T \subseteq S \cup {v} BY <1>0, <2>3
    <3>2. IsFiniteSet(S \cup {v}) /\ Cardinality(S \cup {v}) <= Cardinality(S) + 1
          /\ Cardinality(S \cup {v}) \in Nat
      BY <3>1, FS_AddElement
    <3>3. IsFiniteSet(T) /\ Cardinality(T) <= Cardinality(S \cup {v})
      BY <3>1, <3>2, FS_Subset
    <3>4. Cardinality(T) \in Nat BY <3>3, FS_CardinalityType
    <3> QED BY <3>1, <3>2, <3>3, <3>4
  <2>5. edits'["gitlab"] = edits["gitlab"] /\ edits'["huly"] = edits["huly"] + 1
    BY <1>0, <2>2, CountStep
  <2>6. clock' - edits'["gitlab"] - edits'["huly"] + Cardinality(InFlight') <= edits'["huly"]
    BY <1>0, <2>1, <2>4, <2>5
  <2> QED BY <2>6 DEF CallBudget, Calls
<1>5. ASSUME NEW d \in Docs, TouchHuly(d) PROVE CallBudget'
  <2>1. clock' = clock + 1 /\ Count("huly") BY <1>5 DEF TouchHuly
  <2>2. InFlight' \subseteq InFlight
    <3>1. clock' \in Nat /\ clock <= clock' BY <1>0, <2>1
    <3>2. UserTx(d, None) /\ UNCHANGED local BY <1>5, PeopleWrite DEF TouchHuly
    <3> QED BY <3>1, <3>2, OnceNone
  <2> QED BY <1>0, <2>1, <2>2, CountStep, BudgetKept
<1>6. ASSUME NEW d \in Docs, RemoveHuly(d) PROVE CallBudget'
  <2>1. InFlight' \subseteq InFlight
    <3>1. clock' \in Nat /\ clock <= clock' BY <1>0, <1>6 DEF RemoveHuly
    <3>2. UserTx(d, None) /\ UNCHANGED local BY <1>6, PeopleWrite DEF RemoveHuly
    <3> QED BY <3>1, <3>2, OnceNone
  <2> QED BY <1>1, <1>6, <2>1 DEF RemoveHuly
<1>7. CASE MarkEngineStarted
  BY <1>1, <1>7, OnceMark DEF MarkEngineStarted
<1>8. ASSUME NEW d \in Docs, LocalBegin(d) \/ LocalFinish(d) \/ LocalDropped(d) \/ LocalThrows(d)
      PROVE  CallBudget'
  BY <1>1, <1>8, OnceLocal DEF LocalBegin, LocalFinish, LocalDropped, LocalThrows
<1>9. ASSUME NEW d \in Docs, LocalCall(d) PROVE CallBudget'
  <2>1. clock' = clock + 1 /\ UNCHANGED edits BY <1>9 DEF LocalCall
  <2>2. InFlight' \subseteq InFlight /\ local[d].val \in InFlight /\ local[d].val \notin InFlight'
    BY <1>9, OnceLocal
  <2>3. Cardinality(InFlight') <= Cardinality(InFlight) - 1 /\ Cardinality(InFlight') \in Nat
    <3> SUFFICES ASSUME NEW S, S = InFlight, NEW T, T = InFlight', NEW v, v = local[d].val
                 PROVE  Cardinality(T) <= Cardinality(S) - 1 /\ Cardinality(T) \in Nat
      OBVIOUS
    <3>1. IsFiniteSet(S) /\ Cardinality(S) \in Nat /\ v \in S /\ T \subseteq S \ {v}
      BY <1>0, <2>2
    <3>2. IsFiniteSet(S \ {v}) /\ Cardinality(S \ {v}) = Cardinality(S) - 1
      BY <3>1, FS_RemoveElement
    <3>3. IsFiniteSet(T) /\ Cardinality(T) <= Cardinality(S \ {v})
      BY <3>1, <3>2, FS_Subset
    <3>4. Cardinality(T) \in Nat BY <3>3, FS_CardinalityType
    <3> QED BY <3>1, <3>2, <3>3, <3>4
  <2>4. clock' - edits'["gitlab"] - edits'["huly"] + Cardinality(InFlight') <= edits'["huly"]
    BY <1>0, <2>1, <2>3
  <2> QED BY <2>4 DEF CallBudget, Calls
<1>10. CASE Crash
  BY <1>1, <1>10, OnceCrash DEF Crash
<1> QED BY <1>2, <1>3, <1>4, <1>5, <1>6, <1>7, <1>8, <1>9, <1>10, QuietSteps

LEMMA StepEditBudget ==
  ASSUME IssuesInv, [Next]_vars
  PROVE  EditBudget'
<1>0. /\ edits["gitlab"] \in Nat /\ edits["huly"] \in Nat /\ touches \in Nat /\ MaxEdits \in Nat
      /\ TypeOK /\ edits["gitlab"] + edits["huly"] <= MaxEdits + touches
  BY CountFacts DEF IssuesInv, EditBudget
<1>1. ASSUME NEW i \in Iids, EditGitlab(i) PROVE EditBudget'
  BY <1>0, <1>1, CountStep DEF EditGitlab, EditBudget
<1>2. ASSUME NEW d \in Docs, EditHuly(d) PROVE EditBudget'
  BY <1>0, <1>2, CountStep DEF EditHuly, EditBudget
<1>3. ASSUME NEW d \in Docs, TouchHuly(d) PROVE EditBudget'
  BY <1>0, <1>3, CountStep DEF TouchHuly, EditBudget
<1>4. CASE UNCHANGED <<edits, touches>>
  BY <1>0, <1>4 DEF EditBudget
<1> QED
  BY <1>1, <1>2, <1>3, <1>4, QuietSteps
  DEF RemoveHuly, MarkEngineStarted, LocalBegin, LocalCall, LocalFinish, LocalDropped, LocalThrows, Crash

-----------------------------------------------------------------------------
(* Times *)

LEMMA RemoteBeginFacts ==
  ASSUME IssuesInv, NEW e \in queued, RemoteBegin(e)
  PROVE  /\ e \in Event /\ e.iid \in Iids /\ remote[e.iid] = None
         /\ remote'[e.iid] = [at |-> IF idmap[e.iid] = None THEN "create" ELSE "read", ev |-> e,
                              doc |-> idmap[e.iid], seen |-> Absent]
         /\ \A j \in Iids : j # e.iid => remote'[j] = remote[j]
         /\ UNCHANGED <<gitlab, huly, idmap, cursor, clock, queued, polled, line, local, buffer,
                        started, edits, touches, troubles, undone, unsent>>
<1>1. e \in Event /\ e.iid \in Iids BY DEF IssuesInv, TypeOK, Event
<1> QED BY <1>1 DEF RemoteBegin, Turn, IssuesInv, TypeOK

LEMMA RemoteDroppedFacts ==
  ASSUME IssuesInv, NEW e \in queued, RemoteDropped(e)
  PROVE  /\ e \in Event /\ e.iid \in Iids /\ remote[e.iid] = None
         /\ queued' = queued \ {e}
         /\ undone \subseteq undone' /\ (Unserved(e.iid, queued') => e.iid \in undone')
         /\ UNCHANGED <<gitlab, huly, idmap, cursor, clock, polled, remote, line, local, buffer,
                        started, edits, touches, races, unsent>>
<1>1. e \in Event /\ e.iid \in Iids BY DEF IssuesInv, TypeOK, Event
<1> QED BY <1>1 DEF RemoteDropped, Turn

LEMMA RemoteCreateFacts ==
  ASSUME IssuesInv, NEW i \in Iids, RemoteCreate(i)
  PROVE  /\ remote[i] # None /\ remote[i].at = "create"
         /\ UNCHANGED <<gitlab, idmap, cursor, clock, queued, polled, local, line, buffer, started,
                        edits, touches, troubles, races, undone, unsent>>
         /\ \A j \in Iids : j # i => remote'[j] = remote[j]
         /\ \E d \in Docs :
              /\ huly[d] = Absent
              /\ huly'[d] = [val |-> remote[i].ev.val, ts |-> remote[i].ev.ts]
              /\ \A f \in Docs : f # d => huly'[f] = huly[f]
              /\ remote'[i] = [remote[i] EXCEPT !.at = "map", !.doc = d]
<1>1. PICK d \in Docs :
        /\ NewDoc(d)
        /\ huly' = [huly EXCEPT ![d] = [val |-> remote[i].ev.val, ts |-> remote[i].ev.ts]]
        /\ OnTx(d, remote[i].ev.val, TRUE, "pod", TRUE)
        /\ remote' = [remote EXCEPT ![i].at = "map", ![i].doc = d]
  BY DEF RemoteCreate
<1>2. UNCHANGED <<line, buffer>> BY <1>1, OnTxPod
<1>3. remote \in [Iids -> RemoteJob \cup {None}] /\ huly \in [Docs -> Version \cup {None}]
  BY DEF IssuesInv, TypeOK
<1>4. remote'[i] = [remote[i] EXCEPT !.at = "map", !.doc = d] BY <1>1, <1>3
<1>5. \A j \in Iids : j # i => remote'[j] = remote[j] BY <1>1, <1>3
<1>6. huly[d] = Absent BY <1>1 DEF NewDoc, Unborn
<1>7. /\ huly'[d] = [val |-> remote[i].ev.val, ts |-> remote[i].ev.ts]
      /\ \A f \in Docs : f # d => huly'[f] = huly[f]
  BY <1>1, <1>3
<1> QED BY <1>2, <1>4, <1>5, <1>6, <1>7 DEF RemoteCreate

LEMMA RemoteEndFacts ==
  ASSUME IssuesInv, NEW i \in Iids, remote[i] # None, RemoteEnd(i)
  PROVE  /\ remote'[i] = None /\ \A j \in Iids : j # i => remote'[j] = remote[j]
         /\ queued' \subseteq queued
         /\ \A e \in queued : e.iid # i => e \in queued'
<1>1. remote[i].ev.iid = i BY RemoteFacts
<1> QED BY <1>1 DEF RemoteEnd, IssuesInv, TypeOK

LEMMA LocalFinishFacts ==
  ASSUME IssuesInv, NEW d \in Docs, LocalFinish(d)
  PROVE  /\ local[d] # None /\ local[d] \in LocalJob /\ local[d].at = "finish"
         /\ local[d].iid \in Iids
         /\ local'[d] = None /\ \A f \in Docs : f # d => local'[f] = local[f]
         /\ \/ /\ local[d].new /\ ~IndexAdmits(local[d].iid, d)
               /\ unsent' = unsent \cup {d} /\ UNCHANGED <<idmap, cursor, undone>>
            \/ /\ local[d].new /\ IndexAdmits(local[d].iid, d)
               /\ SetCursor(clock + 1) /\ Skipped(cursor') \subseteq undone' /\ UNCHANGED unsent
               /\ idmap'[local[d].iid] = d /\ \A j \in Iids : j # local[d].iid => idmap'[j] = idmap[j]
            \/ /\ ~local[d].new /\ UNCHANGED <<idmap, unsent>>
               /\ SetCursor(clock + 1) /\ Skipped(cursor') \subseteq undone'
         /\ undone \subseteq undone'
         /\ UNCHANGED <<gitlab, huly, clock, queued, polled, remote, line, buffer, started,
                        edits, touches, races>>
<1>1. local[d] # None /\ local[d] \in LocalJob /\ local[d].at = "finish"
  BY DEF LocalFinish, IssuesInv, TypeOK
<1>2. local[d].iid \in Iids BY <1>1 DEF IssuesInv, LocalAgrees
<1>3. local'[d] = None /\ \A f \in Docs : f # d => local'[f] = local[f]
  BY DEF LocalFinish, IssuesInv, TypeOK
<1>4. idmap \in [Iids -> Docs \cup {None}] BY DEF IssuesInv, TypeOK
<1>5. CASE local[d].new /\ IndexAdmits(local[d].iid, d)
  <2>1. idmap' = Mapped(local[d].iid, d) BY <1>5 DEF LocalFinish
  <2>2. idmap'[local[d].iid] = d /\ \A j \in Iids : j # local[d].iid => idmap'[j] = idmap[j]
    BY <1>2, <1>4, <2>1 DEF Mapped
  <2> QED BY <1>1, <1>2, <1>3, <1>5, <2>1, <2>2 DEF LocalFinish
<1>6. CASE ~(local[d].new /\ IndexAdmits(local[d].iid, d))
  BY <1>1, <1>2, <1>3, <1>6 DEF LocalFinish
<1> QED BY <1>5, <1>6

LEMMA RemoteMapFacts ==
  ASSUME IssuesInv, NEW i \in Iids, RemoteMap(i)
  PROVE  /\ remote[i] # None /\ remote[i].at = "map" /\ remote[i].doc \in Docs /\ RemoteEnd(i)
         /\ \/ ~IndexAdmits(i, remote[i].doc) /\ UNCHANGED <<idmap, cursor>>
            \/ /\ IndexAdmits(i, remote[i].doc)
               /\ SetCursor(remote[i].ev.ts) /\ Skipped(cursor') \subseteq undone'
               /\ idmap'[i] = remote[i].doc /\ \A j \in Iids : j # i => idmap'[j] = idmap[j]
         /\ undone \subseteq undone'
         /\ UNCHANGED <<gitlab, huly, clock, polled, line, local, buffer, started,
                        edits, touches, races, unsent>>
<1>1. remote[i] # None /\ remote[i].at = "map" /\ RemoteEnd(i) BY DEF RemoteMap
<1>2. remote[i].doc \in Docs BY <1>1, RemoteFacts
<1>3. idmap \in [Iids -> Docs \cup {None}] BY DEF IssuesInv, TypeOK
<1>4. CASE IndexAdmits(i, remote[i].doc)
  <2>1. idmap' = Mapped(i, remote[i].doc) BY <1>4 DEF RemoteMap
  <2>2. idmap'[i] = remote[i].doc /\ \A j \in Iids : j # i => idmap'[j] = idmap[j]
    BY <1>3, <2>1 DEF Mapped
  <2> QED BY <1>1, <1>2, <1>4, <2>1, <2>2 DEF RemoteMap
<1>5. CASE ~IndexAdmits(i, remote[i].doc)
  BY <1>1, <1>2, <1>5 DEF RemoteMap
<1> QED BY <1>4, <1>5

LEMMA RemoteReadFacts ==
  ASSUME IssuesInv, NEW i \in Iids, RemoteRead(i)
  PROVE  /\ remote[i] # None /\ remote[i].at = "read" /\ remote[i].doc \in Docs
         /\ \/ RemoteEnd(i)
            \/ /\ remote'[i] = [remote[i] EXCEPT !.at = "write", !.seen = huly[remote[i].doc]]
               /\ \A j \in Iids : j # i => remote'[j] = remote[j]
               /\ UNCHANGED queued
         /\ UNCHANGED <<gitlab, huly, idmap, cursor, clock, polled, line, local, buffer, started,
                        edits, touches, troubles, races, undone, unsent>>
<1>1. remote[i] # None /\ remote[i].at = "read" BY DEF RemoteRead
<1>2. remote[i].doc \in Docs BY <1>1, RemoteFacts
<1>3. remote \in [Iids -> RemoteJob \cup {None}] BY DEF IssuesInv, TypeOK
<1>4. CASE huly[remote[i].doc] = None
  BY <1>1, <1>2, <1>4 DEF RemoteRead
<1>5. CASE huly[remote[i].doc] # None
  <2>1. remote' = [remote EXCEPT ![i].at = "write", ![i].seen = huly[remote[i].doc]] /\ UNCHANGED queued
    BY <1>5 DEF RemoteRead
  <2>2. /\ remote'[i] = [remote[i] EXCEPT !.at = "write", !.seen = huly[remote[i].doc]]
        /\ \A j \in Iids : j # i => remote'[j] = remote[j]
    BY <1>3, <2>1
  <2> QED BY <1>1, <1>2, <2>1, <2>2 DEF RemoteRead
<1> QED BY <1>4, <1>5

LEMMA RemoteWriteFacts ==
  ASSUME IssuesInv, NEW i \in Iids, RemoteWrite(i)
  PROVE  /\ remote[i] # None /\ remote[i].at = "write" /\ remote[i].doc \in Docs /\ RemoteEnd(i)
         /\ \/ UNCHANGED huly
            \/ /\ huly[remote[i].doc] # None
               /\ huly'[remote[i].doc] = [val |-> remote[i].ev.val, ts |-> remote[i].ev.ts]
               /\ \A f \in Docs : f # remote[i].doc => huly'[f] = huly[f]
         /\ UNCHANGED cursor \/ SetCursor(remote[i].ev.ts)
         /\ Skipped(cursor') \subseteq undone' /\ undone \subseteq undone'
         /\ unsent' \subseteq unsent
         /\ \A f \in unsent : f \notin unsent' => idmap[i] = f
         /\ UNCHANGED <<gitlab, idmap, clock, polled, line, local, buffer, started,
                        edits, touches, races>>
<1>1. remote[i] # None /\ remote[i].at = "write" /\ RemoteEnd(i) BY DEF RemoteWrite
<1>2. remote[i].doc \in Docs BY <1>1, RemoteFacts
<1>3. huly \in [Docs -> Version \cup {None}] BY DEF IssuesInv, TypeOK
<1>4. UNCHANGED <<line, buffer>> BY OnTxPod DEF RemoteWrite
<1>5. \/ UNCHANGED huly
      \/ /\ huly[remote[i].doc] # None
         /\ huly'[remote[i].doc] = [val |-> remote[i].ev.val, ts |-> remote[i].ev.ts]
         /\ \A f \in Docs : f # remote[i].doc => huly'[f] = huly[f]
  BY <1>2, <1>3 DEF RemoteWrite
<1>6. UNCHANGED cursor \/ SetCursor(remote[i].ev.ts)
  BY DEF RemoteWrite
<1>7. /\ Skipped(cursor') \subseteq undone' /\ undone \subseteq undone' /\ unsent' \subseteq unsent
      /\ \A f \in unsent : f \notin unsent' => idmap[i] = f
  BY DEF RemoteWrite
<1> QED BY <1>1, <1>2, <1>4, <1>5, <1>6, <1>7 DEF RemoteWrite

LEMMA RemoteThrowsFacts ==
  ASSUME IssuesInv, NEW i \in Iids, RemoteThrows(i)
  PROVE  /\ remote[i] # None /\ RemoteEnd(i)
         /\ undone \subseteq undone' /\ (Unserved(i, queued') => i \in undone')
         /\ unsent \subseteq unsent'
         /\ remote[i].at = "map" => remote[i].doc \in unsent'
         /\ UNCHANGED <<gitlab, huly, idmap, cursor, clock, polled, line, local, buffer, started,
                        edits, touches, races>>
<1>1. remote[i] # None BY DEF RemoteThrows
<1>2. remote[i].at = "map" => remote[i].doc \in Docs BY <1>1, RemoteFacts
<1> QED BY <1>1, <1>2 DEF RemoteThrows

LEMMA LocalThrowsFacts ==
  ASSUME IssuesInv, NEW d \in Docs, LocalThrows(d)
  PROVE  /\ local[d] # None /\ local[d] \in LocalJob
         /\ local'[d] = None /\ \A f \in Docs : f # d => local'[f] = local[f]
         /\ unsent' = unsent \cup {d} /\ undone \subseteq undone'
         /\ \A i \in Iids : local[d].iid = i /\ Unserved(i, queued) => i \in undone'
         /\ UNCHANGED <<gitlab, huly, idmap, cursor, clock, queued, polled, remote, line, buffer,
                        started, edits, touches, races>>
  BY DEF LocalThrows, Aborted, IssuesInv, TypeOK

LEMMA CursorStep ==
  ASSUME NEW t, SetCursor(t)
  PROVE  cursor' = t \/ cursor' = cursor
  BY DEF SetCursor

LEMMA StepDated ==
  ASSUME IssuesInv, [Next]_vars
  PROVE  Dated'
<1>0. clock \in Nat /\ cursor \in Nat /\ Dated /\ TypeOK BY CountFacts DEF IssuesInv
<1>1. ASSUME clock' \in Nat, clock <= clock', UNCHANGED gitlab, cursor' \in Nat, cursor' <= clock + 1,
             queued' \subseteq queued, UNCHANGED polled
      PROVE  Dated'
  <2>1. cursor' <= clock' + 1
    <3>1. \A a, b, c \in Nat : a <= b /\ c <= a + 1 => c <= b + 1 OBVIOUS
    <3> QED BY <1>0, <1>1, <3>1
  <2>2. \A x : x \in 1..clock => x \in 1..clock' BY <1>0, <1>1
  <2> QED BY <1>0, <1>1, <2>1, <2>2 DEF Dated
<1>2. cursor <= clock + 1 BY <1>0 DEF Dated
<1>3. ASSUME NEW i \in Iids, NEW v, v # 0, clock' = clock + 1,
             gitlab' = [gitlab EXCEPT ![i] = [val |-> v, ts |-> clock']],
             UNCHANGED <<cursor, queued, polled>>
      PROVE  Dated'
  <2>1. gitlab \in [Iids -> Version] BY <1>0 DEF TypeOK
  <2>2. gitlab'[i].val # 0 /\ gitlab'[i].ts = clock' /\ \A j \in Iids : j # i => gitlab'[j] = gitlab[j]
    BY <1>3, <2>1
  <2>3. \A x : x \in 1..clock => x \in 1..clock' BY <1>0, <1>3
  <2>4. clock' \in 1..clock' /\ cursor' <= clock' + 1 BY <1>0, <1>2, <1>3
  <2>5. \A j \in Iids : gitlab'[j] = Absent \/ (gitlab'[j].val # 0 /\ gitlab'[j].ts \in 1..clock')
    BY <1>0, <2>2, <2>3, <2>4 DEF Dated
  <2> QED BY <1>0, <1>3, <2>3, <2>4, <2>5 DEF Dated
<1>4. ASSUME NEW i \in Iids, EditGitlab(i) PROVE Dated'
  <2>1. clock' = clock + 1 /\ clock' # 0 BY <1>4, TypeEdit
  <2>2. gitlab' = [gitlab EXCEPT ![i] = [val |-> clock', ts |-> clock']] /\ UNCHANGED <<cursor, queued, polled>>
    BY <1>4 DEF EditGitlab
  <2> SUFFICES ASSUME NEW v, v = clock' PROVE Dated' OBVIOUS
  <2>3. v # 0 /\ gitlab' = [gitlab EXCEPT ![i] = [val |-> v, ts |-> clock']] BY <2>1, <2>2
  <2> QED BY <1>3, <2>1, <2>2, <2>3
<1>5. ASSUME NEW d \in Docs, LocalCall(d) PROVE Dated'
  <2>1. local[d].val # 0 BY <1>5, LocalCallFacts DEF IssuesInv, LocalAgrees
  <2>2. PICK i \in Iids : gitlab' = [gitlab EXCEPT ![i] = [val |-> local[d].val, ts |-> clock']]
    BY <1>5, LocalCallFacts
  <2>3. clock' = clock + 1 /\ UNCHANGED <<cursor, queued, polled>> BY <1>5 DEF LocalCall
  <2> SUFFICES ASSUME NEW v, v = local[d].val PROVE Dated' OBVIOUS
  <2> QED BY <1>3, <2>1, <2>2, <2>3
<1>6. ASSUME NEW d \in Docs, EditHuly(d) \/ TouchHuly(d) \/ RemoveHuly(d) PROVE Dated'
  <2>1. UNCHANGED <<gitlab, cursor, queued, polled>> BY <1>6 DEF EditHuly, TouchHuly, RemoveHuly
  <2>2. clock' = clock \/ clock' = clock + 1 BY <1>6 DEF EditHuly, TouchHuly, RemoveHuly
  <2>3. clock' \in Nat /\ clock <= clock' BY <1>0, <2>2
  <2> QED BY <1>0, <1>1, <1>2, <2>1, <2>3
<1>7. ASSUME NEW d \in Docs, LocalFinish(d) PROVE Dated'
  <2>1. cursor' = cursor \/ cursor' = clock + 1 BY <1>7, LocalFinishFacts, CursorStep
  <2>2. UNCHANGED <<gitlab, clock, queued, polled>> BY <1>7, LocalFinishFacts
  <2> QED BY <1>0, <1>1, <1>2, <2>1, <2>2
<1>8. ASSUME NEW i \in Iids, RemoteMap(i) \/ RemoteWrite(i) PROVE Dated'
  <2>1. remote[i] # None /\ RemoteEnd(i) BY <1>8, RemoteMapFacts, RemoteWriteFacts
  <2>2. remote[i].ev.ts \in 1..clock BY <2>1, RemoteFacts
  <2>3. cursor' = cursor \/ cursor' = remote[i].ev.ts
    BY <1>8, RemoteMapFacts, RemoteWriteFacts, CursorStep
  <2>4. UNCHANGED <<gitlab, clock, polled>> BY <1>8, RemoteMapFacts, RemoteWriteFacts
  <2>5. queued' \subseteq queued BY <2>1, RemoteEndFacts
  <2>6. cursor' \in Nat /\ cursor' <= clock + 1
    <3> SUFFICES ASSUME NEW t, t = remote[i].ev.ts PROVE cursor' \in Nat /\ cursor' <= clock + 1 OBVIOUS
    <3> QED BY <1>0, <1>2, <2>2, <2>3
  <2> QED BY <1>0, <1>1, <2>4, <2>5, <2>6
<1>9. ASSUME \/ \E i \in Iids : RemoteRead(i) \/ RemoteThrows(i)
             \/ \E e \in queued : RemoteDropped(e)
      PROVE Dated'
  <2>1. queued' \subseteq queued BY <1>9 DEF RemoteRead, RemoteThrows, RemoteDropped, RemoteEnd
  <2>2. UNCHANGED <<gitlab, clock, cursor, polled>> BY <1>9 DEF RemoteRead, RemoteThrows, RemoteDropped
  <2> QED BY <1>0, <1>1, <1>2, <2>1, <2>2
<1>10. CASE Backfill
  <2>1. UNCHANGED <<gitlab, clock, cursor>> BY <1>10 DEF Backfill
  <2>2. ASSUME NEW i \in Iids, Listed(i)
        PROVE  Current(i).val # 0 /\ Current(i).ts \in 1..clock
    BY <1>0, <2>2 DEF Listed, Current, Dated
  <2>3. ASSUME NEW e \in queued' \cup polled'
        PROVE  e \in queued \cup polled \/ \E i \in Iids : Listed(i) /\ e = Current(i)
    BY <1>10, <2>3 DEF Backfill
  <2>4. \A e \in queued' \cup polled' : e.val # 0 /\ e.ts \in 1..clock
    BY <1>0, <2>2, <2>3 DEF Dated
  <2> QED BY <1>0, <2>1, <2>4 DEF Dated
<1>11. CASE UNCHANGED <<gitlab, clock, cursor, queued, polled>>
  BY <1>0, <1>1, <1>2, <1>11
<1>12. ASSUME \/ MarkEngineStarted \/ Crash \/ UNCHANGED vars
              \/ \E d \in Docs : LocalBegin(d) \/ LocalDropped(d) \/ LocalThrows(d)
              \/ \E e \in queued : RemoteBegin(e)
              \/ \E i \in Iids : RemoteCreate(i)
       PROVE  UNCHANGED <<gitlab, clock, cursor, queued, polled>>
  BY <1>12 DEF MarkEngineStarted, Crash, vars, LocalBegin, LocalDropped, LocalThrows, RemoteBegin, RemoteCreate
<1> QED BY <1>4, <1>5, <1>6, <1>7, <1>8, <1>9, <1>10, <1>11, <1>12 DEF Next, Work

-----------------------------------------------------------------------------
(* What does not exist yet is nowhere *)

LEMMA StepNoIidYet ==
  ASSUME IssuesInv, [Next]_vars
  PROVE  NoIidYet'
<1>0. NoIidYet /\ TypeOK BY DEF IssuesInv
<1>1. gitlab \in [Iids -> Version] /\ 0 \notin 1..clock /\ clock \in Nat
  BY <1>0, CountFacts DEF TypeOK
(* A new content of i: the others stay. *)
<1>2. ASSUME NEW i \in Iids, NEW v, clock' = clock + 1,
             gitlab' = [gitlab EXCEPT ![i] = [val |-> v, ts |-> clock']]
      PROVE  \A j \in Iids : gitlab'[j] = Absent => j # i /\ gitlab[j] = Absent
  <2>1. gitlab'[i].ts # 0 /\ \A j \in Iids : j # i => gitlab'[j] = gitlab[j] BY <1>1, <1>2
  <2>2. gitlab'[i] # Absent BY <2>1 DEF Absent
  <2> QED BY <2>1, <2>2
<1>3. ASSUME NEW i \in Iids, EditGitlab(i) PROVE NoIidYet'
  <2>1. \A j \in Iids : gitlab'[j] = Absent => gitlab[j] = Absent
    <3> SUFFICES ASSUME NEW v, v = clock' PROVE \A j \in Iids : gitlab'[j] = Absent => gitlab[j] = Absent
      OBVIOUS
    <3>1. clock' = clock + 1 /\ gitlab' = [gitlab EXCEPT ![i] = [val |-> v, ts |-> clock']]
      BY <1>3 DEF EditGitlab
    <3> QED BY <1>2, <3>1
  <2>2. UNCHANGED <<idmap, remote, queued, local>> BY <1>3 DEF EditGitlab
  <2> QED BY <1>0, <2>1, <2>2 DEF NoIidYet
<1>4. ASSUME NEW d \in Docs, LocalCall(d) PROVE NoIidYet'
  <2>1. PICK i \in Iids :
          /\ gitlab' = [gitlab EXCEPT ![i] = [val |-> local[d].val, ts |-> clock']]
          /\ local' = [local EXCEPT ![d] = [local[d] EXCEPT !.at = "finish", !.iid = i]]
    BY <1>4, LocalCallFacts
  <2>2. clock' = clock + 1 /\ UNCHANGED <<idmap, remote, queued>> BY <1>4 DEF LocalCall
  <2>3. \A j \in Iids : gitlab'[j] = Absent => j # i /\ gitlab[j] = Absent
    <3> SUFFICES ASSUME NEW v, v = local[d].val
                 PROVE  \A j \in Iids : gitlab'[j] = Absent => j # i /\ gitlab[j] = Absent
      OBVIOUS
    <3> QED BY <1>2, <2>1, <2>2
  <2>4. local \in [Docs -> LocalJob \cup {None}] /\ local[d] \in LocalJob
    BY <1>0, <1>4, LocalCallFacts DEF TypeOK
  <2>5. local'[d].iid = i /\ \A f \in Docs : f # d => local'[f] = local[f]
    BY <2>1, <2>4 DEF LocalJob
  <2> QED BY <1>0, <2>2, <2>3, <2>5 DEF NoIidYet
<1>5. ASSUME NEW d \in Docs, LocalBegin(d) PROVE NoIidYet'
  <2>1. UNCHANGED <<gitlab, idmap, remote, queued>> BY <1>5 DEF LocalBegin
  <2>2. local \in [Docs -> LocalJob \cup {None}] BY <1>0 DEF TypeOK
  <2>3. \A f \in Docs : f # d => local'[f] = local[f] BY <1>5, <2>2, LocalBeginFacts
  <2>4. local'[d] = None \/ local'[d] = BeginJob(d) BY <1>5, <2>2, LocalBeginFacts
  <2>5. BeginJob(d).iid = None \/ BeginJob(d).iid \in FindByHuly(d)
    BY FindByHulyFacts DEF BeginJob
  <2>6. ASSUME NEW i \in Iids, gitlab[i] = Absent PROVE i # None /\ i \notin FindByHuly(d)
    BY <1>0, <2>6, ConstantFacts DEF NoIidYet, FindByHuly
  <2> QED BY <1>0, <2>1, <2>3, <2>4, <2>5, <2>6 DEF NoIidYet
<1>6. ASSUME NEW d \in Docs, LocalFinish(d) PROVE NoIidYet'
  <2>1. UNCHANGED <<gitlab, remote, queued>> BY <1>6, LocalFinishFacts
  <2>2. local'[d] = None /\ \A f \in Docs : f # d => local'[f] = local[f] BY <1>6, LocalFinishFacts
  <2>3. local[d].iid \in Iids /\ gitlab[local[d].iid] # Absent
    BY <1>0, <1>6, LocalFinishFacts DEF NoIidYet
  <2>4. \A j \in Iids : j # local[d].iid => idmap'[j] = idmap[j] BY <1>6, LocalFinishFacts
  <2> QED BY <1>0, <2>1, <2>2, <2>3, <2>4 DEF NoIidYet
<1>7. ASSUME NEW e \in queued, RemoteBegin(e) PROVE NoIidYet'
  <2>1. e.iid \in Iids /\ gitlab[e.iid] # Absent BY <1>0, <1>7, RemoteBeginFacts DEF NoIidYet
  <2>2. \A j \in Iids : j # e.iid => remote'[j] = remote[j] BY <1>7, RemoteBeginFacts
  <2>3. UNCHANGED <<gitlab, idmap, queued, local>> BY <1>7, RemoteBeginFacts
  <2> QED BY <1>0, <2>1, <2>2, <2>3 DEF NoIidYet
<1>8. ASSUME NEW i \in Iids, RemoteCreate(i) PROVE NoIidYet'
  <2>1. gitlab[i] # Absent BY <1>0, <1>8, RemoteCreateFacts DEF NoIidYet
  <2>2. \A j \in Iids : j # i => remote'[j] = remote[j] BY <1>8, RemoteCreateFacts
  <2>3. UNCHANGED <<gitlab, idmap, queued, local>> BY <1>8, RemoteCreateFacts
  <2> QED BY <1>0, <2>1, <2>2, <2>3 DEF NoIidYet
<1>9. ASSUME NEW i \in Iids, RemoteMap(i) PROVE NoIidYet'
  <2>1. gitlab[i] # Absent BY <1>0, <1>9, RemoteMapFacts DEF NoIidYet
  <2>2. \A j \in Iids : j # i => remote'[j] = remote[j] /\ idmap'[j] = idmap[j]
    BY <1>9, RemoteMapFacts, RemoteEndFacts
  <2>3. queued' \subseteq queued BY <1>9, RemoteMapFacts, RemoteEndFacts
  <2>4. UNCHANGED <<gitlab, local>> BY <1>9, RemoteMapFacts
  <2> QED BY <1>0, <2>1, <2>2, <2>3, <2>4 DEF NoIidYet
<1>10. ASSUME NEW i \in Iids, RemoteRead(i) \/ RemoteWrite(i) \/ RemoteThrows(i) PROVE NoIidYet'
  <2>0. remote[i] # None /\ remote \in [Iids -> RemoteJob \cup {None}]
    BY <1>0, <1>10 DEF RemoteRead, RemoteWrite, RemoteThrows, TypeOK
  <2>1. gitlab[i] # Absent BY <1>0, <2>0 DEF NoIidYet
  <2>2. \A j \in Iids : j # i => remote'[j] = remote[j]
    BY <1>10, <2>0 DEF RemoteRead, RemoteWrite, RemoteThrows, RemoteEnd
  <2>3. queued' \subseteq queued
    BY <1>10 DEF RemoteRead, RemoteWrite, RemoteThrows, RemoteEnd
  <2>4. UNCHANGED <<gitlab, local, idmap>> BY <1>10 DEF RemoteRead, RemoteWrite, RemoteThrows
  <2> QED BY <1>0, <2>1, <2>2, <2>3, <2>4 DEF NoIidYet
<1>11. CASE Backfill
  <2>1. UNCHANGED <<gitlab, idmap, remote, local>> BY <1>11 DEF Backfill
  <2>2. ASSUME NEW e \in queued' PROVE e \in queued \/ (e.iid \in Iids /\ gitlab[e.iid] # Absent)
    BY <1>11, <2>2 DEF Backfill, Listed, Current
  <2> QED BY <1>0, <2>1, <2>2 DEF NoIidYet
<1>12. CASE UNCHANGED <<gitlab, idmap, remote, queued, local>>
  BY <1>0, <1>12 DEF NoIidYet
<1>13. CASE Crash
  BY <1>0, <1>13 DEF Crash, NoIidYet
<1>14. ASSUME \/ MarkEngineStarted \/ UNCHANGED vars
              \/ \E d \in Docs : EditHuly(d) \/ TouchHuly(d) \/ RemoveHuly(d) \/ LocalDropped(d)
       PROVE  UNCHANGED <<gitlab, idmap, remote, queued, local>>
  BY <1>14 DEF MarkEngineStarted, vars, EditHuly, TouchHuly, RemoveHuly, LocalDropped
<1>15. ASSUME NEW d \in Docs, LocalThrows(d) PROVE NoIidYet'
  <2>1. UNCHANGED <<gitlab, idmap, remote, queued>> BY <1>15, LocalThrowsFacts
  <2>2. local'[d] = None /\ \A f \in Docs : f # d => local'[f] = local[f] BY <1>15, LocalThrowsFacts
  <2> QED BY <1>0, <2>1, <2>2 DEF NoIidYet
<1>16. ASSUME NEW e \in queued, RemoteDropped(e) PROVE NoIidYet'
  BY <1>0, <1>16 DEF RemoteDropped, NoIidYet
<1> QED
  BY <1>3, <1>4, <1>5, <1>6, <1>7, <1>8, <1>9, <1>10, <1>11, <1>12, <1>13, <1>14, <1>15, <1>16
  DEF Next, Work

(* A change of a person leaves the lines of the other issues as they are. *)
LEMMA OnTxOthers ==
  ASSUME TypeOK, NEW d \in Docs, NEW val \in Time \cup {None}, UserTx(d, val)
  PROVE  /\ \A f \in Docs : f # d => line'[f] = line[f]
         /\ \A n \in DOMAIN buffer' : buffer'[n].doc = d \/ (n \in DOMAIN buffer /\ buffer'[n] = buffer[n])
         /\ \A n \in DOMAIN buffer : n \in DOMAIN buffer' /\ buffer'[n] = buffer[n]
         /\ Vals(line[d]) \subseteq Vals(line'[d])
         /\ ~Overflows /\ val # None =>
              \/ val \in Vals(line'[d])
              \/ \E n \in DOMAIN buffer' : buffer'[n].doc = d /\ buffer'[n].val = val
<1>0. line \in [Docs -> Seq(Change)] /\ buffer \in Seq(Change) BY DEF TypeOK
<1>1. PICK c \in Change :
        /\ c.doc = d /\ c.val = val
        /\ \/ started /\ line' = [line EXCEPT ![d] = Append(line[d], c)] /\ buffer' = buffer
           \/ ~started /\ ~Overflows /\ line' = line /\ buffer' = Append(buffer, c)
           \/ Overflows /\ UNCHANGED <<line, buffer>>
  BY OnTxUser
<1>2. CASE started /\ line' = [line EXCEPT ![d] = Append(line[d], c)] /\ buffer' = buffer
  <2>1. line'[d] = Append(line[d], c) /\ \A f \in Docs : f # d => line'[f] = line[f] BY <1>0, <1>2
  <2>2. line[d] \in Seq(Change) BY <1>0
  <2>3. Vals(line'[d]) = Vals(line[d]) \cup ({val} \ {None}) BY <1>1, <2>1, <2>2, ValsAppend
  <2> QED BY <1>2, <2>1, <2>3
<1>3. CASE ~started /\ line' = line /\ buffer' = Append(buffer, c)
  <2>1. /\ DOMAIN buffer' = 1..(Len(buffer) + 1) /\ DOMAIN buffer = 1..Len(buffer) /\ Len(buffer) \in Nat
        /\ \A n \in DOMAIN buffer : buffer'[n] = buffer[n]
        /\ buffer'[Len(buffer) + 1] = c
    BY <1>0, <1>3
  <2>2. \A n \in DOMAIN buffer : n \in DOMAIN buffer' /\ buffer'[n] = buffer[n] BY <2>1
  <2>3. Len(buffer) + 1 \in DOMAIN buffer' BY <2>1
  <2>4. \A n \in DOMAIN buffer' : buffer'[n].doc = d \/ (n \in DOMAIN buffer /\ buffer'[n] = buffer[n])
    <3> SUFFICES ASSUME NEW n \in DOMAIN buffer', n \notin DOMAIN buffer PROVE buffer'[n].doc = d
      BY <2>2
    <3>1. n = Len(buffer) + 1 BY <2>1
    <3> QED BY <1>1, <2>1, <3>1
  <2>5. \E n \in DOMAIN buffer' : buffer'[n].doc = d /\ buffer'[n].val = val
    <3> WITNESS Len(buffer) + 1 \in DOMAIN buffer'
    <3> QED BY <1>1, <2>1
  <2> QED BY <1>3, <2>2, <2>4, <2>5
<1>4. CASE Overflows /\ UNCHANGED <<line, buffer>> BY <1>4
<1> QED BY <1>1, <1>2, <1>3, <1>4

LEMMA StepNoDocYet ==
  ASSUME IssuesInv, [Next]_vars
  PROVE  NoDocYet'
<1>0. NoDocYet /\ TypeOK BY DEF IssuesInv
<1>1. huly \in [Docs -> Version \cup {None}] BY <1>0 DEF TypeOK
<1>2. ASSUME NEW v, v.ts # 0 PROVE v # Absent BY <1>2 DEF Absent
<1>3. ASSUME NEW d \in Docs, NEW val \in Time \cup {None}, UserTx(d, val),
             huly'[d] # Absent, \A f \in Docs : f # d => huly'[f] = huly[f],
             UNCHANGED <<local, idmap, remote>>
      PROVE  NoDocYet'
  <2>1. /\ \A f \in Docs : f # d => line'[f] = line[f]
        /\ \A n \in DOMAIN buffer' : buffer'[n].doc = d \/ (n \in DOMAIN buffer /\ buffer'[n] = buffer[n])
    BY <1>0, <1>3, OnTxOthers
  <2>2. \A f \in Docs : FindByHuly(f)' = FindByHuly(f) BY <1>3 DEF FindByHuly
  <2> QED BY <1>0, <1>3, <2>1, <2>2 DEF NoDocYet
<1>4. ASSUME NEW d \in Docs, EditHuly(d) PROVE NoDocYet'
  <2>1. clock' \in Time /\ clock' # 0 BY <1>4, TypeEdit
  <2>2. huly'[d].ts = clock' /\ \A f \in Docs : f # d => huly'[f] = huly[f]
    BY <1>1, <1>4 DEF EditHuly
  <2>3. huly'[d] # Absent BY <1>2, <2>1, <2>2
  <2>4. UserTx(d, clock') /\ UNCHANGED <<local, idmap, remote>> BY <1>4, PeopleWrite DEF EditHuly
  <2> SUFFICES ASSUME NEW val, val = clock' PROVE NoDocYet' OBVIOUS
  <2>5. val \in Time \cup {None} /\ UserTx(d, val) BY <2>1, <2>4
  <2> QED BY <1>3, <2>2, <2>3, <2>4, <2>5
<1>5. ASSUME NEW d \in Docs, TouchHuly(d) PROVE NoDocYet'
  <2>1. clock' \in Time /\ clock' # 0 BY <1>5, TypeEdit
  <2>2. huly[d] \in Version BY <1>1, <1>5 DEF TouchHuly, Alive
  <2>3. huly'[d].ts = clock' /\ \A f \in Docs : f # d => huly'[f] = huly[f]
    BY <1>1, <1>5, <2>2 DEF TouchHuly, Version
  <2>4. huly'[d] # Absent BY <1>2, <2>1, <2>3
  <2>5. UserTx(d, None) /\ UNCHANGED <<local, idmap, remote>> BY <1>5, PeopleWrite DEF TouchHuly
  <2>6. None \in Time \cup {None} OBVIOUS
  <2> QED BY <1>3, <2>3, <2>4, <2>5, <2>6
<1>6. ASSUME NEW d \in Docs, RemoveHuly(d) PROVE NoDocYet'
  <2>1. huly'[d] # Absent /\ \A f \in Docs : f # d => huly'[f] = huly[f]
    BY <1>1, <1>6, JobFacts DEF RemoveHuly
  <2>2. UserTx(d, None) /\ UNCHANGED <<local, idmap, remote>> BY <1>6, PeopleWrite DEF RemoveHuly
  <2>3. None \in Time \cup {None} OBVIOUS
  <2> QED BY <1>3, <2>1, <2>2, <2>3
<1>7. CASE MarkEngineStarted
  <2>1. UNCHANGED <<huly, local, idmap, remote>> /\ buffer' = <<>> BY <1>7 DEF MarkEngineStarted
  <2>2. \A d \in Docs : FindByHuly(d)' = FindByHuly(d) BY <2>1 DEF FindByHuly
  <2>3. ASSUME NEW d \in Docs, huly[d] = Absent PROVE line'[d] = <<>>
    <3>1. \A n \in DOMAIN buffer : buffer[n].doc # d BY <1>0, <2>3 DEF NoDocYet
    <3>2. line'[d] = ChangesOf(buffer, d) BY <1>7, MarkFacts
    <3>3. buffer \in Seq(Change) BY <1>0 DEF TypeOK
    <3> QED BY <3>1, <3>2, <3>3, ChangesOfFacts
  <2>4. DOMAIN buffer' = {} BY <2>1
  <2> QED BY <1>0, <2>1, <2>2, <2>3, <2>4 DEF NoDocYet
<1>8. ASSUME NEW d \in Docs, LocalBegin(d) PROVE NoDocYet'
  <2>0. local \in [Docs -> LocalJob \cup {None}] /\ line \in [Docs -> Seq(Change)] BY <1>0 DEF TypeOK
  <2>1. UNCHANGED <<huly, idmap, remote, buffer>> BY <1>8 DEF LocalBegin
  <2>2. huly[d] # Absent BY <1>0, <1>8, LocalBeginFacts DEF NoDocYet
  <2>3. \A f \in Docs : f # d => local'[f] = local[f] /\ line'[f] = line[f]
    BY <1>8, <2>0, LocalBeginFacts
  <2>4. \A f \in Docs : FindByHuly(f)' = FindByHuly(f) BY <2>1 DEF FindByHuly
  <2> QED BY <1>0, <2>1, <2>2, <2>3, <2>4 DEF NoDocYet
<1>9. ASSUME NEW d \in Docs, LocalCall(d) PROVE NoDocYet'
  <2>0. local \in [Docs -> LocalJob \cup {None}] BY <1>0 DEF TypeOK
  <2>1. UNCHANGED <<huly, idmap, remote, buffer, line>> BY <1>9 DEF LocalCall
  <2>2. huly[d] # Absent BY <1>0, <1>9, LocalCallFacts DEF NoDocYet
  <2>3. \A f \in Docs : f # d => local'[f] = local[f] BY <1>9, <2>0, LocalCallFacts
  <2>4. \A f \in Docs : FindByHuly(f)' = FindByHuly(f) BY <2>1 DEF FindByHuly
  <2> QED BY <1>0, <2>1, <2>2, <2>3, <2>4 DEF NoDocYet
<1>10. ASSUME NEW d \in Docs, LocalFinish(d) PROVE NoDocYet'
  <2>1. UNCHANGED <<huly, remote, buffer, line>> BY <1>10, LocalFinishFacts
  <2>2. huly[d] # Absent BY <1>0, <1>10, LocalFinishFacts DEF NoDocYet
  <2>3. \A f \in Docs : f # d => local'[f] = local[f] BY <1>10, LocalFinishFacts
  <2>4. \A j \in Iids : idmap'[j] = idmap[j] \/ idmap'[j] = d
    BY <1>10, LocalFinishFacts
  <2>5. \A f \in Docs : f # d => FindByHuly(f)' \subseteq FindByHuly(f) BY <2>4 DEF FindByHuly
  <2> QED BY <1>0, <2>1, <2>2, <2>3, <2>5 DEF NoDocYet
<1>11. ASSUME NEW e \in queued, RemoteBegin(e) PROVE NoDocYet'
  <2>1. UNCHANGED <<huly, idmap, local, buffer, line>> BY <1>11, RemoteBeginFacts
  <2>2. \A f \in Docs : FindByHuly(f)' = FindByHuly(f) BY <2>1 DEF FindByHuly
  <2>3. e.iid \in Iids /\ \A j \in Iids : j # e.iid => remote'[j] = remote[j]
    BY <1>11, RemoteBeginFacts
  <2>4. remote'[e.iid].doc = idmap[e.iid]
    <3> SUFFICES ASSUME NEW a, a = (IF idmap[e.iid] = None THEN "create" ELSE "read")
                 PROVE  remote'[e.iid].doc = idmap[e.iid]
      OBVIOUS
    <3>1. remote'[e.iid] = [at |-> a, ev |-> e, doc |-> idmap[e.iid], seen |-> Absent]
      BY <1>11, RemoteBeginFacts
    <3> QED BY <3>1
  <2>5. \A f \in Docs : idmap[e.iid] = f => FindByHuly(f) # {} BY <2>3 DEF FindByHuly
  <2> QED BY <1>0, <2>1, <2>2, <2>3, <2>4, <2>5 DEF NoDocYet
<1>12. ASSUME NEW i \in Iids, RemoteCreate(i) PROVE NoDocYet'
  <2>1. UNCHANGED <<idmap, local, buffer, line>> BY <1>12, RemoteCreateFacts
  <2>2. \A f \in Docs : FindByHuly(f)' = FindByHuly(f) BY <2>1 DEF FindByHuly
  <2>3. remote[i] # None /\ remote[i] \in RemoteJob /\ remote[i].ev.ts \in 1..clock
    BY <1>12, RemoteCreateFacts, RemoteFacts
  <2>4. PICK d \in Docs :
          /\ huly'[d] = [val |-> remote[i].ev.val, ts |-> remote[i].ev.ts]
          /\ \A f \in Docs : f # d => huly'[f] = huly[f]
          /\ remote'[i] = [remote[i] EXCEPT !.at = "map", !.doc = d]
    BY <1>12, RemoteCreateFacts
  <2>5. remote'[i].doc = d /\ \A j \in Iids : j # i => remote'[j] = remote[j]
    BY <1>12, <2>3, <2>4, RemoteCreateFacts DEF RemoteJob
  <2>6. huly'[d] # Absent
    <3>1. remote[i].ev.ts # 0 BY <2>3
    <3> QED BY <2>4, <3>1 DEF Absent
  <2>7. \A f \in Docs : huly'[f] = Absent => f # d /\ huly[f] = Absent BY <2>4, <2>6
  <2>8. ASSUME NEW f \in Docs, huly'[f] = Absent, NEW j \in Iids, remote'[j] # None
        PROVE  remote'[j].doc # f
    <3>1. CASE j = i BY <2>5, <2>7, <2>8, <3>1
    <3>2. CASE j # i BY <1>0, <2>5, <2>7, <2>8, <3>2 DEF NoDocYet
    <3> QED BY <3>1, <3>2
  <2> QED BY <1>0, <2>1, <2>2, <2>7, <2>8 DEF NoDocYet
<1>13. ASSUME NEW i \in Iids, RemoteMap(i) PROVE NoDocYet'
  <2>1. UNCHANGED <<huly, local, buffer, line>> BY <1>13, RemoteMapFacts
  <2>2. remote[i] # None /\ remote[i].doc \in Docs /\ RemoteEnd(i) BY <1>13, RemoteMapFacts
  <2>3. remote'[i] = None /\ \A j \in Iids : j # i => remote'[j] = remote[j] BY <2>2, RemoteEndFacts
  <2>4. huly[remote[i].doc] # Absent BY <1>0, <2>2 DEF NoDocYet
  <2>5. \A j \in Iids : idmap'[j] = idmap[j] \/ idmap'[j] = remote[i].doc BY <1>13, RemoteMapFacts
  <2>6. \A f \in Docs : f # remote[i].doc => FindByHuly(f)' \subseteq FindByHuly(f)
    BY <2>5 DEF FindByHuly
  <2> QED BY <1>0, <2>1, <2>3, <2>4, <2>6 DEF NoDocYet
<1>14. ASSUME NEW i \in Iids, RemoteRead(i) PROVE NoDocYet'
  <2>1. UNCHANGED <<huly, idmap, local, buffer, line>> BY <1>14, RemoteReadFacts
  <2>2. \A f \in Docs : FindByHuly(f)' = FindByHuly(f) BY <2>1 DEF FindByHuly
  <2>3. remote[i] # None /\ remote[i] \in RemoteJob BY <1>14, RemoteReadFacts, RemoteFacts
  <2>4. CASE RemoteEnd(i)
    <3>1. remote'[i] = None /\ \A j \in Iids : j # i => remote'[j] = remote[j]
      BY <2>3, <2>4, RemoteEndFacts
    <3> QED BY <1>0, <2>1, <2>2, <3>1 DEF NoDocYet
  <2>5. CASE ~RemoteEnd(i)
    <3>1. /\ remote'[i] = [remote[i] EXCEPT !.at = "write", !.seen = huly[remote[i].doc]]
          /\ \A j \in Iids : j # i => remote'[j] = remote[j]
      BY <1>14, <2>5, RemoteReadFacts
    <3>2. remote'[i].doc = remote[i].doc BY <2>3, <3>1 DEF RemoteJob
    <3>3. ASSUME NEW f \in Docs, huly'[f] = Absent, NEW j \in Iids, remote'[j] # None
          PROVE  remote'[j].doc # f
      <4>1. huly[f] = Absent BY <2>1, <3>3
      <4>2. CASE j = i BY <1>0, <2>3, <3>2, <4>1, <4>2 DEF NoDocYet
      <4>3. CASE j # i BY <1>0, <3>1, <3>3, <4>1, <4>3 DEF NoDocYet
      <4> QED BY <4>2, <4>3
    <3> QED BY <1>0, <2>1, <2>2, <3>3 DEF NoDocYet
  <2> QED BY <2>4, <2>5
<1>15. ASSUME NEW i \in Iids, RemoteWrite(i) PROVE NoDocYet'
  <2>1. UNCHANGED <<idmap, local, buffer, line>> BY <1>15, RemoteWriteFacts
  <2>2. \A f \in Docs : FindByHuly(f)' = FindByHuly(f) BY <2>1 DEF FindByHuly
  <2>3. remote[i] # None /\ remote[i].doc \in Docs /\ RemoteEnd(i) BY <1>15, RemoteWriteFacts
  <2>4. remote'[i] = None /\ \A j \in Iids : j # i => remote'[j] = remote[j] BY <2>3, RemoteEndFacts
  <2>5. \A f \in Docs : huly'[f] = Absent => huly[f] = Absent
    <3>1. CASE UNCHANGED huly BY <3>1
    <3>2. CASE ~UNCHANGED huly
      <4>1. /\ huly'[remote[i].doc] = [val |-> remote[i].ev.val, ts |-> remote[i].ev.ts]
            /\ \A f \in Docs : f # remote[i].doc => huly'[f] = huly[f]
        BY <1>15, <3>2, RemoteWriteFacts
      <4>2. remote[i].ev.ts \in 1..clock BY <2>3, RemoteFacts
      <4>3. remote[i].ev.ts # 0 BY <4>2
      <4>4. huly'[remote[i].doc] # Absent BY <4>1, <4>3 DEF Absent
      <4> QED BY <4>1, <4>4
    <3> QED BY <3>1, <3>2
  <2> QED BY <1>0, <2>1, <2>2, <2>4, <2>5 DEF NoDocYet
<1>16. ASSUME NEW i \in Iids, RemoteThrows(i) PROVE NoDocYet'
  <2>1. UNCHANGED <<huly, idmap, local, buffer, line>> BY <1>16, RemoteThrowsFacts
  <2>2. \A f \in Docs : FindByHuly(f)' = FindByHuly(f) BY <2>1 DEF FindByHuly
  <2>3. remote'[i] = None /\ \A j \in Iids : j # i => remote'[j] = remote[j]
    BY <1>16, RemoteThrowsFacts, RemoteEndFacts
  <2> QED BY <1>0, <2>1, <2>2, <2>3 DEF NoDocYet
<1>17. CASE Crash
  <2>1. UNCHANGED <<huly, idmap>> /\ buffer' = <<>> BY <1>17 DEF Crash
  <2>2. \A f \in Docs : FindByHuly(f)' = FindByHuly(f) BY <2>1 DEF FindByHuly
  <2>3. \A d \in Docs : local'[d] = None /\ line'[d] = <<>> BY <1>17 DEF Crash
  <2>4. \A i \in Iids : remote'[i] = None BY <1>17 DEF Crash
  <2>5. DOMAIN buffer' = {} BY <2>1
  <2> QED BY <1>0, <2>1, <2>2, <2>3, <2>4, <2>5 DEF NoDocYet
<1>18. CASE UNCHANGED <<huly, idmap, remote, local, buffer, line>>
  BY <1>0, <1>18 DEF NoDocYet, FindByHuly
<1>19. ASSUME \/ Backfill \/ UNCHANGED vars \/ \E i \in Iids : EditGitlab(i)
              \/ \E e \in queued : RemoteDropped(e)
       PROVE  UNCHANGED <<huly, idmap, remote, local, buffer, line>>
  BY <1>19 DEF Backfill, vars, EditGitlab, RemoteDropped
<1>20. ASSUME NEW d \in Docs, LocalDropped(d) PROVE NoDocYet'
  <2>0. line \in [Docs -> Seq(Change)] BY <1>0 DEF TypeOK
  <2>1. UNCHANGED <<huly, idmap, remote, buffer, local>> BY <1>20 DEF LocalDropped
  <2>2. huly[d] # Absent BY <1>0, <1>20, LocalDroppedFacts DEF NoDocYet
  <2>3. \A f \in Docs : f # d => line'[f] = line[f] BY <1>20, <2>0, LocalDroppedFacts
  <2>4. \A f \in Docs : FindByHuly(f)' = FindByHuly(f) BY <2>1 DEF FindByHuly
  <2> QED BY <1>0, <2>1, <2>2, <2>3, <2>4 DEF NoDocYet
<1>21. ASSUME NEW d \in Docs, LocalThrows(d) PROVE NoDocYet'
  <2>1. UNCHANGED <<huly, idmap, remote, buffer, line>> BY <1>21, LocalThrowsFacts
  <2>2. local'[d] = None /\ \A f \in Docs : f # d => local'[f] = local[f] BY <1>21, LocalThrowsFacts
  <2>3. \A f \in Docs : FindByHuly(f)' = FindByHuly(f) BY <2>1 DEF FindByHuly
  <2> QED BY <1>0, <2>1, <2>2, <2>3 DEF NoDocYet
<1> QED
  BY <1>4, <1>5, <1>6, <1>7, <1>8, <1>9, <1>10, <1>11, <1>12, <1>13, <1>14, <1>15, <1>16,
     <1>17, <1>18, <1>19, <1>20, <1>21
  DEF Next, Work

-----------------------------------------------------------------------------
(* The jobs between two awaits *)

LEMMA StepRemoteAgrees ==
  ASSUME IssuesInv, [Next]_vars
  PROVE  RemoteAgrees'
<1>0. RemoteAgrees /\ TypeOK BY DEF IssuesInv
<1>1. ASSUME queued \subseteq queued', UNCHANGED remote,
             \A j \in Iids : idmap[j] # None => idmap'[j] # None
      PROVE  RemoteAgrees'
  BY <1>0, <1>1 DEF RemoteAgrees
<1>2. ASSUME NEW i \in Iids, remote[i] # None, RemoteEnd(i),
             \A j \in Iids : idmap[j] # None => idmap'[j] # None
      PROVE  RemoteAgrees'
  <2>1. /\ remote'[i] = None /\ \A j \in Iids : j # i => remote'[j] = remote[j]
        /\ \A e \in queued : e.iid # i => e \in queued'
    BY <1>2, RemoteEndFacts
  <2> SUFFICES ASSUME NEW j \in Iids, remote'[j] # None
               PROVE  /\ remote'[j].ev \in queued' /\ remote'[j].ev.iid = j
                      /\ remote'[j].at = "create" => remote'[j].doc = None
                      /\ remote'[j].at # "create" => remote'[j].doc \in Docs
                      /\ remote'[j].at \in {"read", "write"} => idmap'[j] # None
    BY DEF RemoteAgrees
  <2>2. j # i /\ remote'[j] = remote[j] BY <2>1
  <2> QED BY <1>0, <1>2, <2>1, <2>2 DEF RemoteAgrees
<1>3. ASSUME NEW i \in Iids, queued \subseteq queued', UNCHANGED idmap,
             \A j \in Iids : j # i => remote'[j] = remote[j],
             /\ remote'[i].ev \in queued' /\ remote'[i].ev.iid = i
             /\ remote'[i].at = "create" => remote'[i].doc = None
             /\ remote'[i].at # "create" => remote'[i].doc \in Docs
             /\ remote'[i].at \in {"read", "write"} => idmap[i] # None
      PROVE  RemoteAgrees'
  BY <1>0, <1>3 DEF RemoteAgrees
<1>4. ASSUME NEW e \in queued, RemoteBegin(e) PROVE RemoteAgrees'
  <2>1. /\ e.iid \in Iids /\ UNCHANGED <<queued, idmap>>
        /\ \A j \in Iids : j # e.iid => remote'[j] = remote[j]
    BY <1>4, RemoteBeginFacts
  <2>2. idmap[e.iid] \in Docs \cup {None} BY <1>0, <2>1 DEF TypeOK
  <2>3. PICK a : a = (IF idmap[e.iid] = None THEN "create" ELSE "read") OBVIOUS
  <2>4. remote'[e.iid] = [at |-> a, ev |-> e, doc |-> idmap[e.iid], seen |-> Absent]
    BY <1>4, <2>3, RemoteBeginFacts
  <2>5. remote'[e.iid].at = a /\ remote'[e.iid].ev = e /\ remote'[e.iid].doc = idmap[e.iid]
    BY <2>4
  <2> QED BY <1>3, <2>1, <2>2, <2>3, <2>5
<1>5. ASSUME NEW i \in Iids, RemoteCreate(i) PROVE RemoteAgrees'
  <2>1. /\ UNCHANGED <<queued, idmap>> /\ \A j \in Iids : j # i => remote'[j] = remote[j]
        /\ remote[i] # None
    BY <1>5, RemoteCreateFacts
  <2>2. remote[i] \in RemoteJob /\ remote[i].ev \in queued /\ remote[i].ev.iid = i
    BY <2>1, RemoteFacts
  <2>3. PICK d \in Docs : remote'[i] = [remote[i] EXCEPT !.at = "map", !.doc = d]
    BY <1>5, RemoteCreateFacts
  <2>4. remote'[i].at = "map" /\ remote'[i].doc = d /\ remote'[i].ev = remote[i].ev
    BY <2>2, <2>3 DEF RemoteJob
  <2> QED BY <1>3, <2>1, <2>2, <2>4
<1>6. ASSUME NEW i \in Iids, RemoteMap(i) PROVE RemoteAgrees'
  <2>1. remote[i] # None /\ RemoteEnd(i) /\ remote[i].doc \in Docs BY <1>6, RemoteMapFacts
  <2>2. \A j \in Iids : idmap'[j] = idmap[j] \/ idmap'[j] = remote[i].doc BY <1>6, RemoteMapFacts
  <2>3. \A j \in Iids : idmap[j] # None => idmap'[j] # None BY <2>1, <2>2, ConstantFacts
  <2> QED BY <1>2, <2>1, <2>3
<1>7. ASSUME NEW i \in Iids, RemoteRead(i) PROVE RemoteAgrees'
  <2>1. remote[i] # None /\ UNCHANGED idmap /\ remote[i].at = "read" /\ remote[i].doc \in Docs
    BY <1>7, RemoteReadFacts
  <2>2. CASE RemoteEnd(i) BY <1>2, <2>1, <2>2
  <2>3. CASE ~RemoteEnd(i)
    <3>1. /\ remote'[i] = [remote[i] EXCEPT !.at = "write", !.seen = huly[remote[i].doc]]
          /\ \A j \in Iids : j # i => remote'[j] = remote[j]
          /\ UNCHANGED queued
      BY <1>7, <2>3, RemoteReadFacts
    <3>2. remote[i] \in RemoteJob /\ remote[i].ev \in queued /\ remote[i].ev.iid = i
      BY <2>1, RemoteFacts
    <3>3. remote'[i].at = "write" /\ remote'[i].doc = remote[i].doc /\ remote'[i].ev = remote[i].ev
      BY <3>1, <3>2 DEF RemoteJob
    <3>4. idmap[i] # None BY <1>0, <2>1 DEF RemoteAgrees
    <3> QED BY <1>3, <2>1, <3>1, <3>2, <3>3, <3>4
  <2> QED BY <2>2, <2>3
<1>8. ASSUME NEW i \in Iids, RemoteWrite(i) \/ RemoteThrows(i) PROVE RemoteAgrees'
  <2>1. remote[i] # None /\ RemoteEnd(i) /\ UNCHANGED idmap BY <1>8 DEF RemoteWrite, RemoteThrows
  <2> QED BY <1>2, <2>1
<1>9. ASSUME NEW d \in Docs, LocalFinish(d) PROVE RemoteAgrees'
  <2>1. UNCHANGED <<queued, remote>> BY <1>9, LocalFinishFacts
  <2>2. \A j \in Iids : idmap'[j] = idmap[j] \/ idmap'[j] = d BY <1>9, LocalFinishFacts
  <2>3. \A j \in Iids : idmap[j] # None => idmap'[j] # None BY <2>2, ConstantFacts
  <2> QED BY <1>1, <2>1, <2>3
<1>10. CASE Backfill
  BY <1>1, <1>10 DEF Backfill
<1>11. CASE Crash
  BY <1>11 DEF Crash, RemoteAgrees
<1>12. CASE UNCHANGED <<queued, remote, idmap>>
  BY <1>1, <1>12
<1>13. ASSUME \/ MarkEngineStarted \/ UNCHANGED vars
              \/ \E i \in Iids : EditGitlab(i)
              \/ \E d \in Docs : \/ EditHuly(d) \/ TouchHuly(d) \/ RemoveHuly(d)
                                 \/ LocalBegin(d) \/ LocalCall(d) \/ LocalDropped(d) \/ LocalThrows(d)
       PROVE  UNCHANGED <<queued, remote, idmap>>
  BY <1>13 DEF MarkEngineStarted, vars, EditGitlab, EditHuly, TouchHuly, RemoveHuly, LocalBegin, LocalCall,
     LocalDropped, LocalThrows
<1>14. ASSUME NEW e \in queued, RemoteDropped(e) PROVE RemoteAgrees'
  <2>1. /\ e.iid \in Iids /\ remote[e.iid] = None /\ queued' = queued \ {e}
        /\ UNCHANGED <<remote, idmap>>
    BY <1>14, RemoteDroppedFacts
  <2>2. \A j \in Iids : remote[j] # None => remote[j].ev # e BY <1>0, <2>1 DEF RemoteAgrees
  <2> QED BY <1>0, <2>1, <2>2 DEF RemoteAgrees
<1> QED
  BY <1>4, <1>5, <1>6, <1>7, <1>8, <1>9, <1>10, <1>11, <1>12, <1>13, <1>14 DEF Next, Work

LEMMA StepLocalAgrees ==
  ASSUME IssuesInv, [Next]_vars
  PROVE  LocalAgrees'
<1>0. LocalAgrees /\ TypeOK /\ local \in [Docs -> LocalJob \cup {None}]
  BY DEF IssuesInv, TypeOK
<1>1. ASSUME UNCHANGED local, \A j \in Iids : idmap[j] # None => idmap'[j] # None
      PROVE  LocalAgrees'
  BY <1>0, <1>1 DEF LocalAgrees
<1>2. ASSUME NEW d \in Docs, UNCHANGED idmap, \A f \in Docs : f # d => local'[f] = local[f],
             /\ local'[d].val # 0
             /\ local'[d].at = "finish" => local'[d].iid \in Iids
             /\ ~local'[d].new => local'[d].iid \in Iids /\ idmap[local'[d].iid] # None
             /\ local'[d].new /\ local'[d].at = "call" => local'[d].iid = None
      PROVE  LocalAgrees'
  BY <1>0, <1>2 DEF LocalAgrees
<1>3. ASSUME NEW d \in Docs, LocalBegin(d) PROVE LocalAgrees'
  <2>1. UNCHANGED idmap BY <1>3 DEF LocalBegin
  <2>2. CASE UNCHANGED local
    BY <1>1, <2>1, <2>2
  <2>3. CASE Head(line[d]).val # None /\ local' = [local EXCEPT ![d] = BeginJob(d)]
    <3>1. local'[d] = BeginJob(d) /\ \A f \in Docs : f # d => local'[f] = local[f]
      BY <1>0, <2>3
    <3>2. Head(line[d]).val \in Vals(line[d])
      <4>1. line[d] \in Seq(Change) /\ line[d] # <<>> BY <1>3, LocalBeginFacts
      <4> QED BY <2>3, <4>1, ValsTail
    <3>3. Head(line[d]).val \in InFlight BY <3>2 DEF InFlight, Waiting
    <3>4. Head(line[d]).val # 0
      <4>1. Head(line[d]).val \in 1..clock BY <3>3 DEF IssuesInv, OnceEach
      <4> QED BY <4>1
    <3>5. /\ BeginJob(d).at = "call" /\ BeginJob(d).val = Head(line[d]).val
          /\ BeginJob(d).new <=> FindByHuly(d) = {}
          /\ FindByHuly(d) = {} => BeginJob(d).iid = None
          /\ FindByHuly(d) # {} => BeginJob(d).iid \in FindByHuly(d)
      BY FindByHulyFacts DEF BeginJob
    <3>6. \A i \in FindByHuly(d) : i \in Iids /\ idmap[i] # None
      BY ConstantFacts DEF FindByHuly
    <3>7. /\ local'[d].val # 0
          /\ local'[d].at = "finish" => local'[d].iid \in Iids
          /\ ~local'[d].new => local'[d].iid \in Iids /\ idmap[local'[d].iid] # None
          /\ local'[d].new /\ local'[d].at = "call" => local'[d].iid = None
      BY <3>1, <3>4, <3>5, <3>6
    <3> QED BY <1>2, <2>1, <3>1, <3>7
  <2> QED BY <1>3, <2>2, <2>3, LocalBeginFacts
<1>4. ASSUME NEW d \in Docs, LocalCall(d) PROVE LocalAgrees'
  <2>1. UNCHANGED idmap BY <1>4 DEF LocalCall
  <2>2. PICK i \in Iids :
          /\ IF local[d].new THEN NewIid(i) ELSE i = local[d].iid
          /\ local' = [local EXCEPT ![d] = [local[d] EXCEPT !.at = "finish", !.iid = i]]
    BY <1>4, LocalCallFacts
  <2>3. local[d] \in LocalJob /\ local[d] # None BY <1>4, LocalCallFacts
  <2>4. /\ local'[d].at = "finish" /\ local'[d].iid = i /\ local'[d].new = local[d].new
        /\ local'[d].val = local[d].val
        /\ \A f \in Docs : f # d => local'[f] = local[f]
    BY <1>0, <2>2, <2>3 DEF LocalJob
  <2>5. local[d].val # 0 /\ (~local[d].new => idmap[local[d].iid] # None)
    BY <1>0, <2>3 DEF LocalAgrees
  <2> QED BY <1>2, <2>1, <2>2, <2>4, <2>5
<1>5. ASSUME NEW d \in Docs, LocalFinish(d) PROVE LocalAgrees'
  <2>1. local'[d] = None /\ \A f \in Docs : f # d => local'[f] = local[f] BY <1>5, LocalFinishFacts
  <2>2. \A j \in Iids : idmap'[j] = idmap[j] \/ idmap'[j] = d BY <1>5, LocalFinishFacts
  <2>3. \A j \in Iids : idmap[j] # None => idmap'[j] # None BY <2>2, ConstantFacts
  <2> QED BY <1>0, <2>1, <2>3 DEF LocalAgrees
<1>6. ASSUME NEW i \in Iids, RemoteMap(i) PROVE LocalAgrees'
  <2>1. UNCHANGED local /\ remote[i].doc \in Docs BY <1>6, RemoteMapFacts
  <2>2. \A j \in Iids : idmap'[j] = idmap[j] \/ idmap'[j] = remote[i].doc BY <1>6, RemoteMapFacts
  <2>3. \A j \in Iids : idmap[j] # None => idmap'[j] # None BY <2>1, <2>2, ConstantFacts
  <2> QED BY <1>1, <2>1, <2>3
<1>7. CASE Crash
  BY <1>7 DEF Crash, LocalAgrees
<1>8. CASE UNCHANGED <<local, idmap>>
  BY <1>1, <1>8
<1>9. ASSUME \/ MarkEngineStarted \/ Backfill \/ UNCHANGED vars
             \/ \E i \in Iids : EditGitlab(i) \/ RemoteThrows(i) \/ RemoteCreate(i) \/ RemoteRead(i) \/ RemoteWrite(i)
             \/ \E d \in Docs : EditHuly(d) \/ TouchHuly(d) \/ RemoveHuly(d) \/ LocalDropped(d)
             \/ \E e \in queued : RemoteBegin(e) \/ RemoteDropped(e)
      PROVE  UNCHANGED <<local, idmap>>
  BY <1>9 DEF MarkEngineStarted, Backfill, vars, EditGitlab, EditHuly, TouchHuly, RemoveHuly,
     RemoteThrows, RemoteCreate, RemoteRead, RemoteWrite, RemoteBegin, RemoteDropped, LocalDropped
<1>10. ASSUME NEW d \in Docs, LocalThrows(d) PROVE LocalAgrees'
  <2>1. local'[d] = None /\ (\A f \in Docs : f # d => local'[f] = local[f]) /\ UNCHANGED idmap
    BY <1>10, LocalThrowsFacts
  <2> QED BY <1>0, <2>1 DEF LocalAgrees
<1> QED
  BY <1>3, <1>4, <1>5, <1>6, <1>7, <1>8, <1>9, <1>10 DEF Next, Work

-----------------------------------------------------------------------------
(* What a step changes in the claims on the mappings *)

LEMMA RemoteSame ==
  ASSUME UNCHANGED remote
  PROVE  \A j \in Iids : /\ Mirroring(j)' <=> Mirroring(j)
                         /\ \A f \in Docs : Copying(j, f)' <=> Copying(j, f)
  BY DEF Mirroring, Copying

LEMMA LocalSame ==
  ASSUME UNCHANGED local
  PROVE  \A f \in Docs : /\ Creating(f)' <=> Creating(f)
                         /\ \A j \in Iids : Creator(f, j)' <=> Creator(f, j)
  BY DEF Creator, Creating

LEMMA IdmapSame ==
  ASSUME UNCHANGED idmap
  PROVE  \A f \in Docs : FindByHuly(f)' = FindByHuly(f)
  BY DEF FindByHuly

LEMMA IdmapStep ==
  ASSUME NEW i \in Iids, NEW d \in Docs, idmap'[i] = d, \A j \in Iids : j # i => idmap'[j] = idmap[j]
  PROVE  /\ FindByHuly(d)' # {} /\ idmap'[i] # None
         /\ \A f \in Docs : f # d => FindByHuly(f)' = FindByHuly(f) \ {i}
         /\ \A f \in Docs : f # d /\ idmap[i] # f => FindByHuly(f)' = FindByHuly(f)
  BY ConstantFacts DEF FindByHuly

LEMMA ClaimsLocalBegin ==
  ASSUME IssuesInv, NEW d \in Docs, LocalBegin(d)
  PROVE  /\ \A f \in Docs, j \in Iids : Creator(f, j)' <=> Creator(f, j)
         /\ \A f \in Docs : f # d => (Creating(f)' <=> Creating(f))
         /\ ~Creating(d)
         /\ Creating(d)' => FindByHuly(d) = {}
         /\ Head(line[d]).val # None => Creating(d)' \/ FindByHuly(d) # {} \/ d \in unsent'
<1>0. local \in [Docs -> LocalJob \cup {None}] BY DEF IssuesInv, TypeOK
<1>1. local[d] = None BY LocalBeginFacts
<1>2. \A f \in Docs : f # d => local'[f] = local[f] BY <1>0, LocalBeginFacts
<1>3. ~Creating(d) /\ \A j \in Iids : ~Creator(d, j) BY <1>1 DEF Creating, Creator
<1>4. \A f \in Docs : f # d => /\ Creating(f)' <=> Creating(f)
                               /\ \A j \in Iids : Creator(f, j)' <=> Creator(f, j)
  BY <1>2 DEF Creating, Creator
<1>5. CASE UNCHANGED local /\ (Head(line[d]).val = None \/ unsent' = unsent \cup {d})
  <2>1. local'[d] = None BY <1>1, <1>5
  <2>2. ~Creating(d)' /\ \A j \in Iids : ~Creator(d, j)' BY <2>1 DEF Creating, Creator
  <2> QED BY <1>3, <1>4, <1>5, <2>2
<1>6. CASE local' = [local EXCEPT ![d] = BeginJob(d)] /\ BeginJob(d) \in LocalJob
  <2>1. local'[d] = BeginJob(d) /\ BeginJob(d) # None BY <1>0, <1>6, JobFacts
  <2>2. /\ BeginJob(d).new <=> FindByHuly(d) = {}
        /\ FindByHuly(d) = {} => BeginJob(d).iid = None
    BY DEF BeginJob
  <2>3. Creating(d)' <=> FindByHuly(d) = {} BY <2>1, <2>2 DEF Creating
  <2>4. \A j \in Iids : ~Creator(d, j)' BY <2>1, <2>2, ConstantFacts DEF Creator
  <2> QED BY <1>3, <1>4, <2>3, <2>4
<1> QED BY <1>5, <1>6, LocalBeginFacts

LEMMA ClaimsLocalCall ==
  ASSUME IssuesInv, NEW d \in Docs, LocalCall(d)
  PROVE  /\ \A f \in Docs : Creating(f)' <=> Creating(f)
         /\ \E i \in Iids :
              /\ gitlab'[i] # Absent /\ \A j \in Iids : j # i => gitlab'[j] = gitlab[j]
              /\ undone' = undone \ {i}
              /\ \/ ~Creating(d) /\ idmap[i] # None /\ \A f \in Docs, j \in Iids : Creator(f, j)' <=> Creator(f, j)
                 \/ /\ Creating(d) /\ gitlab[i] = Absent /\ Creator(d, i)'
                    /\ \A f \in Docs, j \in Iids : Creator(f, j)' <=> Creator(f, j) \/ (f = d /\ j = i)
<1>0. local \in [Docs -> LocalJob \cup {None}] /\ gitlab \in [Iids -> Version] /\ clock \in Nat
  BY CountFacts DEF IssuesInv, TypeOK
<1>1. PICK i \in Iids :
        /\ IF local[d].new THEN NewIid(i) ELSE i = local[d].iid
        /\ gitlab' = [gitlab EXCEPT ![i] = [val |-> local[d].val, ts |-> clock']]
        /\ local' = [local EXCEPT ![d] = [local[d] EXCEPT !.at = "finish", !.iid = i]]
        /\ undone' = undone \ {i}
  BY LocalCallFacts
<1>2. local[d] \in LocalJob /\ local[d] # None /\ local[d].at = "call" /\ clock' = clock + 1
  BY LocalCallFacts
<1>3. /\ local'[d].iid = i /\ local'[d].new = local[d].new /\ local'[d] # None
      /\ \A f \in Docs : f # d => local'[f] = local[f]
  <2>1. [local[d] EXCEPT !.at = "finish", !.iid = i] \in LocalJob BY <1>2 DEF LocalJob
  <2>2. local'[d] = [local[d] EXCEPT !.at = "finish", !.iid = i] BY <1>0, <1>1
  <2>3. local'[d] # None BY <2>1, <2>2, JobFacts
  <2>4. local'[d].iid = i /\ local'[d].new = local[d].new BY <1>2, <2>2 DEF LocalJob
  <2> QED BY <1>0, <1>1, <2>3, <2>4
<1>4. gitlab'[i] # Absent /\ \A j \in Iids : j # i => gitlab'[j] = gitlab[j]
  <2>1. gitlab'[i].ts # 0 BY <1>0, <1>1, <1>2
  <2>2. gitlab'[i] # Absent BY <2>1 DEF Absent
  <2> QED BY <1>0, <1>1, <2>2
<1>5. \A f \in Docs : f # d => /\ Creating(f)' <=> Creating(f)
                               /\ \A j \in Iids : Creator(f, j)' <=> Creator(f, j)
  BY <1>3 DEF Creating, Creator
<1>6. CASE local[d].new
  <2>1. Creating(d) /\ Creating(d)' BY <1>2, <1>3, <1>6 DEF Creating
  <2>2. gitlab[i] = Absent BY <1>1, <1>6 DEF NewIid
  <2>3. \A j \in Iids : Creator(d, j)' <=> j = i BY <1>3, <1>6 DEF Creator
  <2>4. \A j \in Iids : ~Creator(d, j)
    <3>1. local[d].iid = None BY <1>2, <1>6 DEF IssuesInv, LocalAgrees
    <3> QED BY <3>1, ConstantFacts DEF Creator
  <2> QED BY <1>1, <1>4, <1>5, <2>1, <2>2, <2>3, <2>4
<1>7. CASE ~local[d].new
  <2>1. ~Creating(d) /\ ~Creating(d)' BY <1>3, <1>7 DEF Creating
  <2>2. \A j \in Iids : ~Creator(d, j) /\ ~Creator(d, j)' BY <1>3, <1>7 DEF Creator
  <2>3. idmap[i] # None BY <1>1, <1>2, <1>7 DEF IssuesInv, LocalAgrees
  <2> QED BY <1>1, <1>4, <1>5, <2>1, <2>2, <2>3
<1> QED BY <1>6, <1>7

LEMMA ClaimsLocalFinish ==
  ASSUME IssuesInv, NEW d \in Docs, LocalFinish(d)
  PROVE  /\ ~Creating(d)' /\ \A j \in Iids : ~Creator(d, j)'
         /\ \A j \in Iids : Creator(d, j) => j = local[d].iid
         /\ \A f \in Docs : f # d => /\ Creating(f)' <=> Creating(f)
                                     /\ \A j \in Iids : Creator(f, j)' <=> Creator(f, j)
         /\ local[d].new => Creator(d, local[d].iid) /\ Creating(d)
         /\ ~local[d].new => ~Creating(d) /\ \A j \in Iids : ~Creator(d, j)
<1>1. /\ local[d] # None /\ local'[d] = None
      /\ \A f \in Docs : f # d => local'[f] = local[f]
  BY LocalFinishFacts
<1> QED BY <1>1 DEF Creating, Creator

LEMMA ClaimsLocalThrows ==
  ASSUME IssuesInv, NEW d \in Docs, LocalThrows(d)
  PROVE  /\ ~Creating(d)' /\ \A j \in Iids : ~Creator(d, j)'
         /\ \A j \in Iids : Creator(d, j) => j = local[d].iid
         /\ \A f \in Docs : f # d => /\ Creating(f)' <=> Creating(f)
                                     /\ \A j \in Iids : Creator(f, j)' <=> Creator(f, j)
<1>1. local'[d] = None /\ \A f \in Docs : f # d => local'[f] = local[f] BY LocalThrowsFacts
<1> QED BY <1>1 DEF Creating, Creator

LEMMA ClaimsRemoteBegin ==
  ASSUME IssuesInv, NEW e \in queued, RemoteBegin(e)
  PROVE  /\ \A j \in Iids, f \in Docs : Copying(j, f)' <=> Copying(j, f)
         /\ \A j \in Iids : j # e.iid => (Mirroring(j)' <=> Mirroring(j))
         /\ ~Mirroring(e.iid)
         /\ Mirroring(e.iid)' <=> idmap[e.iid] = None
<1>1. e.iid \in Iids /\ remote[e.iid] = None /\ \A j \in Iids : j # e.iid => remote'[j] = remote[j]
  BY RemoteBeginFacts
<1>2. PICK a : a = (IF idmap[e.iid] = None THEN "create" ELSE "read") OBVIOUS
<1>3. remote'[e.iid] = [at |-> a, ev |-> e, doc |-> idmap[e.iid], seen |-> Absent]
  BY <1>2, RemoteBeginFacts
<1>4. remote'[e.iid].at = a BY <1>3
<1>5. remote'[e.iid] # None
  <2>2. remote'[e.iid].at = a /\ (a = "create" \/ a = "read") BY <1>2, <1>4
  <2>3. e \in Event /\ idmap[e.iid] \in Docs \cup {None}
    BY <1>1, RemoteBeginFacts DEF IssuesInv, TypeOK
  <2>4. remote'[e.iid] \in RemoteJob BY <1>3, <2>2, <2>3, JobFacts DEF RemoteJob
  <2> QED BY <2>4, JobFacts
<1>6. Mirroring(e.iid)' <=> idmap[e.iid] = None BY <1>2, <1>4, <1>5 DEF Mirroring
<1>7. ~Mirroring(e.iid) BY <1>1 DEF Mirroring
<1>8. \A f \in Docs : ~Copying(e.iid, f) /\ ~Copying(e.iid, f)' BY <1>1, <1>2, <1>4 DEF Copying
<1>9. \A j \in Iids : j # e.iid => /\ Mirroring(j)' <=> Mirroring(j)
                                   /\ \A f \in Docs : Copying(j, f)' <=> Copying(j, f)
  BY <1>1 DEF Mirroring, Copying
<1> QED BY <1>1, <1>6, <1>7, <1>8, <1>9

LEMMA ClaimsRemoteCreate ==
  ASSUME IssuesInv, NEW i \in Iids, RemoteCreate(i)
  PROVE  /\ \A j \in Iids : Mirroring(j)' <=> Mirroring(j)
         /\ \A f \in Docs : ~Copying(i, f)
         /\ \A j \in Iids : j # i => \A f \in Docs : Copying(j, f)' <=> Copying(j, f)
         /\ \E d \in Docs : /\ huly[d] = Absent /\ \A f \in Docs : f # d => huly'[f] = huly[f]
                            /\ \A f \in Docs : Copying(i, f)' <=> f = d
<1>1. /\ remote[i] # None /\ remote[i].at = "create"
      /\ \A j \in Iids : j # i => remote'[j] = remote[j]
  BY RemoteCreateFacts
<1>2. PICK d \in Docs : /\ huly[d] = Absent
                        /\ \A f \in Docs : f # d => huly'[f] = huly[f]
                        /\ remote'[i] = [remote[i] EXCEPT !.at = "map", !.doc = d]
  BY RemoteCreateFacts
<1>3. remote[i] \in RemoteJob BY <1>1, RemoteFacts
<1>4. remote'[i].at = "map" /\ remote'[i].doc = d BY <1>2, <1>3 DEF RemoteJob
<1>5. remote'[i] # None
  <2>1. [remote[i] EXCEPT !.at = "map", !.doc = d] \in RemoteJob BY <1>3 DEF RemoteJob
  <2> QED BY <1>2, <2>1, JobFacts
<1>6. Mirroring(i) /\ Mirroring(i)' BY <1>1, <1>4, <1>5 DEF Mirroring
<1>7. \A f \in Docs : ~Copying(i, f) /\ (Copying(i, f)' <=> f = d) BY <1>1, <1>4, <1>5 DEF Copying
<1>8. \A j \in Iids : j # i => /\ Mirroring(j)' <=> Mirroring(j)
                               /\ \A f \in Docs : Copying(j, f)' <=> Copying(j, f)
  BY <1>1 DEF Mirroring, Copying
<1> QED BY <1>2, <1>6, <1>7, <1>8

LEMMA ClaimsRemoteEnd ==
  ASSUME IssuesInv, NEW i \in Iids, remote[i] # None, RemoteEnd(i)
  PROVE  /\ ~Mirroring(i)' /\ \A f \in Docs : ~Copying(i, f)'
         /\ \A j \in Iids : j # i => /\ Mirroring(j)' <=> Mirroring(j)
                                     /\ \A f \in Docs : Copying(j, f)' <=> Copying(j, f)
<1>1. remote'[i] = None /\ \A j \in Iids : j # i => remote'[j] = remote[j] BY RemoteEndFacts
<1> QED BY <1>1 DEF Mirroring, Copying

LEMMA ClaimsRemoteRead ==
  ASSUME IssuesInv, NEW i \in Iids, RemoteRead(i) \/ RemoteWrite(i)
  PROVE  /\ \A j \in Iids : /\ Mirroring(j)' <=> Mirroring(j)
                            /\ \A f \in Docs : Copying(j, f)' <=> Copying(j, f)
         /\ idmap[i] # None /\ \A e \in queued : e.iid # i => e \in queued'
<1>1. remote[i] # None /\ (remote[i].at = "read" \/ remote[i].at = "write")
  BY RemoteReadFacts, RemoteWriteFacts
<1>2. idmap[i] # None BY <1>1 DEF IssuesInv, RemoteAgrees
<1>3. ~Mirroring(i) /\ \A f \in Docs : ~Copying(i, f) BY <1>1 DEF Mirroring, Copying
<1>4. CASE RemoteEnd(i)
  BY <1>1, <1>2, <1>3, <1>4, ClaimsRemoteEnd, RemoteEndFacts
<1>5. CASE ~RemoteEnd(i)
  <2>1. /\ remote'[i] = [remote[i] EXCEPT !.at = "write", !.seen = huly[remote[i].doc]]
        /\ \A j \in Iids : j # i => remote'[j] = remote[j]
        /\ UNCHANGED queued
    BY <1>5, RemoteReadFacts, RemoteWriteFacts
  <2>2. remote[i] \in RemoteJob BY <1>1, RemoteFacts
  <2>3. remote'[i].at = "write" BY <2>1, <2>2 DEF RemoteJob
  <2>4. ~Mirroring(i)' /\ \A f \in Docs : ~Copying(i, f)' BY <2>3 DEF Mirroring, Copying
  <2>5. \A j \in Iids : j # i => /\ Mirroring(j)' <=> Mirroring(j)
                                 /\ \A f \in Docs : Copying(j, f)' <=> Copying(j, f)
    BY <2>1 DEF Mirroring, Copying
  <2> QED BY <1>2, <1>3, <2>1, <2>4, <2>5
<1> QED BY <1>4, <1>5

LEMMA ClaimsCrash ==
  ASSUME Crash
  PROVE  /\ \A j \in Iids : ~Mirroring(j)' /\ \A f \in Docs : ~Copying(j, f)'
         /\ \A f \in Docs : ~Creating(f)' /\ \A j \in Iids : ~Creator(f, j)'
<1>1. (\A j \in Iids : remote'[j] = None) /\ \A f \in Docs : local'[f] = None BY DEF Crash
<1> QED BY <1>1 DEF Mirroring, Copying, Creating, Creator

-----------------------------------------------------------------------------
(* At most two claims on one issue *)

LEMMA StepFewClaims ==
  ASSUME IssuesInv, [Next]_vars
  PROVE  FewClaims'
<1>0. FewClaims BY DEF IssuesInv
<1>1. CASE UNCHANGED <<remote, local, idmap>>
  BY <1>0, <1>1, RemoteSame, LocalSame, IdmapSame DEF FewClaims
<1>2. ASSUME \/ MarkEngineStarted \/ Backfill \/ UNCHANGED vars
             \/ \E i \in Iids : EditGitlab(i)
             \/ \E d \in Docs : EditHuly(d) \/ TouchHuly(d) \/ RemoveHuly(d) \/ LocalDropped(d)
             \/ \E e \in queued : RemoteDropped(e)
      PROVE  UNCHANGED <<remote, local, idmap>>
  BY <1>2 DEF MarkEngineStarted, Backfill, vars, EditGitlab, EditHuly, TouchHuly, RemoveHuly,
     LocalDropped, RemoteDropped
<1>3. ASSUME NEW d \in Docs, LocalBegin(d) PROVE FewClaims'
  <2>1. UNCHANGED <<remote, idmap>> BY <1>3 DEF LocalBegin
  <2> QED BY <1>0, <1>3, <2>1, RemoteSame, IdmapSame, ClaimsLocalBegin DEF FewClaims
<1>4. ASSUME NEW d \in Docs, LocalCall(d) PROVE FewClaims'
  <2>1. UNCHANGED <<remote, idmap>> BY <1>4 DEF LocalCall
  <2>2. \A f \in Docs : Creating(f)' <=> Creating(f) BY <1>4, ClaimsLocalCall
  <2>3. PICK i \in Iids :
              \/ ~Creating(d) /\ \A f \in Docs, j \in Iids : Creator(f, j)' <=> Creator(f, j)
              \/ /\ gitlab[i] = Absent
                 /\ \A f \in Docs, j \in Iids : Creator(f, j)' <=> Creator(f, j) \/ (f = d /\ j = i)
    BY <1>4, ClaimsLocalCall
  <2>4. gitlab[i] = Absent => ~Mirroring(i) /\ \A f \in Docs : ~Creator(f, i)
    BY DEF IssuesInv, NoIidYet, Mirroring, Creator
  <2>5. \A j \in Iids : /\ Mirroring(j)' <=> Mirroring(j)
                        /\ \A f \in Docs : Copying(j, f)' <=> Copying(j, f)
    BY <2>1, RemoteSame
  <2>6. \A f \in Docs : FindByHuly(f)' = FindByHuly(f) BY <2>1, IdmapSame
  <2>7. \A j \in Iids, f, g \in Docs : Creator(f, j)' /\ Creator(g, j)' => f = g
    BY <1>0, <2>3, <2>4 DEF FewClaims
  <2>8. \A j \in Iids, f \in Docs : Mirroring(j)' /\ idmap'[j] # None => ~Creator(f, j)'
    BY <1>0, <2>1, <2>3, <2>4, <2>5 DEF FewClaims
  <2> QED BY <1>0, <2>2, <2>5, <2>6, <2>7, <2>8 DEF FewClaims
<1>5. ASSUME NEW d \in Docs, LocalFinish(d) PROVE FewClaims'
  <2>1. UNCHANGED remote /\ local[d].iid \in Iids BY <1>5, LocalFinishFacts
  <2>2. \A j \in Iids : /\ Mirroring(j)' <=> Mirroring(j)
                        /\ \A f \in Docs : Copying(j, f)' <=> Copying(j, f)
    BY <2>1, RemoteSame
  <2>3. /\ ~Creating(d)' /\ \A j \in Iids : ~Creator(d, j)'
        /\ \A f \in Docs : f # d => /\ Creating(f)' <=> Creating(f)
                                    /\ \A j \in Iids : Creator(f, j)' <=> Creator(f, j)
    BY <1>5, ClaimsLocalFinish
  <2>4. CASE UNCHANGED idmap
    <3>1. \A f \in Docs : FindByHuly(f)' = FindByHuly(f) BY <2>4, IdmapSame
    <3> QED BY <1>0, <2>2, <2>3, <2>4, <3>1 DEF FewClaims
  <2>5. CASE ~UNCHANGED idmap
    <3>1. /\ local[d].new /\ idmap'[local[d].iid] = d
          /\ \A j \in Iids : j # local[d].iid => idmap'[j] = idmap[j]
      BY <1>5, <2>5, LocalFinishFacts
    <3>2. Creator(d, local[d].iid) BY <1>5, <3>1, ClaimsLocalFinish
    <3>3. \A f \in Docs : f # d => FindByHuly(f)' \subseteq FindByHuly(f)
      BY <2>1, <3>1 DEF FindByHuly
    <3>4. \A f \in Docs : f # d => ~Creator(f, local[d].iid) BY <1>0, <2>1, <3>2 DEF FewClaims
    <3>5. \A j \in Iids, f \in Docs : Mirroring(j)' /\ idmap'[j] # None => ~Creator(f, j)'
      BY <1>0, <2>2, <2>3, <3>1, <3>4 DEF FewClaims
    <3>6. \A j \in Iids, f \in Docs : Creating(f)' /\ FindByHuly(f)' # {} => ~Copying(j, f)'
      BY <1>0, <2>2, <2>3, <3>3 DEF FewClaims
    <3>7. \A j \in Iids, f, g \in Docs : Creator(f, j)' /\ Creator(g, j)' => f = g
      BY <1>0, <2>3 DEF FewClaims
    <3> QED BY <1>0, <2>2, <3>5, <3>6, <3>7 DEF FewClaims
  <2> QED BY <2>4, <2>5
<1>6. ASSUME NEW e \in queued, RemoteBegin(e) PROVE FewClaims'
  <2>1. UNCHANGED <<local, idmap>> /\ e.iid \in Iids BY <1>6, RemoteBeginFacts
  <2> QED BY <1>0, <1>6, <2>1, LocalSame, IdmapSame, ClaimsRemoteBegin DEF FewClaims
<1>7. ASSUME NEW i \in Iids, RemoteCreate(i) PROVE FewClaims'
  <2>1. UNCHANGED <<local, idmap>> BY <1>7, RemoteCreateFacts
  <2>2. PICK d \in Docs : huly[d] = Absent /\ \A f \in Docs : Copying(i, f)' <=> f = d
    BY <1>7, ClaimsRemoteCreate
  <2>3. ~Creating(d) /\ \A j \in Iids : ~Copying(j, d)
    BY <2>2 DEF IssuesInv, NoDocYet, Creating, Copying
  <2>4. \A j \in Iids : /\ Mirroring(j)' <=> Mirroring(j)
                        /\ j # i => \A f \in Docs : Copying(j, f)' <=> Copying(j, f)
    BY <1>7, ClaimsRemoteCreate
  <2>5. \A f \in Docs : /\ Creating(f)' <=> Creating(f)
                        /\ \A j \in Iids : Creator(f, j)' <=> Creator(f, j)
    BY <2>1, LocalSame
  <2>6. \A f \in Docs : FindByHuly(f)' = FindByHuly(f) BY <2>1, IdmapSame
  <2>7. \A j, k \in Iids, f \in Docs : Copying(j, f)' /\ Copying(k, f)' => j = k
    BY <1>0, <2>2, <2>3, <2>4 DEF FewClaims
  <2>8. \A j \in Iids, f \in Docs : Creating(f)' /\ FindByHuly(f)' # {} => ~Copying(j, f)'
    BY <1>0, <2>2, <2>3, <2>4, <2>5, <2>6 DEF FewClaims
  <2> QED BY <1>0, <2>1, <2>4, <2>5, <2>7, <2>8 DEF FewClaims
<1>8. ASSUME NEW i \in Iids, RemoteMap(i) PROVE FewClaims'
  <2>1. /\ UNCHANGED local /\ remote[i] # None /\ RemoteEnd(i) /\ remote[i].doc \in Docs
        /\ remote[i].at = "map"
    BY <1>8, RemoteMapFacts
  <2>2. \A f \in Docs : /\ Creating(f)' <=> Creating(f)
                        /\ \A j \in Iids : Creator(f, j)' <=> Creator(f, j)
    BY <2>1, LocalSame
  <2>3. /\ ~Mirroring(i)' /\ \A f \in Docs : ~Copying(i, f)'
        /\ \A j \in Iids : j # i => /\ Mirroring(j)' <=> Mirroring(j)
                                    /\ \A f \in Docs : Copying(j, f)' <=> Copying(j, f)
    BY <2>1, ClaimsRemoteEnd
  <2>4. Copying(i, remote[i].doc) BY <2>1 DEF Copying
  <2>5. \A j \in Iids : j # i => ~Copying(j, remote[i].doc) BY <1>0, <2>1, <2>4 DEF FewClaims
  <2>6. \A j \in Iids : j # i => idmap'[j] = idmap[j] BY <1>8, RemoteMapFacts
  <2>7. \A j \in Iids : idmap'[j] = idmap[j] \/ idmap'[j] = remote[i].doc BY <1>8, RemoteMapFacts
  <2>8. \A f \in Docs : f # remote[i].doc => FindByHuly(f)' \subseteq FindByHuly(f)
    BY <2>7 DEF FindByHuly
  <2>9. \A j \in Iids, f \in Docs : Creating(f)' /\ FindByHuly(f)' # {} => ~Copying(j, f)'
    BY <1>0, <2>2, <2>3, <2>5, <2>8 DEF FewClaims
  <2>10. \A j \in Iids, f \in Docs : Mirroring(j)' /\ idmap'[j] # None => ~Creator(f, j)'
    BY <1>0, <2>2, <2>3, <2>6 DEF FewClaims
  <2>11. \A j, k \in Iids, f \in Docs : Copying(j, f)' /\ Copying(k, f)' => j = k
    BY <1>0, <2>3 DEF FewClaims
  <2> QED BY <1>0, <2>2, <2>9, <2>10, <2>11 DEF FewClaims
<1>9. ASSUME NEW i \in Iids, RemoteRead(i) \/ RemoteWrite(i) PROVE FewClaims'
  <2>1. UNCHANGED <<local, idmap>> BY <1>9, RemoteReadFacts, RemoteWriteFacts
  <2> QED BY <1>0, <1>9, <2>1, LocalSame, IdmapSame, ClaimsRemoteRead DEF FewClaims
<1>10. ASSUME NEW i \in Iids, RemoteThrows(i) PROVE FewClaims'
  <2>1. UNCHANGED <<local, idmap>> /\ remote[i] # None /\ RemoteEnd(i) BY <1>10, RemoteThrowsFacts
  <2>2. /\ ~Mirroring(i)' /\ \A f \in Docs : ~Copying(i, f)'
        /\ \A j \in Iids : j # i => /\ Mirroring(j)' <=> Mirroring(j)
                                    /\ \A f \in Docs : Copying(j, f)' <=> Copying(j, f)
    BY <2>1, ClaimsRemoteEnd
  <2> QED BY <1>0, <2>1, <2>2, LocalSame, IdmapSame DEF FewClaims
<1>11. CASE Crash
  BY <1>11, ClaimsCrash DEF FewClaims
<1>12. ASSUME NEW d \in Docs, LocalThrows(d) PROVE FewClaims'
  <2>1. UNCHANGED <<remote, idmap>> BY <1>12, LocalThrowsFacts
  <2>2. \A f \in Docs : /\ Creating(f)' => Creating(f)
                        /\ \A j \in Iids : Creator(f, j)' => Creator(f, j)
    BY <1>12, ClaimsLocalThrows
  <2> QED BY <1>0, <2>1, <2>2, RemoteSame, IdmapSame DEF FewClaims
<1> QED
  BY <1>1, <1>2, <1>3, <1>4, <1>5, <1>6, <1>7, <1>8, <1>9, <1>10, <1>11, <1>12 DEF Next, Work

-----------------------------------------------------------------------------
(* The budget of the races *)

LEMMA CardLess ==
  ASSUME NEW S, IsFiniteSet(S), NEW T, T \subseteq S
  PROVE  Cardinality(T) <= Cardinality(S)
  BY FS_Subset

LEMMA CardAdd ==
  ASSUME NEW S, IsFiniteSet(S), NEW x, NEW T, T \subseteq S \cup {x}
  PROVE  Cardinality(T) <= Cardinality(S) + 1
<1>1. IsFiniteSet(S \cup {x}) /\ Cardinality(S) \in Nat BY FS_AddElement, FS_CardinalityType
<1>2. Cardinality(S \cup {x}) <= Cardinality(S) + 1 /\ Cardinality(S \cup {x}) \in Nat
  BY <1>1, FS_AddElement
<1>3. IsFiniteSet(T) /\ Cardinality(T) <= Cardinality(S \cup {x}) BY <1>1, FS_Subset
<1>4. Cardinality(T) \in Nat BY <1>3, FS_CardinalityType
<1> QED BY <1>1, <1>2, <1>3, <1>4

LEMMA CardDrop ==
  ASSUME NEW S, IsFiniteSet(S), NEW x \in S, NEW T, T \subseteq S \ {x}
  PROVE  Cardinality(T) <= Cardinality(S) - 1
<1>1. IsFiniteSet(S \ {x}) /\ Cardinality(S \ {x}) = Cardinality(S) - 1 BY FS_RemoveElement
<1>2. Cardinality(T) <= Cardinality(S \ {x}) BY <1>1, FS_Subset
<1> QED BY <1>1, <1>2

LEMMA SubsetCard ==
  ASSUME NEW S, IsFiniteSet(S), NEW T, T \subseteq S
  PROVE  IsFiniteSet(T) /\ Cardinality(T) \in Nat
  BY FS_Subset, FS_CardinalityType

LEMMA DebtFacts ==
  /\ IsFiniteSet(LooseDocs) /\ IsFiniteSet(LooseIids) /\ IsFiniteSet(ConflictDocs) /\ IsFiniteSet(ConflictIids)
  /\ Cardinality(LooseDocs) \in Nat /\ Cardinality(LooseIids) \in Nat
  /\ Cardinality(ConflictDocs) \in Nat /\ Cardinality(ConflictIids) \in Nat
<1>1. LooseDocs \subseteq Docs /\ LooseIids \subseteq Iids /\ ConflictDocs \subseteq Docs /\ ConflictIids \subseteq Iids
  BY DEF LooseDocs, LooseIids, ConflictDocs, ConflictIids
<1> HIDE DEF LooseDocs, LooseIids, ConflictDocs, ConflictIids
<1> QED BY <1>1, ConstantFacts, SubsetCard

LEMMA DebtFactsNext ==
  /\ Cardinality(LooseDocs') \in Nat /\ Cardinality(LooseIids') \in Nat
  /\ Cardinality(ConflictDocs') \in Nat /\ Cardinality(ConflictIids') \in Nat
<1>1. LooseDocs' \subseteq Docs /\ LooseIids' \subseteq Iids /\ ConflictDocs' \subseteq Docs /\ ConflictIids' \subseteq Iids
  BY DEF LooseDocs, LooseIids, ConflictDocs, ConflictIids
<1> SUFFICES ASSUME NEW a, a = LooseDocs', NEW b, b = LooseIids', NEW c, c = ConflictDocs', NEW e, e = ConflictIids'
             PROVE  /\ Cardinality(a) \in Nat /\ Cardinality(b) \in Nat
                    /\ Cardinality(c) \in Nat /\ Cardinality(e) \in Nat
  OBVIOUS
<1> QED BY <1>1, ConstantFacts, SubsetCard

(* What each of the four sets gains or loses, and what a race pays. *)
LEMMA BudgetStep ==
  ASSUME IssuesInv, races' \in Nat, NEW p \in Int, NEW q \in Int, NEW r \in Int, NEW s \in Int,
         Cardinality(LooseDocs') <= Cardinality(LooseDocs) + p,
         Cardinality(LooseIids') <= Cardinality(LooseIids) + q,
         Cardinality(ConflictDocs') <= Cardinality(ConflictDocs) + r,
         Cardinality(ConflictIids') <= Cardinality(ConflictIids) + s,
         races + p + q + r + s <= races'
  PROVE  RaceBudget'
<1>1. Cardinality(LooseDocs) + Cardinality(LooseIids) + Cardinality(ConflictDocs) + Cardinality(ConflictIids) <= races
  BY DEF IssuesInv, RaceBudget
<1>2. races \in Nat BY CountFacts DEF IssuesInv
<1>3. Cardinality(LooseDocs') + Cardinality(LooseIids') + Cardinality(ConflictDocs') + Cardinality(ConflictIids') <= races'
  BY <1>1, <1>2, DebtFacts, DebtFactsNext
<1> QED BY <1>3 DEF RaceBudget

LEMMA BudgetSame ==
  ASSUME IssuesInv, races' \in Nat, races <= races',
         LooseDocs' \subseteq LooseDocs, LooseIids' \subseteq LooseIids,
         ConflictDocs' \subseteq ConflictDocs, ConflictIids' \subseteq ConflictIids
  PROVE  RaceBudget'
<1>1. /\ Cardinality(LooseDocs') <= Cardinality(LooseDocs) + 0
      /\ Cardinality(LooseIids') <= Cardinality(LooseIids) + 0
      /\ Cardinality(ConflictDocs') <= Cardinality(ConflictDocs) + 0
      /\ Cardinality(ConflictIids') <= Cardinality(ConflictIids) + 0
  BY CardLess, DebtFacts
<1>2. races + 0 + 0 + 0 + 0 <= races' BY CountFacts DEF IssuesInv
<1> QED BY <1>1, <1>2, BudgetStep

(* A race begins: two claims on one issue. *)
LEMMA BudgetRaceDoc ==
  ASSUME IssuesInv, races' = races + 1, NEW d,
         LooseDocs' \subseteq LooseDocs, LooseIids' \subseteq LooseIids,
         ConflictDocs' \subseteq ConflictDocs \cup {d}, ConflictIids' \subseteq ConflictIids
  PROVE  RaceBudget'
<1>1. /\ Cardinality(LooseDocs') <= Cardinality(LooseDocs) + 0
      /\ Cardinality(LooseIids') <= Cardinality(LooseIids) + 0
      /\ Cardinality(ConflictIids') <= Cardinality(ConflictIids) + 0
  BY CardLess, DebtFacts
<1>2. Cardinality(ConflictDocs') <= Cardinality(ConflictDocs) + 1 BY CardAdd, DebtFacts
<1>3. races + 0 + 0 + 1 + 0 <= races' /\ races' \in Nat BY CountFacts DEF IssuesInv
<1> QED BY <1>1, <1>2, <1>3, BudgetStep

LEMMA BudgetRaceIid ==
  ASSUME IssuesInv, races' = races + 1, NEW i,
         LooseDocs' \subseteq LooseDocs, LooseIids' \subseteq LooseIids,
         ConflictDocs' \subseteq ConflictDocs, ConflictIids' \subseteq ConflictIids \cup {i}
  PROVE  RaceBudget'
<1>1. /\ Cardinality(LooseDocs') <= Cardinality(LooseDocs) + 0
      /\ Cardinality(LooseIids') <= Cardinality(LooseIids) + 0
      /\ Cardinality(ConflictDocs') <= Cardinality(ConflictDocs) + 0
  BY CardLess, DebtFacts
<1>2. Cardinality(ConflictIids') <= Cardinality(ConflictIids) + 1 BY CardAdd, DebtFacts
<1>3. races + 0 + 0 + 0 + 1 <= races' /\ races' \in Nat BY CountFacts DEF IssuesInv
<1> QED BY <1>1, <1>2, <1>3, BudgetStep

(* A race ends: one of the claims wins, and the other issue is left alone. *)
LEMMA BudgetLoosesIid ==
  ASSUME IssuesInv, races' = races, NEW d \in ConflictDocs, NEW i,
         LooseDocs' \subseteq LooseDocs, LooseIids' \subseteq LooseIids \cup {i},
         ConflictDocs' \subseteq ConflictDocs \ {d}, ConflictIids' \subseteq ConflictIids
  PROVE  RaceBudget'
<1>1. /\ Cardinality(LooseDocs') <= Cardinality(LooseDocs) + 0
      /\ Cardinality(ConflictIids') <= Cardinality(ConflictIids) + 0
  BY CardLess, DebtFacts
<1>2. Cardinality(LooseIids') <= Cardinality(LooseIids) + 1 BY CardAdd, DebtFacts
<1>3. Cardinality(ConflictDocs') <= Cardinality(ConflictDocs) + (-1)
  <2>1. Cardinality(ConflictDocs') <= Cardinality(ConflictDocs) - 1 BY CardDrop, DebtFacts
  <2> QED BY <2>1, DebtFacts
<1>4. races + 0 + 1 + (-1) + 0 <= races' /\ races' \in Nat BY CountFacts DEF IssuesInv
<1> QED BY <1>1, <1>2, <1>3, <1>4, BudgetStep

LEMMA BudgetLoosesDoc ==
  ASSUME IssuesInv, races' = races, NEW i \in ConflictIids, NEW d,
         LooseDocs' \subseteq LooseDocs \cup {d}, LooseIids' \subseteq LooseIids,
         ConflictDocs' \subseteq ConflictDocs, ConflictIids' \subseteq ConflictIids \ {i}
  PROVE  RaceBudget'
<1>1. /\ Cardinality(LooseIids') <= Cardinality(LooseIids) + 0
      /\ Cardinality(ConflictDocs') <= Cardinality(ConflictDocs) + 0
  BY CardLess, DebtFacts
<1>2. Cardinality(LooseDocs') <= Cardinality(LooseDocs) + 1 BY CardAdd, DebtFacts
<1>3. Cardinality(ConflictIids') <= Cardinality(ConflictIids) + (-1)
  <2>1. Cardinality(ConflictIids') <= Cardinality(ConflictIids) - 1 BY CardDrop, DebtFacts
  <2> QED BY <2>1, DebtFacts
<1>4. races + 1 + 0 + 0 + (-1) <= races' /\ races' \in Nat BY CountFacts DEF IssuesInv
<1> QED BY <1>1, <1>2, <1>3, <1>4, BudgetStep

-----------------------------------------------------------------------------
(* The four sets, from what a step keeps of each issue *)

LEMMA LooseDocsKept ==
  ASSUME NEW X,
         \A f \in Docs : f \notin X /\ f \notin unsent' =>
           /\ f \in unsent => FindByHuly(f)' # {}
           /\ Alive(f)' => Alive(f)
           /\ FindByHuly(f) # {} => FindByHuly(f)' # {}
           /\ Changing(f) => Changing(f)' \/ Creating(f)' \/ FindByHuly(f)' # {}
           /\ Creating(f) => Creating(f)' \/ FindByHuly(f)' # {}
           /\ \A j \in Iids : Copying(j, f) => Copying(j, f)' \/ FindByHuly(f)' # {}
  PROVE  LooseDocs' \subseteq LooseDocs \cup X
<1> SUFFICES ASSUME NEW f \in Docs, f \in LooseDocs', f \notin X PROVE f \in LooseDocs
  BY DEF LooseDocs
<1>1. /\ Alive(f)' /\ FindByHuly(f)' = {} /\ ~Changing(f)' /\ ~Creating(f)' /\ f \notin unsent'
      /\ \A j \in Iids : ~Copying(j, f)'
  BY DEF LooseDocs
<1>2. /\ f \notin unsent /\ Alive(f) /\ FindByHuly(f) = {} /\ ~Changing(f) /\ ~Creating(f)
      /\ \A j \in Iids : ~Copying(j, f)
  BY <1>1
<1> QED BY <1>2 DEF LooseDocs

LEMMA LooseIidsKept ==
  ASSUME NEW X,
         \A j \in Iids : j \notin X /\ j \notin undone' =>
           /\ j \in undone => idmap'[j] # None
           /\ gitlab'[j] # Absent => gitlab[j] # Absent
           /\ idmap[j] # None => idmap'[j] # None
           /\ gitlab[j] # Absent /\ Coming(j) => Coming(j)' \/ idmap'[j] # None
           /\ \A f \in Docs : Creator(f, j) => Creator(f, j)' \/ idmap'[j] # None
  PROVE  LooseIids' \subseteq LooseIids \cup X
<1> SUFFICES ASSUME NEW j \in Iids, j \in LooseIids', j \notin X PROVE j \in LooseIids
  BY DEF LooseIids
<1>1. /\ gitlab'[j] # Absent /\ idmap'[j] = None /\ ~Coming(j)' /\ j \notin undone'
      /\ \A f \in Docs : ~Creator(f, j)'
  BY DEF LooseIids
<1>2. /\ gitlab[j] # Absent /\ idmap[j] = None /\ ~Coming(j) /\ j \notin undone
      /\ \A f \in Docs : ~Creator(f, j)
  BY <1>1
<1> QED BY <1>2 DEF LooseIids

LEMMA ConflictDocsKept ==
  ASSUME NEW X,
         \A f \in Docs : f \notin X =>
           /\ Creating(f)' => Creating(f)
           /\ FindByHuly(f)' # {} => FindByHuly(f) # {}
           /\ \A j \in Iids : Copying(j, f)' => Copying(j, f)
  PROVE  ConflictDocs' \subseteq ConflictDocs \cup X
<1> SUFFICES ASSUME NEW f \in Docs, f \in ConflictDocs', f \notin X PROVE f \in ConflictDocs
  BY DEF ConflictDocs
<1>1. \/ Creating(f)' /\ FindByHuly(f)' # {}
      \/ Creating(f)' /\ \E j \in Iids : Copying(j, f)'
      \/ FindByHuly(f)' # {} /\ \E j \in Iids : Copying(j, f)'
  BY DEF ConflictDocs
<1>2. \/ Creating(f) /\ FindByHuly(f) # {}
      \/ Creating(f) /\ \E j \in Iids : Copying(j, f)
      \/ FindByHuly(f) # {} /\ \E j \in Iids : Copying(j, f)
  BY <1>1
<1> QED BY <1>2 DEF ConflictDocs

LEMMA ConflictIidsKept ==
  ASSUME NEW X,
         \A j \in Iids : j \notin X =>
           /\ Mirroring(j)' => Mirroring(j)
           /\ idmap'[j] # None => idmap[j] # None
           /\ \A f \in Docs : Creator(f, j)' => Creator(f, j)
  PROVE  ConflictIids' \subseteq ConflictIids \cup X
<1> SUFFICES ASSUME NEW j \in Iids, j \in ConflictIids', j \notin X PROVE j \in ConflictIids
  BY DEF ConflictIids
<1>1. \/ Mirroring(j)' /\ idmap'[j] # None
      \/ Mirroring(j)' /\ \E f \in Docs : Creator(f, j)'
      \/ idmap'[j] # None /\ \E f \in Docs : Creator(f, j)'
  BY DEF ConflictIids
<1>2. \/ Mirroring(j) /\ idmap[j] # None
      \/ Mirroring(j) /\ \E f \in Docs : Creator(f, j)
      \/ idmap[j] # None /\ \E f \in Docs : Creator(f, j)
  BY <1>1
<1> QED BY <1>2 DEF ConflictIids

(* Steps that leave one of them alone. *)
LEMMA LooseDocsSame ==
  ASSUME UNCHANGED <<huly, idmap, line, buffer, local, remote, unsent>>
  PROVE  LooseDocs' = LooseDocs
  BY DEF LooseDocs, Alive, FindByHuly, Changing, Creating, Copying

LEMMA LooseIidsSame ==
  ASSUME UNCHANGED <<gitlab, idmap, queued, polled, cursor, local, undone>>
  PROVE  LooseIids' = LooseIids
  BY DEF LooseIids, Coming, Listed, Current, Creator

LEMMA ConflictsSame ==
  ASSUME UNCHANGED <<idmap, local, remote>>
  PROVE  ConflictDocs' = ConflictDocs /\ ConflictIids' = ConflictIids
  BY DEF ConflictDocs, ConflictIids, FindByHuly, Creating, Creator, Copying, Mirroring

(* An issue that is on its way stays so. *)
LEMMA ComingKept ==
  ASSUME UNCHANGED <<cursor, polled>>, NEW j, gitlab'[j] = gitlab[j],
         \A e \in queued : e.iid = j => e \in queued', Coming(j)
  PROVE  Coming(j)'
  BY DEF Coming, Listed, Current

(* The cursor passes it only as a loss. *)
LEMMA ComingCursor ==
  ASSUME TypeOK, cursor' \in Nat, Skipped(cursor') \subseteq undone', UNCHANGED <<gitlab, polled>>,
         NEW j \in Iids, gitlab[j] # Absent, Coming(j),
         idmap[j] # None => idmap'[j] # None,
         idmap'[j] = None => \A e \in queued : e.iid = j => e \in queued'
  PROVE  Coming(j)' \/ idmap'[j] # None \/ j \in undone'
<1> SUFFICES ASSUME idmap'[j] = None, j \notin undone' PROVE Coming(j)' OBVIOUS
<1>1. idmap[j] = None /\ \A e \in queued : e.iid = j => e \in queued' OBVIOUS
<1>2. CASE \E e \in queued : e.iid = j
  BY <1>1, <1>2 DEF Coming
<1>3. CASE ~\E e \in queued : e.iid = j
  <2>1. Listed(j) /\ Current(j) \notin polled BY <1>3 DEF Coming
  <2>2. ~Held(j) BY <1>1 DEF Held
  <2>3. ~(gitlab[j].ts < cursor') BY <2>1, <2>2 DEF Skipped
  <2>4. gitlab[j].ts \in Nat BY ConstantFacts DEF TypeOK, Version
  <2>5. Listed(j)' BY <2>3, <2>4 DEF Listed
  <2>6. Current(j)' = Current(j) BY DEF Current
  <2> QED BY <2>1, <2>5, <2>6 DEF Coming
<1> QED BY <1>2, <1>3

-----------------------------------------------------------------------------
(* The budget, step by step *)

LEMMA BudgetEditGitlab ==
  ASSUME IssuesInv, NEW i \in Iids, EditGitlab(i)
  PROVE  RaceBudget'
<1>0. TypeOK /\ Dated /\ clock \in Nat /\ cursor \in Nat /\ gitlab \in [Iids -> Version]
  BY CountFacts DEF IssuesInv, TypeOK
<1>1. /\ UNCHANGED <<huly, idmap, cursor, queued, polled, remote, line, local, buffer, races, unsent>>
      /\ undone' = undone \ {i}
      /\ clock' = clock + 1 /\ gitlab' = [gitlab EXCEPT ![i] = [val |-> clock', ts |-> clock']]
  BY DEF EditGitlab
<1>2. gitlab'[i].ts = clock' /\ \A j \in Iids : j # i => gitlab'[j] = gitlab[j] BY <1>0, <1>1
<1>3. Coming(i)'
  <2>1. gitlab'[i] # Absent
    <3>1. gitlab'[i].ts # 0 BY <1>0, <1>1, <1>2
    <3> QED BY <3>1 DEF Absent
  <2>2. gitlab'[i].ts >= cursor' BY <1>0, <1>1, <1>2 DEF Dated
  <2>3. Current(i)'.ts = clock' BY <1>2 DEF Current
  <2>4. Current(i)' \notin polled'
    <3> SUFFICES ASSUME NEW e, e = Current(i)', e \in polled PROVE FALSE BY <1>1
    <3>1. e.ts \in 1..clock /\ e.ts = clock + 1 BY <1>0, <1>1, <2>3 DEF Dated
    <3> QED BY <1>0, <3>1
  <2> QED BY <2>1, <2>2, <2>4 DEF Coming, Listed
<1>4. LooseIids' \subseteq LooseIids
  <2>1. \A j \in Iids : j # i /\ Coming(j) => Coming(j)' BY <1>1, <1>2, ComingKept
  <2>2. \A f \in Docs, j \in Iids : Creator(f, j)' <=> Creator(f, j) BY <1>1, LocalSame
  <2>3. LooseIids' \subseteq LooseIids \cup {i}
    BY <1>1, <1>2, <2>1, <2>2, LooseIidsKept
  <2>4. i \notin LooseIids' BY <1>3 DEF LooseIids
  <2> QED BY <2>3, <2>4
<1>5. LooseDocs' = LooseDocs BY <1>1, LooseDocsSame
<1>6. ConflictDocs' = ConflictDocs /\ ConflictIids' = ConflictIids BY <1>1, ConflictsSame
<1>7. races' \in Nat /\ races <= races' BY <1>0, <1>1, CountFacts
<1> QED BY <1>4, <1>5, <1>6, <1>7, BudgetSame

(* A change of a person is never a loss, unless the buffer is full. *)
LEMMA BudgetUser ==
  ASSUME IssuesInv, NEW d \in Docs, NEW val \in Time \cup {None}, UserTx(d, val),
         \A f \in Docs : f # d => huly'[f] = huly[f],
         Alive(d) \/ (val # None /\ (Overflows => d \in unsent')), unsent \subseteq unsent',
         UNCHANGED <<gitlab, idmap, cursor, queued, polled, remote, local, races, undone>>
  PROVE  RaceBudget'
<1>0. TypeOK BY DEF IssuesInv
<1>1. /\ \A f \in Docs : f # d => line'[f] = line[f]
      /\ \A n \in DOMAIN buffer : n \in DOMAIN buffer' /\ buffer'[n] = buffer[n]
      /\ Vals(line[d]) \subseteq Vals(line'[d])
      /\ ~Overflows /\ val # None =>
           \/ val \in Vals(line'[d])
           \/ \E n \in DOMAIN buffer' : buffer'[n].doc = d /\ buffer'[n].val = val
  BY <1>0, OnTxOthers
<1>2. \A f \in Docs : Vals(line[f]) \subseteq Vals(line'[f]) BY <1>1
<1>3. \A f \in Docs : Changing(f) => Changing(f)' BY <1>1, <1>2 DEF Changing
<1>4. ~Overflows /\ val # None => Changing(d)' BY <1>1 DEF Changing
<1>5. \A f \in Docs : /\ Creating(f)' <=> Creating(f)
                      /\ \A j \in Iids : Copying(j, f)' <=> Copying(j, f)
  BY LocalSame, RemoteSame
<1>6. \A f \in Docs : FindByHuly(f)' = FindByHuly(f) BY IdmapSame
<1>7. LooseDocs' \subseteq LooseDocs
  <2>1. \A f \in Docs : f # d => (Alive(f)' => Alive(f)) BY DEF Alive
  <2>2. CASE Alive(d)
    <3>1. \A f \in Docs : Alive(f)' => Alive(f) BY <2>1, <2>2
    <3>2. LooseDocs' \subseteq LooseDocs \cup {} BY <1>3, <1>5, <1>6, <3>1, LooseDocsKept
    <3> QED BY <3>2
  <2>3. CASE val # None /\ (Overflows => d \in unsent')
    <3>1. LooseDocs' \subseteq LooseDocs \cup {d} BY <1>3, <1>5, <1>6, <2>1, LooseDocsKept
    <3>2. d \notin LooseDocs' BY <1>4, <2>3 DEF LooseDocs
    <3> QED BY <3>1, <3>2
  <2> QED BY <2>2, <2>3
<1>8. LooseIids' = LooseIids BY LooseIidsSame
<1>9. ConflictDocs' = ConflictDocs /\ ConflictIids' = ConflictIids BY ConflictsSame
<1>10. races' \in Nat /\ races <= races' BY <1>0, CountFacts
<1> QED BY <1>7, <1>8, <1>9, <1>10, BudgetSame

LEMMA BudgetPeople ==
  ASSUME IssuesInv, NEW d \in Docs, EditHuly(d) \/ TouchHuly(d) \/ RemoveHuly(d)
  PROVE  RaceBudget'
<1>0. huly \in [Docs -> Version \cup {None}] BY DEF IssuesInv, TypeOK
<1>1. /\ \A f \in Docs : f # d => huly'[f] = huly[f]
      /\ UNCHANGED <<gitlab, idmap, cursor, queued, polled, remote, local, races, undone>>
      /\ unsent \subseteq unsent'
  BY <1>0 DEF EditHuly, TouchHuly, RemoveHuly
<1>2. CASE EditHuly(d)
  <2>1. clock' \in Time /\ clock' # None BY <1>2, TypeEdit, ConstantFacts
  <2> SUFFICES ASSUME NEW val, val = clock' PROVE RaceBudget' OBVIOUS
  <2>2. val \in Time \cup {None} /\ val # None BY <2>1
  <2>3. UserTx(d, val) /\ (Overflows => d \in unsent') BY <1>2, PeopleWrite DEF EditHuly
  <2> QED BY <1>1, <2>2, <2>3, BudgetUser
<1>3. CASE TouchHuly(d) \/ RemoveHuly(d)
  <2>1. UserTx(d, None) /\ Alive(d) BY <1>3, PeopleWrite DEF TouchHuly, RemoveHuly
  <2>2. None \in Time \cup {None} OBVIOUS
  <2> QED BY <1>1, <2>1, <2>2, BudgetUser
<1> QED BY <1>2, <1>3

LEMMA BudgetMark ==
  ASSUME IssuesInv, MarkEngineStarted
  PROVE  RaceBudget'
<1>0. TypeOK /\ buffer \in Seq(Change) BY DEF IssuesInv, TypeOK
<1>1. UNCHANGED <<gitlab, huly, idmap, cursor, queued, polled, remote, local, races, undone, unsent>>
  BY DEF MarkEngineStarted
<1>2. ASSUME NEW f \in Docs, Changing(f) PROVE Changing(f)'
  <2>1. Vals(line[f]) = {} /\ Vals(line'[f]) = ValsOf(buffer, f, Len(buffer))
    BY MarkFacts, ValsEmpty
  <2>2. PICK n \in DOMAIN buffer : buffer[n].doc = f /\ buffer[n].val # None
    BY <1>2, <2>1 DEF Changing
  <2>3. n \in 1..Len(buffer) BY <1>0
  <2>4. buffer[n].val \in ValsOf(buffer, f, Len(buffer)) BY <2>2, <2>3 DEF ValsOf
  <2> QED BY <2>1, <2>4 DEF Changing
<1>3. \A f \in Docs : /\ Creating(f)' <=> Creating(f)
                      /\ \A j \in Iids : Copying(j, f)' <=> Copying(j, f)
  BY <1>1, LocalSame, RemoteSame
<1>4. \A f \in Docs : FindByHuly(f)' = FindByHuly(f) BY <1>1, IdmapSame
<1>5. \A f \in Docs : Alive(f)' => Alive(f) BY <1>1 DEF Alive
<1>6. LooseDocs' \subseteq LooseDocs \cup {} BY <1>1, <1>2, <1>3, <1>4, <1>5, LooseDocsKept
<1>7. LooseIids' = LooseIids BY <1>1, LooseIidsSame
<1>8. ConflictDocs' = ConflictDocs /\ ConflictIids' = ConflictIids BY <1>1, ConflictsSame
<1>9. races' \in Nat /\ races <= races' BY <1>0, <1>1, CountFacts
<1> QED BY <1>6, <1>7, <1>8, <1>9, BudgetSame

LEMMA BudgetLocalBegin ==
  ASSUME IssuesInv, NEW d \in Docs, LocalBegin(d)
  PROVE  RaceBudget'
<1>0. TypeOK /\ line \in [Docs -> Seq(Change)] /\ races \in Nat BY CountFacts DEF IssuesInv, TypeOK
<1>1. UNCHANGED <<gitlab, huly, idmap, cursor, queued, polled, remote, buffer, undone>> /\ unsent \subseteq unsent'
  BY LocalBeginFacts DEF LocalBegin
<1>2. /\ \A f \in Docs, j \in Iids : Creator(f, j)' <=> Creator(f, j)
      /\ \A f \in Docs : f # d => (Creating(f)' <=> Creating(f))
      /\ ~Creating(d)
      /\ Creating(d)' => FindByHuly(d) = {}
      /\ Head(line[d]).val # None => Creating(d)' \/ FindByHuly(d) # {} \/ d \in unsent'
  BY ClaimsLocalBegin
<1>3. \A j \in Iids : /\ Mirroring(j)' <=> Mirroring(j)
                      /\ \A f \in Docs : Copying(j, f)' <=> Copying(j, f)
  BY <1>1, RemoteSame
<1>4. \A f \in Docs : FindByHuly(f)' = FindByHuly(f) BY <1>1, IdmapSame
<1>5. \A f \in Docs : Alive(f)' => Alive(f) BY <1>1 DEF Alive
<1>6. line' = [line EXCEPT ![d] = Tail(line[d])] /\ line[d] \in Seq(Change) /\ line[d] # <<>>
  BY LocalBeginFacts
<1>7. \A f \in Docs : f # d => (Changing(f) => Changing(f)')
  <2>1. \A f \in Docs : f # d => line'[f] = line[f] BY <1>0, <1>6
  <2> QED BY <1>1, <2>1 DEF Changing
<1>8. Changing(d) => Changing(d)' \/ Creating(d)' \/ FindByHuly(d)' # {} \/ d \in unsent'
  <2>1. CASE Head(line[d]).val = None
    <3>1. Vals(line'[d]) = Vals(line[d])
      <4>1. line'[d] = Tail(line[d]) BY <1>0, <1>6
      <4>2. Vals(line[d]) = Vals(Tail(line[d])) \cup ({Head(line[d]).val} \ {None}) BY <1>6, ValsTail
      <4> QED BY <2>1, <4>1, <4>2
    <3> QED BY <1>1, <3>1 DEF Changing
  <2>2. CASE Head(line[d]).val # None BY <1>2, <1>4, <2>2
  <2> QED BY <2>1, <2>2
<1>9. LooseDocs' \subseteq LooseDocs
  <2>1. \A f \in Docs : f \notin unsent' =>
          /\ f \in unsent => FindByHuly(f)' # {}
          /\ Alive(f)' => Alive(f)
          /\ FindByHuly(f) # {} => FindByHuly(f)' # {}
          /\ Changing(f) => Changing(f)' \/ Creating(f)' \/ FindByHuly(f)' # {}
          /\ Creating(f) => Creating(f)' \/ FindByHuly(f)' # {}
          /\ \A j \in Iids : Copying(j, f) => Copying(j, f)' \/ FindByHuly(f)' # {}
    BY <1>1, <1>2, <1>3, <1>4, <1>5, <1>7, <1>8
  <2>2. LooseDocs' \subseteq LooseDocs \cup {} BY <2>1, LooseDocsKept
  <2> QED BY <2>2
<1>10. LooseIids' \subseteq LooseIids
  <2>1. \A j \in Iids : Coming(j) => Coming(j)' BY <1>1, ComingKept
  <2>2. LooseIids' \subseteq LooseIids \cup {} BY <1>1, <1>2, <2>1, LooseIidsKept
  <2> QED BY <2>2
<1>11. ConflictIids' \subseteq ConflictIids
  <2>1. ConflictIids' \subseteq ConflictIids \cup {} BY <1>1, <1>2, <1>3, ConflictIidsKept
  <2> QED BY <2>1
<1>12. ConflictDocs' \subseteq ConflictDocs \cup {d} BY <1>2, <1>3, <1>4, ConflictDocsKept
<1>13. CASE d \in ConflictDocs'
  <2>1. /\ \/ Creating(d)' /\ FindByHuly(d)' # {}
           \/ Creating(d)' /\ \E j \in Iids : Copying(j, d)'
           \/ FindByHuly(d)' # {} /\ \E j \in Iids : Copying(j, d)'
    BY <1>13 DEF ConflictDocs
  <2>2. CASE Creating(d)'
    <3>1. FindByHuly(d) = {} /\ local'[d] # None BY <1>2, <2>2 DEF Creating
    <3>2. \E j \in Iids : Copying(j, d) BY <1>3, <1>4, <2>1, <3>1
    <3>3. \E j \in Iids : remote[j] # None /\ remote[j].doc = d BY <3>2 DEF Copying
    <3>4. races' = races + 1
      <4>1. Begins(Head(line[d]), d)
        <5>1. local[d] = None BY LocalBeginFacts
        <5>2. ~Begins(Head(line[d]), d) => local' = local BY DEF LocalBegin
        <5> QED BY <3>1, <5>1, <5>2
      <4> QED BY <3>1, <3>3, <4>1 DEF LocalBegin
    <3> QED BY <1>9, <1>10, <1>11, <1>12, <3>4, BudgetRaceDoc
  <2>3. CASE ~Creating(d)'
    <3>1. d \in ConflictDocs BY <1>3, <1>4, <2>1, <2>3 DEF ConflictDocs
    <3>2. ConflictDocs' \subseteq ConflictDocs BY <1>12, <3>1
    <3>3. races' = races \/ races' = races + 1 BY DEF LocalBegin
    <3>4. races' \in Nat /\ races <= races' BY <1>0, <3>3
    <3> QED BY <1>9, <1>10, <1>11, <3>2, <3>4, BudgetSame
  <2> QED BY <2>2, <2>3
<1>14. CASE d \notin ConflictDocs'
  <2>1. ConflictDocs' \subseteq ConflictDocs BY <1>12, <1>14
  <2>2. races' = races \/ races' = races + 1 BY DEF LocalBegin
  <2>3. races' \in Nat /\ races <= races' BY <1>0, <2>2
  <2> QED BY <1>9, <1>10, <1>11, <2>1, <2>3, BudgetSame
<1> QED BY <1>13, <1>14

LEMMA BudgetLocalCall ==
  ASSUME IssuesInv, NEW d \in Docs, LocalCall(d)
  PROVE  RaceBudget'
<1>0. TypeOK BY DEF IssuesInv
<1>1. UNCHANGED <<huly, idmap, cursor, queued, polled, remote, line, buffer, races, unsent>>
  BY DEF LocalCall
<1>2. \A f \in Docs : Creating(f)' <=> Creating(f) BY ClaimsLocalCall
<1>3. PICK i \in Iids :
        /\ gitlab'[i] # Absent /\ \A j \in Iids : j # i => gitlab'[j] = gitlab[j]
        /\ undone' = undone \ {i}
        /\ \/ ~Creating(d) /\ idmap[i] # None /\ \A f \in Docs, j \in Iids : Creator(f, j)' <=> Creator(f, j)
           \/ /\ Creating(d) /\ gitlab[i] = Absent /\ Creator(d, i)'
              /\ \A f \in Docs, j \in Iids : Creator(f, j)' <=> Creator(f, j) \/ (f = d /\ j = i)
  BY ClaimsLocalCall
<1>4. \A j \in Iids : /\ Mirroring(j)' <=> Mirroring(j)
                      /\ \A f \in Docs : Copying(j, f)' <=> Copying(j, f)
  BY <1>1, RemoteSame
<1>5. \A f \in Docs : FindByHuly(f)' = FindByHuly(f) BY <1>1, IdmapSame
<1>6. \A f \in Docs : /\ Alive(f)' => Alive(f)
                      /\ Changing(f) => Changing(f)'
  BY <1>1 DEF Alive, Changing
<1>7. LooseDocs' \subseteq LooseDocs
  <2>1. LooseDocs' \subseteq LooseDocs \cup {} BY <1>1, <1>2, <1>4, <1>5, <1>6, LooseDocsKept
  <2> QED BY <2>1
<1>8. ConflictDocs' \subseteq ConflictDocs
  <2>1. ConflictDocs' \subseteq ConflictDocs \cup {} BY <1>2, <1>4, <1>5, ConflictDocsKept
  <2> QED BY <2>1
<1>9. LooseIids' \subseteq LooseIids
  <2>1. \A j \in Iids : j # i /\ Coming(j) => Coming(j)' BY <1>1, <1>3, ComingKept
  <2>2. \A f \in Docs, j \in Iids : Creator(f, j) => Creator(f, j)' BY <1>3
  <2>3. LooseIids' \subseteq LooseIids \cup {i} BY <1>1, <1>3, <2>1, <2>2, LooseIidsKept
  <2>4. i \notin LooseIids' BY <1>1, <1>3 DEF LooseIids
  <2> QED BY <2>3, <2>4
<1>10. ConflictIids' \subseteq ConflictIids
  <2>1. CASE ~Creating(d)
    <3>1. ConflictIids' \subseteq ConflictIids \cup {} BY <1>1, <1>3, <1>4, <2>1, ConflictIidsKept
    <3> QED BY <3>1
  <2>2. CASE Creating(d)
    <3>1. \A f \in Docs, j \in Iids : j # i => (Creator(f, j)' => Creator(f, j)) BY <1>3, <2>2
    <3>2. ConflictIids' \subseteq ConflictIids \cup {i} BY <1>1, <1>4, <3>1, ConflictIidsKept
    <3>3. idmap[i] = None /\ remote[i] = None BY <1>3, <2>2 DEF IssuesInv, NoIidYet
    <3>4. ~Mirroring(i) BY <3>3 DEF Mirroring
    <3>5. i \notin ConflictIids' BY <1>1, <1>4, <3>3, <3>4 DEF ConflictIids
    <3> QED BY <3>2, <3>5
  <2> QED BY <2>1, <2>2
<1>11. races' \in Nat /\ races <= races' BY <1>0, <1>1, CountFacts
<1> QED BY <1>7, <1>8, <1>9, <1>10, <1>11, BudgetSame

(* The index refuses the mapping: the GitLab issue is left without one. *)
LEMMA BudgetLocalRefused ==
  ASSUME IssuesInv, NEW d \in Docs, LocalFinish(d),
         local[d].new, ~IndexAdmits(local[d].iid, d), UNCHANGED <<idmap, cursor, undone>>,
         unsent' = unsent \cup {d}
  PROVE  RaceBudget'
<1>1. /\ UNCHANGED <<gitlab, huly, clock, queued, polled, remote, line, buffer, races>>
      /\ local[d].iid \in Iids
  BY LocalFinishFacts
<1>2. /\ ~Creating(d)' /\ Creating(d)
      /\ \A j \in Iids : Creator(d, j) => j = local[d].iid
      /\ \A f \in Docs : f # d => /\ Creating(f)' <=> Creating(f)
                                  /\ \A j \in Iids : Creator(f, j)' <=> Creator(f, j)
      /\ \A j \in Iids : ~Creator(d, j)'
  BY ClaimsLocalFinish
<1>3. \A j \in Iids : /\ Mirroring(j)' <=> Mirroring(j)
                      /\ \A f \in Docs : Copying(j, f)' <=> Copying(j, f)
  BY <1>1, RemoteSame
<1>4. \A f \in Docs : FindByHuly(f)' = FindByHuly(f) BY IdmapSame
<1>5. FindByHuly(d) # {} BY DEF IndexAdmits
<1>6. \A j \in Iids : ~Copying(j, d) BY <1>2, <1>5 DEF IssuesInv, FewClaims
<1>7. d \in ConflictDocs /\ d \notin ConflictDocs' BY <1>2, <1>3, <1>5, <1>6 DEF ConflictDocs
<1>8. ConflictDocs' \subseteq ConflictDocs \ {d}
  <2>1. ConflictDocs' \subseteq ConflictDocs \cup {d} BY <1>2, <1>3, <1>4, ConflictDocsKept
  <2> QED BY <1>7, <2>1
<1>9. ConflictIids' \subseteq ConflictIids
  <2>1. \A f \in Docs, j \in Iids : Creator(f, j)' => Creator(f, j) BY <1>2
  <2>2. ConflictIids' \subseteq ConflictIids \cup {} BY <1>3, <2>1, ConflictIidsKept
  <2> QED BY <2>2
<1>10. LooseDocs' \subseteq LooseDocs
  <2>1. \A f \in Docs : /\ Alive(f)' => Alive(f)
                        /\ Changing(f) => Changing(f)'
    BY <1>1 DEF Alive, Changing
  <2>2. \A f \in Docs : Creating(f) => Creating(f)' \/ FindByHuly(f)' # {} BY <1>2, <1>4, <1>5
  <2>3. LooseDocs' \subseteq LooseDocs \cup {} BY <1>3, <1>4, <2>1, <2>2, LooseDocsKept
  <2> QED BY <2>3
<1>11. LooseIids' \subseteq LooseIids \cup {local[d].iid}
  <2>1. \A j \in Iids : Coming(j) => Coming(j)' BY <1>1, ComingKept
  <2>2. \A f \in Docs, j \in Iids : j # local[d].iid => (Creator(f, j) => Creator(f, j)') BY <1>2
  <2> SUFFICES ASSUME NEW i, i = local[d].iid PROVE LooseIids' \subseteq LooseIids \cup {i} OBVIOUS
  <2> QED BY <1>1, <2>1, <2>2, LooseIidsKept
<1> SUFFICES ASSUME NEW i, i = local[d].iid PROVE RaceBudget' OBVIOUS
<1>12. LooseIids' \subseteq LooseIids \cup {i} /\ races' = races BY <1>1, <1>11
<1> QED BY <1>7, <1>8, <1>9, <1>10, <1>12, BudgetLoosesIid

(* The mapping of i is written, by either side: the issue that it named before
   is left without one.                                                     *)
LEMMA BudgetMapped ==
  ASSUME IssuesInv, NEW i \in Iids, NEW d \in Docs,
         UNCHANGED <<huly, line, buffer, races>>,
         idmap'[i] = d, \A j \in Iids : j # i => idmap'[j] = idmap[j],
         LooseIids' \subseteq LooseIids, UNCHANGED unsent,
         \A f \in Docs : f # d => /\ Creating(f)' <=> Creating(f)
                                  /\ \A j \in Iids : Copying(j, f)' <=> Copying(j, f),
         \A j \in Iids : j # i => /\ Mirroring(j)' <=> Mirroring(j)
                                  /\ \A f \in Docs : Creator(f, j)' => Creator(f, j),
         ConflictDocs' \subseteq ConflictDocs \cup {d}, d \in ConflictDocs' => d \in ConflictDocs,
         i \in ConflictIids' => i \in ConflictIids,
         idmap[i] # None => i \in ConflictIids /\ i \notin ConflictIids'
  PROVE  RaceBudget'
<1>0. TypeOK /\ idmap \in [Iids -> Docs \cup {None}] BY DEF IssuesInv, TypeOK
<1>1. /\ FindByHuly(d)' # {} /\ idmap'[i] # None
      /\ \A f \in Docs : f # d /\ idmap[i] # f => FindByHuly(f)' = FindByHuly(f)
  BY IdmapStep
<1>2. ConflictDocs' \subseteq ConflictDocs OBVIOUS
<1>3. ConflictIids' \subseteq ConflictIids \cup {i}
  <2>1. \A j \in Iids : j \notin {i} =>
          /\ Mirroring(j)' => Mirroring(j)
          /\ idmap'[j] # None => idmap[j] # None
          /\ \A f \in Docs : Creator(f, j)' => Creator(f, j)
    OBVIOUS
  <2> QED BY <2>1, ConflictIidsKept
<1>4. \A f \in Docs : /\ Alive(f)' => Alive(f)
                      /\ Changing(f) => Changing(f)'
  BY DEF Alive, Changing
<1>5. ASSUME NEW X, idmap[i] # None /\ idmap[i] # d => idmap[i] \in X
      PROVE  LooseDocs' \subseteq LooseDocs \cup X
  <2>1. \A f \in Docs : f \notin X =>
           /\ Alive(f)' => Alive(f)
           /\ FindByHuly(f) # {} => FindByHuly(f)' # {}
           /\ Changing(f) => Changing(f)' \/ Creating(f)' \/ FindByHuly(f)' # {}
           /\ Creating(f) => Creating(f)' \/ FindByHuly(f)' # {}
           /\ \A j \in Iids : Copying(j, f) => Copying(j, f)' \/ FindByHuly(f)' # {}
    <3> SUFFICES ASSUME NEW f \in Docs, f \notin X
                 PROVE  /\ Alive(f)' => Alive(f)
                        /\ FindByHuly(f) # {} => FindByHuly(f)' # {}
                        /\ Changing(f) => Changing(f)' \/ Creating(f)' \/ FindByHuly(f)' # {}
                        /\ Creating(f) => Creating(f)' \/ FindByHuly(f)' # {}
                        /\ \A j \in Iids : Copying(j, f) => Copying(j, f)' \/ FindByHuly(f)' # {}
      OBVIOUS
    <3>1. CASE f = d BY <1>1, <1>4, <3>1
    <3>2. CASE f # d
      <4>1. f # None BY ConstantFacts
      <4>2. FindByHuly(f)' = FindByHuly(f) BY <1>1, <1>5, <3>2, <4>1
      <4> QED BY <1>4, <3>2, <4>2
    <3> QED BY <3>1, <3>2
  <2> QED BY <2>1, LooseDocsKept
<1>6. CASE idmap[i] = None
  <2>1. LooseDocs' \subseteq LooseDocs \cup {} BY <1>5, <1>6
  <2>2. ConflictIids' \subseteq ConflictIids BY <1>3
  <2>3. races' \in Nat /\ races <= races' BY <1>0, CountFacts
  <2> QED BY <1>2, <2>1, <2>2, <2>3, BudgetSame
<1>7. CASE idmap[i] # None
  <2> SUFFICES ASSUME NEW f, f = idmap[i] PROVE RaceBudget' OBVIOUS
  <2>1. LooseDocs' \subseteq LooseDocs \cup {f} BY <1>5
  <2>2. i \in ConflictIids /\ ConflictIids' \subseteq ConflictIids \ {i} BY <1>3, <1>7
  <2> QED BY <1>2, <2>1, <2>2, BudgetLoosesDoc
<1> QED BY <1>6, <1>7

LEMMA BudgetLocalFinish ==
  ASSUME IssuesInv, NEW d \in Docs, LocalFinish(d)
  PROVE  RaceBudget'
<1>0. TypeOK /\ FewClaims /\ clock \in Nat BY CountFacts DEF IssuesInv
<1>1. /\ UNCHANGED <<gitlab, huly, clock, queued, polled, remote, line, buffer, races>>
      /\ local[d].iid \in Iids /\ undone \subseteq undone'
  BY LocalFinishFacts
<1>2. /\ ~Creating(d)' /\ \A j \in Iids : ~Creator(d, j)'
      /\ \A j \in Iids : Creator(d, j) => j = local[d].iid
      /\ \A f \in Docs : f # d => /\ Creating(f)' <=> Creating(f)
                                  /\ \A j \in Iids : Creator(f, j)' <=> Creator(f, j)
      /\ local[d].new => Creator(d, local[d].iid) /\ Creating(d)
      /\ ~local[d].new => ~Creating(d) /\ \A j \in Iids : ~Creator(d, j)
  BY ClaimsLocalFinish
<1>3. \A j \in Iids : /\ Mirroring(j)' <=> Mirroring(j)
                      /\ \A f \in Docs : Copying(j, f)' <=> Copying(j, f)
  BY <1>1, RemoteSame
<1>4. ASSUME SetCursor(clock + 1), Skipped(cursor') \subseteq undone',
             NEW j \in Iids, gitlab[j] # Absent, Coming(j), idmap[j] # None => idmap'[j] # None
      PROVE  Coming(j)' \/ idmap'[j] # None \/ j \in undone'
  <2>1. cursor' \in Nat BY <1>0, <1>4, CursorStep, CountFacts
  <2> QED BY <1>0, <1>1, <1>4, <2>1, ComingCursor
<1>5. CASE ~local[d].new /\ SetCursor(clock + 1) /\ Skipped(cursor') \subseteq undone' /\ UNCHANGED <<idmap, unsent>>
  <2>1. \A f \in Docs : /\ Creating(f)' <=> Creating(f)
                        /\ \A j \in Iids : Creator(f, j)' <=> Creator(f, j)
    BY <1>2, <1>5
  <2>2. \A f \in Docs : FindByHuly(f)' = FindByHuly(f) BY <1>5, IdmapSame
  <2>3. \A f \in Docs : /\ Alive(f)' => Alive(f)
                        /\ Changing(f) => Changing(f)'
    BY <1>1 DEF Alive, Changing
  <2>4. LooseDocs' \subseteq LooseDocs \cup {} BY <1>3, <1>5, <2>1, <2>2, <2>3, LooseDocsKept
  <2>5. ConflictDocs' \subseteq ConflictDocs \cup {} BY <1>3, <2>1, <2>2, ConflictDocsKept
  <2>6. ConflictIids' \subseteq ConflictIids \cup {} BY <1>3, <1>5, <2>1, ConflictIidsKept
  <2>7. LooseIids' \subseteq LooseIids \cup {} BY <1>1, <1>4, <1>5, <2>1, LooseIidsKept
  <2>8. races' \in Nat /\ races <= races' BY <1>0, <1>1, CountFacts
  <2> QED BY <2>4, <2>5, <2>6, <2>7, <2>8, BudgetSame
<1>6. CASE /\ local[d].new /\ ~IndexAdmits(local[d].iid, d)
           /\ UNCHANGED <<idmap, cursor, undone>> /\ unsent' = unsent \cup {d}
  BY <1>6, BudgetLocalRefused
<1>7. ASSUME local[d].new, SetCursor(clock + 1), Skipped(cursor') \subseteq undone', UNCHANGED unsent, idmap'[local[d].iid] = d,
             \A j \in Iids : j # local[d].iid => idmap'[j] = idmap[j]
      PROVE  RaceBudget'
  <2> SUFFICES ASSUME NEW i \in Iids, i = local[d].iid PROVE RaceBudget' BY <1>1
  <2>1. idmap'[i] = d /\ (\A j \in Iids : j # i => idmap'[j] = idmap[j]) /\ idmap'[i] # None
    BY <1>7, ConstantFacts
  <2>2. Creator(d, i) /\ Creating(d) BY <1>2, <1>7
  <2>3. \A f \in Docs : f # d => ~Creator(f, i) BY <1>0, <2>2 DEF FewClaims
  <2>4. \A f \in Docs : ~Creator(f, i)' BY <1>2, <2>3
  <2>5. LooseIids' \subseteq LooseIids
    <3>1. \A j \in Iids : /\ idmap[j] # None => idmap'[j] # None
                          /\ \A f \in Docs : Creator(f, j) => Creator(f, j)' \/ idmap'[j] # None
      BY <1>2, <2>1
    <3>2. \A j \in Iids : gitlab[j] # Absent /\ Coming(j) =>
            Coming(j)' \/ idmap'[j] # None \/ j \in undone'
      BY <1>4, <1>7, <3>1
    <3>3. LooseIids' \subseteq LooseIids \cup {} BY <1>1, <3>1, <3>2, LooseIidsKept
    <3> QED BY <3>3
  <2>6. ConflictDocs' \subseteq ConflictDocs \cup {d}
    <3>1. \A f \in Docs : f # d => FindByHuly(f)' = FindByHuly(f) \ {i} BY <2>1, IdmapStep
    <3>2. \A f \in Docs : f # d => (FindByHuly(f)' # {} => FindByHuly(f) # {}) BY <3>1
    <3> QED BY <1>2, <1>3, <3>2, ConflictDocsKept
  <2>7. d \in ConflictDocs' => d \in ConflictDocs BY <1>2, <1>3, <2>2 DEF ConflictDocs
  <2>8. i \in ConflictIids' => i \in ConflictIids
    <3>1. i \in ConflictIids' => Mirroring(i) BY <1>3, <2>4 DEF ConflictIids
    <3>2. Mirroring(i) => i \in ConflictIids BY <2>2 DEF ConflictIids
    <3> QED BY <3>1, <3>2
  <2>9. ASSUME idmap[i] # None PROVE i \in ConflictIids /\ i \notin ConflictIids'
    <3>1. ~Mirroring(i) BY <1>0, <2>2, <2>9 DEF FewClaims
    <3>2. i \in ConflictIids BY <2>2, <2>9 DEF ConflictIids
    <3>3. i \notin ConflictIids' BY <1>3, <2>4, <3>1 DEF ConflictIids
    <3> QED BY <3>2, <3>3
  <2> QED BY <1>1, <1>2, <1>3, <1>7, <2>1, <2>5, <2>6, <2>7, <2>8, <2>9, BudgetMapped
<1> QED BY <1>5, <1>6, <1>7, LocalFinishFacts

LEMMA BudgetRemoteBegin ==
  ASSUME IssuesInv, NEW e \in queued, RemoteBegin(e)
  PROVE  RaceBudget'
<1>0. TypeOK /\ races \in Nat BY CountFacts DEF IssuesInv
<1>1. /\ e.iid \in Iids
      /\ UNCHANGED <<gitlab, huly, idmap, cursor, clock, queued, polled, line, local, buffer, undone, unsent>>
  BY RemoteBeginFacts
<1>2. /\ \A j \in Iids, f \in Docs : Copying(j, f)' <=> Copying(j, f)
      /\ \A j \in Iids : j # e.iid => (Mirroring(j)' <=> Mirroring(j))
      /\ ~Mirroring(e.iid)
      /\ Mirroring(e.iid)' <=> idmap[e.iid] = None
  BY ClaimsRemoteBegin
<1>3. \A f \in Docs : /\ Creating(f)' <=> Creating(f)
                      /\ \A j \in Iids : Creator(f, j)' <=> Creator(f, j)
  BY <1>1, LocalSame
<1>4. \A f \in Docs : FindByHuly(f)' = FindByHuly(f) BY <1>1, IdmapSame
<1>5. \A f \in Docs : /\ Alive(f)' => Alive(f)
                      /\ Changing(f) => Changing(f)'
  BY <1>1 DEF Alive, Changing
<1>6. LooseDocs' \subseteq LooseDocs \cup {} BY <1>1, <1>2, <1>3, <1>4, <1>5, LooseDocsKept
<1>7. ConflictDocs' \subseteq ConflictDocs \cup {} BY <1>2, <1>3, <1>4, ConflictDocsKept
<1>8. LooseIids' = LooseIids BY <1>1, LooseIidsSame
<1> SUFFICES ASSUME NEW i \in Iids, i = e.iid PROVE RaceBudget' BY <1>1
<1>9. ConflictIids' \subseteq ConflictIids \cup {i} BY <1>1, <1>2, <1>3, ConflictIidsKept
<1>10. CASE idmap[i] = None /\ \E f \in Docs : Creator(f, i)
  <2>1. \E f \in Docs : local[f] # None /\ local[f].iid = i BY <1>10 DEF Creator
  <2>2. races' = races + 1 BY <1>10, <2>1 DEF RemoteBegin
  <2> QED BY <1>6, <1>7, <1>8, <1>9, <2>2, BudgetRaceIid
<1>11. CASE ~(idmap[i] = None /\ \E f \in Docs : Creator(f, i))
  <2>1. i \in ConflictIids' => i \in ConflictIids
    BY <1>1, <1>2, <1>3, <1>11 DEF ConflictIids
  <2>2. ConflictIids' \subseteq ConflictIids BY <1>9, <2>1
  <2>3. races' = races \/ races' = races + 1 BY DEF RemoteBegin
  <2>4. races' \in Nat /\ races <= races' BY <1>0, <2>3
  <2> QED BY <1>6, <1>7, <1>8, <2>2, <2>4, BudgetSame
<1> QED BY <1>10, <1>11

LEMMA BudgetRemoteCreate ==
  ASSUME IssuesInv, NEW i \in Iids, RemoteCreate(i)
  PROVE  RaceBudget'
<1>0. TypeOK BY DEF IssuesInv
<1>1. UNCHANGED <<gitlab, idmap, cursor, queued, polled, local, line, buffer, races, undone, unsent>>
  BY RemoteCreateFacts
<1>2. /\ \A j \in Iids : Mirroring(j)' <=> Mirroring(j)
      /\ \A f \in Docs : ~Copying(i, f)
      /\ \A j \in Iids : j # i => \A f \in Docs : Copying(j, f)' <=> Copying(j, f)
  BY ClaimsRemoteCreate
<1>3. PICK d \in Docs : /\ huly[d] = Absent /\ \A f \in Docs : f # d => huly'[f] = huly[f]
                        /\ \A f \in Docs : Copying(i, f)' <=> f = d
  BY ClaimsRemoteCreate
<1>4. \A f \in Docs : /\ Creating(f)' <=> Creating(f)
                      /\ \A j \in Iids : Creator(f, j)' <=> Creator(f, j)
  BY <1>1, LocalSame
<1>5. \A f \in Docs : FindByHuly(f)' = FindByHuly(f) BY <1>1, IdmapSame
<1>6. \A f \in Docs : /\ f # d => (Alive(f)' => Alive(f))
                      /\ Changing(f) => Changing(f)'
  BY <1>1, <1>3 DEF Alive, Changing
<1>7. ~Creating(d) /\ FindByHuly(d) = {} BY <1>3 DEF IssuesInv, NoDocYet, Creating
<1>8. LooseDocs' \subseteq LooseDocs
  <2>1. \A j \in Iids, f \in Docs : Copying(j, f) => Copying(j, f)' BY <1>2
  <2>2. LooseDocs' \subseteq LooseDocs \cup {d} BY <1>1, <1>4, <1>5, <1>6, <2>1, LooseDocsKept
  <2>3. d \notin LooseDocs' BY <1>3 DEF LooseDocs
  <2> QED BY <2>2, <2>3
<1>9. ConflictDocs' \subseteq ConflictDocs
  <2>1. \A j \in Iids, f \in Docs : f # d => (Copying(j, f)' => Copying(j, f)) BY <1>2, <1>3
  <2>2. ConflictDocs' \subseteq ConflictDocs \cup {d} BY <1>4, <1>5, <2>1, ConflictDocsKept
  <2>3. d \notin ConflictDocs' BY <1>4, <1>5, <1>7 DEF ConflictDocs
  <2> QED BY <2>2, <2>3
<1>10. ConflictIids' \subseteq ConflictIids \cup {} BY <1>1, <1>2, <1>4, ConflictIidsKept
<1>11. LooseIids' = LooseIids BY <1>1, LooseIidsSame
<1>12. races' \in Nat /\ races <= races' BY <1>0, <1>1, CountFacts
<1> QED BY <1>8, <1>9, <1>10, <1>11, <1>12, BudgetSame

(* The index refuses the mapping of a copy: the GitLab issue is left alone. *)
LEMMA BudgetRemoteRefused ==
  ASSUME IssuesInv, NEW i \in Iids, RemoteMap(i), NEW d \in Docs, d = remote[i].doc,
         ~IndexAdmits(i, d), UNCHANGED <<idmap, cursor>>
  PROVE  RaceBudget'
<1>1. /\ remote[i] # None /\ remote[i].at = "map" /\ RemoteEnd(i)
      /\ UNCHANGED <<gitlab, huly, polled, line, local, buffer, races, unsent>> /\ undone \subseteq undone'
  BY RemoteMapFacts
<1>2. /\ ~Mirroring(i)' /\ \A f \in Docs : ~Copying(i, f)'
      /\ \A j \in Iids : j # i => /\ Mirroring(j)' <=> Mirroring(j)
                                  /\ \A f \in Docs : Copying(j, f)' <=> Copying(j, f)
  BY <1>1, ClaimsRemoteEnd
<1>3. \A f \in Docs : /\ Creating(f)' <=> Creating(f)
                      /\ \A j \in Iids : Creator(f, j)' <=> Creator(f, j)
  BY <1>1, LocalSame
<1>4. \A f \in Docs : FindByHuly(f)' = FindByHuly(f) BY IdmapSame
<1>5. Copying(i, d) /\ FindByHuly(d) # {} BY <1>1 DEF Copying, IndexAdmits
<1>6. ~Creating(d) /\ \A j \in Iids : j # i => ~Copying(j, d) BY <1>5 DEF IssuesInv, FewClaims
<1>7. \A f \in Docs : f # d => ~Copying(i, f) BY DEF Copying
<1>8. d \in ConflictDocs /\ d \notin ConflictDocs'
  BY <1>2, <1>3, <1>5, <1>6 DEF ConflictDocs
<1>9. ConflictDocs' \subseteq ConflictDocs \ {d}
  <2>1. \A j \in Iids, f \in Docs : Copying(j, f)' => Copying(j, f) BY <1>2
  <2>2. ConflictDocs' \subseteq ConflictDocs \cup {} BY <1>3, <1>4, <2>1, ConflictDocsKept
  <2> QED BY <1>8, <2>2
<1>10. ConflictIids' \subseteq ConflictIids
  <2>1. \A j \in Iids : Mirroring(j)' => Mirroring(j) BY <1>2
  <2>2. ConflictIids' \subseteq ConflictIids \cup {} BY <1>3, <2>1, ConflictIidsKept
  <2> QED BY <2>2
<1>11. LooseDocs' \subseteq LooseDocs
  <2>1. \A f \in Docs : /\ Alive(f)' => Alive(f)
                        /\ Changing(f) => Changing(f)'
    BY <1>1 DEF Alive, Changing
  <2>2. \A f \in Docs, j \in Iids : Copying(j, f) => Copying(j, f)' \/ FindByHuly(f)' # {}
    BY <1>2, <1>4, <1>5, <1>7
  <2>3. LooseDocs' \subseteq LooseDocs \cup {} BY <1>1, <1>3, <1>4, <2>1, <2>2, LooseDocsKept
  <2> QED BY <2>3
<1>12. LooseIids' \subseteq LooseIids \cup {i}
  <2>1. \A e \in queued : e.iid # i => e \in queued' BY <1>1, RemoteEndFacts
  <2>2. \A j \in Iids : j # i /\ Coming(j) => Coming(j)' BY <1>1, <2>1, ComingKept
  <2> QED BY <1>1, <1>3, <2>2, LooseIidsKept
<1> QED BY <1>1, <1>8, <1>9, <1>10, <1>11, <1>12, BudgetLoosesIid

LEMMA BudgetRemoteMap ==
  ASSUME IssuesInv, NEW i \in Iids, RemoteMap(i)
  PROVE  RaceBudget'
<1>0. TypeOK /\ FewClaims BY DEF IssuesInv
<1>1. /\ remote[i] # None /\ remote[i].at = "map" /\ RemoteEnd(i) /\ remote[i].doc \in Docs
      /\ UNCHANGED <<gitlab, huly, polled, line, local, buffer, races, unsent>> /\ undone \subseteq undone'
  BY RemoteMapFacts
<1> SUFFICES ASSUME NEW d \in Docs, d = remote[i].doc PROVE RaceBudget' BY <1>1
<1>2. CASE ~IndexAdmits(i, d) /\ UNCHANGED <<idmap, cursor>>
  BY <1>2, BudgetRemoteRefused
<1>3. ASSUME SetCursor(remote[i].ev.ts), Skipped(cursor') \subseteq undone', idmap'[i] = d, \A j \in Iids : j # i => idmap'[j] = idmap[j]
      PROVE  RaceBudget'
  <2>1. /\ ~Mirroring(i)' /\ \A f \in Docs : ~Copying(i, f)'
        /\ \A j \in Iids : j # i => /\ Mirroring(j)' <=> Mirroring(j)
                                    /\ \A f \in Docs : Copying(j, f)' <=> Copying(j, f)
    BY <1>1, ClaimsRemoteEnd
  <2>2. \A f \in Docs : /\ Creating(f)' <=> Creating(f)
                        /\ \A j \in Iids : Creator(f, j)' <=> Creator(f, j)
    BY <1>1, LocalSame
  <2>3. Copying(i, d) /\ Mirroring(i) BY <1>1 DEF Copying, Mirroring
  <2>4. \A f \in Docs : f # d => ~Copying(i, f) BY DEF Copying
  <2>5. \A j \in Iids : j # i => ~Copying(j, d) BY <1>0, <2>3 DEF FewClaims
  <2>6. \A f \in Docs : f # d => /\ Creating(f)' <=> Creating(f)
                                 /\ \A j \in Iids : Copying(j, f)' <=> Copying(j, f)
    BY <2>1, <2>2, <2>4
  <2>7. idmap'[i] # None BY <1>3, ConstantFacts
  <2>8. LooseIids' \subseteq LooseIids
    <3>1. \A e \in queued : e.iid # i => e \in queued' BY <1>1, RemoteEndFacts
    <3>2. \A j \in Iids : idmap[j] # None => idmap'[j] # None BY <1>3, <2>7
    <3>3. ASSUME NEW j \in Iids, gitlab[j] # Absent, Coming(j)
          PROVE  Coming(j)' \/ idmap'[j] # None \/ j \in undone'
      <4>1. cursor' \in Nat BY <1>0, <1>1, <1>3, RemoteFacts, ConstantFacts, CursorStep, CountFacts
      <4>2. idmap'[j] = None => \A e \in queued : e.iid = j => e \in queued' BY <2>7, <3>1
      <4> QED BY <1>0, <1>1, <1>3, <3>2, <3>3, <4>1, <4>2, ComingCursor
    <3>4. LooseIids' \subseteq LooseIids \cup {} BY <1>1, <2>2, <3>2, <3>3, LooseIidsKept
    <3> QED BY <3>4
  <2>9. ConflictDocs' \subseteq ConflictDocs \cup {d}
    <3>1. \A f \in Docs : f # d => FindByHuly(f)' = FindByHuly(f) \ {i} BY <1>3, IdmapStep
    <3>2. \A f \in Docs : f # d => (FindByHuly(f)' # {} => FindByHuly(f) # {}) BY <3>1
    <3> QED BY <2>6, <3>2, ConflictDocsKept
  <2>10. d \in ConflictDocs' => d \in ConflictDocs
    <3>1. d \in ConflictDocs' => Creating(d) BY <2>1, <2>2, <2>5 DEF ConflictDocs
    <3>2. Creating(d) => d \in ConflictDocs BY <2>3 DEF ConflictDocs
    <3> QED BY <3>1, <3>2
  <2>11. i \in ConflictIids' => i \in ConflictIids
    <3>1. i \in ConflictIids' => \E f \in Docs : Creator(f, i) BY <2>1, <2>2 DEF ConflictIids
    <3>2. (\E f \in Docs : Creator(f, i)) => i \in ConflictIids BY <2>3 DEF ConflictIids
    <3> QED BY <3>1, <3>2
  <2>12. ASSUME idmap[i] # None PROVE i \in ConflictIids /\ i \notin ConflictIids'
    <3>1. \A f \in Docs : ~Creator(f, i) BY <1>0, <2>3, <2>12 DEF FewClaims
    <3>2. i \in ConflictIids BY <2>3, <2>12 DEF ConflictIids
    <3>3. i \notin ConflictIids' BY <2>1, <2>2, <3>1 DEF ConflictIids
    <3> QED BY <3>2, <3>3
  <2>13. \A j \in Iids : j # i => /\ Mirroring(j)' <=> Mirroring(j)
                                  /\ \A f \in Docs : Creator(f, j)' => Creator(f, j)
    BY <2>1, <2>2
  <2> QED BY <1>1, <1>3, <2>6, <2>8, <2>9, <2>10, <2>11, <2>12, <2>13, BudgetMapped
<1> QED BY <1>2, <1>3, RemoteMapFacts

LEMMA BudgetRemoteRead ==
  ASSUME IssuesInv, NEW i \in Iids, RemoteRead(i) \/ RemoteWrite(i)
  PROVE  RaceBudget'
<1>0. TypeOK BY DEF IssuesInv
<1>1. /\ UNCHANGED <<gitlab, idmap, polled, line, local, buffer, races>>
      /\ remote[i] # None /\ remote[i].doc \in Docs /\ undone \subseteq undone'
      /\ \A f \in Docs : f \in unsent /\ f \notin unsent' => idmap[i] = f
  BY RemoteReadFacts, RemoteWriteFacts
<1>2. /\ \A j \in Iids : /\ Mirroring(j)' <=> Mirroring(j)
                         /\ \A f \in Docs : Copying(j, f)' <=> Copying(j, f)
      /\ idmap[i] # None /\ \A e \in queued : e.iid # i => e \in queued'
  BY ClaimsRemoteRead
<1>3. \A f \in Docs : /\ Creating(f)' <=> Creating(f)
                      /\ \A j \in Iids : Creator(f, j)' <=> Creator(f, j)
  BY <1>1, LocalSame
<1>4. \A f \in Docs : FindByHuly(f)' = FindByHuly(f) BY <1>1, IdmapSame
<1>5. \A f \in Docs : Changing(f) => Changing(f)' BY <1>1 DEF Changing
<1>6. \A f \in Docs : Alive(f)' => Alive(f)
  <2>1. CASE UNCHANGED huly BY <2>1 DEF Alive
  <2>2. CASE ~UNCHANGED huly
    <3>1. /\ huly[remote[i].doc] # None
          /\ \A f \in Docs : f # remote[i].doc => huly'[f] = huly[f]
      BY <2>2, RemoteReadFacts, RemoteWriteFacts
    <3>2. huly[remote[i].doc] # Absent BY <1>1 DEF IssuesInv, NoDocYet
    <3>3. Alive(remote[i].doc) BY <3>1, <3>2 DEF Alive
    <3>4. \A f \in Docs : f # remote[i].doc => (Alive(f)' => Alive(f)) BY <3>1 DEF Alive
    <3> QED BY <3>3, <3>4
  <2> QED BY <2>1, <2>2
<1>7. LooseDocs' \subseteq LooseDocs \cup {}
  <2>1. \A f \in Docs : f \in unsent /\ f \notin unsent' => FindByHuly(f)' # {}
    BY <1>1, <1>4 DEF FindByHuly
  <2> QED BY <1>2, <1>3, <1>4, <1>5, <1>6, <2>1, LooseDocsKept
<1>8. ConflictDocs' \subseteq ConflictDocs \cup {} BY <1>2, <1>3, <1>4, ConflictDocsKept
<1>9. ConflictIids' \subseteq ConflictIids \cup {} BY <1>1, <1>2, <1>3, ConflictIidsKept
<1>10. ASSUME NEW j \in Iids, gitlab[j] # Absent, Coming(j)
       PROVE  Coming(j)' \/ idmap'[j] # None \/ j \in undone'
  <2>1. idmap'[j] = None => \A e \in queued : e.iid = j => e \in queued' BY <1>1, <1>2
  <2>2. CASE UNCHANGED cursor
    <3>1. CASE idmap'[j] # None BY <3>1
    <3>2. CASE idmap'[j] = None BY <1>1, <1>10, <2>1, <2>2, <3>2, ComingKept
    <3> QED BY <3>1, <3>2
  <2>3. CASE ~UNCHANGED cursor
    <3>1. SetCursor(remote[i].ev.ts) /\ Skipped(cursor') \subseteq undone'
      BY <2>3, RemoteReadFacts, RemoteWriteFacts
    <3>2. cursor' \in Nat BY <1>0, <1>1, <3>1, RemoteFacts, ConstantFacts, CursorStep, CountFacts
    <3> QED BY <1>0, <1>1, <1>10, <2>1, <3>1, <3>2, ComingCursor
  <2> QED BY <2>2, <2>3
<1>11. LooseIids' \subseteq LooseIids \cup {} BY <1>1, <1>3, <1>10, LooseIidsKept
<1>12. races' \in Nat /\ races <= races' BY <1>0, <1>1, CountFacts
<1> QED BY <1>7, <1>8, <1>9, <1>11, <1>12, BudgetSame

LEMMA BudgetBackfill ==
  ASSUME IssuesInv, Backfill
  PROVE  RaceBudget'
<1>1. UNCHANGED <<gitlab, huly, idmap, cursor, remote, line, local, buffer, races, undone, unsent>>
  BY DEF Backfill
<1>2. ASSUME NEW j \in Iids, Coming(j) PROVE Coming(j)'
  <2>1. CASE \E e \in queued : e.iid = j BY <2>1 DEF Coming, Backfill
  <2>2. CASE ~\E e \in queued : e.iid = j
    <3>1. Listed(j) /\ Current(j) \notin polled BY <1>2, <2>2 DEF Coming
    <3>2. Current(j) \in queued' BY <3>1 DEF Backfill
    <3>3. Current(j).iid = j BY DEF Current
    <3> QED BY <3>2, <3>3 DEF Coming
  <2> QED BY <2>1, <2>2
<1>3. \A f \in Docs, j \in Iids : Creator(f, j)' <=> Creator(f, j) BY <1>1, LocalSame
<1>4. LooseIids' \subseteq LooseIids \cup {} BY <1>1, <1>2, <1>3, LooseIidsKept
<1>5. LooseDocs' = LooseDocs BY <1>1, LooseDocsSame
<1>6. ConflictDocs' = ConflictDocs /\ ConflictIids' = ConflictIids BY <1>1, ConflictsSame
<1>7. races' \in Nat /\ races <= races' BY <1>1, CountFacts DEF IssuesInv
<1> QED BY <1>4, <1>5, <1>6, <1>7, BudgetSame

(* Whoever ends an event without its effect counts the issue as lost, unless
   another event or a sweep brings it.                                      *)
LEMMA FailedIid ==
  ASSUME TypeOK, UNCHANGED <<gitlab, idmap, cursor, polled>>, NEW i \in Iids,
         Unserved(i, queued') => i \in undone'
  PROVE  i \notin LooseIids'
<1> SUFFICES ASSUME i \in LooseIids' PROVE FALSE OBVIOUS
<1>1. gitlab[i] # Absent /\ idmap[i] = None /\ ~Coming(i)' /\ i \notin undone' BY DEF LooseIids
<1>2. Current(i) \notin queued'
  <2>1. Current(i).iid = i BY DEF Current
  <2> QED BY <1>1, <2>1 DEF Coming
<1>3. Current(i) \in polled \/ ~Listed(i) BY <1>1 DEF Coming, Listed, Current
<1>4. Current(i) \in polled \/ gitlab[i].ts < cursor
  <2>1. gitlab[i].ts \in Nat /\ cursor \in Nat BY ConstantFacts, CountFacts DEF TypeOK, Version
  <2> QED BY <1>1, <1>3, <2>1 DEF Listed
<1>5. Unserved(i, queued') BY <1>1, <1>2, <1>4 DEF Unserved, Passed, Held
<1> QED BY <1>1, <1>5

LEMMA BudgetLocalDropped ==
  ASSUME IssuesInv, NEW d \in Docs, LocalDropped(d)
  PROVE  RaceBudget'
<1>0. TypeOK /\ line \in [Docs -> Seq(Change)] BY DEF IssuesInv, TypeOK
<1>1. /\ UNCHANGED <<gitlab, huly, idmap, cursor, queued, polled, remote, local, buffer, races, undone>>
      /\ unsent' = unsent \cup {d}
      /\ \A f \in Docs : f # d => line'[f] = line[f]
  BY <1>0, LocalDroppedFacts DEF LocalDropped
<1>2. \A f \in Docs : /\ Alive(f)' => Alive(f)
                      /\ f # d /\ Changing(f) => Changing(f)'
  BY <1>1 DEF Alive, Changing
<1>3. \A f \in Docs : /\ Creating(f)' <=> Creating(f)
                      /\ \A j \in Iids : Copying(j, f)' <=> Copying(j, f)
  BY <1>1, LocalSame, RemoteSame
<1>4. \A f \in Docs : FindByHuly(f)' = FindByHuly(f) BY <1>1, IdmapSame
<1>5. LooseDocs' \subseteq LooseDocs \cup {} BY <1>1, <1>2, <1>3, <1>4, LooseDocsKept
<1>6. LooseIids' = LooseIids BY <1>1, LooseIidsSame
<1>7. ConflictDocs' = ConflictDocs /\ ConflictIids' = ConflictIids BY <1>1, ConflictsSame
<1>8. races' \in Nat /\ races <= races' BY <1>0, <1>1, CountFacts
<1> QED BY <1>5, <1>6, <1>7, <1>8, BudgetSame

LEMMA BudgetLocalThrows ==
  ASSUME IssuesInv, NEW d \in Docs, LocalThrows(d)
  PROVE  RaceBudget'
<1>0. TypeOK BY DEF IssuesInv
<1>1. /\ UNCHANGED <<gitlab, huly, idmap, cursor, queued, polled, remote, line, buffer, races>>
      /\ unsent' = unsent \cup {d} /\ undone \subseteq undone'
      /\ \A i \in Iids : local[d].iid = i /\ Unserved(i, queued) => i \in undone'
  BY LocalThrowsFacts
<1>2. /\ ~Creating(d)' /\ \A j \in Iids : ~Creator(d, j)'
      /\ \A j \in Iids : Creator(d, j) => j = local[d].iid
      /\ \A f \in Docs : f # d => /\ Creating(f)' <=> Creating(f)
                                  /\ \A j \in Iids : Creator(f, j)' <=> Creator(f, j)
  BY ClaimsLocalThrows
<1>3. \A j \in Iids : /\ Mirroring(j)' <=> Mirroring(j)
                      /\ \A f \in Docs : Copying(j, f)' <=> Copying(j, f)
  BY <1>1, RemoteSame
<1>4. \A f \in Docs : FindByHuly(f)' = FindByHuly(f) BY <1>1, IdmapSame
<1>5. \A f \in Docs : /\ Alive(f)' => Alive(f)
                      /\ Changing(f) => Changing(f)'
  BY <1>1 DEF Alive, Changing
<1>6. LooseDocs' \subseteq LooseDocs \cup {}
  <2>1. \A f \in Docs : f \notin unsent' => f # d /\ f \notin unsent BY <1>1
  <2> QED BY <1>2, <1>3, <1>4, <1>5, <2>1, LooseDocsKept
<1>7. LooseIids' \subseteq LooseIids
  <2> DEFINE X == {i \in Iids : local[d].iid = i}
  <2>1. \A j \in Iids : Coming(j) => Coming(j)' BY <1>1, ComingKept
  <2>2. \A j \in Iids : j \notin X => \A f \in Docs : Creator(f, j) => Creator(f, j)' BY <1>2
  <2>3. LooseIids' \subseteq LooseIids \cup X
    <3> HIDE DEF X
    <3> QED BY <1>1, <2>1, <2>2, LooseIidsKept
  <2>4. ASSUME NEW i \in X PROVE i \notin LooseIids'
    <3>1. Unserved(i, queued') => i \in undone' BY <1>1
    <3> QED BY <1>0, <1>1, <3>1, FailedIid
  <2> QED BY <2>3, <2>4
<1>8. ConflictDocs' \subseteq ConflictDocs \cup {}
  <2>1. \A f \in Docs : Creating(f)' => Creating(f) BY <1>2
  <2> QED BY <1>3, <1>4, <2>1, ConflictDocsKept
<1>9. ConflictIids' \subseteq ConflictIids \cup {}
  <2>1. \A f \in Docs, j \in Iids : Creator(f, j)' => Creator(f, j) BY <1>2
  <2> QED BY <1>1, <1>3, <2>1, ConflictIidsKept
<1>10. races' \in Nat /\ races <= races' BY <1>0, <1>1, CountFacts
<1> QED BY <1>6, <1>7, <1>8, <1>9, <1>10, BudgetSame

LEMMA BudgetRemoteDropped ==
  ASSUME IssuesInv, NEW e \in queued, RemoteDropped(e)
  PROVE  RaceBudget'
<1>0. TypeOK BY DEF IssuesInv
<1> SUFFICES ASSUME NEW i \in Iids, i = e.iid PROVE RaceBudget' BY RemoteDroppedFacts
<1>1. /\ UNCHANGED <<gitlab, huly, idmap, cursor, polled, remote, line, local, buffer, races, unsent>>
      /\ queued' = queued \ {e} /\ undone \subseteq undone'
      /\ Unserved(i, queued') => i \in undone'
  BY RemoteDroppedFacts
<1>2. LooseIids' \subseteq LooseIids
  <2>1. \A j \in Iids : j # i /\ Coming(j) => Coming(j)' BY <1>1, ComingKept
  <2>2. \A f \in Docs, j \in Iids : Creator(f, j)' <=> Creator(f, j) BY <1>1, LocalSame
  <2>3. LooseIids' \subseteq LooseIids \cup {i} BY <1>1, <2>1, <2>2, LooseIidsKept
  <2>4. i \notin LooseIids' BY <1>0, <1>1, FailedIid
  <2> QED BY <2>3, <2>4
<1>3. LooseDocs' = LooseDocs BY <1>1, LooseDocsSame
<1>4. ConflictDocs' = ConflictDocs /\ ConflictIids' = ConflictIids BY <1>1, ConflictsSame
<1>5. races' \in Nat /\ races <= races' BY <1>0, <1>1, CountFacts
<1> QED BY <1>2, <1>3, <1>4, <1>5, BudgetSame

LEMMA BudgetRemoteThrows ==
  ASSUME IssuesInv, NEW i \in Iids, RemoteThrows(i)
  PROVE  RaceBudget'
<1>0. TypeOK BY DEF IssuesInv
<1>1. /\ UNCHANGED <<gitlab, huly, idmap, cursor, polled, line, local, buffer, races>>
      /\ remote[i] # None /\ RemoteEnd(i)
      /\ undone \subseteq undone' /\ (Unserved(i, queued') => i \in undone')
      /\ unsent \subseteq unsent' /\ (remote[i].at = "map" => remote[i].doc \in unsent')
  BY RemoteThrowsFacts
<1>2. /\ ~Mirroring(i)' /\ \A f \in Docs : ~Copying(i, f)'
      /\ \A j \in Iids : j # i => /\ Mirroring(j)' <=> Mirroring(j)
                                  /\ \A f \in Docs : Copying(j, f)' <=> Copying(j, f)
  BY <1>1, ClaimsRemoteEnd
<1>3. \A f \in Docs : /\ Creating(f)' <=> Creating(f)
                      /\ \A j \in Iids : Creator(f, j)' <=> Creator(f, j)
  BY <1>1, LocalSame
<1>4. \A f \in Docs : FindByHuly(f)' = FindByHuly(f) BY <1>1, IdmapSame
<1>5. \A f \in Docs : /\ Alive(f)' => Alive(f)
                      /\ Changing(f) => Changing(f)'
  BY <1>1 DEF Alive, Changing
<1>6. LooseDocs' \subseteq LooseDocs \cup {}
  <2>1. \A f \in Docs : f \notin unsent' => f \notin unsent /\ ~Copying(i, f) BY <1>1 DEF Copying
  <2>2. \A f \in Docs, j \in Iids : f \notin unsent' => (Copying(j, f) => Copying(j, f)') BY <1>2, <2>1
  <2> QED BY <1>3, <1>4, <1>5, <2>1, <2>2, LooseDocsKept
<1>7. LooseIids' \subseteq LooseIids
  <2>1. \A e \in queued : e.iid # i => e \in queued' BY <1>1, RemoteEndFacts
  <2>2. \A j \in Iids : j # i /\ Coming(j) => Coming(j)' BY <1>1, <2>1, ComingKept
  <2>3. LooseIids' \subseteq LooseIids \cup {i} BY <1>1, <1>3, <2>2, LooseIidsKept
  <2>4. i \notin LooseIids' BY <1>0, <1>1, FailedIid
  <2> QED BY <2>3, <2>4
<1>8. \A j \in Iids : /\ Mirroring(j)' => Mirroring(j)
                      /\ \A f \in Docs : Copying(j, f)' => Copying(j, f)
  BY <1>2
<1>9. ConflictDocs' \subseteq ConflictDocs \cup {} BY <1>3, <1>4, <1>8, ConflictDocsKept
<1>10. ConflictIids' \subseteq ConflictIids \cup {} BY <1>1, <1>3, <1>8, ConflictIidsKept
<1>11. races' \in Nat /\ races <= races' BY <1>0, <1>1, CountFacts
<1> QED BY <1>6, <1>7, <1>9, <1>10, <1>11, BudgetSame

LEMMA BudgetCrash ==
  ASSUME IssuesInv, Crash
  PROVE  RaceBudget'
<1>0. TypeOK /\ line \in [Docs -> Seq(Change)] BY DEF IssuesInv, TypeOK
<1>1. /\ UNCHANGED <<gitlab, huly, idmap, cursor, queued, polled, races>>
      /\ unsent \subseteq unsent' /\ undone \subseteq undone'
      /\ \A f \in Docs : \/ Waits(f) \/ Aborted(f)
                         \/ \E j \in Iids : remote[j] # None /\ remote[j].at = "map" /\ remote[j].doc = f
                         => f \in unsent'
      /\ \A i \in Iids, f \in Docs : Unserved(i, queued) /\ Aborted(f) /\ local[f].iid = i => i \in undone'
  BY DEF Crash
<1>2. \A f \in Docs : f \notin unsent' =>
        f \notin unsent /\ ~Changing(f) /\ ~Creating(f) /\ \A j \in Iids : ~Copying(j, f)
  BY <1>1 DEF Waits, Aborted, Changing, Creating, Copying, Vals
<1>3. /\ \A j \in Iids : ~Mirroring(j)' /\ \A f \in Docs : ~Copying(j, f)'
      /\ \A f \in Docs : ~Creating(f)' /\ \A j \in Iids : ~Creator(f, j)'
  BY ClaimsCrash
<1>4. \A f \in Docs : FindByHuly(f)' = FindByHuly(f) BY <1>1, IdmapSame
<1>5. \A f \in Docs : Alive(f)' => Alive(f) BY <1>1 DEF Alive
<1>6. LooseDocs' \subseteq LooseDocs \cup {} BY <1>2, <1>4, <1>5, LooseDocsKept
<1>7. LooseIids' \subseteq LooseIids
  <2> DEFINE X == {i \in Iids : \E f \in Docs : Creator(f, i)}
  <2>1. \A j \in Iids : Coming(j) => Coming(j)' BY <1>1, ComingKept
  <2>2. \A j \in Iids : j \notin X => \A f \in Docs : ~Creator(f, j) OBVIOUS
  <2>3. LooseIids' \subseteq LooseIids \cup X
    <3> HIDE DEF X
    <3> QED BY <1>1, <2>1, <2>2, LooseIidsKept
  <2>4. ASSUME NEW i \in X PROVE i \notin LooseIids'
    <3>1. PICK f \in Docs : Creator(f, i) OBVIOUS
    <3>2. Aborted(f) /\ local[f].iid = i BY <3>1 DEF Creator, Aborted
    <3>3. Unserved(i, queued') => i \in undone' BY <1>1, <3>2
    <3> QED BY <1>0, <1>1, <3>3, FailedIid
  <2> QED BY <2>3, <2>4
<1>8. ConflictDocs' \subseteq ConflictDocs \cup {} BY <1>3, <1>4, ConflictDocsKept
<1>9. ConflictIids' \subseteq ConflictIids \cup {}
  <2>1. ConflictIids' \subseteq {} BY <1>3 DEF ConflictIids
  <2> QED BY <2>1
<1>10. races' \in Nat /\ races <= races' BY <1>0, <1>1, CountFacts
<1> QED BY <1>6, <1>7, <1>8, <1>9, <1>10, BudgetSame

LEMMA StepRaceBudget ==
  ASSUME IssuesInv, [Next]_vars
  PROVE  RaceBudget'
<1>1. CASE UNCHANGED vars
  <2>1. UNCHANGED <<gitlab, huly, idmap, queued, polled, cursor, line, buffer, local, remote, races,
                    undone, unsent>>
    BY <1>1 DEF vars
  <2>2. LooseDocs' = LooseDocs /\ LooseIids' = LooseIids BY <2>1, LooseDocsSame, LooseIidsSame
  <2>3. ConflictDocs' = ConflictDocs /\ ConflictIids' = ConflictIids BY <2>1, ConflictsSame
  <2>4. races' \in Nat /\ races <= races' BY <2>1, CountFacts DEF IssuesInv
  <2> QED BY <2>2, <2>3, <2>4, BudgetSame
<1>2. CASE Next
  BY <1>2, BudgetEditGitlab, BudgetPeople, BudgetMark, BudgetLocalBegin, BudgetLocalCall,
     BudgetLocalFinish, BudgetLocalDropped, BudgetLocalThrows, BudgetRemoteBegin,
     BudgetRemoteCreate, BudgetRemoteMap, BudgetRemoteRead, BudgetRemoteDropped,
     BudgetRemoteThrows, BudgetBackfill, BudgetCrash
  DEF Next, Work
<1> QED BY <1>1, <1>2

-----------------------------------------------------------------------------
(* Theorems *)

LEMMA InitInv == Init => IssuesInv
<1> SUFFICES ASSUME Init PROVE IssuesInv OBVIOUS
<1>1. TypeOK BY InitTypeOK
<1>2. /\ \A d \in Docs : line[d] = <<>> /\ local[d] = None /\ huly[d] = Absent
      /\ \A i \in Iids : remote[i] = None /\ idmap[i] = None /\ gitlab[i] = Absent
      /\ buffer = <<>> /\ queued = {} /\ polled = {} /\ cursor = 0 /\ clock = 0 /\ touches = 0
      /\ edits["gitlab"] = 0 /\ edits["huly"] = 0 /\ races = 0 /\ ~started /\ DOMAIN buffer = {}
  BY DEF Init
<1>3. \A d \in Docs : Waiting(d) = {} /\ Calling(d) = {} /\ Ascending(line[d])
  BY <1>2, ValsEmpty DEF Waiting, Calling
<1>4. InFlight = {} BY <1>2, <1>3, ValsEmpty DEF InFlight
<1>5. OnceEach BY <1>2, <1>3, <1>4, ValsEmpty DEF OnceEach
<1>6. CallBudget BY <1>2, <1>4, FS_EmptySet DEF CallBudget, Calls
<1>7. EditBudget BY <1>2, IssuesAssumption DEF EditBudget
<1>8. ColdStart BY <1>2 DEF ColdStart
<1>9. Dated BY <1>2 DEF Dated
<1>10. NoIidYet BY <1>2 DEF NoIidYet
<1>11. NoDocYet
  <2>1. \A d \in Docs : FindByHuly(d) = {} BY <1>2, ConstantFacts DEF FindByHuly
  <2> QED BY <1>2, <2>1 DEF NoDocYet
<1>12. RemoteAgrees /\ LocalAgrees BY <1>2 DEF RemoteAgrees, LocalAgrees
<1>13. /\ \A i \in Iids : ~Mirroring(i) /\ \A d \in Docs : ~Copying(i, d)
       /\ \A d \in Docs : ~Creating(d) /\ \A i \in Iids : ~Creator(d, i)
  BY <1>2 DEF Mirroring, Copying, Creating, Creator
<1>14. FewClaims BY <1>13 DEF FewClaims
<1>15. RaceBudget
  <2>1. LooseDocs = {} BY <1>2 DEF LooseDocs, Alive
  <2>2. LooseIids = {} BY <1>2 DEF LooseIids
  <2>3. ConflictDocs = {} /\ ConflictIids = {} BY <1>13 DEF ConflictDocs, ConflictIids
  <2> QED BY <1>2, <2>1, <2>2, <2>3, FS_EmptySet DEF RaceBudget
<1> QED
  BY <1>1, <1>5, <1>6, <1>7, <1>8, <1>9, <1>10, <1>11, <1>12, <1>14, <1>15 DEF IssuesInv

LEMMA StepInv == IssuesInv /\ [Next]_vars => IssuesInv'
<1> SUFFICES ASSUME IssuesInv, [Next]_vars PROVE IssuesInv' OBVIOUS
<1>1. TypeOK' BY TypeStep
<1>2. OnceEach' /\ ColdStart' BY StepOnceEach, StepColdStart
<1>3. CallBudget' /\ EditBudget' BY StepCallBudget, StepEditBudget
<1>4. Dated' /\ NoIidYet' /\ NoDocYet' BY StepDated, StepNoIidYet, StepNoDocYet
<1>5. RemoteAgrees' /\ LocalAgrees' BY StepRemoteAgrees, StepLocalAgrees
<1>6. FewClaims' /\ RaceBudget' BY StepFewClaims, StepRaceBudget
<1> QED BY <1>1, <1>2, <1>3, <1>4, <1>5, <1>6 DEF IssuesInv

(* The inductive invariant: the changes in flight are distinct and paid for by
   the people who made them, nothing claims an issue that does not exist, at
   most two jobs claim one mapping, and each pair that does has been counted
   as a race.                                                               *)
THEOREM IssuesInvariance == Spec => []IssuesInv
  BY InitInv, StepInv, PTL DEF Spec

(* The state of the subscriber, of the id map and of the jobs keeps its shape. *)
THEOREM TypesHold == Spec => []TypeOK
<1>1. IssuesInv => TypeOK BY DEF IssuesInv
<1> QED BY <1>1, IssuesInvariance, PTL

(* The bound on the clock never stands in the way of applyLocal's call: the
   changes of people bound the calls by themselves.                         *)
THEOREM ClockNeverBinds == Spec => [](clock < MaxClock)
<1>1. IssuesInv => clock < MaxClock
  <2> SUFFICES ASSUME IssuesInv PROVE clock < MaxClock OBVIOUS
  <2>1. clock <= 2 * (edits["gitlab"] + edits["huly"]) BY ClockBound
  <2>2. edits["gitlab"] + edits["huly"] <= MaxEdits + touches BY DEF IssuesInv, EditBudget
  <2>3. touches \in 0..MaxTouches BY DEF IssuesInv, TypeOK
  <2> QED BY <2>1, <2>2, <2>3, CountFacts DEF IssuesInv, MaxClock
<1> QED BY <1>1, IssuesInvariance, PTL

(* TxSubscriber.onTx drops the pod's own writes by their marker, so that the
   calls to GitLab are never more than the changes that people made in Huly,
   whether or not the service account is known.                             *)
THEOREM NoEchoStormHolds == Spec => []NoEchoStorm
<1>1. IssuesInv => NoEchoStorm
  <2> SUFFICES ASSUME IssuesInv PROVE NoEchoStorm OBVIOUS
  <2>1. Cardinality(InFlight) \in Nat BY InFlightFinite DEF IssuesInv
  <2>2. clock - edits["gitlab"] - edits["huly"] + Cardinality(InFlight) <= edits["huly"]
    BY DEF IssuesInv, CallBudget, Calls
  <2>3. edits["gitlab"] \in Nat /\ edits["huly"] \in Nat /\ clock \in Nat
    BY CountFacts DEF IssuesInv
  <2>4. clock - edits["gitlab"] - edits["huly"] <= edits["huly"] BY <2>1, <2>2, <2>3
  <2> QED BY <2>4 DEF NoEchoStorm
<1> QED BY <1>1, IssuesInvariance, PTL

(* The copy is created before its mapping is written (issues.ts:302 and :481):
   each issue left without a partner is the price of one event that looked for
   the mapping in between, or its own change or version was lost to a cause
   that the history names: a full buffer, a crash, an open breaker, an
   exception, a cursor set past it, or a change without a title.            *)
THEOREM StraysAreExcusedHolds == Spec => []StraysAreExcused
<1>1. IssuesInv => StraysAreExcused
  <2> SUFFICES ASSUME IssuesInv PROVE StraysAreExcused OBVIOUS
  <2>1. HulyStrays \ unsent \subseteq LooseDocs
    <3> SUFFICES ASSUME NEW d \in Docs, d \in HulyStrays, d \notin unsent PROVE d \in LooseDocs BY DEF HulyStrays
    <3>1. Alive(d) /\ FindByHuly(d) = {} BY DEF HulyStrays
    <3>2. local[d] = None /\ line[d] = <<>> BY DEF HulyStrays
    <3>3. ~Creating(d) BY <3>2 DEF Creating
    <3>4. ~Changing(d)
      <4>1. Vals(line[d]) = {} BY <3>2, ValsEmpty
      <4>2. \A n \in DOMAIN buffer : buffer[n].doc # d BY DEF HulyStrays
      <4> QED BY <4>1, <4>2 DEF Changing
    <3>5. \A i \in Iids : ~Copying(i, d) BY DEF HulyStrays, Copying
    <3> QED BY <3>1, <3>3, <3>4, <3>5 DEF LooseDocs
  <2>2. GitlabStrays \ undone \subseteq LooseIids
    <3> SUFFICES ASSUME NEW i \in Iids, i \in GitlabStrays, i \notin undone PROVE i \in LooseIids BY DEF GitlabStrays
    <3>1. gitlab[i] # Absent /\ idmap[i] = None BY DEF GitlabStrays
    <3>2. ~Coming(i) BY DEF GitlabStrays, Coming
    <3>3. \A d \in Docs : ~Creator(d, i) BY DEF GitlabStrays, Creator
    <3> QED BY <3>1, <3>2, <3>3 DEF LooseIids
  <2>3. /\ Cardinality(HulyStrays \ unsent) <= Cardinality(LooseDocs)
        /\ Cardinality(GitlabStrays \ undone) <= Cardinality(LooseIids)
        /\ Cardinality(HulyStrays \ unsent) \in Nat /\ Cardinality(GitlabStrays \ undone) \in Nat
    <3> HIDE DEF HulyStrays, GitlabStrays, LooseDocs, LooseIids
    <3> QED BY <2>1, <2>2, DebtFacts, CardLess, SubsetCard
  <2>4. Cardinality(LooseDocs) + Cardinality(LooseIids) + Cardinality(ConflictDocs) + Cardinality(ConflictIids) <= races
    BY DEF IssuesInv, RaceBudget
  <2>5. races \in Nat BY CountFacts DEF IssuesInv
  <2>6. Cardinality(HulyStrays \ unsent) + Cardinality(GitlabStrays \ undone) <= races
    BY <2>3, <2>4, <2>5, DebtFacts
  <2> QED BY <2>6 DEF StraysAreExcused
<1> QED BY <1>1, IssuesInvariance, PTL

-----------------------------------------------------------------------------
=============================================================================
