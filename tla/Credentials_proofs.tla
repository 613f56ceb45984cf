------------------------- MODULE Credentials_proofs -------------------------
(***************************************************************************)
(* The refresh tokens and their owners, for any number of credentials,     *)
(* flows, callbacks and rounds, and any horizon, period and lifetime.      *)
(***************************************************************************)
EXTENDS Credentials, TLAPS

(* A callback in progress is about a flow that somebody has started. *)
FlowsOwned ==
  /\ \A f \in Flows : flow[f] # "unused" => owner[f] \in Creds
  /\ \A b \in Callbacks : call[b].at # "idle" =>
       call[b].flow \in Flows /\ flow[call[b].flow] # "unused"

UnlinksCounted == \A c \in Creds : unlinks[c] <= troubles

(* A round's list: one entry for a credential, the document in hand among
   them, nothing in hand without an answer.                                 *)
ListsOK ==
  /\ \A r \in Rounds : \A d, e \in round[r].todo : d.cred = e.cred => d = e
  /\ \A r \in Rounds : round[r].doc # None => round[r].doc \in round[r].todo
  /\ \A r \in Rounds : round[r].doc = None => round[r].reply = None /\ round[r].token = None
  /\ \A r, q \in Rounds : r # q =>
       \A d \in round[r].todo, e \in round[q].todo : d.cred = e.cred => d.cred \in excuse

(* Round r has GitLab's answer for c in its hand. *)
InHand(r, c) == round[r].reply = "ok" /\ round[r].doc # None /\ round[r].doc.cred = c

(* A token that a callback is about to store is known to nobody else. *)
TokenPrivate ==
  \A b \in Callbacks : call[b].at = "store" /\ call[b].token # None =>
    LET c == owner[call[b].flow] IN
    /\ row[c] # None => row[c].token # call[b].token
    /\ \A r \in Rounds : \A d \in round[r].todo : d.cred = c => d.token # call[b].token
    /\ \A r \in Rounds : round[r].doc # None /\ round[r].doc.cred = c =>
         round[r].token # call[b].token
    /\ \A a \in Callbacks \ {b} :
         call[a].at = "store" /\ owner[call[a].flow] = c => call[a].token # call[b].token

(* Where the good tokens of a credential without an excuse are. *)
CallsGood ==
  \A b \in Callbacks : call[b].at = "store" =>
    call[b].token \in live[owner[call[b].flow]] \cup {None}

ListedGood ==
  \A r \in Rounds : \A d \in round[r].todo : d.cred \notin excuse =>
    \/ d.token \in live[d.cred] \cup {None}
    \/ InHand(r, d.cred)

AnswersGood ==
  \A r \in Rounds : \A c \in Creds \ excuse :
    /\ InHand(r, c) => IF round[r].token # None THEN round[r].token \in live[c]
                       ELSE row[c] # None => row[c].token \in live[c] \cup {None}
    /\ round[r].doc # None /\ round[r].doc.cred = c => round[r].reply # "refused"

RowsGood ==
  \A c \in Creds \ excuse : row[c] # None =>
    /\ ~row[c].expired
    /\ row[c].token \in live[c] \cup {None} \/ \E r \in Rounds : InHand(r, c)

(* How far a credential's next refresh may be. *)
Pending(c) ==
  \E r \in Rounds : \/ \E d \in round[r].todo : d.cred = c /\ d.token # None
                    \/ c \in Users /\ round[r].at = "admin"

ErrorsAreSlow == \A r \in Rounds : round[r].reply = "error" => slow

RowsDated ==
  /\ \A c \in Creds : row[c] # None /\ row[c].token # None =>
       row[c].kind = "oauth" /\ row[c].ttl # None
  /\ \A u \in Users : row[u] # None => row[u].kind = "oauth"
  /\ \A r \in Rounds : \A d \in round[r].todo : d.cred \in Admins =>
       row[d.cred] # None /\ row[d.cred].kind = "oauth"

InTime ==
  \A c \in Creds \ excuse : row[c] # None /\ row[c].token # None /\ ~slow =>
    \/ row[c].ttl >= Horizon - timer
    \/ row[c].ttl >= Horizon - Period /\ Pending(c)

Custody == TokenPrivate /\ CallsGood /\ ListedGood /\ AnswersGood /\ RowsGood
Shape == FlowsOwned /\ UnlinksCounted /\ ListsOK

IInv == TypeOK /\ Shape /\ Custody /\ ErrorsAreSlow /\ RowsDated /\ InTime

-----------------------------------------------------------------------------
(* Types. *)

LEMMA Constants ==
  /\ None \notin Creds /\ None \notin Flows /\ None \notin Token /\ None \notin Snapshot
  /\ None \notin Row /\ None \notin Reply
  /\ Floor \in Int /\ Lifetime \in Nat /\ Horizon \in Nat /\ Period \in Nat
  /\ Floor < Lifetime /\ Horizon < Lifetime /\ Floor = Horizon - Period - 1
  /\ None \notin Int /\ Token \subseteq Nat /\ 1 \in Token
  /\ MaxTroubles \in Nat
BY CredentialsAssumption, NoneAssumption DEF Creds, Token, Floor

LEMMA RoundType ==
  ASSUME TypeOK, NEW r \in Rounds
  PROVE  /\ round[r] \in Round /\ round[r].todo \subseteq Snapshot
         /\ round[r].doc \in Snapshot \cup {None}
         /\ round[r].token \in Token \cup {None}
         /\ round[r].reply \in Reply \cup {None}
         /\ \A d \in round[r].todo : d.cred \in Creds /\ d.token \in Token \cup {None} /\ d # None
         /\ round[r].doc # None => round[r].doc.cred \in Creds
<1>1. /\ round[r] \in Round /\ round[r].todo \subseteq Snapshot
      /\ round[r].doc \in Snapshot \cup {None}
      /\ round[r].token \in Token \cup {None}
      /\ round[r].reply \in Reply \cup {None}
  BY DEF TypeOK, Round
<1> QED
  BY <1>1, Constants DEF Snapshot

LEMMA CallType ==
  ASSUME TypeOK, NEW b \in Callbacks
  PROVE  /\ call[b] \in Call /\ call[b].flow \in Flows \cup {None}
         /\ call[b].token \in Token \cup {None}
BY DEF TypeOK, Call

LEMMA RowType ==
  ASSUME TypeOK, NEW c \in Creds, row[c] # None
  PROVE  /\ row[c] \in Row /\ row[c].token \in Token \cup {None}
         /\ row[c].ttl \in Floor..Lifetime \cup {None} /\ row[c].expired \in BOOLEAN
         /\ row[c].id \in Nat
BY DEF TypeOK, Row

LEMMA FreshType ==
  ASSUME NEW id \in Nat, NEW t \in Token \cup {None}
  PROVE  /\ Fresh(id, t) \in Row /\ Fresh(id, t).token = t /\ Fresh(id, t).ttl = Lifetime
         /\ Fresh(id, t).kind = "oauth" /\ Fresh(id, t).expired = FALSE /\ Fresh(id, t).id = id
BY Constants DEF Fresh, Row

LEMMA NoRoundType == NoRound \in Round /\ NoCall \in Call
BY DEF NoRound, Round, NoCall, Call

(* One round changes. *)
LEMMA RoundMoves ==
  ASSUME TypeOK, NEW r \in Rounds, NEW q \in Round, round' = [round EXCEPT ![r] = q]
  PROVE  /\ round' \in [Rounds -> Round] /\ round'[r] = q
         /\ \A p \in Rounds \ {r} : round'[p] = round[p]
BY DEF TypeOK

(* One callback changes. *)
LEMMA CallMoves ==
  ASSUME TypeOK, NEW b \in Callbacks, NEW q \in Call, call' = [call EXCEPT ![b] = q]
  PROVE  /\ call' \in [Callbacks -> Call] /\ call'[b] = q
         /\ \A a \in Callbacks \ {b} : call'[a] = call[a]
BY DEF TypeOK

(* The callback of a flow that is under way has an owner. *)
LEMMA OwnerType ==
  ASSUME TypeOK, FlowsOwned, NEW b \in Callbacks, call[b].at # "idle"
  PROVE  /\ call[b].flow \in Flows /\ call[b].flow # None
         /\ owner[call[b].flow] \in Creds /\ flow[call[b].flow] # "unused"
BY Constants DEF FlowsOwned

(* What a round has in hand. *)
LEMMA HandType ==
  ASSUME TypeOK, ListsOK, NEW r \in Rounds, round[r].reply # None
  PROVE  /\ round[r].doc # None /\ round[r].doc \in round[r].todo
         /\ round[r].doc \in Snapshot /\ round[r].doc.cred \in Creds
BY RoundType DEF ListsOK

LEMMA TroubleType ==
  ASSUME TypeOK, Trouble
  PROVE  troubles' \in 0..MaxTroubles /\ troubles' = troubles + 1 /\ troubles \in Nat
BY Constants DEF TypeOK, Trouble

-----------------------------------------------------------------------------
(* Authorization. *)

(* A step of a flow or callback before anything is exchanged or stored. *)
LEMMA FlowStep ==
  ASSUME IInv, UNCHANGED <<row, timer, round, live, excuse, slow>>,
         \A b \in Callbacks : call'[b].at = "store" =>
           /\ call[b].at = "store" /\ call'[b] = call[b]
           /\ owner'[call[b].flow] = owner[call[b].flow]
  PROVE  ListsOK' /\ Custody' /\ ErrorsAreSlow' /\ RowsDated' /\ InTime'
<1>1. ListsOK' /\ ErrorsAreSlow' /\ RowsDated'
  BY DEF IInv, Shape, ListsOK, ErrorsAreSlow, RowsDated
<1>2. InTime'
  BY DEF IInv, InTime, Pending
<1>3. TokenPrivate'
  BY DEF IInv, Custody, TokenPrivate
<1>4. CallsGood'
  BY DEF IInv, Custody, CallsGood
<1>5. ListedGood' /\ AnswersGood' /\ RowsGood'
  BY DEF IInv, Custody, ListedGood, AnswersGood, RowsGood, InHand
<1> QED
  BY <1>1, <1>2, <1>3, <1>4, <1>5 DEF Custody

LEMMA StartStep ==
  ASSUME IInv, NEW f \in Flows, NEW c \in Creds, StartFlow(f, c)
  PROVE  IInv'
<1>1. /\ flow[f] = "unused" /\ flow' = [flow EXCEPT ![f] = "open"]
      /\ owner' = [owner EXCEPT ![f] = c]
      /\ UNCHANGED <<row, unlinks, spent, call, timer, round, live, troubles, excuse, slow>>
  BY DEF StartFlow
<1>2. TypeOK'
  BY <1>1 DEF IInv, TypeOK
<1>3. /\ \A g \in Flows : flow'[g] = IF g = f THEN "open" ELSE flow[g]
      /\ \A g \in Flows : owner'[g] = IF g = f THEN c ELSE owner[g]
  BY <1>1 DEF IInv, TypeOK
<1>4. \A b \in Callbacks : call[b].at # "idle" =>
        call[b].flow \in Flows /\ call[b].flow # f
  BY <1>1 DEF IInv, Shape, FlowsOwned
<1>5. FlowsOwned'
  BY <1>1, <1>3, <1>4 DEF IInv, Shape, FlowsOwned
<1>6. UnlinksCounted'
  BY <1>1 DEF IInv, Shape, UnlinksCounted
<1>7. \A b \in Callbacks : call'[b].at = "store" =>
        /\ call[b].at = "store" /\ call'[b] = call[b]
        /\ owner'[call[b].flow] = owner[call[b].flow]
  BY <1>1, <1>3, <1>4
<1> QED
  BY <1>1, <1>2, <1>5, <1>6, <1>7, FlowStep DEF IInv, Shape

(* The flow's state row ages or goes. *)
LEMMA StateStep ==
  ASSUME IInv, NEW f \in Flows, StateExpires(f) \/ StatePurged(f)
  PROVE  IInv'
<1>1. /\ flow[f] # "unused" /\ \E s \in {"late", "gone"} : flow' = [flow EXCEPT ![f] = s]
      /\ UNCHANGED <<row, unlinks, owner, spent, call, timer, round, live, troubles, excuse, slow>>
  BY DEF StateExpires, StatePurged
<1>2. TypeOK'
  BY <1>1 DEF IInv, TypeOK
<1>3. \A g \in Flows : flow'[g] = "unused" <=> flow[g] = "unused"
  BY <1>1 DEF IInv, TypeOK
<1>4. FlowsOwned' /\ UnlinksCounted'
  BY <1>1, <1>3 DEF IInv, Shape, FlowsOwned, UnlinksCounted
<1> QED
  BY <1>1, <1>2, <1>4, FlowStep DEF IInv, Shape

LEMMA FindsStep ==
  ASSUME IInv, NEW b \in Callbacks, NEW f \in Flows, CallbackFinds(b, f)
  PROVE  IInv'
<1> DEFINE q == [at |-> "exchange", flow |-> f, token |-> None]
<1>1. /\ flow[f] = "open" /\ call' = [call EXCEPT ![b] = q]
      /\ UNCHANGED <<row, unlinks, flow, owner, spent, timer, round, live, troubles, excuse, slow>>
  BY DEF CallbackFinds
<1>2. q \in Call /\ q.at = "exchange" /\ q.flow = f
  BY DEF Call
<1> HIDE DEF q
<1>3. /\ call' \in [Callbacks -> Call] /\ call'[b] = q
      /\ \A a \in Callbacks \ {b} : call'[a] = call[a]
  BY <1>1, <1>2, CallMoves DEF IInv
<1>4. TypeOK'
  BY <1>1, <1>3 DEF IInv, TypeOK
<1>5. FlowsOwned' /\ UnlinksCounted'
  BY <1>1, <1>2, <1>3 DEF IInv, Shape, FlowsOwned, UnlinksCounted
<1> QED
  BY <1>1, <1>2, <1>3, <1>4, <1>5, FlowStep DEF IInv, Shape

(* The flow is over and nothing is stored. *)
LEMMA OverStep ==
  ASSUME IInv, NEW b \in Callbacks, ExchangeRefused(b) \/ ExchangeFails(b)
  PROVE  IInv'
<1>1. /\ call[b].at = "exchange" /\ flow' = [flow EXCEPT ![call[b].flow] = "gone"]
      /\ call' = [call EXCEPT ![b] = NoCall]
      /\ UNCHANGED <<row, unlinks, owner, spent, timer, round, live, excuse, slow>>
      /\ UNCHANGED troubles \/ Trouble
  BY DEF ExchangeRefused, ExchangeFails
<1>2. /\ call' \in [Callbacks -> Call] /\ call'[b] = NoCall
      /\ \A a \in Callbacks \ {b} : call'[a] = call[a]
  BY <1>1, NoRoundType, CallMoves DEF IInv
<1>3. troubles' \in 0..MaxTroubles /\ troubles \in Nat /\ troubles' >= troubles
  BY <1>1, TroubleType, Constants DEF IInv, TypeOK
<1>4. TypeOK'
  BY <1>1, <1>2, <1>3 DEF IInv, TypeOK
<1>5. \A g \in Flows : flow'[g] = "unused" => flow[g] = "unused"
  BY <1>1 DEF IInv, TypeOK
<1>6. call'[b].at = "idle"
  BY <1>2 DEF NoCall
<1>7. FlowsOwned'
  <2>1. \A g \in Flows : flow'[g] # "unused" => owner[g] \in Creds
    <3>1. owner[call[b].flow] \in Creds /\ call[b].flow \in Flows
      BY <1>1, OwnerType DEF IInv, Shape
    <3> QED
      BY <1>1, <3>1 DEF IInv, Shape, FlowsOwned, TypeOK
  <2> QED
    BY <1>1, <1>2, <1>5, <1>6, <2>1 DEF IInv, Shape, FlowsOwned
<1>8. UnlinksCounted'
  <2>1. \A c \in Creds : unlinks[c] \in Nat
    BY Constants DEF IInv, TypeOK
  <2> QED
    BY <1>1, <1>3, <2>1 DEF IInv, Shape, UnlinksCounted
<1> QED
  BY <1>1, <1>2, <1>4, <1>6, <1>7, <1>8, FlowStep DEF IInv, Shape

(* Whose tokens InUse collects. *)
LEMMA Remembered ==
  ASSUME TypeOK, FlowsOwned, NEW c \in Creds, NEW t \in Token
  PROVE  /\ row[c] # None /\ row[c].token = t => t \in InUse(c)
         /\ \A b \in Callbacks : call[b].at # "idle" /\ owner[call[b].flow] = c /\ call[b].token = t
                                   => t \in InUse(c)
         /\ \A r \in Rounds : \A d \in round[r].todo : d.cred = c /\ d.token = t => t \in InUse(c)
         /\ \A r \in Rounds : round[r].doc # None /\ round[r].doc.cred = c /\ round[r].token = t
                                => t \in InUse(c)
BY OwnerType DEF InUse

(* GitLab's next token is none that anybody remembers for the credential. *)
LEMMA MintedIsNew ==
  ASSUME TypeOK, FlowsOwned, NEW c \in Creds, NEW t \in Minted(c), t # None
  PROVE  /\ t \in Token
         /\ row[c] # None => row[c].token # t
         /\ \A b \in Callbacks : call[b].at # "idle" /\ owner[call[b].flow] = c => call[b].token # t
         /\ \A r \in Rounds : \A d \in round[r].todo : d.cred = c => d.token # t
         /\ \A r \in Rounds : round[r].doc # None /\ round[r].doc.cred = c => round[r].token # t
<1>1. t \in Token /\ t \notin InUse(c)
  BY DEF Minted
<1> QED
  BY <1>1, Remembered

(* A code is exchanged. *)
LEMMA ExchangeStep ==
  ASSUME IInv, NEW b \in Callbacks, Exchange(b)
  PROVE  IInv'
<1> DEFINE c == owner[call[b].flow]
<1>1. PICK t \in Minted(c) :
        /\ call' = [call EXCEPT ![b].token = t, ![b].at = "store"]
        /\ live' = [live EXCEPT ![c] = (@ \cup {t}) \ {None}]
  BY DEF Exchange
<1>2. /\ call[b].at = "exchange" /\ flow' = [flow EXCEPT ![call[b].flow] = "gone"]
      /\ spent' = spent \cup {call[b].flow}
      /\ UNCHANGED <<row, unlinks, owner, timer, round, troubles, excuse, slow>>
  BY DEF Exchange
<1>3. /\ call[b].flow \in Flows /\ c \in Creds /\ flow[call[b].flow] # "unused"
  BY <1>2, OwnerType DEF IInv, Shape
<1> HIDE DEF c
<1>4. t \in Token \cup {None}
  BY <1>1 DEF Minted
<1> DEFINE q == [[call[b] EXCEPT !.token = t] EXCEPT !.at = "store"]
<1>5. q \in Call /\ q.token = t /\ q.at = "store" /\ q.flow = call[b].flow
  BY <1>4, CallType DEF IInv, Call
<1>6. call' = [call EXCEPT ![b] = q]
  BY <1>1
<1> HIDE DEF q
<1>7. /\ call' \in [Callbacks -> Call] /\ call'[b] = q
      /\ \A a \in Callbacks \ {b} : call'[a] = call[a]
  BY <1>5, <1>6, CallMoves DEF IInv
<1>8. /\ live' \in [Creds -> SUBSET Token]
      /\ \A e \in Creds : live[e] \subseteq live'[e]
      /\ t # None => t \in live'[c]
  BY <1>1, <1>3, <1>4, Constants DEF IInv, TypeOK
<1>9. TypeOK'
  BY <1>2, <1>3, <1>7, <1>8 DEF IInv, TypeOK
<1>10. \A g \in Flows : flow'[g] = "unused" <=> flow[g] = "unused"
  BY <1>2, <1>3 DEF IInv, TypeOK
<1>11. FlowsOwned' /\ UnlinksCounted' /\ ListsOK'
  BY <1>2, <1>3, <1>5, <1>7, <1>10 DEF IInv, Shape, FlowsOwned, UnlinksCounted, ListsOK
<1>12. /\ t # None /\ row[c] # None => row[c].token # t
       /\ t # None => \A a \in Callbacks : call[a].at # "idle" /\ owner[call[a].flow] = c
                                            => call[a].token # t
       /\ t # None => \A r \in Rounds : \A d \in round[r].todo : d.cred = c => d.token # t
       /\ t # None => \A r \in Rounds : round[r].doc # None /\ round[r].doc.cred = c
                                         => round[r].token # t
  BY <1>1, <1>3, MintedIsNew DEF IInv, Shape
<1>13. TokenPrivate'
  <2> SUFFICES ASSUME NEW a \in Callbacks, call'[a].at = "store", call'[a].token # None
               PROVE  LET e == owner[call'[a].flow] IN
                      /\ row[e] # None => row[e].token # call'[a].token
                      /\ \A r \in Rounds : \A d \in round[r].todo : d.cred = e => d.token # call'[a].token
                      /\ \A r \in Rounds : round[r].doc # None /\ round[r].doc.cred = e =>
                           round[r].token # call'[a].token
                      /\ \A z \in Callbacks \ {a} :
                           call'[z].at = "store" /\ owner[call'[z].flow] = e => call'[z].token # call'[a].token
    BY <1>2 DEF TokenPrivate
  <2>1. CASE a = b
    BY <1>5, <1>7, <1>12, <2>1 DEF c
  <2>2. CASE a # b
    BY <1>5, <1>7, <1>12, <2>2 DEF IInv, Custody, TokenPrivate, c
  <2> QED
    BY <2>1, <2>2
<1>14. CallsGood'
  <2>1. \A a \in Callbacks : call[a].at = "store" => owner[call[a].flow] \in Creds
    BY OwnerType DEF IInv, Shape
  <2> QED
    BY <1>2, <1>5, <1>7, <1>8, <2>1 DEF IInv, Custody, CallsGood, c
<1>15. ListedGood'
  BY <1>2, <1>8, RoundType DEF IInv, Custody, ListedGood, InHand
<1>16. AnswersGood' /\ RowsGood'
  BY <1>2, <1>8 DEF IInv, Custody, AnswersGood, RowsGood, InHand
<1>17. ErrorsAreSlow' /\ RowsDated' /\ InTime'
  BY <1>2 DEF IInv, ErrorsAreSlow, RowsDated, InTime, Pending
<1> QED
  BY <1>9, <1>11, <1>13, <1>14, <1>15, <1>16, <1>17 DEF IInv, Shape, Custody

(* A credential's row gets another value, or goes; a callback may end. *)
LEMMA PutStep ==
  ASSUME IInv, NEW c \in Creds, NEW w \in Row \cup {None}, row' = [row EXCEPT ![c] = w],
         UNCHANGED <<owner, timer, round, live, excuse, slow>>,
         \A b \in Callbacks : call'[b].at = "store" => call[b].at = "store" /\ call'[b] = call[b],
         w # None =>
           /\ c \notin excuse => ~w.expired
           /\ \/ w.token = None \/ w.token \in live[c]
              \/ row[c] # None /\ w.token = row[c].token
           /\ w.token # None => w.kind = "oauth" /\ w.ttl = Lifetime
           /\ c \in Users => w.kind = "oauth"
           /\ \A b \in Callbacks : call'[b].at = "store" /\ owner[call[b].flow] = c
                                   /\ call[b].token # None => w.token # call[b].token,
         \A r \in Rounds : \A d \in round[r].todo :
           c \in Admins /\ d.cred = c => w # None /\ w.kind = "oauth"
  PROVE  row' \in [Creds -> Row \cup {None}] /\ ListsOK' /\ Custody' /\ ErrorsAreSlow' /\ RowsDated' /\ InTime'
<1>1. row' \in [Creds -> Row \cup {None}] /\ \A e \in Creds : row'[e] = IF e = c THEN w ELSE row[e]
  BY DEF IInv, TypeOK
<1>2. ListsOK' /\ ErrorsAreSlow'
  BY DEF IInv, Shape, ListsOK, ErrorsAreSlow
<1>3. \A b \in Callbacks : call[b].at = "store" => owner[call[b].flow] \in Creds
  BY OwnerType DEF IInv, Shape
<1>4. TokenPrivate'
  <2> SUFFICES ASSUME NEW b \in Callbacks, call'[b].at = "store", call'[b].token # None
               PROVE  LET e == owner[call'[b].flow] IN
                      /\ row'[e] # None => row'[e].token # call'[b].token
                      /\ \A r \in Rounds : \A d \in round[r].todo : d.cred = e => d.token # call'[b].token
                      /\ \A r \in Rounds : round[r].doc # None /\ round[r].doc.cred = e =>
                           round[r].token # call'[b].token
                      /\ \A a \in Callbacks \ {b} :
                           call'[a].at = "store" /\ owner[call'[a].flow] = e => call'[a].token # call'[b].token
    BY DEF TokenPrivate
  <2>1. call[b].at = "store" /\ call'[b] = call[b] /\ owner[call[b].flow] \in Creds
    BY <1>3
  <2>2. CASE owner[call[b].flow] = c
    BY <1>1, <2>1, <2>2 DEF IInv, Custody, TokenPrivate
  <2>3. CASE owner[call[b].flow] # c
    BY <1>1, <2>1, <2>3 DEF IInv, Custody, TokenPrivate
  <2> QED
    BY <2>2, <2>3
<1>5. CallsGood'
  BY DEF IInv, Custody, CallsGood
<1>6. ListedGood'
  BY DEF IInv, Custody, ListedGood, InHand
<1>7. AnswersGood'
  BY <1>1 DEF IInv, Custody, AnswersGood, InHand
<1>8. RowsGood'
  BY <1>1 DEF IInv, Custody, RowsGood, InHand
<1>9. RowsDated'
  <2>1. Lifetime # None
    BY Constants
  <2>2. \A r \in Rounds : \A d \in round[r].todo : d.cred \in Creds
    BY RoundType DEF IInv
  <2>3. Users \subseteq Creds
    BY DEF Creds
  <2> QED
    BY <1>1, <2>1, <2>2, <2>3 DEF IInv, RowsDated
<1>10. InTime'
  <2>1. Lifetime >= Horizon - timer
    BY Constants DEF IInv, TypeOK
  <2> QED
    BY <1>1, <2>1 DEF IInv, InTime, Pending
<1> QED
  BY <1>1, <1>2, <1>4, <1>5, <1>6, <1>7, <1>8, <1>9, <1>10 DEF Custody

(* What a row becomes when a token is written into it. *)
LEMMA WrittenType ==
  ASSUME NEW old \in Row, NEW t \in Token \cup {None}
  PROVE  /\ Written(old, t) \in Row /\ Written(old, t).ttl = Lifetime
         /\ Written(old, t).kind = old.kind /\ Written(old, t).expired = old.expired
         /\ Written(old, t).token = IF t = None THEN old.token ELSE t
<1>1. old.token \in Token \cup {None} /\ Lifetime \in Floor..Lifetime
  BY Constants DEF Row
<1>2. Renewed(old.token, t) = IF t = None THEN old.token ELSE t
  BY DEF Renewed
<1> QED
  BY <1>1, <1>2 DEF Written, Row

LEMMA StoreUserStep ==
  ASSUME IInv, NEW b \in Callbacks, StoreUser(b)
  PROVE  IInv'
<1> DEFINE u == owner[call[b].flow]
           t == call[b].token
           w == IF row[u] = None THEN Fresh(unlinks[u], t) ELSE Written(row[u], t)
<1>1. /\ call[b].at = "store" /\ u \in Users /\ row' = [row EXCEPT ![u] = w]
      /\ call' = [call EXCEPT ![b] = NoCall]
      /\ UNCHANGED <<unlinks, flow, owner, spent, timer, round, live, troubles, excuse, slow>>
  BY DEF StoreUser, putUserCredential
<1>2. u \in Creds /\ t \in Token \cup {None} /\ unlinks[u] \in Nat
  BY <1>1, CallType, Constants DEF IInv, TypeOK, Creds
<1>3. /\ w \in Row /\ w.ttl = Lifetime /\ w.kind = "oauth"
      /\ w.token = IF row[u] # None /\ t = None THEN row[u].token ELSE t
      /\ w.expired = IF row[u] # None THEN row[u].expired ELSE FALSE
  <2>1. CASE row[u] = None
    <3>1. w = Fresh(unlinks[u], t)
      BY <2>1
    <3> HIDE DEF w, t, u
    <3> QED
      BY <1>2, <2>1, <3>1, FreshType
  <2>2. CASE row[u] # None
    <3>1. row[u] \in Row /\ row[u].kind = "oauth"
      BY <1>1, <1>2, <2>2, RowType DEF IInv, RowsDated
    <3>2. w = Written(row[u], t)
      BY <2>2
    <3> HIDE DEF w, t, u
    <3> QED
      BY <1>2, <2>2, <3>1, <3>2, WrittenType
  <2> QED
    BY <2>1, <2>2
<1> HIDE DEF w
<1>4. /\ call' \in [Callbacks -> Call] /\ call'[b] = NoCall
      /\ \A a \in Callbacks \ {b} : call'[a] = call[a]
  BY <1>1, NoRoundType, CallMoves DEF IInv
<1>5. call'[b].at = "idle"
  BY <1>4 DEF NoCall
<1>6. u \notin excuse => ~w.expired
  BY <1>2, <1>3 DEF IInv, Custody, RowsGood
<1>7. w.token = None \/ w.token \in live[u] \/ (row[u] # None /\ w.token = row[u].token)
  BY <1>1, <1>3 DEF IInv, Custody, CallsGood
<1>8. \A a \in Callbacks : call'[a].at = "store" /\ owner[call[a].flow] = u
                           /\ call[a].token # None => w.token # call[a].token
  BY <1>1, <1>3, <1>4, <1>5 DEF IInv, Custody, TokenPrivate
<1>9. u \notin Admins
  BY <1>1, CredentialsAssumption
<1>10. \A a \in Callbacks : call'[a].at = "store" => call[a].at = "store" /\ call'[a] = call[a]
  BY <1>4, <1>5
<1> HIDE DEF u, t
<1>11. row' \in [Creds -> Row \cup {None}] /\ ListsOK' /\ Custody' /\ ErrorsAreSlow' /\ RowsDated' /\ InTime'
  BY <1>1, <1>2, <1>3, <1>6, <1>7, <1>8, <1>9, <1>10, PutStep
<1>12. TypeOK'
  BY <1>1, <1>4, <1>11 DEF IInv, TypeOK
<1>13. FlowsOwned' /\ UnlinksCounted'
  BY <1>1, <1>4, <1>5 DEF IInv, Shape, FlowsOwned, UnlinksCounted
<1> QED
  BY <1>11, <1>12, <1>13 DEF IInv, Shape

(* A workspace's credential is inserted, from a flow or as a pasted token. *)
LEMMA PutType ==
  ASSUME NEW kind \in {"oauth", "access_token"}, NEW t \in Token \cup {None},
         NEW life \in {Lifetime, None}
  PROVE  LET w == [kind |-> kind, id |-> 0, token |-> t, ttl |-> life, expired |-> FALSE]
         IN  w \in Row /\ w.kind = kind /\ w.token = t /\ w.ttl = life /\ ~w.expired
BY Constants DEF Row

LEMMA StoreAdminStep ==
  ASSUME IInv, NEW b \in Callbacks, StoreAdmin(b)
  PROVE  IInv'
<1> DEFINE a == owner[call[b].flow]
           t == call[b].token
           w == [kind |-> "oauth", id |-> 0, token |-> t, ttl |-> Lifetime, expired |-> FALSE]
<1>1. /\ call[b].at = "store" /\ a \in Admins /\ row' = [row EXCEPT ![a] = w]
      /\ call' = [call EXCEPT ![b] = NoCall]
      /\ UNCHANGED <<unlinks, flow, owner, spent, timer, round, live, troubles, excuse, slow>>
  BY DEF StoreAdmin, putCredential
<1>2. a \in Creds /\ t \in Token \cup {None}
  BY <1>1, CallType DEF IInv, Creds
<1>3. w \in Row /\ w.ttl = Lifetime /\ w.kind = "oauth" /\ w.token = t /\ ~w.expired
  BY <1>2, PutType
<1>4. w # None
  BY <1>3, Constants
<1> HIDE DEF w
<1>5. /\ call' \in [Callbacks -> Call] /\ call'[b] = NoCall
      /\ \A z \in Callbacks \ {b} : call'[z] = call[z]
  BY <1>1, NoRoundType, CallMoves DEF IInv
<1>6. call'[b].at = "idle"
  BY <1>5 DEF NoCall
<1>7. t = None \/ t \in live[a]
  BY <1>1 DEF IInv, Custody, CallsGood
<1>8. \A z \in Callbacks : call'[z].at = "store" /\ owner[call[z].flow] = a
                           /\ call[z].token # None => t # call[z].token
  BY <1>1, <1>5, <1>6 DEF IInv, Custody, TokenPrivate
<1>9. \A z \in Callbacks : call'[z].at = "store" => call[z].at = "store" /\ call'[z] = call[z]
  BY <1>5, <1>6
<1> HIDE DEF a, t
<1>10. row' \in [Creds -> Row \cup {None}] /\ ListsOK' /\ Custody' /\ ErrorsAreSlow' /\ RowsDated' /\ InTime'
  BY <1>1, <1>2, <1>3, <1>4, <1>7, <1>8, <1>9, PutStep
<1>11. TypeOK'
  BY <1>1, <1>5, <1>10 DEF IInv, TypeOK
<1>12. FlowsOwned' /\ UnlinksCounted'
  BY <1>1, <1>5, <1>6 DEF IInv, Shape, FlowsOwned, UnlinksCounted
<1> QED
  BY <1>10, <1>11, <1>12 DEF IInv, Shape

LEMMA AccessTokenStep ==
  ASSUME IInv, NEW a \in Admins, StoreAccessToken(a)
  PROVE  IInv'
<1> DEFINE w == [kind |-> "access_token", id |-> 0, token |-> None, ttl |-> None, expired |-> FALSE]
<1>1. /\ row[a] = None /\ row' = [row EXCEPT ![a] = w]
      /\ UNCHANGED <<unlinks, flow, owner, spent, call, timer, round, live, troubles, excuse, slow>>
  BY DEF StoreAccessToken, putCredential
<1>2. w \in Row /\ w.token = None /\ ~w.expired
  BY PutType
<1> HIDE DEF w
<1>3. a \in Creds /\ a \notin Users
  BY CredentialsAssumption DEF Creds
<1>4. \A r \in Rounds : \A d \in round[r].todo : d.cred # a
  BY <1>1 DEF IInv, RowsDated
<1>5. row' \in [Creds -> Row \cup {None}] /\ ListsOK' /\ Custody' /\ ErrorsAreSlow' /\ RowsDated' /\ InTime'
  BY <1>1, <1>2, <1>3, <1>4, PutStep
<1>6. TypeOK'
  BY <1>1, <1>5 DEF IInv, TypeOK
<1>7. FlowsOwned' /\ UnlinksCounted'
  BY <1>1 DEF IInv, Shape, FlowsOwned, UnlinksCounted
<1> QED
  BY <1>5, <1>6, <1>7 DEF IInv, Shape

LEMMA UnlinkStep ==
  ASSUME IInv, NEW u \in Users, Unlink(u)
  PROVE  IInv'
<1>1. /\ row' = [row EXCEPT ![u] = None] /\ unlinks' = [unlinks EXCEPT ![u] = @ + 1] /\ Trouble
      /\ UNCHANGED <<flow, owner, spent, call, timer, round, live, excuse, slow>>
  BY DEF Unlink
<1>2. u \in Creds /\ u \notin Admins
  BY CredentialsAssumption DEF Creds
<1>3. row' \in [Creds -> Row \cup {None}] /\ ListsOK' /\ Custody' /\ ErrorsAreSlow' /\ RowsDated' /\ InTime'
  BY <1>1, <1>2, PutStep
<1>4. troubles' \in 0..MaxTroubles /\ troubles' = troubles + 1 /\ troubles \in Nat
  BY <1>1, TroubleType DEF IInv
<1>5. \A c \in Creds : unlinks[c] \in Nat /\ unlinks[c] <= troubles
  BY Constants DEF IInv, TypeOK, Shape, UnlinksCounted
<1>6. \A c \in Creds : unlinks'[c] \in Nat /\ unlinks'[c] <= troubles'
  BY <1>1, <1>2, <1>4, <1>5 DEF IInv, TypeOK
<1>7. unlinks' \in [Creds -> 0..MaxTroubles]
  <2>1. DOMAIN unlinks' = Creds /\ unlinks' = [c \in Creds |-> unlinks'[c]]
    BY <1>1 DEF IInv, TypeOK
  <2>2. \A c \in Creds : unlinks'[c] \in 0..MaxTroubles
    BY <1>4, <1>6, Constants
  <2> QED
    BY <2>1, <2>2
<1>8. TypeOK'
  BY <1>1, <1>3, <1>4, <1>7 DEF IInv, TypeOK
<1>9. FlowsOwned' /\ UnlinksCounted'
  BY <1>1, <1>6 DEF IInv, Shape, FlowsOwned, UnlinksCounted
<1> QED
  BY <1>3, <1>8, <1>9 DEF IInv, Shape

-----------------------------------------------------------------------------
(* The refresher. *)

(* A credential on another round's list too is excused. *)
LEMMA OneHand ==
  ASSUME IInv, NEW r \in Rounds, NEW d \in round[r].todo, NEW q \in Rounds \ {r},
         InHand(q, d.cred)
  PROVE  d.cred \in excuse
<1>1. round[q].doc \in round[q].todo /\ round[q].doc.cred = d.cred
  BY DEF IInv, Shape, ListsOK, InHand
<1> QED
  BY <1>1 DEF IInv, Shape, ListsOK

(* A round is done with a document: its row is rotated, marked or left. *)
LEMMA DropStep ==
  ASSUME IInv, NEW r \in Rounds, NEW d \in round[r].todo, NEW w \in Row \cup {None},
         row' = [row EXCEPT ![d.cred] = w],
         round' \in [Rounds -> Round],
         \A q \in Rounds \ {r} : round'[q] = round[q],
         round[r].doc \in {None, d},
         round'[r].todo = round[r].todo \ {d}, round'[r].at = round[r].at,
         round'[r].doc = None, round'[r].reply = None, round'[r].token = None,
         UNCHANGED <<owner, call, live, timer, excuse, slow>>,
         w # None <=> row[d.cred] # None,
         w # None =>
           /\ d.cred \notin excuse => ~w.expired /\ w.token \in live[d.cred] \cup {None}
           /\ w.kind = row[d.cred].kind
           /\ w.token # None => w.kind = "oauth" /\ w.ttl # None
           /\ \/ w.token = row[d.cred].token
              \/ round[r].doc # None /\ w.token = round[r].token
           /\ d.cred \notin excuse /\ ~slow /\ w.token # None =>
                w.ttl >= Horizon - timer \/ (d.token = None /\ w = row[d.cred])
  PROVE  /\ row' \in [Creds -> Row \cup {None}]
         /\ ListsOK' /\ Custody' /\ ErrorsAreSlow' /\ RowsDated' /\ InTime'
<1> DEFINE c == d.cred
<1>0. c \in Creds
  BY RoundType DEF IInv
<1>1. /\ row' \in [Creds -> Row \cup {None}]
      /\ \A e \in Creds : row'[e] = IF e = c THEN w ELSE row[e]
  BY <1>0 DEF IInv, TypeOK
<1>2. ListsOK'
  BY DEF IInv, Shape, ListsOK
<1>3. ErrorsAreSlow'
  BY Constants DEF IInv, ErrorsAreSlow, Reply
<1>4. \A b \in Callbacks : call[b].at = "store" => owner[call[b].flow] \in Creds
  BY OwnerType DEF IInv, Shape
<1>5. TokenPrivate'
  <2> SUFFICES ASSUME NEW b \in Callbacks, call[b].at = "store", call[b].token # None
               PROVE  LET e == owner[call[b].flow] IN
                      /\ row'[e] # None => row'[e].token # call[b].token
                      /\ \A q \in Rounds : \A x \in round'[q].todo : x.cred = e => x.token # call[b].token
                      /\ \A q \in Rounds : round'[q].doc # None /\ round'[q].doc.cred = e =>
                           round'[q].token # call[b].token
                      /\ \A a \in Callbacks \ {b} :
                           call[a].at = "store" /\ owner[call[a].flow] = e => call[a].token # call[b].token
    BY DEF TokenPrivate
  <2>1. owner[call[b].flow] \in Creds
    BY <1>4
  <2>2. LET e == owner[call[b].flow] IN
        /\ row[e] # None => row[e].token # call[b].token
        /\ \A q \in Rounds : \A x \in round[q].todo : x.cred = e => x.token # call[b].token
        /\ \A q \in Rounds : round[q].doc # None /\ round[q].doc.cred = e =>
             round[q].token # call[b].token
        /\ \A a \in Callbacks \ {b} :
             call[a].at = "store" /\ owner[call[a].flow] = e => call[a].token # call[b].token
    BY DEF IInv, Custody, TokenPrivate
  <2> QED
    BY <1>1, <2>1, <2>2
<1>6. CallsGood'
  BY DEF IInv, Custody, CallsGood
<1>7. ASSUME NEW q \in Rounds, NEW e \in Creds
      PROVE  InHand(q, e)' <=> q # r /\ InHand(q, e)
  BY DEF InHand
<1>8. ListedGood'
  <2> SUFFICES ASSUME NEW q \in Rounds, NEW x \in round'[q].todo, x.cred \notin excuse
               PROVE  x.token \in live[x.cred] \cup {None} \/ InHand(q, x.cred)'
    BY DEF ListedGood, InHand
  <2>1. x \in round[q].todo /\ x.cred \in Creds
    BY RoundType DEF IInv
  <2>2. x.token \in live[x.cred] \cup {None} \/ InHand(q, x.cred)
    BY <2>1 DEF IInv, Custody, ListedGood
  <2>3. q = r => ~InHand(q, x.cred)
    <3>1. q = r => x # d
      OBVIOUS
    <3> QED
      BY <2>1, <3>1 DEF IInv, Shape, ListsOK, InHand
  <2> QED
    BY <1>7, <2>1, <2>2, <2>3
<1>9. AnswersGood'
  <2> SUFFICES ASSUME NEW q \in Rounds, NEW e \in Creds \ excuse
               PROVE  /\ InHand(q, e)' => IF round'[q].token # None THEN round'[q].token \in live[e]
                                          ELSE row'[e] # None => row'[e].token \in live[e] \cup {None}
                      /\ round'[q].doc # None /\ round'[q].doc.cred = e => round'[q].reply # "refused"
    BY DEF AnswersGood
  <2>1. InHand(q, e) /\ q # r => e # c
    BY OneHand
  <2> QED
    BY <1>1, <1>7, <2>1 DEF IInv, Custody, AnswersGood
<1>10. RowsGood'
  <2> SUFFICES ASSUME NEW e \in Creds \ excuse, row'[e] # None
               PROVE  /\ ~row'[e].expired
                      /\ row'[e].token \in live[e] \cup {None} \/ \E q \in Rounds : InHand(q, e)'
    BY DEF RowsGood
  <2>1. CASE e = c
    BY <1>1, <2>1
  <2>2. CASE e # c
    <3>1. ~InHand(r, e)
      BY <2>2 DEF InHand
    <3>2. /\ ~row[e].expired
          /\ row[e].token \in live[e] \cup {None} \/ \E q \in Rounds : InHand(q, e)
      BY <1>1, <2>2 DEF IInv, Custody, RowsGood
    <3> QED
      BY <1>1, <1>7, <2>2, <3>1, <3>2
  <2> QED
    BY <2>1, <2>2
<1>11. RowsDated'
  <2>1. Users \subseteq Creds
    BY DEF Creds
  <2>2. \A q \in Rounds : \A x \in round'[q].todo : x \in round[q].todo /\ x.cred \in Creds
    BY RoundType DEF IInv
  <2> QED
    BY <1>1, <2>1, <2>2 DEF IInv, RowsDated
<1>12. InTime'
  <2> SUFFICES ASSUME NEW e \in Creds \ excuse, row'[e] # None, row'[e].token # None, ~slow
               PROVE  \/ row'[e].ttl >= Horizon - timer
                      \/ row'[e].ttl >= Horizon - Period /\ Pending(e)'
    BY DEF InTime
  <2>1. Pending(e) /\ (e # c \/ d.token = None) => Pending(e)'
    <3>1. ASSUME NEW q \in Rounds, NEW x \in round[q].todo, x.cred = e, x.token # None,
                 e # c \/ d.token = None
          PROVE  x \in round'[q].todo
      BY <3>1
    <3>2. \A q \in Rounds : round'[q].at = round[q].at
      OBVIOUS
    <3> QED
      BY <3>1, <3>2 DEF Pending
  <2>2. CASE e # c \/ (d.token = None /\ w = row[c])
    <3>1. row'[e] = row[e]
      BY <1>1, <2>2
    <3> QED
      BY <2>1, <2>2, <3>1 DEF IInv, InTime
  <2>3. CASE e = c /\ ~(d.token = None /\ w = row[c])
    BY <1>1, <2>3
  <2> QED
    BY <2>2, <2>3
<1> QED
  BY <1>1, <1>2, <1>3, <1>5, <1>6, <1>8, <1>9, <1>10, <1>11, <1>12 DEF Custody

(* The row of a listed credential that no answer is in hand for is good. *)
LEMMA ListedRowGood ==
  ASSUME IInv, NEW r \in Rounds, NEW d \in round[r].todo, round[r].reply # "ok",
         d.cred \notin excuse, row[d.cred] # None
  PROVE  ~row[d.cred].expired /\ row[d.cred].token \in live[d.cred] \cup {None}
<1>1. d.cred \in Creds
  BY RoundType DEF IInv
<1>2. \A q \in Rounds : ~InHand(q, d.cred)
  BY OneHand DEF InHand
<1> QED
  BY <1>1, <1>2 DEF IInv, Custody, RowsGood

LEMMA AfterDocType ==
  ASSUME TypeOK, NEW r \in Rounds, round' = [round EXCEPT ![r] = AfterDoc(r)]
  PROVE  /\ round' \in [Rounds -> Round] /\ \A q \in Rounds \ {r} : round'[q] = round[q]
         /\ round'[r].todo = round[r].todo \ {round[r].doc} /\ round'[r].at = round[r].at
         /\ round'[r].doc = None /\ round'[r].reply = None /\ round'[r].token = None
<1>1. round[r] \in Round /\ round[r].todo \subseteq Snapshot
  BY RoundType
<1>2. LET q == AfterDoc(r) IN
      /\ q \in Round /\ q.todo = round[r].todo \ {round[r].doc} /\ q.at = round[r].at
      /\ q.doc = None /\ q.reply = None /\ q.token = None
  BY <1>1 DEF AfterDoc, Round
<1> QED
  BY <1>1, <1>2, RoundMoves

(* What the last step on a document leaves of the rest. *)
LEMMA RefreshRest ==
  ASSUME IInv, UNCHANGED <<unlinks, flow, owner, spent, call, timer, live, troubles>>
  PROVE  FlowsOwned' /\ UnlinksCounted'
BY DEF IInv, Shape, FlowsOwned, UnlinksCounted

LEMMA SkipStep ==
  ASSUME IInv, NEW r \in Rounds, NEW d \in round[r].todo, Skip(r, d)
  PROVE  IInv'
<1> DEFINE q == [round[r] EXCEPT !.todo = @ \ {d}]
<1>1. /\ round[r].doc = None /\ d.token = None /\ round' = [round EXCEPT ![r] = q]
      /\ UNCHANGED <<row, unlinks, flow, owner, spent, call, timer, live, troubles, excuse, slow>>
  BY DEF Skip
<1>2. /\ q \in Round /\ q.todo = round[r].todo \ {d} /\ q.at = round[r].at
      /\ q.doc = round[r].doc /\ q.reply = round[r].reply /\ q.token = round[r].token
  BY RoundType DEF IInv, Round
<1>3. round[r].reply = None /\ round[r].token = None
  BY <1>1 DEF IInv, Shape, ListsOK
<1> HIDE DEF q
<1>4. /\ round' \in [Rounds -> Round] /\ round'[r] = q
      /\ \A p \in Rounds \ {r} : round'[p] = round[p]
  BY <1>1, <1>2, RoundMoves DEF IInv
<1>5. d.cred \in Creds /\ row[d.cred] \in Row \cup {None}
  BY RoundType DEF IInv, TypeOK
<1>6. row' = [row EXCEPT ![d.cred] = row[d.cred]]
  BY <1>1, <1>5 DEF IInv, TypeOK
<1>7. round[r].reply # "ok"
  BY <1>3, Constants DEF Reply
<1>8. /\ ListsOK' /\ Custody' /\ ErrorsAreSlow' /\ RowsDated' /\ InTime'
  <2>1. row[d.cred] # None => /\ d.cred \notin excuse =>
                                   ~row[d.cred].expired /\ row[d.cred].token \in live[d.cred] \cup {None}
                              /\ row[d.cred].token # None =>
                                   row[d.cred].kind = "oauth" /\ row[d.cred].ttl # None
    BY <1>5, <1>7, ListedRowGood DEF IInv, RowsDated
  <2>2. /\ round'[r].todo = round[r].todo \ {d} /\ round'[r].at = round[r].at
        /\ round'[r].doc = None /\ round'[r].reply = None /\ round'[r].token = None
    BY <1>1, <1>2, <1>3, <1>4
  <2> QED
    BY <1>1, <1>4, <1>5, <1>6, <2>1, <2>2, DropStep
<1>9. TypeOK'
  BY <1>1, <1>4 DEF IInv, TypeOK
<1> QED
  BY <1>1, <1>8, <1>9, RefreshRest DEF IInv, Shape

LEMMA TryLaterStep ==
  ASSUME IInv, NEW r \in Rounds, TryLater(r)
  PROVE  IInv'
<1> DEFINE d == round[r].doc
<1>1. /\ round[r].reply = "error" /\ round' = [round EXCEPT ![r] = AfterDoc(r)]
      /\ UNCHANGED <<row, unlinks, flow, owner, spent, call, timer, live, troubles, excuse, slow>>
  BY DEF TryLater
<1>2. d # None /\ d \in round[r].todo
  BY <1>1, HandType, Constants DEF IInv, Shape, Reply
<1>3. /\ round' \in [Rounds -> Round] /\ \A q \in Rounds \ {r} : round'[q] = round[q]
      /\ round'[r].todo = round[r].todo \ {d} /\ round'[r].at = round[r].at
      /\ round'[r].doc = None /\ round'[r].reply = None /\ round'[r].token = None
  BY <1>1, AfterDocType DEF IInv
<1>4. slow
  BY <1>1 DEF IInv, ErrorsAreSlow
<1>5. d.cred \in Creds /\ row[d.cred] \in Row \cup {None}
  BY <1>2, RoundType DEF IInv, TypeOK
<1>6. row' = [row EXCEPT ![d.cred] = row[d.cred]]
  BY <1>1, <1>5 DEF IInv, TypeOK
<1>7. /\ ListsOK' /\ Custody' /\ ErrorsAreSlow' /\ RowsDated' /\ InTime'
  <2>1. row[d.cred] # None => /\ d.cred \notin excuse =>
                                   ~row[d.cred].expired /\ row[d.cred].token \in live[d.cred] \cup {None}
                              /\ row[d.cred].token # None =>
                                   row[d.cred].kind = "oauth" /\ row[d.cred].ttl # None
    BY <1>1, <1>2, <1>5, ListedRowGood DEF IInv, RowsDated
  <2> HIDE DEF d
  <2>2. round[r].doc = d
    BY DEF d
  <2> QED
    BY <1>1, <1>2, <1>3, <1>4, <1>5, <1>6, <2>1, <2>2, DropStep
<1>8. TypeOK'
  BY <1>1, <1>3 DEF IInv, TypeOK
<1> QED
  BY <1>1, <1>7, <1>8, RefreshRest DEF IInv, Shape

LEMMA RotateStep ==
  ASSUME IInv, NEW r \in Rounds, Rotate(r)
  PROVE  IInv'
<1> DEFINE d == round[r].doc
           t == round[r].token
           w == IF row[d.cred] = None THEN None ELSE Written(row[d.cred], t)
<1>1. /\ round[r].reply = "ok" /\ round' = [round EXCEPT ![r] = AfterDoc(r)]
      /\ row' = [row EXCEPT ![d.cred] = w]
      /\ UNCHANGED <<unlinks, flow, owner, spent, call, timer, live, troubles, excuse, slow>>
  <2>1. row' = [row EXCEPT ![d.cred] = w]
    BY DEF Rotate, rotate, RotatesInto
  <2> QED
    BY <2>1 DEF Rotate
<1>2. d # None /\ d \in round[r].todo
  BY <1>1, HandType, Constants DEF IInv, Shape, Reply
<1>3. /\ round' \in [Rounds -> Round] /\ \A q \in Rounds \ {r} : round'[q] = round[q]
      /\ round'[r].todo = round[r].todo \ {d} /\ round'[r].at = round[r].at
      /\ round'[r].doc = None /\ round'[r].reply = None /\ round'[r].token = None
  BY <1>1, AfterDocType DEF IInv
<1>4. d.cred \in Creds /\ row[d.cred] \in Row \cup {None} /\ t \in Token \cup {None}
  BY <1>2, RoundType DEF IInv, TypeOK
<1>5. row[d.cred] = None => w = None
  OBVIOUS
<1>6. row[d.cred] # None =>
        /\ w \in Row /\ w.ttl = Lifetime
        /\ w.kind = row[d.cred].kind /\ w.expired = row[d.cred].expired
        /\ w.token = IF t = None THEN row[d.cred].token ELSE t
  BY <1>4, WrittenType
<1>7. InHand(r, d.cred)
  BY <1>1, <1>2 DEF InHand
<1> HIDE DEF w
<1>8. d.cred \notin excuse /\ row[d.cred] # None =>
        ~w.expired /\ w.token \in live[d.cred] \cup {None}
  <2>1. d.cred \notin excuse /\ row[d.cred] # None => ~row[d.cred].expired
    BY <1>4 DEF IInv, Custody, RowsGood
  <2>2. d.cred \notin excuse => IF t # None THEN t \in live[d.cred]
                                ELSE row[d.cred] # None => row[d.cred].token \in live[d.cred] \cup {None}
    BY <1>4, <1>7 DEF IInv, Custody, AnswersGood
  <2> QED
    BY <1>6, <2>1, <2>2
<1>9. row[d.cred] # None => row[d.cred].kind = "oauth"
  BY <1>2, <1>4 DEF IInv, RowsDated, Creds
<1>10. Lifetime # None /\ Lifetime >= Horizon - timer
  BY Constants DEF IInv, TypeOK
<1>11. w \in Row \cup {None} /\ (w # None <=> row[d.cred] # None)
  BY <1>5, <1>6, Constants
<1>12. /\ row' \in [Creds -> Row \cup {None}]
       /\ ListsOK' /\ Custody' /\ ErrorsAreSlow' /\ RowsDated' /\ InTime'
  <2>1. round[r].doc = d /\ round[r].token = t
    OBVIOUS
  <2> HIDE DEF d, t
  <2> QED
    BY <1>1, <1>2, <1>3, <1>4, <1>6, <1>8, <1>9, <1>10, <1>11, <2>1, DropStep
<1>13. TypeOK'
  BY <1>1, <1>3, <1>12 DEF IInv, TypeOK
<1> QED
  BY <1>1, <1>12, <1>13, RefreshRest DEF IInv, Shape

(* Only a credential with an excuse is given up. *)
LEMMA MarkExpiredStep ==
  ASSUME IInv, NEW r \in Rounds, MarkExpired(r)
  PROVE  IInv'
<1> DEFINE d == round[r].doc
           w == IF row[d.cred] # None /\ row[d.cred].id = d.id
                THEN [row[d.cred] EXCEPT !.expired = TRUE] ELSE row[d.cred]
<1>1. /\ round[r].reply = "refused" /\ round' = [round EXCEPT ![r] = AfterDoc(r)]
      /\ row' = [row EXCEPT ![d.cred] = w]
      /\ UNCHANGED <<unlinks, flow, owner, spent, call, timer, live, troubles, excuse, slow>>
  BY DEF MarkExpired, markExpired, isPermanentRefreshError
<1>2. d # None /\ d \in round[r].todo
  BY <1>1, HandType, Constants DEF IInv, Shape, Reply
<1>3. /\ round' \in [Rounds -> Round] /\ \A q \in Rounds \ {r} : round'[q] = round[q]
      /\ round'[r].todo = round[r].todo \ {d} /\ round'[r].at = round[r].at
      /\ round'[r].doc = None /\ round'[r].reply = None /\ round'[r].token = None
  BY <1>1, AfterDocType DEF IInv
<1>4. d.cred \in Creds /\ row[d.cred] \in Row \cup {None}
  BY <1>2, RoundType DEF IInv, TypeOK
<1>5. d.cred \in excuse
  BY <1>1, <1>2, <1>4 DEF IInv, Custody, AnswersGood
<1>6. row[d.cred] # None => w \in Row /\ w.kind = row[d.cred].kind /\ w.ttl = row[d.cred].ttl
                            /\ w.token = row[d.cred].token
  BY <1>4 DEF Row
<1>7. w \in Row \cup {None} /\ (w # None <=> row[d.cred] # None)
  BY <1>6, Constants
<1>8. row[d.cred] # None /\ row[d.cred].token # None =>
        row[d.cred].kind = "oauth" /\ row[d.cred].ttl # None
  BY <1>4 DEF IInv, RowsDated
<1> HIDE DEF w
<1>9. /\ row' \in [Creds -> Row \cup {None}]
      /\ ListsOK' /\ Custody' /\ ErrorsAreSlow' /\ RowsDated' /\ InTime'
  <2>1. round[r].doc = d
    OBVIOUS
  <2> HIDE DEF d
  <2> QED
    BY <1>1, <1>2, <1>3, <1>4, <1>5, <1>6, <1>7, <1>8, <2>1, DropStep
<1>10. TypeOK'
  BY <1>1, <1>3, <1>9 DEF IInv, TypeOK
<1> QED
  BY <1>1, <1>9, <1>10, RefreshRest DEF IInv, Shape

(* A refresh fails: GitLab refuses, is not reached, or its answer is lost. *)
LEMMA FailStep ==
  ASSUME IInv, NEW r \in Rounds, NEW d \in round[r].todo,
         round' \in [Rounds -> Round],
         \A q \in Rounds \ {r} : round'[q] = round[q],
         round[r].doc \in {None, d},
         round'[r].todo = round[r].todo, round'[r].at = round[r].at,
         round'[r].doc = d, round'[r].token = None, round'[r].reply \in {"refused", "error"},
         UNCHANGED <<row, owner, call, live, timer>>,
         excuse' = excuse \/ excuse' = excuse \cup {d.cred},
         slow => slow', round'[r].reply = "error" => slow',
         d.cred \in excuse' \/ (round[r].doc = None /\ round'[r].reply = "error")
  PROVE  ListsOK' /\ Custody' /\ ErrorsAreSlow' /\ RowsDated' /\ InTime'
<1>0. d.cred \in Creds /\ d # None
  BY RoundType DEF IInv
<1>1. ListsOK'
  BY <1>0 DEF IInv, Shape, ListsOK
<1>2. ErrorsAreSlow'
  BY DEF IInv, ErrorsAreSlow
<1>3. TokenPrivate'
  <2>1. \A q \in Rounds : round'[q].todo = round[q].todo
    OBVIOUS
  <2>2. \A q \in Rounds : round'[q].token = None \/ (round'[q].token = round[q].token
                                                      /\ round'[q].doc = round[q].doc)
    OBVIOUS
  <2> SUFFICES ASSUME NEW b \in Callbacks, call[b].at = "store", call[b].token # None
               PROVE  LET e == owner[call[b].flow] IN
                      /\ row[e] # None => row[e].token # call[b].token
                      /\ \A q \in Rounds : \A x \in round'[q].todo : x.cred = e => x.token # call[b].token
                      /\ \A q \in Rounds : round'[q].doc # None /\ round'[q].doc.cred = e =>
                           round'[q].token # call[b].token
                      /\ \A a \in Callbacks \ {b} :
                           call[a].at = "store" /\ owner[call[a].flow] = e => call[a].token # call[b].token
    BY DEF TokenPrivate
  <2> QED
    BY <2>1, <2>2 DEF IInv, Custody, TokenPrivate
<1>4. CallsGood'
  BY DEF IInv, Custody, CallsGood
<1>5. ASSUME NEW q \in Rounds, NEW e \in Creds
      PROVE  InHand(q, e)' <=> q # r /\ InHand(q, e)
  BY DEF InHand
<1>6. ASSUME NEW e \in Creds, e \notin excuse'
      PROVE  ~InHand(r, e) /\ e \notin excuse
  BY <1>6 DEF InHand
<1>7. ListedGood'
  <2> SUFFICES ASSUME NEW q \in Rounds, NEW x \in round'[q].todo, x.cred \notin excuse'
               PROVE  x.token \in live[x.cred] \cup {None} \/ InHand(q, x.cred)'
    BY DEF ListedGood, InHand
  <2>1. x \in round[q].todo /\ x.cred \in Creds
    BY RoundType DEF IInv
  <2> QED
    BY <1>5, <1>6, <2>1 DEF IInv, Custody, ListedGood
<1>8. AnswersGood'
  <2> SUFFICES ASSUME NEW q \in Rounds, NEW e \in Creds \ excuse'
               PROVE  /\ InHand(q, e)' => IF round'[q].token # None THEN round'[q].token \in live[e]
                                          ELSE row[e] # None => row[e].token \in live[e] \cup {None}
                      /\ round'[q].doc # None /\ round'[q].doc.cred = e => round'[q].reply # "refused"
    BY DEF AnswersGood
  <2>1. CASE q = r
    BY <1>5, <2>1
  <2>2. CASE q # r
    BY <1>5, <1>6, <2>2 DEF IInv, Custody, AnswersGood
  <2> QED
    BY <2>1, <2>2
<1>9. RowsGood'
  <2> SUFFICES ASSUME NEW e \in Creds \ excuse', row[e] # None
               PROVE  /\ ~row[e].expired
                      /\ row[e].token \in live[e] \cup {None} \/ \E q \in Rounds : InHand(q, e)'
    BY DEF RowsGood
  <2> QED
    BY <1>5, <1>6 DEF IInv, Custody, RowsGood
<1>10. RowsDated'
  <2>1. \A q \in Rounds : round'[q].todo = round[q].todo
    OBVIOUS
  <2> QED
    BY <2>1 DEF IInv, RowsDated
<1>11. InTime'
  <2>1. \A q \in Rounds : round'[q].todo = round[q].todo /\ round'[q].at = round[q].at
    OBVIOUS
  <2>2. \A e \in Creds : Pending(e)' <=> Pending(e)
    BY <2>1 DEF Pending
  <2> QED
    BY <1>6, <2>2 DEF IInv, InTime
<1> QED
  BY <1>1, <1>2, <1>3, <1>4, <1>7, <1>8, <1>9, <1>10, <1>11 DEF Custody

(* A round takes a document up, or loses the answer it had. *)
LEMMA TakenType ==
  ASSUME TypeOK, NEW r \in Rounds, NEW d \in round[r].todo, NEW reply \in Reply,
         round' = [round EXCEPT ![r] = [[round[r] EXCEPT !.doc = d] EXCEPT !.reply = reply]]
  PROVE  /\ round' \in [Rounds -> Round] /\ \A q \in Rounds \ {r} : round'[q] = round[q]
         /\ round'[r].todo = round[r].todo /\ round'[r].at = round[r].at
         /\ round'[r].doc = d /\ round'[r].reply = reply /\ round'[r].token = round[r].token
<1> DEFINE q == [[round[r] EXCEPT !.doc = d] EXCEPT !.reply = reply]
<1>1. round[r] \in Round /\ d \in Snapshot
  BY RoundType
<1>2. /\ q \in Round /\ q.todo = round[r].todo /\ q.at = round[r].at
      /\ q.doc = d /\ q.reply = reply /\ q.token = round[r].token
  BY <1>1 DEF Round
<1> HIDE DEF q
<1>3. round' = [round EXCEPT ![r] = q]
  BY DEF q
<1> QED
  BY <1>2, <1>3, RoundMoves

LEMMA LostType ==
  ASSUME TypeOK, NEW r \in Rounds,
         round' = [round EXCEPT ![r] = [[round[r] EXCEPT !.reply = "error"] EXCEPT !.token = None]]
  PROVE  /\ round' \in [Rounds -> Round] /\ \A q \in Rounds \ {r} : round'[q] = round[q]
         /\ round'[r].todo = round[r].todo /\ round'[r].at = round[r].at
         /\ round'[r].doc = round[r].doc /\ round'[r].reply = "error" /\ round'[r].token = None
<1> DEFINE q == [[round[r] EXCEPT !.reply = "error"] EXCEPT !.token = None]
<1>1. round[r] \in Round
  BY RoundType
<1>2. /\ q \in Round /\ q.todo = round[r].todo /\ q.at = round[r].at
      /\ q.doc = round[r].doc /\ q.reply = "error" /\ q.token = None
  BY <1>1 DEF Round, Reply
<1> HIDE DEF q
<1>3. round' = [round EXCEPT ![r] = q]
  BY DEF q
<1> QED
  BY <1>2, <1>3, RoundMoves

LEMMA RefuseStep ==
  ASSUME IInv, NEW r \in Rounds, NEW d \in round[r].todo, Refuse(r, d)
  PROVE  IInv'
<1>1. /\ round[r].doc = None /\ d.token # None /\ d.token \notin live[d.cred]
      /\ round' = [round EXCEPT ![r] = [[round[r] EXCEPT !.doc = d] EXCEPT !.reply = "refused"]]
      /\ UNCHANGED <<row, unlinks, flow, owner, spent, call, timer, live, troubles, excuse, slow>>
  BY DEF Refuse
<1>2. /\ round' \in [Rounds -> Round] /\ \A q \in Rounds \ {r} : round'[q] = round[q]
      /\ round'[r].todo = round[r].todo /\ round'[r].at = round[r].at
      /\ round'[r].doc = d /\ round'[r].reply = "refused" /\ round'[r].token = round[r].token
  <2>1. "refused" \in Reply
    BY DEF Reply
  <2> QED
    BY <1>1, <2>1, TakenType DEF IInv
<1>3. round[r].token = None
  BY <1>1 DEF IInv, Shape, ListsOK
<1>4. d.cred \in excuse
  BY <1>1 DEF IInv, Custody, ListedGood, InHand
<1>5. ListsOK' /\ Custody' /\ ErrorsAreSlow' /\ RowsDated' /\ InTime'
  BY <1>1, <1>2, <1>3, <1>4, FailStep
<1>6. TypeOK'
  BY <1>1, <1>2 DEF IInv, TypeOK
<1> QED
  BY <1>1, <1>5, <1>6, RefreshRest DEF IInv, Shape

LEMMA ServerErrorStep ==
  ASSUME IInv, NEW r \in Rounds, NEW d \in round[r].todo, ServerError(r, d)
  PROVE  IInv'
<1>1. /\ round[r].doc = None /\ Trouble /\ slow' = TRUE
      /\ round' = [round EXCEPT ![r] = [[round[r] EXCEPT !.doc = d] EXCEPT !.reply = "error"]]
      /\ UNCHANGED <<row, unlinks, flow, owner, spent, call, timer, live, excuse>>
  BY DEF ServerError
<1>2. /\ round' \in [Rounds -> Round] /\ \A q \in Rounds \ {r} : round'[q] = round[q]
      /\ round'[r].todo = round[r].todo /\ round'[r].at = round[r].at
      /\ round'[r].doc = d /\ round'[r].reply = "error" /\ round'[r].token = round[r].token
  <2>1. "error" \in Reply
    BY DEF Reply
  <2> QED
    BY <1>1, <2>1, TakenType DEF IInv
<1>3. round[r].token = None
  BY <1>1 DEF IInv, Shape, ListsOK
<1>4. ListsOK' /\ Custody' /\ ErrorsAreSlow' /\ RowsDated' /\ InTime'
  BY <1>1, <1>2, <1>3, FailStep
<1>5. troubles' \in 0..MaxTroubles /\ troubles' = troubles + 1 /\ troubles \in Nat
  BY <1>1, TroubleType DEF IInv
<1>6. TypeOK'
  BY <1>1, <1>2, <1>5 DEF IInv, TypeOK
<1>7. FlowsOwned' /\ UnlinksCounted'
  <2>1. \A c \in Creds : unlinks[c] \in Nat
    BY Constants DEF IInv, TypeOK
  <2> QED
    BY <1>1, <1>5, <2>1 DEF IInv, Shape, FlowsOwned, UnlinksCounted
<1> QED
  BY <1>4, <1>6, <1>7 DEF IInv, Shape

LEMMA LoseReplyStep ==
  ASSUME IInv, NEW r \in Rounds, LoseReply(r)
  PROVE  IInv'
<1> DEFINE d == round[r].doc
<1>1. /\ round[r].reply = "ok" /\ Trouble /\ slow' = TRUE
      /\ round' = [round EXCEPT ![r] = [[round[r] EXCEPT !.reply = "error"] EXCEPT !.token = None]]
      /\ excuse' = excuse \cup {d.cred}
      /\ UNCHANGED <<row, unlinks, flow, owner, spent, call, timer, live>>
  BY DEF LoseReply
<1>2. d # None /\ d \in round[r].todo /\ d.cred \in Creds
  BY <1>1, HandType, Constants DEF IInv, Shape, Reply
<1>3. /\ round' \in [Rounds -> Round] /\ \A q \in Rounds \ {r} : round'[q] = round[q]
      /\ round'[r].todo = round[r].todo /\ round'[r].at = round[r].at
      /\ round'[r].doc = d /\ round'[r].reply = "error" /\ round'[r].token = None
  BY <1>1, LostType DEF IInv
<1>4. ListsOK' /\ Custody' /\ ErrorsAreSlow' /\ RowsDated' /\ InTime'
  <2>1. round[r].doc = d
    OBVIOUS
  <2> HIDE DEF d
  <2> QED
    BY <1>1, <1>2, <1>3, <2>1, FailStep
<1>5. troubles' \in 0..MaxTroubles /\ troubles' = troubles + 1 /\ troubles \in Nat
  BY <1>1, TroubleType DEF IInv
<1>6. TypeOK'
  BY <1>1, <1>2, <1>3, <1>5 DEF IInv, TypeOK
<1>7. FlowsOwned' /\ UnlinksCounted'
  <2>1. \A c \in Creds : unlinks[c] \in Nat
    BY Constants DEF IInv, TypeOK
  <2> QED
    BY <1>1, <1>5, <2>1 DEF IInv, Shape, FlowsOwned, UnlinksCounted
<1> QED
  BY <1>4, <1>6, <1>7 DEF IInv, Shape

(* GitLab honours a listed token. *)
LEMMA HonourStep ==
  ASSUME IInv, NEW r \in Rounds, NEW d \in round[r].todo, Honour(r, d)
  PROVE  IInv'
<1> DEFINE c == d.cred
<1>1. PICK t \in Minted(c) :
        /\ round' = [round EXCEPT ![r].doc = d, ![r].reply = "ok", ![r].token = t]
        /\ live' = [live EXCEPT ![c] = IF t = None THEN @ ELSE (@ \ {d.token}) \cup {t}]
  BY DEF Honour
<1>2. /\ round[r].doc = None /\ d.token \in live[c]
      /\ UNCHANGED <<row, unlinks, flow, owner, spent, call, timer, troubles, excuse, slow>>
  BY DEF Honour
<1>3. t \in Token \cup {None} /\ c \in Creds /\ d # None /\ "ok" \in Reply
  BY <1>1, RoundType DEF IInv, Minted, Reply
<1>4. /\ round' \in [Rounds -> Round] /\ \A q \in Rounds \ {r} : round'[q] = round[q]
      /\ round'[r].todo = round[r].todo /\ round'[r].at = round[r].at
      /\ round'[r].doc = d /\ round'[r].reply = "ok" /\ round'[r].token = t
  <2> DEFINE m == [round[r] EXCEPT !.doc = d]
             n == [m EXCEPT !.reply = "ok"]
             q == [n EXCEPT !.token = t]
  <2>1. round[r] \in Round /\ d \in Snapshot
    BY RoundType DEF IInv
  <2>2. m \in Round /\ m.todo = round[r].todo /\ m.at = round[r].at /\ m.doc = d
    BY <2>1 DEF Round
  <2>3. round' = [round EXCEPT ![r] = q]
    BY <1>1 DEF IInv, TypeOK
  <2> HIDE DEF m
  <2>4. n \in Round /\ n.todo = m.todo /\ n.at = m.at /\ n.doc = m.doc /\ n.reply = "ok"
    BY <2>2 DEF Round, Reply
  <2> HIDE DEF n
  <2>5. /\ q \in Round /\ q.todo = n.todo /\ q.at = n.at /\ q.doc = n.doc /\ q.reply = n.reply
        /\ q.token = t
    BY <1>3, <2>4 DEF Round
  <2> HIDE DEF q
  <2>6. /\ round' \in [Rounds -> Round] /\ round'[r] = q
        /\ \A p \in Rounds \ {r} : round'[p] = round[p]
    BY <2>3, <2>5, RoundMoves DEF IInv
  <2> QED
    BY <2>2, <2>4, <2>5, <2>6
<1>5. /\ live' \in [Creds -> SUBSET Token]
      /\ \A e \in Creds \ {c} : live'[e] = live[e]
      /\ t = None => live'[c] = live[c]
      /\ t # None => t \in live'[c]
      /\ \A x \in live[c] : x # d.token => x \in live'[c]
  BY <1>1, <1>3 DEF IInv, TypeOK
<1>6. /\ round[r].reply # "ok"
      /\ \A q \in Rounds : round'[q].todo = round[q].todo /\ round'[q].at = round[q].at
  BY <1>2, <1>3, <1>4, Constants DEF IInv, Shape, ListsOK
<1>7. TypeOK'
  BY <1>2, <1>4, <1>5 DEF IInv, TypeOK
<1>8. ListsOK'
  BY <1>2, <1>3, <1>4, <1>6 DEF IInv, Shape, ListsOK
<1>9. t # None => \A b \in Callbacks : call[b].at # "idle" /\ owner[call[b].flow] = c => call[b].token # t
  BY <1>1, <1>3, MintedIsNew DEF IInv, Shape
<1>10. \A b \in Callbacks : call[b].at = "store" => owner[call[b].flow] \in Creds
  BY OwnerType DEF IInv, Shape
<1> HIDE DEF c
<1>11. TokenPrivate'
  <2> SUFFICES ASSUME NEW b \in Callbacks, call[b].at = "store", call[b].token # None
               PROVE  LET e == owner[call[b].flow] IN
                      /\ row[e] # None => row[e].token # call[b].token
                      /\ \A q \in Rounds : \A x \in round'[q].todo : x.cred = e => x.token # call[b].token
                      /\ \A q \in Rounds : round'[q].doc # None /\ round'[q].doc.cred = e =>
                           round'[q].token # call[b].token
                      /\ \A a \in Callbacks \ {b} :
                           call[a].at = "store" /\ owner[call[a].flow] = e => call[a].token # call[b].token
    BY <1>2 DEF TokenPrivate
  <2>1. LET e == owner[call[b].flow] IN
        \A q \in Rounds : round'[q].doc # None /\ round'[q].doc.cred = e =>
                           round'[q].token # call[b].token
    <3>1. \A q \in Rounds \ {r} : round'[q].doc # None /\ round'[q].doc.cred = owner[call[b].flow] =>
                           round'[q].token # call[b].token
      BY <1>4 DEF IInv, Custody, TokenPrivate
    <3>2. round'[r].doc.cred = owner[call[b].flow] => round'[r].token # call[b].token
      BY <1>4, <1>9 DEF c
    <3> QED
      BY <3>1, <3>2
  <2> QED
    BY <1>6, <2>1 DEF IInv, Custody, TokenPrivate
<1>12. CallsGood'
  <2> SUFFICES ASSUME NEW b \in Callbacks, call[b].at = "store"
               PROVE  call[b].token \in live'[owner[call[b].flow]] \cup {None}
    BY <1>2 DEF CallsGood
  <2>1. call[b].token \in live[owner[call[b].flow]] \cup {None}
    BY DEF IInv, Custody, CallsGood
  <2>2. owner[call[b].flow] = c /\ call[b].token # None => call[b].token # d.token
    BY DEF IInv, Custody, TokenPrivate, c
  <2> QED
    BY <1>5, <1>10, <2>1, <2>2
<1>13. InHand(r, c)' /\ \A q \in Rounds \ {r} : \A e \in Creds : InHand(q, e)' <=> InHand(q, e)
  BY <1>3, <1>4 DEF InHand, c
<1>14. ListedGood'
  <2> SUFFICES ASSUME NEW q \in Rounds, NEW x \in round'[q].todo, x.cred \notin excuse
               PROVE  x.token \in live'[x.cred] \cup {None} \/ InHand(q, x.cred)'
    BY <1>2 DEF ListedGood, InHand
  <2>1. x \in round[q].todo /\ x.cred \in Creds
    BY <1>6, RoundType DEF IInv
  <2>2. CASE x.cred = c
    <3>1. q = r
      BY <2>1, <2>2 DEF IInv, Shape, ListsOK, c
    <3> QED
      BY <1>13, <2>2, <3>1
  <2>3. CASE x.cred # c
    <3>1. x.token \in live[x.cred] \cup {None} \/ InHand(q, x.cred)
      BY <2>1 DEF IInv, Custody, ListedGood
    <3>2. ~InHand(r, x.cred)
      BY <1>6 DEF InHand
    <3> QED
      BY <1>5, <1>13, <2>1, <2>3, <3>1, <3>2
  <2> QED
    BY <2>2, <2>3
<1>15. AnswersGood'
  <2> SUFFICES ASSUME NEW q \in Rounds, NEW e \in Creds \ excuse
               PROVE  /\ InHand(q, e)' => IF round'[q].token # None THEN round'[q].token \in live'[e]
                                          ELSE row[e] # None => row[e].token \in live'[e] \cup {None}
                      /\ round'[q].doc # None /\ round'[q].doc.cred = e => round'[q].reply # "refused"
    BY <1>2 DEF AnswersGood
  <2>1. CASE q = r
    <3>1. InHand(q, e)' => e = c
      BY <1>4, <2>1 DEF InHand, c
    <3>2. e = c /\ row[c] # None => row[c].token \in live[c] \cup {None}
      BY <1>6, ListedRowGood DEF c
    <3> QED
      BY <1>4, <1>5, <2>1, <3>1, <3>2
  <2>2. CASE q # r
    <3>1. InHand(q, e) => e # c
      BY <2>2, OneHand DEF c
    <3> QED
      BY <1>4, <1>5, <1>13, <2>2, <3>1 DEF IInv, Custody, AnswersGood
  <2> QED
    BY <2>1, <2>2
<1>16. RowsGood'
  <2> SUFFICES ASSUME NEW e \in Creds \ excuse, row[e] # None
               PROVE  /\ ~row[e].expired
                      /\ row[e].token \in live'[e] \cup {None} \/ \E q \in Rounds : InHand(q, e)'
    BY <1>2 DEF RowsGood
  <2>1. /\ ~row[e].expired
        /\ row[e].token \in live[e] \cup {None} \/ \E q \in Rounds : InHand(q, e)
    BY DEF IInv, Custody, RowsGood
  <2>2. ~InHand(r, e)
    BY <1>6 DEF InHand
  <2> QED
    BY <1>5, <1>13, <2>1, <2>2
<1>17. ErrorsAreSlow'
  BY <1>2, <1>4 DEF IInv, ErrorsAreSlow
<1>18. RowsDated'
  BY <1>2, <1>6 DEF IInv, RowsDated
<1>19. InTime'
  <2>1. \A e \in Creds : Pending(e)' <=> Pending(e)
    BY <1>6 DEF Pending
  <2> QED
    BY <1>2, <2>1 DEF IInv, InTime
<1>20. FlowsOwned' /\ UnlinksCounted'
  BY <1>2 DEF IInv, Shape, FlowsOwned, UnlinksCounted
<1> QED
  BY <1>7, <1>8, <1>11, <1>12, <1>14, <1>15, <1>16, <1>17, <1>18, <1>19, <1>20 DEF IInv, Shape, Custody

(* The entry that a list gets for a credential. *)
Entry(c) == [cred |-> c, id |-> row[c].id, token |-> row[c].token]

LEMMA EntryType ==
  ASSUME TypeOK, NEW c \in Creds, row[c] # None
  PROVE  Entry(c) \in Snapshot /\ Entry(c).cred = c /\ Entry(c).token = row[c].token
BY RowType DEF Entry, Snapshot

(* A round takes up one of the collections. *)
LEMMA ListStep ==
  ASSUME IInv, NEW r \in Rounds, round[r].todo = {}, NEW list \in {"admin", "user"},
         NEW of \in SUBSET Creds, Lists(r, list, of),
         UNCHANGED <<row, unlinks, flow, owner, spent, call, live, troubles, slow>>
  PROVE  /\ round' \in [Rounds -> Round] /\ excuse' \subseteq Creds /\ excuse \subseteq excuse'
         /\ \A q \in Rounds \ {r} : round'[q] = round[q]
         /\ round'[r].at = list
         /\ \A c \in of : Due(c) => \E x \in round'[r].todo : x.cred = c /\ x.token = row[c].token
         /\ FlowsOwned' /\ UnlinksCounted' /\ ListsOK' /\ Custody' /\ ErrorsAreSlow' /\ RowsDated'
<1> DEFINE due == {c \in of : Due(c)}
           todo == {Entry(c) : c \in due}
           q0 == [[NoRound EXCEPT !.at = list] EXCEPT !.todo = todo]
<1>1. /\ round' = [round EXCEPT ![r] = q0]
      /\ excuse' = excuse \cup {c \in due : \E q \in Rounds : \E d \in round[q].todo : d.cred = c}
  BY DEF Lists, Entry
<1>2. \A c \in due : c \in Creds /\ row[c] # None /\ row[c].kind = "oauth"
  BY DEF Due
<1>3. \A c \in due : Entry(c) \in Snapshot /\ Entry(c).cred = c /\ Entry(c).token = row[c].token
  BY <1>2, EntryType DEF IInv
<1>4. todo \subseteq Snapshot
  BY <1>3
<1>5. \A x \in todo : x.cred \in due /\ x.token = row[x.cred].token /\ x = Entry(x.cred)
  BY <1>3
<1> HIDE DEF todo
<1>6. /\ q0 \in Round /\ q0.at = list /\ q0.todo = todo
      /\ q0.doc = None /\ q0.reply = None /\ q0.token = None
  BY <1>4 DEF NoRound, Round
<1> HIDE DEF q0
<1>7. /\ round' \in [Rounds -> Round] /\ round'[r] = q0
      /\ \A q \in Rounds \ {r} : round'[q] = round[q]
  BY <1>1, <1>6, RoundMoves DEF IInv
<1>8. excuse' \subseteq Creds /\ excuse \subseteq excuse'
  BY <1>1, <1>2 DEF IInv, TypeOK
<1>9. \A c \in of : Due(c) => \E x \in round'[r].todo : x.cred = c /\ x.token = row[c].token
  BY <1>3, <1>6, <1>7 DEF todo
<1>10. FlowsOwned' /\ UnlinksCounted'
  BY DEF IInv, Shape, FlowsOwned, UnlinksCounted
<1> HIDE DEF due
<1>11. \A x \in todo : \A q \in Rounds : \A d \in round[q].todo : d.cred = x.cred => x.cred \in excuse'
  BY <1>1, <1>5
<1>12. ListsOK'
  <2>1. \A q \in Rounds : \A d, e \in round'[q].todo : d.cred = e.cred => d = e
    BY <1>5, <1>6, <1>7 DEF IInv, Shape, ListsOK
  <2>2. \A q \in Rounds : /\ round'[q].doc # None => round'[q].doc \in round'[q].todo
                          /\ round'[q].doc = None => round'[q].reply = None /\ round'[q].token = None
    BY <1>6, <1>7 DEF IInv, Shape, ListsOK
  <2>3. \A p, q \in Rounds : p # q =>
          \A d \in round'[p].todo, e \in round'[q].todo : d.cred = e.cred => d.cred \in excuse'
    BY <1>6, <1>7, <1>8, <1>11 DEF IInv, Shape, ListsOK
  <2> QED
    BY <2>1, <2>2, <2>3 DEF ListsOK
<1>13. \A q \in Rounds, e \in Creds : InHand(q, e)' <=> q # r /\ InHand(q, e)
  BY <1>6, <1>7 DEF InHand
<1>14. \A e \in Creds : ~InHand(r, e)
  BY DEF IInv, Shape, ListsOK, InHand
<1>15. TokenPrivate'
  <2> SUFFICES ASSUME NEW b \in Callbacks, call[b].at = "store", call[b].token # None
               PROVE  LET e == owner[call[b].flow] IN
                      /\ row[e] # None => row[e].token # call[b].token
                      /\ \A q \in Rounds : \A x \in round'[q].todo : x.cred = e => x.token # call[b].token
                      /\ \A q \in Rounds : round'[q].doc # None /\ round'[q].doc.cred = e =>
                           round'[q].token # call[b].token
                      /\ \A a \in Callbacks \ {b} :
                           call[a].at = "store" /\ owner[call[a].flow] = e => call[a].token # call[b].token
    BY DEF TokenPrivate
  <2>1. LET e == owner[call[b].flow] IN
        /\ row[e] # None => row[e].token # call[b].token
        /\ \A q \in Rounds : \A x \in round[q].todo : x.cred = e => x.token # call[b].token
        /\ \A q \in Rounds : round[q].doc # None /\ round[q].doc.cred = e =>
             round[q].token # call[b].token
        /\ \A a \in Callbacks \ {b} :
             call[a].at = "store" /\ owner[call[a].flow] = e => call[a].token # call[b].token
    BY DEF IInv, Custody, TokenPrivate
  <2> QED
    BY <1>2, <1>5, <1>6, <1>7, <2>1
<1>16. CallsGood'
  BY DEF IInv, Custody, CallsGood
<1>17. ListedGood'
  <2> SUFFICES ASSUME NEW q \in Rounds, NEW x \in round'[q].todo, x.cred \notin excuse'
               PROVE  x.token \in live[x.cred] \cup {None} \/ InHand(q, x.cred)'
    BY DEF ListedGood, InHand
  <2>1. CASE q = r
    <3>1. x \in todo /\ x.cred \in Creds /\ row[x.cred] # None /\ x.token = row[x.cred].token
      BY <1>2, <1>5, <1>6, <1>7, <2>1
    <3>2. \A p \in Rounds : ~InHand(p, x.cred)
      BY <1>11, <3>1 DEF IInv, Shape, ListsOK, InHand
    <3> QED
      BY <1>8, <3>1, <3>2 DEF IInv, Custody, RowsGood
  <2>2. CASE q # r
    <3>1. x \in round[q].todo /\ x.cred \in Creds
      BY <1>7, <2>2, RoundType DEF IInv
    <3> QED
      BY <1>8, <1>13, <2>2, <3>1 DEF IInv, Custody, ListedGood
  <2> QED
    BY <2>1, <2>2
<1>18. AnswersGood'
  <2> SUFFICES ASSUME NEW q \in Rounds, NEW e \in Creds \ excuse'
               PROVE  /\ InHand(q, e)' => IF round'[q].token # None THEN round'[q].token \in live[e]
                                          ELSE row[e] # None => row[e].token \in live[e] \cup {None}
                      /\ round'[q].doc # None /\ round'[q].doc.cred = e => round'[q].reply # "refused"
    BY DEF AnswersGood
  <2> QED
    BY <1>6, <1>7, <1>8, <1>13 DEF IInv, Custody, AnswersGood
<1>19. RowsGood'
  <2> SUFFICES ASSUME NEW e \in Creds \ excuse', row[e] # None
               PROVE  /\ ~row[e].expired
                      /\ row[e].token \in live[e] \cup {None} \/ \E q \in Rounds : InHand(q, e)'
    BY DEF RowsGood
  <2> QED
    BY <1>8, <1>13, <1>14 DEF IInv, Custody, RowsGood
<1>20. ErrorsAreSlow'
  BY <1>6, <1>7, Constants DEF IInv, ErrorsAreSlow, Reply
<1>21. RowsDated'
  BY <1>2, <1>5, <1>6, <1>7 DEF IInv, RowsDated
<1> QED
  BY <1>6, <1>7, <1>8, <1>9, <1>10, <1>12, <1>15, <1>16, <1>17, <1>18, <1>19, <1>20, <1>21 DEF Custody

(* A credential that is not due has time until the horizon. *)
LEMMA NotDue ==
  ASSUME IInv, NEW c \in Creds \ excuse, row[c] # None, row[c].token # None, ~slow
  PROVE  /\ row[c].ttl \in Int /\ row[c].ttl >= Horizon - Period
         /\ ~Due(c) => row[c].ttl >= Horizon
<1>1. row[c].ttl \in Int /\ row[c].ttl # None /\ row[c].kind = "oauth"
  BY RowType, Constants DEF IInv, RowsDated
<1>2. ~row[c].expired
  BY DEF IInv, Custody, RowsGood
<1>3. timer \in Nat /\ timer <= Period /\ Horizon \in Nat /\ Period \in Nat
  BY Constants DEF IInv, TypeOK
<1>4. row[c].ttl >= Horizon - Period
  BY <1>1, <1>3 DEF IInv, InTime
<1> QED
  BY <1>1, <1>2, <1>3, <1>4 DEF Due

LEMMA ListAdminStep ==
  ASSUME IInv, NEW r \in Rounds, ListAdmin(r)
  PROVE  IInv'
<1>1. /\ round[r].todo = {} /\ timer' = 0 /\ Lists(r, "admin", Admins)
      /\ UNCHANGED <<row, unlinks, flow, owner, spent, call, live, troubles, slow>>
  BY DEF ListAdmin, Idle
<1>2. Admins \in SUBSET Creds
  BY DEF Creds
<1>3. /\ round' \in [Rounds -> Round] /\ excuse' \subseteq Creds /\ excuse \subseteq excuse'
      /\ \A q \in Rounds \ {r} : round'[q] = round[q]
      /\ round'[r].at = "admin"
      /\ \A c \in Admins : Due(c) => \E x \in round'[r].todo : x.cred = c /\ x.token = row[c].token
      /\ FlowsOwned' /\ UnlinksCounted' /\ ListsOK' /\ Custody' /\ ErrorsAreSlow' /\ RowsDated'
  BY <1>1, <1>2, ListStep
<1>4. TypeOK'
  BY <1>1, <1>3, Constants DEF IInv, TypeOK
<1>5. InTime'
  <2> SUFFICES ASSUME NEW c \in Creds \ excuse', row[c] # None, row[c].token # None, ~slow
               PROVE  row[c].ttl >= Horizon - 0 \/ (row[c].ttl >= Horizon - Period /\ Pending(c)')
    BY <1>1 DEF InTime
  <2>1. row[c].ttl \in Int /\ row[c].ttl >= Horizon - Period /\ (~Due(c) => row[c].ttl >= Horizon)
    BY <1>3, NotDue
  <2>2. c \in Users \/ Due(c) => Pending(c)'
    BY <1>3 DEF Pending, Creds
  <2> QED
    BY <2>1, <2>2, Constants
<1> QED
  BY <1>3, <1>4, <1>5 DEF IInv, Shape

LEMMA ListUserStep ==
  ASSUME IInv, NEW r \in Rounds, ListUser(r)
  PROVE  IInv'
<1>1. /\ round[r].todo = {} /\ Lists(r, "user", Users)
      /\ UNCHANGED <<row, unlinks, flow, owner, spent, call, timer, live, troubles, slow>>
  BY DEF ListUser
<1>2. Users \in SUBSET Creds
  BY DEF Creds
<1>3. /\ round' \in [Rounds -> Round] /\ excuse' \subseteq Creds /\ excuse \subseteq excuse'
      /\ \A q \in Rounds \ {r} : round'[q] = round[q]
      /\ round'[r].at = "user"
      /\ \A c \in Users : Due(c) => \E x \in round'[r].todo : x.cred = c /\ x.token = row[c].token
      /\ FlowsOwned' /\ UnlinksCounted' /\ ListsOK' /\ Custody' /\ ErrorsAreSlow' /\ RowsDated'
  BY <1>1, <1>2, ListStep
<1>4. TypeOK'
  BY <1>1, <1>3 DEF IInv, TypeOK
<1>5. InTime'
  <2> SUFFICES ASSUME NEW c \in Creds \ excuse', row[c] # None, row[c].token # None, ~slow
               PROVE  row[c].ttl >= Horizon - timer \/ (row[c].ttl >= Horizon - Period /\ Pending(c)')
    BY <1>1 DEF InTime
  <2>1. row[c].ttl \in Int /\ row[c].ttl >= Horizon - Period /\ (~Due(c) => row[c].ttl >= Horizon)
    BY <1>3, NotDue
  <2>2. CASE c \in Users
    <3>1. Due(c) => Pending(c)'
      BY <1>3, <2>2 DEF Pending
    <3>2. timer \in Nat
      BY Constants DEF IInv, TypeOK
    <3> QED
      BY <2>1, <3>1, <3>2, Constants
  <2>3. CASE c \notin Users
    <3>1. Pending(c) => Pending(c)'
      BY <1>1, <1>3, <2>3 DEF Pending
    <3> QED
      BY <1>3, <3>1 DEF IInv, InTime
  <2> QED
    BY <2>2, <2>3
<1> QED
  BY <1>3, <1>4, <1>5 DEF IInv, Shape

-----------------------------------------------------------------------------
(* The world. *)

LEMMA RevokeStep ==
  ASSUME IInv, NEW c \in Creds, Revoke(c)
  PROVE  IInv'
<1>1. /\ row[c] # None /\ Trouble /\ live' = [live EXCEPT ![c] = @ \ {row[c].token}]
      /\ excuse' = excuse \cup {c}
      /\ UNCHANGED <<row, unlinks, flow, owner, spent, call, timer, round, slow>>
  BY DEF Revoke
<1>2. troubles' \in 0..MaxTroubles /\ troubles' = troubles + 1 /\ troubles \in Nat
  BY <1>1, TroubleType DEF IInv
<1>3. /\ live' \in [Creds -> SUBSET Token]
      /\ \A e \in Creds \ {c} : live'[e] = live[e]
      /\ \A x \in live[c] : x # row[c].token => x \in live'[c]
  BY <1>1 DEF IInv, TypeOK
<1>4. TypeOK'
  BY <1>1, <1>2, <1>3 DEF IInv, TypeOK
<1>5. FlowsOwned' /\ UnlinksCounted' /\ ListsOK'
  <2>1. \A e \in Creds : unlinks[e] \in Nat
    BY Constants DEF IInv, TypeOK
  <2> QED
    BY <1>1, <1>2, <2>1 DEF IInv, Shape, FlowsOwned, UnlinksCounted, ListsOK
<1>6. TokenPrivate'
  BY <1>1 DEF IInv, Custody, TokenPrivate
<1>7. CallsGood'
  <2>1. \A b \in Callbacks : call[b].at = "store" => owner[call[b].flow] \in Creds
    BY OwnerType DEF IInv, Shape
  <2>2. \A b \in Callbacks : call[b].at = "store" /\ owner[call[b].flow] = c /\ call[b].token # None
          => call[b].token # row[c].token
    BY <1>1 DEF IInv, Custody, TokenPrivate
  <2> QED
    BY <1>1, <1>3, <2>1, <2>2 DEF IInv, Custody, CallsGood
<1>8. ListedGood'
  <2>1. \A r \in Rounds : \A d \in round[r].todo : d.cred \in Creds
    BY RoundType DEF IInv
  <2> QED
    BY <1>1, <1>3, <2>1 DEF IInv, Custody, ListedGood, InHand
<1>9. AnswersGood' /\ RowsGood'
  BY <1>1, <1>3 DEF IInv, Custody, AnswersGood, RowsGood, InHand
<1>10. ErrorsAreSlow' /\ RowsDated' /\ InTime'
  BY <1>1 DEF IInv, ErrorsAreSlow, RowsDated, InTime, Pending
<1> QED
  BY <1>4, <1>5, <1>6, <1>7, <1>8, <1>9, <1>10 DEF IInv, Shape, Custody

LEMMA OlderType ==
  ASSUME NEW t \in Floor..Lifetime \cup {None}
  PROVE  /\ Older(t) \in Floor..Lifetime \cup {None}
         /\ Older(t) = None <=> t = None
         /\ t # None /\ t > Floor => Older(t) = t - 1
<1>1. CASE t = None \/ t = Floor
  BY <1>1, Constants DEF Older
<1>2. CASE t # None /\ t # Floor
  <2>1. t \in Int /\ t > Floor /\ t <= Lifetime /\ Older(t) = t - 1
    BY <1>2, Constants DEF Older
  <2>2. t - 1 \in Floor..Lifetime
    BY <2>1, Constants
  <2>3. t - 1 # None
    BY <2>2, Constants
  <2> QED
    BY <1>2, <2>1, <2>2, <2>3
<1> QED
  BY <1>1, <1>2

LEMMA TickStep ==
  ASSUME IInv, Tick
  PROVE  IInv'
<1>1. /\ timer < Period /\ timer' = timer + 1 /\ slow' = (slow \/ Busy) /\ spent' = {}
      /\ \A b \in Callbacks : call[b].at = "idle"
      /\ row' = [c \in Creds |-> IF row[c] = None THEN None ELSE [row[c] EXCEPT !.ttl = Older(@)]]
      /\ live' = [c \in Creds |-> live[c] \cap InUse(c)]
      /\ UNCHANGED <<unlinks, flow, owner, call, round, troubles, excuse>>
  BY DEF Tick
<1>2. ASSUME NEW c \in Creds, row[c] # None
      PROVE  /\ row'[c] \in Row /\ row'[c].kind = row[c].kind /\ row'[c].token = row[c].token
             /\ row'[c].expired = row[c].expired /\ row'[c].ttl = Older(row[c].ttl)
  <2>1. row[c] \in Row /\ Older(row[c].ttl) \in Floor..Lifetime \cup {None}
    BY <1>2, RowType, OlderType DEF IInv
  <2>2. row'[c] = [row[c] EXCEPT !.ttl = Older(row[c].ttl)]
    BY <1>1, <1>2
  <2> QED
    BY <2>1, <2>2 DEF Row
<1>3. \A c \in Creds : row[c] = None => row'[c] = None
  BY <1>1
<1>4. \A c \in Creds : row'[c] # None <=> row[c] # None
  BY <1>2, <1>3, Constants
<1>5. row' \in [Creds -> Row \cup {None}]
  <2>1. \A c \in Creds : row'[c] \in Row \cup {None}
    BY <1>2, <1>3
  <2> QED
    BY <1>1, <2>1
<1>6. live' \in [Creds -> SUBSET Token] /\ \A c \in Creds : live'[c] = live[c] \cap InUse(c)
  BY <1>1 DEF IInv, TypeOK
<1>7. timer \in Nat /\ timer' \in 0..Period /\ Horizon \in Nat /\ Period \in Nat
  BY <1>1, Constants DEF IInv, TypeOK
<1>8. TypeOK'
  <2>1. slow' \in BOOLEAN
    BY <1>1
  <2> QED
    BY <1>1, <1>5, <1>6, <1>7, <2>1 DEF IInv, TypeOK
<1>9. FlowsOwned' /\ UnlinksCounted' /\ ListsOK'
  BY <1>1 DEF IInv, Shape, FlowsOwned, UnlinksCounted, ListsOK
<1>10. TokenPrivate' /\ CallsGood'
  BY <1>1 DEF TokenPrivate, CallsGood
<1>11. \A r \in Rounds, e \in Creds : InHand(r, e)' <=> InHand(r, e)
  BY <1>1 DEF InHand
<1>12. ASSUME NEW c \in Creds, NEW t \in live[c],
              \/ row[c] # None /\ row[c].token = t
              \/ \E r \in Rounds : \E d \in round[r].todo : d.cred = c /\ d.token = t
              \/ \E r \in Rounds : round[r].doc # None /\ round[r].doc.cred = c /\ round[r].token = t
       PROVE  t \in live'[c]
  <2>1. t \in Token
    BY DEF IInv, TypeOK
  <2>2. t \in InUse(c)
    BY <1>12, <2>1, Remembered DEF IInv, Shape
  <2> QED
    BY <1>6, <2>2
<1>13. ListedGood'
  <2> SUFFICES ASSUME NEW r \in Rounds, NEW d \in round[r].todo, d.cred \notin excuse
               PROVE  d.token \in live'[d.cred] \cup {None} \/ InHand(r, d.cred)
    BY <1>1 DEF ListedGood, InHand
  <2>1. d.cred \in Creds
    BY RoundType DEF IInv
  <2>2. d.token \in live[d.cred] \cup {None} \/ InHand(r, d.cred)
    BY DEF IInv, Custody, ListedGood
  <2> QED
    BY <1>12, <2>1, <2>2
<1>14. ASSUME NEW c \in Creds, row[c] # None, row[c].token \in live[c] \cup {None}
       PROVE  row'[c].token \in live'[c] \cup {None}
  BY <1>2, <1>12, <1>14
<1>15. AnswersGood'
  <2> SUFFICES ASSUME NEW r \in Rounds, NEW e \in Creds \ excuse
               PROVE  /\ InHand(r, e) => IF round[r].token # None THEN round[r].token \in live'[e]
                                         ELSE row'[e] # None => row'[e].token \in live'[e] \cup {None}
                      /\ round[r].doc # None /\ round[r].doc.cred = e => round[r].reply # "refused"
    BY <1>1, <1>11 DEF AnswersGood
  <2>1. /\ InHand(r, e) => IF round[r].token # None THEN round[r].token \in live[e]
                           ELSE row[e] # None => row[e].token \in live[e] \cup {None}
        /\ round[r].doc # None /\ round[r].doc.cred = e => round[r].reply # "refused"
    BY DEF IInv, Custody, AnswersGood
  <2>2. InHand(r, e) => round[r].doc # None /\ round[r].doc.cred = e
    BY DEF InHand
  <2> QED
    BY <1>4, <1>12, <1>14, <2>1, <2>2
<1>16. RowsGood'
  <2> SUFFICES ASSUME NEW e \in Creds \ excuse, row'[e] # None
               PROVE  /\ ~row'[e].expired
                      /\ row'[e].token \in live'[e] \cup {None} \/ \E r \in Rounds : InHand(r, e)
    BY <1>1, <1>11 DEF RowsGood
  <2>1. row[e] # None
    BY <1>4
  <2>2. /\ ~row[e].expired
        /\ row[e].token \in live[e] \cup {None} \/ \E r \in Rounds : InHand(r, e)
    BY <2>1 DEF IInv, Custody, RowsGood
  <2> QED
    BY <1>2, <1>14, <2>1, <2>2
<1>17. ErrorsAreSlow'
  BY <1>1 DEF IInv, ErrorsAreSlow
<1>18. \A c \in Creds : row[c] # None => (row'[c].ttl # None <=> row[c].ttl # None)
  BY <1>2, RowType, OlderType DEF IInv
<1>19. RowsDated'
  <2>1. Users \subseteq Creds /\ \A r \in Rounds : \A d \in round[r].todo : d.cred \in Creds
    BY RoundType DEF IInv, Creds
  <2> QED
    BY <1>1, <1>2, <1>4, <1>18, <2>1 DEF IInv, RowsDated
<1>20. InTime'
  <2> SUFFICES ASSUME NEW c \in Creds \ excuse, row'[c] # None, row'[c].token # None, ~slow, ~Busy
               PROVE  row'[c].ttl >= Horizon - timer'
    BY <1>1 DEF InTime
  <2>1. row[c] # None /\ row[c].token # None /\ row'[c].ttl = Older(row[c].ttl)
    BY <1>2, <1>4
  <2>2. ~Pending(c)
    BY DEF Pending, Busy, Idle
  <2>3. row[c].ttl >= Horizon - timer
    BY <2>1, <2>2 DEF IInv, InTime
  <2>4. row[c].ttl \in Floor..Lifetime \cup {None} /\ row[c].ttl # None
    BY <2>1, RowType DEF IInv, RowsDated
  <2>5. row[c].ttl \in Int /\ row[c].ttl > Floor
    BY <1>1, <1>7, <2>3, <2>4, Constants
  <2> QED
    BY <1>1, <1>7, <2>1, <2>3, <2>4, <2>5, OlderType
<1> QED
  BY <1>8, <1>9, <1>10, <1>13, <1>15, <1>16, <1>17, <1>19, <1>20 DEF IInv, Shape, Custody

LEMMA CrashStep ==
  ASSUME IInv, Crash
  PROVE  IInv'
<1>1. /\ Trouble /\ timer' = 0 /\ slow' = TRUE
      /\ call' = [b \in Callbacks |-> NoCall] /\ round' = [r \in Rounds |-> NoRound]
      /\ excuse' = excuse \cup {round[r].doc.cred : r \in {q \in Rounds : round[q].reply = "ok"}}
      /\ UNCHANGED <<row, unlinks, flow, owner, spent, live>>
  BY DEF Crash
<1>2. troubles' \in 0..MaxTroubles /\ troubles' = troubles + 1 /\ troubles \in Nat
  BY <1>1, TroubleType DEF IInv
<1>3. /\ call' \in [Callbacks -> Call] /\ round' \in [Rounds -> Round]
      /\ \A b \in Callbacks : call'[b].at = "idle"
      /\ \A r \in Rounds : /\ round'[r].todo = {} /\ round'[r].doc = None
                           /\ round'[r].reply = None /\ round'[r].token = None
  BY <1>1, NoRoundType DEF NoRound, NoCall
<1>4. excuse' \subseteq Creds
  <2>1. \A r \in Rounds : round[r].reply = "ok" => round[r].doc.cred \in Creds
    BY HandType, Constants DEF IInv, Shape, Reply
  <2> QED
    BY <1>1, <2>1 DEF IInv, TypeOK
<1>5. TypeOK'
  BY <1>1, <1>2, <1>3, <1>4, Constants DEF IInv, TypeOK
<1>6. FlowsOwned' /\ UnlinksCounted' /\ ListsOK'
  <2>1. \A c \in Creds : unlinks[c] \in Nat
    BY Constants DEF IInv, TypeOK
  <2> QED
    BY <1>1, <1>2, <1>3, <2>1 DEF IInv, Shape, FlowsOwned, UnlinksCounted, ListsOK
<1>7. TokenPrivate' /\ CallsGood' /\ ListedGood' /\ AnswersGood'
  BY <1>3 DEF TokenPrivate, CallsGood, ListedGood, AnswersGood, InHand
<1>8. RowsGood'
  <2>1. \A r \in Rounds, e \in Creds : InHand(r, e) => e \in excuse'
    BY <1>1 DEF InHand
  <2> QED
    BY <1>1, <2>1 DEF IInv, Custody, RowsGood
<1>9. ErrorsAreSlow' /\ InTime'
  BY <1>1 DEF ErrorsAreSlow, InTime
<1>10. RowsDated'
  BY <1>1, <1>3 DEF IInv, RowsDated
<1> QED
  BY <1>5, <1>6, <1>7, <1>8, <1>9, <1>10 DEF IInv, Shape, Custody

-----------------------------------------------------------------------------
LEMMA InitInv ==
  ASSUME Init
  PROVE  IInv
<1>1. PICK linked \in SUBSET Creds :
        /\ row = [c \in Creds |-> IF c \in linked THEN Fresh(0, 1) ELSE None]
        /\ live = [c \in Creds |-> IF c \in linked THEN {1} ELSE {}]
  BY DEF Init
<1>2. /\ unlinks = [c \in Creds |-> 0] /\ flow = [f \in Flows |-> "unused"]
      /\ owner = [f \in Flows |-> None] /\ spent = {} /\ call = [b \in Callbacks |-> NoCall]
      /\ timer = 0 /\ round = [r \in Rounds |-> NoRound] /\ troubles = 0 /\ excuse = {}
      /\ slow = FALSE
  BY DEF Init
<1>3. /\ Fresh(0, 1) \in Row /\ Fresh(0, 1).token = 1 /\ Fresh(0, 1).ttl = Lifetime
      /\ Fresh(0, 1).kind = "oauth" /\ ~Fresh(0, 1).expired
  <2>1. 0 \in Nat /\ 1 \in Token \cup {None}
    BY Constants
  <2> QED
    BY <2>1, FreshType
<1>4. \A c \in Creds : row[c] # None => c \in linked /\ row[c] = Fresh(0, 1)
  BY <1>1
<1>5. /\ row \in [Creds -> Row \cup {None}] /\ live \in [Creds -> SUBSET Token]
  BY <1>1, <1>3, Constants
<1>6. TypeOK
  <2>1. unlinks \in [Creds -> 0..MaxTroubles] /\ troubles \in 0..MaxTroubles /\ timer \in 0..Period
    BY <1>2, Constants
  <2>2. flow \in [Flows -> {"unused", "open", "late", "gone"}] /\ owner \in [Flows -> Creds \cup {None}]
    BY <1>2
  <2>3. call \in [Callbacks -> Call] /\ round \in [Rounds -> Round]
    BY <1>2, NoRoundType
  <2> QED
    BY <1>2, <1>5, <2>1, <2>2, <2>3 DEF TypeOK
<1>7. /\ \A b \in Callbacks : call[b].at = "idle"
      /\ \A r \in Rounds : /\ round[r].todo = {} /\ round[r].doc = None
                           /\ round[r].reply = None /\ round[r].token = None
  BY <1>2 DEF NoRound, NoCall
<1>8. FlowsOwned /\ ListsOK
  BY <1>2, <1>7 DEF FlowsOwned, ListsOK
<1>9. UnlinksCounted
  BY <1>2 DEF UnlinksCounted
<1>10. TokenPrivate /\ CallsGood /\ ListedGood /\ AnswersGood
  BY <1>7 DEF TokenPrivate, CallsGood, ListedGood, AnswersGood, InHand
<1>11. RowsGood
  BY <1>1, <1>3, <1>4 DEF RowsGood
<1>12. ErrorsAreSlow
  BY <1>7, Constants DEF ErrorsAreSlow, Reply
<1>13. RowsDated
  <2>1. Users \subseteq Creds
    BY DEF Creds
  <2> QED
    BY <1>3, <1>4, <1>7, <2>1, Constants DEF RowsDated
<1>14. InTime
  BY <1>2, <1>3, <1>4, Constants DEF InTime
<1> QED
  BY <1>6, <1>8, <1>9, <1>10, <1>11, <1>12, <1>13, <1>14 DEF IInv, Shape, Custody

LEMMA NextInv ==
  ASSUME IInv, [Next]_vars
  PROVE  IInv'
<1>1. Users \subseteq Creds /\ Admins \subseteq Creds
  BY DEF Creds
<1>2. ASSUME NEW r \in Rounds, Refresh(r)
      PROVE  IInv'
  BY <1>2, ListUserStep, RotateStep, MarkExpiredStep, TryLaterStep, SkipStep, HonourStep, RefuseStep
     DEF Refresh
<1>3. ASSUME NEW b \in Callbacks, Callback(b)
      PROVE  IInv'
  BY <1>3, ExchangeStep, OverStep, StoreUserStep, StoreAdminStep DEF Callback
<1>4. ASSUME NEW f \in Flows, (\E u \in Users : StartUser(f, u)) \/ (\E a \in Admins : StartAdmin(f, a))
      PROVE  IInv'
  BY <1>1, <1>4, StartStep DEF StartUser, StartAdmin
<1>5. CASE UNCHANGED vars
  <2>1. UNCHANGED <<row, unlinks, flow, owner, spent, call, timer, round, live, troubles, excuse, slow>>
    BY <1>5 DEF vars
  <2>2. TypeOK' /\ FlowsOwned' /\ UnlinksCounted'
    BY <2>1 DEF IInv, TypeOK, Shape, FlowsOwned, UnlinksCounted
  <2> QED
    BY <2>1, <2>2, FlowStep DEF IInv, Shape
<1> QED
  BY <1>2, <1>3, <1>4, <1>5, StateStep, FindsStep, OverStep, AccessTokenStep, UnlinkStep,
     ListAdminStep, LoseReplyStep, ServerErrorStep, RevokeStep, TickStep, CrashStep DEF Next

LEMMA InvHolds == Spec => []IInv
<1>1. IInv /\ [Next]_vars => IInv'
  BY NextInv
<1> QED
  BY <1>1, InitInv, PTL DEF Spec

(* Every reachable state is well typed. *)
THEOREM TypesHold == Spec => []TypeOK
<1>1. IInv => TypeOK
  BY DEF IInv
<1> QED
  BY <1>1, InvHolds, PTL

(* However callbacks and rounds interleave, a stored refresh token is one that
   GitLab accepts, or its successor is in a round's hand, unless something
   outside the code intervened (auth/refresh.ts).                            *)
THEOREM TokensKept == Spec => []KeptUnlessExcused
<1>1. IInv => KeptUnlessExcused
  BY DEF IInv, Custody, RowsGood, InHand, KeptUnlessExcused
<1> QED
  BY <1>1, InvHolds, PTL

(* For every horizon, period and lifetime, no token is past its expiry for
   longer than the period exceeds the horizon, while rounds are quick.       *)
THEOREM LapsesBounded == Spec => []LapseIsBounded
<1>1. IInv => LapseIsBounded
  BY NotDue DEF LapseIsBounded
<1> QED
  BY <1>1, InvHolds, PTL

(* A user's row appears only when a callback stores it. *)
LEMMA AppearStep ==
  ASSUME IInv, [Next]_vars, NEW u \in Users, row[u] = None, row'[u] # None
  PROVE  \E b \in Callbacks : call[b].at = "store" /\ owner[call[b].flow] = u
<1>1. u \in Creds /\ u \notin Admins /\ DOMAIN row = Creds
  BY CredentialsAssumption DEF Creds, IInv, TypeOK
<1>2. row' # row
  OBVIOUS
<1>3. ASSUME NEW r \in Rounds PROVE ~Rotate(r) /\ ~MarkExpired(r)
  <2>1. Rotate(r) => row'[u] = row[u]
    BY <1>1 DEF Rotate, rotate, RotatesInto, IInv, TypeOK
  <2>2. MarkExpired(r) => row'[u] = row[u]
    BY <1>1 DEF MarkExpired, markExpired, IInv, TypeOK
  <2> QED
    BY <2>1, <2>2
<1>4. ~Tick
  BY <1>1 DEF Tick
<1>5. \A v \in Users : ~Unlink(v)
  BY <1>1 DEF Unlink, IInv, TypeOK
<1>6. \A a \in Admins : ~StoreAccessToken(a)
  BY <1>1 DEF StoreAccessToken, putCredential, IInv, TypeOK
<1>7. ASSUME NEW b \in Callbacks, StoreUser(b) \/ StoreAdmin(b)
      PROVE  call[b].at = "store" /\ owner[call[b].flow] = u
  BY <1>1, <1>7 DEF StoreUser, StoreAdmin, putUserCredential, putCredential, IInv, TypeOK
<1>8. \E b \in Callbacks : StoreUser(b) \/ StoreAdmin(b)
  BY <1>2, <1>3, <1>4, <1>5, <1>6 DEF Next, vars, StartUser, StartAdmin, StartFlow, StateExpires,
     StatePurged, CallbackFinds, Callback, Exchange, ExchangeRefused, ExchangeFails, ListAdmin,
     Refresh, ListUser, TryLater, Skip, Honour, Refuse, LoseReply, ServerError, Revoke, Crash
<1> QED
  BY <1>7, <1>8

(* A refresh in progress never brings back a credential that its user has
   deleted meanwhile (state/user-credentials.ts, auth/refresh.ts).           *)
THEOREM UnlinkedStaysUnlinked == Spec => NoResurrection
<1>1. IInv /\ [Next]_vars =>
        [\A u \in Users : row[u] = None /\ row'[u] # None =>
           \E b \in Callbacks : call[b].at = "store" /\ owner[call[b].flow] = u]_vars
  BY AppearStep
<1> QED
  BY <1>1, InvHolds, PTL DEF Spec, NoResurrection
=============================================================================
