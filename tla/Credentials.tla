---------------------------- MODULE Credentials ----------------------------
(***************************************************************************)
(* The GitLab credentials of the pod: the authorization flows that obtain  *)
(* them (src/src/http/oauth.ts for a workspace, src/src/http/user-oauth.ts *)
(* for a person, src/src/auth/access-token.ts for a pasted token), the two *)
(* collections that keep them (src/src/state/credentials.ts,               *)
(* src/src/state/user-credentials.ts) and the refresher that replaces them *)
(* before they lapse (src/src/auth/refresh.ts).                            *)
(*                                                                         *)
(* A refresh token is good for one use: GitLab answers it with the next    *)
(* one.  Between that answer and the write that stores it the only good    *)
(* token is in the pod's memory.  Every await of the code is a step.       *)
(***************************************************************************)
EXTENDS Integers, FiniteSets

CONSTANTS
  Users,          \* keys of user_credentials: workspace, person, instance
  Admins,         \* ids of documents in credentials
  Flows,          \* state tokens, one for each call of /start
  MaxCallbacks,   \* bound: /callback requests in progress at the same time
  MaxRounds,      \* bound: refresh() calls in progress at the same time
  MaxToken,       \* bound: tokens of a credential remembered at the same time
  Horizon,        \* FIVE_MINUTES_MS, in ticks
  Period,         \* intervalMs of start(), in ticks
  Lifetime,       \* expires_in, in ticks
  MaxStored,      \* bound: credentials stored or under way at the same time
  MaxTroubles,    \* bound: faults, revocations, crashes and deletions
  None

ASSUME CredentialsAssumption ==
  /\ {MaxCallbacks, MaxRounds, MaxToken, Horizon, Period, Lifetime} \subseteq Nat \ {0}
  /\ {MaxStored, MaxTroubles} \subseteq Nat
  /\ Horizon < Lifetime /\ Horizon <= Period
  /\ Users \cap Admins = {}
  /\ None \notin Users \cup Admins \cup Flows \cup Int

VARIABLES
  row,      \* the stored document of each credential, or None
  unlinks,  \* documents of a user deleted so far: the next document's _id
  flow,     \* the oauth_state row of each flow
  owner,    \* whom the flow is for
  spent,    \* flows whose code GitLab has exchanged, as long as it matters
  call,     \* each /callback request between two awaits
  timer,    \* ticks since the refresher's timer last fired
  round,    \* each refresh() between two awaits
  live,     \* the refresh tokens GitLab accepts for each credential
  troubles, \* troubles so far
  excuse,   \* history: credentials that met a fault from outside the code
  slow      \* history: a round was interrupted, hindered or outlived a tick

vars == <<row, unlinks, flow, owner, spent, call, timer, round, live, troubles, excuse, slow>>

Creds == Users \cup Admins
Callbacks == 1..MaxCallbacks
Rounds == 1..MaxRounds
Token == 1..MaxToken
Floor == Horizon - Period - 1
Row == [kind : {"oauth", "access_token"}, id : Nat, token : Token \cup {None},
        ttl : Floor..Lifetime \cup {None}, expired : BOOLEAN]
Snapshot == [cred : Creds, id : Nat, token : Token \cup {None}]
Reply == {"ok", "refused", "error"}
Call == [at : {"idle", "exchange", "store"}, flow : Flows \cup {None}, token : Token \cup {None}]
Round == [at : {"admin", "user"}, todo : SUBSET Snapshot, doc : Snapshot \cup {None},
          reply : Reply \cup {None}, token : Token \cup {None}]

ASSUME NoneAssumption == None \notin Row \cup Snapshot \cup Reply

TypeOK ==
  /\ row \in [Creds -> Row \cup {None}]
  /\ unlinks \in [Creds -> 0..MaxTroubles]
  /\ flow \in [Flows -> {"unused", "open", "late", "gone"}]
  /\ owner \in [Flows -> Creds \cup {None}]
  /\ spent \subseteq Flows
  /\ call \in [Callbacks -> Call]
  /\ timer \in 0..Period
  /\ round \in [Rounds -> Round]
  /\ live \in [Creds -> SUBSET Token]
  /\ troubles \in 0..MaxTroubles
  /\ excuse \subseteq Creds
  /\ slow \in BOOLEAN

NoCall == [at |-> "idle", flow |-> None, token |-> None]
NoRound == [at |-> "user", todo |-> {}, doc |-> None, reply |-> None, token |-> None]

Fresh(id, t) == [kind |-> "oauth", id |-> id, token |-> t, ttl |-> Lifetime, expired |-> FALSE]

(* A pod starts on the credentials that earlier flows have stored. *)
Init ==
  /\ \E linked \in {s \in SUBSET Creds : Cardinality(s) <= MaxStored} :
       /\ row = [c \in Creds |-> IF c \in linked THEN Fresh(0, 1) ELSE None]
       /\ live = [c \in Creds |-> IF c \in linked THEN {1} ELSE {}]
  /\ unlinks = [c \in Creds |-> 0]
  /\ flow = [f \in Flows |-> "unused"]
  /\ owner = [f \in Flows |-> None]
  /\ spent = {}
  /\ call = [b \in Callbacks |-> NoCall]
  /\ timer = 0
  /\ round = [r \in Rounds |-> NoRound]
  /\ troubles = 0
  /\ excuse = {}
  /\ slow = FALSE

Trouble == troubles < MaxTroubles /\ troubles' = troubles + 1

-----------------------------------------------------------------------------
(* Mutants: an answer's refresh token is not stored; a rotation inserts    *)
(* the row it does not find; the horizon is zero; a round never leaves the *)
(* document it took up.                                                    *)

Renewed_KeepsOld(old, t) == old

RotatesInto_Upsert(c) == TRUE

Due_NoHorizon(c) ==
  /\ row[c] # None
  /\ row[c].kind = "oauth" /\ row[c].ttl # None
  /\ row[c].ttl < 0 /\ ~row[c].expired

AfterDoc_Stuck(r) == [round[r] EXCEPT !.reply = None, !.token = None]

-----------------------------------------------------------------------------
(* The stores. *)

(* What find() of the two refresh functions selects. *)
Due(c) ==
  /\ row[c] # None
  /\ row[c].kind = "oauth" /\ row[c].ttl # None
  /\ row[c].ttl < Horizon /\ ~row[c].expired

(* A refresh token is written only when the answer has one. *)
Renewed(old, t) == IF t = None THEN old ELSE t

(* $set of a token: its expiry and, if the answer has one, the refresh token. *)
Written(old, t) == [old EXCEPT !.token = Renewed(old.token, t), !.ttl = Lifetime]

(* updateOne without upsert: a row that is gone stays gone. *)
RotatesInto(c) == row[c] # None

(* putUserCredential: _id on insert; `expired` is not among the fields set. *)
putUserCredential(u, t) ==
  row' = [row EXCEPT ![u] = IF @ = None THEN Fresh(unlinks[u], t) ELSE Written(@, t)]

putCredential(a, kind, t, life) ==
  row' = [row EXCEPT ![a] = [kind |-> kind, id |-> 0, token |-> t, ttl |-> life, expired |-> FALSE]]

(* rotateCredential and rotateUserCredential. *)
rotate(c, t) ==
  row' = [row EXCEPT ![c] = IF ~RotatesInto(c) THEN @
                            ELSE IF @ = None THEN Fresh(unlinks[c], t) ELSE Written(@, t)]

(* markExpired and markUserExpired go by _id. *)
markExpired(doc) ==
  row' = [row EXCEPT ![doc.cred] =
            IF @ # None /\ @.id = doc.id THEN [@ EXCEPT !.expired = TRUE] ELSE @]

-----------------------------------------------------------------------------
(* GitLab's token endpoint (external). *)

InUse(c) ==
  {t \in Token :
     \/ row[c] # None /\ row[c].token = t
     \/ \E b \in Callbacks : call[b].flow # None /\ owner[call[b].flow] = c /\ call[b].token = t
     \/ \E r \in Rounds : \E d \in round[r].todo : d.cred = c /\ d.token = t
     \/ \E r \in Rounds : round[r].doc # None /\ round[r].doc.cred = c /\ round[r].token = t}

(* A token nobody remembers.  GitLab may also send none. *)
Minted(c) == LET free == Token \ InUse(c) IN
             {None} \cup {t \in free : \A n \in free : t <= n}

-----------------------------------------------------------------------------
(* Authorization. *)

MayStore(c) ==
  Cardinality({d \in Creds : row[d] # None \/ \E f \in Flows : owner[f] = d} \cup {c}) <= MaxStored

StartFlow(f, c) ==
  /\ flow[f] = "unused"
  /\ MayStore(c)
  /\ flow' = [flow EXCEPT ![f] = "open"]
  /\ owner' = [owner EXCEPT ![f] = c]
  /\ UNCHANGED <<row, unlinks, spent, call, timer, round, live, troubles, excuse, slow>>

(* /user/oauth/start stores the state row with the cookie's identity. *)
StartUser(f, u) == StartFlow(f, u)

(* /oauth/start; its callback will insert a new document. *)
StartAdmin(f, a) ==
  /\ row[a] = None /\ \A g \in Flows : owner[g] # a
  /\ StartFlow(f, a)

(* Ten minutes pass. *)
StateExpires(f) ==
  /\ flow[f] = "open"
  /\ flow' = [flow EXCEPT ![f] = "late"]
  /\ UNCHANGED <<row, unlinks, owner, spent, call, timer, round, live, troubles, excuse, slow>>

(* /callback finds the state row of a flow in time. *)
CallbackFinds(b, f) ==
  /\ call[b].at = "idle" /\ \A a \in 1..(b - 1) : call[a].at # "idle"
  /\ flow[f] = "open"
  /\ call' = [call EXCEPT ![b] = [at |-> "exchange", flow |-> f, token |-> None]]
  /\ UNCHANGED <<row, unlinks, flow, owner, spent, timer, round, live, troubles, excuse, slow>>

(* The TTL monitor removes a row that is late, and so does the user router
   when a callback finds it; the request is refused.                       *)
StatePurged(f) ==
  /\ flow[f] = "late"
  /\ flow' = [flow EXCEPT ![f] = "gone"]
  /\ UNCHANGED <<row, unlinks, owner, spent, call, timer, round, live, troubles, excuse, slow>>

(* The state row is deleted and the code exchanged, and for a user the name
   looked up.  A code is good for one exchange.                            *)
Exchange(b) ==
  /\ call[b].at = "exchange"
  /\ flow' = [flow EXCEPT ![call[b].flow] = "gone"]
  /\ call[b].flow \notin spent
  /\ spent' = spent \cup {call[b].flow}
  /\ LET c == owner[call[b].flow] IN \E t \in Minted(c) :
       /\ call' = [call EXCEPT ![b].token = t, ![b].at = "store"]
       /\ live' = [live EXCEPT ![c] = (@ \cup {t}) \ {None}]
  /\ UNCHANGED <<row, unlinks, owner, timer, round, troubles, excuse, slow>>

ExchangeRefused(b) ==
  /\ call[b].at = "exchange"
  /\ call[b].flow \in spent
  /\ flow' = [flow EXCEPT ![call[b].flow] = "gone"]
  /\ call' = [call EXCEPT ![b] = NoCall]
  /\ UNCHANGED <<row, unlinks, owner, spent, timer, round, live, troubles, excuse, slow>>

(* GitLab is not reached, or answers the exchange or the lookup with an
   error: the flow is over and nothing is stored.                          *)
ExchangeFails(b) ==
  /\ call[b].at = "exchange"
  /\ Trouble
  /\ flow' = [flow EXCEPT ![call[b].flow] = "gone"]
  /\ call' = [call EXCEPT ![b] = NoCall]
  /\ UNCHANGED <<row, unlinks, owner, spent, timer, round, live, excuse, slow>>

StoreUser(b) ==
  /\ call[b].at = "store" /\ owner[call[b].flow] \in Users
  /\ putUserCredential(owner[call[b].flow], call[b].token)
  /\ call' = [call EXCEPT ![b] = NoCall]
  /\ UNCHANGED <<unlinks, flow, owner, spent, timer, round, live, troubles, excuse, slow>>

StoreAdmin(b) ==
  /\ call[b].at = "store" /\ owner[call[b].flow] \in Admins
  /\ putCredential(owner[call[b].flow], "oauth", call[b].token, Lifetime)
  /\ call' = [call EXCEPT ![b] = NoCall]
  /\ UNCHANGED <<unlinks, flow, owner, spent, timer, round, live, troubles, excuse, slow>>

(* A pasted token, accepted by GitLab, is stored without expiry. *)
StoreAccessToken(a) ==
  /\ row[a] = None /\ \A f \in Flows : owner[f] # a
  /\ MayStore(a)
  /\ putCredential(a, "access_token", None, None)
  /\ UNCHANGED <<unlinks, flow, owner, spent, call, timer, round, live, troubles, excuse, slow>>

Unlink(u) ==
  /\ row[u] # None
  /\ Trouble
  /\ row' = [row EXCEPT ![u] = None]
  /\ unlinks' = [unlinks EXCEPT ![u] = @ + 1]
  /\ UNCHANGED <<flow, owner, spent, call, timer, round, live, excuse, slow>>

-----------------------------------------------------------------------------
(* The refresher. *)

Idle(r) == round[r].at = "user" /\ round[r].todo = {} /\ round[r].doc = None

Busy == \E r \in Rounds : ~Idle(r)

(* find() of a round that takes up one of the collections.  A credential that
   another round has on its list too is in two hands from now on.            *)
Lists(r, list, of) ==
  LET due == {c \in of : Due(c)} IN
  /\ round' = [round EXCEPT ![r] = [NoRound EXCEPT !.at = list,
       !.todo = {[cred |-> c, id |-> row[c].id, token |-> row[c].token] : c \in due}]]
  /\ excuse' = excuse \cup {c \in due : \E q \in Rounds : \E d \in round[q].todo : d.cred = c}

(* setInterval does not wait for the previous refresh(), which begins with
   refreshAdminCredentials.                                                *)
ListAdmin(r) ==
  /\ timer = Period
  /\ Idle(r) /\ \A q \in 1..(r - 1) : ~Idle(q)
  /\ timer' = 0
  /\ Lists(r, "admin", Admins)
  /\ UNCHANGED <<row, unlinks, flow, owner, spent, call, live, troubles, slow>>

(* Then come the users. *)
ListUser(r) ==
  /\ round[r].at = "admin" /\ round[r].todo = {}
  /\ Lists(r, "user", Users)
  /\ UNCHANGED <<row, unlinks, flow, owner, spent, call, timer, live, troubles, slow>>

AfterDoc(r) == [round[r] EXCEPT !.todo = @ \ {round[r].doc}, !.doc = None,
                                !.reply = None, !.token = None]

(* A document without a refresh token is passed over. *)
Skip(r, d) ==
  /\ round[r].doc = None
  /\ d.token = None
  /\ round' = [round EXCEPT ![r].todo = @ \ {d}]
  /\ UNCHANGED <<row, unlinks, flow, owner, spent, call, timer, live, troubles, excuse, slow>>

(* The next document's token is sent to GitLab, which honours a live one and
   sends its successor, or no new one.                                       *)
Honour(r, d) ==
  /\ round[r].doc = None
  /\ d.token \in live[d.cred]
  /\ \E t \in Minted(d.cred) :
       /\ round' = [round EXCEPT ![r].doc = d, ![r].reply = "ok", ![r].token = t]
       /\ live' = [live EXCEPT ![d.cred] = IF t = None THEN @ ELSE (@ \ {d.token}) \cup {t}]
  /\ UNCHANGED <<row, unlinks, flow, owner, spent, call, timer, troubles, excuse, slow>>

(* 401, or 400 with invalid_grant; and, without asking GitLab, a token that
   does not decrypt or an instance that is no longer allowed.               *)
Refuse(r, d) ==
  /\ round[r].doc = None
  /\ d.token # None /\ d.token \notin live[d.cred]
  /\ round' = [round EXCEPT ![r].doc = d, ![r].reply = "refused"]
  /\ UNCHANGED <<row, unlinks, flow, owner, spent, call, timer, live, troubles, excuse, slow>>

(* A 5xx, or no connection: the token was not used. *)
ServerError(r, d) ==
  /\ round[r].doc = None
  /\ d.token # None
  /\ Trouble
  /\ round' = [round EXCEPT ![r].doc = d, ![r].reply = "error"]
  /\ slow' = TRUE
  /\ UNCHANGED <<row, unlinks, flow, owner, spent, call, timer, live, excuse>>

(* The connection breaks after GitLab has honoured the token. *)
LoseReply(r) ==
  /\ round[r].reply = "ok"
  /\ Trouble
  /\ round' = [round EXCEPT ![r].reply = "error", ![r].token = None]
  /\ excuse' = excuse \cup {round[r].doc.cred}
  /\ slow' = TRUE
  /\ UNCHANGED <<row, unlinks, flow, owner, spent, call, timer, live>>

isPermanentRefreshError(reply) == reply = "refused"

Rotate(r) ==
  /\ round[r].reply = "ok"
  /\ rotate(round[r].doc.cred, round[r].token)
  /\ round' = [round EXCEPT ![r] = AfterDoc(r)]
  /\ UNCHANGED <<unlinks, flow, owner, spent, call, timer, live, troubles, excuse, slow>>

MarkExpired(r) ==
  /\ round[r].reply # None /\ isPermanentRefreshError(round[r].reply)
  /\ markExpired(round[r].doc)
  /\ round' = [round EXCEPT ![r] = AfterDoc(r)]
  /\ UNCHANGED <<unlinks, flow, owner, spent, call, timer, live, troubles, excuse, slow>>

(* Transient: the next round will try again. *)
TryLater(r) ==
  /\ round[r].reply = "error" /\ ~isPermanentRefreshError("error")
  /\ round' = [round EXCEPT ![r] = AfterDoc(r)]
  /\ UNCHANGED <<row, unlinks, flow, owner, spent, call, timer, live, troubles, excuse, slow>>

-----------------------------------------------------------------------------
(* The world. *)

(* The grant is revoked on GitLab, or the stored token is made unusable by a
   change of the encryption key or of the instances allowed.                *)
Revoke(c) ==
  /\ row[c] # None /\ row[c].token \in live[c]
  /\ Trouble
  /\ live' = [live EXCEPT ![c] = @ \ {row[c].token}]
  /\ excuse' = excuse \cup {c}
  /\ UNCHANGED <<row, unlinks, flow, owner, spent, call, timer, round, slow>>

Older(t) == IF t = None \/ t = Floor THEN t ELSE t - 1

(* A tick, longer than a request to the pod takes; a round may take longer.
   Tokens that nobody remembers and codes that no request can present any
   more are forgotten.                                                      *)
Tick ==
  /\ timer < Period
  /\ \A b \in Callbacks : call[b].at = "idle"
  /\ timer' = timer + 1
  /\ row' = [c \in Creds |-> IF row[c] = None THEN None ELSE [row[c] EXCEPT !.ttl = Older(@)]]
  /\ slow' = (slow \/ Busy)
  /\ live' = [c \in Creds |-> live[c] \cap InUse(c)]
  /\ spent' = {}
  /\ UNCHANGED <<unlinks, flow, owner, call, round, troubles, excuse>>

(* The pod dies; the next one starts its timer anew. *)
Crash ==
  /\ Trouble
  /\ call' = [b \in Callbacks |-> NoCall]
  /\ round' = [r \in Rounds |-> NoRound]
  /\ timer' = 0
  /\ excuse' = excuse \cup {round[r].doc.cred : r \in {q \in Rounds : round[q].reply = "ok"}}
  /\ slow' = TRUE
  /\ UNCHANGED <<row, unlinks, flow, owner, spent, live>>

Callback(b) == Exchange(b) \/ ExchangeRefused(b) \/ StoreUser(b) \/ StoreAdmin(b)

Refresh(r) ==
  \/ ListUser(r) \/ Rotate(r) \/ MarkExpired(r) \/ TryLater(r)
  \/ \E d \in round[r].todo : Skip(r, d) \/ Honour(r, d) \/ Refuse(r, d)

Next ==
  \/ \E f \in Flows, u \in Users : StartUser(f, u)
  \/ \E f \in Flows, a \in Admins : StartAdmin(f, a)
  \/ \E f \in Flows : StateExpires(f) \/ StatePurged(f)
  \/ \E b \in Callbacks, f \in Flows : CallbackFinds(b, f)
  \/ \E b \in Callbacks : Callback(b) \/ ExchangeFails(b)
  \/ \E a \in Admins : StoreAccessToken(a)
  \/ \E u \in Users : Unlink(u)
  \/ \E r \in Rounds : ListAdmin(r) \/ Refresh(r) \/ LoseReply(r)
  \/ \E r \in Rounds : \E d \in round[r].todo : ServerError(r, d)
  \/ \E c \in Creds : Revoke(c)
  \/ Tick
  \/ Crash

Spec == Init /\ [][Next]_vars

(* Time passes, the timer fires, requests are answered. *)
FairSpec ==
  /\ Spec
  /\ WF_vars(Tick)
  /\ WF_vars(\E r \in Rounds : ListAdmin(r))
  /\ WF_vars(\E r \in Rounds : Refresh(r))
  /\ WF_vars(\E b \in Callbacks : Callback(b))

-----------------------------------------------------------------------------
(* Properties. *)

(* A stored refresh token is one GitLab accepts, and its row is not given
   up, unless something outside the code intervened: a revocation, a lost
   answer, a crash with the answer in hand, two overlapping rounds.  While a
   round holds GitLab's answer the good token is the one in its hand.
   refresh.ts:127-195, 249-311.                                             *)
KeptUnlessExcused ==
  \A c \in Creds \ excuse :
    row[c] # None =>
      /\ ~row[c].expired
      /\ \/ row[c].token \in live[c] \cup {None}
         \/ \E r \in Rounds : /\ round[r].reply = "ok"
                              /\ round[r].doc.cred = c

(* A refresh in progress never brings back a credential that its user has
   deleted meanwhile: rows appear only when a callback stores one.
   user-credentials.ts:155, refresh.ts:182-194.                             *)
NoResurrection ==
  [][\A u \in Users :
       row[u] = None /\ row'[u] # None =>
         \E b \in Callbacks : call[b].at = "store" /\ owner[call[b].flow] = u]_vars

(* How stale a token may get: the horizon is shorter than the timer's period,
   so a token may lapse before its refresh, but, while rounds are quick and
   undisturbed, never for longer than the difference.  refresh.ts:48, 76, 204. *)
LapseIsBounded ==
  \A c \in Creds \ excuse :
    row[c] # None /\ row[c].token # None /\ ~slow =>
      row[c].ttl >= Horizon - Period

(* A credential that is due is eventually refreshed, given up or deleted,
   whatever happened to the other documents of the round.
   refresh.ts:83-197, 210-311.                                              *)
DueIsSettled ==
  \A c \in Creds :
    Due(c) /\ row[c].token # None ~> (row[c] = None \/ row[c].token = None \/ ~Due(c))
=============================================================================
