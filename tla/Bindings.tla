------------------------------ MODULE Bindings ------------------------------
(***************************************************************************)
(* The bindings of one GitLab project: the admin routes that create,       *)
(* rotate, re-register, pause and delete them                              *)
(* (src/src/http/binding.ts), the service that keeps the project's webhook *)
(* in step (src/src/sync/binding-lifecycle.ts), the collection             *)
(* (src/src/state/bindings.ts) and the route that authenticates and sorts  *)
(* the deliveries (src/src/http/webhook.ts).                               *)
(*                                                                         *)
(* Three records must agree and no transaction covers them: the binding    *)
(* document, the webhook secret in `credentials' and the webhook at        *)
(* GitLab.  Every await is a step, so two requests may interleave.         *)
(***************************************************************************)
EXTENDS Integers, FiniteSets

CONSTANTS
  Bindings,       \* the _ids that documents may get
  MaxRequests,    \* bound: admin requests in progress at the same time
  MaxDeliveries,  \* bound: webhook deliveries in progress at the same time
  MaxHooks,       \* bound: webhook ids remembered at the same time
  MaxSecrets,     \* bound: secrets remembered at the same time
  MaxTroubles,    \* bound: failed calls, crashes and edits made at GitLab
  MaxOverlaps,    \* bound: requests that begin while another is in progress
  None

ASSUME BindingsAssumption ==
  /\ {MaxRequests, MaxDeliveries, MaxHooks, MaxSecrets} \subseteq Nat \ {0}
  /\ {MaxTroubles, MaxOverlaps} \subseteq Nat
  /\ None \notin Bindings \cup Nat

VARIABLES
  doc,       \* each binding's document: whether it is stored, and its fields
  secret,    \* the plaintext its webhookSecretRef leads to, or None
  hook,      \* the project's webhooks at GitLab, by id, or None
  request,   \* each admin request between two awaits
  delivery,  \* each webhook request between two awaits
  troubles,  \* troubles so far
  overlaps   \* history: requests begun while another was in progress

vars == <<doc, secret, hook, request, delivery, troubles, overlaps>>

Hooks == 1..MaxHooks
Secrets == 1..MaxSecrets
Doc == [life : {"unborn", "stored", "gone"}, hook : Hooks \cup {None}, registered : BOOLEAN, disabled : BOOLEAN]
NewDoc(life) == [life |-> life, hook |-> None, registered |-> FALSE, disabled |-> FALSE]
Ops == {"create", "rotate", "reRegister", "delete", "patch"}
Request == [op : Ops, at : {"insert", "lookup", "register", "update", "credential", "deregister",
                            "store", "failed", "secret", "doc", "patch"},
            b : Bindings, hook : Hooks \cup {None}, registered : BOOLEAN,
            secret : Secrets \cup {None}, status : {"none", "rejected", "denied", "down"}]
Delivery == [at : {"binding", "secret", "enqueued"}, b : Bindings, token : Secrets \cup {None},
             paused : BOOLEAN, current : BOOLEAN]
Webhook == [b : Bindings, token : Secrets]

ASSUME NoneAssumption == None \notin Request \cup Delivery \cup Webhook

TypeOK ==
  /\ doc \in [Bindings -> Doc]
  /\ secret \in [Bindings -> Secrets \cup {None}]
  /\ hook \in [Hooks -> Webhook \cup {None}]
  /\ request \in [1..MaxRequests -> Request \cup {None}]
  /\ delivery \in [1..MaxDeliveries -> Delivery \cup {None}]
  /\ troubles \in 0..MaxTroubles
  /\ overlaps \in 0..MaxOverlaps

Init ==
  /\ doc = [b \in Bindings |-> NewDoc("unborn")]
  /\ secret = [b \in Bindings |-> None]
  /\ hook = [h \in Hooks |-> None]
  /\ request = [r \in 1..MaxRequests |-> None]
  /\ delivery = [d \in 1..MaxDeliveries |-> None]
  /\ troubles = 0
  /\ overlaps = 0

Trouble == troubles < MaxTroubles /\ troubles' = troubles + 1

Stored(b) == doc[b].life = "stored"
Running == {r \in DOMAIN request : request[r] # None}
Waiting == {d \in DOMAIN delivery : delivery[d] # None /\ delivery[d].at # "enqueued"}

-----------------------------------------------------------------------------
(* Mutants: a document is inserted where an update finds none; a refused    *)
(* rotation leaves the binding marked as registered; a delivery skips the   *)
(* pause or the token; a secret is rotated at GitLab only; a deletion       *)
(* leaves the webhook behind.                                               *)

Updates_Upsert(b) == doc[b].life # "unborn"

Unset_KeepsRegistered(f) == [f EXCEPT !.hook = None]

MayEnqueue_Paused(b) == TRUE

Authorized_Any(d) == secret[delivery[d].b] # None

AfterRotation_Dropped(s, t) == s

FirstStep_SkipsHook(b) == "secret"

-----------------------------------------------------------------------------
(* The collection. *)

(* updateOne without upsert: a document that is gone stays gone. *)
Updates(b) == Stored(b)

updateBinding(b, fields) ==
  doc' = [doc EXCEPT ![b] = IF Updates(b) THEN [fields EXCEPT !.life = "stored"] ELSE @]

(* The unique index over workspace and project admits one document. *)
IndexAdmits == \A b \in Bindings : ~Stored(b)

(* Names are reused once nobody remembers them. *)
HookFree(h) ==
  /\ hook[h] = None
  /\ \A b \in Bindings : Stored(b) => doc[b].hook # h
  /\ \A r \in Running : request[r].hook # h
SecretFree(s) ==
  /\ \A b \in Bindings : secret[b] # s
  /\ \A h \in Hooks : hook[h] # None => hook[h].token # s
  /\ \A r \in Running : request[r].secret # s
  /\ \A d \in DOMAIN delivery : delivery[d] # None => delivery[d].token # s
NewSecret(s) == SecretFree(s) /\ \A t \in 1..(s - 1) : ~SecretFree(t)
NewHook(h) == HookFree(h) /\ \A g \in 1..(h - 1) : ~HookFree(g)

-----------------------------------------------------------------------------
(* A request's life. *)

Go(r, to) == request' = [request EXCEPT ![r].at = to]

Answer(r) == request' = [request EXCEPT ![r] = None]

(* Requests are numbered by their first free slot. *)
Idle(r) == r \in DOMAIN request \ Running /\ \A q \in 1..(r - 1) : q \in Running

Begin(r, op, at, b, s) ==
  /\ Idle(r)
  /\ Running # {} => overlaps < MaxOverlaps
  /\ overlaps' = IF Running # {} THEN overlaps + 1 ELSE overlaps
  /\ request' = [request EXCEPT ![r] =
       [op |-> op, at |-> at, b |-> b, secret |-> s, status |-> "none",
        hook |-> IF Stored(b) THEN doc[b].hook ELSE None,
        registered |-> Stored(b) /\ doc[b].registered]]

(* An exception that leaves the pod: the two bare async routes have nobody to
   catch it, and Node ends the process; asyncHandler answers 500 for the rest. *)
Bare == {"rotate", "delete"}
Down ==
  /\ request' = [r \in DOMAIN request |-> None]
  /\ delivery' = [d \in DOMAIN delivery |-> None]
Throw(r) == IF request[r].op \in Bare THEN Down ELSE Answer(r) /\ UNCHANGED delivery

-----------------------------------------------------------------------------
(* POST /api/v1/bindings: the secret, the document, then onBindingCreate. *)

Create(r, b) ==
  /\ doc[b].life = "unborn" /\ secret[b] = None
  /\ \A q \in Running : request[q].op # "create" \/ request[q].b # b
  /\ \E s \in Secrets :
       /\ NewSecret(s)
       /\ secret' = [secret EXCEPT ![b] = s]
       /\ Begin(r, "create", "insert", b, None)
  /\ UNCHANGED <<doc, hook, delivery, troubles>>

(* insertOne fails on the index, or because the store does: the secret stays. *)
Insert(r) ==
  /\ r \in Running /\ request[r].at = "insert"
  /\ \/ /\ IndexAdmits
        /\ doc' = [doc EXCEPT ![request[r].b] = NewDoc("stored")]
        /\ Go(r, "lookup")
        /\ UNCHANGED troubles
     \/ /\ IF IndexAdmits THEN Trouble ELSE UNCHANGED troubles
        /\ Answer(r)
        /\ UNCHANGED doc
  /\ UNCHANGED <<secret, hook, delivery, overlaps>>

(* getCredential, then the client factory. *)
Lookup(r) ==
  /\ r \in Running /\ request[r].at = "lookup"
  /\ IF secret[request[r].b] = None
     THEN Answer(r) /\ UNCHANGED troubles
     ELSE \/ /\ request' = [request EXCEPT ![r].at = IF request[r].hook = None THEN "register" ELSE "update",
                                           ![r].secret = secret[request[r].b]]
             /\ UNCHANGED troubles
          \/ Answer(r) /\ Trouble
  /\ UNCHANGED <<doc, secret, hook, delivery, overlaps>>

-----------------------------------------------------------------------------
(* The calls to GitLab.  The adapter turns 401, 403 and 404 into AuthError *)
(* and NotFoundError, which are no GitLabApiError: like a 5xx, a network   *)
(* error or an exhausted rate limit they are thrown on.                    *)

(* The token that a webhook is registered with. *)
SecretSent(r) == request[r].secret

Fail(r, status) == request' = [request EXCEPT ![r].at = "failed", ![r].status = status]

(* rejected: 400, 409 or 422; denied: 401, 403 or 404; down: the rest. *)
Refused(r) == Trouble /\ \E status \in {"rejected", "denied", "down"} : Fail(r, status)

RegisterHook(r) ==
  /\ r \in Running /\ request[r].at = "register"
  /\ \/ \E h \in Hooks :
          /\ NewHook(h)
          /\ hook' = [hook EXCEPT ![h] = [b |-> request[r].b, token |-> SecretSent(r)]]
          /\ \/ /\ request' = [request EXCEPT ![r].at = "store", ![r].hook = h]
                /\ UNCHANGED troubles
             \/ Fail(r, "down") /\ Trouble
     \/ Refused(r) /\ UNCHANGED hook
  /\ UNCHANGED <<doc, secret, delivery, overlaps>>

UpdateHook(r) ==
  /\ r \in Running /\ request[r].at = "update"
  /\ IF hook[request[r].hook] = None
     THEN Fail(r, "denied") /\ UNCHANGED <<hook, troubles>>
     ELSE \/ /\ hook' = [hook EXCEPT ![request[r].hook].token = SecretSent(r)]
             /\ Go(r, "store")
             /\ UNCHANGED troubles
          \/ Refused(r) /\ UNCHANGED hook
  /\ UNCHANGED <<doc, secret, delivery, overlaps>>

(* Best effort: whatever GitLab answers, the request goes on. *)
DeregisterHook(r) ==
  /\ r \in Running /\ request[r].at = "deregister"
  /\ \/ /\ hook' = [hook EXCEPT ![request[r].hook] = None]
        /\ UNCHANGED troubles
     \/ /\ UNCHANGED hook
        /\ hook[request[r].hook] # None /\ Trouble
  /\ request' = [request EXCEPT ![r].at = IF request[r].op = "delete" THEN "secret" ELSE "register",
                                ![r].hook = None]
  /\ UNCHANGED <<doc, secret, delivery, overlaps>>

Store(r) ==
  /\ r \in Running /\ request[r].at = "store"
  /\ LET b == request[r].b IN
     updateBinding(b, [doc[b] EXCEPT !.hook = request[r].hook, !.registered = TRUE])
  /\ Answer(r)
  /\ UNCHANGED <<secret, hook, delivery, troubles, overlaps>>

(* What a refused re-registration after a rotation writes. *)
Unset(f) == [f EXCEPT !.hook = None, !.registered = FALSE]

(* The catch clauses: only a rejection is a GitLabApiError below 500. *)
HandleError(r) ==
  /\ r \in Running /\ request[r].at = "failed"
  /\ IF request[r].status = "rejected"
     THEN /\ LET b == request[r].b IN
             updateBinding(b, IF request[r].op = "rotate" THEN Unset(doc[b])
                              ELSE [doc[b] EXCEPT !.registered = FALSE])
          /\ Answer(r)
          /\ UNCHANGED delivery
     ELSE Throw(r) /\ UNCHANGED doc
  /\ UNCHANGED <<secret, hook, troubles, overlaps>>

-----------------------------------------------------------------------------
(* The routes over a binding that getBinding finds. *)

(* POST .../rotate-secret: the credential first, whatever becomes of the webhook. *)
RotateSecret(r, b) ==
  /\ Stored(b)
  /\ \E s \in Secrets : NewSecret(s) /\ Begin(r, "rotate", "credential", b, s)
  /\ UNCHANGED <<doc, secret, hook, delivery, troubles>>

(* rotateCredential updates a row that exists. *)
AfterRotation(s, t) == IF s = None THEN s ELSE t

(* A webhook that is not marked
   registered keeps the secret it has, and so does one no client can reach. *)
RotateCredential(r) ==
  LET q == request[r] IN
  /\ r \in Running /\ q.at = "credential"
  /\ secret' = [secret EXCEPT ![q.b] = AfterRotation(@, q.secret)]
  /\ IF q.registered /\ q.hook # None
     THEN \/ Go(r, "deregister") /\ UNCHANGED troubles
          \/ Answer(r) /\ Trouble
     ELSE Answer(r) /\ UNCHANGED troubles
  /\ UNCHANGED <<doc, hook, delivery, overlaps>>

(* POST .../re-register-webhook. *)
ReRegister(r, b) ==
  /\ Stored(b)
  /\ ~(doc[b].registered /\ doc[b].hook = None)
  /\ Begin(r, "reRegister", "lookup", b, None)
  /\ UNCHANGED <<doc, secret, hook, delivery, troubles>>

(* DELETE /api/v1/bindings/:id: the webhook, the secret, the document. *)
FirstStep(b) == IF doc[b].hook = None THEN "secret" ELSE "deregister"

Delete(r, b) ==
  /\ Stored(b)
  /\ Begin(r, "delete", FirstStep(b), b, None)
  /\ UNCHANGED <<doc, secret, hook, delivery, troubles>>

DeleteSecret(r) ==
  /\ r \in Running /\ request[r].at = "secret"
  /\ secret' = [secret EXCEPT ![request[r].b] = None]
  /\ Go(r, "doc")
  /\ UNCHANGED <<doc, hook, delivery, troubles, overlaps>>

DeleteDoc(r) ==
  /\ r \in Running /\ request[r].at = "doc"
  /\ doc' = [doc EXCEPT ![request[r].b] = NewDoc("gone")]
  /\ Answer(r)
  /\ UNCHANGED <<secret, hook, delivery, troubles, overlaps>>

(* PATCH {disabled}: history, a delivery waits through the pause no longer. *)
Patch(r, b) ==
  /\ Stored(b)
  /\ Begin(r, "patch", "patch", b, None)
  /\ UNCHANGED <<doc, secret, hook, delivery, troubles>>

SetDisabled(r, flag) ==
  /\ r \in Running /\ request[r].at = "patch"
  /\ updateBinding(request[r].b, [doc[request[r].b] EXCEPT !.disabled = flag])
  /\ Answer(r)
  /\ delivery' = [d \in DOMAIN delivery |->
       IF ~flag /\ d \in Waiting /\ delivery[d].b = request[r].b
       THEN [delivery[d] EXCEPT !.paused = FALSE] ELSE delivery[d]]
  /\ UNCHANGED <<secret, hook, troubles, overlaps>>

-----------------------------------------------------------------------------
(* POST /webhook/:bindingId *)

Shape == [event : {"issue", "mr", "pipeline", "note", "epic", "confidential", "other"},
          confidential : BOOLEAN, parent : {"issue", "mr", "other"}, complete : BOOLEAN]

(* The events that reach enqueueWebhookEvent. *)
Relevant(e) ==
  \/ e.event \in {"issue", "mr"} /\ ~e.confidential
  \/ e.event = "pipeline" /\ e.parent = "mr"
  \/ e.event = "note" /\ e.parent = "mr"
  \/ e.event = "note" /\ e.parent = "issue" /\ ~e.confidential
  \/ e.event = "epic" /\ e.complete /\ ~e.confidential

Deliver(d, h) ==
  /\ d \in DOMAIN delivery \ Waiting /\ \A c \in 1..(d - 1) : c \in Waiting
  /\ hook[h] # None
  /\ delivery' = [delivery EXCEPT ![d] =
       [at |-> "binding", b |-> hook[h].b, token |-> hook[h].token,
        paused |-> Stored(hook[h].b) /\ doc[hook[h].b].disabled,
        current |-> secret[hook[h].b] = hook[h].token]]
  /\ UNCHANGED <<doc, secret, hook, request, troubles, overlaps>>

Reject(d) == delivery' = [delivery EXCEPT ![d] = None]

(* A paused binding takes nothing in. *)
MayEnqueue(b) == ~doc[b].disabled

ReadBinding(d) ==
  LET b == delivery[d].b IN
  /\ d \in Waiting /\ delivery[d].at = "binding"
  /\ \/ ~Stored(b) /\ Reject(d)
     \/ Stored(b) /\ ~MayEnqueue(b) /\ Reject(d)
     \/ Stored(b) /\ MayEnqueue(b) /\ delivery' = [delivery EXCEPT ![d].at = "secret"]
  /\ UNCHANGED <<doc, secret, hook, request, troubles, overlaps>>

Authorized(d) == secret[delivery[d].b] = delivery[d].token

ReadSecret(d) ==
  /\ d \in Waiting /\ delivery[d].at = "secret"
  /\ \/ secret[delivery[d].b] = None /\ Reject(d)
     \/ secret[delivery[d].b] # None /\ ~Authorized(d) /\ Reject(d)
     \/ Authorized(d) /\ \E e \in Shape :
          IF Relevant(e) THEN delivery' = [delivery EXCEPT ![d].at = "enqueued", ![d].token = None]
          ELSE Reject(d)
  /\ UNCHANGED <<doc, secret, hook, request, troubles, overlaps>>

-----------------------------------------------------------------------------
Crash ==
  /\ Running \cup Waiting # {}
  /\ Trouble
  /\ Down
  /\ UNCHANGED <<doc, secret, hook, overlaps>>

(* A maintainer removes a webhook in GitLab's settings. *)
RemoveHook(h) ==
  /\ hook[h] # None
  /\ Trouble
  /\ hook' = [hook EXCEPT ![h] = None]
  /\ UNCHANGED <<doc, secret, request, delivery, overlaps>>

Step(r) ==
  \/ Insert(r) \/ Lookup(r) \/ RegisterHook(r) \/ UpdateHook(r) \/ DeregisterHook(r)
  \/ Store(r) \/ HandleError(r) \/ RotateCredential(r) \/ DeleteSecret(r) \/ DeleteDoc(r)
  \/ \E flag \in BOOLEAN : SetDisabled(r, flag)

Next ==
  \/ \E r \in DOMAIN request, b \in Bindings :
       \/ Create(r, b) \/ RotateSecret(r, b) \/ ReRegister(r, b)
       \/ Delete(r, b) \/ Patch(r, b)
  \/ \E r \in DOMAIN request : Step(r)
  \/ \E d \in DOMAIN delivery :
       \/ \E h \in Hooks : Deliver(d, h)
       \/ ReadBinding(d) \/ ReadSecret(d)
  \/ Crash
  \/ \E h \in Hooks : RemoveHook(h)

Spec == Init /\ [][Next]_vars

-----------------------------------------------------------------------------
(* Properties *)

(* Webhooks that no document names and no request is about to record. *)
Orphans ==
  {h \in Hooks :
     /\ hook[h] # None
     /\ ~(Stored(hook[h].b) /\ doc[hook[h].b].hook = h)
     /\ \A r \in Running : request[r].at = "store" => request[r].hook # h}

(* The hazard of binding-lifecycle.ts:97 and :156: the webhook exists before
   its id is stored.  Every webhook nobody knows of is the price of one fault
   or of one request that overlapped another; requests that run one by one on
   a healthy GitLab leave none.                                             *)
OrphansAreExcused == Cardinality(Orphans) <= troubles + overlaps

(* Whatever faults came before, a request that has reached its last write
   undisturbed by another is about to record a webhook that carries the
   stored secret: rotation and re-registration heal the disagreements that
   earlier faults left behind.  Two remain: a webhook that a maintainer has
   removed meanwhile, and a binding whose deletion stopped between the secret
   and the document, which no request but the deletion can repair.           *)
RecordsWhatDelivers ==
  \A r \in Running : request[r].at = "store" /\ overlaps = 0 =>
    \/ hook[request[r].hook] = None
    \/ secret[request[r].b] = None
    \/ hook[request[r].hook] = [b |-> request[r].b, token |-> secret[request[r].b]]

(* re-register-webhook answers `registered' at once when the document says so
   and has no webhook id: the document never says so, whatever the order in
   which the requests' writes land.                                          *)
RegisteredNamesAHook ==
  \A b \in Bindings : Stored(b) /\ doc[b].registered => doc[b].hook # None

(* A binding that was deleted stays deleted, and so does its secret, although
   a rotation or a re-registration that read it earlier still writes.       *)
NoResurrection ==
  [][\A b \in Bindings : doc[b].life = "gone" => doc'[b].life = "gone" /\ secret'[b] = None]_vars

(* The webhook route enqueues nothing it had to refuse all along, although it
   reads the pause and the secret at two awaits: no event that arrived after
   the pause and is answered before the resumption (webhook.ts:109), and none
   whose secret was no longer stored when it arrived (docs/api.md, "Old
   webhook signatures are invalid after rotation").                          *)
RefusedWhenDue ==
  \A d \in DOMAIN delivery :
    delivery[d] # None /\ delivery[d].at = "enqueued"
      => ~delivery[d].paused /\ delivery[d].current
=============================================================================
