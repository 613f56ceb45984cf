--------------------------- MODULE Bindings_proofs ---------------------------
(***************************************************************************)
(* The records of a binding and their faults, for any number of bindings,  *)
(* concurrent requests and deliveries, troubles and overlaps.              *)
(***************************************************************************)
EXTENDS Bindings, FiniteSetTheorems, TLAPS

(* What a request has in hand where it stands. *)
Equipped(q) ==
  /\ q.at \in {"update", "deregister", "store"} => q.hook # None
  /\ q.at \in {"register", "update", "credential"} => q.secret # None
  /\ q.at = "deregister" /\ q.op # "delete" => q.secret # None
  /\ q.at \in {"register", "secret", "doc"} => q.hook = None
  /\ q.at \in {"lookup", "update"} => q.op # "rotate"
  /\ q.at = "failed" /\ q.op = "rotate" => q.hook = None
  /\ q.at = "insert" => q.op = "create"

(* Only a creation that has not inserted yet is on a document that never   *)
(* was; the deletion of a document begins with its secret.                 *)
Timely(q) ==
  /\ q.at = "insert" <=> doc[q.b].life = "unborn"
  /\ q.at = "doc" => secret[q.b] = None

Lives ==
  /\ \A r \in Running : Equipped(request[r]) /\ Timely(request[r])
  /\ \A r, q \in Running :
       request[r].at = "insert" /\ request[q].at = "insert" /\ request[r].b = request[q].b
         => r = q
  /\ \A b \in Bindings : doc[b].life = "gone" => secret[b] = None
  /\ RegisteredNamesAHook

(* Whoever remembers a webhook's id remembers a webhook of its own binding. *)
Owned ==
  /\ \A b \in Bindings : Stored(b) /\ doc[b].hook # None /\ hook[doc[b].hook] # None
       => hook[doc[b].hook].b = b
  /\ \A r \in Running : request[r].hook # None /\ hook[request[r].hook] # None
       => hook[request[r].hook].b = request[r].b

(* A secret that a rotation has not stored yet is known to nobody else. *)
Private ==
  \A r \in Running : request[r].at = "credential" =>
    /\ \A b \in Bindings : secret[b] # request[r].secret
    /\ \A h \in Hooks : hook[h] # None => hook[h].token # request[r].secret
    /\ \A q \in Running \ {r} : request[q].secret # request[r].secret
    /\ \A d \in 1..MaxDeliveries : delivery[d] # None => delivery[d].token # request[r].secret

(* What makes a delivery refusable is still visible when it is looked at. *)
Refusable ==
  \A d \in 1..MaxDeliveries : delivery[d] # None =>
    /\ delivery[d].at = "enqueued" => ~delivery[d].paused /\ delivery[d].current
    /\ delivery[d].at = "secret" => ~delivery[d].paused
    /\ delivery[d].at = "binding" /\ delivery[d].paused =>
         /\ doc[delivery[d].b].life # "unborn"
         /\ Stored(delivery[d].b) => doc[delivery[d].b].disabled
    /\ delivery[d].at # "enqueued" =>
         /\ delivery[d].token # None
         /\ ~delivery[d].current => secret[delivery[d].b] # delivery[d].token

(* Without overlaps there is one request, and it sends what is stored. *)
Sends(q) ==
  q.at \in {"register", "update"} \/ (q.at = "deregister" /\ q.op # "delete")
    => secret[q.b] = None \/ secret[q.b] = q.secret

Alone ==
  overlaps = 0 =>
    /\ \A r, q \in Running : r = q
    /\ \A r \in Running : Sends(request[r])

(* A webhook that the document names and GitLab has. *)
Alive(b) == Stored(b) /\ doc[b].hook # None /\ hook[doc[b].hook] # None

(* A request is clean while its end leaves no webhook behind: nobody has   *)
(* given its binding another webhook since it began.                       *)
Clean(q) ==
  /\ q.at # "insert" => Stored(q.b)
  /\ Alive(q.b) => q.hook = doc[q.b].hook

(* Each request may leave one webhook behind, except the first to end      *)
(* after a quiet moment: it is still clean.                                *)
Grace == IF Running # {} /\ \A r \in Running : Clean(request[r]) THEN 1 ELSE 0
Budget == Cardinality(Orphans) + Cardinality(Running) <= troubles + overlaps + Grace

Core == Lives /\ Owned /\ Private /\ Refusable /\ Alone /\ RecordsWhatDelivers

IInv == TypeOK /\ Core /\ Budget

-----------------------------------------------------------------------------
(* Types and the shape of a step. *)

Places == {"insert", "lookup", "register", "update", "credential", "deregister",
           "store", "failed", "secret", "doc", "patch"}

(* What a running request carries. *)
LEMMA RequestType ==
  ASSUME TypeOK, NEW r \in Running
  PROVE  /\ r \in 1..MaxRequests /\ request[r] \in Request /\ request[r] # None
         /\ request[r].b \in Bindings
         /\ request[r].hook \in Hooks \cup {None}
         /\ request[r].secret \in Secrets \cup {None}
BY NoneAssumption DEF TypeOK, Running, Request

(* A document's fields. *)
LEMMA DocType ==
  ASSUME TypeOK, NEW b \in Bindings
  PROVE  /\ doc[b] \in Doc
         /\ doc[b].hook \in Hooks \cup {None}
         /\ doc[b].registered \in BOOLEAN /\ doc[b].disabled \in BOOLEAN
BY DEF TypeOK, Doc

(* A request is answered. *)
LEMMA Ends ==
  ASSUME TypeOK, NEW r \in Running, Answer(r)
  PROVE  /\ request' \in [1..MaxRequests -> Request \cup {None}]
         /\ \A q : q \in Running' <=> q \in Running /\ q # r
         /\ \A q \in Running' : request'[q] = request[q]
<1>1. r \in 1..MaxRequests
  BY RequestType
<1>2. request' = [request EXCEPT ![r] = None]
  BY DEF Answer
<1>3. \A q \in 1..MaxRequests : request'[q] = IF q = r THEN None ELSE request[q]
  BY <1>1, <1>2 DEF TypeOK
<1>4. request' \in [1..MaxRequests -> Request \cup {None}]
  BY <1>2 DEF TypeOK
<1>5. DOMAIN request = 1..MaxRequests /\ DOMAIN request' = 1..MaxRequests
  BY <1>4 DEF TypeOK
<1> QED
  BY <1>1, <1>3, <1>4, <1>5 DEF Running

(* A request gets another record: Running stays as it is. *)
LEMMA Moves ==
  ASSUME TypeOK, NEW r \in Running, NEW q \in Request,
         request' = [request EXCEPT ![r] = q]
  PROVE  /\ request' \in [1..MaxRequests -> Request \cup {None}]
         /\ \A p : p \in Running' <=> p \in Running
         /\ \A p \in Running : request'[p] = IF p = r THEN q ELSE request[p]
<1>1. r \in 1..MaxRequests /\ q # None
  BY RequestType, NoneAssumption
<1>3. \A p \in 1..MaxRequests : request'[p] = IF p = r THEN q ELSE request[p]
  BY <1>1 DEF TypeOK
<1>4. request' \in [1..MaxRequests -> Request \cup {None}]
  BY <1>1 DEF TypeOK
<1>5. DOMAIN request = 1..MaxRequests /\ DOMAIN request' = 1..MaxRequests
  BY <1>4 DEF TypeOK
<1> QED
  BY <1>1, <1>3, <1>4, <1>5 DEF Running

(* A request goes on to its next step. *)
LEMMA Goes ==
  ASSUME TypeOK, NEW r \in Running, NEW to \in Places, Go(r, to)
  PROVE  /\ request' \in [1..MaxRequests -> Request \cup {None}]
         /\ \A p : p \in Running' <=> p \in Running
         /\ \A p \in Running : /\ request'[p].at = IF p = r THEN to ELSE request[p].at
                               /\ request'[p].op = request[p].op
                               /\ request'[p].b = request[p].b
                               /\ request'[p].hook = request[p].hook
                               /\ request'[p].secret = request[p].secret
<1> DEFINE q == [request[r] EXCEPT !.at = to]
<1>1. q \in Request
  BY RequestType DEF Request, Places
<1>2. request' = [request EXCEPT ![r] = q]
  BY DEF Go
<1>3. /\ q.at = to /\ q.op = request[r].op /\ q.b = request[r].b
      /\ q.hook = request[r].hook /\ q.secret = request[r].secret
  BY RequestType DEF Request
<1> HIDE DEF q
<1>4. /\ request' \in [1..MaxRequests -> Request \cup {None}]
      /\ \A p : p \in Running' <=> p \in Running
      /\ \A p \in Running : request'[p] = IF p = r THEN q ELSE request[p]
  BY <1>1, <1>2, Moves
<1>5. request'[r] = q /\ \A p \in Running \ {r} : request'[p] = request[p]
  BY <1>4
<1> QED
  BY <1>3, <1>4, <1>5

(* GitLab's answer is an error. *)
LEMMA Fails ==
  ASSUME TypeOK, NEW r \in Running, NEW status \in {"rejected", "denied", "down"},
         Fail(r, status)
  PROVE  /\ request' \in [1..MaxRequests -> Request \cup {None}]
         /\ \A p : p \in Running' <=> p \in Running
         /\ \A p \in Running : /\ request'[p].at = IF p = r THEN "failed" ELSE request[p].at
                               /\ request'[p].op = request[p].op
                               /\ request'[p].b = request[p].b
                               /\ request'[p].hook = request[p].hook
                               /\ request'[p].secret = request[p].secret
<1> DEFINE q == [[request[r] EXCEPT !.at = "failed"] EXCEPT !.status = status]
<1>1. q \in Request
  BY RequestType DEF Request
<1>2. request' = [request EXCEPT ![r] = q]
  BY DEF Fail
<1>3. /\ q.at = "failed" /\ q.op = request[r].op /\ q.b = request[r].b
      /\ q.hook = request[r].hook /\ q.secret = request[r].secret
  BY RequestType DEF Request
<1> HIDE DEF q
<1>4. /\ request' \in [1..MaxRequests -> Request \cup {None}]
      /\ \A p : p \in Running' <=> p \in Running
      /\ \A p \in Running : request'[p] = IF p = r THEN q ELSE request[p]
  BY <1>1, <1>2, Moves
<1>5. request'[r] = q /\ \A p \in Running \ {r} : request'[p] = request[p]
  BY <1>4
<1> QED
  BY <1>3, <1>4, <1>5

(* A request begins. *)
LEMMA Begins ==
  ASSUME TypeOK, NEW r \in 1..MaxRequests, NEW op \in Ops, NEW at \in Places,
         NEW b \in Bindings, NEW s \in Secrets \cup {None}, Begin(r, op, at, b, s)
  PROVE  /\ request' \in [1..MaxRequests -> Request \cup {None}]
         /\ overlaps' \in 0..MaxOverlaps
         /\ r \notin Running
         /\ \A p : p \in Running' <=> p \in Running \/ p = r
         /\ \A p \in Running : request'[p] = request[p]
         /\ request'[r].op = op /\ request'[r].at = at /\ request'[r].b = b
         /\ request'[r].secret = s
         /\ request'[r].hook = IF Stored(b) THEN doc[b].hook ELSE None
         /\ overlaps' = IF Running # {} THEN overlaps + 1 ELSE overlaps
<1> DEFINE q == [op |-> op, at |-> at, b |-> b, secret |-> s, status |-> "none",
                 hook |-> IF Stored(b) THEN doc[b].hook ELSE None,
                 registered |-> Stored(b) /\ doc[b].registered]
<1>1. q \in Request
  BY DocType DEF Request, Places
<1>2. request' = [request EXCEPT ![r] = q] /\ r \notin Running
  BY DEF Begin, Idle
<1>3. q # None
  BY <1>1, NoneAssumption
<1>4. /\ q.at = at /\ q.op = op /\ q.b = b /\ q.secret = s
      /\ q.hook = IF Stored(b) THEN doc[b].hook ELSE None
  OBVIOUS
<1> HIDE DEF q
<1>5. \A p \in 1..MaxRequests : request'[p] = IF p = r THEN q ELSE request[p]
  BY <1>2 DEF TypeOK
<1>6. request' \in [1..MaxRequests -> Request \cup {None}]
  BY <1>1, <1>2 DEF TypeOK
<1>7. DOMAIN request = 1..MaxRequests /\ DOMAIN request' = 1..MaxRequests
  BY <1>6 DEF TypeOK
<1>8. /\ overlaps' = IF Running # {} THEN overlaps + 1 ELSE overlaps
      /\ overlaps' \in 0..MaxOverlaps
  BY BindingsAssumption DEF Begin, TypeOK
<1> QED
  BY <1>2, <1>3, <1>4, <1>5, <1>6, <1>7, <1>8 DEF Running

(* Everything in memory is gone. *)
LEMMA Downs ==
  ASSUME TypeOK, Down
  PROVE  /\ request' \in [1..MaxRequests -> Request \cup {None}]
         /\ delivery' \in [1..MaxDeliveries -> Delivery \cup {None}]
         /\ \A p : p \notin Running'
         /\ \A d \in 1..MaxDeliveries : delivery'[d] = None
BY DEF Down, TypeOK, Running

(* updateBinding changes one stored document, and not its life. *)
LEMMA UpdatesDoc ==
  ASSUME TypeOK, NEW b \in Bindings, NEW f \in Doc, updateBinding(b, f)
  PROVE  /\ doc' \in [Bindings -> Doc]
         /\ \A c \in Bindings : doc'[c].life = doc[c].life
         /\ \A c \in Bindings : c # b \/ ~Stored(b) => doc'[c] = doc[c]
         /\ Stored(b) => /\ doc'[b].hook = f.hook /\ doc'[b].registered = f.registered
                         /\ doc'[b].disabled = f.disabled
<1> DEFINE g == [f EXCEPT !.life = "stored"]
<1>1. /\ g \in Doc /\ g.life = "stored" /\ g.hook = f.hook
      /\ g.registered = f.registered /\ g.disabled = f.disabled
  BY DEF Doc
<1>2. doc' = [doc EXCEPT ![b] = IF Stored(b) THEN g ELSE doc[b]]
  BY DEF updateBinding, Updates
<1> HIDE DEF g
<1> QED
  BY <1>1, <1>2 DEF TypeOK, Stored

-----------------------------------------------------------------------------
(* What keeps each part of the invariant. *)

LEMMA OwnedKept ==
  ASSUME Owned, UNCHANGED hook,
         \A c \in Bindings : Stored(c)' =>
           doc'[c].hook = None \/ (Stored(c) /\ doc'[c].hook = doc[c].hook),
         \A p \in Running' :
           /\ p \in Running /\ request'[p].b = request[p].b
           /\ request'[p].hook = None \/ request'[p].hook = request[p].hook
  PROVE  Owned'
BY DEF Owned

LEMMA PrivateKept ==
  ASSUME Private, UNCHANGED <<secret, hook, delivery>>,
         \A p \in Running' :
           /\ p \in Running /\ request'[p].secret = request[p].secret
           /\ request'[p].at = "credential" => request[p].at = "credential"
  PROVE  Private'
BY DEF Private

LEMMA PrivateHookKept ==
  ASSUME Private, UNCHANGED <<secret, delivery>>,
         \A p \in Running' :
           /\ p \in Running /\ request'[p].secret = request[p].secret
           /\ request'[p].at = "credential" => request[p].at = "credential",
         NEW r \in Running, request[r].at # "credential",
         \A h \in Hooks : hook'[h] # None =>
           \/ hook[h] # None /\ hook'[h].token = hook[h].token
           \/ hook'[h].token = request[r].secret
  PROVE  Private'
<1> SUFFICES ASSUME NEW p \in Running', request'[p].at = "credential"
             PROVE  /\ \A b \in Bindings : secret'[b] # request'[p].secret
                    /\ \A h \in Hooks : hook'[h] # None => hook'[h].token # request'[p].secret
                    /\ \A q \in Running' \ {p} : request'[q].secret # request'[p].secret
                    /\ \A d \in 1..MaxDeliveries :
                         delivery'[d] # None => delivery'[d].token # request'[p].secret
  BY DEF Private
<1>1. /\ p \in Running /\ p # r /\ request[p].at = "credential"
      /\ request'[p].secret = request[p].secret
  OBVIOUS
<1>2. \A h \in Hooks : hook'[h] # None => hook'[h].token # request[p].secret
  BY <1>1 DEF Private
<1> QED
  BY <1>1, <1>2 DEF Private

LEMMA RefusableKept ==
  ASSUME TypeOK, Refusable, UNCHANGED <<delivery, secret>>,
         \A c \in Bindings :
           /\ doc[c].life # "unborn" => doc'[c].life # "unborn"
           /\ Stored(c)' => doc[c].life = "unborn"
                            \/ (Stored(c) /\ doc'[c].disabled = doc[c].disabled)
  PROVE  Refusable'
<1>1. \A d \in 1..MaxDeliveries : delivery[d] # None => delivery[d].b \in Bindings
  BY DEF TypeOK, Delivery
<1> QED
  BY <1>1 DEF Refusable, Stored

LEMMA AloneKept ==
  ASSUME Alone, UNCHANGED overlaps,
         \A p \in Running' : p \in Running /\ (overlaps = 0 => Sends(request[p])')
  PROVE  Alone'
BY DEF Alone

LEMMA RecordsKept ==
  ASSUME RecordsWhatDelivers, UNCHANGED <<hook, secret, overlaps>>,
         \A p \in Running' : request'[p].at = "store" =>
           /\ p \in Running /\ request[p].at = "store"
           /\ request'[p].b = request[p].b /\ request'[p].hook = request[p].hook
  PROVE  RecordsWhatDelivers'
BY DEF RecordsWhatDelivers

LEMMA LivesKept ==
  ASSUME TypeOK, Lives,
         \A p \in Running' :
           /\ p \in Running /\ request'[p].b = request[p].b
           /\ Equipped(request'[p])
           /\ request'[p].at = "insert" <=> request[p].at = "insert"
           /\ request'[p].at = "doc" => secret'[request[p].b] = None,
         \A c \in Bindings :
           /\ doc'[c].life = doc[c].life
           /\ secret[c] = None => secret'[c] = None
           /\ Stored(c) /\ doc'[c].registered => doc'[c].hook # None
  PROVE  Lives'
<1>1. \A p \in Running : request[p].b \in Bindings
  BY RequestType
<1>2. \A p \in Running' : Timely(request[p])'
  BY <1>1 DEF Lives, Timely
<1>3. \A p \in Running' : Equipped(request[p])'
  BY DEF Equipped
<1>4. RegisteredNamesAHook'
  BY DEF RegisteredNamesAHook, Stored
<1> QED
  BY <1>2, <1>3, <1>4 DEF Lives

-----------------------------------------------------------------------------
(* What the requests of the admin API keep. *)

(* The end of a request that writes nothing. *)
LEMMA AnswerCore ==
  ASSUME TypeOK, Core, NEW r \in Running, Answer(r),
         UNCHANGED <<doc, secret, hook, delivery, overlaps>>,
         troubles' \in 0..MaxTroubles
  PROVE  TypeOK' /\ Core'
<1>1. /\ request' \in [1..MaxRequests -> Request \cup {None}]
      /\ \A q \in Running' : q \in Running /\ request'[q] = request[q]
  BY Ends
<1>2. TypeOK'
  BY <1>1 DEF TypeOK
<1>3. Lives'
  BY <1>1 DEF Core, Lives, Equipped, Timely, RegisteredNamesAHook, Stored
<1>4. Owned' /\ Private' /\ Refusable'
  BY <1>1 DEF Core, Owned, Private, Refusable, Stored
<1>5. Alone' /\ RecordsWhatDelivers'
  BY <1>1 DEF Core, Alone, Sends, RecordsWhatDelivers
<1> QED
  BY <1>2, <1>3, <1>4, <1>5 DEF Core

(* An exception. *)
LEMMA DownCore ==
  ASSUME TypeOK, Core, Down, UNCHANGED <<doc, secret, hook, overlaps>>,
         troubles' \in 0..MaxTroubles
  PROVE  TypeOK' /\ Core'
<1>1. /\ request' \in [1..MaxRequests -> Request \cup {None}]
      /\ delivery' \in [1..MaxDeliveries -> Delivery \cup {None}]
      /\ \A p : p \notin Running'
      /\ \A d \in 1..MaxDeliveries : delivery'[d] = None
  BY Downs
<1>2. TypeOK'
  BY <1>1 DEF TypeOK
<1>3. Lives'
  BY <1>1 DEF Core, Lives, RegisteredNamesAHook, Stored
<1>4. Owned' /\ Private' /\ Refusable'
  BY <1>1 DEF Core, Owned, Private, Refusable, Stored
<1>5. Alone' /\ RecordsWhatDelivers'
  BY <1>1 DEF Core, Alone, Sends, RecordsWhatDelivers
<1> QED
  BY <1>2, <1>3, <1>4, <1>5 DEF Core

(* A failed call to GitLab. *)
LEMMA FailCore ==
  ASSUME TypeOK, Core, NEW r \in Running, NEW status \in {"rejected", "denied", "down"},
         request[r].at \in {"register", "update"}, Fail(r, status),
         UNCHANGED <<doc, secret, hook, delivery, overlaps>>,
         troubles' \in 0..MaxTroubles
  PROVE  TypeOK' /\ Core'
<1>1. /\ request' \in [1..MaxRequests -> Request \cup {None}]
      /\ \A p : p \in Running' <=> p \in Running
      /\ \A p \in Running : /\ request'[p].at = IF p = r THEN "failed" ELSE request[p].at
                            /\ request'[p].op = request[p].op
                            /\ request'[p].b = request[p].b
                            /\ request'[p].hook = request[p].hook
                            /\ request'[p].secret = request[p].secret
  BY Fails
<1>2. TypeOK'
  BY <1>1 DEF TypeOK
<1>3. Lives'
  BY <1>1 DEF Core, Lives, Equipped, Timely, RegisteredNamesAHook, Stored
<1>4. Owned' /\ Private' /\ Refusable'
  BY <1>1 DEF Core, Owned, Private, Refusable, Stored
<1>5. Alone' /\ RecordsWhatDelivers'
  BY <1>1 DEF Core, Alone, Sends, RecordsWhatDelivers
<1> QED
  BY <1>2, <1>3, <1>4, <1>5 DEF Core

(* A fault is counted. *)
LEMMA TroubleType ==
  ASSUME TypeOK, Trouble \/ UNCHANGED troubles
  PROVE  troubles' \in 0..MaxTroubles
BY BindingsAssumption DEF TypeOK, Trouble

(* The routes that only read before their first await. *)
LEMMA BeginCore ==
  ASSUME TypeOK, Core, NEW r \in 1..MaxRequests, NEW b \in Bindings, Stored(b),
         NEW op \in Ops, NEW at \in Places \ {"insert", "register", "update", "store",
                                             "failed", "doc"},
         NEW s \in Secrets \cup {None}, Begin(r, op, at, b, s),
         at = "credential" => s # None /\ SecretFree(s),
         at = "deregister" => op = "delete" /\ doc[b].hook # None,
         at = "secret" => doc[b].hook = None,
         at = "lookup" => op # "rotate",
         \A q \in Running : request[q].at = "credential" => request[q].secret # s,
         UNCHANGED <<doc, secret, hook, delivery, troubles>>
  PROVE  TypeOK' /\ Core'
<1>1. /\ request' \in [1..MaxRequests -> Request \cup {None}]
      /\ overlaps' \in 0..MaxOverlaps
      /\ r \notin Running
      /\ \A p : p \in Running' <=> p \in Running \/ p = r
      /\ \A p \in Running : request'[p] = request[p]
      /\ request'[r].op = op /\ request'[r].at = at /\ request'[r].b = b
      /\ request'[r].secret = s
      /\ request'[r].hook = doc[b].hook
      /\ overlaps' = IF Running # {} THEN overlaps + 1 ELSE overlaps
  BY Begins
<1>2. TypeOK'
  BY <1>1 DEF TypeOK
<1>3. Lives'
  <2>1. Equipped(request'[r])
    BY <1>1 DEF Equipped, Places
  <2>2. Timely(request[r])'
    BY <1>1 DEF Timely, Stored
  <2> QED
    BY <1>1, <2>1, <2>2 DEF Core, Lives, Equipped, Timely, RegisteredNamesAHook, Stored
<1>4. Owned'
  BY <1>1 DEF Core, Owned, Stored
<1>5. Private'
  BY <1>1 DEF Core, Private, SecretFree, TypeOK
<1>6. Refusable'
  BY <1>1 DEF Core, Refusable, Stored
<1>7. Alone' /\ RecordsWhatDelivers'
  <2>1. overlaps \in Nat
    BY BindingsAssumption DEF TypeOK
  <2> QED
    BY <1>1, <2>1 DEF Core, Alone, Sends, RecordsWhatDelivers
<1> QED
  BY <1>2, <1>3, <1>4, <1>5, <1>6, <1>7 DEF Core

(* rotate-secret, re-register-webhook, DELETE and PATCH. *)
LEMMA RoutesCore ==
  ASSUME TypeOK, Core, NEW r \in 1..MaxRequests, NEW b \in Bindings,
         RotateSecret(r, b) \/ ReRegister(r, b) \/ Delete(r, b) \/ Patch(r, b)
  PROVE  TypeOK' /\ Core'
<1>1. \A q \in Running : request[q].at = "credential" => request[q].secret # None
  BY DEF Core, Lives, Equipped
<1>2. CASE RotateSecret(r, b)
  <2>1. PICK s \in Secrets : NewSecret(s) /\ Begin(r, "rotate", "credential", b, s)
    BY <1>2 DEF RotateSecret
  <2>2. s # None /\ SecretFree(s) /\ \A q \in Running : request[q].secret # s
    BY <2>1, BindingsAssumption DEF NewSecret, SecretFree, Secrets
  <2> QED
    BY <1>2, <2>1, <2>2, BeginCore DEF RotateSecret, Ops, Places
<1>3. CASE ReRegister(r, b)
  BY <1>1, <1>3, BeginCore DEF ReRegister, Ops, Places
<1>4. CASE Delete(r, b)
  BY <1>1, <1>4, BeginCore DEF Delete, FirstStep, Ops, Places
<1>5. CASE Patch(r, b)
  BY <1>1, <1>5, BeginCore DEF Patch, Ops, Places
<1> QED
  BY <1>2, <1>3, <1>4, <1>5

(* POST /api/v1/bindings. *)
LEMMA CreateCore ==
  ASSUME TypeOK, Core, NEW r \in 1..MaxRequests, NEW b \in Bindings, Create(r, b)
  PROVE  TypeOK' /\ Core'
<1>1. PICK s \in Secrets : /\ NewSecret(s)
                           /\ secret' = [secret EXCEPT ![b] = s]
                           /\ Begin(r, "create", "insert", b, None)
  BY DEF Create
<1>2. /\ doc[b].life = "unborn" /\ secret[b] = None
      /\ \A q \in Running : request[q].op # "create" \/ request[q].b # b
      /\ UNCHANGED <<doc, hook, delivery, troubles>>
  BY DEF Create
<1>3. /\ request' \in [1..MaxRequests -> Request \cup {None}]
      /\ overlaps' \in 0..MaxOverlaps
      /\ r \notin Running
      /\ \A p : p \in Running' <=> p \in Running \/ p = r
      /\ \A p \in Running : request'[p] = request[p]
      /\ request'[r].op = "create" /\ request'[r].at = "insert" /\ request'[r].b = b
      /\ request'[r].secret = None
      /\ request'[r].hook = None
      /\ overlaps' = IF Running # {} THEN overlaps + 1 ELSE overlaps
  <2>1. ~Stored(b)
    BY <1>2 DEF Stored
  <2> QED
    BY <1>1, <2>1, Begins DEF Ops, Places
<1>4. \A c \in Bindings : secret'[c] = IF c = b THEN s ELSE secret[c]
  BY <1>1 DEF TypeOK
<1>5. SecretFree(s)
  BY <1>1 DEF NewSecret
<1>6. TypeOK'
  BY <1>1, <1>2, <1>3 DEF TypeOK
<1>7. Lives'
  <2>1. Equipped(request'[r])
    BY <1>3 DEF Equipped
  <2>2. Timely(request[r])'
    BY <1>2, <1>3 DEF Timely
  <2>3. \A p \in Running : request[p].at # "insert" /\ request[p].b = b => FALSE
    BY <1>2 DEF Core, Lives, Timely
  <2>4. \A p \in Running : request[p].b # b
    BY <1>2, <2>3 DEF Core, Lives, Equipped
  <2>5. \A p \in Running : Timely(request[p])'
    BY <1>2, <1>3, <1>4, <2>4, RequestType DEF Core, Lives, Timely
  <2>6. \A p \in Running : Equipped(request'[p])
    BY <1>3 DEF Core, Lives
  <2>7. \A p, q \in Running' :
          request'[p].at = "insert" /\ request'[q].at = "insert" /\ request'[p].b = request'[q].b
            => p = q
    BY <1>3, <2>4 DEF Core, Lives
  <2>8. \A c \in Bindings : doc'[c].life = "gone" => secret'[c] = None
    BY <1>2, <1>4 DEF Core, Lives
  <2>9. RegisteredNamesAHook'
    BY <1>2 DEF Core, Lives, RegisteredNamesAHook, Stored
  <2> QED
    BY <1>3, <2>1, <2>2, <2>5, <2>6, <2>7, <2>8, <2>9 DEF Lives, Equipped
<1>8. Owned'
  BY <1>2, <1>3 DEF Core, Owned, Stored
<1>9. Private'
  BY <1>2, <1>3, <1>4, <1>5 DEF Core, Private, SecretFree, TypeOK, Lives, Equipped
<1>10. Refusable'
  <2>1. \A d \in 1..MaxDeliveries : delivery[d] # None =>
          delivery[d].b \in Bindings /\ delivery[d].token # s
    BY <1>5 DEF TypeOK, Delivery, SecretFree
  <2> QED
    BY <1>2, <1>4, <2>1 DEF Core, Refusable, Stored
<1>11. Alone' /\ RecordsWhatDelivers'
  <2>1. overlaps \in Nat
    BY BindingsAssumption DEF TypeOK
  <2>2. overlaps' = 0 => Running = {}
    BY <1>3, <2>1
  <2> QED
    BY <1>3, <2>2 DEF Alone, Sends, RecordsWhatDelivers
<1> QED
  BY <1>6, <1>7, <1>8, <1>9, <1>10, <1>11 DEF Core

(* insertOne. *)
LEMMA InsertCore ==
  ASSUME TypeOK, Core, NEW r \in 1..MaxRequests, Insert(r)
  PROVE  TypeOK' /\ Core'
<1>1. r \in Running /\ request[r].at = "insert" /\ UNCHANGED <<secret, hook, delivery, overlaps>>
  BY DEF Insert
<1>2. troubles' \in 0..MaxTroubles
  BY TroubleType DEF Insert
<1>3. CASE Answer(r) /\ UNCHANGED doc
  BY <1>1, <1>2, <1>3, AnswerCore
<1>4. CASE doc' = [doc EXCEPT ![request[r].b] = NewDoc("stored")] /\ Go(r, "lookup")
  <2> DEFINE b == request[r].b
  <2>1. b \in Bindings /\ doc[b].life = "unborn"
    BY <1>1, RequestType DEF Core, Lives, Timely
  <2>2. /\ request' \in [1..MaxRequests -> Request \cup {None}]
        /\ \A p : p \in Running' <=> p \in Running
        /\ \A p \in Running : /\ request'[p].at = IF p = r THEN "lookup" ELSE request[p].at
                              /\ request'[p].op = request[p].op
                              /\ request'[p].b = request[p].b
                              /\ request'[p].hook = request[p].hook
                              /\ request'[p].secret = request[p].secret
    BY <1>1, <1>4, Goes DEF Places
  <2>3. NewDoc("stored") \in Doc
    BY DEF NewDoc, Doc
  <2>4. \A c \in Bindings : doc'[c] = IF c = b THEN NewDoc("stored") ELSE doc[c]
    BY <1>4 DEF TypeOK
  <2>5. /\ NewDoc("stored").life = "stored" /\ NewDoc("stored").hook = None
        /\ ~NewDoc("stored").registered
    BY DEF NewDoc
  <2>6. TypeOK'
    BY <1>1, <1>2, <1>4, <2>2, <2>3 DEF TypeOK
  <2>7. \A p \in Running \ {r} : request[p].b # b
    BY <1>1, <2>1 DEF Core, Lives, Timely
  <2>8. Lives'
    <3>1. \A p \in Running \ {r} : Timely(request[p])'
      BY <1>1, <2>2, <2>4, <2>7, RequestType DEF Core, Lives, Timely
    <3>2. Timely(request[r])'
      BY <1>1, <2>1, <2>2, <2>4, <2>5 DEF Timely
    <3>3. \A p \in Running : Equipped(request'[p])
      BY <1>1, <2>2 DEF Core, Lives, Equipped
    <3>4. \A p, q \in Running' :
            request'[p].at = "insert" /\ request'[q].at = "insert" /\ request'[p].b = request'[q].b
              => p = q
      BY <2>2 DEF Core, Lives
    <3>5. \A c \in Bindings : doc'[c].life = "gone" => secret'[c] = None
      BY <1>1, <2>4, <2>5 DEF Core, Lives
    <3>6. RegisteredNamesAHook'
      BY <2>4, <2>5 DEF Core, Lives, RegisteredNamesAHook, Stored
    <3> QED
      BY <2>2, <3>1, <3>2, <3>3, <3>4, <3>5, <3>6 DEF Lives, Equipped
  <2>9. Owned'
    BY <1>1, <2>2, <2>4, <2>5, OwnedKept DEF Core, Stored
  <2>10. Private'
    BY <1>1, <2>2, PrivateKept DEF Core
  <2>11. Refusable'
    <3>1. \A d \in 1..MaxDeliveries : delivery[d] # None => delivery[d].b \in Bindings
      BY DEF TypeOK, Delivery
    <3> QED
      BY <1>1, <2>1, <2>4, <2>5, <3>1 DEF Core, Refusable, Stored
  <2>12. Alone' /\ RecordsWhatDelivers'
    BY <1>1, <2>2 DEF Core, Alone, Sends, RecordsWhatDelivers
  <2> QED
    BY <2>6, <2>8, <2>9, <2>10, <2>11, <2>12 DEF Core
<1> QED
  BY <1>3, <1>4 DEF Insert

(* getCredential. *)
LEMMA LookupCore ==
  ASSUME TypeOK, Core, NEW r \in 1..MaxRequests, Lookup(r)
  PROVE  TypeOK' /\ Core'
<1>1. r \in Running /\ request[r].at = "lookup" /\ UNCHANGED <<doc, secret, hook, delivery, overlaps>>
  BY DEF Lookup
<1>2. troubles' \in 0..MaxTroubles
  BY TroubleType DEF Lookup
<1>3. CASE Answer(r)
  BY <1>1, <1>2, <1>3, AnswerCore
<1> DEFINE b == request[r].b
           to == IF request[r].hook = None THEN "register" ELSE "update"
           q == [[request[r] EXCEPT !.at = to] EXCEPT !.secret = secret[b]]
<1>4. CASE request' = [request EXCEPT ![r] = q] /\ secret[b] # None
  <2>1. b \in Bindings /\ secret[b] \in Secrets
    BY <1>1, <1>4, RequestType DEF TypeOK
  <2>2. q \in Request /\ q.at = to /\ q.op = request[r].op /\ q.b = b
        /\ q.hook = request[r].hook /\ q.secret = secret[b]
    BY <1>1, <2>1, RequestType DEF Request
  <2>3. to \in {"register", "update"} /\ (to = "register" <=> request[r].hook = None)
    OBVIOUS
  <2> HIDE DEF q, to
  <2>4. /\ request' \in [1..MaxRequests -> Request \cup {None}]
        /\ \A p : p \in Running' <=> p \in Running
        /\ \A p \in Running : request'[p] = IF p = r THEN q ELSE request[p]
    BY <1>1, <1>4, <2>2, Moves
  <2>5. \A p \in Running : /\ request'[p].at = IF p = r THEN to ELSE request[p].at
                           /\ request'[p].op = request[p].op
                           /\ request'[p].b = request[p].b
                           /\ request'[p].hook = request[p].hook
                           /\ request'[p].secret = IF p = r THEN secret[b] ELSE request[p].secret
    BY <2>2, <2>4
  <2>6. TypeOK'
    BY <1>1, <1>2, <2>4 DEF TypeOK
  <2>7. Lives'
    <3>1. \A p \in Running : Equipped(request'[p])
      BY <1>1, <1>4, <2>3, <2>5 DEF Core, Lives, Equipped
    <3>2. \A p \in Running : request'[p].at = "doc" => secret[request[p].b] = None
      BY <2>3, <2>5 DEF Core, Lives, Timely
    <3> QED
      BY <1>1, <2>3, <2>4, <2>5, <3>1, <3>2, LivesKept DEF Core, Lives, RegisteredNamesAHook
  <2>8. Owned'
    BY <1>1, <2>4, <2>5, OwnedKept DEF Core, Stored
  <2>9. Private'
    <3>1. \A p \in Running : request'[p].at = "credential" => p # r /\ request[p].at = "credential"
      BY <2>3, <2>5
    <3>2. \A p \in Running : request[p].at = "credential" => secret[b] # request[p].secret
      BY <2>1 DEF Core, Private
    <3>3. Private /\ UNCHANGED <<secret, hook, delivery>> /\ Running' = Running
      BY <1>1, <2>4 DEF Core
    <3> QED
      BY <2>5, <3>1, <3>2, <3>3 DEF Private
  <2>10. Refusable'
    BY <1>1, RefusableKept DEF Core, Stored
  <2>11. Alone'
    <3>1. \A p \in Running : overlaps = 0 => Sends(request[p])'
      BY <1>1, <2>5 DEF Core, Alone, Sends
    <3> QED
      BY <1>1, <2>4, <3>1, AloneKept DEF Core
  <2>12. RecordsWhatDelivers'
    BY <1>1, <2>3, <2>4, <2>5, RecordsKept DEF Core
  <2> QED
    BY <2>6, <2>7, <2>8, <2>9, <2>10, <2>11, <2>12 DEF Core
<1> QED
  BY <1>3, <1>4 DEF Lookup

(* The call fails, or its webhook does not become known. *)
LEMMA RefusedCore ==
  ASSUME TypeOK, Core, NEW r \in Running, request[r].at \in {"register", "update"},
         Refused(r), UNCHANGED <<doc, secret, hook, delivery, overlaps>>
  PROVE  TypeOK' /\ Core'
BY FailCore, TroubleType DEF Refused

(* A webhook under a new id, of which nobody has heard. *)
LEMMA NewHookCore ==
  ASSUME TypeOK, Core, NEW r \in Running, request[r].at = "register",
         NEW h \in Hooks, NewHook(h),
         hook' = [hook EXCEPT ![h] = [b |-> request[r].b, token |-> SecretSent(r)]]
  PROVE  /\ hook' \in [Hooks -> Webhook \cup {None}]
         /\ hook'[h] = [b |-> request[r].b, token |-> request[r].secret] /\ hook'[h] # None
         /\ \A g \in Hooks \ {h} : hook'[g] = hook[g]
         /\ \A b \in Bindings : Stored(b) => doc[b].hook # h
         /\ \A p \in Running : request[p].hook # h
         /\ hook[h] = None
<1>1. request[r].secret \in Secrets /\ request[r].b \in Bindings
  BY RequestType DEF Core, Lives, Equipped
<1>2. [b |-> request[r].b, token |-> request[r].secret] \in Webhook
  BY <1>1 DEF Webhook
<1>3. [b |-> request[r].b, token |-> request[r].secret] # None
  BY <1>2, NoneAssumption
<1> QED
  BY <1>2, <1>3 DEF TypeOK, SecretSent, NewHook, HookFree

(* POST /projects/:id/hooks. *)
LEMMA RegisterCore ==
  ASSUME TypeOK, Core, NEW r \in 1..MaxRequests, RegisterHook(r)
  PROVE  TypeOK' /\ Core'
<1>1. /\ r \in Running /\ request[r].at = "register"
      /\ UNCHANGED <<doc, secret, delivery, overlaps>>
  BY DEF RegisterHook
<1>2. CASE Refused(r) /\ UNCHANGED hook
  BY <1>1, <1>2, RefusedCore
<1>3. ASSUME NEW h \in Hooks, NewHook(h),
             hook' = [hook EXCEPT ![h] = [b |-> request[r].b, token |-> SecretSent(r)]],
             \/ /\ request' = [request EXCEPT ![r].at = "store", ![r].hook = h]
                /\ UNCHANGED troubles
             \/ Fail(r, "down") /\ Trouble
      PROVE  TypeOK' /\ Core'
  <2> DEFINE b == request[r].b
             s == request[r].secret
  <2>1. /\ hook' \in [Hooks -> Webhook \cup {None}]
        /\ hook'[h] = [b |-> b, token |-> s] /\ hook'[h] # None
        /\ \A g \in Hooks \ {h} : hook'[g] = hook[g]
        /\ \A c \in Bindings : Stored(c) => doc[c].hook # h
        /\ \A p \in Running : request[p].hook # h
    BY <1>1, <1>3, NewHookCore
  <2>2. troubles' \in 0..MaxTroubles
    BY <1>3, TroubleType
  <2>3. /\ request' \in [1..MaxRequests -> Request \cup {None}]
        /\ \A p : p \in Running' <=> p \in Running
        /\ \A p \in Running : /\ p # r => request'[p].at = request[p].at
                              /\ p # r => request'[p].hook = request[p].hook
                              /\ request'[p].op = request[p].op
                              /\ request'[p].b = request[p].b
                              /\ request'[p].secret = request[p].secret
        /\ \/ request'[r].at = "store" /\ request'[r].hook = h
           \/ request'[r].at = "failed" /\ request'[r].hook = request[r].hook
    <3>1. CASE Fail(r, "down")
      BY <1>1, <3>1, Fails
    <3>2. CASE request' = [request EXCEPT ![r].at = "store", ![r].hook = h]
      <4> DEFINE q == [[request[r] EXCEPT !.at = "store"] EXCEPT !.hook = h]
      <4>1. /\ q \in Request /\ q.at = "store" /\ q.hook = h
            /\ q.op = request[r].op /\ q.b = b /\ q.secret = s
        BY <1>1, RequestType DEF Request
      <4>2. request' = [request EXCEPT ![r] = q]
        BY <3>2
      <4> HIDE DEF q
      <4>3. /\ request' \in [1..MaxRequests -> Request \cup {None}]
            /\ \A p : p \in Running' <=> p \in Running
            /\ \A p \in Running : request'[p] = IF p = r THEN q ELSE request[p]
        BY <1>1, <4>1, <4>2, Moves
      <4> QED
        BY <1>1, <4>1, <4>3
    <3> QED
      BY <1>3, <3>1, <3>2
  <2>4. TypeOK'
    BY <1>1, <2>1, <2>2, <2>3 DEF TypeOK
  <2>5. Lives'
    <3>1. h # None
      BY BindingsAssumption DEF Hooks
    <3>2. \A p \in Running : Equipped(request'[p])
      BY <1>1, <2>3, <3>1 DEF Core, Lives, Equipped
    <3>3. \A p \in Running : request'[p].at = "doc" => secret[request[p].b] = None
      BY <2>3 DEF Core, Lives, Timely
    <3> QED
      BY <1>1, <2>3, <3>2, <3>3, LivesKept DEF Core, Lives, RegisteredNamesAHook
  <2>6. Owned'
    <3>1. \A c \in Bindings : Stored(c)' => Stored(c) /\ doc'[c] = doc[c]
      BY <1>1 DEF Stored
    <3>2. \A c \in Bindings : doc[c].hook \in Hooks \cup {None}
      BY DocType
    <3>3. \A p \in Running : request[p].hook \in Hooks \cup {None}
      BY RequestType
    <3>4. hook'[h].b = b
      BY <2>1
    <3>5. \A c \in Bindings : Stored(c)' /\ doc'[c].hook # None /\ hook'[doc'[c].hook] # None
            => hook'[doc'[c].hook].b = c
      BY <2>1, <3>1, <3>2 DEF Core, Owned
    <3>6. \A p \in Running' : request'[p].hook # None /\ hook'[request'[p].hook] # None
            => hook'[request'[p].hook].b = request'[p].b
      <4>1. \A p \in Running' : p # r => p \in Running /\ request'[p].hook = request[p].hook
                                      /\ request'[p].b = request[p].b /\ request[p].hook # h
        BY <2>1, <2>3
      <4>2. \A p \in Running' : p # r /\ request[p].hook # None
                                => hook'[request[p].hook] = hook[request[p].hook]
        BY <2>1, <3>3, <4>1
      <4>3. request'[r].hook = h \/ request'[r].hook = None
        BY <1>1, <2>3 DEF Core, Lives, Equipped
      <4>4. request'[r].b = b
        BY <1>1, <2>3
      <4> QED
        BY <3>4, <4>1, <4>2, <4>3, <4>4 DEF Core, Owned
    <3> QED
      BY <3>5, <3>6 DEF Owned
  <2>7. Private'
    <3>1. \A g \in Hooks : hook'[g] # None =>
            \/ hook[g] # None /\ hook'[g].token = hook[g].token
            \/ hook'[g].token = request[r].secret
      BY <2>1
    <3>2. \A p \in Running' :
           /\ p \in Running /\ request'[p].secret = request[p].secret
           /\ request'[p].at = "credential" => request[p].at = "credential"
      BY <2>3
    <3> QED
      BY <1>1, <3>1, <3>2, PrivateHookKept DEF Core
  <2>8. Refusable'
    BY <1>1, RefusableKept DEF Core, Stored
  <2>9. Alone'
    <3>1. \A p \in Running : overlaps = 0 => Sends(request[p])'
      BY <1>1, <2>3 DEF Core, Alone, Sends
    <3> QED
      BY <1>1, <2>3, <3>1, AloneKept DEF Core
  <2>10. RecordsWhatDelivers'
    <3> SUFFICES ASSUME NEW p \in Running', request'[p].at = "store", overlaps' = 0
                 PROVE  \/ hook'[request'[p].hook] = None
                        \/ secret'[request'[p].b] = None
                        \/ hook'[request'[p].hook]
                             = [b |-> request'[p].b, token |-> secret'[request'[p].b]]
      BY DEF RecordsWhatDelivers
    <3>1. p = r
      BY <1>1, <2>3 DEF Core, Alone
    <3>2. secret[b] = None \/ secret[b] = s
      BY <1>1 DEF Core, Alone, Sends
    <3> QED
      BY <1>1, <2>1, <2>3, <3>1, <3>2
  <2> QED
    BY <2>4, <2>5, <2>6, <2>7, <2>8, <2>9, <2>10 DEF Core
<1> QED
  BY <1>2, <1>3 DEF RegisterHook

(* PUT /projects/:id/hooks/:hook_id. *)
LEMMA UpdateHookCore ==
  ASSUME TypeOK, Core, NEW r \in 1..MaxRequests, UpdateHook(r)
  PROVE  TypeOK' /\ Core'
<1>1. /\ r \in Running /\ request[r].at = "update"
      /\ UNCHANGED <<doc, secret, delivery, overlaps>>
  BY DEF UpdateHook
<1>2. CASE Refused(r) /\ UNCHANGED hook
  BY <1>1, <1>2, RefusedCore
<1>3. CASE Fail(r, "denied") /\ UNCHANGED <<hook, troubles>>
  BY <1>1, <1>3, FailCore, TroubleType
<1> DEFINE h == request[r].hook
           s == request[r].secret
<1>4. CASE /\ hook[h] # None
           /\ hook' = [hook EXCEPT ![h].token = SecretSent(r)]
           /\ Go(r, "store")
           /\ UNCHANGED troubles
  <2>1. h \in Hooks /\ s \in Secrets
    BY <1>1, RequestType DEF Core, Lives, Equipped
  <2>2. /\ hook' \in [Hooks -> Webhook \cup {None}]
        /\ hook'[h] = [hook[h] EXCEPT !.token = s] /\ hook'[h] # None
        /\ \A g \in Hooks \ {h} : hook'[g] = hook[g]
    <3>1. [hook[h] EXCEPT !.token = s] \in Webhook
      BY <1>4, <2>1 DEF TypeOK, Webhook
    <3>2. [hook[h] EXCEPT !.token = s] # None
      BY <3>1, NoneAssumption
    <3> QED
      BY <1>4, <2>1, <3>1, <3>2 DEF TypeOK, SecretSent
  <2>3. hook'[h].token = s /\ hook'[h].b = hook[h].b
        /\ hook'[h] = [b |-> hook[h].b, token |-> s]
    BY <1>4, <2>1, <2>2 DEF TypeOK, Webhook
  <2>4. /\ request' \in [1..MaxRequests -> Request \cup {None}]
        /\ \A p : p \in Running' <=> p \in Running
        /\ \A p \in Running : /\ request'[p].at = IF p = r THEN "store" ELSE request[p].at
                              /\ request'[p].op = request[p].op
                              /\ request'[p].b = request[p].b
                              /\ request'[p].hook = request[p].hook
                              /\ request'[p].secret = request[p].secret
    BY <1>1, <1>4, Goes DEF Places
  <2>5. TypeOK'
    BY <1>1, <1>4, <2>2, <2>4 DEF TypeOK
  <2>6. Lives'
    <3>1. \A p \in Running : Equipped(request'[p])
      BY <1>1, <2>4 DEF Core, Lives, Equipped
    <3>2. \A p \in Running : request'[p].at = "doc" => secret[request[p].b] = None
      BY <2>4 DEF Core, Lives, Timely
    <3> QED
      BY <1>1, <2>4, <3>1, <3>2, LivesKept DEF Core, Lives, RegisteredNamesAHook
  <2>7. Owned'
    <3>1. \A c \in Bindings : Stored(c)' => Stored(c) /\ doc'[c] = doc[c]
      BY <1>1 DEF Stored
    <3>2. \A c \in Bindings : doc[c].hook \in Hooks \cup {None}
      BY DocType
    <3>3. \A p \in Running : request[p].hook \in Hooks \cup {None}
      BY RequestType
    <3>4. \A g \in Hooks : hook'[g] # None => hook[g] # None /\ hook'[g].b = hook[g].b
      BY <1>4, <2>2, <2>3
    <3> QED
      BY <2>4, <3>1, <3>2, <3>3, <3>4 DEF Core, Owned
  <2>8. Private'
    <3>1. \A g \in Hooks : hook'[g] # None =>
            \/ hook[g] # None /\ hook'[g].token = hook[g].token
            \/ hook'[g].token = request[r].secret
      BY <2>2, <2>3
    <3>2. \A p \in Running' :
           /\ p \in Running /\ request'[p].secret = request[p].secret
           /\ request'[p].at = "credential" => request[p].at = "credential"
      BY <2>4
    <3> QED
      BY <1>1, <3>1, <3>2, PrivateHookKept DEF Core
  <2>9. Refusable'
    BY <1>1, RefusableKept DEF Core, Stored
  <2>10. Alone'
    <3>1. \A p \in Running : overlaps = 0 => Sends(request[p])'
      BY <1>1, <2>4 DEF Core, Alone, Sends
    <3> QED
      BY <1>1, <2>4, <3>1, AloneKept DEF Core
  <2>11. RecordsWhatDelivers'
    <3> SUFFICES ASSUME NEW p \in Running', request'[p].at = "store", overlaps' = 0
                 PROVE  \/ hook'[request'[p].hook] = None
                        \/ secret'[request'[p].b] = None
                        \/ hook'[request'[p].hook]
                             = [b |-> request'[p].b, token |-> secret'[request'[p].b]]
      BY DEF RecordsWhatDelivers
    <3>1. p = r
      BY <1>1, <2>4 DEF Core, Alone
    <3>2. secret[request[r].b] = None \/ secret[request[r].b] = s
      BY <1>1 DEF Core, Alone, Sends
    <3>3. hook[h].b = request[r].b
      BY <1>1, <1>4, <2>1, BindingsAssumption DEF Core, Owned, Hooks
    <3> QED
      BY <1>1, <2>3, <2>4, <3>1, <3>2, <3>3
  <2> QED
    BY <2>5, <2>6, <2>7, <2>8, <2>9, <2>10, <2>11 DEF Core
<1> QED
  BY <1>2, <1>3, <1>4 DEF UpdateHook

(* DELETE /projects/:id/hooks/:hook_id, whatever comes of it. *)
LEMMA DeregisterCore ==
  ASSUME TypeOK, Core, NEW r \in 1..MaxRequests, DeregisterHook(r)
  PROVE  TypeOK' /\ Core'
<1> DEFINE h == request[r].hook
           to == IF request[r].op = "delete" THEN "secret" ELSE "register"
           q == [[request[r] EXCEPT !.at = to] EXCEPT !.hook = None]
<1>1. /\ r \in Running /\ request[r].at = "deregister"
      /\ UNCHANGED <<doc, secret, delivery, overlaps>>
      /\ request' = [request EXCEPT ![r] = q]
  BY DEF DeregisterHook
<1>2. h \in Hooks /\ (request[r].op # "delete" => request[r].secret # None)
  BY <1>1, RequestType DEF Core, Lives, Equipped
<1>3. /\ hook' \in [Hooks -> Webhook \cup {None}]
      /\ \A g \in Hooks : hook'[g] = None \/ hook'[g] = hook[g]
  BY <1>2 DEF DeregisterHook, TypeOK
<1>4. troubles' \in 0..MaxTroubles
  BY TroubleType DEF DeregisterHook
<1>5. /\ q \in Request /\ q.at = to /\ q.op = request[r].op /\ q.b = request[r].b
      /\ q.hook = None /\ q.secret = request[r].secret
  BY <1>1, RequestType DEF Request
<1>6. to \in {"secret", "register"} /\ (to = "secret" <=> request[r].op = "delete")
  OBVIOUS
<1> HIDE DEF q, to
<1>7. /\ request' \in [1..MaxRequests -> Request \cup {None}]
      /\ \A p : p \in Running' <=> p \in Running
      /\ \A p \in Running : request'[p] = IF p = r THEN q ELSE request[p]
  BY <1>1, <1>5, Moves
<1>8. \A p \in Running : /\ request'[p].at = IF p = r THEN to ELSE request[p].at
                         /\ request'[p].op = request[p].op
                         /\ request'[p].b = request[p].b
                         /\ request'[p].hook = IF p = r THEN None ELSE request[p].hook
                         /\ request'[p].secret = request[p].secret
  BY <1>5, <1>7
<1>9. TypeOK'
  BY <1>1, <1>3, <1>4, <1>7 DEF TypeOK
<1>10. Lives'
  <2>1. \A p \in Running : Equipped(request'[p])
    BY <1>1, <1>2, <1>6, <1>8 DEF Core, Lives, Equipped
  <2>2. \A p \in Running : request'[p].at = "doc" => secret[request[p].b] = None
    BY <1>6, <1>8 DEF Core, Lives, Timely
  <2> QED
    <3>1. \A p \in Running' :
           /\ p \in Running /\ request'[p].b = request[p].b
           /\ Equipped(request'[p])
           /\ request'[p].at = "insert" <=> request[p].at = "insert"
           /\ request'[p].at = "doc" => secret'[request[p].b] = None
      <4>1. \A p \in Running : request'[p].at = "insert" <=> request[p].at = "insert"
        BY <1>1, <1>6, <1>8
      <4>2. \A p \in Running : request'[p].b = request[p].b
        BY <1>8
      <4>3. secret' = secret /\ \A p : p \in Running' <=> p \in Running
        BY <1>1, <1>7
      <4> QED
        BY <2>1, <2>2, <4>1, <4>2, <4>3
    <3>2. \A c \in Bindings :
           /\ doc'[c].life = doc[c].life
           /\ secret[c] = None => secret'[c] = None
           /\ Stored(c) /\ doc'[c].registered => doc'[c].hook # None
      BY <1>1 DEF Core, Lives, RegisteredNamesAHook
    <3> QED
      BY <3>1, <3>2, LivesKept DEF Core
<1>11. Owned'
  <2>1. \A c \in Bindings : Stored(c)' => Stored(c) /\ doc'[c] = doc[c]
    BY <1>1 DEF Stored
  <2>2. \A c \in Bindings : doc[c].hook \in Hooks \cup {None}
    BY DocType
  <2>3. \A p \in Running : request[p].hook \in Hooks \cup {None}
    BY RequestType
  <2>4. \A p \in Running' : request'[p].hook # None => p \in Running
           /\ request'[p].hook = request[p].hook /\ request'[p].b = request[p].b
    BY <1>7, <1>8
  <2> QED
    BY <1>3, <2>1, <2>2, <2>3, <2>4 DEF Core, Owned
<1>12. Private'
  <2>1. \A p \in Running' :
           /\ p \in Running /\ request'[p].secret = request[p].secret
           /\ request'[p].at = "credential" => request[p].at = "credential"
    BY <1>6, <1>7, <1>8
  <2> QED
    BY <1>1, <1>3, <2>1, PrivateHookKept DEF Core
<1>13. Refusable'
  BY <1>1, RefusableKept DEF Core, Stored
<1>14. Alone'
  <2>1. \A p \in Running : overlaps = 0 => Sends(request[p])'
    BY <1>1, <1>6, <1>8 DEF Core, Alone, Sends
  <2> QED
    BY <1>1, <1>7, <2>1, AloneKept DEF Core
<1>15. RecordsWhatDelivers'
  <2>1. \A p \in Running' : request'[p].at = "store" =>
          /\ p \in Running /\ request[p].at = "store" /\ request[p].hook \in Hooks
          /\ request'[p].b = request[p].b /\ request'[p].hook = request[p].hook
    BY <1>6, <1>7, <1>8, RequestType DEF Core, Lives, Equipped
  <2>2. \A p \in Running' : request'[p].at = "store" =>
          hook'[request[p].hook] = None \/ hook'[request[p].hook] = hook[request[p].hook]
    BY <1>3, <2>1
  <2>3. RecordsWhatDelivers /\ UNCHANGED <<secret, overlaps>>
    BY <1>1 DEF Core
  <2> QED
    BY <2>1, <2>2, <2>3 DEF RecordsWhatDelivers
<1> QED
  BY <1>9, <1>10, <1>11, <1>12, <1>13, <1>14, <1>15 DEF Core

(* A request ends with a write of fields other than `disabled'. *)
LEMMA WriteCore ==
  ASSUME TypeOK, Core, NEW r \in Running, Answer(r), NEW f \in Doc,
         updateBinding(request[r].b, f),
         f.registered => f.hook # None,
         \/ f.hook = None \/ f.hook = request[r].hook
         \/ f.hook = doc[request[r].b].hook,
         f.disabled = doc[request[r].b].disabled,
         UNCHANGED <<secret, hook, delivery, overlaps, troubles>>
  PROVE  TypeOK' /\ Core'
<1> DEFINE b == request[r].b
<1>1. b \in Bindings
  BY RequestType
<1>2. /\ request' \in [1..MaxRequests -> Request \cup {None}]
      /\ \A p \in Running' : p \in Running /\ request'[p] = request[p]
  BY Ends
<1>3. /\ doc' \in [Bindings -> Doc]
      /\ \A c \in Bindings : doc'[c].life = doc[c].life
      /\ \A c \in Bindings : c # b \/ ~Stored(b) => doc'[c] = doc[c]
      /\ Stored(b) => /\ doc'[b].hook = f.hook /\ doc'[b].registered = f.registered
                      /\ doc'[b].disabled = f.disabled
  BY <1>1, UpdatesDoc
<1>4. TypeOK'
  BY <1>2, <1>3 DEF TypeOK
<1>5. Lives'
  <2>1. \A c \in Bindings : Stored(c) /\ doc'[c].registered => doc'[c].hook # None
    BY <1>3 DEF Core, Lives, RegisteredNamesAHook
  <2>2. \A p \in Running' : Equipped(request'[p])
                            /\ (request'[p].at = "doc" => secret[request[p].b] = None)
    BY <1>2 DEF Core, Lives, Timely
  <2> QED
    BY <1>2, <1>3, <2>1, <2>2, LivesKept DEF Core
<1>6. Owned'
  <2>1. \A c \in Bindings : Stored(c)' => Stored(c)
    BY <1>3 DEF Stored
  <2>2. \A c \in Bindings : Stored(c)' =>
          doc'[c].hook = doc[c].hook \/ doc'[c].hook = None
            \/ (c = b /\ doc'[c].hook = request[r].hook)
    BY <1>3, <2>1
  <2> QED
    BY <1>2, <2>1, <2>2 DEF Core, Owned
<1>7. Private'
  BY <1>2, PrivateKept DEF Core
<1>8. Refusable'
  <2>1. \A c \in Bindings : /\ doc'[c].life = doc[c].life
                            /\ Stored(c) => doc'[c].disabled = doc[c].disabled
    BY <1>3
  <2> QED
    BY <2>1, RefusableKept DEF Core, Stored
<1>9. Alone' /\ RecordsWhatDelivers'
  BY <1>2 DEF Core, Alone, Sends, RecordsWhatDelivers
<1> QED
  BY <1>4, <1>5, <1>6, <1>7, <1>8, <1>9 DEF Core

(* The webhook's id is stored. *)
LEMMA StoreCore ==
  ASSUME TypeOK, Core, NEW r \in 1..MaxRequests, Store(r)
  PROVE  TypeOK' /\ Core'
<1> DEFINE b == request[r].b
           f == [[doc[b] EXCEPT !.hook = request[r].hook] EXCEPT !.registered = TRUE]
<1>1. r \in Running /\ request[r].at = "store" /\ updateBinding(b, f) /\ Answer(r)
      /\ UNCHANGED <<secret, hook, delivery, troubles, overlaps>>
  BY DEF Store
<1>2. b \in Bindings /\ request[r].hook \in Hooks
  BY <1>1, RequestType DEF Core, Lives, Equipped
<1>3. f \in Doc /\ f.hook = request[r].hook /\ f.disabled = doc[b].disabled
  BY <1>2, DocType DEF Doc
<1>4. f.hook # None
  BY <1>1, <1>3 DEF Core, Lives, Equipped
<1> HIDE DEF f
<1> QED
  BY <1>1, <1>3, <1>4, WriteCore

(* The catch clauses. *)
LEMMA HandleErrorCore ==
  ASSUME TypeOK, Core, NEW r \in 1..MaxRequests, HandleError(r)
  PROVE  TypeOK' /\ Core'
<1> DEFINE b == request[r].b
           f == IF request[r].op = "rotate" THEN Unset(doc[b])
                ELSE [doc[b] EXCEPT !.registered = FALSE]
<1>1. r \in Running /\ request[r].at = "failed" /\ UNCHANGED <<secret, hook, troubles, overlaps>>
  BY DEF HandleError
<1>2. CASE updateBinding(b, f) /\ Answer(r) /\ UNCHANGED delivery
  <2>1. b \in Bindings
    BY <1>1, RequestType
  <2>2. /\ f \in Doc /\ ~f.registered /\ f.disabled = doc[b].disabled
        /\ f.hook = None \/ f.hook = doc[b].hook
    BY <2>1, DocType DEF Doc, Unset
  <2> HIDE DEF f
  <2> QED
    BY <1>1, <1>2, <2>2, WriteCore
<1>3. CASE Throw(r) /\ UNCHANGED doc
  BY <1>1, <1>3, AnswerCore, DownCore, TroubleType DEF Throw
<1> QED
  BY <1>2, <1>3 DEF HandleError

(* rotateCredential: the secret that was private becomes the stored one. *)
LEMMA RotateCore ==
  ASSUME TypeOK, Core, NEW r \in 1..MaxRequests, RotateCredential(r)
  PROVE  TypeOK' /\ Core'
<1> DEFINE b == request[r].b
           s == request[r].secret
<1>1. /\ r \in Running /\ request[r].at = "credential"
      /\ UNCHANGED <<doc, hook, delivery, overlaps>>
      /\ secret' = [secret EXCEPT ![b] = AfterRotation(secret[b], s)]
  BY DEF RotateCredential
<1>2. b \in Bindings /\ s \in Secrets /\ s # None
  BY <1>1, RequestType DEF Core, Lives, Equipped
<1>3. /\ secret' \in [Bindings -> Secrets \cup {None}]
      /\ \A c \in Bindings : secret'[c] = secret[c] \/ (c = b /\ secret'[c] = s)
      /\ \A c \in Bindings : secret[c] = None => secret'[c] = None
      /\ secret'[b] = None \/ secret'[b] = s
  BY <1>1, <1>2 DEF TypeOK, AfterRotation
<1>4. troubles' \in 0..MaxTroubles
  BY TroubleType DEF RotateCredential
<1>5. /\ request' \in [1..MaxRequests -> Request \cup {None}]
      /\ \A p \in Running' : /\ p \in Running
                             /\ request'[p].at = IF p = r THEN "deregister" ELSE request[p].at
                             /\ request'[p].op = request[p].op
                             /\ request'[p].b = request[p].b
                             /\ request'[p].hook = request[p].hook
                             /\ request'[p].secret = request[p].secret
      /\ r \in Running' => request[r].hook # None
  <2>1. CASE Answer(r)
    BY <1>1, <2>1, Ends
  <2>2. CASE request[r].hook # None /\ Go(r, "deregister")
    <3>1. /\ request' \in [1..MaxRequests -> Request \cup {None}]
          /\ \A p : p \in Running' <=> p \in Running
          /\ \A p \in Running : /\ request'[p].at = IF p = r THEN "deregister" ELSE request[p].at
                                /\ request'[p].op = request[p].op
                                /\ request'[p].b = request[p].b
                                /\ request'[p].hook = request[p].hook
                                /\ request'[p].secret = request[p].secret
      BY <1>1, <2>2, Goes DEF Places
    <3> QED
      BY <2>2, <3>1
  <2> QED
    BY <2>1, <2>2 DEF RotateCredential
<1>6. TypeOK'
  BY <1>1, <1>3, <1>4, <1>5 DEF TypeOK
<1>7. Lives'
  <2>1. \A p \in Running' : Equipped(request'[p])
    <3>1. \A p \in Running' : p # r => Equipped(request'[p])
      BY <1>5 DEF Core, Lives, Equipped
    <3>2. r \in Running' => Equipped(request'[r])
      BY <1>2, <1>5 DEF Equipped
    <3> QED
      BY <3>1, <3>2
  <2>2. \A p \in Running' : request'[p].at = "doc" => secret'[request[p].b] = None
    BY <1>3, <1>5, RequestType DEF Core, Lives, Timely
  <2>3. \A p \in Running' :
           /\ p \in Running /\ request'[p].b = request[p].b
           /\ request'[p].at = "insert" <=> request[p].at = "insert"
    BY <1>1, <1>5
  <2>4. \A c \in Bindings :
           /\ doc'[c].life = doc[c].life
           /\ secret[c] = None => secret'[c] = None
           /\ Stored(c) /\ doc'[c].registered => doc'[c].hook # None
    BY <1>1, <1>3 DEF Core, Lives, RegisteredNamesAHook
  <2> QED
    BY <2>1, <2>2, <2>3, <2>4, LivesKept DEF Core
<1>8. Owned'
  BY <1>1, <1>5, OwnedKept DEF Core, Stored
<1>9. Private'
  <2> SUFFICES ASSUME NEW p \in Running', request'[p].at = "credential"
               PROVE  /\ \A c \in Bindings : secret'[c] # request'[p].secret
                      /\ \A h \in Hooks : hook'[h] # None => hook'[h].token # request'[p].secret
                      /\ \A q \in Running' \ {p} : request'[q].secret # request'[p].secret
                      /\ \A d \in 1..MaxDeliveries :
                           delivery'[d] # None => delivery'[d].token # request'[p].secret
    BY DEF Private
  <2>1. /\ p \in Running /\ p # r /\ request[p].at = "credential"
        /\ request'[p].secret = request[p].secret
    BY <1>5
  <2>2. s # request[p].secret
    BY <1>1, <2>1 DEF Core, Private
  <2>3. \A c \in Bindings : secret'[c] # request[p].secret
    BY <1>3, <2>1, <2>2 DEF Core, Private
  <2>4. \A q \in Running' \ {p} : request'[q].secret # request[p].secret
    BY <1>5, <2>1 DEF Core, Private
  <2> QED
    BY <1>1, <2>1, <2>3, <2>4 DEF Core, Private
<1>10. Refusable'
  <2>1. \A d \in 1..MaxDeliveries : delivery[d] # None =>
          delivery[d].b \in Bindings /\ delivery[d].token # s
    BY <1>1 DEF Core, Private, TypeOK, Delivery
  <2>2. \A d \in 1..MaxDeliveries : delivery[d] # None =>
          (secret'[delivery[d].b] = delivery[d].token => secret[delivery[d].b] = delivery[d].token)
    BY <1>3, <2>1
  <2> QED
    BY <1>1, <2>2 DEF Core, Refusable, Stored
<1>11. Alone' /\ RecordsWhatDelivers'
  <2>1. overlaps = 0 => \A p \in Running : p = r
    BY <1>1 DEF Core, Alone
  <2>2. \A p \in Running' : overlaps = 0 => Sends(request[p])'
    BY <1>3, <1>5, <2>1 DEF Sends
  <2>3. \A p \in Running' : overlaps = 0 => request'[p].at # "store"
    BY <1>5, <2>1
  <2> QED
    BY <1>1, <1>5, <2>1, <2>2, <2>3, AloneKept DEF Core, RecordsWhatDelivers
<1> QED
  BY <1>6, <1>7, <1>8, <1>9, <1>10, <1>11 DEF Core

(* The deletion's second step. *)
LEMMA DeleteSecretCore ==
  ASSUME TypeOK, Core, NEW r \in 1..MaxRequests, DeleteSecret(r)
  PROVE  TypeOK' /\ Core'
<1> DEFINE b == request[r].b
<1>1. /\ r \in Running /\ request[r].at = "secret"
      /\ UNCHANGED <<doc, hook, delivery, troubles, overlaps>>
      /\ secret' = [secret EXCEPT ![b] = None]
      /\ Go(r, "doc")
  BY DEF DeleteSecret
<1>2. b \in Bindings
  BY <1>1, RequestType
<1>3. /\ secret' \in [Bindings -> Secrets \cup {None}]
      /\ \A c \in Bindings : secret'[c] = IF c = b THEN None ELSE secret[c]
  BY <1>1, <1>2 DEF TypeOK
<1>4. /\ request' \in [1..MaxRequests -> Request \cup {None}]
      /\ \A p : p \in Running' <=> p \in Running
      /\ \A p \in Running : /\ request'[p].at = IF p = r THEN "doc" ELSE request[p].at
                            /\ request'[p].op = request[p].op
                            /\ request'[p].b = request[p].b
                            /\ request'[p].hook = request[p].hook
                            /\ request'[p].secret = request[p].secret
  BY <1>1, Goes DEF Places
<1>5. TypeOK'
  BY <1>1, <1>3, <1>4 DEF TypeOK
<1>6. Lives'
  <2>1. \A p \in Running' : Equipped(request'[p])
    <3>1. \A p \in Running : p # r => Equipped(request'[p])
      BY <1>4 DEF Core, Lives, Equipped
    <3>2. Equipped(request'[r])
      BY <1>1, <1>4 DEF Core, Lives, Equipped
    <3> QED
      BY <1>4, <3>1, <3>2
  <2>2. \A p \in Running' : request'[p].at = "doc" => secret'[request[p].b] = None
    BY <1>2, <1>3, <1>4, RequestType DEF Core, Lives, Timely
  <2>3. \A p \in Running' :
           /\ p \in Running /\ request'[p].b = request[p].b
           /\ request'[p].at = "insert" <=> request[p].at = "insert"
    BY <1>1, <1>4
  <2>4. \A c \in Bindings :
           /\ doc'[c].life = doc[c].life
           /\ secret[c] = None => secret'[c] = None
           /\ Stored(c) /\ doc'[c].registered => doc'[c].hook # None
    BY <1>1, <1>3 DEF Core, Lives, RegisteredNamesAHook
  <2> QED
    BY <2>1, <2>2, <2>3, <2>4, LivesKept DEF Core
<1>7. Owned'
  BY <1>1, <1>4, OwnedKept DEF Core, Stored
<1>8. Private'
  <2> SUFFICES ASSUME NEW p \in Running', request'[p].at = "credential"
               PROVE  /\ \A c \in Bindings : secret'[c] # request'[p].secret
                      /\ \A h \in Hooks : hook'[h] # None => hook'[h].token # request'[p].secret
                      /\ \A q \in Running' \ {p} : request'[q].secret # request'[p].secret
                      /\ \A d \in 1..MaxDeliveries :
                           delivery'[d] # None => delivery'[d].token # request'[p].secret
    BY DEF Private
  <2>1. /\ p \in Running /\ request[p].at = "credential"
        /\ request'[p].secret = request[p].secret
    BY <1>1, <1>4
  <2>2. request[p].secret # None
    BY <2>1 DEF Core, Lives, Equipped
  <2>3. \A c \in Bindings : secret'[c] # request[p].secret
    BY <1>3, <2>1, <2>2 DEF Core, Private
  <2>4. \A q \in Running' \ {p} : request'[q].secret # request[p].secret
    BY <1>4, <2>1 DEF Core, Private
  <2> QED
    BY <1>1, <2>1, <2>3, <2>4 DEF Core, Private
<1>9. Refusable'
  <2>1. \A d \in 1..MaxDeliveries : delivery[d] # None => delivery[d].b \in Bindings
    BY DEF TypeOK, Delivery
  <2>2. \A d \in 1..MaxDeliveries : delivery[d] # None /\ delivery[d].token # None =>
          (secret'[delivery[d].b] = delivery[d].token => secret[delivery[d].b] = delivery[d].token)
    BY <1>3, <2>1
  <2> QED
    BY <1>1, <2>2 DEF Core, Refusable, Stored
<1>10. Alone' /\ RecordsWhatDelivers'
  <2>1. overlaps = 0 => \A p \in Running : p = r
    BY <1>1 DEF Core, Alone
  <2>2. \A p \in Running' : overlaps = 0 => Sends(request[p])'
    BY <1>4, <2>1 DEF Sends
  <2>3. \A p \in Running' : overlaps = 0 => request'[p].at # "store"
    BY <1>4, <2>1
  <2> QED
    BY <1>1, <1>4, <2>1, <2>2, <2>3, AloneKept DEF Core, RecordsWhatDelivers
<1> QED
  BY <1>5, <1>6, <1>7, <1>8, <1>9, <1>10 DEF Core

(* The deletion's last step. *)
LEMMA DeleteDocCore ==
  ASSUME TypeOK, Core, NEW r \in 1..MaxRequests, DeleteDoc(r)
  PROVE  TypeOK' /\ Core'
<1> DEFINE b == request[r].b
<1>1. /\ r \in Running /\ request[r].at = "doc"
      /\ UNCHANGED <<secret, hook, delivery, troubles, overlaps>>
      /\ doc' = [doc EXCEPT ![b] = NewDoc("gone")]
      /\ Answer(r)
  BY DEF DeleteDoc
<1>2. b \in Bindings /\ doc[b].life # "unborn" /\ secret[b] = None
  BY <1>1, RequestType DEF Core, Lives, Timely
<1>3. NewDoc("gone") \in Doc /\ NewDoc("gone").life = "gone"
  BY DEF NewDoc, Doc
<1>4. /\ doc' \in [Bindings -> Doc]
      /\ \A c \in Bindings : doc'[c] = IF c = b THEN NewDoc("gone") ELSE doc[c]
  BY <1>1, <1>2, <1>3 DEF TypeOK
<1>5. /\ request' \in [1..MaxRequests -> Request \cup {None}]
      /\ \A p \in Running' : p \in Running /\ request'[p] = request[p]
  BY <1>1, Ends
<1>6. TypeOK'
  BY <1>1, <1>4, <1>5 DEF TypeOK
<1>7. Lives'
  <2>1. \A p \in Running' : request[p].b \in Bindings
    BY <1>5, RequestType
  <2>2. \A c \in Bindings : doc'[c].life = "unborn" <=> doc[c].life = "unborn"
    BY <1>2, <1>3, <1>4
  <2>3. \A p \in Running' : Timely(request[p])'
    BY <1>1, <1>5, <2>1, <2>2 DEF Core, Lives, Timely
  <2>4. \A p \in Running' : Equipped(request[p])'
    BY <1>5 DEF Core, Lives, Equipped
  <2>5. \A c \in Bindings : doc'[c].life = "gone" => secret'[c] = None
    BY <1>1, <1>2, <1>4 DEF Core, Lives
  <2>6. RegisteredNamesAHook'
    BY <1>3, <1>4 DEF Core, Lives, RegisteredNamesAHook, Stored
  <2> QED
    BY <1>5, <2>3, <2>4, <2>5, <2>6 DEF Core, Lives
<1>8. Owned'
  BY <1>1, <1>3, <1>4, <1>5, OwnedKept DEF Core, Stored
<1>9. Private'
  BY <1>1, <1>5, PrivateKept DEF Core
<1>10. Refusable'
  BY <1>1, <1>3, <1>4, RefusableKept DEF Core, Stored
<1>11. Alone' /\ RecordsWhatDelivers'
  BY <1>1, <1>5 DEF Core, Alone, Sends, RecordsWhatDelivers
<1> QED
  BY <1>6, <1>7, <1>8, <1>9, <1>10, <1>11 DEF Core

(* PATCH {disabled}. *)
LEMMA SetDisabledCore ==
  ASSUME TypeOK, Core, NEW r \in 1..MaxRequests, NEW flag \in BOOLEAN, SetDisabled(r, flag)
  PROVE  TypeOK' /\ Core'
<1> DEFINE b == request[r].b
           f == [doc[b] EXCEPT !.disabled = flag]
           Lifted(d) == ~flag /\ d \in Waiting /\ delivery[d].b = b
<1>1. /\ r \in Running /\ request[r].at = "patch"
      /\ UNCHANGED <<secret, hook, troubles, overlaps>>
      /\ updateBinding(b, f) /\ Answer(r)
      /\ delivery' = [d \in DOMAIN delivery |->
           IF Lifted(d) THEN [delivery[d] EXCEPT !.paused = FALSE] ELSE delivery[d]]
  BY DEF SetDisabled
<1>2. b \in Bindings
  BY <1>1, RequestType
<1>3. /\ f \in Doc /\ f.hook = doc[b].hook /\ f.registered = doc[b].registered
      /\ f.disabled = flag
  BY <1>2, DocType DEF Doc
<1> HIDE DEF f
<1>4. /\ doc' \in [Bindings -> Doc]
      /\ \A c \in Bindings : doc'[c].life = doc[c].life
      /\ \A c \in Bindings : c # b \/ ~Stored(b) => doc'[c] = doc[c]
      /\ Stored(b) => /\ doc'[b].hook = doc[b].hook
                      /\ doc'[b].registered = doc[b].registered
                      /\ doc'[b].disabled = flag
  BY <1>1, <1>2, <1>3, UpdatesDoc
<1>5. /\ request' \in [1..MaxRequests -> Request \cup {None}]
      /\ \A p \in Running' : p \in Running /\ request'[p] = request[p]
  BY <1>1, Ends
<1>6. \A d \in Waiting : d \in 1..MaxDeliveries /\ delivery[d] \in Delivery /\ delivery[d] # None
  BY DEF TypeOK, Waiting
<1>7. \A d \in Waiting :
        LET e == [delivery[d] EXCEPT !.paused = FALSE]
        IN  /\ e \in Delivery /\ e.at = delivery[d].at /\ e.b = delivery[d].b
            /\ e.token = delivery[d].token /\ e.current = delivery[d].current /\ ~e.paused
  BY <1>6 DEF Delivery
<1>8. \A d \in 1..MaxDeliveries :
        /\ delivery'[d] \in Delivery \cup {None}
        /\ delivery'[d] # None =>
             /\ delivery[d] # None
             /\ delivery'[d].at = delivery[d].at /\ delivery'[d].b = delivery[d].b
             /\ delivery'[d].token = delivery[d].token
             /\ delivery'[d].current = delivery[d].current
             /\ delivery'[d].paused => ~Lifted(d) /\ delivery[d].paused
  <2>1. \A d \in 1..MaxDeliveries : delivery'[d] =
          IF Lifted(d) THEN [delivery[d] EXCEPT !.paused = FALSE] ELSE delivery[d]
    BY <1>1 DEF TypeOK
  <2>2. \A d \in 1..MaxDeliveries : delivery[d] \in Delivery \cup {None}
    BY DEF TypeOK
  <2>3. \A d \in 1..MaxDeliveries : Lifted(d) => d \in Waiting /\ delivery[d] # None
    BY <1>6
  <2> HIDE DEF Lifted
  <2> QED
    BY <1>7, <2>1, <2>2, <2>3
<1>9. TypeOK'
  <2>1. delivery' \in [1..MaxDeliveries -> Delivery \cup {None}]
    BY <1>1, <1>8 DEF TypeOK
  <2> QED
    BY <1>1, <1>4, <1>5, <2>1 DEF TypeOK
<1>10. Lives'
  <2>1. \A c \in Bindings : Stored(c) /\ doc'[c].registered => doc'[c].hook # None
    BY <1>4 DEF Core, Lives, RegisteredNamesAHook
  <2>2. \A p \in Running' : Equipped(request'[p])
                            /\ (request'[p].at = "doc" => secret'[request[p].b] = None)
    BY <1>1, <1>5 DEF Core, Lives, Timely
  <2> QED
    BY <1>1, <1>4, <1>5, <2>1, <2>2, LivesKept DEF Core
<1>11. Owned'
  BY <1>1, <1>4, <1>5, OwnedKept DEF Core, Stored
<1>12. Private'
  <2>1. \A d \in 1..MaxDeliveries : delivery'[d] # None =>
          delivery[d] # None /\ delivery'[d].token = delivery[d].token
    BY <1>8
  <2> SUFFICES ASSUME NEW p \in Running', request'[p].at = "credential"
               PROVE  /\ \A c \in Bindings : secret'[c] # request'[p].secret
                      /\ \A h \in Hooks : hook'[h] # None => hook'[h].token # request'[p].secret
                      /\ \A q \in Running' \ {p} : request'[q].secret # request'[p].secret
                      /\ \A d \in 1..MaxDeliveries :
                           delivery'[d] # None => delivery'[d].token # request'[p].secret
    BY DEF Private
  <2>2. p \in Running /\ request'[p] = request[p]
    BY <1>5
  <2>3. \A q \in Running' : q \in Running /\ request'[q] = request[q]
    BY <1>5
  <2>4. /\ \A c \in Bindings : secret[c] # request[p].secret
        /\ \A h \in Hooks : hook[h] # None => hook[h].token # request[p].secret
        /\ \A q \in Running \ {p} : request[q].secret # request[p].secret
        /\ \A d \in 1..MaxDeliveries : delivery[d] # None => delivery[d].token # request[p].secret
    BY <2>2 DEF Core, Private
  <2> QED
    BY <1>1, <2>1, <2>2, <2>3, <2>4
<1>13. Refusable'
  <2>1. ASSUME NEW d \in 1..MaxDeliveries, delivery'[d] # None
        PROVE  /\ delivery'[d].at = "enqueued" => ~delivery'[d].paused /\ delivery'[d].current
               /\ delivery'[d].at = "secret" => ~delivery'[d].paused
               /\ delivery'[d].at = "binding" /\ delivery'[d].paused =>
                    /\ doc'[delivery'[d].b].life # "unborn"
                    /\ doc'[delivery'[d].b].life = "stored" => doc'[delivery'[d].b].disabled
               /\ delivery'[d].at # "enqueued" =>
                    /\ delivery'[d].token # None
                    /\ ~delivery'[d].current => secret'[delivery'[d].b] # delivery'[d].token
    <3>1. /\ delivery[d] # None
          /\ delivery'[d].at = delivery[d].at /\ delivery'[d].b = delivery[d].b
          /\ delivery'[d].token = delivery[d].token
          /\ delivery'[d].current = delivery[d].current
          /\ delivery'[d].paused => ~Lifted(d) /\ delivery[d].paused
      BY <1>8, <2>1
    <3>2. delivery[d].b \in Bindings
      BY <3>1 DEF TypeOK, Delivery
    <3>3. delivery[d].at # "enqueued" => d \in Waiting
      BY <3>1 DEF TypeOK, Waiting
    <3>4. /\ delivery[d].at = "enqueued" => ~delivery[d].paused /\ delivery[d].current
          /\ delivery[d].at = "secret" => ~delivery[d].paused
          /\ delivery[d].at = "binding" /\ delivery[d].paused =>
               /\ doc[delivery[d].b].life # "unborn"
               /\ doc[delivery[d].b].life = "stored" => doc[delivery[d].b].disabled
          /\ delivery[d].at # "enqueued" =>
               /\ delivery[d].token # None
               /\ ~delivery[d].current => secret[delivery[d].b] # delivery[d].token
      BY <3>1 DEF Core, Refusable, Stored
    <3>5. ASSUME delivery'[d].at = "binding", delivery'[d].paused,
                 doc'[delivery'[d].b].life = "stored"
          PROVE  doc'[delivery'[d].b].disabled
      <4>1. doc[delivery[d].b].life = "stored" /\ doc[delivery[d].b].disabled
        BY <1>4, <3>1, <3>2, <3>4, <3>5
      <4>2. CASE delivery[d].b = b
        <5>1. flag
          BY <3>1, <3>3, <3>5, <4>2
        <5> QED
          BY <1>4, <3>1, <4>1, <4>2, <5>1 DEF Stored
      <4>3. CASE delivery[d].b # b
        BY <1>4, <3>1, <3>2, <4>1, <4>3
      <4> QED
        BY <4>2, <4>3
    <3> HIDE DEF Lifted
    <3>6. doc'[delivery[d].b].life = doc[delivery[d].b].life
      BY <1>4, <3>2
    <3> QED
      BY <1>1, <3>1, <3>4, <3>5, <3>6
  <2> HIDE DEF Lifted
  <2> QED
    BY <2>1 DEF Refusable, Stored
<1>14. Alone' /\ RecordsWhatDelivers'
  BY <1>1, <1>5 DEF Core, Alone, Sends, RecordsWhatDelivers
<1> QED
  BY <1>9, <1>10, <1>11, <1>12, <1>13, <1>14 DEF Core

-----------------------------------------------------------------------------
(* Deliveries, crashes and maintainers. *)

(* A step of the webhook route, seen through the delivery it is about. *)
LEMMA DeliveryCore ==
  ASSUME TypeOK, Core, UNCHANGED <<doc, secret, hook, request, troubles, overlaps>>,
         NEW d \in 1..MaxDeliveries, NEW e \in Delivery \cup {None},
         delivery' = [delivery EXCEPT ![d] = e],
         e # None =>
           /\ e.at = "enqueued" => ~e.paused /\ e.current /\ e.token = None
           /\ e.at = "secret" => ~e.paused
           /\ e.at = "binding" /\ e.paused =>
                doc[e.b].life # "unborn" /\ (Stored(e.b) => doc[e.b].disabled)
           /\ e.at # "enqueued" => /\ e.token # None
                                   /\ ~e.current => secret[e.b] # e.token
                                   /\ \/ \E h \in Hooks : hook[h] # None /\ e.token = hook[h].token
                                      \/ delivery[d] # None /\ e.token = delivery[d].token
  PROVE  TypeOK' /\ Core'
<1>1. /\ delivery' \in [1..MaxDeliveries -> Delivery \cup {None}]
      /\ \A c \in 1..MaxDeliveries : delivery'[c] = IF c = d THEN e ELSE delivery[c]
  BY DEF TypeOK
<1>2. TypeOK'
  BY <1>1 DEF TypeOK
<1>3. Running' = Running
  BY DEF Running
<1>4. Lives' /\ Owned' /\ Alone' /\ RecordsWhatDelivers'
  BY <1>3 DEF Core, Lives, Equipped, Timely, RegisteredNamesAHook, Stored, Owned, Alone, Sends,
              RecordsWhatDelivers
<1>5. Refusable'
  BY <1>1 DEF Core, Refusable, Stored
<1>6. Private'
  <2> SUFFICES ASSUME NEW p \in Running, request[p].at = "credential"
               PROVE  \A c \in 1..MaxDeliveries :
                        delivery'[c] # None => delivery'[c].token # request[p].secret
    BY <1>3 DEF Core, Private
  <2>1. request[p].secret # None
    BY DEF Core, Lives, Equipped
  <2> QED
    BY <1>1, <2>1 DEF Core, Private
<1> QED
  BY <1>2, <1>4, <1>5, <1>6 DEF Core

(* POST /webhook/:bindingId. *)
LEMMA WebhookCore ==
  ASSUME TypeOK, Core, NEW d \in 1..MaxDeliveries,
         \/ \E h \in Hooks : Deliver(d, h)
         \/ ReadBinding(d) \/ ReadSecret(d)
  PROVE  TypeOK' /\ Core'
<1>1. ASSUME NEW h \in Hooks, Deliver(d, h) PROVE TypeOK' /\ Core'
  <2> DEFINE e == [at |-> "binding", b |-> hook[h].b, token |-> hook[h].token,
                   paused |-> Stored(hook[h].b) /\ doc[hook[h].b].disabled,
                   current |-> secret[hook[h].b] = hook[h].token]
  <2>1. hook[h] # None /\ delivery' = [delivery EXCEPT ![d] = e]
        /\ UNCHANGED <<doc, secret, hook, request, troubles, overlaps>>
    BY <1>1 DEF Deliver
  <2>2. hook[h].b \in Bindings /\ hook[h].token \in Secrets
    BY <2>1 DEF TypeOK, Webhook
  <2>3. e \in Delivery
    BY <2>2, DocType DEF Delivery
  <2>4. /\ e.at = "binding" /\ e.b = hook[h].b /\ e.token = hook[h].token
        /\ e.paused => Stored(hook[h].b) /\ doc[hook[h].b].disabled
        /\ ~e.current => secret[hook[h].b] # hook[h].token
    OBVIOUS
  <2>5. hook[h].token # None
    BY <2>2, BindingsAssumption DEF Secrets
  <2> HIDE DEF e
  <2> QED
    BY <2>1, <2>3, <2>4, <2>5, DeliveryCore DEF Stored
<1>2. ASSUME d \in Waiting, Reject(d), UNCHANGED <<doc, secret, hook, request, troubles, overlaps>>
      PROVE  TypeOK' /\ Core'
  BY <1>2, DeliveryCore DEF Reject
<1>3. CASE ReadBinding(d)
  <2> DEFINE e == [delivery[d] EXCEPT !.at = "secret"]
  <2>1. /\ d \in Waiting /\ delivery[d].at = "binding"
        /\ UNCHANGED <<doc, secret, hook, request, troubles, overlaps>>
    BY <1>3 DEF ReadBinding
  <2>2. CASE Stored(delivery[d].b) /\ MayEnqueue(delivery[d].b)
             /\ delivery' = [delivery EXCEPT ![d] = e]
    <3>1. delivery[d] \in Delivery /\ delivery[d] # None
      BY <2>1 DEF TypeOK, Waiting
    <3>2. /\ e \in Delivery /\ e.at = "secret" /\ e.b = delivery[d].b /\ e.token = delivery[d].token
          /\ e.paused = delivery[d].paused /\ e.current = delivery[d].current
      BY <3>1 DEF Delivery
    <3>3. ~delivery[d].paused
      BY <2>1, <2>2, <3>1 DEF Core, Refusable, MayEnqueue
    <3>4. /\ delivery[d].token # None
          /\ ~delivery[d].current => secret[delivery[d].b] # delivery[d].token
      BY <2>1, <3>1 DEF Core, Refusable
    <3> HIDE DEF e
    <3> QED
      BY <2>1, <2>2, <3>1, <3>2, <3>3, <3>4, DeliveryCore
  <2> QED
    BY <1>2, <1>3, <2>1, <2>2 DEF ReadBinding
<1>4. CASE ReadSecret(d)
  <2> DEFINE e == [[delivery[d] EXCEPT !.at = "enqueued"] EXCEPT !.token = None]
  <2>1. /\ d \in Waiting /\ delivery[d].at = "secret"
        /\ UNCHANGED <<doc, secret, hook, request, troubles, overlaps>>
    BY <1>4 DEF ReadSecret
  <2>2. CASE Authorized(d) /\ delivery' = [delivery EXCEPT ![d] = e]
    <3>1. delivery[d] \in Delivery /\ delivery[d] # None
      BY <2>1 DEF TypeOK, Waiting
    <3>2. /\ e \in Delivery /\ e.at = "enqueued" /\ e.b = delivery[d].b /\ e.token = None
          /\ e.paused = delivery[d].paused /\ e.current = delivery[d].current
      BY <3>1 DEF Delivery
    <3>3. ~delivery[d].paused /\ delivery[d].current
      BY <2>1, <2>2, <3>1 DEF Core, Refusable, Authorized
    <3> HIDE DEF e
    <3> QED
      BY <2>1, <2>2, <3>1, <3>2, <3>3, DeliveryCore
  <2> QED
    BY <1>2, <1>4, <2>1, <2>2 DEF ReadSecret
<1> QED
  BY <1>1, <1>3, <1>4

(* A maintainer removes a webhook. *)
LEMMA RemoveHookCore ==
  ASSUME TypeOK, Core, NEW h \in Hooks, RemoveHook(h)
  PROVE  TypeOK' /\ Core'
<1>1. /\ UNCHANGED <<doc, secret, request, delivery, overlaps>>
      /\ hook' = [hook EXCEPT ![h] = None]
  BY DEF RemoveHook
<1>2. /\ hook' \in [Hooks -> Webhook \cup {None}]
      /\ \A g \in Hooks : hook'[g] = None \/ hook'[g] = hook[g]
  BY <1>1 DEF TypeOK
<1>3. TypeOK'
  BY <1>1, <1>2, TroubleType DEF TypeOK, RemoveHook
<1>4. Running' = Running
  BY <1>1 DEF Running
<1>5. Lives' /\ Alone' /\ Refusable'
  BY <1>1, <1>4 DEF Core, Lives, Equipped, Timely, RegisteredNamesAHook, Stored, Alone, Sends,
              Refusable
<1>6. Private'
  BY <1>1, <1>2, <1>4 DEF Core, Private
<1>7. Owned'
  <2>1. \A c \in Bindings : doc[c].hook \in Hooks \cup {None}
    BY DocType
  <2>2. \A p \in Running : request[p].hook \in Hooks \cup {None}
    BY RequestType
  <2> QED
    BY <1>1, <1>2, <1>4, <2>1, <2>2 DEF Core, Owned, Stored
<1>8. RecordsWhatDelivers'
  <2>1. \A p \in Running : request[p].at = "store" => request[p].hook \in Hooks
    BY RequestType DEF Core, Lives, Equipped
  <2>2. \A p \in Running : request[p].at = "store" =>
          hook'[request[p].hook] = None \/ hook'[request[p].hook] = hook[request[p].hook]
    BY <1>2, <2>1
  <2> QED
    BY <1>1, <1>4, <2>2 DEF Core, RecordsWhatDelivers
<1> QED
  BY <1>3, <1>5, <1>6, <1>7, <1>8 DEF Core

-----------------------------------------------------------------------------
(* Every step keeps the type and the core of the invariant. *)
LEMMA CoreStep ==
  ASSUME TypeOK, Core, [Next]_vars
  PROVE  TypeOK' /\ Core'
<1>1. DOMAIN request = 1..MaxRequests /\ DOMAIN delivery = 1..MaxDeliveries
  BY DEF TypeOK
<1>2. ASSUME NEW r \in 1..MaxRequests, Step(r)
      PROVE  TypeOK' /\ Core'
  BY <1>2, InsertCore, LookupCore, RegisterCore, UpdateHookCore, DeregisterCore, StoreCore,
     HandleErrorCore, RotateCore, DeleteSecretCore, DeleteDocCore, SetDisabledCore DEF Step
<1>3. CASE Crash
  BY <1>3, DownCore, TroubleType DEF Crash
<1>4. CASE UNCHANGED vars
  <2>1. UNCHANGED <<doc, secret, hook, request, delivery, troubles, overlaps>>
    BY <1>4 DEF vars
  <2> QED
    BY <2>1 DEF TypeOK, Core, Lives, Equipped, Timely, RegisteredNamesAHook, Owned, Private,
                Refusable, Alone, Sends, RecordsWhatDelivers, Stored, Running
<1> QED
  BY <1>1, <1>2, <1>3, <1>4, CreateCore, RoutesCore, WebhookCore, RemoveHookCore DEF Next

(* Nothing is stored, registered or in progress at first. *)
LEMMA CoreInit ==
  ASSUME Init
  PROVE  TypeOK /\ Core
<1>1. \A b \in Bindings : NewDoc("unborn") \in Doc /\ doc[b] = NewDoc("unborn")
  BY DEF Init, NewDoc, Doc
<1>2. TypeOK
  BY <1>1, BindingsAssumption DEF Init, TypeOK
<1>3. /\ \A r : r \notin Running
      /\ \A d \in 1..MaxDeliveries : delivery[d] = None
      /\ \A b \in Bindings : doc[b].life = "unborn"
  BY <1>1 DEF Init, Running, NewDoc
<1> QED
  BY <1>2, <1>3 DEF Core, Lives, RegisteredNamesAHook, Owned, Private, Refusable, Alone,
                    RecordsWhatDelivers, Stored

(* The type and the core hold in every reachable state. *)
LEMMA CoreHolds == Spec => [](TypeOK /\ Core)
<1>1. TypeOK /\ Core /\ [Next]_vars => (TypeOK /\ Core)'
  BY CoreStep
<1> QED
  BY <1>1, CoreInit, PTL DEF Spec

(* Every reachable state is well typed. *)
THEOREM TypesHold == Spec => []TypeOK
  BY CoreHolds, PTL

(* However the writes of concurrent requests land, a document that says
   `registered' names a webhook (http/binding.ts, re-register-webhook).      *)
THEOREM RegisteredAlwaysNamesAHook == Spec => []RegisteredNamesAHook
<1>1. Core => RegisteredNamesAHook
  BY DEF Core, Lives
<1> QED
  BY <1>1, CoreHolds, PTL

(* A request that nobody disturbs records a webhook that carries the stored
   secret, whatever faults came before (sync/binding-lifecycle.ts).          *)
THEOREM RecordedWebhooksDeliver == Spec => []RecordsWhatDelivers
<1>1. Core => RecordsWhatDelivers
  BY DEF Core
<1> QED
  BY <1>1, CoreHolds, PTL

(* The webhook route enqueues no event that it had to refuse all along
   (http/webhook.ts).                                                        *)
THEOREM RefusesWhenDue == Spec => []RefusedWhenDue
<1>1. TypeOK /\ Core => RefusedWhenDue
  BY DEF TypeOK, Core, Refusable, RefusedWhenDue
<1> QED
  BY <1>1, CoreHolds, PTL

(* What was deleted stays deleted: from a document that is gone nothing but
   a gone document follows, and no rotation brings its secret back.          *)
LEMMA GoneStep ==
  ASSUME TypeOK, Core, [Next]_vars, NEW b \in Bindings, doc[b].life = "gone"
  PROVE  doc'[b].life = "gone" /\ secret'[b] = None
<1>1. DOMAIN request = 1..MaxRequests /\ DOMAIN delivery = 1..MaxDeliveries
  BY DEF TypeOK
<1>2. (TypeOK /\ Core)'
  BY CoreStep
<1>3. doc'[b].life = "gone" => secret'[b] = None
  BY <1>2 DEF Core, Lives
<1>4. ~Stored(b)
  BY DEF Stored
<1>5. ASSUME NEW c \in Bindings, NEW f, updateBinding(c, f)
      PROVE  doc'[b] = doc[b]
  BY <1>4, <1>5 DEF updateBinding, Updates, TypeOK
<1>6. ASSUME NEW r \in 1..MaxRequests, Step(r)
      PROVE  doc'[b].life = "gone"
  <2>1. r \in Running /\ request[r].b \in Bindings
    BY <1>6, RequestType DEF Step, Insert, Lookup, RegisterHook, UpdateHook, DeregisterHook,
          Store, HandleError, RotateCredential, DeleteSecret, DeleteDoc, SetDisabled
  <2>2. CASE Insert(r)
    <3>1. request[r].at = "insert" => doc[request[r].b].life = "unborn"
      BY <2>1 DEF Core, Lives, Timely
    <3> QED
      BY <2>1, <2>2, <3>1 DEF Insert, TypeOK
  <2>3. CASE DeleteDoc(r)
    BY <2>1, <2>3 DEF DeleteDoc, TypeOK, NewDoc
  <2>4. CASE Store(r) \/ HandleError(r) \/ \E flag \in BOOLEAN : SetDisabled(r, flag)
    BY <1>5, <2>1, <2>4 DEF Store, HandleError, SetDisabled
  <2>5. CASE Lookup(r) \/ RegisterHook(r) \/ UpdateHook(r) \/ DeregisterHook(r)
             \/ RotateCredential(r) \/ DeleteSecret(r)
    BY <2>5 DEF Lookup, RegisterHook, UpdateHook, DeregisterHook, RotateCredential, DeleteSecret
  <2> QED
    BY <1>6, <2>2, <2>3, <2>4, <2>5 DEF Step
<1>7. CASE UNCHANGED doc
  BY <1>3, <1>7
<1>8. ASSUME Next PROVE doc'[b].life = "gone"
  BY <1>1, <1>6, <1>7, <1>8 DEF Next, Create, RotateSecret, ReRegister, Delete, Patch, Deliver,
       ReadBinding, ReadSecret, Crash, RemoveHook
<1> QED
  BY <1>3, <1>7, <1>8 DEF vars

(* A binding that was deleted stays deleted, and so does its secret.         *)
THEOREM DeletedStaysDeleted == Spec => NoResurrection
<1>1. TypeOK /\ Core /\ [Next]_vars =>
        [\A b \in Bindings : doc[b].life = "gone" => doc'[b].life = "gone" /\ secret'[b] = None]_vars
  BY GoneStep
<1> QED
  BY <1>1, CoreHolds, PTL DEF Spec, NoResurrection

-----------------------------------------------------------------------------
(* The budget: what the webhooks nobody knows of are paid with.              *)

(* Counting. *)
LEMMA Counts ==
  ASSUME NEW n \in Nat, NEW S, S \subseteq 1..n
  PROVE  IsFiniteSet(S) /\ Cardinality(S) \in Nat
<1>1. IsFiniteSet(1..n)
  BY FS_Interval
<1>2. IsFiniteSet(S)
  BY <1>1, FS_Subset
<1> QED
  BY <1>2, FS_CardinalityType

LEMMA AtMost ==
  ASSUME NEW S, NEW T, IsFiniteSet(T), S \subseteq T
  PROVE  IsFiniteSet(S) /\ Cardinality(S) \in Nat /\ Cardinality(T) \in Nat
         /\ Cardinality(S) <= Cardinality(T)
<1>1. IsFiniteSet(S) /\ Cardinality(S) <= Cardinality(T)
  BY FS_Subset
<1> QED
  BY <1>1, FS_CardinalityType

LEMMA OneMore ==
  ASSUME NEW S, NEW T, NEW x, IsFiniteSet(T), S \subseteq T \cup {x}
  PROVE  Cardinality(S) \in Nat /\ Cardinality(T) \in Nat
         /\ Cardinality(S) <= Cardinality(T) + 1
<1>1. /\ IsFiniteSet(T \cup {x})
      /\ Cardinality(T \cup {x}) = IF x \in T THEN Cardinality(T) ELSE Cardinality(T) + 1
  BY FS_AddElement
<1>2. Cardinality(T) \in Nat
  BY FS_CardinalityType
<1>3. Cardinality(S) \in Nat /\ Cardinality(S) <= Cardinality(T \cup {x})
  BY <1>1, AtMost
<1> QED
  BY <1>1, <1>2, <1>3

LEMMA OneLess ==
  ASSUME NEW S, NEW x \in S, IsFiniteSet(S)
  PROVE  IsFiniteSet(S \ {x}) /\ Cardinality(S) \in Nat
         /\ Cardinality(S \ {x}) = Cardinality(S) - 1
<1>1. IsFiniteSet(S \ {x}) /\ Cardinality(S \ {x}) = Cardinality(S) - 1
  BY FS_RemoveElement
<1> QED
  BY <1>1, FS_CardinalityType

LEMMA ImageBound ==
  ASSUME NEW S, NEW T, NEW I, NEW f, IsFiniteSet(T), IsFiniteSet(I),
         S \subseteq T \cup {f[i] : i \in I}
  PROVE  Cardinality(S) \in Nat /\ Cardinality(T) \in Nat /\ Cardinality(I) \in Nat
         /\ Cardinality(S) <= Cardinality(T) + Cardinality(I)
<1> DEFINE J == {f[i] : i \in I}
           g == [i \in I |-> f[i]]
<1>1. g \in Surjection(I, J)
  BY DEF Surjection
<1>2. IsFiniteSet(J) /\ Cardinality(J) <= Cardinality(I)
  BY <1>1, FS_Surjection
<1>3. Cardinality(J) \in Nat /\ Cardinality(I) \in Nat /\ Cardinality(T) \in Nat
  BY <1>2, FS_CardinalityType
<1>4. /\ IsFiniteSet(T \cup J) /\ IsFiniteSet(T \cap J)
      /\ Cardinality(T \cup J) = Cardinality(T) + Cardinality(J) - Cardinality(T \cap J)
  <2>1. IsFiniteSet(T \cap J)
    BY FS_Subset
  <2> QED
    BY <1>2, <2>1, FS_Union
<1>5. Cardinality(T \cap J) \in Nat /\ Cardinality(T \cup J) \in Nat
  BY <1>4, FS_CardinalityType
<1>6. Cardinality(S) \in Nat /\ Cardinality(S) <= Cardinality(T \cup J)
  <2>1. S \subseteq T \cup J
    OBVIOUS
  <2> QED
    BY <1>4, <2>1, AtMost
<1> QED
  BY <1>2, <1>3, <1>4, <1>5, <1>6

(* What the budget counts is finite, before and after a step. *)
LEMMA BudgetType ==
  ASSUME TypeOK, TypeOK'
  PROVE  /\ IsFiniteSet(Orphans) /\ IsFiniteSet(Running)
         /\ IsFiniteSet(Orphans') /\ IsFiniteSet(Running')
         /\ Cardinality(Orphans) \in Nat /\ Cardinality(Running) \in Nat
         /\ Cardinality(Orphans') \in Nat /\ Cardinality(Running') \in Nat
         /\ troubles \in Nat /\ troubles' \in Nat /\ overlaps \in Nat /\ overlaps' \in Nat
<1>1. MaxHooks \in Nat /\ MaxRequests \in Nat /\ MaxTroubles \in Nat /\ MaxOverlaps \in Nat
  BY BindingsAssumption
<1>2. /\ Orphans \subseteq 1..MaxHooks /\ Orphans' \subseteq 1..MaxHooks
      /\ Running \subseteq 1..MaxRequests /\ Running' \subseteq 1..MaxRequests
  BY DEF Orphans, Running, Hooks, TypeOK
<1>3. troubles \in Nat /\ troubles' \in Nat /\ overlaps \in Nat /\ overlaps' \in Nat
  BY <1>1 DEF TypeOK
<1> QED
  BY <1>1, <1>2, <1>3, Counts

AllClean == \A p \in Running : Clean(request[p])

(* A step of a request that goes on. *)
LEMMA BudgetMove ==
  ASSUME TypeOK, TypeOK', Budget, \A p : p \in Running' <=> p \in Running,
         UNCHANGED overlaps,
         \/ Orphans' \subseteq Orphans /\ troubles' = troubles /\ (AllClean => AllClean')
         \/ Orphans' \subseteq Orphans /\ troubles' = troubles + 1
         \/ /\ \E x : Orphans' \subseteq Orphans \cup {x}
            /\ troubles' = troubles + 1 /\ (AllClean => AllClean')
  PROVE  Budget'
<1>1. Running' = Running
  OBVIOUS
<1>2. /\ Grace \in {0, 1} /\ Grace' \in {0, 1}
      /\ (AllClean => AllClean') => Grace <= Grace'
  BY <1>1 DEF Grace, AllClean
<1>3. Cardinality(Orphans) + Cardinality(Running) <= troubles + overlaps + Grace
  BY DEF Budget
<1>4. Orphans' \subseteq Orphans => Cardinality(Orphans') <= Cardinality(Orphans)
  BY BudgetType, AtMost
<1>5. \A x : Orphans' \subseteq Orphans \cup {x} => Cardinality(Orphans') <= Cardinality(Orphans) + 1
  BY BudgetType, OneMore
<1>6. Cardinality(Orphans') + Cardinality(Running') <= troubles' + overlaps' + Grace'
  BY <1>1, <1>2, <1>3, <1>4, <1>5, BudgetType
<1> QED
  BY <1>6 DEF Budget

(* A request's last step. *)
LEMMA BudgetEnd ==
  ASSUME TypeOK, TypeOK', Budget, NEW r \in Running,
         \A p : p \in Running' <=> p \in Running /\ p # r,
         UNCHANGED overlaps, troubles' >= troubles,
         \E x : Orphans' \subseteq Orphans \cup {x},
         AllClean => Orphans' \subseteq Orphans
  PROVE  Budget'
<1>1. Running' = Running \ {r}
  OBVIOUS
<1>2. Cardinality(Running') = Cardinality(Running) - 1
  BY <1>1, BudgetType, OneLess
<1>3. Cardinality(Orphans) + Cardinality(Running) <= troubles + overlaps + Grace
  BY DEF Budget
<1>4. Grace' \in {0, 1} /\ (Grace = 0 \/ (Grace = 1 /\ AllClean))
  BY DEF Grace, AllClean
<1>5. AllClean => Cardinality(Orphans') <= Cardinality(Orphans)
  BY BudgetType, AtMost
<1>6. Cardinality(Orphans') <= Cardinality(Orphans) + 1
  BY BudgetType, OneMore
<1>7. Cardinality(Orphans') + Cardinality(Running') <= troubles' + overlaps' + Grace'
  BY <1>2, <1>3, <1>4, <1>5, <1>6, BudgetType
<1> QED
  BY <1>7 DEF Budget

(* A request's first step. *)
LEMMA BudgetBegin ==
  ASSUME TypeOK, TypeOK', Budget, NEW r, r \notin Running,
         \A p : p \in Running' <=> p \in Running \/ p = r,
         UNCHANGED troubles, overlaps' = IF Running # {} THEN overlaps + 1 ELSE overlaps,
         Orphans' \subseteq Orphans,
         \A p \in Running : Clean(request[p]) => Clean(request[p])',
         Clean(request[r])'
  PROVE  Budget'
<1>1. Running' = Running \cup {r}
  OBVIOUS
<1>2. Cardinality(Running') = Cardinality(Running) + 1
  BY <1>1, BudgetType, FS_AddElement
<1>3. Cardinality(Orphans) + Cardinality(Running) <= troubles + overlaps + Grace
  BY DEF Budget
<1>4. Cardinality(Orphans') <= Cardinality(Orphans)
  BY BudgetType, AtMost
<1>5. /\ Grace \in {0, 1} /\ Grace' \in {0, 1} /\ Grace <= Grace'
      /\ Running = {} => Grace = 0 /\ Grace' = 1
  BY <1>1 DEF Grace
<1>6. Cardinality(Orphans') + Cardinality(Running') <= troubles' + overlaps' + Grace'
  BY <1>2, <1>3, <1>4, <1>5, BudgetType
<1> QED
  BY <1>6 DEF Budget

(* Nobody who names a webhook, or is about to, forgets it. *)
LEMMA OrphansKept ==
  ASSUME TypeOK,
         \A h \in Hooks : hook'[h] # None => hook[h] # None /\ hook'[h].b = hook[h].b,
         \A c \in Bindings : Stored(c) => Stored(c)' /\ doc'[c].hook = doc[c].hook,
         \A p \in Running : request[p].at = "store" =>
           p \in Running' /\ request'[p].at = "store" /\ request'[p].hook = request[p].hook
  PROVE  Orphans' \subseteq Orphans
<1> SUFFICES ASSUME NEW h \in Orphans' PROVE h \in Orphans
  OBVIOUS
<1>1. /\ h \in Hooks /\ hook'[h] # None
      /\ ~(doc'[hook'[h].b].life = "stored" /\ doc'[hook'[h].b].hook = h)
      /\ \A p \in Running' : request'[p].at = "store" => request'[p].hook # h
  BY DEF Orphans, Hooks, Stored
<1>2. hook[h] # None /\ hook'[h].b = hook[h].b /\ hook[h].b \in Bindings
  BY <1>1 DEF TypeOK, Webhook
<1>3. ~(Stored(hook[h].b) /\ doc[hook[h].b].hook = h)
  BY <1>1, <1>2 DEF Stored
<1>4. \A p \in Running : request[p].at = "store" => request[p].hook # h
  BY <1>1
<1> QED
  BY <1>1, <1>2, <1>3, <1>4 DEF Orphans

(* A clean request stays clean while its binding's webhook is left alone. *)
LEMMA CleanKept ==
  ASSUME TypeOK,
         \A c \in Bindings : /\ Stored(c) => Stored(c)'
                             /\ Alive(c)' => Alive(c) /\ doc'[c].hook = doc[c].hook,
         NEW p \in Running, request'[p].b = request[p].b, request'[p].hook = request[p].hook,
         request[p].at = "insert" => request'[p].at = "insert" \/ Stored(request[p].b)',
         Clean(request[p])
  PROVE  Clean(request[p])'
<1>1. request[p].b \in Bindings
  BY RequestType
<1> QED
  BY <1>1 DEF Clean

(* A restart: the webhooks that requests were about to record are lost.  A
   trouble pays for one of them, and so does the request that had failed.    *)
LEMMA BudgetDown ==
  ASSUME TypeOK, TypeOK', Budget, Down, UNCHANGED <<doc, hook, overlaps>>,
         \/ troubles' = troubles + 1
         \/ troubles' = troubles /\ \E r \in Running : request[r].at # "store"
  PROVE  Budget'
<1> DEFINE Lost == {p \in Running : request[p].at = "store"}
           id == [p \in 1..MaxRequests |-> request[p].hook]
<1>1. \A p : p \notin Running'
  BY Downs
<1>2. Orphans' \subseteq Orphans \cup {id[p] : p \in Lost}
  <2> SUFFICES ASSUME NEW h \in Orphans' PROVE h \in Orphans \cup {id[p] : p \in Lost}
    OBVIOUS
  <2>1. h \in Hooks /\ hook[h] # None /\ ~(Stored(hook[h].b) /\ doc[hook[h].b].hook = h)
    BY DEF Orphans, Stored
  <2>2. \A p \in Lost : p \in 1..MaxRequests /\ id[p] = request[p].hook
    BY RequestType
  <2> QED
    BY <2>1, <2>2 DEF Orphans
<1>3. IsFiniteSet(Lost)
  BY BudgetType, AtMost
<1> HIDE DEF id
<1>4. Cardinality(Orphans') <= Cardinality(Orphans) + Cardinality(Lost)
  BY <1>2, <1>3, BudgetType, ImageBound
<1>5. Cardinality(Lost) \in Nat /\ Cardinality(Lost) <= Cardinality(Running)
  BY BudgetType, AtMost
<1>6. ASSUME NEW r \in Running, request[r].at # "store"
      PROVE  Cardinality(Lost) <= Cardinality(Running) - 1
  <2>1. Lost \subseteq Running \ {r}
    BY <1>6
  <2>2. IsFiniteSet(Running \ {r}) /\ Cardinality(Running \ {r}) = Cardinality(Running) - 1
    BY BudgetType, OneLess
  <2>3. Cardinality(Lost) <= Cardinality(Running \ {r})
    BY <2>1, <2>2, AtMost
  <2> QED
    BY <2>2, <2>3
<1>7. Cardinality(Orphans) + Cardinality(Running) <= troubles + overlaps + Grace
  BY DEF Budget
<1>8. Grace \in {0, 1} /\ Grace' = 0 /\ Cardinality(Running') = 0
  <2>1. Running' = {}
    BY <1>1
  <2> QED
    BY <2>1, FS_EmptySet DEF Grace
<1> HIDE DEF Lost
<1>9. Cardinality(Orphans') + Cardinality(Running') <= troubles' + overlaps' + Grace'
  BY <1>4, <1>5, <1>6, <1>7, <1>8, BudgetType
<1> QED
  BY <1>9 DEF Budget

(* A request that only answers, away from its last write. *)
LEMMA AnswerBudget ==
  ASSUME TypeOK, TypeOK', Budget, NEW r \in Running, request[r].at # "store", Answer(r),
         UNCHANGED <<doc, hook, overlaps>>, Trouble \/ UNCHANGED troubles
  PROVE  Budget'
<1>1. /\ \A p : p \in Running' <=> p \in Running /\ p # r
      /\ \A p \in Running' : request'[p] = request[p]
  BY Ends
<1>2. Orphans' \subseteq Orphans
  BY <1>1, OrphansKept DEF Stored
<1>3. troubles' >= troubles
  BY BudgetType DEF Trouble
<1> QED
  BY <1>1, <1>2, <1>3, BudgetEnd

(* A request that goes on, its webhook and everybody else's left alone. *)
LEMMA GoesOnBudget ==
  ASSUME TypeOK, TypeOK', Budget, NEW r \in Running, request[r].at \notin {"store", "insert"},
         UNCHANGED <<doc, overlaps>>, Trouble \/ UNCHANGED troubles,
         \A h \in Hooks : /\ hook'[h] # None <=> hook[h] # None
                          /\ hook'[h] # None => hook'[h].b = hook[h].b,
         \A p : p \in Running' <=> p \in Running,
         \A p \in Running : /\ request'[p].b = request[p].b
                            /\ request'[p].hook = request[p].hook
                            /\ p # r => request'[p].at = request[p].at
  PROVE  Budget'
<1>1. Orphans' \subseteq Orphans
  BY OrphansKept DEF Stored
<1>2. \A c \in Bindings : doc[c].hook \in Hooks \cup {None}
  BY DocType
<1>3. \A c \in Bindings : /\ Stored(c) => Stored(c)'
                          /\ Alive(c)' => Alive(c) /\ doc'[c].hook = doc[c].hook
  BY <1>2 DEF Alive, Stored
<1>4. AllClean => AllClean'
  BY <1>3, CleanKept DEF AllClean
<1>5. troubles' = troubles \/ troubles' = troubles + 1
  BY DEF Trouble
<1> QED
  BY <1>1, <1>4, <1>5, BudgetMove

(* A route begins: its request knows the webhook that the document names. *)
LEMMA BeginBudget ==
  ASSUME TypeOK, TypeOK', Budget, NEW r \in 1..MaxRequests, NEW op \in Ops,
         NEW at \in Places, NEW b \in Bindings, NEW s \in Secrets \cup {None},
         Begin(r, op, at, b, s), at # "insert" => Stored(b),
         UNCHANGED <<doc, hook, troubles>>
  PROVE  Budget'
<1>1. /\ r \notin Running
      /\ \A p : p \in Running' <=> p \in Running \/ p = r
      /\ \A p \in Running : request'[p] = request[p]
      /\ request'[r].at = at /\ request'[r].b = b
      /\ request'[r].hook = IF Stored(b) THEN doc[b].hook ELSE None
      /\ overlaps' = IF Running # {} THEN overlaps + 1 ELSE overlaps
  BY Begins
<1>2. Orphans' \subseteq Orphans
  BY <1>1, OrphansKept DEF Stored
<1>3. Clean(request[r])'
  BY <1>1 DEF Clean, Alive, Stored
<1>4. \A p \in Running : Clean(request[p]) => Clean(request[p])'
  BY <1>1 DEF Clean, Alive, Stored
<1> QED
  BY <1>1, <1>2, <1>3, <1>4, BudgetBegin

(* The routes. *)
LEMMA RoutesBudget ==
  ASSUME TypeOK, TypeOK', Budget, NEW r \in 1..MaxRequests, NEW b \in Bindings,
         \/ Create(r, b) \/ RotateSecret(r, b) \/ ReRegister(r, b)
         \/ Delete(r, b) \/ Patch(r, b)
  PROVE  Budget'
<1>1. UNCHANGED <<doc, hook, troubles>>
  BY DEF Create, RotateSecret, ReRegister, Delete, Patch
<1>2. CASE Create(r, b)
  BY <1>1, <1>2, BeginBudget DEF Create, Ops, Places
<1>3. CASE RotateSecret(r, b)
  BY <1>1, <1>3, BeginBudget DEF RotateSecret, Ops, Places
<1>4. CASE ReRegister(r, b)
  BY <1>1, <1>4, BeginBudget DEF ReRegister, Ops, Places
<1>5. CASE Delete(r, b)
  BY <1>1, <1>5, BeginBudget DEF Delete, FirstStep, Ops, Places
<1>6. CASE Patch(r, b)
  BY <1>1, <1>6, BeginBudget DEF Patch, Ops, Places
<1> QED
  BY <1>2, <1>3, <1>4, <1>5, <1>6

(* What a request's last step can make an orphan of: the webhook that the
   document named, and the one that the request was about to record.         *)
LEMMA LeftBehind ==
  ASSUME TypeOK, NEW r \in Running, Answer(r), UNCHANGED hook,
         \A c \in Bindings \ {request[r].b} :
           Stored(c) => Stored(c)' /\ doc'[c].hook = doc[c].hook,
         NEW h \in Orphans', h \notin Orphans
  PROVE  /\ h \in Hooks /\ hook[h] # None
         /\ ~(doc'[hook[h].b].life = "stored" /\ doc'[hook[h].b].hook = h)
         /\ \/ /\ Stored(request[r].b) /\ doc[request[r].b].hook = h
               /\ hook[h].b = request[r].b
            \/ request[r].at = "store" /\ request[r].hook = h
<1>1. /\ \A p : p \in Running' <=> p \in Running /\ p # r
      /\ \A p \in Running' : request'[p] = request[p]
  BY Ends
<1>2. /\ h \in Hooks /\ hook[h] # None
      /\ ~(doc'[hook[h].b].life = "stored" /\ doc'[hook[h].b].hook = h)
      /\ \A p \in Running' : request'[p].at = "store" => request'[p].hook # h
  BY DEF Orphans, Stored
<1>3. hook[h].b \in Bindings
  BY <1>2 DEF TypeOK, Webhook
<1>4. \/ Stored(hook[h].b) /\ doc[hook[h].b].hook = h
      \/ \E p \in Running : request[p].at = "store" /\ request[p].hook = h
  BY <1>2 DEF Orphans
<1>5. CASE Stored(hook[h].b) /\ doc[hook[h].b].hook = h
  BY <1>2, <1>3, <1>5 DEF Stored
<1>6. CASE \E p \in Running : request[p].at = "store" /\ request[p].hook = h
  BY <1>1, <1>2, <1>6
<1> QED
  BY <1>4, <1>5, <1>6

(* A write to the document that leaves its webhook alone. *)
LEMMA KeepBudget ==
  ASSUME TypeOK, TypeOK', Budget, NEW r \in Running, request[r].at # "store", Answer(r),
         UNCHANGED <<hook, troubles, overlaps>>,
         \A c \in Bindings : Stored(c) => Stored(c)' /\ doc'[c].hook = doc[c].hook
  PROVE  Budget'
<1>1. /\ \A p : p \in Running' <=> p \in Running /\ p # r
      /\ \A p \in Running' : request'[p] = request[p]
  BY Ends
<1>2. Orphans' \subseteq Orphans
  BY <1>1, OrphansKept
<1>3. troubles' >= troubles
  BY BudgetType
<1> QED
  BY <1>1, <1>2, <1>3, BudgetEnd

(* A write that makes the document forget its webhook, by a request that
   knows of none: a clean one does so only when there is none.               *)
LEMMA ForgetBudget ==
  ASSUME TypeOK, TypeOK', Budget, NEW r \in Running, request[r].at # "store",
         request[r].hook = None, Answer(r), UNCHANGED <<hook, troubles, overlaps>>,
         \A c \in Bindings \ {request[r].b} :
           Stored(c) => Stored(c)' /\ doc'[c].hook = doc[c].hook
  PROVE  Budget'
<1> DEFINE b == request[r].b
<1>1. \A p : p \in Running' <=> p \in Running /\ p # r
  BY Ends
<1>2. \A h \in Orphans' : h \in Orphans \/ (Alive(b) /\ doc[b].hook = h)
  <2> SUFFICES ASSUME NEW h \in Orphans', h \notin Orphans
               PROVE  Alive(b) /\ doc[b].hook = h
    OBVIOUS
  <2>1. h \in Hooks /\ hook[h] # None /\ Stored(b) /\ doc[b].hook = h
    BY LeftBehind
  <2>2. h # None
    BY <2>1, BindingsAssumption DEF Hooks
  <2> QED
    BY <2>1, <2>2 DEF Alive
<1>3. Orphans' \subseteq Orphans \cup {doc[b].hook}
  BY <1>2
<1>4. AllClean => Orphans' \subseteq Orphans
  BY <1>2 DEF AllClean, Clean, Alive
<1>5. troubles' >= troubles
  BY BudgetType
<1> QED
  BY <1>1, <1>3, <1>4, <1>5, BudgetEnd

(* The id of a webhook is stored. *)
LEMMA StoreBudget ==
  ASSUME TypeOK, TypeOK', Core, Budget, NEW r \in 1..MaxRequests, Store(r)
  PROVE  Budget'
<1> DEFINE b == request[r].b
           f == [[doc[b] EXCEPT !.hook = request[r].hook] EXCEPT !.registered = TRUE]
<1>1. /\ r \in Running /\ request[r].at = "store" /\ Answer(r)
      /\ updateBinding(b, f) /\ UNCHANGED <<hook, troubles, overlaps>>
  BY DEF Store
<1>2. b \in Bindings /\ request[r].hook \in Hooks /\ request[r].hook # None
  BY <1>1, RequestType DEF Core, Lives, Equipped
<1>3. f \in Doc /\ f.hook = request[r].hook
  BY <1>2, DocType DEF Doc
<1> HIDE DEF f
<1>4. /\ \A c \in Bindings : doc'[c].life = doc[c].life
      /\ \A c \in Bindings \ {b} : doc'[c] = doc[c]
      /\ Stored(b) => doc'[b].hook = request[r].hook
  BY <1>1, <1>2, <1>3, UpdatesDoc
<1>5. \A p : p \in Running' <=> p \in Running /\ p # r
  BY <1>1, Ends
<1>6. troubles' >= troubles
  BY <1>1, BudgetType
<1>7. ASSUME NEW h \in Orphans', h \notin Orphans
      PROVE  /\ hook[h] # None /\ h \in Hooks
             /\ \/ ~Stored(b) /\ h = request[r].hook
                \/ Stored(b) /\ doc[b].hook = h /\ h # request[r].hook
  <2>1. \A c \in Bindings \ {b} : Stored(c) => Stored(c)' /\ doc'[c].hook = doc[c].hook
    BY <1>4 DEF Stored
  <2>2. /\ h \in Hooks /\ hook[h] # None
        /\ ~(doc'[hook[h].b].life = "stored" /\ doc'[hook[h].b].hook = h)
        /\ \/ Stored(b) /\ doc[b].hook = h /\ hook[h].b = b
           \/ request[r].hook = h
    BY <1>1, <1>7, <2>1, LeftBehind
  <2>3. request[r].hook = h => hook[h].b = b
    BY <1>1, <1>2, <2>2 DEF Core, Owned
  <2> QED
    BY <1>2, <1>4, <2>2, <2>3 DEF Stored
<1>8. CASE Stored(b)
  <2>1. Orphans' \subseteq Orphans \cup {doc[b].hook}
    BY <1>7, <1>8
  <2>2. ASSUME AllClean, NEW h \in Orphans', h \notin Orphans
        PROVE  FALSE
    <3>1. hook[h] # None /\ h \in Hooks /\ doc[b].hook = h /\ h # request[r].hook
      BY <1>7, <1>8, <2>2
    <3>2. h # None
      BY <3>1, BindingsAssumption DEF Hooks
    <3>3. Alive(b)
      BY <1>8, <3>1, <3>2 DEF Alive
    <3> QED
      BY <1>1, <2>2, <3>1, <3>3 DEF AllClean, Clean
  <2> QED
    BY <1>1, <1>5, <1>6, <2>1, <2>2, BudgetEnd
<1>9. CASE ~Stored(b)
  <2>1. Orphans' \subseteq Orphans \cup {request[r].hook}
    BY <1>7, <1>9
  <2>2. ~AllClean
    BY <1>1, <1>9 DEF AllClean, Clean
  <2> QED
    BY <1>1, <1>5, <1>6, <2>1, <2>2, BudgetEnd
<1> QED
  BY <1>8, <1>9

(* A refusal or an exception is dealt with. *)
LEMMA HandleErrorBudget ==
  ASSUME TypeOK, TypeOK', Core, Budget, NEW r \in 1..MaxRequests, HandleError(r)
  PROVE  Budget'
<1> DEFINE b == request[r].b
<1>1. r \in Running /\ request[r].at = "failed" /\ UNCHANGED <<hook, troubles, overlaps>>
  BY DEF HandleError
<1>2. b \in Bindings
  BY <1>1, RequestType
<1>3. CASE request[r].status # "rejected"
  <2>1. UNCHANGED doc /\ (Down \/ Answer(r))
    BY <1>3 DEF HandleError, Throw
  <2>2. CASE Down
    BY <1>1, <2>1, <2>2, BudgetDown
  <2>3. CASE Answer(r)
    BY <1>1, <2>1, <2>3, AnswerBudget
  <2> QED
    BY <2>1, <2>2, <2>3
<1>4. CASE request[r].status = "rejected" /\ request[r].op = "rotate"
  <2>1. Answer(r) /\ updateBinding(b, Unset(doc[b]))
    BY <1>4 DEF HandleError
  <2>2. Unset(doc[b]) \in Doc
    BY <1>2, DocType DEF Unset, Doc
  <2>3. \A c \in Bindings \ {b} : Stored(c) => Stored(c)' /\ doc'[c].hook = doc[c].hook
    BY <1>2, <2>1, <2>2, UpdatesDoc DEF Stored
  <2>4. request[r].hook = None
    BY <1>1, <1>4 DEF Core, Lives, Equipped
  <2> QED
    BY <1>1, <2>1, <2>3, <2>4, ForgetBudget
<1>5. CASE request[r].status = "rejected" /\ request[r].op # "rotate"
  <2> DEFINE f == [doc[b] EXCEPT !.registered = FALSE]
  <2>1. Answer(r) /\ updateBinding(b, f)
    BY <1>5 DEF HandleError
  <2>2. f \in Doc /\ f.hook = doc[b].hook
    BY <1>2, DocType DEF Doc
  <2> HIDE DEF f
  <2>3. \A c \in Bindings : Stored(c) => Stored(c)' /\ doc'[c].hook = doc[c].hook
    BY <1>2, <2>1, <2>2, UpdatesDoc DEF Stored
  <2> QED
    BY <1>1, <2>1, <2>3, KeepBudget
<1> QED
  BY <1>3, <1>4, <1>5

(* The document is deleted, or paused. *)
LEMMA DeleteDocBudget ==
  ASSUME TypeOK, TypeOK', Core, Budget, NEW r \in 1..MaxRequests, DeleteDoc(r)
  PROVE  Budget'
<1>1. /\ r \in Running /\ request[r].at = "doc" /\ Answer(r)
      /\ UNCHANGED <<hook, troubles, overlaps>>
      /\ doc' = [doc EXCEPT ![request[r].b] = NewDoc("gone")]
  BY DEF DeleteDoc
<1>2. request[r].b \in Bindings /\ request[r].hook = None
  BY <1>1, RequestType DEF Core, Lives, Equipped
<1>3. \A c \in Bindings \ {request[r].b} : Stored(c) => Stored(c)' /\ doc'[c].hook = doc[c].hook
  BY <1>1, <1>2 DEF TypeOK, Stored
<1> QED
  BY <1>1, <1>2, <1>3, ForgetBudget

LEMMA SetDisabledBudget ==
  ASSUME TypeOK, TypeOK', Budget, NEW r \in 1..MaxRequests, NEW flag \in BOOLEAN,
         SetDisabled(r, flag)
  PROVE  Budget'
<1> DEFINE b == request[r].b
           f == [doc[b] EXCEPT !.disabled = flag]
<1>1. /\ r \in Running /\ request[r].at = "patch" /\ Answer(r) /\ updateBinding(b, f)
      /\ UNCHANGED <<hook, troubles, overlaps>>
  BY DEF SetDisabled
<1>2. b \in Bindings
  BY <1>1, RequestType
<1>3. f \in Doc /\ f.hook = doc[b].hook
  BY <1>2, DocType DEF Doc
<1> HIDE DEF f
<1>4. \A c \in Bindings : Stored(c) => Stored(c)' /\ doc'[c].hook = doc[c].hook
  BY <1>1, <1>2, <1>3, UpdatesDoc DEF Stored
<1> QED
  BY <1>1, <1>4, KeepBudget

(* The document is inserted. *)
LEMMA InsertBudget ==
  ASSUME TypeOK, TypeOK', Core, Budget, NEW r \in 1..MaxRequests, Insert(r)
  PROVE  Budget'
<1> DEFINE b == request[r].b
<1>1. r \in Running /\ request[r].at = "insert" /\ UNCHANGED <<hook, overlaps>>
  BY DEF Insert
<1>2. b \in Bindings /\ doc[b].life = "unborn"
  BY <1>1, RequestType DEF Core, Lives, Timely
<1>3. CASE Answer(r) /\ UNCHANGED doc /\ (Trouble \/ UNCHANGED troubles)
  BY <1>1, <1>3, AnswerBudget
<1>4. CASE Go(r, "lookup") /\ doc' = [doc EXCEPT ![b] = NewDoc("stored")] /\ UNCHANGED troubles
  <2>1. /\ \A c \in Bindings \ {b} : doc'[c] = doc[c]
        /\ doc'[b].life = "stored" /\ doc'[b].hook = None
    BY <1>2, <1>4 DEF TypeOK, NewDoc
  <2>2. /\ \A p : p \in Running' <=> p \in Running
        /\ \A p \in Running : /\ request'[p].at = IF p = r THEN "lookup" ELSE request[p].at
                              /\ request'[p].b = request[p].b
                              /\ request'[p].hook = request[p].hook
    BY <1>1, <1>4, Goes DEF Places
  <2>3. \A c \in Bindings : Stored(c) => Stored(c)' /\ doc'[c].hook = doc[c].hook
    BY <1>2, <2>1 DEF Stored
  <2>4. Orphans' \subseteq Orphans
    BY <1>1, <2>2, <2>3, OrphansKept
  <2>5. \A c \in Bindings : Alive(c)' => Alive(c) /\ doc'[c].hook = doc[c].hook
    BY <1>1, <2>1 DEF Alive, Stored
  <2>6. \A p \in Running : Clean(request[p]) => Clean(request[p])'
    BY <2>1, <2>2, <2>3, <2>5, CleanKept DEF Stored
  <2> QED
    BY <1>1, <1>4, <2>2, <2>4, <2>6, BudgetMove DEF AllClean
<1> QED
  BY <1>3, <1>4 DEF Insert

(* The credential is looked up. *)
LEMMA LookupBudget ==
  ASSUME TypeOK, TypeOK', Budget, NEW r \in 1..MaxRequests, Lookup(r)
  PROVE  Budget'
<1> DEFINE q == [[request[r] EXCEPT !.at = IF request[r].hook = None THEN "register" ELSE "update"]
                            EXCEPT !.secret = secret[request[r].b]]
<1>1. r \in Running /\ request[r].at = "lookup" /\ UNCHANGED <<doc, secret, hook, overlaps>>
  BY DEF Lookup
<1>2. CASE Answer(r) /\ (Trouble \/ UNCHANGED troubles)
  BY <1>1, <1>2, AnswerBudget
<1>3. CASE request' = [request EXCEPT ![r] = q] /\ UNCHANGED troubles
  <2>1. request[r] \in Request /\ secret[request[r].b] \in Secrets \cup {None}
    BY <1>1, RequestType DEF TypeOK
  <2>2. q \in Request /\ q.b = request[r].b /\ q.hook = request[r].hook
    BY <2>1 DEF Request
  <2> HIDE DEF q
  <2>3. /\ \A p : p \in Running' <=> p \in Running
        /\ \A p \in Running : request'[p] = IF p = r THEN q ELSE request[p]
    BY <1>1, <1>3, <2>2, Moves
  <2> QED
    BY <1>1, <1>3, <2>2, <2>3, GoesOnBudget
<1> QED
  BY <1>2, <1>3 DEF Lookup

(* GitLab refuses. *)
LEMMA FailBudget ==
  ASSUME TypeOK, TypeOK', Budget, NEW r \in Running, request[r].at \in {"register", "update"},
         NEW status \in {"rejected", "denied", "down"}, Fail(r, status),
         UNCHANGED <<doc, hook, overlaps>>, Trouble \/ UNCHANGED troubles
  PROVE  Budget'
  BY Fails, GoesOnBudget

(* A webhook is registered: the request is about to record it, or the answer
   is lost and a trouble pays for it.                                        *)
LEMMA RegisterBudget ==
  ASSUME TypeOK, TypeOK', Core, Budget, NEW r \in 1..MaxRequests, RegisterHook(r)
  PROVE  Budget'
<1>1. r \in Running /\ request[r].at = "register" /\ UNCHANGED <<doc, overlaps>>
  BY DEF RegisterHook
<1>2. CASE Refused(r) /\ UNCHANGED hook
  BY <1>1, <1>2, FailBudget DEF Refused
<1>3. ASSUME NEW h \in Hooks, NewHook(h),
             hook' = [hook EXCEPT ![h] = [b |-> request[r].b, token |-> SecretSent(r)]],
             \/ /\ request' = [request EXCEPT ![r].at = "store", ![r].hook = h]
                /\ UNCHANGED troubles
             \/ Fail(r, "down") /\ Trouble
      PROVE  Budget'
  <2>1. /\ \A g \in Hooks \ {h} : hook'[g] = hook[g]
        /\ \A c \in Bindings : Stored(c) => doc[c].hook # h
    BY <1>1, <1>3, NewHookCore
  <2>2. \A c \in Bindings : Alive(c)' => Alive(c) /\ doc'[c].hook = doc[c].hook
    BY <1>1, <2>1, DocType DEF Alive, Stored
  <2>3. request[r].hook = None /\ request[r].b \in Bindings /\ request[r] \in Request
    BY <1>1, RequestType DEF Core, Lives, Equipped
  <2>4. \A c \in Bindings : Stored(c) => Stored(c)'
    BY <1>1 DEF Stored
  <2>5. ASSUME NEW g \in Orphans', g # h,
               \A p \in Running : p \in Running' /\ (request[p].at = "store" =>
                 request'[p].at = "store" /\ request'[p].hook = request[p].hook)
        PROVE  g \in Orphans
    <3>1. /\ g \in Hooks /\ hook'[g] # None
          /\ ~(doc'[hook'[g].b].life = "stored" /\ doc'[hook'[g].b].hook = g)
          /\ \A p \in Running' : request'[p].at = "store" => request'[p].hook # g
      BY <2>5 DEF Orphans, Stored
    <3> QED
      BY <1>1, <2>1, <2>5, <3>1 DEF Orphans, Stored
  <2>6. CASE request' = [request EXCEPT ![r].at = "store", ![r].hook = h] /\ UNCHANGED troubles
    <3> DEFINE q == [[request[r] EXCEPT !.at = "store"] EXCEPT !.hook = h]
    <3>1. q \in Request /\ q.at = "store" /\ q.b = request[r].b /\ q.hook = h
      BY <2>3 DEF Request
    <3>2. request' = [request EXCEPT ![r] = q]
      BY <2>6
    <3> HIDE DEF q
    <3>3. /\ \A p : p \in Running' <=> p \in Running
          /\ \A p \in Running : request'[p] = IF p = r THEN q ELSE request[p]
      BY <1>1, <3>1, <3>2, Moves
    <3>4. h \notin Orphans'
      BY <1>1, <3>1, <3>3 DEF Orphans
    <3>5. Orphans' \subseteq Orphans
      BY <1>1, <2>5, <3>3, <3>4
    <3>6. ASSUME NEW p \in Running, Clean(request[p]) PROVE Clean(request[p])'
      <4>1. CASE p # r
        BY <2>2, <2>4, <3>3, <3>6, <4>1, CleanKept
      <4>2. CASE p = r
        <5>1. Stored(request[r].b) /\ ~Alive(request[r].b)
          BY <1>1, <2>3, <3>6, <4>2 DEF Clean, Alive
        <5>2. request'[r].b = request[r].b
          BY <1>1, <3>1, <3>3
        <5> QED
          BY <1>1, <2>2, <2>3, <4>2, <5>1, <5>2 DEF Clean, Stored, Alive
      <4> QED
        BY <4>1, <4>2
    <3> QED
      BY <1>1, <2>6, <3>3, <3>5, <3>6, BudgetMove DEF AllClean
  <2>7. CASE Fail(r, "down") /\ Trouble
    <3>1. /\ \A p : p \in Running' <=> p \in Running
          /\ \A p \in Running : /\ request'[p].at = IF p = r THEN "failed" ELSE request[p].at
                                /\ request'[p].b = request[p].b
                                /\ request'[p].hook = request[p].hook
      BY <1>1, <2>7, Fails
    <3>2. Orphans' \subseteq Orphans \cup {h}
      BY <1>1, <2>5, <3>1
    <3>3. \A p \in Running : Clean(request[p]) => Clean(request[p])'
      BY <1>1, <2>2, <2>4, <3>1, CleanKept
    <3>4. troubles' = troubles + 1
      BY <2>7 DEF Trouble
    <3> QED
      BY <1>1, <3>1, <3>2, <3>3, <3>4, BudgetMove DEF AllClean
  <2> QED
    BY <1>3, <2>6, <2>7
<1> QED
  BY <1>2, <1>3 DEF RegisterHook

(* A webhook is updated in place. *)
LEMMA UpdateHookBudget ==
  ASSUME TypeOK, TypeOK', Core, Budget, NEW r \in 1..MaxRequests, UpdateHook(r)
  PROVE  Budget'
<1> DEFINE h == request[r].hook
           w == [hook[h] EXCEPT !.token = SecretSent(r)]
<1>1. r \in Running /\ request[r].at = "update" /\ UNCHANGED <<doc, overlaps>>
  BY DEF UpdateHook
<1>2. CASE \E status \in {"rejected", "denied", "down"} :
             Fail(r, status) /\ UNCHANGED hook /\ (Trouble \/ UNCHANGED troubles)
  BY <1>1, <1>2, FailBudget
<1>3. CASE hook[h] # None /\ hook' = [hook EXCEPT ![h] = w] /\ Go(r, "store") /\ UNCHANGED troubles
  <2>1. h \in Hooks /\ request[r].secret \in Secrets
    BY <1>1, RequestType DEF Core, Lives, Equipped
  <2>2. hook[h] \in Webhook
    BY <1>3, <2>1 DEF TypeOK
  <2>3. w \in Webhook /\ w.b = hook[h].b
    BY <2>1, <2>2 DEF Webhook, SecretSent
  <2>4. w # None
    BY <2>3, NoneAssumption
  <2> HIDE DEF w
  <2>5. \A g \in Hooks : /\ hook'[g] # None <=> hook[g] # None
                         /\ hook'[g] # None => hook'[g].b = hook[g].b
    BY <1>3, <2>1, <2>3, <2>4 DEF TypeOK
  <2>6. /\ \A p : p \in Running' <=> p \in Running
        /\ \A p \in Running : /\ request'[p].at = IF p = r THEN "store" ELSE request[p].at
                              /\ request'[p].b = request[p].b
                              /\ request'[p].hook = request[p].hook
    BY <1>1, <1>3, Goes DEF Places
  <2> QED
    BY <1>1, <1>3, <2>5, <2>6, GoesOnBudget
<1> QED
  BY <1>1, <1>2, <1>3 DEF UpdateHook, Refused

(* A webhook is deleted at GitLab, or left behind for a trouble. *)
LEMMA DeregisterBudget ==
  ASSUME TypeOK, TypeOK', Core, Budget, NEW r \in 1..MaxRequests, DeregisterHook(r)
  PROVE  Budget'
<1> DEFINE q == [[request[r] EXCEPT !.at = IF request[r].op = "delete" THEN "secret" ELSE "register"]
                            EXCEPT !.hook = None]
<1>1. /\ r \in Running /\ request[r].at = "deregister" /\ UNCHANGED <<doc, overlaps>>
      /\ request' = [request EXCEPT ![r] = q]
      /\ \/ hook' = [hook EXCEPT ![request[r].hook] = None] /\ UNCHANGED troubles
         \/ UNCHANGED hook /\ Trouble
  BY DEF DeregisterHook
<1>2. request[r].hook \in Hooks /\ request[r].b \in Bindings /\ request[r] \in Request
  BY <1>1, RequestType DEF Core, Lives, Equipped
<1>3. q \in Request /\ q.b = request[r].b /\ q.hook = None /\ q.at # "insert"
  BY <1>2 DEF Request
<1> HIDE DEF q
<1>4. /\ \A p : p \in Running' <=> p \in Running
      /\ \A p \in Running : request'[p] = IF p = r THEN q ELSE request[p]
  BY <1>1, <1>3, Moves
<1>5. \A h \in Hooks : hook'[h] # None => hook[h] # None /\ hook'[h] = hook[h]
  BY <1>1 DEF TypeOK
<1>6. Orphans' \subseteq Orphans
  <2>1. \A p \in Running : request[p].at = "store" =>
          p \in Running' /\ request'[p].at = "store" /\ request'[p].hook = request[p].hook
    BY <1>1, <1>4
  <2>2. \A h \in Hooks : hook'[h] # None => hook[h] # None /\ hook'[h].b = hook[h].b
    BY <1>5
  <2> QED
    BY <1>1, <2>1, <2>2, OrphansKept DEF Stored
<1>7. CASE UNCHANGED hook /\ Trouble
  BY <1>1, <1>4, <1>6, <1>7, BudgetMove DEF Trouble
<1>8. CASE hook' = [hook EXCEPT ![request[r].hook] = None] /\ UNCHANGED troubles
  <2>1. \A c \in Bindings : doc[c].hook \in Hooks \cup {None}
    BY DocType
  <2>2. \A c \in Bindings : /\ Stored(c) => Stored(c)'
                            /\ Alive(c)' => Alive(c) /\ doc'[c].hook = doc[c].hook
    BY <1>1, <1>5, <2>1 DEF Alive, Stored
  <2>3. \A c \in Bindings : doc[c].hook = request[r].hook => ~Alive(c)'
    BY <1>1, <1>2, <1>8 DEF Alive, TypeOK
  <2>4. ASSUME NEW p \in Running, Clean(request[p]) PROVE Clean(request[p])'
    <3>1. CASE p # r
      BY <1>4, <2>2, <2>4, <3>1, CleanKept
    <3>2. CASE p = r
      <4>1. /\ Stored(request[r].b)
            /\ Alive(request[r].b) => request[r].hook = doc[request[r].b].hook
        BY <1>1, <2>4, <3>2 DEF Clean
      <4>2. request'[r].b = request[r].b
        BY <1>1, <1>3, <1>4
      <4>3. Stored(request[r].b)' /\ ~Alive(request[r].b)'
        BY <1>1, <1>2, <2>2, <2>3, <4>1, <4>2 DEF Stored, Alive
      <4> QED
        BY <3>2, <4>3 DEF Clean
    <3> QED
      BY <3>1, <3>2
  <2> QED
    BY <1>1, <1>4, <1>6, <1>8, <2>4, BudgetMove DEF AllClean
<1> QED
  BY <1>1, <1>7, <1>8

(* The credential is rotated, or deleted. *)
LEMMA CredentialBudget ==
  ASSUME TypeOK, TypeOK', Budget, NEW r \in 1..MaxRequests, RotateCredential(r) \/ DeleteSecret(r)
  PROVE  Budget'
<1>1. /\ r \in Running /\ request[r].at \in {"credential", "secret"}
      /\ UNCHANGED <<doc, hook, overlaps>>
      /\ Trouble \/ UNCHANGED troubles
      /\ Answer(r) \/ \E to \in {"deregister", "doc"} : Go(r, to)
  BY DEF RotateCredential, DeleteSecret
<1>2. CASE Answer(r)
  BY <1>1, <1>2, AnswerBudget
<1>3. ASSUME NEW to \in {"deregister", "doc"}, Go(r, to) PROVE Budget'
  <2>1. to \in Places
    BY DEF Places
  <2>2. /\ \A p : p \in Running' <=> p \in Running
        /\ \A p \in Running : /\ request'[p].at = IF p = r THEN to ELSE request[p].at
                              /\ request'[p].b = request[p].b
                              /\ request'[p].hook = request[p].hook
    BY <1>1, <1>3, <2>1, Goes
  <2> QED
    BY <1>1, <2>2, GoesOnBudget
<1> QED
  BY <1>1, <1>2, <1>3

(* A maintainer removes a webhook. *)
LEMMA RemoveHookBudget ==
  ASSUME TypeOK, TypeOK', Budget, NEW h \in Hooks, RemoveHook(h)
  PROVE  Budget'
<1>1. /\ UNCHANGED <<doc, request, overlaps>> /\ troubles' = troubles + 1
      /\ hook' = [hook EXCEPT ![h] = None]
  BY DEF RemoveHook, Trouble
<1>2. \A g \in Hooks : hook'[g] # None => hook[g] # None /\ hook'[g].b = hook[g].b
  BY <1>1 DEF TypeOK
<1>3. Running' = Running
  BY <1>1 DEF Running
<1>4. Orphans' \subseteq Orphans
  BY <1>1, <1>2, <1>3, OrphansKept DEF Stored
<1> QED
  BY <1>1, <1>3, <1>4, BudgetMove

(* What the webhook route does is not in the budget. *)
LEMMA SameBudget ==
  ASSUME TypeOK, Budget, UNCHANGED <<doc, hook, request, troubles, overlaps>>
  PROVE  Budget'
<1>1. Running' = Running
  BY DEF Running
<1>2. Orphans' = Orphans
  BY <1>1 DEF Orphans, Stored
<1>3. Grace' = Grace
  BY <1>1 DEF Grace, Clean, Alive, Stored
<1> QED
  BY <1>1, <1>2, <1>3 DEF Budget

(* Every step keeps the budget. *)
LEMMA BudgetStep ==
  ASSUME TypeOK, Core, Budget, [Next]_vars
  PROVE  Budget'
<1>1. DOMAIN request = 1..MaxRequests /\ DOMAIN delivery = 1..MaxDeliveries
  BY DEF TypeOK
<1>2. TypeOK'
  BY CoreStep
<1>3. ASSUME NEW r \in 1..MaxRequests, Step(r)
      PROVE  Budget'
  BY <1>2, <1>3, InsertBudget, LookupBudget, RegisterBudget, UpdateHookBudget, DeregisterBudget,
     StoreBudget, HandleErrorBudget, CredentialBudget, DeleteDocBudget, SetDisabledBudget DEF Step
<1>4. CASE Crash
  BY <1>2, <1>4, BudgetDown DEF Crash, Trouble
<1>5. CASE UNCHANGED vars
  BY <1>5, SameBudget DEF vars
<1>6. ASSUME NEW d \in 1..MaxDeliveries,
             (\E h \in Hooks : Deliver(d, h)) \/ ReadBinding(d) \/ ReadSecret(d)
      PROVE  Budget'
  BY <1>6, SameBudget DEF Deliver, ReadBinding, ReadSecret
<1> QED
  BY <1>1, <1>2, <1>3, <1>4, <1>5, <1>6, RoutesBudget, RemoveHookBudget DEF Next

(* Nothing is spent at first. *)
LEMMA BudgetInit ==
  ASSUME Init
  PROVE  Budget
<1>1. Orphans = {} /\ Running = {}
  BY DEF Init, Orphans, Running
<1>2. Grace = 0
  BY <1>1 DEF Grace
<1> QED
  BY <1>1, <1>2, FS_EmptySet DEF Budget, Init

(* Requests in progress hold their share of the budget, the last one free. *)
LEMMA BudgetSuffices ==
  ASSUME TypeOK, Budget
  PROVE  OrphansAreExcused
<1>1. /\ IsFiniteSet(Running) /\ Cardinality(Running) \in Nat /\ Cardinality(Orphans) \in Nat
      /\ troubles \in Nat /\ overlaps \in Nat
  <2>1. MaxHooks \in Nat /\ MaxRequests \in Nat /\ MaxTroubles \in Nat /\ MaxOverlaps \in Nat
    BY BindingsAssumption
  <2>2. Orphans \subseteq 1..MaxHooks /\ Running \subseteq 1..MaxRequests
    BY DEF Orphans, Running, Hooks, TypeOK
  <2>3. troubles \in Nat /\ overlaps \in Nat
    BY <2>1 DEF TypeOK
  <2> QED
    BY <2>1, <2>2, <2>3, Counts
<1>2. Grace = 0 \/ (Grace = 1 /\ Running # {})
  BY DEF Grace
<1>3. Running # {} => Cardinality(Running) # 0
  BY <1>1, FS_EmptySet
<1> QED
  BY <1>1, <1>2, <1>3 DEF Budget, OrphansAreExcused

(* However many requests interleave, every webhook that nobody knows of is
   the price of one fault or of one request that overlapped another.         *)
THEOREM OrphansAlwaysExcused == Spec => []OrphansAreExcused
<1>1. Init => IInv
  BY CoreInit, BudgetInit DEF IInv
<1>2. IInv /\ [Next]_vars => IInv'
  BY CoreStep, BudgetStep DEF IInv
<1>3. IInv => OrphansAreExcused
  BY BudgetSuffices DEF IInv
<1> QED
  BY <1>1, <1>2, <1>3, PTL DEF Spec
=============================================================================
