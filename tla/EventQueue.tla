----------------------------- MODULE EventQueue -----------------------------
(***************************************************************************)
(* The keyed FIFO in front of the sync engine's dispatcher                 *)
(* (src/src/sync/queue.ts).  Node runs one callback at a time, so an       *)
(* action is the code between two awaits: `Enqueue` runs up to the first   *)
(* await of the processor it starts; a `Finish` action is the continuation *)
(* of `await this.processor(item)` in one suspended runKey.                *)
(***************************************************************************)
EXTENDS Integers, Sequences

CONSTANTS
  Keys,       \* queue keys: binding/resourceKey
  Items,      \* the entries handed to enqueue; each is enqueued at most once
  MaxKeys     \* maxKeys, 1000 in the code

ASSUME MaxKeysAssumption == MaxKeys \in Nat \ {0}

VARIABLES
  queues,       \* Map key -> [items, processing], a function on its key set
  order,        \* LruTracker.order, least recently touched key first
  running,      \* running[k]: items whose processor call for k is suspended
  drainState,   \* the one drainAll() call made at shutdown
  drainWait,    \* keys whose idle waiter drainAll() still awaits
  enqueued,     \* history: items ever enqueued
  finished,     \* history: items whose processor call has settled
  drainGoal,    \* history: items unfinished when drainAll() was called
  evictedBusy   \* history: a key was evicted while one of its items ran

queueVars == <<queues, order, running, drainState, drainWait,
          enqueued, finished, drainGoal, evictedBusy>>

queueHistory == <<enqueued, finished, drainGoal, evictedBusy>>

QueueEntry == [items : Seq(Items), processing : BOOLEAN]

QueueTypeOK ==
  /\ DOMAIN queues \subseteq Keys
  /\ queues \in [DOMAIN queues -> QueueEntry]
  /\ order \in Seq(Keys)
  /\ running \in [Keys -> SUBSET Items]
  /\ drainState \in {"idle", "draining", "drained", "timedOut"}
  /\ drainWait \subseteq Keys
  /\ enqueued \subseteq Items
  /\ finished \subseteq Items
  /\ drainGoal \subseteq Items
  /\ evictedBusy \in BOOLEAN

QueueInit ==
  /\ queues = [k \in {} |-> [items |-> <<>>, processing |-> FALSE]]
  /\ order = <<>>
  /\ running = [k \in Keys |-> {}]
  /\ drainState = "idle"
  /\ drainWait = {}
  /\ enqueued = {}
  /\ finished = {}
  /\ drainGoal = {}
  /\ evictedBusy = FALSE

-----------------------------------------------------------------------------
(* LruTracker. *)

(* The order without key k (order.delete): its one occurrence is cut out.  *)
Without(k) ==
  IF \E n \in 1..Len(order) : order[n] = k
  THEN LET n == CHOOSE n \in 1..Len(order) : order[n] = k
       IN  SubSeq(order, 1, n - 1) \o SubSeq(order, n + 1, Len(order))
  ELSE order

touch(k) == Append(Without(k), k)

evictOldest(o) == IF Len(o) > MaxKeys THEN {Head(o)} ELSE {}

-----------------------------------------------------------------------------
(* Mutants of the helpers below: the flag is ignored; the new item jumps   *)
(* the line; a drain overlooks keys whose last item is in the processor;   *)
(* a finished run forgets the backlog, or the waiters.                     *)

MustStart_IgnoringFlag(e) == TRUE

Push_AtFront(e, i) == [e EXCEPT !.items = <<i>> \o @]

Started_NoFlag(e) == [e EXCEPT !.items = Tail(@)]

IsIdle_NoBacklog(k) == k \notin DOMAIN queues \/ queues[k].items = <<>>

HasBacklog_Forgotten(k) == FALSE

NotifyIdleWaiters_Lost(k) == UNCHANGED drainWait

-----------------------------------------------------------------------------
(* enqueue starts a runKey only for an entry that no runKey is processing. *)
MustStart(e) == ~e.processing

Push(e, i) == [e EXCEPT !.items = Append(@, i)]

(* runKey up to its await: the flag goes up and the oldest item comes out. *)
Started(e) == [items |-> Tail(e.items), processing |-> TRUE]

isIdle(k) ==
  \/ k \notin DOMAIN queues
  \/ ~queues[k].processing /\ queues[k].items = <<>>

HasBacklog(k) == k \in DOMAIN queues /\ queues[k].items # <<>>

notifyIdleWaiters(k) == drainWait' = drainWait \ {k}

-----------------------------------------------------------------------------
(* The eviction drops the oldest entry with whatever it holds, whether or  *)
(* not a processor call for that key is suspended.                         *)
Enqueue(k, i) ==
  LET touched == touch(k)
      evicted == evictOldest(touched)
      kept    == DOMAIN queues \ evicted
      entry   == IF k \in kept THEN queues[k]
                 ELSE [items |-> <<>>, processing |-> FALSE]
      pushed  == Push(entry, i)
      start   == MustStart(entry)
  IN
  /\ i \notin enqueued
  /\ order' = IF evicted = {} THEN touched ELSE Tail(touched)
  /\ queues' = [x \in kept \cup {k} |->
                  IF x # k THEN queues[x]
                  ELSE IF start THEN Started(pushed) ELSE pushed]
  /\ running' = [running EXCEPT
                   ![k] = IF start THEN @ \cup {Head(pushed.items)} ELSE @]
  /\ enqueued' = enqueued \cup {i}
  /\ evictedBusy' = (evictedBusy \/ \E e \in evicted : running[e] # {})
  /\ UNCHANGED <<drainState, drainWait, finished, drainGoal>>

(* The processor settled (it never rejects past runKey's catch) and the    *)
(* entry, if the key still has one, holds more items: run the next.        *)
FinishAndRunNext(k, i) ==
  /\ i \in running[k]
  /\ HasBacklog(k)
  /\ queues' = [queues EXCEPT ![k] = Started(@)]
  /\ running' = [running EXCEPT ![k] = (@ \ {i}) \cup {Head(queues[k].items)}]
  /\ finished' = finished \cup {i}
  /\ UNCHANGED <<order, drainState, drainWait, enqueued, drainGoal, evictedBusy>>

(* No more items: the entry found under the key is marked idle, also when  *)
(* it is not the entry this run was started for.                           *)
FinishAndIdle(k, i) ==
  /\ i \in running[k]
  /\ k \in DOMAIN queues
  /\ ~HasBacklog(k)
  /\ queues' = [queues EXCEPT ![k].processing = FALSE]
  /\ running' = [running EXCEPT ![k] = @ \ {i}]
  /\ finished' = finished \cup {i}
  /\ notifyIdleWaiters(k)
  /\ UNCHANGED <<order, drainState, enqueued, drainGoal, evictedBusy>>

(* The key was evicted meanwhile: nothing is marked and nobody is told. *)
FinishEvicted(k, i) ==
  /\ i \in running[k]
  /\ k \notin DOMAIN queues
  /\ running' = [running EXCEPT ![k] = @ \ {i}]
  /\ finished' = finished \cup {i}
  /\ UNCHANGED <<queues, order, drainState, drainWait,
                 enqueued, drainGoal, evictedBusy>>

Finish(k, i) ==
  FinishAndRunNext(k, i) \/ FinishAndIdle(k, i) \/ FinishEvicted(k, i)

(* drainAll: waitForIdle on every key of the map; idle keys resolve at once. *)
DrainAll ==
  /\ drainState = "idle"
  /\ drainState' = "draining"
  /\ drainWait' = {k \in DOMAIN queues : ~isIdle(k)}
  /\ drainGoal' = enqueued \ finished
  /\ UNCHANGED <<queues, order, running, enqueued, finished, evictedBusy>>

DrainResolve ==
  /\ drainState = "draining"
  /\ drainWait = {}
  /\ drainState' = "drained"
  /\ UNCHANGED <<queues, order, running, drainWait, queueHistory>>

(* The 30 s timer of drainAll wins the race. *)
DrainTimeout ==
  /\ drainState = "draining"
  /\ drainState' = "timedOut"
  /\ UNCHANGED <<queues, order, running, drainWait, queueHistory>>

QueueNext ==
  \/ \E k \in Keys, i \in Items : Enqueue(k, i) \/ Finish(k, i)
  \/ DrainAll \/ DrainResolve \/ DrainTimeout

QueueSpec == QueueInit /\ [][QueueNext]_queueVars

(* Every processor call settles, and a promise all of whose inputs are     *)
(* resolved resolves.  Nothing forces anybody to enqueue, to shut down, or *)
(* the timer to win.                                                       *)
QueueFairness ==
  /\ \A k \in Keys, i \in Items : WF_queueVars(Finish(k, i))
  /\ WF_queueVars(DrainResolve)

QueueFairSpec == QueueSpec /\ QueueFairness

-----------------------------------------------------------------------------
(* Properties. *)

Sequential(k) == \A i, j \in running[k] : i = j

(* queue.ts's class comment, "Same key -> sequential processing": no two    *)
(* items of one key are in the processor together.  runKey and the         *)
(* `processing` flag are to ensure it; evicting a busy key defeats them.    *)
SequentialPerKey == \A k \in Keys : Sequential(k)

(* The part of it that does hold: serialization of a key can only be lost  *)
(* after some key was evicted with an item in the processor.               *)
SequentialUnlessBusyEvicted == ~evictedBusy => SequentialPerKey

(* A queued item always has a suspended runKey of its key that will pick   *)
(* it up: no interleaving of enqueue, eviction and the end of a run leaves *)
(* a backlog that only a later, unrelated enqueue would move.              *)
NoStrandedBacklog ==
  \A k \in DOMAIN queues : queues[k].items # <<>> => running[k] # {}

(* isIdle tells the truth, as drainAll and pollers rely on: a key it calls *)
(* idle has nothing in the processor (until a busy key was evicted).       *)
IdleMeansIdle ==
  ~evictedBusy => \A k \in Keys : isIdle(k) => running[k] = {}

(* The LRU order and the map of queues hold the same keys, each once, and  *)
(* no more than maxKeys of them: the memory bound the tracker is for.      *)
LruMatchesQueues ==
  /\ {order[n] : n \in 1..Len(order)} = DOMAIN queues
  /\ \A m, n \in 1..Len(order) : order[m] = order[n] => m = n
  /\ Len(order) <= MaxKeys

(* drainAll's comment, "Resolves when all currently-enqueued items across  *)
(* all keys have finished": once it resolved, what was unfinished at the   *)
(* call has finished.                                                      *)
DrainWaitsForAll == drainState = "drained" => drainGoal \subseteq finished

(* The part of it that holds: no drain resolves early unless a busy key    *)
(* was evicted.                                                            *)
DrainSoundUnlessBusyEvicted == ~evictedBusy => DrainWaitsForAll

(* A drain resolves by itself, without help from its timer, while items    *)
(* may still be enqueued behind it: no idle waiter is forgotten, unless    *)
(* its key was evicted busy.                                               *)
DrainEnds ==
  drainState = "draining" ~> drainState # "draining" \/ evictedBusy

(* The refinement mapping: a key's line is its running item and its queue. *)
Backlog(k) == IF k \in DOMAIN queues THEN queues[k].items ELSE <<>>

Line(k) == IF running[k] = {} THEN Backlog(k)
           ELSE <<CHOOSE i \in running[k] : TRUE>> \o Backlog(k)

Fifo == INSTANCE KeyedFifo WITH line   <- [k \in Keys |-> Line(k)],
                                broken <- evictedBusy

(* Evictions of idle keys included, the queue is a keyed FIFO until a busy *)
(* key is evicted: arrival order per key, one item of a key at a time,     *)
(* none lost, each eventually done.                                        *)
ImplementsKeyedFifo == Fifo!Spec
=============================================================================
