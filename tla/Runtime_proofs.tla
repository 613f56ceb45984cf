--------------------------- MODULE Runtime_proofs ---------------------------
(***************************************************************************)
(* The parts of the pod that live in memory and that everything else runs  *)
(* on: the event queue, for any set of keys and items and any bound on the *)
(* number of keys, evictions included; the circuit breaker, for every      *)
(* threshold, every open duration and any number of bindings and           *)
(* concurrent callers; and the loader's clients and keys, for any projects *)
(* and instances, any number of concurrent loads, restarts and clients     *)
(* left behind.  They share no state, and each has its own part.           *)
(***************************************************************************)
EXTENDS EventQueue, Breaker, Loader, SequenceTheorems, FiniteSetTheorems, TLAPS

-----------------------------------------------------------------------------
(* The event queue. *)

(* Pending items imply a raised flag, and a raised flag a suspended run:   *)
(* together they are NoStrandedBacklog, made inductive by naming the flag. *)
FlagDriven ==
  \A k \in DOMAIN queues :
    /\ queues[k].items # <<>> => queues[k].processing
    /\ queues[k].processing => running[k] # {}

(* Until a busy key is evicted every running item is the only one of its   *)
(* key and its key has an entry with the flag up, so neither enqueue nor a *)
(* re-created entry can start a second run.                                *)
RunsAreFlagged ==
  ~evictedBusy =>
    \A k \in Keys :
      /\ Sequential(k)
      /\ running[k] # {} => k \in DOMAIN queues /\ queues[k].processing

QueueInv == QueueTypeOK /\ LruMatchesQueues /\ FlagDriven /\ RunsAreFlagged

(* Key k has item i, in the processor or in its queue. *)
Holds(k, i) ==
  \/ i \in running[k]
  \/ k \in DOMAIN queues /\ \E n \in 1..Len(queues[k].items) : queues[k].items[n] = i

(* Until a busy key is evicted no unfinished item is lost, and the ones a   *)
(* drain is to wait for are with keys it still waits for.                   *)
NoneLost == ~evictedBusy => \A i \in enqueued \ finished : \E k \in Keys : Holds(k, i)

DrainCovers ==
  ~evictedBusy => \A i \in drainGoal \ finished : \E k \in drainWait : Holds(k, i)

DrainDone == drainState = "drained" => drainWait = {}

DInv == NoneLost /\ DrainCovers /\ DrainDone

-----------------------------------------------------------------------------

(* order.delete(key) cuts one position out and leaves the rest in place. *)
LEMMA WithoutIs ==
  ASSUME QueueTypeOK, NEW k \in Keys, NEW p \in 1..Len(order), order[p] = k,
         \A m, n \in 1..Len(order) : order[m] = order[n] => m = n
  PROVE  /\ Without(k) \in Seq(Keys)
         /\ Len(Without(k)) = Len(order) - 1
         /\ \A j \in 1..(Len(order) - 1) :
              Without(k)[j] = IF j < p THEN order[j] ELSE order[j + 1]
<1> DEFINE q == CHOOSE n \in 1..Len(order) : order[n] = k
           left == SubSeq(order, 1, p - 1)
           right == SubSeq(order, p + 1, Len(order))
<1>1. q = p
  OBVIOUS
<1>2. Without(k) = left \o right
  BY <1>1 DEF Without
<1>3. order \in Seq(Keys) /\ Len(order) \in Nat
  BY DEF QueueTypeOK
<1>4. \A i \in 1..Len(order) : order[i] \in Keys
  BY <1>3
<1>5. /\ left \in Seq(Keys)
      /\ Len(left) = p - 1
      /\ \A i \in 1..(p - 1) : left[i] = order[i]
  <2>1. \A i \in 1..(p - 1) : order[i] \in Keys
    BY <1>3, <1>4
  <2> HIDE DEF left
  <2> QED
    BY <1>3, <2>1, SubSeqProperties DEF left
<1>6. /\ right \in Seq(Keys)
      /\ Len(right) = Len(order) - p
      /\ \A i \in 1..(Len(order) - p) : right[i] = order[p + i]
  <2>1. \A i \in (p + 1)..Len(order) : order[i] \in Keys
    BY <1>3, <1>4
  <2>2. p + 1 \in Int /\ Len(order) \in Int
    BY <1>3
  <2> QED
    BY <1>3, <2>1, <2>2, SubSeqProperties
<1> HIDE DEF left, right
<1>7. left \o right \in Seq(Keys) /\ Len(left \o right) = Len(order) - 1
  BY <1>3, <1>5, <1>6
<1>8. ASSUME NEW j \in 1..(Len(order) - 1)
      PROVE  (left \o right)[j] = IF j < p THEN order[j] ELSE order[j + 1]
  BY <1>3, <1>5, <1>6
<1> QED
  BY <1>2, <1>7, <1>8

Injective(o) == \A m, n \in 1..Len(o) : o[m] = o[n] => m = n

KeysOf(o) == {o[n] : n \in 1..Len(o)}

(* touch moves a key to the young end: the order stays free of duplicates  *)
(* and gains at most that key.                                             *)
LEMMA TouchIs ==
  ASSUME QueueTypeOK, Injective(order), NEW k \in Keys
  PROVE  /\ touch(k) \in Seq(Keys)
         /\ Len(touch(k)) \in 1..(Len(order) + 1)
         /\ Injective(touch(k))
         /\ KeysOf(touch(k)) = KeysOf(order) \cup {k}
         /\ touch(k)[Len(touch(k))] = k
<1> DEFINE w == Without(k)
<1>0. order \in Seq(Keys) /\ Len(order) \in Nat
  BY DEF QueueTypeOK
<1>1. /\ w \in Seq(Keys) /\ Len(w) \in 0..Len(order)
      /\ Injective(w) /\ KeysOf(w) = KeysOf(order) \ {k}
  <2>1. CASE \E n \in 1..Len(order) : order[n] = k
    <3>1. PICK p \in 1..Len(order) : order[p] = k
      BY <2>1
    <3>2. /\ w \in Seq(Keys)
          /\ Len(w) = Len(order) - 1
          /\ \A j \in 1..(Len(order) - 1) :
               w[j] = IF j < p THEN order[j] ELSE order[j + 1]
      BY <3>1, WithoutIs DEF Injective
    <3> HIDE DEF w
    <3>a. \A m, n \in 1..Len(order) : order[m] = order[n] => m = n
      BY DEF Injective
    <3>b. p \in Int /\ 1..Len(w) = 1..(Len(order) - 1)
      BY <1>0, <3>2
    <3>3. Injective(w)
      <4>1. ASSUME NEW m \in 1..(Len(order) - 1), NEW n \in 1..(Len(order) - 1),
                   w[m] = w[n]
            PROVE  m = n
        <5>1. CASE m < p /\ n < p
          BY <1>0, <3>a, <3>b, <3>2, <4>1, <5>1
        <5>2. CASE m < p /\ ~(n < p)
          BY <1>0, <3>a, <3>b, <3>2, <4>1, <5>2
        <5>3. CASE ~(m < p) /\ n < p
          BY <1>0, <3>a, <3>b, <3>2, <4>1, <5>3
        <5>4. CASE ~(m < p) /\ ~(n < p)
          BY <1>0, <3>a, <3>b, <3>2, <4>1, <5>4
        <5> QED
          BY <5>1, <5>2, <5>3, <5>4
      <4> QED
        BY <3>b, <4>1 DEF Injective
    <3>4. KeysOf(w) \subseteq KeysOf(order) \ {k}
      <4>1. ASSUME NEW n \in 1..(Len(order) - 1)
            PROVE  w[n] \in KeysOf(order) \ {k}
        <5>1. CASE n < p
          BY <1>0, <3>a, <3>b, <3>1, <3>2, <5>1 DEF KeysOf
        <5>2. CASE ~(n < p)
          BY <1>0, <3>a, <3>b, <3>1, <3>2, <5>2 DEF KeysOf
        <5> QED
          BY <5>1, <5>2
      <4> QED
        BY <3>b, <4>1 DEF KeysOf
    <3>5. ASSUME NEW n \in 1..Len(order), order[n] # k
          PROVE  \E j \in 1..Len(w) : w[j] = order[n]
      <4>1. CASE n < p
        BY <1>0, <3>1, <3>2, <4>1
      <4>2. CASE n > p
        <5>1. n - 1 \in 1..Len(w) /\ w[n - 1] = order[n]
          BY <1>0, <3>1, <3>2, <4>2
        <5> QED BY <5>1
      <4> QED
        BY <3>1, <3>5, <4>1, <4>2
    <3>6. KeysOf(order) \ {k} \subseteq KeysOf(w)
      BY <3>5 DEF KeysOf
    <3> QED
      BY <1>0, <3>1, <3>2, <3>3, <3>4, <3>6
  <2>2. CASE ~ \E n \in 1..Len(order) : order[n] = k
    BY <1>0, <2>2 DEF Without, KeysOf
  <2> QED
    BY <2>1, <2>2
<1> HIDE DEF w
<1>2. touch(k) = Append(w, k)
  BY DEF touch, w
<1>3. \A n \in 1..Len(w) : w[n] # k
  BY <1>1 DEF KeysOf
<1>4. /\ Append(w, k) \in Seq(Keys)
      /\ Len(Append(w, k)) = Len(w) + 1
      /\ Append(w, k)[Len(w) + 1] = k
      /\ \A n \in 1..Len(w) : Append(w, k)[n] = w[n]
  BY <1>1
<1>5. Injective(Append(w, k))
  BY <1>0, <1>1, <1>3, <1>4 DEF Injective
<1>6. KeysOf(Append(w, k)) = KeysOf(order) \cup {k}
  BY <1>0, <1>1, <1>4 DEF KeysOf
<1> QED
  BY <1>0, <1>1, <1>2, <1>4, <1>5, <1>6

(* enqueue, with its eviction, preserves the invariant. *)
LEMMA EnqueueStep ==
  ASSUME QueueInv, NEW k \in Keys, NEW i \in Items, Enqueue(k, i)
  PROVE  QueueInv'
<1> DEFINE touched == touch(k)
           evicted == evictOldest(touched)
           kept    == DOMAIN queues \ evicted
           entry   == IF k \in kept THEN queues[k]
                      ELSE [items |-> <<>>, processing |-> FALSE]
           pushed  == Push(entry, i)
           start   == MustStart(entry)
           value   == IF start THEN Started(pushed) ELSE pushed
<1>1. /\ touched \in Seq(Keys)
      /\ Len(touched) \in 1..(Len(order) + 1)
      /\ Injective(touched)
      /\ KeysOf(touched) = DOMAIN queues \cup {k}
      /\ touched[Len(touched)] = k
  BY TouchIs DEF QueueInv, LruMatchesQueues, Injective, KeysOf
<1>2. order \in Seq(Keys) /\ Len(order) \in 0..MaxKeys
  BY DEF QueueInv, QueueTypeOK, LruMatchesQueues
<1>3. entry \in QueueEntry
  BY DEF QueueInv, QueueTypeOK, QueueEntry
<1>4. pushed \in QueueEntry /\ pushed.items # <<>>
  <2> HIDE DEF entry
  <2>1. Append(entry.items, i) \in Seq(Items) /\ Append(entry.items, i) # <<>>
    BY <1>3 DEF QueueEntry
  <2>2. pushed = [items |-> Append(entry.items, i),
                  processing |-> entry.processing]
    BY <1>3 DEF Push, QueueEntry
  <2> QED
    BY <1>3, <2>1, <2>2 DEF QueueEntry
<1>5. value \in QueueEntry /\ Head(pushed.items) \in Items
  BY <1>4 DEF Started, QueueEntry
<1>6. /\ order' = IF evicted = {} THEN touched ELSE Tail(touched)
      /\ queues' = [x \in kept \cup {k} |-> IF x # k THEN queues[x] ELSE value]
      /\ running' = [running EXCEPT
                       ![k] = IF start THEN @ \cup {Head(pushed.items)} ELSE @]
      /\ evictedBusy' = (evictedBusy \/ \E e \in evicted : running[e] # {})
      /\ enqueued' = enqueued \cup {i}
      /\ UNCHANGED <<drainState, drainWait, finished, drainGoal>>
  BY DEF Enqueue
<1>7. evicted = IF Len(touched) > MaxKeys THEN {Head(touched)} ELSE {}
  BY DEF evictOldest
<1>8. start = ~entry.processing
  BY DEF MustStart
<1> HIDE DEF touched, evicted, pushed, start, value
<1>9. QueueTypeOK'
  <2>1. order' \in Seq(Keys)
    BY <1>1, <1>6
  <2>2. DOMAIN queues' \subseteq Keys /\ queues' \in [DOMAIN queues' -> QueueEntry]
    BY <1>5, <1>6 DEF QueueInv, QueueTypeOK
  <2>3. running' \in [Keys -> SUBSET Items]
    BY <1>5, <1>6 DEF QueueInv, QueueTypeOK
  <2> QED
    BY <1>6, <2>1, <2>2, <2>3 DEF QueueInv, QueueTypeOK
<1>10. LruMatchesQueues'
  <2>1. CASE Len(touched) > MaxKeys
    <3>1. evicted = {touched[1]} /\ order' = Tail(touched)
      BY <1>1, <1>6, <1>7, <2>1
    <3>2. Len(order') = Len(touched) - 1 /\ Len(order') \in 1..MaxKeys
      BY <1>1, <1>2, <2>1, <3>1, MaxKeysAssumption
    <3>3. \A n \in 1..Len(order') : order'[n] = touched[n + 1]
      BY <1>1, <3>1, <3>2
    <3>4. \A m, n \in 1..Len(order') : order'[m] = order'[n] => m = n
      BY <1>1, <3>2, <3>3 DEF Injective
    <3>5. touched[1] # k
      BY <1>1, <2>1, MaxKeysAssumption DEF Injective
    <3>6. KeysOf(order') = KeysOf(touched) \ {touched[1]}
      <4>1. KeysOf(order') \subseteq KeysOf(touched) \ {touched[1]}
        BY <1>1, <3>2, <3>3 DEF KeysOf, Injective
      <4>2. ASSUME NEW n \in 1..Len(touched), touched[n] # touched[1]
            PROVE  touched[n] \in KeysOf(order')
        <5>1. n - 1 \in 1..Len(order') /\ order'[n - 1] = touched[n]
          BY <1>1, <3>2, <3>3, <4>2
        <5> QED
          BY <5>1 DEF KeysOf
      <4> QED
        BY <4>1, <4>2 DEF KeysOf
    <3>7. KeysOf(order') = DOMAIN queues'
      BY <1>1, <1>6, <3>1, <3>5, <3>6
    <3> QED
      BY <3>2, <3>4, <3>7 DEF LruMatchesQueues, KeysOf
  <2>2. CASE ~(Len(touched) > MaxKeys)
    <3>1. evicted = {} /\ order' = touched
      BY <1>6, <1>7, <2>2
    <3>2. KeysOf(order') = DOMAIN queues'
      BY <1>1, <1>6, <3>1
    <3> QED
      BY <1>1, <2>2, <3>1, <3>2, MaxKeysAssumption
      DEF LruMatchesQueues, KeysOf, Injective
  <2> QED
    BY <2>1, <2>2
<1>11. FlagDriven'
  <2>1. ASSUME NEW x \in DOMAIN queues', x # k
        PROVE  /\ queues'[x].items # <<>> => queues'[x].processing
               /\ queues'[x].processing => running'[x] # {}
    BY <1>6, <2>1 DEF QueueInv, FlagDriven, QueueTypeOK
  <2>2. value.processing
    BY <1>3, <1>4, <1>8 DEF value, Started, pushed, Push, QueueEntry
  <2>3. running'[k] # {}
    <3>1. CASE start
      BY <1>6, <3>1 DEF QueueInv, QueueTypeOK
    <3>2. CASE ~start
      BY <1>6, <1>8, <3>2 DEF QueueInv, QueueTypeOK, FlagDriven
    <3> QED
      BY <3>1, <3>2
  <2> QED
    BY <1>6, <2>1, <2>2, <2>3 DEF FlagDriven
<1>12. RunsAreFlagged'
  <2> SUFFICES ASSUME ~evictedBusy', NEW x \in Keys
               PROVE  /\ \A i1, i2 \in running'[x] : i1 = i2
                      /\ running'[x] # {} =>
                           x \in DOMAIN queues' /\ queues'[x].processing
    BY DEF RunsAreFlagged, Sequential
  <2>1. ~evictedBusy /\ \A e \in evicted : running[e] = {}
    BY <1>6
  <2>2. /\ \A i1, i2 \in running[x] : i1 = i2
        /\ running[x] # {} => x \in DOMAIN queues /\ queues[x].processing
    BY <2>1 DEF QueueInv, RunsAreFlagged, Sequential
  <2>3. CASE x # k
    BY <1>6, <2>1, <2>2, <2>3 DEF QueueInv, QueueTypeOK
  <2>4. CASE x = k
    <3>1. value.processing
      BY <1>3, <1>4, <1>8 DEF value, Started, pushed, Push, QueueEntry
    <3>2. k \in DOMAIN queues' /\ queues'[k].processing
      BY <1>6, <3>1
    <3>3. CASE start
      <4>1. running[k] = {}
        BY <1>8, <2>1, <2>2, <2>4, <3>3
      <4> QED
        BY <1>6, <2>4, <3>2, <3>3, <4>1 DEF QueueInv, QueueTypeOK
    <3>4. CASE ~start
      BY <1>6, <2>2, <2>4, <3>2, <3>4 DEF QueueInv, QueueTypeOK
    <3> QED
      BY <3>3, <3>4
  <2> QED
    BY <2>3, <2>4
<1> QED
  BY <1>9, <1>10, <1>11, <1>12 DEF QueueInv

(* The end of a run, in its three forms, preserves the invariant. *)
LEMMA FinishStep ==
  ASSUME QueueInv, NEW k \in Keys, NEW i \in Items, Finish(k, i)
  PROVE  QueueInv'
<1>1. CASE FinishAndRunNext(k, i)
  <2>1. k \in DOMAIN queues /\ queues[k] \in QueueEntry /\ queues[k].items # <<>>
    BY <1>1 DEF FinishAndRunNext, HasBacklog, QueueInv, QueueTypeOK
  <2> DEFINE next == Head(queues[k].items)
             e == Started(queues[k])
  <2>2. e \in QueueEntry /\ e.processing /\ next \in Items
    BY <2>1 DEF Started, QueueEntry
  <2>3. /\ queues' = [queues EXCEPT ![k] = e]
        /\ running' = [running EXCEPT ![k] = (@ \ {i}) \cup {next}]
        /\ i \in running[k]
        /\ finished' = finished \cup {i}
        /\ UNCHANGED <<order, drainState, drainWait, enqueued, drainGoal,
                       evictedBusy>>
    BY <1>1 DEF FinishAndRunNext
  <2> HIDE DEF next, e
  <2>4. QueueTypeOK'
    BY <2>1, <2>2, <2>3 DEF QueueInv, QueueTypeOK
  <2>5. LruMatchesQueues'
    BY <2>3 DEF QueueInv, QueueTypeOK, LruMatchesQueues
  <2>6. FlagDriven'
    BY <2>1, <2>2, <2>3 DEF QueueInv, QueueTypeOK, FlagDriven
  <2>7. RunsAreFlagged'
    BY <2>1, <2>2, <2>3 DEF QueueInv, QueueTypeOK, RunsAreFlagged, Sequential
  <2> QED
    BY <2>4, <2>5, <2>6, <2>7 DEF QueueInv
<1>2. CASE FinishAndIdle(k, i)
  <2>1. k \in DOMAIN queues /\ queues[k] \in QueueEntry /\ queues[k].items = <<>>
    BY <1>2 DEF FinishAndIdle, HasBacklog, QueueInv, QueueTypeOK
  <2> DEFINE e == [queues[k] EXCEPT !.processing = FALSE]
  <2>2. e \in QueueEntry /\ ~e.processing /\ e.items = <<>>
    BY <2>1 DEF QueueEntry
  <2>3. /\ queues' = [queues EXCEPT ![k] = e]
        /\ running' = [running EXCEPT ![k] = @ \ {i}]
        /\ i \in running[k]
        /\ finished' = finished \cup {i}
        /\ drainWait' = drainWait \ {k}
        /\ UNCHANGED <<order, drainState, enqueued, drainGoal, evictedBusy>>
    BY <1>2, <2>1 DEF FinishAndIdle, notifyIdleWaiters
  <2> HIDE DEF e
  <2>4. QueueTypeOK'
    BY <2>1, <2>2, <2>3 DEF QueueInv, QueueTypeOK
  <2>5. LruMatchesQueues'
    BY <2>3 DEF QueueInv, QueueTypeOK, LruMatchesQueues
  <2>6. FlagDriven'
    BY <2>1, <2>2, <2>3 DEF QueueInv, QueueTypeOK, FlagDriven
  <2>7. RunsAreFlagged'
    BY <2>1, <2>2, <2>3 DEF QueueInv, QueueTypeOK, RunsAreFlagged, Sequential
  <2> QED
    BY <2>4, <2>5, <2>6, <2>7 DEF QueueInv
<1>3. CASE FinishEvicted(k, i)
  <2>1. /\ running' = [running EXCEPT ![k] = @ \ {i}]
        /\ k \notin DOMAIN queues
        /\ i \in running[k]
        /\ finished' = finished \cup {i}
        /\ UNCHANGED <<queues, order, drainState, drainWait, enqueued,
                       drainGoal, evictedBusy>>
    BY <1>3 DEF FinishEvicted
  <2>2. QueueTypeOK'
    BY <2>1 DEF QueueInv, QueueTypeOK
  <2>3. LruMatchesQueues'
    BY <2>1 DEF QueueInv, LruMatchesQueues
  <2>4. FlagDriven'
    BY <2>1 DEF QueueInv, QueueTypeOK, FlagDriven
  <2>5. RunsAreFlagged'
    BY <2>1 DEF QueueInv, QueueTypeOK, RunsAreFlagged, Sequential
  <2> QED
    BY <2>2, <2>3, <2>4, <2>5 DEF QueueInv
<1> QED
  BY <1>1, <1>2, <1>3 DEF Finish

(* The drain only reads the queues. *)
LEMMA DrainStep ==
  ASSUME QueueInv, DrainAll \/ DrainResolve \/ DrainTimeout \/ UNCHANGED queueVars
  PROVE  QueueInv'
<1>1. UNCHANGED <<queues, order, running, enqueued, finished, evictedBusy>>
  BY DEF DrainAll, DrainResolve, DrainTimeout, queueVars, queueHistory
<1>2. QueueTypeOK'
  BY <1>1 DEF QueueInv, QueueTypeOK, DrainAll, DrainResolve, DrainTimeout, queueVars, queueHistory
<1>3. LruMatchesQueues' /\ FlagDriven' /\ RunsAreFlagged'
  BY <1>1 DEF QueueInv, LruMatchesQueues, FlagDriven, RunsAreFlagged, Sequential
<1> QED
  BY <1>2, <1>3 DEF QueueInv

(* The inductive invariant holds in every reachable state. *)
THEOREM QueueInvariance == QueueSpec => []QueueInv
<1>1. QueueInit => QueueInv
  <2> SUFFICES ASSUME QueueInit PROVE QueueInv
    OBVIOUS
  <2>0. DOMAIN queues = {} /\ queues \in [{} -> QueueEntry]
    BY DEF QueueInit
  <2>a. order \in Seq(Keys)
    BY DEF QueueInit
  <2>b. running \in [Keys -> SUBSET Items]
    BY DEF QueueInit
  <2>1. QueueTypeOK
    BY <2>0, <2>a, <2>b DEF QueueInit, QueueTypeOK
  <2>2. LruMatchesQueues
    BY MaxKeysAssumption DEF QueueInit, LruMatchesQueues
  <2>3. FlagDriven /\ RunsAreFlagged
    BY DEF QueueInit, FlagDriven, RunsAreFlagged, Sequential
  <2> QED
    BY <2>1, <2>2, <2>3 DEF QueueInv
<1>2. QueueInv /\ [QueueNext]_queueVars => QueueInv'
  BY EnqueueStep, FinishStep, DrainStep DEF QueueNext
<1> QED
  BY <1>1, <1>2, PTL DEF QueueSpec

(* The queue's variables keep their types, whatever the keys and items. *)
THEOREM QueueTypeCorrect == QueueSpec => []QueueTypeOK
<1>1. QueueInv => QueueTypeOK
  BY DEF QueueInv
<1> QED
  BY <1>1, QueueInvariance, PTL

(* enqueue and runKey serialize each key's items until a busy key is       *)
(* evicted, for every number of keys.                                      *)
THEOREM Serialization == QueueSpec => []SequentialUnlessBusyEvicted
<1>1. QueueInv => SequentialUnlessBusyEvicted
  BY DEF QueueInv, RunsAreFlagged, SequentialUnlessBusyEvicted, SequentialPerKey
<1> QED
  BY <1>1, QueueInvariance, PTL

(* No enqueue, end of run or eviction strands an item in a queue. *)
THEOREM BacklogDriven == QueueSpec => []NoStrandedBacklog
<1>1. QueueInv => NoStrandedBacklog
  BY DEF QueueInv, FlagDriven, NoStrandedBacklog
<1> QED
  BY <1>1, QueueInvariance, PTL

(* A key that isIdle calls idle has nothing in the processor. *)
THEOREM IdleTruthful == QueueSpec => []IdleMeansIdle
<1>1. QueueInv => IdleMeansIdle
  BY DEF QueueInv, RunsAreFlagged, IdleMeansIdle, isIdle
<1> QED
  BY <1>1, QueueInvariance, PTL

(* The LRU tracker and the queues agree and stay within maxKeys. *)
THEOREM LruBound == QueueSpec => []LruMatchesQueues
<1>1. QueueInv => LruMatchesQueues
  BY DEF QueueInv
<1> QED
  BY <1>1, QueueInvariance, PTL

-----------------------------------------------------------------------------
(* Items and the keys that have them. *)

(* Before a busy key is evicted, a key whose flag is down has nothing. *)
LEMMA QuietKeys ==
  ASSUME QueueInv, NEW k \in Keys, running[k] = {}
  PROVE  /\ k \in DOMAIN queues => queues[k].items = <<>> /\ ~queues[k].processing
         /\ \A j : ~Holds(k, j)
<1>1. k \in DOMAIN queues => queues[k].items = <<>> /\ ~queues[k].processing
  BY DEF QueueInv, FlagDriven
<1> QED
  BY <1>1 DEF Holds

(* enqueue gives the key its item; nobody loses any. *)
LEMMA EnqueueHolds ==
  ASSUME QueueInv, NEW k \in Keys, NEW i \in Items, Enqueue(k, i), ~evictedBusy'
  PROVE  /\ ~evictedBusy
         /\ \A x \in Keys, j \in Items : Holds(x, j) => Holds(x, j)'
         /\ Holds(k, i)'
         /\ \A x \in Keys \ {k} : running'[x] = running[x] /\ Backlog(x)' = Backlog(x)
         /\ \/ /\ running[k] = {} /\ Backlog(k) = <<>>
               /\ running'[k] = {i} /\ Backlog(k)' = <<>>
            \/ /\ running[k] # {} /\ running'[k] = running[k]
               /\ Backlog(k)' = Append(Backlog(k), i)
<1> DEFINE evicted == evictOldest(touch(k))
           kept    == DOMAIN queues \ evicted
           entry   == IF k \in kept THEN queues[k]
                      ELSE [items |-> <<>>, processing |-> FALSE]
           pushed  == Push(entry, i)
           start   == MustStart(entry)
           value   == IF start THEN Started(pushed) ELSE pushed
<1>1. /\ queues' = [x \in kept \cup {k} |-> IF x # k THEN queues[x] ELSE value]
      /\ running' = [running EXCEPT ![k] = IF start THEN @ \cup {Head(pushed.items)} ELSE @]
      /\ ~evictedBusy /\ \A e \in evicted : running[e] = {}
  BY DEF Enqueue
<1>2. DOMAIN queues \subseteq Keys /\ DOMAIN running = Keys
  BY DEF QueueInv, QueueTypeOK
<1>3. entry \in QueueEntry
  BY DEF QueueInv, QueueTypeOK, QueueEntry
<1>4. /\ pushed.items = Append(entry.items, i) /\ pushed.processing = entry.processing
      /\ entry.items \in Seq(Items) /\ (start <=> ~entry.processing)
  <2> HIDE DEF entry
  <2> QED
    BY <1>3 DEF Push, QueueEntry, MustStart
<1>5. CASE start
  <2>1. entry.items = <<>>
    BY <1>2, <1>4, <1>5 DEF QueueInv, FlagDriven
  <2>2. running[k] = {}
    <3>1. CASE k \in kept
      BY <1>1, <1>4, <1>5, <3>1 DEF QueueInv, RunsAreFlagged
    <3>2. CASE k \notin kept
      BY <1>1, <3>2 DEF QueueInv, RunsAreFlagged
    <3> QED
      BY <3>1, <3>2
  <2>3. pushed.items = <<i>>
    BY <1>4, <2>1
  <2>4. Head(<<i>>) = i /\ Tail(<<i>>) = <<>>
    OBVIOUS
  <2>5. value.items = <<>>
    BY <1>5, <2>3, <2>4 DEF Started
  <2>6. running'[k] = {i}
    BY <1>1, <1>2, <1>5, <2>2, <2>3, <2>4
  <2> HIDE DEF value, evicted
  <2>7. Backlog(k)' = <<>> /\ Backlog(k) = <<>>
    BY <1>1, <2>2, <2>5, QuietKeys DEF Backlog
  <2>8. ASSUME NEW x \in Keys \ {k}
        PROVE  running'[x] = running[x] /\ Backlog(x)' = Backlog(x)
    <3>1. running'[x] = running[x]
      BY <1>1, <1>2
    <3>2. CASE x \in evicted
      <4>1. running[x] = {}
        BY <1>1, <3>2
      <4>2. Backlog(x) = <<>>
        BY <4>1, QuietKeys DEF Backlog
      <4> QED
        BY <1>1, <3>1, <3>2, <4>2 DEF Backlog
    <3>3. CASE x \notin evicted
      BY <1>1, <3>1, <3>3 DEF Backlog
    <3> QED
      BY <3>2, <3>3
  <2>9. ASSUME NEW x \in Keys, NEW j \in Items, Holds(x, j)
        PROVE  Holds(x, j)'
    <3>1. x # k
      BY <2>2, <2>9, QuietKeys
    <3>2. running[x] # {}
      BY <2>9, QuietKeys
    <3>3. x \notin evicted
      BY <1>1, <3>2
    <3> QED
      BY <1>1, <1>2, <2>9, <3>1, <3>3 DEF Holds
  <2>10. Holds(k, i)'
    BY <2>6 DEF Holds
  <2> QED
    BY <1>1, <2>2, <2>6, <2>7, <2>8, <2>9, <2>10
<1>6. CASE ~start
  <2>1. entry.processing /\ k \in kept /\ entry = queues[k]
    BY <1>4, <1>6
  <2>2. running[k] # {} /\ running'[k] = running[k]
    BY <1>1, <1>2, <1>6, <2>1 DEF QueueInv, FlagDriven
  <2>3. value.items = Append(queues[k].items, i) /\ queues[k].items \in Seq(Items)
    BY <1>4, <1>6, <2>1
  <2> HIDE DEF value, evicted
  <2>4. Backlog(k)' = Append(Backlog(k), i)
    BY <1>1, <2>1, <2>3 DEF Backlog
  <2>5. ASSUME NEW x \in Keys \ {k}
        PROVE  running'[x] = running[x] /\ Backlog(x)' = Backlog(x)
    <3>1. running'[x] = running[x]
      BY <1>1, <1>2
    <3>2. CASE x \in evicted
      <4>1. running[x] = {}
        BY <1>1, <3>2
      <4>2. Backlog(x) = <<>>
        BY <4>1, QuietKeys DEF Backlog
      <4> QED
        BY <1>1, <3>1, <3>2, <4>2 DEF Backlog
    <3>3. CASE x \notin evicted
      BY <1>1, <3>1, <3>3 DEF Backlog
    <3> QED
      BY <3>2, <3>3
  <2>6. /\ Len(value.items) = Len(queues[k].items) + 1 /\ Len(queues[k].items) \in Nat
        /\ \A n \in 1..Len(queues[k].items) : value.items[n] = queues[k].items[n]
        /\ value.items[Len(queues[k].items) + 1] = i
    BY <2>3, AppendProperties, LenProperties
  <2>7. queues'[k] = value /\ k \in DOMAIN queues'
    BY <1>1
  <2>8. ASSUME NEW x \in Keys, NEW j \in Items, Holds(x, j)
        PROVE  Holds(x, j)'
    <3>1. running[x] # {}
      BY <2>8, QuietKeys
    <3>2. x \notin evicted
      BY <1>1, <3>1
    <3>3. CASE x # k
      BY <1>1, <1>2, <2>8, <3>2, <3>3 DEF Holds
    <3>4. CASE x = k
      BY <2>2, <2>6, <2>7, <2>8, <3>4 DEF Holds
    <3> QED
      BY <3>3, <3>4
  <2>9. Holds(k, i)'
    BY <2>6, <2>7 DEF Holds
  <2> QED
    BY <1>1, <2>2, <2>4, <2>5, <2>8, <2>9
<1> QED
  BY <1>5, <1>6

(* The end of a run takes one item away and none of the others. *)
LEMMA FinishHolds ==
  ASSUME QueueInv, NEW k \in Keys, NEW i \in Items, Finish(k, i), ~evictedBusy
  PROVE  /\ evictedBusy' = evictedBusy /\ finished' = finished \cup {i} /\ running[k] = {i}
         /\ \A x \in Keys, j \in Items \ {i} : Holds(x, j) => Holds(x, j)'
         /\ \A x \in Keys \ {k} : running'[x] = running[x] /\ Backlog(x)' = Backlog(x)
         /\ \/ /\ Backlog(k) # <<>> /\ Backlog(k) \in Seq(Items) /\ drainWait' = drainWait
               /\ running'[k] = {Head(Backlog(k))} /\ Backlog(k)' = Tail(Backlog(k))
            \/ /\ Backlog(k) = <<>> /\ drainWait' = drainWait \ {k}
               /\ running'[k] = {} /\ Backlog(k)' = <<>>
<1>1. i \in running[k] /\ evictedBusy' = evictedBusy /\ finished' = finished \cup {i}
  BY DEF Finish, FinishAndRunNext, FinishAndIdle, FinishEvicted
<1>2. running[k] = {i} /\ k \in DOMAIN queues
  BY <1>1 DEF QueueInv, RunsAreFlagged, Sequential
<1>3. queues[k] \in QueueEntry /\ queues[k].items \in Seq(Items) /\ DOMAIN running = Keys
      /\ Backlog(k) = queues[k].items
  BY <1>2 DEF QueueInv, QueueTypeOK, QueueEntry, Backlog
<1>4. CASE FinishAndRunNext(k, i)
  <2> DEFINE b == queues[k].items
  <2>1. b # <<>> /\ queues' = [queues EXCEPT ![k] = Started(queues[k])] /\ drainWait' = drainWait
        /\ running' = [running EXCEPT ![k] = (running[k] \ {i}) \cup {Head(b)}]
    BY <1>4 DEF FinishAndRunNext, HasBacklog
  <2>2. /\ Len(b) \in Nat /\ Len(b) >= 1 /\ Len(Tail(b)) = Len(b) - 1 /\ Head(b) = b[1]
        /\ \A n \in 1..(Len(b) - 1) : Tail(b)[n] = b[n + 1]
    BY <1>3, <2>1, HeadTailProperties, LenProperties, EmptySeq
  <2>3. queues'[k].items = Tail(b) /\ DOMAIN queues' = DOMAIN queues /\ running'[k] = {Head(b)}
    BY <1>2, <1>3, <2>1 DEF Started
  <2> HIDE DEF b
  <2>4. \A x \in Keys \ {k} : running'[x] = running[x] /\ queues'[x] = queues[x]
    BY <1>3, <2>1 DEF QueueInv, QueueTypeOK
  <2>5. \A x \in Keys \ {k} : Backlog(x)' = Backlog(x)
    BY <2>3, <2>4 DEF Backlog
  <2>6. ASSUME NEW x \in Keys, NEW j \in Items \ {i}, Holds(x, j)
        PROVE  Holds(x, j)'
    <3>1. CASE x # k
      BY <2>3, <2>4, <2>6, <3>1 DEF Holds
    <3>2. CASE x = k
      <4>1. PICK n \in 1..Len(b) : b[n] = j
        BY <1>2, <2>6, <3>2 DEF Holds, b
      <4>2. CASE n = 1
        BY <2>2, <2>3, <3>2, <4>1, <4>2 DEF Holds
      <4>3. CASE n # 1
        <5>1. n - 1 \in 1..Len(Tail(b)) /\ Tail(b)[n - 1] = j
          BY <2>2, <4>1, <4>3
        <5>2. x \in DOMAIN queues' /\ queues'[x].items = Tail(b)
          BY <1>2, <2>3, <3>2
        <5> QED
          BY <5>1, <5>2 DEF Holds
      <4> QED
        BY <4>2, <4>3
    <3> QED
      BY <3>1, <3>2
  <2>7. Backlog(k)' = Tail(b) /\ Backlog(k) = b
    BY <1>2, <1>3, <2>3 DEF Backlog, b
  <2> QED
    BY <1>1, <1>2, <1>3, <2>1, <2>3, <2>4, <2>5, <2>6, <2>7
<1>5. CASE FinishAndIdle(k, i)
  <2>1. /\ queues[k].items = <<>> /\ drainWait' = drainWait \ {k}
        /\ running' = [running EXCEPT ![k] = running[k] \ {i}]
        /\ queues' = [queues EXCEPT ![k] = [queues[k] EXCEPT !.processing = FALSE]]
    BY <1>5 DEF FinishAndIdle, HasBacklog, notifyIdleWaiters
  <2>2. queues'[k].items = <<>> /\ DOMAIN queues' = DOMAIN queues /\ running'[k] = {}
    BY <1>2, <1>3, <2>1 DEF QueueEntry
  <2>3. \A x \in Keys \ {k} : running'[x] = running[x] /\ queues'[x] = queues[x]
    BY <1>3, <2>1 DEF QueueInv, QueueTypeOK
  <2>4. \A x \in Keys \ {k} : Backlog(x)' = Backlog(x)
    BY <2>2, <2>3 DEF Backlog
  <2>5. ASSUME NEW x \in Keys, NEW j \in Items \ {i}, Holds(x, j)
        PROVE  Holds(x, j)'
    <3>1. x # k
      BY <1>2, <2>1, <2>5 DEF Holds
    <3> QED
      BY <2>2, <2>3, <2>5, <3>1 DEF Holds
  <2>6. Backlog(k)' = <<>>
    BY <2>2 DEF Backlog
  <2> QED
    BY <1>1, <1>2, <1>3, <2>1, <2>2, <2>3, <2>4, <2>5, <2>6
<1>6. ~FinishEvicted(k, i)
  BY <1>2 DEF FinishEvicted
<1> QED
  BY <1>4, <1>5, <1>6 DEF Finish
(* A drain waits for every key that has an item of its goal. *)
LEMMA DrainInv ==
  ASSUME QueueInv, DInv, [QueueNext]_queueVars
  PROVE  DInv'
<1>1. /\ enqueued \subseteq Items /\ drainGoal \subseteq Items /\ drainWait \subseteq Keys
      /\ DOMAIN queues \subseteq Keys
  BY DEF QueueInv, QueueTypeOK
<1>2. ASSUME NEW k \in Keys, NEW i \in Items, Enqueue(k, i)
      PROVE  DInv'
  <2>1. enqueued' = enqueued \cup {i} /\ UNCHANGED <<drainState, drainWait, finished, drainGoal>>
    BY <1>2 DEF Enqueue
  <2>2. CASE evictedBusy'
    BY <2>1, <2>2 DEF DInv, NoneLost, DrainCovers, DrainDone
  <2>3. CASE ~evictedBusy'
    <3>1. /\ ~evictedBusy /\ Holds(k, i)'
          /\ \A x \in Keys, j \in Items : Holds(x, j) => Holds(x, j)'
      BY <1>2, <2>3, EnqueueHolds
    <3>2. NoneLost'
      BY <1>1, <2>1, <3>1 DEF DInv, NoneLost
    <3>3. DrainCovers'
      BY <1>1, <2>1, <3>1 DEF DInv, DrainCovers
    <3> QED
      BY <2>1, <3>2, <3>3 DEF DInv, DrainDone
  <2> QED
    BY <2>2, <2>3
<1>3. ASSUME NEW k \in Keys, NEW i \in Items, Finish(k, i)
      PROVE  DInv'
  <2>1. /\ UNCHANGED <<drainState, enqueued, drainGoal, evictedBusy>>
        /\ drainWait' \subseteq drainWait
    BY <1>3 DEF Finish, FinishAndRunNext, FinishAndIdle, FinishEvicted, notifyIdleWaiters
  <2>2. CASE evictedBusy
    BY <2>1, <2>2 DEF DInv, NoneLost, DrainCovers, DrainDone
  <2>3. CASE ~evictedBusy
    <3>1. /\ finished' = finished \cup {i} /\ running[k] = {i}
          /\ \A x \in Keys, j \in Items \ {i} : Holds(x, j) => Holds(x, j)'
          /\ drainWait' = drainWait \/ (Backlog(k) = <<>> /\ drainWait' = drainWait \ {k})
      BY <1>3, <2>3, FinishHolds
    <3>2. NoneLost'
      BY <1>1, <2>1, <3>1 DEF DInv, NoneLost
    <3>3. ASSUME NEW j \in drainGoal \ finished' PROVE \E x \in drainWait' : Holds(x, j)'
      <4>1. j # i /\ j \in Items /\ j \notin finished
        BY <1>1, <2>1, <3>1, <3>3
      <4>2. PICK x \in drainWait : Holds(x, j)
        BY <2>3, <3>3, <4>1 DEF DInv, DrainCovers
      <4>3. x = k => Backlog(k) # <<>>
        BY <3>1, <4>1, <4>2 DEF Holds, Backlog
      <4>4. x \in drainWait'
        BY <3>1, <4>2, <4>3
      <4> QED
        BY <1>1, <3>1, <4>1, <4>2, <4>4
    <3>4. DrainCovers'
      BY <2>1, <3>3 DEF DrainCovers
    <3> QED
      BY <2>1, <3>2, <3>4 DEF DInv, DrainDone
  <2> QED
    BY <2>2, <2>3
<1>4. CASE DrainAll
  <2>1. /\ UNCHANGED <<queues, order, running, enqueued, finished, evictedBusy>>
        /\ drainState' = "draining" /\ drainGoal' = enqueued \ finished
        /\ drainWait' = {k \in DOMAIN queues : ~isIdle(k)}
    BY <1>4 DEF DrainAll
  <2>2. NoneLost' /\ DrainDone'
    BY <2>1 DEF DInv, NoneLost, DrainDone, Holds
  <2>3. ASSUME ~evictedBusy, NEW j \in enqueued \ finished
        PROVE  \E x \in drainWait' : Holds(x, j)'
    <3>1. PICK x \in Keys : Holds(x, j)
      BY <2>3 DEF DInv, NoneLost
    <3>2. running[x] # {}
      BY <3>1, QuietKeys
    <3>3. x \in DOMAIN queues /\ queues[x].processing
      BY <2>3, <3>2 DEF QueueInv, RunsAreFlagged
    <3>4. x \in drainWait'
      BY <2>1, <3>3 DEF isIdle
    <3> QED
      BY <2>1, <3>1, <3>4 DEF Holds
  <2>4. DrainCovers'
    BY <2>1, <2>3 DEF DrainCovers
  <2> QED
    BY <2>2, <2>4 DEF DInv
<1>5. CASE DrainResolve \/ DrainTimeout \/ UNCHANGED queueVars
  <2>1. /\ UNCHANGED <<queues, running, enqueued, finished, evictedBusy, drainWait, drainGoal>>
        /\ drainState' = "drained" => drainWait = {}
    BY <1>5 DEF DrainResolve, DrainTimeout, queueVars, queueHistory, DInv, DrainDone
  <2> QED
    BY <2>1 DEF DInv, NoneLost, DrainCovers, DrainDone, Holds
<1> QED
  BY <1>2, <1>3, <1>4, <1>5 DEF QueueNext

(* No drain resolves before the items it was called for have finished, for *)
(* every number of keys and items, until a busy key is evicted             *)
(* (EventQueue.drainAll).                                                  *)
THEOREM DrainSound == QueueSpec => []DrainSoundUnlessBusyEvicted
<1>1. QueueInit => DInv
  BY DEF QueueInit, DInv, NoneLost, DrainCovers, DrainDone
<1>2. QueueInv /\ DInv /\ [QueueNext]_queueVars => DInv'
  BY DrainInv
<1>3. DInv => DrainSoundUnlessBusyEvicted
  BY DEF DInv, DrainCovers, DrainDone, DrainSoundUnlessBusyEvicted, DrainWaitsForAll
<1> QED
  BY <1>1, <1>2, <1>3, QueueInvariance, PTL DEF QueueSpec

-----------------------------------------------------------------------------
(* The refinement of KeyedFifo, without its fairness. *)

(* A key without changes has the same line. *)
LEMMA LineStays ==
  ASSUME NEW x, running'[x] = running[x], Backlog(x)' = Backlog(x)
  PROVE  Line(x)' = Line(x)
BY DEF Line

(* Sequences of items: the head in service before the backlog. *)
LEMMA OneAhead ==
  ASSUME NEW c \in Items, NEW b \in Seq(Items)
  PROVE  /\ <<c>> \o b \in Seq(Items) /\ <<c>> \o b # <<>>
         /\ Tail(<<c>> \o b) = b
         /\ \A i \in Items : <<c>> \o Append(b, i) = Append(<<c>> \o b, i)
         /\ b # <<>> => <<Head(b)>> \o Tail(b) = b
<1>1. <<c>> \in Seq(Items) /\ Len(<<c>>) = 1 /\ <<c>>[1] = c
  OBVIOUS
<1>2. /\ <<c>> \o b \in Seq(Items) /\ Len(<<c>> \o b) = 1 + Len(b) /\ Len(b) \in Nat
      /\ \A n \in 1..Len(b) : (<<c>> \o b)[n + 1] = b[n]
  BY <1>1, ConcatProperties, LenProperties
<1>3. <<c>> \o b # <<>>
  BY <1>2
<1>4. Tail(<<c>> \o b) = b
  <2>1. /\ Tail(<<c>> \o b) \in Seq(Items) /\ Len(Tail(<<c>> \o b)) = Len(b)
        /\ \A n \in 1..Len(b) : Tail(<<c>> \o b)[n] = (<<c>> \o b)[n + 1]
    BY <1>2, <1>3, HeadTailProperties
  <2> QED
    BY <1>2, <2>1, SeqEqual
<1>5. ASSUME NEW i \in Items PROVE <<c>> \o Append(b, i) = Append(<<c>> \o b, i)
  <2>1. <<i>> \in Seq(Items)
    OBVIOUS
  <2>2. Append(b, i) = b \o <<i>> /\ Append(<<c>> \o b, i) = (<<c>> \o b) \o <<i>>
    BY <1>2, AppendIsConcat
  <2> QED
    BY <1>1, <2>1, <2>2, ConcatAssociative
<1>6. ASSUME b # <<>> PROVE <<Head(b)>> \o Tail(b) = b
  <2>1. /\ Head(b) \in Items /\ Head(b) = b[1] /\ Tail(b) \in Seq(Items) /\ Len(Tail(b)) = Len(b) - 1
        /\ \A n \in 1..(Len(b) - 1) : Tail(b)[n] = b[n + 1]
        /\ Len(b) \in Nat /\ Len(b) >= 1
    BY <1>6, HeadTailProperties, LenProperties, EmptySeq
  <2>2. <<Head(b)>> \in Seq(Items) /\ Len(<<Head(b)>>) = 1 /\ <<Head(b)>>[1] = b[1]
    BY <2>1
  <2> DEFINE s == <<Head(b)>> \o Tail(b)
  <2>3. /\ s \in Seq(Items) /\ Len(s) = Len(b)
        /\ \A n \in 1..Len(b) : s[n] = IF n = 1 THEN b[1] ELSE Tail(b)[n - 1]
    BY <2>1, <2>2, ConcatProperties
  <2> HIDE DEF s
  <2>4. \A n \in 1..Len(b) : s[n] = b[n]
    BY <2>1, <2>3
  <2>5. s = b
    BY <2>3, <2>4, SeqEqual
  <2> QED
    BY <2>5 DEF s
<1> QED
  BY <1>2, <1>3, <1>4, <1>5, <1>6
Lines == [k \in Keys |-> Line(k)]

(* enqueue puts the item at the end of its key's line and leaves the other *)
(* lines alone, although it may evict an idle key.                         *)
LEMMA EnqueueSubmits ==
  ASSUME QueueInv, NEW k \in Keys, NEW i \in Items, Enqueue(k, i), ~evictedBusy'
  PROVE  /\ ~evictedBusy
         /\ Lines' = [Lines EXCEPT ![k] = Append(@, i)]
<1>1. /\ ~evictedBusy
      /\ \A x \in Keys \ {k} : running'[x] = running[x] /\ Backlog(x)' = Backlog(x)
      /\ \/ /\ running[k] = {} /\ Backlog(k) = <<>>
            /\ running'[k] = {i} /\ Backlog(k)' = <<>>
         \/ /\ running[k] # {} /\ running'[k] = running[k]
            /\ Backlog(k)' = Append(Backlog(k), i)
  BY EnqueueHolds
<1>2. \A x \in Keys \ {k} : Line(x)' = Line(x)
  BY <1>1, LineStays
<1>3. Line(k)' = Append(Line(k), i)
  <2>1. CASE running[k] = {}
    <3>1. Line(k) = <<>>
      BY <1>1, <2>1 DEF Line
    <3>2. Line(k)' = <<i>> \o <<>>
      BY <1>1, <2>1 DEF Line
    <3> QED
      BY <3>1, <3>2
  <2>2. CASE running[k] # {}
    <3>1. PICK c \in Items : running[k] = {c}
      BY <1>1, <2>2 DEF QueueInv, QueueTypeOK, RunsAreFlagged, Sequential
    <3>2. Backlog(k) \in Seq(Items)
      BY DEF QueueInv, QueueTypeOK, QueueEntry, Backlog
    <3>3. Line(k) = <<c>> \o Backlog(k)
      BY <3>1 DEF Line
    <3>4. Line(k)' = <<c>> \o Append(Backlog(k), i)
      <4>1. running'[k] = {c} /\ Backlog(k)' = Append(Backlog(k), i)
        BY <1>1, <2>2, <3>1
      <4>2. Line(k)' = <<CHOOSE j \in running'[k] : TRUE>> \o Backlog(k)'
        BY <4>1 DEF Line
      <4> QED
        BY <4>1, <4>2
    <3> QED
      BY <3>2, <3>3, <3>4, OneAhead
  <2> QED
    BY <2>1, <2>2
<1> QED
  BY <1>1, <1>2, <1>3 DEF Lines

(* The end of a run takes the head off its key's line. *)
LEMMA FinishCompletes ==
  ASSUME QueueInv, NEW k \in Keys, NEW i \in Items, Finish(k, i), ~evictedBusy
  PROVE  /\ evictedBusy' = evictedBusy
         /\ Lines[k] # <<>>
         /\ Lines' = [Lines EXCEPT ![k] = Tail(@)]
<1>1. /\ evictedBusy' = evictedBusy /\ running[k] = {i}
      /\ \A x \in Keys \ {k} : running'[x] = running[x] /\ Backlog(x)' = Backlog(x)
      /\ \/ /\ Backlog(k) # <<>> /\ Backlog(k) \in Seq(Items)
            /\ running'[k] = {Head(Backlog(k))} /\ Backlog(k)' = Tail(Backlog(k))
         \/ /\ Backlog(k) = <<>>
            /\ running'[k] = {} /\ Backlog(k)' = <<>>
  BY FinishHolds
<1>2. \A x \in Keys \ {k} : Line(x)' = Line(x)
  BY <1>1, LineStays
<1>3. Backlog(k) \in Seq(Items)
  BY DEF QueueInv, QueueTypeOK, QueueEntry, Backlog
<1>4. Line(k) = <<i>> \o Backlog(k)
  BY <1>1 DEF Line
<1>5. Line(k) # <<>> /\ Tail(Line(k)) = Backlog(k)
  BY <1>3, <1>4, OneAhead
<1>6. Line(k)' = Backlog(k)
  <2>1. CASE Backlog(k) = <<>>
    BY <1>1, <2>1 DEF Line
  <2>2. CASE Backlog(k) # <<>>
    <3>1. Line(k)' = <<Head(Backlog(k))>> \o Tail(Backlog(k))
      BY <1>1, <2>2 DEF Line
    <3> QED
      BY <1>3, <2>2, <3>1, OneAhead
  <2> QED
    BY <2>1, <2>2
<1> QED
  BY <1>1, <1>2, <1>5, <1>6 DEF Lines

(* Every step of the queue is a step of the keyed FIFO, or none. *)
LEMMA StepRefines ==
  ASSUME QueueInv, [QueueNext]_queueVars
  PROVE  [Fifo!Next]_(Fifo!vars)
<1>1. CASE evictedBusy'
  BY <1>1 DEF Fifo!Next, Fifo!Break
<1>2. ASSUME NEW k \in Keys, NEW i \in Items, Enqueue(k, i), ~evictedBusy'
      PROVE  Fifo!Submit(k, i)
  <2>1. evictedBusy' = evictedBusy
    BY <1>2, EnqueueSubmits DEF QueueInv, QueueTypeOK, Enqueue
  <2> QED
    BY <1>2, <2>1, EnqueueSubmits DEF Fifo!Submit, Lines
<1>3. ASSUME NEW k \in Keys, NEW i \in Items, Finish(k, i), ~evictedBusy'
      PROVE  Fifo!Complete(k)
  <2>1. ~evictedBusy
    BY <1>3 DEF Finish, FinishAndRunNext, FinishAndIdle, FinishEvicted
  <2> QED
    BY <1>3, <2>1, FinishCompletes DEF Fifo!Complete, Lines
<1>4. CASE DrainAll \/ DrainResolve \/ DrainTimeout \/ UNCHANGED queueVars
  <2>1. UNCHANGED <<queues, running, evictedBusy>>
    BY <1>4 DEF DrainAll, DrainResolve, DrainTimeout, queueVars, queueHistory
  <2>2. \A k \in Keys : Line(k)' = Line(k)
    BY <2>1 DEF Line, Backlog
  <2> QED
    BY <2>1, <2>2 DEF Fifo!vars
<1> QED
  BY <1>1, <1>2, <1>3, <1>4 DEF QueueNext, Fifo!Next

(* The queue is a keyed FIFO until a busy key is evicted, whatever the     *)
(* number of keys: each line in arrival order, one item of a line in the   *)
(* processor, none lost (queue.ts).  Fairness is left to the model checker. *)
THEOREM QueueIsKeyedFifo == QueueSpec => Fifo!Init /\ [][Fifo!Next]_(Fifo!vars)
<1>1. QueueInit => Fifo!Init
  <2> SUFFICES ASSUME QueueInit PROVE Fifo!Init
    OBVIOUS
  <2>1. \A k \in Keys : Line(k) = <<>>
    BY DEF QueueInit, Line, Backlog
  <2> QED
    BY <2>1 DEF Fifo!Init, QueueInit
<1>2. QueueInv /\ [QueueNext]_queueVars => [Fifo!Next]_(Fifo!vars)
  BY StepRefines
<1> QED
  BY <1>1, <1>2, QueueInvariance, PTL DEF QueueSpec

-----------------------------------------------------------------------------
(* The circuit breaker. *)

(* The independent clock and counter agree with the fields of the entry:   *)
(* this ties the history, which the properties speak of, to the code.      *)
HistoryAgrees ==
  \A b \in Bindings :
    /\ rest[b] = age[b]
    /\ state[b] = "closed" => failures[b] = streak[b]

BreakerInv == BreakerTypeOK /\ OffExactlyOnStreak /\ EntryConsistent /\ HistoryAgrees

-----------------------------------------------------------------------------

(* isOpen lets a caller in only where the breaker is closed or has aged. *)
LEMMA AdmitStep ==
  ASSUME BreakerInv, NEW c \in Callers, NEW b \in Bindings, Admit(c, b)
  PROVE  BreakerInv'
<1>1. getState(b) \in {"closed", "half-open"}
  BY DEF Admit, isOpen, getState, BreakerInv, BreakerTypeOK, BreakerState
<1>2. /\ state' = [state EXCEPT ![b] = getState(b)]
      /\ UNCHANGED <<failures, age, streak, rest>>
  BY DEF Admit
<1>3. BreakerTypeOK'
  BY <1>1, <1>2 DEF Admit, BreakerInv, BreakerTypeOK, BreakerState
<1>4. \A x \in Bindings : x # b => state'[x] = state[x]
  BY <1>2 DEF BreakerInv, BreakerTypeOK
<1>5. state'[b] = getState(b) /\ (state'[b] = "closed" <=> state[b] = "closed")
  BY <1>1, <1>2 DEF getState, BreakerInv, BreakerTypeOK
<1>6. state'[b] = "half-open" => age[b] = OPEN_DURATION
  BY <1>5 DEF getState, BreakerInv, EntryConsistent
<1>7. OffExactlyOnStreak'
  BY <1>2, <1>4, <1>5 DEF BreakerInv, OffExactlyOnStreak
<1>8. EntryConsistent'
  BY <1>2, <1>4, <1>5, <1>6 DEF BreakerInv, EntryConsistent
<1>9. HistoryAgrees'
  BY <1>2, <1>4, <1>5 DEF BreakerInv, HistoryAgrees
<1> QED
  BY <1>3, <1>7, <1>8, <1>9 DEF BreakerInv

(* recordSuccess resets the entry whatever its state. *)
LEMMA SucceedStep ==
  ASSUME BreakerInv, NEW c \in Callers, NEW b \in Bindings, Succeed(c, b)
  PROVE  BreakerInv'
<1> USE BreakerAssumption DEF BreakerInv, BreakerTypeOK, Succeed, FailuresAfterSuccess
<1>1. BreakerTypeOK'
  BY DEF BreakerState
<1>2. OffExactlyOnStreak'
  BY DEF OffExactlyOnStreak
<1>3. EntryConsistent'
  BY DEF EntryConsistent
<1>4. HistoryAgrees'
  BY DEF HistoryAgrees
<1> QED
  BY <1>1, <1>2, <1>3, <1>4

(* A failed probe reopens the breaker and restarts its clock. *)
LEMMA FailHalfOpenStep ==
  ASSUME BreakerInv, NEW c \in Callers, NEW b \in Bindings, FailHalfOpen(c, b)
  PROVE  BreakerInv'
<1> USE BreakerAssumption DEF BreakerInv, BreakerTypeOK, FailHalfOpen, AgeAfterReopen
<1>1. state[b] # "closed" /\ streak[b] = FAILURE_THRESHOLD
  BY DEF getState, OffExactlyOnStreak
<1>2. streak' = streak
  BY <1>1 DEF OneMoreFailure
<1>3. BreakerTypeOK'
  BY <1>2 DEF BreakerState
<1>4. OffExactlyOnStreak'
  BY <1>1, <1>2 DEF OffExactlyOnStreak
<1>5. EntryConsistent'
  BY DEF EntryConsistent
<1>6. HistoryAgrees'
  BY <1>2 DEF HistoryAgrees
<1> QED
  BY <1>3, <1>4, <1>5, <1>6

(* A late failure finds the breaker open and changes nothing. *)
LEMMA FailOpenStep ==
  ASSUME BreakerInv, NEW c \in Callers, NEW b \in Bindings, FailOpen(c, b)
  PROVE  BreakerInv'
<1> USE BreakerAssumption DEF BreakerInv, BreakerTypeOK, FailOpen
<1>1. streak[b] = FAILURE_THRESHOLD
  BY DEF getState, OffExactlyOnStreak
<1>2. streak' = streak
  BY <1>1 DEF OneMoreFailure
<1>3. BreakerTypeOK'
  BY <1>2
<1>4. OffExactlyOnStreak' /\ EntryConsistent' /\ HistoryAgrees'
  BY <1>2 DEF OffExactlyOnStreak, EntryConsistent, HistoryAgrees
<1> QED
  BY <1>3, <1>4

(* A failure of a closed breaker counts, and opens it at the threshold. *)
LEMMA FailClosedStep ==
  ASSUME BreakerInv, NEW c \in Callers, NEW b \in Bindings, FailClosed(c, b)
  PROVE  BreakerInv'
<1> DEFINE n == failures[b] + 1
<1>1. state[b] = "closed"
  BY DEF FailClosed, getState, BreakerInv, BreakerTypeOK
<1>2. /\ failures[b] \in Nat /\ failures[b] < FAILURE_THRESHOLD
      /\ streak[b] = failures[b] /\ age[b] = Null /\ rest[b] = Null
  BY <1>1, BreakerAssumption
  DEF BreakerInv, BreakerTypeOK, EntryConsistent, HistoryAgrees
<1>3. streak' = [streak EXCEPT ![b] = n]
  BY <1>2 DEF FailClosed, OneMoreFailure
<1>4. /\ failures' = [failures EXCEPT ![b] = n]
      /\ state' = [state EXCEPT ![b] = IF Trips(n) THEN "open" ELSE "closed"]
      /\ age' = [age EXCEPT ![b] = IF Trips(n) THEN 0 ELSE Null]
      /\ rest' = [rest EXCEPT ![b] = IF state'[b] = "open" THEN 0 ELSE Null]
      /\ working' = [working EXCEPT ![c] = Null]
      /\ admitted' = admitted
  BY <1>2 DEF FailClosed
<1>5. Trips(n) <=> n = FAILURE_THRESHOLD
  BY <1>2, BreakerAssumption DEF Trips
<1>6. n \in 0..FAILURE_THRESHOLD
  BY <1>2, BreakerAssumption
<1>7. /\ state'[b] = (IF n = FAILURE_THRESHOLD THEN "open" ELSE "closed")
      /\ age'[b] = (IF n = FAILURE_THRESHOLD THEN 0 ELSE Null)
      /\ rest'[b] = age'[b] /\ failures'[b] = n /\ streak'[b] = n
  BY <1>3, <1>4, <1>5 DEF BreakerInv, BreakerTypeOK
<1>8. \A x \in Bindings : x # b =>
        /\ state'[x] = state[x] /\ age'[x] = age[x] /\ rest'[x] = rest[x]
        /\ failures'[x] = failures[x] /\ streak'[x] = streak[x]
  BY <1>3, <1>4 DEF BreakerInv, BreakerTypeOK
<1>9. BreakerTypeOK'
  BY <1>3, <1>4, <1>6, BreakerAssumption DEF BreakerInv, BreakerTypeOK, BreakerState
<1>10. OffExactlyOnStreak'
  BY <1>7, <1>8 DEF BreakerInv, OffExactlyOnStreak
<1>11. EntryConsistent'
  BY <1>2, <1>7, <1>8, BreakerAssumption DEF BreakerInv, EntryConsistent
<1>12. HistoryAgrees'
  BY <1>7, <1>8 DEF BreakerInv, HistoryAgrees
<1> QED
  BY <1>9, <1>10, <1>11, <1>12 DEF BreakerInv

(* Time moves both clocks together. *)
LEMMA TickStep == ASSUME BreakerInv, Tick PROVE BreakerInv'
<1> USE BreakerAssumption
<1>1. \A a \in 0..OPEN_DURATION \cup {Null} :
        /\ Older(a) \in 0..OPEN_DURATION \cup {Null}
        /\ Older(a) = Null <=> a = Null
        /\ a = OPEN_DURATION => Older(a) = OPEN_DURATION
  BY DEF Older
<1>2. BreakerTypeOK'
  BY <1>1 DEF BreakerInv, BreakerTypeOK, Tick
<1>3. OffExactlyOnStreak'
  BY DEF BreakerInv, OffExactlyOnStreak, Tick
<1>4. EntryConsistent'
  BY <1>1 DEF BreakerInv, BreakerTypeOK, EntryConsistent, Tick
<1>5. HistoryAgrees'
  BY DEF BreakerInv, HistoryAgrees, Tick
<1> QED
  BY <1>2, <1>3, <1>4, <1>5 DEF BreakerInv

(* The inductive invariant holds in every reachable state. *)
THEOREM BreakerInvariance == BreakerSpec => []BreakerInv
<1>1. BreakerInit => BreakerInv
  BY BreakerAssumption
  DEF BreakerInit, BreakerInv, BreakerTypeOK, BreakerState, OffExactlyOnStreak, EntryConsistent,
      HistoryAgrees
<1>2. BreakerInv /\ [BreakerNext]_breakerVars => BreakerInv'
  <2>1. BreakerInv /\ UNCHANGED breakerVars => BreakerInv'
    BY DEF BreakerInv, BreakerTypeOK, OffExactlyOnStreak, EntryConsistent, HistoryAgrees, breakerVars
  <2> QED
    BY <2>1, AdmitStep, SucceedStep, FailHalfOpenStep, FailOpenStep,
       FailClosedStep, TickStep
    DEF BreakerNext, Fail
<1> QED
  BY <1>1, <1>2, PTL DEF BreakerSpec

(* The breaker's variables keep their types. *)
THEOREM BreakerTypeCorrect == BreakerSpec => []BreakerTypeOK
<1>1. BreakerInv => BreakerTypeOK
  BY DEF BreakerInv
<1> QED
  BY <1>1, BreakerInvariance, PTL

(* The breaker is off duty exactly after FAILURE_THRESHOLD failures in a   *)
(* row, however the callers interleave.                                    *)
THEOREM TripsExactly == BreakerSpec => []OffExactlyOnStreak
<1>1. BreakerInv => OffExactlyOnStreak
  BY DEF BreakerInv
<1> QED
  BY <1>1, BreakerInvariance, PTL

(* The fields of an entry always agree. *)
THEOREM Consistency == BreakerSpec => []EntryConsistent
<1>1. BreakerInv => EntryConsistent
  BY DEF BreakerInv
<1> QED
  BY <1>1, BreakerInvariance, PTL

(* No caller is admitted within the open duration after a trip. *)
THEOREM Rest == BreakerSpec => RestsAfterTrip
<1> DEFINE Rested ==
      \A c \in Callers, b \in Bindings :
        working[c] = Null /\ working'[c] = b =>
          rest[b] = Null \/ rest[b] = OPEN_DURATION
<1>1. BreakerInv /\ [BreakerNext]_breakerVars => [Rested]_breakerVars
  <2> SUFFICES ASSUME BreakerInv, BreakerNext, NEW c \in Callers, NEW b \in Bindings,
                      working[c] = Null, working'[c] = b
               PROVE  rest[b] = Null \/ rest[b] = OPEN_DURATION
    OBVIOUS
  <2>1. working'[c] # working[c]
    BY BreakerAssumption
  <2>2. Admit(c, b)
    BY <2>1, BreakerAssumption
    DEF BreakerNext, Admit, Succeed, Fail, FailHalfOpen, FailOpen, FailClosed, Tick,
        BreakerInv, BreakerTypeOK
  <2>3. getState(b) # "open"
    BY <2>2 DEF Admit, isOpen
  <2>4. age[b] = Null \/ age[b] = OPEN_DURATION
    BY <2>3 DEF getState, BreakerInv, BreakerTypeOK, BreakerState, EntryConsistent
  <2> QED
    BY <2>4 DEF BreakerInv, HistoryAgrees
<1> QED
  BY <1>1, BreakerInvariance, PTL DEF BreakerSpec, RestsAfterTrip

-----------------------------------------------------------------------------
(* The binding loader. *)

Busy(j) == load[j] # None

At(j, a) == Busy(j) /\ load[j].at = a

(* A client that a load is about to close is neither cached nor listened   *)
(* on, one that close() is closing is not listened on; between hook and    *)
(* deletion the expired entry is still there or another load has deleted   *)
(* it, and no subscriber; a subscriber outlives the entry only if close()  *)
(* cleared it away, which takes a load that connected late.                *)
ClientsKept ==
  /\ SubscriberListens
  /\ LeaksAreExcused
  /\ pod # "closed" /\ sub # None => cache # None
  /\ pod = "closed" /\ ~late => cache = None
  /\ pod \in {"closing", "closed"} /\ ~late => sub = None
  /\ closing # None <=> pod = "closing"
  /\ sub # None => sub.client # closing
  /\ \A j \in Jobs : At(j, "close") =>
       /\ cache # None => load[j].client # cache.client
       /\ sub # None => load[j].client # sub.client
  /\ \A j \in Jobs : At(j, "evict") =>
       /\ sub = None
       /\ cache # None => ~cache.fresh /\ cache.client = load[j].client

(* The instances whose objects are, or may come to be, under bare keys. *)
Bare(i) ==
  \/ \E r \in rows : r.url = Raw /\ r.of = i
  \/ \E j \in Jobs : /\ Busy(j) /\ load[j].at # "credential"
                     /\ ~load[j].multi
                     /\ load[j].binding.inst = i

(* A prefix shows that two URLs were met, and is that of the object's own  *)
(* instance; until the process ends all bare keys are of one instance,     *)
(* which is still registered.                                              *)
KeysExplained ==
  /\ IsFiniteSet(everUrls)
  /\ urls \subseteq everUrls
  /\ \A j \in Jobs : Busy(j) /\ load[j].multi => Cardinality(everUrls) >= 2
  /\ \A r \in rows : r.url # Raw => r.of = r.url /\ Cardinality(everUrls) >= 2
  /\ crashes = 0 => /\ \A i : Bare(i) => i \in urls
                    /\ \A i, k : Bare(i) /\ Bare(k) => i = k

LoaderInv == LoaderTypeOK /\ ClientsKept /\ KeysExplained

-----------------------------------------------------------------------------
(* Finite sets. *)

(* A set with fewer than two elements has no two different ones. *)
LEMMA FewerThanTwo ==
  ASSUME NEW S, IsFiniteSet(S), Cardinality(S) < 2, NEW x \in S, NEW y \in S
  PROVE  x = y
<1>1. Cardinality(S) \in Nat
  BY FS_CardinalityType
<1>2. Cardinality(S) # 0
  BY FS_EmptySet
<1>3. Cardinality(S) = 1
  BY <1>1, <1>2
<1> QED
  BY <1>3, FS_Singleton

(* Two finite sets, one within the other. *)
LEMMA SmallerSubset ==
  ASSUME NEW S, NEW T, IsFiniteSet(T), S \subseteq T
  PROVE  /\ IsFiniteSet(S)
         /\ Cardinality(S) \in Nat /\ Cardinality(T) \in Nat
         /\ Cardinality(S) <= Cardinality(T)
BY FS_Subset, FS_CardinalityType

-----------------------------------------------------------------------------
(* Types. *)

(* What a load and a cache entry carry. *)
LEMMA LoadType ==
  ASSUME LoaderTypeOK, NEW j \in Jobs, Busy(j)
  PROVE  /\ load[j] \in Load
         /\ load[j].binding \in Binding
         /\ load[j].binding.inst \in Instances
         /\ load[j].binding.proj \in Projects
BY DEF LoaderTypeOK, Busy, Load, Binding

(* registerBinding yields a registry. *)
LEMMA RegisteredType ==
  ASSUME LoaderTypeOK, NEW b \in Binding, NEW m \in BOOLEAN
  PROVE  Registered(b, m) \subseteq [key : Key, binding : Binding]
<1>1. \A c \in Binding, n \in BOOLEAN : ProjectKey(n, c) \in Key
  BY DEF ProjectKey, Key, Binding
<1>2. \A e \in registry : [e EXCEPT !.key = ProjectKey(TRUE, e.binding)]
                            \in [key : Key, binding : Binding]
  BY <1>1 DEF LoaderTypeOK
<1>3. [key |-> ProjectKey(m, b), binding |-> b] \in [key : Key, binding : Binding]
  BY <1>1
<1> QED
  BY <1>2, <1>3 DEF Registered, LoaderTypeOK

(* Every step keeps the types. *)
LEMMA TypeStep ==
  ASSUME LoaderTypeOK, [LoaderNext]_loaderVars
  PROVE  LoaderTypeOK'
<1> USE LoaderAssumption, NoneAssumption
<1>1. ASSUME NEW p \in Projects, NEW i \in Instances, Bind(p, i) PROVE LoaderTypeOK'
  BY <1>1 DEF Bind, LoaderTypeOK, Binding, memory, history, leaks
<1>2. ASSUME NEW p \in Projects, Unbind(p) PROVE LoaderTypeOK'
  BY <1>2 DEF Unbind, LoaderTypeOK, memory, history, leaks, bounds
<1>3. ASSUME OnTx PROVE LoaderTypeOK'
  BY <1>3 DEF OnTx, HasRoom, LoaderTypeOK, bounds, history, leaks
<1>4. ASSUME EngineStarted PROVE LoaderTypeOK'
  <2>1. sub # None => [sub EXCEPT !.started = TRUE] \in Subscriber
    BY DEF LoaderTypeOK, Subscriber
  <2> QED
    BY <1>4, <2>1 DEF EngineStarted, LoaderTypeOK, bounds, history, leaks
<1>5. ASSUME NEW j \in Jobs, NEW p \in Projects, Begin(j, p) PROVE LoaderTypeOK'
  BY <1>5 DEF Begin, LoaderTypeOK, bounds, history, leaks, Load
<1>6. ASSUME NEW j \in Jobs, Resolve(j) PROVE LoaderTypeOK'
  <2>1. Busy(j)
    BY <1>6 DEF Resolve, Busy
  <2> DEFINE b == load[j].binding
  <2>2. load[j] \in Load /\ b \in Binding /\ b.inst \in Instances
    BY <2>1, LoadType
  <2>3. IsMultiInstance(RegisterBaseUrl(b.inst)) \in BOOLEAN
    BY DEF IsMultiInstance
  <2>4. registry' \subseteq [key : Key, binding : Binding]
    BY <1>6, <2>2, <2>3, RegisteredType DEF Resolve
  <2>5. load' \in [Jobs -> Load \cup {None}]
    BY <1>6, <2>2, <2>3 DEF Resolve, LoaderTypeOK, Load, Entry, Reusable
  <2>6. sub' \in Subscriber \cup {None} /\ held' \in 0..BUFFER_MAX
    BY <1>6 DEF Resolve, LoaderTypeOK, Evicted, StopSubscriber
  <2> QED
    BY <1>6, <2>2, <2>4, <2>5, <2>6 DEF Resolve, LoaderTypeOK, RegisterBaseUrl, bounds, leaks
<1>7. ASSUME NEW j \in Jobs, Throw(j) PROVE LoaderTypeOK'
  BY <1>7 DEF Throw, LoaderTypeOK, bounds, history, leaks
<1>8. ASSUME NEW j \in Jobs, CloseOld(j) \/ CloseOldFails(j) PROVE LoaderTypeOK'
  <2>1. [[load[j] EXCEPT !.at = "create"] EXCEPT !.client = None] \in Load
    BY <1>8, LoadType DEF CloseOld, CloseOldFails, Busy, Load
  <2>2. load' \in [Jobs -> Load \cup {None}]
    BY <1>8, <2>1 DEF CloseOld, CloseOldFails, LoaderTypeOK
  <2>3. abandoned' \subseteq Clients
    BY <1>8 DEF CloseOld, CloseOldFails, LoaderTypeOK
  <2> QED
    BY <1>8, <2>2, <2>3 DEF CloseOld, CloseOldFails, ClosedWith, LoaderTypeOK, bounds, history, leaks
<1>9. ASSUME NEW j \in Jobs, Create(j) PROVE LoaderTypeOK'
  <2>1. PICK c \in Free :
          /\ open' = open \cup {c}
          /\ cache' = [client |-> c, fresh |-> TRUE]
          /\ sub' = StartSubscriber(c)
          /\ load' = [load EXCEPT ![j].at = "ready", ![j].client = c]
    BY <1>9 DEF Create
  <2>2. c \in Clients
    BY <2>1 DEF Free
  <2>3. sub' \in Subscriber \cup {None}
    BY <2>1, <2>2 DEF StartSubscriber, EngineRuns, Subscriber, LoaderTypeOK
  <2>4. load' \in [Jobs -> Load \cup {None}]
    <3>1. [[load[j] EXCEPT !.at = "ready"] EXCEPT !.client = c] \in Load
      BY <1>9, <2>2, LoadType DEF Create, Busy, Load
    <3> QED
      BY <2>1, <3>1 DEF LoaderTypeOK
  <2>5. abandoned' \subseteq Clients /\ late' \in BOOLEAN
    BY <1>9 DEF Create, LoaderTypeOK, Entry
  <2> QED
    BY <1>9, <2>1, <2>2, <2>3, <2>4, <2>5 DEF Create, LoaderTypeOK, Entry, bounds
<1>10. ASSUME NEW j \in Jobs, Use(j) PROVE LoaderTypeOK'
  <2>1. load[j].binding.inst \in Instances
    BY <1>10, LoadType DEF Use, Busy
  <2>2. ProjectKey(load[j].multi, load[j].binding).url \in Instances \cup {Raw}
    BY <2>1 DEF ProjectKey
  <2> QED
    BY <1>10, <2>1, <2>2 DEF Use, LoaderTypeOK, bounds, history, leaks
<1>11. ASSUME NEW j \in Jobs, UseFails(j) PROVE LoaderTypeOK'
  BY <1>11 DEF UseFails, LoaderTypeOK, bounds, history, leaks
<1>12. ASSUME Expire PROVE LoaderTypeOK'
  BY <1>12 DEF Expire, LoaderTypeOK, Entry, bounds, history, leaks
<1>13. ASSUME Shutdown PROVE LoaderTypeOK'
  BY <1>13 DEF Shutdown, StopSubscriber, LoaderTypeOK, bounds, history, leaks
<1>14. ASSUME CloseBegins \/ CloseAgain \/ CloseEnds \/ CloseNothing PROVE LoaderTypeOK'
  <2>1. cache # None => cache.client \in Clients
    BY DEF LoaderTypeOK, Entry
  <2>2. CASE CloseBegins
    BY <2>1, <2>2 DEF CloseBegins, CloseHook, StopSubscriber, LoaderTypeOK, bounds,
                      history, leaks
  <2>3. CASE CloseAgain
    BY <2>1, <2>3 DEF CloseAgain, CloseReturns, CloseHook, StopSubscriber, LoaderTypeOK,
                      bounds
  <2>4. CASE CloseEnds
    BY <2>1, <2>4 DEF CloseEnds, CloseReturns, LoaderTypeOK, bounds
  <2>5. CASE CloseNothing
    BY <2>5 DEF CloseNothing, LoaderTypeOK, bounds, history, leaks
  <2> QED
    BY <1>14, <2>2, <2>3, <2>4, <2>5
<1>15. ASSUME Crash PROVE LoaderTypeOK'
  <2>1. crashes' \in 0..MaxCrashes /\ held' \in 0..BUFFER_MAX
    BY <1>15 DEF Crash, Forgotten, LoaderTypeOK
  <2>2. late' \in BOOLEAN /\ closing' = None /\ abandoned' = {}
    BY <1>15 DEF Crash, Forgotten
  <2> QED
    BY <1>15, <2>1, <2>2 DEF Crash, Forgotten, LoaderTypeOK
<1>17. ASSUME NEW j \in Jobs, Delete(j) PROVE LoaderTypeOK'
  <2>1. [load[j] EXCEPT !.at = "close"] \in Load
    BY <1>17, LoadType DEF Delete, Busy, Load
  <2> QED
    BY <1>17, <2>1 DEF Delete, LoaderTypeOK, bounds, history, leaks
<1>16. ASSUME UNCHANGED loaderVars PROVE LoaderTypeOK'
  BY <1>16 DEF loaderVars, memory, bounds, history, leaks, LoaderTypeOK
<1> QED
  BY <1>1, <1>2, <1>3, <1>4, <1>5, <1>6, <1>7, <1>8, <1>9, <1>10, <1>11, <1>12,
     <1>13, <1>14, <1>15, <1>16, <1>17 DEF LoaderNext, LoadStep, Lookup

-----------------------------------------------------------------------------
(* Clients. *)

(* What Closing says of a client. *)
LEMMA ClosingMember ==
  /\ \A c : c \in Closing <=>
       \/ c = closing
       \/ \E j \in Jobs : (At(j, "evict") \/ At(j, "close")) /\ load[j].client = c
  /\ \A c : c \in Closing' <=>
       \/ c = closing'
       \/ \E j \in Jobs : (At(j, "evict") \/ At(j, "close"))' /\ load'[j].client = c
BY DEF Closing, Busy, At

(* Steps of the bindings, the subscriber and the clock that touch no load. *)
LEMMA ClientsQuietStep ==
  ASSUME LoaderTypeOK, ClientsKept, UNCHANGED <<load, open, abandoned, late>>,
         UNCHANGED <<cache, sub, held, pod, closing>>
  PROVE  ClientsKept'
BY DEF ClientsKept, SubscriberListens, LeaksAreExcused, Closing, Evicting, Busy, At

(* A load that is not closing anything comes or goes. *)
LEMMA ClientsLoadStep ==
  ASSUME LoaderTypeOK, ClientsKept, NEW j \in Jobs,
         UNCHANGED <<open, abandoned, late, cache, sub, held, pod, closing>>,
         \A k \in Jobs \ {j} : load'[k] = load[k],
         ~At(j, "close"), ~At(j, "evict"), ~At(j, "close")', ~At(j, "evict")'
  PROVE  ClientsKept'
<1>1. \A k \in Jobs : /\ At(k, "close")' <=> At(k, "close")
                      /\ At(k, "evict")' <=> At(k, "evict")
                      /\ At(k, "close") \/ At(k, "evict") => load'[k] = load[k]
  BY DEF At, Busy
<1>2. (Closing' \subseteq Closing) /\ (Closing \subseteq Closing')
  BY <1>1, ClosingMember
<1>3. Evicting' <=> Evicting
  BY <1>1 DEF Evicting, At, Busy
<1>4. LeaksAreExcused'
  BY <1>2 DEF ClientsKept, LeaksAreExcused
<1>5. SubscriberListens'
  BY <1>3 DEF ClientsKept, SubscriberListens
<1> QED
  BY <1>1, <1>4, <1>5 DEF ClientsKept

(* Resolve, when the entry has expired: the hook. *)
LEMMA ClientsEvict ==
  ASSUME LoaderTypeOK, ClientsKept, NEW j \in Jobs, At(j, "credential"),
         cache # None, ~cache.fresh,
         UNCHANGED <<open, abandoned, late, pod, closing, cache>>,
         sub' = None, held' = 0,
         \A k \in Jobs \ {j} : load'[k] = load[k],
         At(j, "evict")', load'[j].client = cache.client
  PROVE  ClientsKept'
<1>1. \A k \in Jobs : At(k, "close")' => At(k, "close") /\ load'[k] = load[k]
  BY DEF At, Busy
<1>2. \A k \in Jobs : At(k, "evict")' => k = j \/ (At(k, "evict") /\ load'[k] = load[k])
  BY DEF At, Busy
<1>3. \A k \in Jobs : At(k, "evict") \/ At(k, "close") =>
        /\ (At(k, "evict") \/ At(k, "close"))'
        /\ load'[k] = load[k]
  BY DEF At, Busy
<1>4. Closing \subseteq Closing'
  BY <1>3, ClosingMember
<1>5. Evicting'
  BY DEF Evicting, At, Busy
<1>6. SubscriberListens'
  BY <1>5 DEF ClientsKept, SubscriberListens
<1>7. LeaksAreExcused'
  BY <1>4 DEF ClientsKept, LeaksAreExcused
<1> QED
  BY <1>1, <1>2, <1>6, <1>7 DEF ClientsKept

(* The deletion of the expired entry. *)
LEMMA ClientsDelete ==
  ASSUME LoaderTypeOK, ClientsKept, NEW j \in Jobs, Delete(j)
  PROVE  ClientsKept'
<1>1. At(j, "evict") /\ load[j] \in Load
  BY LoadType DEF Delete, At, Busy
<1>2. /\ \A k \in Jobs \ {j} : load'[k] = load[k]
      /\ load'[j] = [load[j] EXCEPT !.at = "close"]
      /\ UNCHANGED <<open, abandoned, late, sub, held, pod, closing>>
      /\ cache' = None
  BY DEF Delete, LoaderTypeOK, history, leaks
<1>3. [load[j] EXCEPT !.at = "close"] \in Load
  BY <1>1 DEF Load
<1>4. load'[j].at = "close" /\ load'[j].client = load[j].client /\ load'[j] # None
  BY <1>1, <1>2, <1>3, NoneAssumption DEF Load
<1>5. At(j, "close")'
  BY <1>4 DEF At, Busy
<1>6. sub = None /\ (cache # None => cache.client = load[j].client)
  BY <1>1 DEF ClientsKept
<1>7. Closing \subseteq Closing' /\ load[j].client \in Closing'
  <2>1. \A k \in Jobs : At(k, "evict") \/ At(k, "close") =>
          /\ (At(k, "evict") \/ At(k, "close"))'
          /\ load'[k].client = load[k].client
    BY <1>2, <1>4, <1>5 DEF At, Busy
  <2> QED
    BY <1>1, <1>2, <2>1, ClosingMember
<1>8. LeaksAreExcused'
  BY <1>2, <1>6, <1>7 DEF ClientsKept, LeaksAreExcused
<1>9. SubscriberListens'
  BY <1>2, <1>6 DEF ClientsKept, SubscriberListens
<1> QED
  BY <1>2, <1>6, <1>8, <1>9 DEF ClientsKept

(* A connected client is cached; the subscriber stays or starts on it. *)
LEMMA ClientsCreate ==
  ASSUME LoaderTypeOK, ClientsKept, NEW j \in Jobs, Create(j), ~Evicting
  PROVE  ClientsKept'
<1> USE NoneAssumption
<1>1. Busy(j) /\ load[j].at = "create"
  BY DEF Create, Busy
<1>2. pod' = pod /\ held' = held /\ closing' = closing
      /\ late' = (late \/ pod \in {"closing", "closed"})
  BY DEF Create
<1>3. PICK c \in Free :
          /\ open' = open \cup {c}
          /\ cache' = [client |-> c, fresh |-> TRUE]
          /\ sub' = StartSubscriber(c)
          /\ load' = [load EXCEPT ![j].at = "ready", ![j].client = c]
  BY DEF Create
<1>4. c \in Clients /\ c \notin open /\ c # closing
      /\ \A k \in Jobs : Busy(k) => load[k].client # c
  BY <1>3 DEF Free, InUse, Busy
<1>5. cache' \in Entry /\ cache'.client = c /\ cache' # None
  <2>1. cache' \in Entry /\ cache'.client = c
    BY <1>3, <1>4 DEF Entry
  <2> QED
    BY <2>1
<1>6. /\ \A k \in Jobs \ {j} : load'[k] = load[k]
      /\ load'[j] = [[load[j] EXCEPT !.at = "ready"] EXCEPT !.client = c]
  BY <1>3 DEF LoaderTypeOK
<1>7. load'[j].at = "ready"
  BY <1>1, <1>6, LoadType DEF Load
<1>8. \A k \in Jobs : /\ At(k, "close")' <=> At(k, "close")
                      /\ At(k, "evict")' <=> At(k, "evict")
                      /\ At(k, "close") \/ At(k, "evict") => load'[k] = load[k]
  BY <1>1, <1>6, <1>7 DEF At, Busy
<1>11. (Closing' \subseteq Closing) /\ (Closing \subseteq Closing')
  BY <1>2, <1>8, ClosingMember
<1>12. \A k \in Jobs : ~At(k, "evict")
  BY DEF Evicting, At, Busy
<1>13. LeaksAreExcused'
  <2>1. open' \subseteq Closing' \cup abandoned' \cup {cache'.client}
    BY <1>3, <1>5, <1>11 DEF ClientsKept, LeaksAreExcused, Create
  <2>2. ~(pod' = "closed" /\ ~late')
    BY <1>2
  <2> QED
    BY <1>5, <2>1, <2>2 DEF LeaksAreExcused
<1>9. CASE sub = None
  <2>1. sub' \in Subscriber /\ sub'.client = c /\ sub' # None
    <3>1. sub' = [client |-> c, started |-> EngineRuns]
      BY <1>3, <1>9 DEF StartSubscriber
    <3>2. sub' \in Subscriber /\ sub'.client = c
      BY <1>4, <3>1 DEF Subscriber, EngineRuns
    <3> QED
      BY <3>2
  <2>2. pod # "starting" => sub'.started
    BY <1>3, <1>9 DEF StartSubscriber, EngineRuns
  <2>3. SubscriberListens'
    BY <1>2, <1>3, <1>5, <2>1, <2>2 DEF ClientsKept, SubscriberListens
  <2> QED
    BY <1>2, <1>4, <1>5, <1>8, <1>12, <1>13, <2>1, <2>3 DEF ClientsKept, At
<1>10. CASE sub # None
  <2>1. sub' = sub
    BY <1>3, <1>10 DEF StartSubscriber
  <2>3. SubscriberListens'
    BY <1>2, <1>3, <1>5, <1>10, <2>1 DEF ClientsKept, SubscriberListens
  <2> QED
    BY <1>2, <1>4, <1>5, <1>8, <1>12, <1>13, <2>1, <2>3 DEF ClientsKept, At
<1> QED
  BY <1>9, <1>10

(* Closing an expired client leaves the cached one and the subscriber's    *)
(* connected; if it fails the client is left.                              *)
LEMMA ClientsClose ==
  ASSUME LoaderTypeOK, ClientsKept, NEW j \in Jobs, CloseOld(j) \/ CloseOldFails(j)
  PROVE  ClientsKept'
<1>1. At(j, "close") /\ load[j] \in Load
  BY LoadType DEF CloseOld, CloseOldFails, Busy, At
<1>2. /\ \A k \in Jobs \ {j} : load'[k] = load[k]
      /\ load'[j] = [[load[j] EXCEPT !.at = "create"] EXCEPT !.client = None]
  BY DEF CloseOld, CloseOldFails, LoaderTypeOK
<1>3. load'[j].at = "create"
  BY <1>1, <1>2 DEF Load
<1>4. \A k \in Jobs \ {j} : /\ At(k, "close")' <=> At(k, "close")
                            /\ At(k, "evict")' <=> At(k, "evict")
                            /\ load'[k] = load[k]
  BY <1>2 DEF At, Busy
<1>5. ~At(j, "close")' /\ ~At(j, "evict")' /\ ~At(j, "evict")
  BY <1>1, <1>3 DEF At
<1>6. /\ UNCHANGED <<late, cache, sub, held, pod, closing>>
      /\ \/ open' = open \ {load[j].client} /\ abandoned' = abandoned \ {load[j].client}
         \/ open' = open /\ abandoned' = abandoned \cup {load[j].client}
  BY DEF CloseOld, CloseOldFails, ClosedWith
<1>7. Closing \subseteq Closing' \cup {load[j].client}
  BY <1>4, <1>5, <1>6, ClosingMember
<1>8. Evicting' <=> Evicting
  BY <1>4, <1>5 DEF Evicting, At, Busy
<1>9. SubscriberListens'
  BY <1>1, <1>6, <1>8 DEF ClientsKept, SubscriberListens
<1>10. LeaksAreExcused'
  BY <1>6, <1>7 DEF ClientsKept, LeaksAreExcused
<1> QED
  BY <1>4, <1>5, <1>6, <1>9, <1>10 DEF ClientsKept

(* The steps of close(): the hook, the next entry, the clearing. *)
LEMMA ClientsShut ==
  ASSUME LoaderTypeOK, ClientsKept, ~Evicting,
         CloseBegins \/ CloseAgain \/ CloseEnds \/ CloseNothing
  PROVE  ClientsKept'
<1> USE NoneAssumption
<1>1. load' = load /\ late' = late
  BY DEF CloseBegins, CloseAgain, CloseEnds, CloseNothing, history, leaks
<1>2. ~Evicting'
  BY <1>1 DEF Evicting
<1>3. \A k \in Jobs : /\ At(k, "close")' <=> At(k, "close")
                      /\ ~At(k, "evict")' /\ ~At(k, "evict")
  BY <1>1 DEF Evicting, At, Busy
<1>4. cache # None => cache.client \in Clients /\ cache.client # None
  BY DEF LoaderTypeOK, Entry
<1>5. CASE CloseBegins
  <2>1. /\ pod = "draining" /\ cache # None /\ pod' = "closing" /\ sub' = None
        /\ closing' = cache.client /\ held' = 0 /\ UNCHANGED <<cache, open, abandoned>>
    BY <1>5 DEF CloseBegins, CloseHook, StopSubscriber, history, leaks
  <2>2. closing = None
    BY <2>1 DEF ClientsKept
  <2>3. Closing \subseteq Closing' \cup {None}
    BY <1>1, <1>3, <2>2, ClosingMember
  <2>4. open \subseteq Clients
    BY DEF LoaderTypeOK
  <2>5. LeaksAreExcused'
    BY <1>1, <2>1, <2>3, <2>4 DEF ClientsKept, LeaksAreExcused
  <2>6. SubscriberListens'
    BY <1>1, <2>1 DEF ClientsKept, SubscriberListens
  <2> QED
    BY <1>1, <1>3, <1>4, <2>1, <2>5, <2>6 DEF ClientsKept
<1>6. CASE CloseAgain
  <2>1. /\ pod = "closing" /\ cache # None /\ cache.client # closing /\ pod' = pod
        /\ sub' = None /\ closing' = cache.client /\ UNCHANGED <<cache, held>>
        /\ abandoned' = (abandoned \cup {closing}) \cap open'
        /\ (open' = open \/ open' = open \ {closing})
    BY <1>6 DEF CloseAgain, CloseReturns, CloseHook, StopSubscriber
  <2>2. Closing \subseteq Closing' \cup {closing}
    BY <1>1, <1>3, <2>1, ClosingMember
  <2>3. LeaksAreExcused'
    BY <1>1, <2>1, <2>2 DEF ClientsKept, LeaksAreExcused
  <2>4. SubscriberListens'
    BY <1>1, <2>1 DEF ClientsKept, SubscriberListens
  <2> QED
    BY <1>1, <1>3, <1>4, <2>1, <2>3, <2>4 DEF ClientsKept
<1>7. CASE CloseEnds
  <2>1. /\ pod = "closing" /\ pod' = "closed" /\ closing' = None /\ cache' = None
        /\ UNCHANGED <<sub, held>>
        /\ abandoned' = (abandoned \cup {closing} \cup (IF cache = None THEN {} ELSE {cache.client}))
                     \cap open'
        /\ (open' = open \/ open' = open \ {closing})
    BY <1>7 DEF CloseEnds, CloseReturns
  <2>2. Closing \subseteq Closing' \cup {closing}
    BY <1>1, <1>3, <2>1, ClosingMember
  <2>3. sub # None => late /\ sub.client # closing /\ sub \in Subscriber
    BY <2>1 DEF ClientsKept, LoaderTypeOK
  <2>4. open' \subseteq Closing' \cup abandoned'
    BY <2>1, <2>2 DEF ClientsKept, LeaksAreExcused
  <2>5. LeaksAreExcused'
    BY <1>1, <2>1, <2>3, <2>4 DEF LeaksAreExcused
  <2>6. SubscriberListens'
    BY <1>1, <2>1, <2>3 DEF ClientsKept, SubscriberListens
  <2>7. sub # None => sub.client # None
    BY <2>3 DEF Subscriber
  <2> QED
    BY <1>1, <1>3, <2>1, <2>3, <2>5, <2>6, <2>7 DEF ClientsKept
<1>8. CASE CloseNothing
  <2>1. /\ pod = "draining" /\ cache = None /\ pod' = "closed"
        /\ UNCHANGED <<cache, open, sub, held, closing, abandoned>>
    BY <1>8 DEF CloseNothing, history, leaks
  <2>2. sub = None /\ closing = None
    BY <2>1 DEF ClientsKept
  <2>3. Closing = Closing'
    BY <1>1, <1>3, <2>1, ClosingMember
  <2>4. LeaksAreExcused'
    BY <1>1, <2>1, <2>2, <2>3 DEF ClientsKept, LeaksAreExcused
  <2>5. SubscriberListens'
    BY <1>1, <2>1, <2>2 DEF ClientsKept, SubscriberListens
  <2> QED
    BY <1>1, <1>3, <2>1, <2>2, <2>4, <2>5 DEF ClientsKept
<1> QED
  BY <1>5, <1>6, <1>7, <1>8

(* Every step keeps the clients in order. *)
LEMMA ClientsStep ==
  ASSUME LoaderTypeOK, ClientsKept, [LoaderNext]_loaderVars
  PROVE  ClientsKept'
<1> USE NoneAssumption
<1>1. ASSUME NEW p \in Projects, NEW i \in Instances, Bind(p, i) PROVE ClientsKept'
  BY <1>1, ClientsQuietStep DEF Bind, memory, history, leaks
<1>2. ASSUME NEW p \in Projects, Unbind(p) PROVE ClientsKept'
  BY <1>2, ClientsQuietStep DEF Unbind, memory, history, leaks
<1>3. ASSUME OnTx PROVE ClientsKept'
  <2>1. pod = "starting"
    BY <1>3 DEF OnTx, ClientsKept, SubscriberListens
  <2> QED
    BY <1>3, <2>1 DEF OnTx, history, leaks, ClientsKept, SubscriberListens,
                      LeaksAreExcused, Closing, Evicting, Busy, At
<1>4. ASSUME EngineStarted PROVE ClientsKept'
  <2>1. sub # None => /\ [sub EXCEPT !.started = TRUE] \in Subscriber
                      /\ [sub EXCEPT !.started = TRUE].client = sub.client
                      /\ [sub EXCEPT !.started = TRUE].started
    BY DEF LoaderTypeOK, Subscriber
  <2>2. (sub' # None <=> sub # None) /\ (sub' # None => sub'.client = sub.client /\ sub'.started)
    BY <1>4, <2>1 DEF EngineStarted
  <2> QED
    BY <1>4, <2>2 DEF EngineStarted, history, leaks, ClientsKept, SubscriberListens,
                      LeaksAreExcused, Closing, Evicting, Busy, At
<1>5. ASSUME NEW j \in Jobs, NEW p \in Projects, Begin(j, p) PROVE ClientsKept'
  <2>1. /\ \A k \in Jobs \ {j} : load'[k] = load[k]
        /\ load'[j].at = "credential"
    BY <1>5 DEF Begin, LoaderTypeOK
  <2> QED
    BY <1>5, <2>1, ClientsLoadStep DEF Begin, history, leaks, Busy, At
<1>6. ASSUME NEW j \in Jobs, Resolve(j) PROVE ClientsKept'
  <2>1. At(j, "credential") /\ load[j] \in Load
    BY <1>6, LoadType DEF Resolve, Busy, At
  <2>2. UNCHANGED <<open, abandoned, late, pod, closing, cache>>
    BY <1>6 DEF Resolve, leaks
  <2> DEFINE multi == IsMultiInstance(RegisterBaseUrl(load[j].binding.inst))
             Moved(a, c) == [[[load[j] EXCEPT !.at = a] EXCEPT !.multi = multi]
                                EXCEPT !.client = c]
             Sent(a) == [[load[j] EXCEPT !.at = a] EXCEPT !.multi = multi]
  <2>3. \A a, c : Moved(a, c).at = a /\ Moved(a, c).client = c
    BY <2>1 DEF Load
  <2>4. \A a : Sent(a).at = a
    BY <2>1 DEF Load
  <2> HIDE DEF multi
  <2>5. CASE load' = [load EXCEPT ![j] = Moved("ready", cache.client)]
             /\ UNCHANGED <<sub, held>>
    <3>1. /\ \A k \in Jobs \ {j} : load'[k] = load[k]
          /\ load'[j].at = "ready"
      BY <2>3, <2>5 DEF LoaderTypeOK
    <3> QED
      BY <2>1, <2>2, <2>5, <3>1, ClientsLoadStep DEF At
  <2>6. CASE load' = [load EXCEPT ![j] = Sent("create")]
             /\ UNCHANGED <<sub, held>>
    <3>1. /\ \A k \in Jobs \ {j} : load'[k] = load[k]
          /\ load'[j].at = "create"
      BY <2>4, <2>6 DEF LoaderTypeOK
    <3> QED
      BY <2>1, <2>2, <2>6, <3>1, ClientsLoadStep DEF At
  <2>7. CASE /\ cache # None /\ ~cache.fresh
             /\ load' = [load EXCEPT ![j] = Moved("evict", cache.client)]
             /\ sub' = Evicted /\ held' = 0
    <3>1. /\ \A k \in Jobs \ {j} : load'[k] = load[k]
          /\ load'[j] = Moved("evict", cache.client)
      BY <2>7 DEF LoaderTypeOK
    <3>2. load'[j].at = "evict" /\ load'[j].client = cache.client
      BY <3>1, <2>3
    <3>3. Moved("evict", cache.client) \in Load
      <4>1. multi \in BOOLEAN
        BY DEF multi, IsMultiInstance
      <4>2. cache.client \in Clients
        BY <2>7 DEF LoaderTypeOK, Entry
      <4> QED
        BY <2>1, <4>1, <4>2 DEF Load
    <3>4. sub' = None /\ At(j, "evict")'
      BY <2>7, <3>1, <3>2, <3>3 DEF Evicted, StopSubscriber, Busy, At
    <3> QED
      BY <2>1, <2>2, <2>7, <3>1, <3>2, <3>4, ClientsEvict
  <2> QED
    BY <1>6, <2>5, <2>6, <2>7 DEF Resolve, Reusable, multi
<1>7. ASSUME NEW j \in Jobs, Throw(j) \/ Use(j) \/ UseFails(j) PROVE ClientsKept'
  <2>1. /\ \A k \in Jobs \ {j} : load'[k] = load[k]
        /\ load'[j] = None
        /\ UNCHANGED <<open, abandoned, late, cache, sub, held, pod, closing>>
        /\ load[j].at \notin {"close", "evict"}
    BY <1>7 DEF Throw, Use, UseFails, LoaderTypeOK, history, leaks
  <2> QED
    BY <2>1, ClientsLoadStep DEF Busy, At
<1>8. ASSUME NEW j \in Jobs, CloseOld(j) \/ CloseOldFails(j) PROVE ClientsKept'
  BY <1>8, ClientsClose
<1>9. ASSUME NEW j \in Jobs, Create(j), ~Evicting PROVE ClientsKept'
  BY <1>9, ClientsCreate
<1>10. ASSUME Expire, ~Evicting PROVE ClientsKept'
  <2>1. cache' # None /\ cache'.client = cache.client
    BY <1>10 DEF Expire, LoaderTypeOK, Entry
  <2> QED
    BY <1>10, <2>1 DEF Expire, history, leaks, ClientsKept, SubscriberListens,
                       LeaksAreExcused, Closing, Evicting, Busy, At
<1>11. ASSUME Shutdown PROVE ClientsKept'
  BY <1>11 DEF Shutdown, StopSubscriber, history, leaks, ClientsKept, SubscriberListens,
               LeaksAreExcused, Closing, Busy, At
<1>12. ASSUME CloseBegins \/ CloseAgain \/ CloseEnds \/ CloseNothing, ~Evicting
       PROVE  ClientsKept'
  BY <1>12, ClientsShut
<1>13. ASSUME Crash PROVE ClientsKept'
  BY <1>13 DEF Crash, Forgotten, ClientsKept, SubscriberListens, LeaksAreExcused, Busy, At
<1>14. ASSUME UNCHANGED loaderVars PROVE ClientsKept'
  BY <1>14, ClientsQuietStep DEF loaderVars, memory, history, leaks
<1>15. ASSUME NEW j \in Jobs, Delete(j) PROVE ClientsKept'
  BY <1>15, ClientsDelete
<1> QED
  BY <1>1, <1>2, <1>3, <1>4, <1>5, <1>6, <1>7, <1>8, <1>9, <1>10, <1>11, <1>12,
     <1>13, <1>14, <1>15 DEF LoaderNext, LoadStep, Lookup

-----------------------------------------------------------------------------
(* Keys. *)

(* The prefix of a key names the instance. *)
LEMMA KeysStep ==
  ASSUME LoaderTypeOK, KeysExplained, [LoaderNext]_loaderVars
  PROVE  KeysExplained'
<1> USE NoneAssumption, LoaderAssumption
<1>1. ASSUME UNCHANGED <<urls, everUrls, rows, crashes>>,
             \A k \in Jobs : Busy(k)' =>
               \/ load'[k].at = "credential" /\ ~load'[k].multi
               \/ /\ Busy(k) /\ load'[k].multi = load[k].multi
                  /\ load'[k].binding = load[k].binding
                  /\ load'[k].at # "credential" => load[k].at # "credential"
      PROVE  KeysExplained'
  BY <1>1 DEF KeysExplained, Bare
<1>2. ASSUME UNCHANGED <<urls, everUrls, rows, crashes, load>> PROVE KeysExplained'
  BY <1>2 DEF KeysExplained, Bare, Busy
<1>3. ASSUME NEW j \in Jobs, NEW p \in Projects, Begin(j, p) PROVE KeysExplained'
  <2>1. \A k \in Jobs \ {j} : load'[k] = load[k]
    BY <1>3 DEF Begin, LoaderTypeOK
  <2>2. load'[j].at = "credential" /\ ~load'[j].multi
    BY <1>3 DEF Begin, LoaderTypeOK
  <2> QED
    BY <1>1, <1>3, <2>1, <2>2 DEF Begin, history, bounds, Busy
<1>4. ASSUME NEW j \in Jobs, Throw(j) \/ UseFails(j) PROVE KeysExplained'
  <2>1. \A k \in Jobs \ {j} : load'[k] = load[k]
    BY <1>4 DEF Throw, UseFails, LoaderTypeOK
  <2>2. ~Busy(j)'
    BY <1>4 DEF Throw, UseFails, LoaderTypeOK, Busy
  <2> QED
    BY <1>1, <1>4, <2>1, <2>2 DEF Throw, UseFails, history, bounds, Busy
<1>5. ASSUME NEW j \in Jobs, NEW a, NEW c, Busy(j), load[j].at # "credential",
             load' = [load EXCEPT ![j].at = a, ![j].client = c],
             UNCHANGED <<urls, everUrls, rows, crashes>>
      PROVE  KeysExplained'
  <2>1. load[j] \in Load
    BY <1>5, LoadType
  <2>2. \A k \in Jobs \ {j} : load'[k] = load[k]
    BY <1>5 DEF LoaderTypeOK
  <2>3. load'[j].multi = load[j].multi /\ load'[j].binding = load[j].binding
    BY <1>5, <2>1 DEF LoaderTypeOK, Load
  <2> QED
    BY <1>1, <1>5, <2>2, <2>3 DEF Busy
<1>6. ASSUME NEW j \in Jobs, CloseOld(j) \/ CloseOldFails(j) PROVE KeysExplained'
  BY <1>5, <1>6 DEF CloseOld, CloseOldFails, Busy, bounds
<1>15. ASSUME NEW j \in Jobs, Delete(j) PROVE KeysExplained'
  <2>1. load[j] \in Load /\ Busy(j) /\ load[j].at = "evict"
    BY <1>15, LoadType DEF Delete, Busy
  <2>2. \A k \in Jobs \ {j} : load'[k] = load[k]
    BY <1>15 DEF Delete, LoaderTypeOK
  <2>3. load'[j].multi = load[j].multi /\ load'[j].binding = load[j].binding
    BY <1>15, <2>1 DEF Delete, LoaderTypeOK, Load
  <2> QED
    BY <1>1, <1>15, <2>1, <2>2, <2>3 DEF Delete, Busy, history, bounds
<1>7. ASSUME NEW j \in Jobs, Create(j) PROVE KeysExplained'
  BY <1>5, <1>7 DEF Create, Busy, bounds
<1>8. ASSUME NEW j \in Jobs, Use(j) PROVE KeysExplained'
  <2> DEFINE r == [url |-> ProjectKey(load[j].multi, load[j].binding).url,
                   of  |-> load[j].binding.inst]
  <2>1. Busy(j) /\ load[j].at = "ready" /\ load[j].binding.inst \in Instances
    BY <1>8, LoadType DEF Use, Busy
  <2>2. /\ load[j].multi => r.url = load[j].binding.inst
        /\ ~load[j].multi => r.url = Raw
        /\ r.of = load[j].binding.inst
    BY DEF ProjectKey
  <2>3. rows' = rows \/ rows' = rows \cup {r}
    BY <1>8 DEF Use
  <2>4. UNCHANGED <<urls, everUrls, crashes>>
    BY <1>8 DEF Use, history, bounds
  <2>5. ~Busy(j)' /\ \A k \in Jobs \ {j} : load'[k] = load[k]
    BY <1>8 DEF Use, LoaderTypeOK, Busy
  <2> HIDE DEF r
  <2>6. \A i : Bare(i)' => Bare(i)
    BY <2>1, <2>2, <2>3, <2>5 DEF Bare, Busy
  <2>7. \A q \in rows' : q.url # Raw => q.of = q.url /\ Cardinality(everUrls) >= 2
    BY <2>1, <2>2, <2>3 DEF KeysExplained
  <2>8. \A k \in Jobs : Busy(k)' /\ load'[k].multi => Cardinality(everUrls) >= 2
    BY <2>5 DEF KeysExplained, Busy
  <2> QED
    BY <2>4, <2>6, <2>7, <2>8 DEF KeysExplained
<1>9. ASSUME NEW j \in Jobs, Resolve(j) PROVE KeysExplained'
  <2> DEFINE b == load[j].binding
             u == urls \cup {b.inst}
             multi == IsMultiInstance(RegisterBaseUrl(b.inst))
  <2>1. load[j] \in Load /\ Busy(j) /\ load[j].at = "credential"
    BY <1>9, LoadType DEF Resolve, Busy
  <2>2. urls' = u /\ everUrls' = everUrls \cup {b.inst} /\ UNCHANGED <<rows, crashes>>
    BY <1>9 DEF Resolve, RegisterBaseUrl, bounds
  <2>3. /\ IsFiniteSet(everUrls') /\ urls' \subseteq everUrls'
        /\ IsFiniteSet(u)
        /\ Cardinality(u) \in Nat /\ Cardinality(everUrls') \in Nat
        /\ Cardinality(u) <= Cardinality(everUrls')
        /\ Cardinality(everUrls) \in Nat
        /\ Cardinality(everUrls) <= Cardinality(everUrls')
    <3>1. IsFiniteSet(everUrls') /\ urls' \subseteq everUrls'
      BY <2>2, FS_AddElement DEF KeysExplained
    <3> QED
      BY <2>2, <3>1, SmallerSubset
  <2>4. multi <=> Cardinality(u) >= 2
    BY DEF IsMultiInstance, RegisterBaseUrl
  <2>5. \A k \in Jobs \ {j} : load'[k] = load[k]
    BY <1>9 DEF Resolve, LoaderTypeOK
  <2>6. load'[j].multi = multi /\ load'[j].binding = b
    <3>1. \/ \E a \in {"ready", "evict"} :
                load' = [load EXCEPT ![j].at = a, ![j].multi = multi,
                                     ![j].client = cache.client]
          \/ load' = [load EXCEPT ![j].at = "create", ![j].multi = multi]
      BY <1>9 DEF Resolve
    <3> HIDE DEF multi
    <3>2. \A a, c : LET q == [[[load[j] EXCEPT !.at = a] EXCEPT !.multi = multi]
                                EXCEPT !.client = c]
                   IN  q.multi = multi /\ q.binding = b
      BY <2>1 DEF Load
    <3>3. \A a : LET q == [[load[j] EXCEPT !.at = a] EXCEPT !.multi = multi]
                IN  q.multi = multi /\ q.binding = b
      BY <2>1 DEF Load
    <3>6. CASE load' = [load EXCEPT ![j].at = "create", ![j].multi = multi]
      <4>1. load'[j] = [[load[j] EXCEPT !.at = "create"] EXCEPT !.multi = multi]
        BY <3>6 DEF LoaderTypeOK
      <4> QED
        BY <3>3, <4>1
    <3>7. CASE load' = [load EXCEPT ![j].at = "ready", ![j].multi = multi,
                                    ![j].client = cache.client]
      <4>1. load'[j] = [[[load[j] EXCEPT !.at = "ready"] EXCEPT !.multi = multi]
                         EXCEPT !.client = cache.client]
        BY <3>7 DEF LoaderTypeOK
      <4> QED
        BY <3>2, <4>1
    <3>8. CASE load' = [load EXCEPT ![j].at = "evict", ![j].multi = multi,
                                    ![j].client = cache.client]
      <4>1. load'[j] = [[[load[j] EXCEPT !.at = "evict"] EXCEPT !.multi = multi]
                         EXCEPT !.client = cache.client]
        BY <3>8 DEF LoaderTypeOK
      <4> QED
        BY <3>2, <4>1
    <3> QED
      BY <3>1, <3>6, <3>7, <3>8
  <2> HIDE DEF b, u, multi
  <2>7. \A i : Bare(i)' => Bare(i) \/ (~multi /\ i = b.inst)
    BY <2>2, <2>5, <2>6 DEF Bare, Busy
  <2>8. \A k \in Jobs : Busy(k)' /\ load'[k].multi => Cardinality(everUrls') >= 2
    BY <2>3, <2>4, <2>5, <2>6 DEF KeysExplained, Busy
  <2>9. \A q \in rows' : q.url # Raw => q.of = q.url /\ Cardinality(everUrls') >= 2
    BY <2>2, <2>3 DEF KeysExplained
  <2>10. b.inst \in u /\ urls \subseteq u
    BY DEF u
  <2>11. ASSUME crashes' = 0 PROVE \A i : Bare(i)' => i \in urls'
    BY <2>2, <2>7, <2>10, <2>11 DEF KeysExplained
  <2>12. ASSUME crashes' = 0, NEW i, NEW k, Bare(i)', Bare(k)' PROVE i = k
    <3>1. CASE multi
      BY <2>2, <2>7, <2>12, <3>1 DEF KeysExplained
    <3>2. CASE ~multi
      <4>1. Cardinality(u) < 2
        BY <2>3, <2>4, <3>2
      <4>2. i \in u /\ k \in u
        BY <2>2, <2>11, <2>12
      <4> QED
        BY <2>3, <4>1, <4>2, FewerThanTwo
    <3> QED
      BY <3>1, <3>2
  <2> QED
    BY <2>3, <2>8, <2>9, <2>11, <2>12 DEF KeysExplained
<1>10. ASSUME Crash PROVE KeysExplained'
  <2>1. crashes' # 0
    BY <1>10 DEF Crash, LoaderTypeOK
  <2> QED
    BY <1>10, <2>1 DEF Crash, Forgotten, KeysExplained, Busy
<1>11. ASSUME NEW p \in Projects, NEW i \in Instances, Bind(p, i) PROVE KeysExplained'
  BY <1>2, <1>11 DEF Bind, memory, history
<1>12. ASSUME NEW p \in Projects, Unbind(p) PROVE KeysExplained'
  BY <1>2, <1>12 DEF Unbind, memory, history, bounds
<1>13. ASSUME \/ OnTx \/ EngineStarted \/ Expire \/ Shutdown
              \/ CloseBegins \/ CloseAgain \/ CloseEnds \/ CloseNothing
       PROVE  KeysExplained'
  BY <1>2, <1>13 DEF OnTx, EngineStarted, Expire, Shutdown, CloseBegins, CloseAgain,
                     CloseEnds, CloseNothing, history, bounds
<1>14. ASSUME UNCHANGED loaderVars PROVE KeysExplained'
  BY <1>2, <1>14 DEF loaderVars, memory, history, bounds
<1> QED
  BY <1>3, <1>4, <1>6, <1>7, <1>8, <1>9, <1>10, <1>11, <1>12, <1>13, <1>14, <1>15
  DEF LoaderNext, LoadStep, Lookup

-----------------------------------------------------------------------------
(* The initial state. *)
LEMMA InitIInv ==
  ASSUME LoaderInit
  PROVE  LoaderInv
<1> USE LoaderAssumption
<1>1. LoaderTypeOK
  <2>1. /\ 0 \in 0..BUFFER_MAX /\ 0 \in 0..MaxBindings /\ 0 \in 0..MaxCrashes
        /\ [j \in Jobs |-> None] \in [Jobs -> Load \cup {None}]
        /\ [p \in Projects |-> None] \in [Projects -> Binding \cup {None}]
    OBVIOUS
  <2> QED
    BY <2>1 DEF LoaderInit, LoaderTypeOK
<1>2. ClientsKept
  BY DEF LoaderInit, ClientsKept, SubscriberListens, LeaksAreExcused, Busy, At
<1>4. KeysExplained
  BY FS_EmptySet DEF LoaderInit, KeysExplained, Bare, Busy
<1> QED
  BY <1>1, <1>2, <1>4 DEF LoaderInv

(* The inductive invariant of the loader. *)
LEMMA LoaderInvariance == LoaderSpec => []LoaderInv
<1>1. LoaderInv /\ [LoaderNext]_loaderVars => LoaderInv'
  BY TypeStep, ClientsStep, KeysStep DEF LoaderInv
<1> QED
  BY <1>1, InitIInv, PTL DEF LoaderSpec

(* Every variable of the loader has its type in every reachable state. *)
THEOREM TypesHold == LoaderSpec => []LoaderTypeOK
BY LoaderInvariance, PTL DEF LoaderInv

(* However loads, expiries and shutdown interleave, until the shutdown     *)
(* there is a subscriber if and only if a client is cached, both clients   *)
(* are connected, and after start() no subscriber buffers.                 *)
THEOREM SubscriberAlwaysListens == LoaderSpec => []SubscriberListens
<1>1. LoaderInv => SubscriberListens
  BY DEF LoaderInv, ClientsKept
<1> QED
  BY <1>1, LoaderInvariance, PTL

(* A connected client is the cached one or about to be closed, unless a    *)
(* concurrent load overwrote its entry, close() cleared the entry away, or *)
(* closing it threw; and after a close() during which and after which no   *)
(* load connected there is no subscriber and no other client.              *)
THEOREM OnlyNamedLeaks == LoaderSpec => []LeaksAreExcused
<1>1. LoaderInv => LeaksAreExcused
  BY DEF LoaderInv, ClientsKept
<1> QED
  BY <1>1, LoaderInvariance, PTL

(* Id map keys: one key per object while one base URL was ever registered, *)
(* and no key for objects of two instances before the process ends.        *)
THEOREM KeysStandForObjects == LoaderSpec => []KeysIdentify
<1>1. ASSUME LoaderInv PROVE KeysIdentify
  <2> USE <1>1
  <2>1. \A r \in rows : r.url \in Instances \cup {Raw} /\ r.of \in Instances
    BY DEF LoaderInv, LoaderTypeOK
  <2>2. ASSUME Cardinality(everUrls) < 2, NEW r \in rows, NEW s \in rows, r.of = s.of
        PROVE  r = s
    <3>1. Cardinality(everUrls) \in Nat
      BY FS_CardinalityType DEF LoaderInv, KeysExplained
    <3>2. r.url = Raw /\ s.url = Raw
      BY <2>2, <3>1 DEF LoaderInv, KeysExplained
    <3> QED
      BY <2>2, <3>2 DEF LoaderInv, LoaderTypeOK
  <2>3. ASSUME crashes = 0, NEW r \in rows, NEW s \in rows, r.url = s.url
        PROVE  r.of = s.of
    <3>1. CASE r.url = Raw
      BY <2>3, <3>1 DEF LoaderInv, KeysExplained, Bare
    <3>2. CASE r.url # Raw
      BY <2>3, <3>2 DEF LoaderInv, KeysExplained
    <3> QED
      BY <3>1, <3>2
  <2> QED
    BY <2>2, <2>3 DEF KeysIdentify
<1> QED
  BY <1>1, LoaderInvariance, PTL

=============================================================================
