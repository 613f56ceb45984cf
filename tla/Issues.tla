------------------------------- MODULE Issues -------------------------------
(***************************************************************************)
(* Two-way synchronisation of issues: what a Huly user changes reaches     *)
(* GitLab through TxSubscriber (src/src/sync/tx-subscription.ts) and       *)
(* applyLocal, what changes at GitLab reaches Huly through the sweep and   *)
(* applyRemote (both in src/src/sync/issues.ts), and the id map            *)
(* (src/src/state/idmap.ts) says which issue is which.  Webhooks are not   *)
(* here: applyRemote throws on their raw payload (see SyncEngine), so they *)
(* change neither side.                                                    *)
(*                                                                         *)
(* The engine serialises the events of one GitLab issue and those of one   *)
(* Huly document, but not the two with each other: their keys differ.      *)
(* Every await that another step can observe is a step.  An event that     *)
(* finds the breaker open is dropped, and one whose handler throws ends    *)
(* there; neither comes again.  The binding is the only one of its         *)
(* workspace; the breaker itself is in Breaker and SyncEngine.             *)
(***************************************************************************)
EXTENDS Integers, Sequences, FiniteSets

CONSTANTS
  MaxDocs,      \* bound: Huly issues
  MaxIids,      \* bound: GitLab issues
  MaxEdits,     \* bound: changes that people make on either side
  MaxTouches,   \* bound: changes in Huly to none of the mirrored fields
  MaxTroubles,  \* bound: crashes, removals, exceptions, dropped and ignored events
  BUFFER_MAX,   \* entries of the cold-start buffer
  Resolved,     \* whether the service account's PersonId is the right one
  None

ASSUME IssuesAssumption ==
  /\ {MaxDocs, MaxIids, BUFFER_MAX} \subseteq Nat \ {0}
  /\ {MaxEdits, MaxTouches, MaxTroubles} \subseteq Nat
  /\ Resolved \in BOOLEAN
  /\ None \notin Nat

VARIABLES
  gitlab,    \* GitLab's issues: content and updated_at; ts 0 for none
  huly,      \* Huly's issues: content and modifiedOn; ts 0 for none
  idmap,     \* the id map, by iid
  cursor,    \* the `issues' cursor
  clock,     \* the time, as a number of changes
  queued,    \* remote events that a sweep enqueued: each has its inflight row
  polled,    \* dedup keys of the events that sweeps have enqueued
  remote,    \* applyRemote, for each GitLab issue, between two awaits
  line,      \* the queued local events of each Huly issue
  local,     \* applyLocal, for each Huly issue, between two awaits
  buffer,    \* TxSubscriber.buffer
  started,   \* TxSubscriber.engineStarted
  edits,     \* history: the changes that people made, in GitLab and in Huly
  touches,   \* touches so far
  troubles,  \* troubles so far
  races,     \* history: issues mirrored back before their mapping was written
  undone,    \* history: issues whose present version was lost to a known cause
  unsent     \* history: documents of which a change was lost to a known cause

vars == <<gitlab, huly, idmap, cursor, clock, queued, polled, remote, line, local,
          buffer, started, edits, touches, troubles, races, undone, unsent>>

Docs == 1..MaxDocs
Iids == 1..MaxIids
MaxClock == 2 * MaxEdits + 2 * MaxTouches + 2
Time == 0..MaxClock
Version == [val : Time, ts : Time]
Event == [iid : Iids, val : Time, ts : Time]
Change == [doc : Docs, val : Time \cup {None}, titled : BOOLEAN]
RemoteJob == [at : {"create", "map", "read", "write"}, ev : Event,
              doc : Docs \cup {None}, seen : Version]
LocalJob == [at : {"call", "finish"}, val : Time, new : BOOLEAN, iid : Iids \cup {None}]

ASSUME NoneAssumption == None \notin Version \cup RemoteJob \cup LocalJob

TypeOK ==
  /\ gitlab \in [Iids -> Version]
  /\ huly \in [Docs -> Version \cup {None}]
  /\ idmap \in [Iids -> Docs \cup {None}]
  /\ cursor \in 0..(MaxClock + 1) /\ clock \in Time
  /\ queued \subseteq Event
  /\ polled \subseteq Event
  /\ remote \in [Iids -> RemoteJob \cup {None}]
  /\ line \in [Docs -> Seq(Change)]
  /\ local \in [Docs -> LocalJob \cup {None}]
  /\ buffer \in Seq(Change) /\ Len(buffer) <= BUFFER_MAX
  /\ started \in BOOLEAN
  /\ edits \in [{"gitlab", "huly"} -> 0..(MaxEdits + MaxTouches)]
  /\ touches \in 0..MaxTouches
  /\ troubles \in 0..MaxTroubles
  /\ races \in Nat
  /\ undone \subseteq Iids /\ unsent \subseteq Docs

Absent == [val |-> 0, ts |-> 0]

Init ==
  /\ gitlab = [i \in Iids |-> Absent]
  /\ huly = [d \in Docs |-> Absent]
  /\ idmap = [i \in Iids |-> None]
  /\ cursor = 0
  /\ clock = 0
  /\ queued = {} /\ polled = {}
  /\ remote = [i \in Iids |-> None]
  /\ line = [d \in Docs |-> <<>>]
  /\ local = [d \in Docs |-> None]
  /\ buffer = <<>>
  /\ started = FALSE
  /\ edits = [s \in {"gitlab", "huly"} |-> 0]
  /\ touches = 0 /\ troubles = 0 /\ races = 0
  /\ undone = {} /\ unsent = {}

sides == <<gitlab, huly, idmap>>
inside == <<queued, polled, remote>>   \* GitLab's direction
outside == <<line, local, buffer, started>>   \* Huly's direction
people == <<edits, touches>>
lost == <<undone, unsent>>
history == <<edits, touches, troubles, races, undone, unsent>>

Trouble == troubles < MaxTroubles /\ troubles' = troubles + 1

Unborn(d) == huly[d] = Absent
Alive(d) == huly[d] # None /\ huly[d] # Absent
NewDoc(d) == Unborn(d) /\ \A e \in 1..(d - 1) : ~Unborn(e)
NewIid(i) == gitlab[i] = Absent /\ \A j \in 1..(i - 1) : gitlab[j] # Absent

-----------------------------------------------------------------------------
(* Mutants: the subscriber lets the pod's own writes through; the older of  *)
(* two versions wins; the mapping of a fresh copy is not written.           *)

Echo_Through(by, marked) == FALSE

RemoteWins_Older(l, r) == l >= r

Mapped_Forgets(i, d) == idmap

-----------------------------------------------------------------------------
(* TxSubscriber.onTx: who wrote it, and whether it carries the marker of an
   applyRemote write.                                                       *)
Echo(by, marked) == (by = "pod" /\ Resolved) \/ marked

HasRoom == Len(buffer) < BUFFER_MAX

(* A transaction on Huly document d, with its title or without; the newest is
   dropped when the buffer is full.                                         *)
OnTx(d, val, titled, by, marked) ==
  LET c == [doc |-> d, val |-> val, titled |-> titled] IN
  /\ line' = IF started /\ ~Echo(by, marked) THEN [line EXCEPT ![d] = Append(@, c)] ELSE line
  /\ buffer' = IF ~started /\ ~Echo(by, marked) /\ HasRoom THEN Append(buffer, c) ELSE buffer

Overflows == ~started /\ ~HasRoom

(* The buffered changes of d, oldest first. *)
ChangesOf(b, d) ==
  LET upTo[n \in 0..Len(b)] ==
        IF n = 0 THEN <<>>
        ELSE IF b[n].doc = d THEN Append(upTo[n - 1], b[n]) ELSE upTo[n - 1]
  IN upTo[Len(b)]

MarkEngineStarted ==
  /\ ~started
  /\ started' = TRUE
  /\ line' = [d \in Docs |-> line[d] \o ChangesOf(buffer, d)]
  /\ buffer' = <<>>
  /\ UNCHANGED <<sides, cursor, clock, inside, local, history>>

-----------------------------------------------------------------------------
(* People. *)

Count(side) == edits' = [edits EXCEPT ![side] = @ + 1]

EditGitlab(i) ==
  /\ edits["gitlab"] + edits["huly"] < MaxEdits
  /\ gitlab[i] # Absent \/ NewIid(i)
  /\ clock' = clock + 1
  /\ gitlab' = [gitlab EXCEPT ![i] = [val |-> clock', ts |-> clock']]
  /\ Count("gitlab")
  /\ undone' = undone \ {i}
  /\ UNCHANGED <<huly, idmap, cursor, inside, outside, touches, troubles, races, unsent>>

(* A new issue comes with its title; a later change often does not. *)
EditHuly(d) ==
  /\ edits["gitlab"] + edits["huly"] < MaxEdits
  /\ Alive(d) \/ NewDoc(d)
  /\ clock' = clock + 1
  /\ huly' = [huly EXCEPT ![d] = [val |-> clock', ts |-> clock']]
  /\ \E titled \in BOOLEAN :
       (NewDoc(d) => titled) /\ OnTx(d, clock', titled, "user", FALSE)
  /\ unsent' = IF Overflows THEN unsent \cup {d} ELSE unsent
  /\ Count("huly")
  /\ UNCHANGED <<gitlab, idmap, cursor, inside, local, started, touches, troubles, races, undone>>

(* A change to a field that GitLab does not have: modifiedOn moves all the same. *)
TouchHuly(d) ==
  /\ touches < MaxTouches /\ touches' = touches + 1
  /\ Alive(d)
  /\ clock' = clock + 1
  /\ huly' = [huly EXCEPT ![d].ts = clock']
  /\ OnTx(d, None, FALSE, "user", FALSE)
  /\ Count("huly")
  /\ UNCHANGED <<gitlab, idmap, cursor, inside, local, started, troubles, races, lost>>

RemoveHuly(d) ==
  /\ Trouble
  /\ Alive(d)
  /\ huly' = [huly EXCEPT ![d] = None]
  /\ OnTx(d, None, FALSE, "user", FALSE)
  /\ UNCHANGED <<gitlab, idmap, cursor, clock, inside, local, started, people, races, lost>>

-----------------------------------------------------------------------------
(* The cursor. *)

Current(i) == [iid |-> i, val |-> gitlab[i].val, ts |-> gitlab[i].ts]
Listed(i) == gitlab[i] # Absent /\ gitlab[i].ts >= cursor

(* setCursor writes what it is given.  It is the last call of each handler,
   so an exception there changes nothing but the cursor.                    *)
SetCursor(t) ==
  \/ cursor' = t /\ UNCHANGED troubles
  \/ Trouble /\ UNCHANGED cursor

(* History: Huly holds GitLab's present version of i. *)
Held(i) == idmap[i] # None /\ huly[idmap[i]] # None /\ huly[idmap[i]].val = gitlab[i].val

(* History: no event and no sweep will bring it, with the cursor at t. *)
Passed(i, events, t) ==
  gitlab[i] # Absent /\ Current(i) \notin events /\ (Current(i) \in polled \/ gitlab[i].ts < t)
Unserved(i, events) == Passed(i, events, cursor) /\ ~Held(i)

(* History: what a sweep was yet to list, and will not with the cursor at t. *)
Skipped(t) ==
  {i \in Iids : Listed(i) /\ gitlab[i].ts < t /\ Current(i) \notin polled /\ ~Held(i)}

-----------------------------------------------------------------------------
(* IssuesSyncManager.applyLocal *)

FindByHuly(d) == {i \in Iids : idmap[i] = d}

(* upsertIdMap: one row for each GitLab issue; the unique index over the Huly
   side makes it throw when d is mapped to another.                         *)
IndexAdmits(i, d) == FindByHuly(d) \subseteq {i}
Mapped(i, d) == [idmap EXCEPT ![i] = d]

(* History: the issue's versions went to another document so far, or a change
   of this one, made since it had the version v, went to another issue.     *)
Displaced(i, d, v) ==
  {j \in {i} : \/ idmap[i] \notin {None, d}
               \/ idmap[i] = None /\ gitlab[i].val # v /\ Passed(i, queued, cursor)
               \/ /\ huly[d] # None /\ huly[d].val # v
                  /\ \A n \in DOMAIN line[d] : line[d][n].val = None}

(* Without a title an unmapped document is left as it is. *)
Begins(c, d) == c.val # None /\ (FindByHuly(d) = {} => c.titled)

LocalBegin(d) ==
  LET c == Head(line[d]) IN
  /\ local[d] = None /\ line[d] # <<>>
  /\ line' = [line EXCEPT ![d] = Tail(@)]
  /\ local' = IF ~Begins(c, d) THEN local ELSE [local EXCEPT ![d] =
       [at |-> "call", val |-> c.val, new |-> FindByHuly(d) = {},
        iid |-> IF FindByHuly(d) = {} THEN None ELSE CHOOSE i \in FindByHuly(d) : TRUE]]
  /\ unsent' = IF c.val # None /\ ~Begins(c, d) THEN unsent \cup {d} ELSE unsent
  /\ races' = IF Begins(c, d) /\ FindByHuly(d) = {} /\ \E i \in Iids : remote[i] # None /\ remote[i].doc = d
              THEN races + 1 ELSE races
  /\ UNCHANGED <<sides, cursor, clock, inside, buffer, started, people, troubles, undone>>

(* The breaker is open: the event is gone, and no row remembers it. *)
LocalDropped(d) ==
  /\ Trouble
  /\ local[d] = None /\ line[d] # <<>> /\ Head(line[d]).val # None
  /\ line' = [line EXCEPT ![d] = Tail(@)]
  /\ unsent' = unsent \cup {d}
  /\ UNCHANGED <<sides, cursor, clock, inside, local, buffer, started, people, races, undone>>

(* createIssue or updateIssue; GitLab dates the change. *)
LocalCall(d) ==
  /\ local[d] # None /\ local[d].at = "call" /\ clock < MaxClock
  /\ \E i \in Iids :
       /\ IF local[d].new THEN NewIid(i) ELSE i = local[d].iid
       /\ clock' = clock + 1
       /\ gitlab' = [gitlab EXCEPT ![i] = [val |-> local[d].val, ts |-> clock']]
       /\ local' = [local EXCEPT ![d].at = "finish", ![d].iid = i]
       /\ undone' = undone \ {i}
  /\ UNCHANGED <<huly, idmap, cursor, inside, line, buffer, started, people, troubles, races, unsent>>

(* upsertIdMap after a creation, and the cursor at the present time, which is
   after GitLab's and not after the next change.  If the index refuses, the
   change is at an issue of its own.                                        *)
LocalFinish(d) ==
  /\ local[d] # None /\ local[d].at = "finish"
  /\ IF local[d].new /\ ~IndexAdmits(local[d].iid, d)
     THEN /\ unsent' = unsent \cup {d}
          /\ UNCHANGED <<idmap, cursor, troubles, undone>>
     ELSE /\ idmap' = IF local[d].new THEN Mapped(local[d].iid, d) ELSE idmap
          /\ SetCursor(clock + 1)
          /\ undone' = undone \cup Skipped(cursor') \cup Displaced(local[d].iid, d, local[d].val)
          /\ UNCHANGED unsent
  /\ local' = [local EXCEPT ![d] = None]
  /\ UNCHANGED <<gitlab, huly, clock, inside, line, buffer, started, people, races>>

Creating(d) == local[d] # None /\ local[d].new

(* A document whose change has not reached GitLab, or whose new issue will not
   be known as its own, when applyLocal stops here.                         *)
Aborted(d) == local[d] # None /\ (local[d].at = "call" \/ local[d].new)

(* GitLab refuses the call, or upsertIdMap throws after a creation. *)
LocalThrows(d) ==
  /\ Trouble
  /\ Aborted(d)
  /\ local' = [local EXCEPT ![d] = None]
  /\ unsent' = unsent \cup {d}
  /\ undone' = undone \cup {i \in Iids : local[d].iid = i /\ Unserved(i, queued)}
  /\ UNCHANGED <<sides, cursor, clock, inside, line, buffer, started, people, races>>

-----------------------------------------------------------------------------
(* IssuesSyncManager.applyRemote.  The events of one issue come in order.   *)
(* History: an event that finds no mapping while the local event that       *)
(* created the issue has yet to write it.                                   *)

(* resolveLww, with the document's one modifiedOn as the time of every field. *)
RemoteWins(l, r) == r >= l

Turn(e) == started /\ remote[e.iid] = None /\ \A f \in queued : f.iid = e.iid => e.ts <= f.ts

RemoteBegin(e) ==
  LET i == e.iid IN
  /\ Turn(e)
  /\ remote' = [remote EXCEPT ![i] =
       [at |-> IF idmap[i] = None THEN "create" ELSE "read", ev |-> e, doc |-> idmap[i], seen |-> Absent]]
  /\ races' = IF idmap[i] = None /\ \E d \in Docs : local[d] # None /\ local[d].iid = i
              THEN races + 1 ELSE races
  /\ UNCHANGED <<sides, cursor, clock, queued, polled, outside, people, troubles, lost>>

(* The breaker is open. *)
RemoteDropped(e) ==
  /\ Trouble
  /\ Turn(e)
  /\ queued' = queued \ {e}
  /\ undone' = undone \cup {i \in {e.iid} : Unserved(i, queued')}
  /\ UNCHANGED <<sides, cursor, clock, polled, remote, outside, people, races, unsent>>

RemoteEnd(i) ==
  /\ remote' = [remote EXCEPT ![i] = None]
  /\ queued' = queued \ {remote[i].ev}

(* createDoc, stamped with the marker and with GitLab's time. *)
RemoteCreate(i) ==
  /\ remote[i] # None /\ remote[i].at = "create"
  /\ \E d \in Docs :
       /\ NewDoc(d)
       /\ huly' = [huly EXCEPT ![d] = [val |-> remote[i].ev.val, ts |-> remote[i].ev.ts]]
       /\ OnTx(d, remote[i].ev.val, TRUE, "pod", TRUE)
       /\ remote' = [remote EXCEPT ![i].at = "map", ![i].doc = d]
  /\ UNCHANGED <<gitlab, idmap, cursor, clock, queued, polled, local, started, history>>

(* If the index refuses, the version has gone to the new document only. *)
RemoteMap(i) ==
  /\ remote[i] # None /\ remote[i].at = "map"
  /\ RemoteEnd(i)
  /\ IF IndexAdmits(i, remote[i].doc)
     THEN /\ idmap' = Mapped(i, remote[i].doc)
          /\ SetCursor(remote[i].ev.ts)
          /\ undone' = undone \cup Skipped(cursor') \cup Displaced(i, remote[i].doc, remote[i].ev.val)
     ELSE /\ undone' = undone \cup {j \in {i} : idmap[j] # None /\ Unserved(j, queued')}
          /\ UNCHANGED <<idmap, cursor, troubles>>
  /\ UNCHANGED <<gitlab, huly, clock, polled, outside, people, races, unsent>>

(* findOne; a mapping to an issue that is gone ends the event. *)
RemoteRead(i) ==
  /\ remote[i] # None /\ remote[i].at = "read"
  /\ IF huly[remote[i].doc] = None
     THEN RemoteEnd(i)
     ELSE /\ remote' = [remote EXCEPT ![i].at = "write", ![i].seen = huly[remote[i].doc]]
          /\ UNCHANGED queued
  /\ UNCHANGED <<sides, cursor, clock, polled, outside, history>>

(* updateDoc of the fields that differ, over whatever was written meanwhile;
   modifiedOn moves only if one does.  History: a document that was touched
   is newer than GitLab's version; an older version may be written over a
   newer one; the document may be another issue's by now; or it is GitLab's
   in all its fields.                                                       *)
RemoteWrite(i) ==
  LET d == remote[i].doc
      e == remote[i].ev
      l == remote[i].seen
      wins == RemoteWins(l.ts, e.ts)
  IN
  /\ remote[i] # None /\ remote[i].at = "write"
  /\ IF wins /\ l.val # e.val /\ huly[d] # None
     THEN /\ huly' = [huly EXCEPT ![d] = [val |-> e.val, ts |-> e.ts]]
          /\ OnTx(d, e.val, TRUE, "pod", TRUE)
     ELSE UNCHANGED <<huly, line, buffer>>
  /\ IF e.ts > l.ts THEN SetCursor(e.ts) ELSE UNCHANGED <<cursor, troubles>>
  /\ RemoteEnd(i)
  /\ undone' = undone \cup Skipped(cursor')
       \cup {j \in {i} : Passed(j, queued', cursor') /\ IF wins THEN e # Current(j) ELSE e.ts < l.ts}
       \cup {j \in FindByHuly(d) : idmap[i] # d /\ huly'[d] # huly[d]}
  /\ unsent' = unsent \ {f \in {d} : wins /\ huly[d] = l /\ idmap[i] = d}
  /\ UNCHANGED <<gitlab, idmap, clock, polled, local, started, people, races>>

(* applyRemote throws, or returns because no status of the project fits the
   issue's state.  A document made before that has no mapping.              *)
RemoteThrows(i) ==
  /\ Trouble
  /\ remote[i] # None
  /\ RemoteEnd(i)
  /\ undone' = undone \cup {j \in {i} : Unserved(j, queued')}
  /\ unsent' = unsent \cup {d \in Docs : remote[i].at = "map" /\ remote[i].doc = d}
  /\ UNCHANGED <<sides, cursor, clock, polled, outside, people, races>>

-----------------------------------------------------------------------------
(* IssuesSyncManager.backfill: what changed since the cursor, once each. *)

Backfill ==
  LET new == {Current(i) : i \in {j \in Iids : Listed(j)}} \ polled IN
  /\ started /\ new # {}
  /\ queued' = queued \cup new
  /\ polled' = polled \cup new
  /\ UNCHANGED <<sides, cursor, clock, remote, outside, history>>

(* Remote events are resumed from their rows; local ones have none. *)
Waits(d) == \/ \E n \in DOMAIN line[d] : line[d][n].val # None
            \/ \E n \in DOMAIN buffer : buffer[n].doc = d /\ buffer[n].val # None

Crash ==
  /\ Trouble
  /\ started' = FALSE
  /\ remote' = [i \in Iids |-> None]
  /\ local' = [d \in Docs |-> None]
  /\ line' = [d \in Docs |-> <<>>]
  /\ buffer' = <<>>
  /\ unsent' = unsent \cup
       {d \in Docs : \/ Waits(d) \/ Aborted(d)
                    \/ \E i \in Iids : remote[i] # None /\ remote[i].at = "map" /\ remote[i].doc = d}
  /\ undone' = undone \cup
       {i \in Iids : Unserved(i, queued) /\ \E d \in Docs : Aborted(d) /\ local[d].iid = i}
  /\ UNCHANGED <<sides, cursor, clock, queued, polled, people, races>>

Work ==
  \/ MarkEngineStarted
  \/ \E d \in Docs : LocalBegin(d) \/ LocalCall(d) \/ LocalFinish(d)
  \/ \E e \in queued : RemoteBegin(e)
  \/ \E i \in Iids : RemoteCreate(i) \/ RemoteMap(i) \/ RemoteRead(i) \/ RemoteWrite(i)
  \/ Backfill

Next ==
  \/ \E i \in Iids : EditGitlab(i) \/ RemoteThrows(i)
  \/ \E d \in Docs : EditHuly(d) \/ TouchHuly(d) \/ RemoveHuly(d) \/ LocalDropped(d) \/ LocalThrows(d)
  \/ \E e \in queued : RemoteDropped(e)
  \/ Work
  \/ Crash

Spec == Init /\ [][Next]_vars

(* The pod's event loop and its timers run on. *)
FairSpec == Spec /\ WF_vars(Work)

-----------------------------------------------------------------------------
(* Properties *)

(* tx-subscription.ts, MR-2: the pod's own writes in Huly never come back as
   local events, so GitLab sees at most one call for every change that a
   person made in Huly, even if the service account is not resolved.        *)
NoEchoStorm ==
  clock - edits["gitlab"] - edits["huly"] <= edits["huly"]

(* Issues without a partner that no step under way will give one. *)
HulyStrays ==
  {d \in Docs :
     /\ Alive(d)
     /\ FindByHuly(d) = {}
     /\ local[d] = None /\ line[d] = <<>>
     /\ \A n \in DOMAIN buffer : buffer[n].doc # d
     /\ \A i \in Iids : remote[i] # None => remote[i].doc # d}
GitlabStrays ==
  {i \in Iids :
     /\ gitlab[i] # Absent /\ idmap[i] = None
     /\ \A e \in queued : e.iid # i
     /\ Current(i) \in polled \/ ~Listed(i)
     /\ \A d \in Docs : local[d] # None => local[d].iid # i}

(* issues.ts:302 and :481: the copy is created before the mapping is written.
   Each issue left without a partner is the price of one event that looked
   for the mapping in between, or its own change or version was lost: to a
   full buffer, a crash, an open breaker, an exception, a cursor set past it,
   or a change without a title.                                             *)
StraysAreExcused ==
  Cardinality(HulyStrays \ unsent) + Cardinality(GitlabStrays \ undone) <= races

(* Once people stop, the two sides of every mapping agree, although the two
   directions interleave, unless the document was removed, one of its changes
   was lost and GitLab has not written it since, or GitLab's present version
   was lost, to a cause that the history names.  The bounds must leave a
   document or an issue to create.                                          *)
Bounded(i) == \/ remote[i] # None /\ remote[i].at = "create" /\ \A d \in Docs : ~NewDoc(d)
              \/ Creating(idmap[i]) /\ \A j \in Iids : ~NewIid(j)

Converges ==
  \A i \in Iids : <>[](\/ idmap[i] = None \/ huly[idmap[i]] = None \/ Held(i)
                      \/ i \in undone \/ idmap[i] \in unsent \/ Bounded(i))

=============================================================================
