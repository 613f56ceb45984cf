# Formal models of huly-gitlab

TLA+ models of the GitLab/Huly synchronisation service under `src/`, the TLC
configurations that check them on small instances, and TLAPS proofs, for every
instance, of all the safety properties the runs check.

Check a run with `tlc -config <cfg> <module>` and the proofs of a module with
`tlapm <Module>_proofs.tla` (`Runtime_proofs` for queue, breaker and loader), from
this directory. `PROJECT.json` lists the runs,
what each definition stands for in the source, the hazards of the code with the
properties aimed at them, the disagreements found, and the theorems.

## 1. The system

A *binding* ties a GitLab project to a Huly project. A single Node process (the
pod) keeps the two in step. Node runs one callback at a time, so the unit of
interleaving is the code between two `await`s; everything below that says
"concurrently" means that awaits of several async functions are pending at once.

| Component | State | Operations | Hard behaviour |
|---|---|---|---|
| Event queue (`sync/queue.ts`) | per-key FIFO, `processing` flag, LRU order, idle waiters | enqueue, runKey, drainAll | eviction under a running item, enqueue racing the end of a run |
| Breaker (`sync/breaker.ts`) | per binding: state, failures, openedAt | isOpen, recordSuccess, recordFailure | outcomes recorded in a later state than the one they were admitted in |
| Sync engine (`sync/engine.ts`) | managers, the queue | enqueueWebhookEvent, enqueueLocalEvent, enqueueBackfill, start, stop, dispatch | dedup mark, row and enqueue are three awaits; crash between them; drops |
| Dedup, inflight, cursors (`state/`) | MongoDB collections with unique and TTL indexes | checkAndMarkSeen, create/delete/listInflight, get/setCursor | lookup and insert race; rows expire under live events; cursor overwritten |
| Backfill scheduler (`sync/backfill.ts`) | a 5 minute timer | tick, processBinding, resolveSince | two cursors read one after the other, before the sweep that uses their minimum; ticks overtaking sweeps |
| Issue manager (`sync/issues.ts`, `sync/conflict.ts`) | id map, Huly issue, cursor | applyRemote, applyLocal, backfill | versions in any order; last write wins; create before the id map is written |
| Webhook route (`http/webhook.ts`) | none | authenticate, filter, enqueue | repeated, late and lost deliveries; raw payload versus adapter record |
| Transaction subscriber (`sync/tx-subscription.ts`) | cold-start buffer | onTx, markEngineStarted, stop | full buffer; echo of the pod's own writes; which binding a change belongs to |
| Notes, merge requests, reviews, epics (`sync/notes.ts`, `mr*.ts`, `epics.ts`) | id map, caches, mixins | applyRemote, applyLocal, backfill | notes before their parent; mixins shared by managers |
| Binding lifecycle and API (`sync/binding-lifecycle.ts`, `http/binding.ts`) | bindings, credentials, GitLab webhooks | create, rotate, re-register, delete | several systems changed one after another |
| Binding loader (`sync/binding-loader.ts`) | client cache, registries of bindings and base URLs | load, evict, close | two loads connecting at once, a client closed under its users, a close() that does not wait for loads, keys that depend on what was loaded |
| OAuth (`auth/`, `http/oauth.ts`, `http/user-oauth.ts`) | credentials, state tokens | start, callback, refresh | one-time refresh tokens, crash before the new one is stored, horizon shorter than the timer's period |
| Migrations (`sync/mixin-migration.ts`, `sync/reviewer-migration.ts`) | progress, paused bindings | run, resume | restart half way |
| Attachment mirror (`sync/attachments.ts`) | hash to URL map | mirror both ways | two uploads of one content |
| GitLab adapter (`adapter/`) | capabilities, rate-limit state | REST/GraphQL calls | retry, pagination, fallback |
| Markdown, logging, metrics, config | none | conversions, I/O | not a protocol |

How they interact. A webhook request and every record a sweep lists go through
`enqueueWebhookEvent`: look up the dedup mark, insert it, insert the inflight
row, enqueue under `binding/issue:iid`. The queue calls `dispatch` for the head
of each line; `dispatch` asks the breaker, calls the manager, records the
outcome in the breaker and deletes the row. The scheduler asks the same breaker,
reads the cursor, enqueues one backfill entry per kind and records a success.
After a crash `start()` re-enqueues the rows younger than an hour before the
HTTP server and the scheduler start (`index.ts`). On SIGTERM the timers and
subscribers stop and `stop()` drains the queue.

What makes each correct: the queue runs one item of a key at a time, in order,
and loses none; the breaker opens exactly on a streak of failures and rests for
its duration; the engine applies each change once, keeps what it has in hand
recoverable and eventually shows GitLab's last version in Huly; the cursor never
hides a change that was not applied; an object of one side has one partner on
the other and the two agree once people stop; what the pod writes does not come
back to it; the binding lifecycle leaves GitLab and the store in agreement; a
refresh never loses the only valid token; a subscriber listens for as long as
there is a client, and no client is left open; the
migrations lose no reviewer and approve in nobody else's name.

Where the code cannot keep a promise in every case, the model names the case: a
history variable (`evictedBusy`, `races`, `undone`, `overlaps`...) is set by the
step that loses something, for the item that it loses and until that item's next
change, and the property says that nothing is lost in any
other way. Section 3 lists these cases.

Failures are the engine's (`engine.ts:189-195` and `238-244`): an event whose turn
comes while the breaker is open is dropped, and an exception ends an apply at
whatever await it is raised; both are logged, the inflight row goes, and the dedup
mark stays. Every manager's module has both, for each direction it models.

## 2. The modules

`EventQueue`, `Breaker` and `SyncEngine` are the core every event passes through;
`Issues`, `Notes`, `MergeRequests` and `ReviewData` are the managers behind it,
each with the part of the subscriber, the scheduler and the store it works with;
`Bindings`, `Credentials` and `Loader` are what a binding consists of and how the
process holds it. The definitions of `EventQueue`, `Breaker` and `Loader` that every
module has carry its name (`QueueInit`, `BreakerNext`, `LoaderSpec`), so that one
module can extend all three. Each `MC` module extends one of them for TLC. A manager's
module takes from the engine what `SyncEngine` shows: an enqueued event has a row,
survives a crash, and is dispatched once per row, one at a time for its key.

### EventQueue, KeyedFifo

`queues`, `order` and the `processing` flag are the fields of `EventQueue` and
`LruTracker`; `activeKeys` has no reader and is left out. `running[k]` is the
set of suspended `runKey` calls of a key, by the item they await: a set, because
an eviction can make it hold two. `Enqueue` is the whole of `enqueue`, with the
eviction and the synchronous part of the `runKey` it may start; the three
`Finish` actions are the continuation of the `await` in `runKey`, by what it
finds under the key. `DrainAll`, `DrainResolve` and `DrainTimeout` are the one
drain a pod makes at shutdown. `enqueued`, `finished`, `drainGoal` and
`evictedBusy` are history.

`KeyedFifo` is the promise the engine relies on: a line per key, its head in
service until completed, void once `broken`. The refinement mapping puts the
running item in front of the key's backlog and takes `evictedBusy` for `broken`,
so that the eviction of a busy key is shown to be the only step of the queue that
breaks the promise.

### Breaker

`state`, `failures` and `age` (`Date.now() - openedAt`, up to the duration it is
compared with) are the breaker's entry. `working` holds the callers between
`isOpen` and the recorded outcome. `streak` and `rest` judge the entry without
reading it: failures recorded in a row, and time since a failure opened the
breaker.

### SyncEngine

One binding, its issues as versions: `remote[o]` is GitLab's `updated_at`,
`mirror[o]` the version shown in Huly. An event is an issue version and where it
comes from, since a webhook and a sweep give one change two event ids and every
sweep gives it the same one. `call[c]` is an `enqueueWebhookEvent` between two
awaits, for each concurrent webhook request and for the sweep's loop; `line[o]`
and `phase[o]` are the queue (as `KeyedFifo`: the head is in dispatch) and the
position of `dispatch`; `tick`, `sweep` and `waiting` are `processBinding`, the
backfill entry in dispatch and those queued behind it. `resolveSince` reads the
cursor of issues in `TickRead` and that of notes in `TickEnqueue` (`Since`, the
minimum of those that exist); `NotesCursorSet` is the manager of notes setting its
own to any time so far. `Crash` forgets all of
that and keeps `dedup`, `inflight`, `stale` and the cursors. `lost` is history: the
events whose apply threw, that were dropped at an open breaker, that a crash
found listed and without a row, or whose row was too old when `start()` came.
So is `blind`: the latest notes cursor at which a sweep started because issues had
no cursor yet.

Abstractions: every edit changes a mirrored field, so taking a version and
bumping `modifiedOn` are one thing; the status of the issue is always mapped;
the Huly document, the id map and the cursor are written in one step (`Issues`
takes them apart); the breaker is that of `Breaker` without its clock
(`BreakerAges` may happen at any time); dedup marks do not expire (they live 7
days) and MongoDB calls do not fail; a listing fits in one page.

`Fields` and `Readable` keep the one thing about records that matters: a listed
record is the adapter's `SyncIssue`, a webhook's record is the raw payload,
which has no `milestone` at its top level, and `applyRemote` dereferences it.

### Issues

Both directions for one binding. An issue is a value and a time on each side;
`idmap` says which is which. `remote[i]` and `local[d]` are `applyRemote` and
`applyLocal` between two awaits: lookup, read of the Huly document, decision,
write, mapping, cursor. The engine gives the two different keys, so they
interleave. The subscriber is `OnTx`: its filter, the `buffer` before the engine
has started with its limit, `line[d]` after. `MarkEngineStarted` hands the buffer on,
each document's changes (`ChangesOf`) in their order. Times are compared as in
`conflict.ts`: a record-level last write wins on `updated_at` and `modifiedOn`.
People edit both sides, touch what is not mirrored, and remove documents. A change
in Huly may come without the title (`titled`), and then creates nothing
(`issues.ts:454-457`).
`Resolved` says whether the service account's `PersonId` was found, which decides
whether the filter on `modifiedBy` helps; the run takes the worse case. The content
of an issue is one field, and webhooks change nothing (see `SyncEngine`).

`LocalDropped`, `LocalThrows`, `RemoteDropped` and `RemoteThrows` are the engine's two
failures in each direction, the last also `applyRemote`'s return when no status of
the project fits. `undone` holds the GitLab issues whose present version was lost,
to a failure or to a cursor set past it, until the issue changes again at GitLab;
`unsent` the documents one of whose changes was lost, to the full buffer, a crash, a
failure or the missing title, until GitLab writes the document. `applyLocal` sets the
cursor to the pod's clock, which may be past what GitLab has dated.

### Notes

The comments of a merge request, plain ones and those on a line, each in a
discussion (`In`), as messages of two kinds (`msg`, `rev`), and the binding's one
`notes` cursor, which serves as the local time of every update and, with that of
issues, as the sweep's `since`. `mapped` may
become true late: the first attempt re-enqueues the note (`deferred-parent.ts`),
the second drops it. A sweep lists notes one by one and, with `listDiscussions`, every
discussion, those of a single note and without a position included: so each note,
plain or on a line, gets a message as a note and another as a member of its
discussion. A webhook's note becomes one or the other, by its position. `work` is
`applyRemote` of a note between its awaits; the loop of the review manager over a
discussion's notes is one step that may stop after any of them, by an exception
(`ReviewThrows`) or a crash (`CrashInReview`). `torn` counts, by kind and note, the
messages left without a mapping; `excuse` holds the notes, review messages and
discussion states that miss GitLab's present one, by the step after which nothing
brings it. Nothing flows from Huly to GitLab: the transactions that reach the
two `applyLocal` carry none of the hints without which both return at once.

### MergeRequests

A merge request and the epic it may become a child of. `since` is the cursor of
the *other* kinds, issues and notes, from which their sweep starts (`resolveSince`). `work` is
`applyRemote` between its awaits: creation of the mirror, mapping, read, write, and
for the epic the links of its children. A child's number is that of an *issue* at
GitLab (`listEpicIssues`), but `epics.ts:195-210` looks for a merge request of that
number first and for an issue second (`Child`). A local change
of a mirror is classified as an issue's, and `applyLocal` of the issue manager
uses the mapping whatever its kind; `overwrites` counts the GitLab issues changed
that way. `RemoteThrows` is an exception at any of the awaits: after `createDoc` it
leaves a mirror that nobody maps (`Torn`, counted in `spares`). `deferred` is the
version of the epic that last found its child nowhere; `excuse` names the items whose
present version was lost.

### ReviewData

Reviewers and approvers of one merge request through labels, the legacy mixin and
its two successors, with both migrations as they run between awaits, and the
approval calls made at GitLab with a person's token or the service's. The lookup
of the mixins (`readMRMixinAttributes`), which prefers the new ones as soon as one
exists, decides what the code compares with. The relabelling is four steps, one for
each await that others can get in between: labels and their people (some unknown to
Huly), the reviewers already in the mixin, the strip of the labels, the write of the
mixin; each migration may end with an exception at any of its calls. `OthersSet` moves
`since`, the minimum of the cursors of issues and notes, from which the sweep of merge
requests starts. `excused` holds the reviewers lost to a named cause, `lost` the
version whose apply failed, `undone` the one the split wrote over, `shifted` that the
mixins changed under a choice still queued.

### Bindings

The documents, the webhook secrets and GitLab's list of webhooks for a project,
and every admin route as a request between awaits; failures are those the
adapter's error classes tell apart (`rejected`, `denied`, `down`). A delivery reads
the binding and the secret in two steps; `paused` and `current` in it are history:
whether the binding was paused, and its signature valid, all the while.
Ids of webhooks and secrets are reused once nobody refers to them.

### Credentials

Both authorization flows, pasted tokens, unlinking, and `refresh()` rounds as
loops over the documents listed at their start, first the workspace's, then
the users'. `live[c]` is what GitLab accepts: one use each. `excuse` collects the
credentials a fault outside the code has touched, and `slow` that a round outlived
a tick. Tokens are numbers, reused once forgotten.

### Loader

`getOrCreateWorkspaceEntry` and the load around it between awaits, for concurrent
loads of one workspace; the registry of bindings and base URLs they fill, from
which `prefixGitlabIdForMultiInstance` and the subscriber's `resolveBinding` read; the
subscriber's creation and end through the loader's hooks; `Shutdown` and `close()`
as in `index.ts`. An expired entry takes a lookup, the hook, the deletion and the
close, with awaits in between (`Lookup`, `Delete`, `CloseOld`, `CloseOldFails`): the
first two awaits are of promises that are settled already, so only the lookups of
other loads come between them, which may find the entry too and close it a second
time. `close()` waits for nobody: it takes the entries one by one (`CloseBegins`,
`CloseAgain`, `CloseReturns`), clears the map (`CloseEnds`), and whoever is loading
meanwhile or afterwards, for an admin route or a late webhook, connects all the same.
`abandoned` holds the clients without an entry that nobody will close, `late` says
that a load connected after `close()` had begun. What a load is for is a write under
an id map key: `rows` keeps the keys under which one object was mirrored, across
restarts. `OnTx` is the subscriber's listener as far as it depends on the loader: it
buffers or not. The change of *any* tracker issue of the workspace reaches it, and
which binding it goes to has no invariant worth the name (section 3, item 12).

## 3. What is checked

| Run | Instance | Shows |
|---|---|---|
| `queue` | 3 keys, limit 2, 4 items | the queue implements `KeyedFifo`, liveness included, until a busy key is evicted; no stranded backlog; `isIdle` and `drainAll` are right until then; a drain ends |
| `breaker` | 2 bindings, 3 callers, threshold 3 | off duty exactly on a streak; rest after an opening; an open breaker is eventually probed or closed |
| `engine_custody` | 1 issue, 2 requests, 2 versions, 2 deliveries, 1 crash, 1 stale row, threshold 1, a sweep behind a sweep | every event in hand has its row; nothing is dispatched twice |
| `engine_recovery` | 2 issues, 2 versions, 1 move of the notes cursor, 1 failure, 1 crash, threshold 1 | no row is left in the end; the cursor covers what is not listed again, and Huly shows the last versions, but for what was lost to a named cause or is older than a start at the notes cursor alone |
| `engine_hook` | 1 issue, 1 webhook | violation: an issue webhook is never applied |
| `issues` | 3 documents, 2 GitLab issues, 2 edits, 1 touch, 1 trouble, buffer of 1, account unresolved | at most one call to GitLab per change in Huly; strays only from races with the id map or losses of their own; agreement in the end, issue by issue |
| `notes` | 2 plain and 2 line notes in 2 discussions, 3 events, failures included | one message per note and kind but for failures before the mapping; a message goes back only after the cursor did; agreement in the end, item by item |
| `mergerequests` | 1 merge request, 1 epic, 4 edits, 1 trouble | one mirror each but for failures before the mapping; GitLab issues overwritten no more often than explained; a child put off is linked by a newer version only; mirrors and parent link agree in the end |
| `reviewdata` | 2 people, 1 token, 4 events | no reviewer lost, nobody's approval changed, without a named cause; the core mixin becomes current |
| `bindings` | 1 binding, 2 requests, 1 delivery, 1 fault, 1 overlap | unknown webhooks are accounted for; what an undisturbed request records delivers; deletions last; pauses and rotations hold for deliveries |
| `credentials` | 1 user's and 1 workspace's credential, 2 callbacks of 1 flow, 1 round at a time, 1 trouble | the stored token stays good unless excused; lapses are bounded; deletions last; what is due is settled |
| `loader` | 1 project, 2 instances, 2 loads, 2 bindings one after the other, 1 abandoned client, 1 crash | the subscriber listens on a connected client and does not buffer for ever; clients leak only to a named cause, also over and after a shutdown; keys unique where promised |

Bounds. Three keys over a limit of two is the smallest queue that evicts, and a
fourth item lets an evicted key come back and collide. Three callers let one be
late while two trip the breaker. In the engine two requests race for one event,
two versions of an issue can overtake each other, and threshold 1 lets one
failure open the breaker, so that drops meet crashes. One crash is enough: the
state after a restart differs from the initial one only in the store.
`MaxWaiting` bounds the backfill entries behind a running sweep; with 0 the
tick's continuation is simply late. `MaxNotes` bounds how often the notes cursor
moves: once suffices for a sweep that starts at it for want of one of issues, and
with 0 the run is about webhooks and rows. In `Issues` two edits are a conflict, the
second issue and the further documents are the strays that a race or a failure
creates, and a buffer of one is
full at once. `MaxTroubles` is one failure, crash or foreign move of a cursor: the
histories charge each loss to the item it hits, so that a second one adds items, not
kinds. Three events on notes are the creation, the edit that overtakes it
and the note whose time hides it, or a failure in the place of one; four edits in
`MergeRequests` are creation and
change on both sides of the link; four events in `ReviewData` let both migrations, a
failure and a choice or a sweep meet. In `Loader` two loads are the race for the
cache, one project bound to two instances in turn has keys to confuse, and one
abandoned client (`MaxLeaks`) is a leak that later loads can add nothing to. One binding suffices for `Bindings`, because two
bindings share nothing but GitLab's list of webhooks, in which each looks only for
its own id. In `Credentials` two documents are stored at once (`MaxStored`), a user's and the
workspace's, so that one round meets both and a failure at the first must not keep the
second waiting; the run has one round at a time, and rounds that overlap are covered by
the theorems only, for any number of them. `Horizon < Period` as in the code (5 and 30
minutes), in ticks. `MaxHooks`, `MaxSecrets`, `MaxToken`, `MaxStored` bound what is
remembered at once, not what ever happens.

The runs are kept to the properties that take several steps to violate. Each
module's `TypeOK` documents the shape of its state; together with the agreement of
the LRU order with the map (`LruMatchesQueues`) and of the breaker's fields
(`EntryConsistent`) it is left to the proofs where a module has one.

Symmetry (slots in `engine_custody`, loads in `loader`) is used only in runs
without liveness. Deadlock is checked in the engine and breaker runs; in the
others people run out of edits by the bounds and the system then rests.

Fairness. A processor call settles and a resolved promise continues (weak
fairness of the `Finish` actions, `DrainResolve`, the steps of a call, of a
dispatch, of a sweep, of `start()`, of a refresh round and of a callback), and
time passes (`Tick`, `BreakerAges`). The scheduler's timer fires every five
minutes for as long as the pod lives, but may find the breaker open every time it
would have been served in between: asking (`Admit`, `TickRead`) is strongly fair.
The managers' modules ask for less, weak fairness of `Work`, their pod's steps
taken together: as long as there is something to do, something is done. Edits,
deliveries, faults, crashes, removals, admin requests, enqueues and the drain
timer are never promised.

### Where the code and its promises part

Found as a violation (`engine_hook`): the issue webhook's payload is not what
`applyRemote` reads, so no issue webhook is ever applied, whatever the README says
of real-time updates; sweeps do the work.

Found while making the properties true; each is a history variable or a disjunct
of the property that would fail without it:

1. `queue.ts` evicts the least recently used key also while its item is in the
   processor: "Same key → sequential processing" fails, its backlog is dropped
   and `drainAll` does not wait for it (`evictedBusy`).
2. `recordSuccess` closes an open breaker, although the state machine in its
   comment goes through half-open; `isOpen` admits every caller while half-open,
   and the scheduler records a success for merely having enqueued a sweep.
3. An event is marked seen before it is applied, and the mark stays when the
   apply throws, is dropped at an open breaker, or the pod dies before the row is
   written; the sweeps make the same event id and are deduplicated
   (`SyncEngine.lost`). `resolveSince` takes the minimum of the cursors that exist
   "so no resource type is starved" (`backfill.ts:138-139`): with a notes cursor and none
   of issues the sweep starts at the notes cursor, and older issues are not listed
   (`blind`) until a cursor of issues older than them is set, which nothing promises.
   Nothing else is hidden by the cursor.
4. The cursor of issues is set, not advanced, by each event, and `applyLocal` sets
   it to the pod's clock, past changes not yet listed (`Issues.undone`). The README of
   the service says that polling "ensures eventual consistency"; a local change that
   throws or is dropped is gone, because local events have neither row nor retry
   (`Issues.unsent`).
5. The copy of an issue is created before its mapping: who looks in between
   creates a second one (`races`), and an exception in between leaves a copy without
   a partner (`unsent`). A change in Huly of something that is not
   mirrored makes GitLab's newer version look old.
6. Notes share one cursor: a note of an older time moves it back and lets an older
   webhook win over a newer message, a newer one hides the edits of others
   (`rewound`, `Notes.excuse`). A note whose parent stays unmapped for two
   attempts is gone. Every discussion is listed, so a plain note of a merge
   request shows twice in Huly: as a note and as a review thread of one
   (`gitlab-client.ts:503-527`, `mr-review.ts:212-255`).
7. Merge requests and epics are listed since the cursors of issues and notes. A
   change of a mirror in Huly updates the GitLab issue with the mirror's iid.
   `epics.ts:167` updates the epic's own mirror without the marker (`unmarked`).
8. `epics.ts:28-29` and `229-230` expect that the "next backfill cycle will re-apply
   the epic and pick up children that have arrived". The sweep's event carries the
   dedup key of the version (`epics.ts:277`) and is dropped; the child is linked by a
   newer version of the epic or never (`LinkedByNewVersion` says so as a theorem).
   Children are numbered as issues, and a merge request with that number gets the
   link if there is one.
9. The split drops the legacy reviewers when an epic has already created review
   data, and overwrites the core a queued event wrote meanwhile; pausing does not
   stop what is queued, and `backfillInFlight` is set by nobody. Relabelling
   removes the labels before it writes the mixin, those of people unknown to Huly too
   (as the runbook says); after the split it writes the legacy mixin, which no reader
   looks at any more. Approvals are compared with a
   list read later (`excused`, `undone`, `shifted`).
10. A webhook exists before its id is stored; two requests on one binding overwrite
   each other's ids (`overlaps`). A rotation that fails half way leaves a document that
   names a dead webhook. The errors of a refused re-registration do not
   all take the path its comment describes.
11. Two overlapping refresh rounds present the same one-time token and the second
   marks a healthy credential as expired; a user who links again keeps that mark,
   because `putUserCredential` does not clear it, and is not refreshed.
12. Whether an id is prefixed with its instance depends on the base URLs this
   process has loaded: after a restart an object may get a second key, or share
   another instance's (`KeysIdentify` states what is
   left of the "no-op" in `multi-instance.ts`). Bindings are never removed from
   the registry, and `resolveBinding` (`tx-subscription.ts:313-331`) asks only how many
   there are: with one, the change of any tracker issue of the workspace goes to it,
   whatever its project; with more, to none. A slow load of a deleted binding can
   overwrite its successor's entry.
13. Two loads that connect at once leave a client nobody closes, and so does a close
   that throws (`abandoned`); an expired entry is closed under the loads that use it.
   `close()` does not wait for loads, and the HTTP server closes after it
   (`index.ts:226-235`): a load of a migration route or of a late webhook connects
   and subscribes after it (`late`).

## 4. What is proved

Every invariant and every action property that a run checks is a theorem too.
Everything in this section holds for any number of keys, issues, notes, bindings,
credentials, requests, faults and crashes, under the named assumptions of the
modules. These are of two kinds. `MaxKeysAssumption`, `BreakerAssumption`,
`EngineAssumption`, `LoaderAssumption`, `BindingsAssumption`,
`CredentialsAssumption`, `IssuesAssumption`, `NotesAssumption`,
`MergeRequestsAssumption` and `ReviewDataAssumption` say that limits are natural or
positive numbers, and what the code's constants satisfy: a horizon within the
refresh period and shorter than a token's life, finite sets of loads, notes and
people, a comment that is either plain or on a line.
The `NoneAssumption`s say that `None` is none of the values it stands beside, as
`undefined` is not a document. TLC evaluates all of them on every run.

Each `_proofs` module defines its inductive invariant at its head, in named parts;
TLC has checked these parts on the instances of section 3. Then
come the lemmas about the operators, a lemma for each action or group of actions,
and the theorems.

**`Runtime_proofs`** holds three components that share no state, one after another.

*Queue* — `QueueTypeCorrect`, `Serialization`, `BacklogDriven`,
`IdleTruthful`, `LruBound`: serialization needs that a raised flag is exactly a
suspended run while no busy key was evicted; the backlog needs that it is never
left without a run even after one was; both need the agreement of the LRU order
with the map. `DrainSound` adds that, until then, every unfinished item is in its
key's backlog or running (`NoneLost`) and that the keys a drain waits for cover
its goal (`DrainCovers`). `QueueIsKeyedFifo` is the safety of the refinement: the
initial state maps to `KeyedFifo`'s, an enqueue to `Submit` or, when it evicts a
busy key, to `Break`, the end of a run to `Complete`, the drain to a stutter.

*Breaker* — `BreakerTypeCorrect`, `TripsExactly`, `Consistency`, `Rest`. The
strengthening ties the history to the entry: `failures` equals `streak` while
closed, `rest` equals `age` while off duty.

*Loader* — `TypesHold`, `SubscriberAlwaysListens`, `OnlyNamedLeaks`,
`KeysStandForObjects`. `ClientsKept` adds to the first two who holds each client: the
cache, a load or `close()` about to close it, or nobody, and then it is in `abandoned`;
`KeysExplained` that a
prefix shows two URLs were met and that, until a restart, all bare keys are of one
instance. The last theorem has two parts: within one process a key stands for one
object; across restarts only an object has one key, and only while one base URL was
ever registered.

**`SyncEngine_proofs`** — `TypeCorrect`, `Deduplication`, `CrashCustody`,
`CursorNeverHides`. The first invariant says where an event may be:
everything past the insert is marked in `dedup` (so that the winner of the insert
is the event's only holder), a line holds distinct events of its own issue, what
`start()` has listed still has its row and is in no line, and nothing else runs
until `start()` is through. The second, `Cover`, is about the cursor. A *point* is
the cursor, the value a tick or a backfill entry has read of it, and the version of
every polled event on its way, which may become the cursor; `PointsSafe` says that
everything older than a point is mirrored, on its way, lost, or older than `blind`,
the start that a sweep took from the notes cursor alone. It survives an edit
because a new version is newer than every point, a listing because everything
not older than the point it used is put on its way, and an apply because the cursor
moves to a point. That a deduplicated event is not a loss is `MarksKept`: a marked
version has reached Huly, is lost, or is in somebody's hands past the mark.

**`Bindings_proofs`** — `TypesHold`, `RegisteredAlwaysNamesAHook`,
`RecordedWebhooksDeliver`, `RefusesWhenDue`, `DeletedStaysDeleted`,
`OrphansAlwaysExcused`. The core of the invariant says what a request between two
awaits still knows: what it has in hand at each step, that a document it works on
has been born, and that a document that is gone has no secret (`Lives`); that the
webhooks remembered by documents and requests are their own binding's (`Owned`);
that a secret not stored yet is nobody else's (`Private`); and that, until requests
overlap, the one under way sends the stored secret (`Alone`). `Refusable` keeps for
a delivery what will make the route refuse it. The orphans need a counting
argument on top (`Budget`): a request may leave one webhook behind and is paid for
by an overlap when it begins beside another; the first to end after a quiet moment
is free, because it is still `Clean`: nobody has given its binding another webhook.

**`Credentials_proofs`** — `TypesHold`, `TokensKept`, `LapsesBounded`,
`UnlinkedStaysUnlinked`. Custody of the one-time tokens: what a callback is about to
store is good and known to nobody else (`TokenPrivate`, `CallsGood`), what a round
has listed is good or its successor is in that round's hand (`ListedGood`,
`AnswersGood`), and so is the row's (`RowsGood`), for every credential without an
excuse; two rounds that have listed the same credential are an excuse (`ListsOK`).
The bound on lapses needs that a row is within the horizon less the time since the
last tick, or a round is about to refresh it (`InTime`).

**`Issues_proofs`** — `TypesHold`, `ClockNeverBinds`, `NoEchoStormHolds`,
`StraysAreExcusedHolds`. Two counts, and what makes them add up.

- The calls to GitLab. A change made in Huly carries the time it was made, so the
  changes in flight, in the buffer, in a line or in a call, are a set of times.
  `OnceEach` says that none is there twice: a line is ascending, a change being sent
  has left its line, and two documents share none. `CallBudget` then says that calls
  made and changes in flight together are no more than the changes people made;
  `ColdStart` that the flush of the buffer finds the lines empty. With `EditBudget`
  the clock of the model cannot reach its bound (`ClockNeverBinds`), so its guard
  takes no behaviour away. A dropped or throwing event only makes the flight smaller.
- The strays. `RemoteAgrees`, `LocalAgrees`, `NoIidYet` and `NoDocYet` say what a job
  between two awaits knows, and that nothing refers to an issue that does not exist
  yet. A job that will write a mapping has a *claim* on it, and so has whoever wrote
  it. `FewClaims`: never more than two claim one document, or one GitLab issue. Two
  that do are a *conflict*; an issue without a partner that nothing in progress will
  give one is *loose*. `RaceBudget`: conflicts and loose issues are together no more
  than `races`. The step that finds no mapping although a copy exists makes one
  conflict and counts one race; the step that ends a conflict leaves at most one
  issue loose; a step that loses a change or a version puts what it leaves without a
  partner into `unsent` or `undone`, which loose issues are not in; no other step makes
  either. The strays of the property outside these two sets are loose.

What the flush does to each line is the one place with an induction over data: the
changes taken from the buffer up to a position, by the least position at which the
claim would fail (`WFMin` of the library), because its induction rules need
an operator as a parameter.

**`Notes_proofs`** — `TypesHold`, `MirroredOnceHolds`, `NoSpontaneousReversalHolds`.
Messages created are charged, for each kind and note, to the note's mapping, to a
creation that is not mapped yet, or to a crash or exception that came before the
mapping (`CopiesCharged`); that
a note with a mapping is not created again needs the order of lookup, creation and
mapping (`WorkAgrees`), and that an event carries what its kind says
(`EventsWellFormed`, `GitlabWritten`, `RevWritten`). For the second, until the cursor
has gone back it is at or past every message that no update in progress is about to
account for (`CursorCovers`), so that an update that is newer than the cursor is newer
than the message.

**`MergeRequests_proofs`** — `TypesHold`, `EchoesNeverReachGitlab`, `OneMirrorEach`,
`ChildrenWaitForNewVersion`:
two budgets, over the local changes still in line (`EchoBudget`) and over mirrors
created and not yet mapped, or left so by a crash, an exception or a local event
(`CopyBudget`). The last is about versions: every version of the epic that is queued or
in work is newer than the one that put the child off (`EpicInOrder`), because a sweep
brings each version once.

**`ReviewData_proofs`** — `TypesHold`, `ReviewersAlwaysKept`, `ApprovalsInTheirName`.
Review data that the split found missing stays empty until the split writes it, and
then holds the reviewers it read (`SplitCopies`); what the relabelling is about to
write contains the people it has looked up (`RelabelKeeps`), so that a strip loses only
the unknown ones. Every choice in line, and every
approval call still to make, differs from what readers find only in people who
asked, until the mixins shift under them (`ChoicesAsked`, `CallsAsked`).

Stated by no run, because a theorem says more than a run would: the types,
`LruBound`, `Consistency` and `ClockNeverBinds`.

Only model-checked: liveness, that is `DrainEnds`, `EventuallyProbed`,
`RowsAreReleased`, `DueIsSettled`, the convergence properties, and the fairness part of
`ImplementsKeyedFifo`. They depend on fairness and on when a step is enabled, which
the backends of TLAPS do not reason about.

## 5. What is left out

Left out, with the reason:

- markdown conversion (text), logging, metrics, configuration and health (I/O),
  encryption, signatures and cookie parsing (secrets do not change in a run);
- the attachment mirror: the managers look for it in their own deps, where
  `index.ts` puts nothing, so no code path reaches it;
- the pipeline manager: its backfill is a no-op and its `applyRemote` returns for
  every webhook for want of `mergeRequestIid`; `applyLocal` of notes and review
  threads, which no transaction reaches with the hints it needs;
- iterations, read only by `getMergeRequest`, which no sweep calls, and
  suggestions;
- the adapter's back-off after a 429, its GraphQL calls and conversions. Listings
  take one page of 100 (`gitlab-client.ts:1250`): a sweep that finds more leaves
  the rest to the next one, which the models do not reach with their small sets;
- label, milestone and user caches: what a name stands for is fixed;
- the rate limiter of the routes, the batches of 16 bindings in the scheduler
  (bindings do not share state there), the 7-day expiry of dedup marks.

What the proofs leave: liveness, for which a prover with `ENABLED` and the temporal
rules for fairness would start from the invariants above, and, as in every proof
about a model, the steps from the source to the modules, for which `PROJECT.json`
names the lines.
