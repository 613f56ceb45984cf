------------------------------- MODULE Loader -------------------------------
(***************************************************************************)
(* BindingLoader (src/src/sync/binding-loader.ts) for one workspace, and   *)
(* the life of its TxSubscriber, which src/src/index.ts starts and stops   *)
(* from the loader's hooks and at the pod's shutdown.                      *)
(*                                                                         *)
(* Every dispatch begins with a load, and loads run concurrently.  A step  *)
(* is the code between two awaits; the awaits that only fetch what nobody  *)
(* else changes (the credential's capabilities, the tracker project) are   *)
(* joined to their neighbours.  Between the eviction hook and the deletion *)
(* of the entry lie two awaits of promises that are settled already, so    *)
(* only other loads' lookups may come in between, not an answer from       *)
(* outside.  What a load is for is writing to Huly under an id map key;    *)
(* the id map is that of one object, in the project Watched.               *)
(* loadForPipelines differs in skipping some of the fetches and in taking  *)
(* the default URL for a credential that is gone, which is left out.       *)
(***************************************************************************)
EXTENDS Integers, FiniteSets

CONSTANTS
  Projects,       \* numeric ids of GitLab projects
  Instances,      \* GitLab base URLs
  Watched,        \* the project whose object is followed into the id map
  Jobs,           \* loads that may run at once
  MaxBindings,    \* bound: bindings ever created
  MaxLeaks,       \* bound: clients left open without a cache entry
  MaxCrashes,     \* bound: ends of the process, each with a restart
  BUFFER_MAX,     \* entries of the cold-start buffer
  Raw,            \* stands for the missing prefix of a single-instance key
  None

ASSUME LoaderAssumption ==
  /\ {MaxBindings, BUFFER_MAX} \subseteq Nat \ {0}
  /\ {MaxLeaks, MaxCrashes} \subseteq Nat
  /\ Watched \in Projects
  /\ IsFiniteSet(Jobs)
  /\ Raw \notin Instances

VARIABLES
  bound,      \* the bindings collection: the binding of each project
  rows,       \* the id map: key prefix, and whose object is shown under it
  urls,       \* workspaceBaseUrls
  registry,   \* bindingsByProject with its meta: key -> binding and base URL
  cache,      \* workspaceCache: the client, and whether it is not yet expired
  open,       \* platform clients that are connected
  sub,        \* txSubscribers: the client it listens on, and engineStarted
  held,       \* changes in the subscriber's buffer
  load,       \* the loads in progress
  pod,        \* "starting", "up", "draining", "closing" or "closed"
  closing,    \* the client that close() is closing, or None
  created, crashes,
  everUrls,   \* history: base URLs any process has registered
  abandoned,  \* history: connected clients whose cache entry another load
              \* overwrote or close() cleared away without having visited it,
              \* or whose closePlatformClient threw
  late        \* history: a load connected after close() had begun

memory == <<urls, registry, cache, open, sub, held, load, pod, closing>>
leaks == <<abandoned, late>>
history == <<everUrls, leaks>>
bounds == <<created, crashes>>
loaderVars == <<bound, rows, memory, bounds, history>>

Clients == 1..(MaxLeaks + Cardinality(Jobs) + 3)
Binding == [proj : Projects, inst : Instances]
Key == [url : Instances \cup {Raw}, proj : Projects]
Entry == [client : Clients, fresh : BOOLEAN]
Subscriber == [client : Clients, started : BOOLEAN]
Load == [at : {"credential", "evict", "close", "create", "ready"}, binding : Binding,
         multi : BOOLEAN, client : Clients \cup {None}]

ASSUME NoneAssumption ==
  None \notin Clients \cup Binding \cup Entry \cup Subscriber \cup Load

LoaderTypeOK ==
  /\ bound \in [Projects -> Binding \cup {None}]
  /\ rows \subseteq [url : Instances \cup {Raw}, of : Instances]
  /\ urls \subseteq Instances
  /\ registry \subseteq [key : Key, binding : Binding]
  /\ cache \in Entry \cup {None}
  /\ open \subseteq Clients
  /\ sub \in Subscriber \cup {None}
  /\ held \in 0..BUFFER_MAX
  /\ load \in [Jobs -> Load \cup {None}]
  /\ pod \in {"starting", "up", "draining", "closing", "closed"}
  /\ closing \in Clients \cup {None}
  /\ created \in 0..MaxBindings
  /\ crashes \in 0..MaxCrashes
  /\ everUrls \subseteq Instances
  /\ abandoned \subseteq Clients
  /\ late \in BOOLEAN

Forgotten ==
  /\ urls' = {} /\ registry' = {} /\ cache' = None /\ open' = {}
  /\ sub' = None /\ held' = 0
  /\ load' = [j \in Jobs |-> None]
  /\ pod' = "starting" /\ closing' = None
  /\ abandoned' = {} /\ late' = FALSE

LoaderInit ==
  /\ bound = [p \in Projects |-> None]
  /\ rows = {}
  /\ urls = {} /\ registry = {} /\ cache = None /\ open = {}
  /\ sub = None /\ held = 0
  /\ load = [j \in Jobs |-> None]
  /\ pod = "starting" /\ closing = None
  /\ created = 0 /\ crashes = 0
  /\ everUrls = {} /\ abandoned = {} /\ late = FALSE

-----------------------------------------------------------------------------
(* Mutants: the set of URLs is replaced instead of extended; the eviction  *)
(* does not tell the subscriber; the expired client is not closed; a       *)
(* subscriber that starts late is not told that the engine runs.           *)

RegisterBaseUrl_Replaces(u) == {u}

Evicted_NoHook == sub

ClosedWith_Not(c) == open

EngineRuns_No == FALSE

-----------------------------------------------------------------------------
(* Bindings, keys and the registry. *)

(* ">= 2 distinct gitlabBaseUrl values" that this process has met. *)
IsMultiInstance(u) == Cardinality(u) >= 2

RegisterBaseUrl(u) == urls \cup {u}

(* prefixGitlabIdForMultiInstance, and bindingsByProjectKey for the registry. *)
ProjectKey(multi, b) ==
  [url |-> IF multi THEN b.inst ELSE Raw, proj |-> b.proj]

(* registerBinding: once the workspace is multi-instance all older entries *)
(* get the prefix of their own URL; an entry under the same key goes.      *)
Registered(b, multi) ==
  LET rekeyed == IF multi
                 THEN {[e EXCEPT !.key = ProjectKey(TRUE, e.binding)] : e \in registry}
                 ELSE registry
      key     == ProjectKey(multi, b)
  IN  {e \in rekeyed : e.key # key} \cup {[key |-> key, binding |-> b]}

(* The admin API: the unique index allows one binding per project, and a   *)
(* deletion touches neither the id map nor the loader.                     *)
Bind(p, i) ==
  /\ pod # "starting"
  /\ bound[p] = None
  /\ created < MaxBindings
  /\ created' = created + 1
  /\ bound' = [bound EXCEPT ![p] = [proj |-> p, inst |-> i]]
  /\ UNCHANGED <<rows, memory, crashes, history>>

Unbind(p) ==
  /\ pod # "starting"
  /\ bound[p] # None
  /\ bound' = [bound EXCEPT ![p] = None]
  /\ UNCHANGED <<rows, memory, bounds, history>>

-----------------------------------------------------------------------------
(* The subscriber. *)

EngineRuns == pod # "starting"

(* startTxSubscriberForWorkspace: one that exists already stays as it is.  *)
StartSubscriber(c) ==
  IF sub = None THEN [client |-> c, started |-> EngineRuns] ELSE sub

(* stopTxSubscriberForWorkspace. *)
StopSubscriber(s) == None

HasRoom == held < BUFFER_MAX

(* Somebody changes a document of a tracker project, bound or not.  The    *)
(* subscriber hears of it while it listens on a connected client;          *)
(* resolveBinding hands it to the only registered binding, whatever        *)
(* project the document is of, and drops it if there is not exactly one.   *)
OnTx ==
  /\ sub # None
  /\ sub.client \in open
  /\ Cardinality(registry) = 1
  /\ ~sub.started /\ HasRoom
  /\ held' = held + 1
  /\ UNCHANGED <<bound, rows, urls, registry, cache, open, sub, load, pod, closing,
                 bounds, history>>

(* start() has resolved: subscribers are told, and empty their buffers. *)
EngineStarted ==
  /\ pod = "starting"
  /\ pod' = "up"
  /\ sub' = IF sub = None THEN None ELSE [sub EXCEPT !.started = TRUE]
  /\ held' = 0
  /\ UNCHANGED <<bound, rows, urls, registry, cache, open, load, closing,
                 bounds, history>>

-----------------------------------------------------------------------------
(* A load. *)

(* resolveBinding.  A dispatch, or a migration route, which loads outside  *)
(* the queue; neither is refused while close() runs or after it.           *)
Begin(j, p) ==
  /\ load[j] = None
  /\ bound[p] # None
  /\ load' = [load EXCEPT ![j] = [at |-> "credential", binding |-> bound[p],
                                  multi |-> FALSE, client |-> None]]
  /\ UNCHANGED <<bound, rows, urls, registry, cache, open, sub, held, pod, closing,
                 bounds, history>>

Reusable(c) == c # None /\ c.fresh

(* What the eviction hook leaves of the subscriber. *)
Evicted == StopSubscriber(sub)

(* The credential is there: its URL and the binding are registered, and    *)
(* getOrCreateWorkspaceEntry looks at the cache.  For an expired entry it  *)
(* calls the eviction hook, which may have been called for it before.      *)
Resolve(j) ==
  LET b     == load[j].binding
      multi == IsMultiInstance(RegisterBaseUrl(b.inst))
  IN
  /\ load[j] # None
  /\ load[j].at = "credential"
  /\ urls' = RegisterBaseUrl(b.inst)
  /\ everUrls' = everUrls \cup {b.inst}
  /\ registry' = Registered(b, multi)
  /\ \/ /\ Reusable(cache)
        /\ load' = [load EXCEPT ![j].at = "ready", ![j].multi = multi,
                                ![j].client = cache.client]
        /\ UNCHANGED <<sub, held>>
     \/ /\ cache = None
        /\ load' = [load EXCEPT ![j].at = "create", ![j].multi = multi]
        /\ UNCHANGED <<sub, held>>
     \/ /\ cache # None
        /\ ~Reusable(cache)
        /\ load' = [load EXCEPT ![j].at = "evict", ![j].multi = multi,
                                ![j].client = cache.client]
        /\ sub' = Evicted
        /\ held' = 0
  /\ UNCHANGED <<bound, rows, cache, open, pod, closing, bounds, leaks>>

(* The awaits of the hook are over: the entry is deleted, by whoever comes *)
(* first, and closePlatformClient called.                                  *)
Delete(j) ==
  /\ load[j] # None
  /\ load[j].at = "evict"
  /\ cache' = None
  /\ load' = [load EXCEPT ![j].at = "close"]
  /\ UNCHANGED <<bound, rows, urls, registry, open, sub, held, pod, closing,
                 bounds, history>>

(* The credential is gone, or the platform cannot be reached: the load     *)
(* throws, after the eviction if there was one.                            *)
Throw(j) ==
  /\ load[j] # None
  /\ load[j].at \in {"credential", "create"}
  /\ load' = [load EXCEPT ![j] = None]
  /\ UNCHANGED <<bound, rows, urls, registry, cache, open, sub, held, pod, closing,
                 bounds, history>>

ClosedWith(c) == open \ {c}

(* closePlatformClient of the expired entry has returned. *)
CloseOld(j) ==
  /\ load[j] # None
  /\ load[j].at = "close"
  /\ open' = ClosedWith(load[j].client)
  /\ abandoned' = abandoned \ {load[j].client}
  /\ load' = [load EXCEPT ![j].at = "create", ![j].client = None]
  /\ UNCHANGED <<bound, rows, urls, registry, cache, sub, held, pod, closing,
                 bounds, everUrls, late>>

MayLeak == Cardinality(abandoned) < MaxLeaks

(* It threw: the load goes on, and the client stays connected. *)
CloseOldFails(j) ==
  /\ load[j] # None
  /\ load[j].at = "close"
  /\ load[j].client \in open
  /\ MayLeak
  /\ abandoned' = abandoned \cup {load[j].client}
  /\ load' = [load EXCEPT ![j].at = "create", ![j].client = None]
  /\ UNCHANGED <<bound, rows, urls, registry, cache, open, sub, held, pod, closing,
                 bounds, everUrls, late>>

InUse == {load[j].client : j \in {k \in Jobs : load[k] # None}}

(* Names for a new client: a name is used again once its client is closed  *)
(* and no load refers to it.                                               *)
Free == Clients \ (open \cup InUse \cup {closing})

(* createPlatformClient has connected: the entry is stored, whatever the   *)
(* cache holds by now, and onWorkspaceLoaded fires.                        *)
Create(j) ==
  /\ load[j] # None
  /\ load[j].at = "create"
  /\ \/ cache = None /\ UNCHANGED abandoned
     \/ /\ cache # None
        /\ MayLeak
        /\ abandoned' = abandoned \cup {cache.client}
  /\ \E c \in Free :
        /\ \A d \in Free : c <= d
        /\ open' = open \cup {c}
        /\ cache' = [client |-> c, fresh |-> TRUE]
        /\ sub' = StartSubscriber(c)
        /\ load' = [load EXCEPT ![j].at = "ready", ![j].client = c]
  /\ late' = (late \/ pod \in {"closing", "closed"})
  /\ UNCHANGED <<bound, rows, urls, registry, held, pod, closing, bounds,
                 everUrls>>

(* The manager writes to Huly under the key that its context makes. *)
Use(j) ==
  /\ load[j] # None
  /\ load[j].at = "ready"
  /\ load[j].client \in open
  /\ rows' = IF load[j].binding.proj # Watched THEN rows
             ELSE rows \cup {[url |-> ProjectKey(load[j].multi, load[j].binding).url,
                              of  |-> load[j].binding.inst]}
  /\ load' = [load EXCEPT ![j] = None]
  /\ UNCHANGED <<bound, urls, registry, cache, open, sub, held, pod, closing,
                 bounds, history>>

(* Another load has closed the client under this one: its calls throw. *)
UseFails(j) ==
  /\ load[j] # None
  /\ load[j].at = "ready"
  /\ load[j].client \notin open
  /\ load' = [load EXCEPT ![j] = None]
  /\ UNCHANGED <<bound, rows, urls, registry, cache, open, sub, held, pod, closing,
                 bounds, history>>

(* Thirty minutes after its creation the entry is no longer reused. *)
Expire ==
  /\ cache # None
  /\ cache.fresh
  /\ cache' = [cache EXCEPT !.fresh = FALSE]
  /\ UNCHANGED <<bound, rows, urls, registry, open, sub, held, load, pod, closing,
                 bounds, history>>

-----------------------------------------------------------------------------
(* Shutdown and crash. *)

(* SIGTERM: the subscribers stop, then the engine drains. *)
Shutdown ==
  /\ pod = "up"
  /\ pod' = "draining"
  /\ sub' = StopSubscriber(sub)
  /\ UNCHANGED <<bound, rows, urls, registry, cache, open, held, load, closing,
                 bounds, history>>

CloseHook == StopSubscriber(sub)

(* The drain is over: close() has the hook called for the cached entry,    *)
(* whether or not loads are still in progress.                             *)
CloseBegins ==
  /\ pod = "draining"
  /\ cache # None
  /\ pod' = "closing"
  /\ sub' = CloseHook
  /\ closing' = cache.client
  /\ held' = 0
  /\ UNCHANGED <<bound, rows, urls, registry, cache, open, load, bounds, history>>

(* closePlatformClient has returned or thrown, which close() catches. *)
CloseReturns ==
  \/ open' = open \ {closing}
  \/ MayLeak /\ UNCHANGED open

(* An entry that a load has put into the Map meanwhile is visited too if   *)
(* the Map appended it, after an eviction; one that replaced the old entry *)
(* is not.  Either may be the case here.                                   *)
CloseAgain ==
  /\ pod = "closing"
  /\ cache # None
  /\ cache.client # closing
  /\ CloseReturns
  /\ abandoned' = (abandoned \cup {closing}) \cap open'
  /\ sub' = CloseHook
  /\ closing' = cache.client
  /\ UNCHANGED <<bound, rows, urls, registry, cache, held, load, pod, bounds,
                 everUrls, late>>

(* The maps are cleared, and with them an entry that was not visited. *)
CloseEnds ==
  /\ pod = "closing"
  /\ pod' = "closed"
  /\ CloseReturns
  /\ abandoned' = (abandoned \cup {closing}
                     \cup (IF cache = None THEN {} ELSE {cache.client})) \cap open'
  /\ closing' = None
  /\ cache' = None
  /\ registry' = {}
  /\ UNCHANGED <<bound, rows, urls, sub, held, load, bounds, everUrls, late>>

(* Nothing is cached when the drain is over. *)
CloseNothing ==
  /\ pod = "draining"
  /\ cache = None
  /\ pod' = "closed"
  /\ registry' = {}
  /\ UNCHANGED <<bound, rows, urls, cache, open, sub, held, load, closing, bounds,
                 history>>

(* The process ends, by a crash, by a drain that times out (nobody catches *)
(* shutdown's rejection) or after the shutdown, and is started again.      *)
Crash ==
  /\ crashes < MaxCrashes
  /\ crashes' = crashes + 1
  /\ Forgotten
  /\ UNCHANGED <<bound, rows, created, everUrls>>

-----------------------------------------------------------------------------
(* What may come between the hook and the deletion of an entry. *)
Lookup(j) == Resolve(j) \/ Delete(j)

LoadStep(j) ==
  Throw(j) \/ CloseOld(j) \/ CloseOldFails(j) \/ Create(j) \/ Use(j) \/ UseFails(j)

Evicting == \E j \in Jobs : load[j] # None /\ load[j].at = "evict"

LoaderNext ==
  \/ \E j \in Jobs : Lookup(j)
  \/ /\ ~Evicting
     /\ \/ \E p \in Projects : Unbind(p) \/ \E i \in Instances : Bind(p, i)
        \/ \E j \in Jobs : LoadStep(j) \/ \E p \in Projects : Begin(j, p)
        \/ OnTx \/ EngineStarted \/ Expire \/ Shutdown
        \/ CloseBegins \/ CloseAgain \/ CloseEnds \/ CloseNothing \/ Crash

LoaderSpec == LoaderInit /\ [][LoaderNext]_loaderVars

-----------------------------------------------------------------------------
(* Properties. *)

(* Until the shutdown the cached client is connected, and whenever there   *)
(* is one the workspace's subscriber listens on a connected client too,    *)
(* not always the same: no order of expiries and concurrent loads leaves a *)
(* subscriber on a client that getOrCreateWorkspaceEntry has closed.  And  *)
(* it hands on what it hears: once the engine has started no subscriber    *)
(* goes on buffering, however its creation interleaves with start(), for   *)
(* nothing would empty its buffer.                                         *)
SubscriberListens ==
  /\ cache # None => cache.client \in open
  /\ sub # None => sub.client \in open
  /\ pod \in {"starting", "up"} /\ ~Evicting => (cache = None <=> sub = None)
  /\ pod # "starting" => held = 0 /\ (sub # None => sub.started)

(* Every connected client is cached or about to be closed, unless its      *)
(* entry was overwritten by a load that connected at the same time or      *)
(* cleared away by close() without a visit, or closing it threw.  And      *)
(* close() leaves no other, nor a subscriber, unless a load connected      *)
(* after close() had begun, which nothing prevents.                        *)
Closing ==
  {closing} \cup
  {load[j].client : j \in {k \in Jobs : load[k] # None /\ load[k].at \in {"evict", "close"}}}

LeaksAreExcused ==
  /\ open \subseteq Closing \cup abandoned
                    \cup (IF cache = None THEN {} ELSE {cache.client})
  /\ pod = "closed" /\ ~late => sub = None /\ open \subseteq Closing \cup abandoned

(* Keys stand for objects.  multi-instance.ts: in the single-instance case *)
(* the prefix is "a no-op", so as long as only one base URL was ever       *)
(* registered, restarts included, no object is mirrored under two keys.    *)
(* And the prefix keeps apart what two instances have under the same ids,  *)
(* also when a project is bound to another instance than before, until the *)
(* process that knew of both is gone.                                      *)
KeysIdentify ==
  /\ Cardinality(everUrls) < 2 => \A r, s \in rows : r.of = s.of => r = s
  /\ crashes = 0 => \A r, s \in rows : r.url = s.url => r.of = s.of
=============================================================================
