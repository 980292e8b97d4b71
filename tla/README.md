# Verification of smartmet-library-grid-content

This directory holds TLA+ specifications of the grid-content library, TLC
configurations that model-check them on small instances, and proofs that TLAPS
checks.  `PROJECT.json` lists the components, the runs, the source lines that every
definition models, the hazards of the code and the theorems.  Source paths below are
relative to `src/` of the repository unless they start with `docs/` or `test/`.

## 1. The system

The library implements three services and the support code around them.

| Part | State | Operations | Interaction |
|---|---|---|---|
| Content storage in Redis (`contentServer/redis`) | sorted sets `producers`, `generations`, `geometries`, `files`, `content`, `events`, the hash `filenames`, the id counters | add / set / delete / status change of every kind of record, batch registration of files with their content, clear, event queries | every modification appends an event; writers in different processes share one ticket lock |
| Writer lock (`RedisImplementation::lock` and `unlock`) | `lockRequestCounter`, `lockReleaseCounter`, `lockOwner`, the thread lock of the object | lock, unlock, register owner, owner liveness test, reset | used by every modifying call |
| Other content storages (`contentServer/postgresql`, `memory`, `corba`, `http`) | the same records in SQL tables or in lists, or none (clients) | the same interface | alternatives to Redis or proxies of a remote server |
| Content cache (`contentServer/cache`) | primary lists of producers, generations, geometries, files and contents, deletion marks, a search structure, the cursor `mLastProcessedEventId`, its own event list | reload, event handlers, compaction, search structure swap or update, queries | follows the events of the storage, re-reads records from it, passes the events on |
| Merge (`contentServer/merge`) | merged lists of several storages, id translations | the same event loop over several storages | as the cache |
| Data server (`dataServer/implementation`) | grid files open in `GridFileManager` with deletion and access times, local copies | file registration, event handlers, full update, deletion of marked files, copies, grid queries | follows the events of the content cache |
| Query server (`queryServer`) | producer, mapping and alias configuration; copies of the producers and the generations; lookup caches with generation counters | query parsing and execution, refresh of the copies | reads the cache and the data server |
| Sessions and users (`sessionManagement`, `userManagement`) | session list with access times; users, groups and rights read from files | create, look up, touch, expire; reload on file change | used by the servers' front ends |
| `lua` | a pool of Lua states per file, the functions found in it | function calls, reload of a file that has changed | called by queries |
| `functions` | function registry | parameter functions | used by the query server |

### The hard behaviours

* Writers of several processes and threads queue for one lock; holders crash, hang or
  are shut down while others wait.
* The cache sees the storage only through events that it applies later than they
  happened, reading the records as they are *then*; a reload overlaps with new events.
* A record lives in a primary list and in the search structure, is first marked as
  deleted and removed later, and can come back in between.
* Events are truncated, a clear restarts the ids, and file ids wrap around.
* A grid file comes into the data server from three sides (events, full updates,
  requests) and leaves it from four, some of them minutes later.
* A query reads copies that are replaced meanwhile, and caches what it has fetched
  under a label that it read before.
* Lua states are taken, given back and reloaded by threads that hold different locks.

### What makes each component correct

| Component | Properties |
|---|---|
| Writer lock | two writers never overlap; tickets are served in order; a holder that is alive keeps its lock; every waiter gets its turn |
| Storage | names are unique; the filename hash and the files agree; content, files, generations and geometries belong to each other; a new file id is not in use; every change is announced; the event log is a window of the newest events |
| Cache | when it has processed every event it holds the records of the storage; what it marks it counts; the queries come to be answered from what the storage has |
| Data server | grid files that do not agree with the content server go in the end; local copies in use are kept |
| Query server | a cached result is older than the state in its label only where the content server had no answer; the copies follow the content server; the cached generation lists follow the copies |
| Lua | a state is used by one call; a call that waits gets a state; after an update the states and the functions are those of the file, unless it has changed meanwhile or has been put back |
| Sessions, users | an expired session is not used; a reload replaces users, groups and rights together |

## 2. Modules

| Module | What it models | Source |
|---|---|---|
| `RedisLock` | the two lock modes: one action per Redis command of `lock()` and `unlock()`, crashes, shutdown | `contentServer/redis/RedisImplementation.cpp` 325-616 |
| `WriterQueue` | what the lock promises: writers are let in one at a time, in the order in which they asked, and all of them in the end; `RedisLock!ImplementsQueue` states that the lock implements it | the guard object `RedisProcessLock` |
| `RedisLockProofs` | type correctness and safety of the lock; the lock implements the queue | |
| `ContentStorage` | the tables, the hash, the counters and the event log; one action per modifying call | `RedisImplementation.cpp` |
| `ContentStorageProofs` | unique names and the filename hash; the records belong to each other | |
| `EventLogProofs` | the event log is a window, what is announced, fresh file ids; types of the storage | |
| `ContentCache` | extends `ContentStorage` with a cache that follows it: the event thread, the handlers, reload, removal of marked records, replacement of the search structure | `contentServer/cache/CacheImplementation.cpp`, the lists in `contentServer/definition` |
| `ContentCacheProofs` | order of the events, delete counters, types; the cache adds nothing to the storage | |
| `CacheAgreementProofs` | the cache has the records of the storage when it has processed every event | |
| `DataServer` | the grid files between the event thread, the cache thread and the requests | `dataServer/implementation` |
| `DataServerProofs` | local copies in use are kept; types | |
| `QueryCaches` | the lookups of the query server: copies, counters and caches | `queryServer/implementation/ServiceImplementation.cpp` |
| `QueryCachesProofs` | cached results and generation lists; types | |
| `LuaPool` | the pool of Lua states of a file, the calls and the update | `lua/LuaFile.cpp`, `lua/LuaFileCollection.cpp` |
| `LuaPoolProofs` | one call per state; the load of the file; types | |
| `MCRedisLock`, `MCContentStorage`, `MCContentCache`, `MCDataServer`, `MCQueryCaches`, `MCLuaPool` | instances for TLC: assignments of threads, sets of calls, symmetry | |

`ContentCache` composes the cache with the storage: a step is a call of a client on the
storage, or a step of the cache. `RedisLock` and `ContentStorage` are composed by
abstraction: the lock serialises the calls, so a call is one action of the storage.
(The run `lock_crash` shows when it does not; what the storage does then is open.)
`DataServer` and `QueryCaches` have a content server of their own, which is the interface
of the cache seen from the other side: its answers, its events, its restarts and reloads.

### `RedisLock`

| Model | Code |
|---|---|
| `lockRequestCounter`, `lockReleaseCounter`, `lockOwner` | the Redis keys of these names |
| `mDatabaseLockEnabled` | the objects that use the ticket lock; the others use the thread level mode |
| `mThreadLock` | the thread lock of an object; an object is a process with one connection |
| `pc`: `poll`, `probe`, `reset`, `register` | inside `lock()`, in front of `GET lockReleaseCounter`, `isLockOwnerAlive()`, the `SET` of a reset, `registerLockOwner()` |
| `pc`: `cs`, `release` | the storage operation under the guard object; between the `GET` and the `SET` of `unlock()` |
| `key`, `seen` | the ticket of a thread, and the release counter that it last read |
| `Crash` | the process dies in any phase and starts again; Redis closes its connection |

Time is abstract. The wait time of 180 s ends (`WaitTimeOver`) only when the thread whose
turn it is has gone or is in one of `SlowPhases`. The retries of a failing Redis command
are not modelled.

### `ContentStorage`

Tables are functions from ids to records; the content and the geometries are sets (a
sorted set may hold two records under one score); the event log is a function from event
ids to events with the counter. A producer is its name; a generation has a producer, a
name and a status; a geometry has a generation, an identifier, a level and a status; a file
has a producer, a generation and a name; content has its key, its owners, its geometry and
one value `data` that stands for everything else. Attributes that no property tells apart
are left out. The calls by id, by name, by producer, by generation and by list are all
there. `allocateFileId` counts beyond `FileIdModulus`, for the 2^32 of the code. The event
log is cut above `MaxEvents` after every `TruncateStep` events, for 3000000 and 10000.
An action is a call that succeeds; a call that returns an error changes nothing. The batch
call is modelled with one pair. `clear()` is two actions, with its sleep in between.

The clients are restricted in one way that the code does not enforce: with `RegisterOnce`
they register a known file name again only in the generation it is in, and a geometry only
once. `ContentBelongs` is what the integrity check of the storage looks for.

### `ContentCache`

| Model | Code |
|---|---|
| `primary` | `mProducerInfoList` ... `mContentInfoList` with the deletion marks, and the five delete counters |
| `served` | the active search structure |
| `page` | the list that `getEventInfoList()` has returned and that `processEventInfoList()` works on |
| `mLastProcessedEventId`, `mContentStorageStartTime` | the members of these names |
| `reload` | which list `reloadData()` or `init()` reads next, and the start time of the event it began with |
| `unread` | history: the generations whose last read has failed |
| `kept` | history: the geometries that `event_clear()` has left |
| `FetchEvents`, `ProcessEvent` | `processEvents()` and `processNextEvents()`; one `processEvent()` |
| `UpdateContent` | `updateContent()`, `swapSearchStructure()` |
| `StartReload`, `ReadList` | `reloadAfterRestart()`, `reloadData()`, the reads of the lists |

Between any two of these steps the storage may change. The handlers read the *current*
records; `FILE_ADDED` and `CONTENT_ADDED` carry the data that the storage had when the
event was fetched. Lists are functions from ids and keys (sort order and binary search are
abstracted). The several pages in which a reload reads one list are one step. Only the
content swap mode is modelled, without the wait for cached files.
`ClearedBy` says which lock stands between the cache and a `clear()`: the cache and the
clearing call share an object (`own`), `clear()` holds the database lock (`locked`), or only
the thread lock of another process (`unlocked`); in the last case the sleep of 5 s is taken
to be long enough, as its comment intends.

### `DataServer`

| Model | Code |
|---|---|
| `registry`, `events`, `mServerTime` | what the content server answers: files with their messages and deletion time, event list, start time |
| `gridFiles` | `GridFileManager::mFileList`: messages, deletion time (`left`), access time (`age`), whether a local copy is wanted (`local`) and used (`ready`), memory mapper errors (`broken`) |
| `epc`: `idle`, `events`, `process` | the event thread: cleanup, `processEvents()`, one event |
| `epc`: `readContent`, `readLastEvent`, `readFiles` | `fullUpdate()` between its reads of the content server |
| `cpc`, `snapshot`, `directory` | the cache thread: files to be copied, then the copies in use; the files in the local directory |
| `request` | `getGridFile()` between its two reads of the content server and `addFile()` |

Time goes by in minutes: a deletion time is the number of minutes left (negative when it
has passed), an access time the minutes since. The two steps in which a grid file leaves
the manager and is destroyed are one, and so are the pages of a full update. The model does not have: a
file whose name changes under the same id, ids that are given out again (after a `clear()`
they may be), files of other protocols, virtual files, and a full update in which the read
of the files fails. The data server starts beside an empty content server.
`MaxFailures` bounds the restarts of the content server and the errors of files together.

### `QueryCaches`

| Model | Code |
|---|---|
| `history` | the search structures that the content server has published; the last one answers |
| `mProducerMap`, `mGenerationInfoList` | the copies of the update thread; a producer is the hash of its content |
| `upc`, `batch` | the update thread between its reads of the content server and the replacements and counters |
| `mProducerGenerationListCache`, `mContentCache`, `mContentSearchCache` | the lookup caches of a query thread |
| `clearGenerations`, `clearContent`, `clearSearches` | a counter that the update thread has incremented against the value that the query thread has seen |
| `qpc`, `query` | the lookup of content: generations first, then search cache, content cache, content server |
| `ContentList`, `EntryList` | the getter that fills the list of the caller in place; it returns before it clears the list while the server reloads and for a generation that has gone |
| `answered` | history, in the entries of the two content caches: the server had an answer when the entry was labelled |

The caches are thread local, so one query thread stands for all. The hash of a producer is
the state that it was computed from. A time and the seconds since then are an age. An entry
of the content cache has a level, or `AnyLevel` for the hash without a level. The query server
ignores the result code of the getter: what was in the list before stays in the entry of the
content cache and gets the hash of the query. The content server has a search structure from
the beginning.

### `LuaPool`

| Model | Code |
|---|---|
| `file`, `latest`, `recent` | modification time (in seconds) and content of the file; the latest time it had; `recent`: its time is less than three seconds ago |
| `mLuaState`, `mStateKey`, `mStateKeyCounter` | the states (what was loaded into each), who uses them |
| `readers`, `writing` | `mModificationLock`; `stateLock` is `mStateModificationLock` |
| `pc`: `execute`, `get`, `scan`, `take`, `run`, `leave` | `executeFunctionCall()` and `getLuaState()` up to the return of the state |
| `upc`: `lock` ... `functions` | `checkUpdates()`: the two locks, closing of the states, one load at a time, time stamp, function list |
| `edited` | history: the file has changed since the update began, or has been put back with the time of the last load |

One action per access to shared memory; the state is given back by one store of 0 into
`mStateKey`, without a lock, and this store is atomic in the model. The twelve variants of
`executeFunctionCall` differ in their parameters only, and one stands for all. The content of a file
either has the one function, or lacks it, or has an error. One thread looks for updates. The
program compares modification times for equality only, so a file that is put back with an
old time matters when this is `mLastModified` (`PutBack`); any other time is a new one
(`Edit`).

## 3. Runs

| Run | Bounds | Shows |
|---|---|---|
| `lock_queue` | 3 processes with a thread each, 8 tickets, nothing fails | holders never overlap although `unlock()` is a read and a write, tickets are served in order, the release counter never goes back, every waiter gets the lock; the lock implements the fair queue `WriterQueue` |
| `lock_recover` | 3 processes in the ticket mode with 4 tickets, a process with 2 threads in the thread level mode, a crash, shutdowns, slow holders | types; a waiter does not take the lock from the slow holder it has waited for; threads of an object exclude each other across `lock()` and `unlock()` |
| `lock_crash` | 2 processes, 3 tickets, 1 crash | **violated**: after one crash two waiters reset the counter to different tickets and both enter |
| `storage_all` | every call, 3 calls from a loaded state, file ids modulo 4 with ids about to wrap, log of 9 events, a restart | types, unique names, fresh file ids, log is a window |
| `storage_loader` | the calls of loaders, 3 calls, 2 generations, 2 geometries, 2 names, 2 messages | hash, files, content, geometries and generations agree; every change is announced |
| `cache_follow` | 3 calls on whole files, generations and a geometry, `clear()` by another process, one failing read, pages of 2 | the cache ends up with the records of the storage; counters cover marks; types |
| `cache_reload` | 3 calls that add content piece by piece, a restart, `clear()` | the same over start, reload and restart; no event is processed twice or out of order, and none is skipped while the log has it; the queries converge (with fairness) |
| `cache_again` | content deleted and added again | **violated**: the new content is dropped while the old record is marked |
| `data_server` | a file with 2 messages and copies, 2 changes, a restart or an error | grid files that do not agree with the content server go in the end; copies in use are kept; types |
| `query_caches` | 2 generations, one level, 2 changes, one of them a reload | cached results are older than their label only where the server had no answer, for a removed generation or after a reload; generation lists follow the copies, copies follow the server; types |
| `query_levels` | 2 levels, 2 changes, no reload | **violated**: an entry for all levels is filled with the content of one |
| `lua_pool` | 3 threads, 2 states, 3 calls, 2 edits, the file put back at any time | a state is used by one call, a call that waits gets one, the load leaves no mixture unless the file changed during it or was put back; types |

Why the bounds are enough:

* *Lock*: the conflicts need two waiters and a holder, or two waiters and a ticket of a dead
  process.
* *Storage and cache*: a record needs to be known, replaced and deleted or hidden behind its
  owner (three calls after the loaded state); ids and log wrap within the calls because the
  initial state is close to both limits.
* *Data server*: files do not meet each other, except in the list of the copies in use, for
  which the proof covers every number. Two changes let an event, a full update or a request
  meet a change that it has not seen; the ages saturate.
* *Query server*: a fetch that is older or newer than its label needs one change before and
  one after the copy of the producer. A fetch without an answer needs a generation that comes
  and another that goes, or a reload.
* *Lua*: a waiter needs as many other calls as there are states; two edits make one during
  the load of the other.

Symmetry is used for producers, names, data, geometry statuses and levels, in runs without
liveness properties only. Deadlock is not checked: clients may stop.

### Fairness

* `RedisLock!FairSpec`: a thread inside `lock()`, its operation or `unlock()` goes on while
  its process lives. Nobody has to ask for the lock, to crash or to be shut down.
* `ContentCache!FairSpec`: the event thread polls every second and its steps are taken when
  they are possible, `clear()` comes to its end. Clients need not call anything, and since
  the calls of a behaviour are bounded, `Converges` speaks about what follows the last call.
* `DataServer!FairSpec`: time goes by, the event thread and the cache thread are loops that
  do not end, a request that has begun comes to its end.
* `QueryCaches!FairSpec`: time goes by, the update thread is a loop, a change of the content
  server gets its time stamp and a reload ends. Nobody has to ask anything.
* `LuaPool!FairSpec`: a call that can go on does, and a Lua function comes to its end. The
  file need not be looked at.

## 4. Proofs

All theorems hold for every value of the constants that satisfies the named assumptions.

**Lock** (`RedisLockProofs`). The invariant `IInv` is `TypeOK` with three parts, none of
which the properties state. `ModeInv`: in the thread level mode a holder owns the thread
lock. `TicketInv`: tickets of threads inside the queue differ and have been given out.
`QueueInv`: until the first disturbance the release counter is below every ticket in the
queue, and whoever has been told that it is its turn has the next ticket. Mutual exclusion
alone is not inductive: a thread in `register` becomes a holder in the next step, and one in
`release` is about to move the counter. From `IInv` follow `TypeCorrect`,
`UndisturbedExclusionHolds`, `ThreadExclusionHolds`, `TicketOrderHolds` and
`ReleasesAdvanceHolds`. `SlowHolderKeepsLockHolds` assumes that a live thread outlasts the
wait time only in its operation or in `unlock()`, and adds `ProbeInv`: whoever has the lock
is the registered owner, and the ticket that a waiter asks about has left the queue, so that
it is registered or released when the answer comes.

**Queue** (`RedisLockProofs`). `QueueImplemented`: in a calm environment (`Calm`: the
ticket mode, no crash, no shutdown, no operation that outlasts the wait time) `RedisLock`
implements `WriterQueue!Spec`. A thread waits in the queue from `RequestLock` to
`registerLockOwner`, holds until `UnlockWrite`, and came before another if its ticket is
lower. `CalmInv` adds to `IInv` that every ticket that has been given out and not been
released has an owner: hence the next ticket always has one, no wait time ends and no
waiter resets the lock. `RequestLock` is `Enter`, `registerLockOwner` is `Grant`, `UnlockWrite` is
`Release`, and every other step leaves the queue as it is.

**Storage** (`ContentStorageProofs`). `NamesUniqueHolds`: unique names, with the fact that a
generation record has a name which a change of its status leaves alone.
`FileNamesResolveHolds`: if `setFileInfo()` is not among the calls, the hash and the file
table agree. It needs that no file has the id 0, the answer of `getFileId()` for an unknown
name; the step for a new file rests on `allocateFileId`, the steps of the deletions on one
lemma: files go together with their names.

**Integrity** (`ContentStorageProofs`). `ContentBelongsHolds`: for clients that register
a known name or geometry where it is already (`RegisterOnce`) and do not use
`setGenerationInfo()`, `setFileInfo()`, `addContentInfo()` and the deletion of files by a list of forecast
times, the integrity check never finds anything. The invariant (`Integrity`) has four parts, one for each
kind of record: content has a file and its owners, a file has a generation and its producer,
a generation has a producer and an id that has been given out, a geometry has a generation.
The additions write records with the owners of their file; the deletions fall under a few
lemmas, one for each kind of owner that takes along what it owns.

**Event log** (`EventLogProofs`). The invariant `LogInv` has the types of the records
(`Typed`) and `LogOK`: the log has every event from some number up to the counter, and not
more than the limit and what has come since the last test of the length. `LogIsWindow`, which
says that there is no gap and bounds the length, is not inductive: it does not say that the
log reaches up to the counter, nor how far the next test of the length is. Most calls announce a list of
events, which a fold adds one by one; `FoldLeft` is unfolded into the sequence of logs in
between, by induction over their number (`NatSetInduction`, from the well-foundedness of
the naturals), and each of them is `LogOK`. What a call announces is finite because its tables
are, and the tables are because ids and sets are: therefore `StorageAssumption` has finite
sets of messages and geometries. `FreshFileIdsHolds` and `LogIsWindowHolds` need nothing else.
`ChangesAnnouncedHolds` assumes that nobody calls `setFileInfo()` or deletes by
forecast time: the first leaves the hash wrong, and a deletion by name then finds no file
to announce; the others remove content of files that stay, and say nothing about it. It
uses the invariant of `FileNamesResolveHolds`.

**Cache** (`ContentCacheProofs`). `CacheInv` adds to `LogInv`, for each primary list, that it
is finite, that its records have their flags, and that its delete counter is at least the
number of marked records; and the types of the page and the cursor. A lemma for each
operation of the lists (add, mark, replace, remove) says what becomes of the marks, and
every handler is a composition of them. From it follow `CountersCoverMarksHolds` (otherwise marked records would be left in
the lists for ever, since `updateContent()` looks at the counters) and `CacheTypeOKHolds`.
`CacheRefinesStorage`: a behaviour of storage and cache is one of the storage alone, so every
theorem about the storage holds with a cache. `EventsInOrderHolds` needs `PageInOrder`: a
page is a run of consecutive ids, and the log has no event between the last one that has
been processed and the first one of the page, although the log grows and is truncated while
the page is worked on.
In the run `cache_reload` the log is never truncated; the theorem has no such restriction.

**Cache agreement** (`CacheAgreementProofs`). `PrimaryAgreesHolds`: when the cache has
processed every event, its live records are those of the storage. Two hypotheses exclude
what makes this fail.

* `SteadyClients`: the calls that the cache follows. A known name or geometry is registered
  where it is already (`RegisterOnce`); nobody calls `setProducerInfo()`,
  `setGenerationInfo()` or `setFileInfo()`, adds content to a known file
  (`addContentInfo()`, `addContentList()`, `addFileInfoListWithContent()`) or deletes by
  forecast time; if geometries are deleted one by one they have level 0; `clear()` is called
  by the object that the cache asks.
* `KeepsUp`: no step but those of `clear()` truncates an event that the cache has not
  processed.

Agreement itself is not inductive, since the cache is seldom in step with the storage: it is
behind by the events it has not processed, and ahead of them by the records that a page or a
handler has read meanwhile. The invariant `AgreeInv` contains the invariants of the storage
and of the cache (`StorageInv`, which adds to the theorems above that a geometry is
registered once, `CacheInv`, `PageInOrder`) and `Follows`, which says of a
cache that has not been restarted or cleared how the pending events lead from the lists to
the tables:

* for each table (the definitions that end in `Follow`): a live record is the one in the
  storage, or a pending event removes or updates it; a record of the storage is live with its
  data, or a pending event brings it;
* for the events themselves (the ones that end in `Told`): a pending event that deletes
  something the storage has is followed by one that brings it back, and one that changes a
  status is the last word on it or is followed by another;
* for the page (`PageFollows`): the data that was fetched with an event is the storage's, or a
  later event tells what has become of it.

These are predicates of tables, lists and log, so a step is a lemma about values. A call makes
the pending events grow by what it announces (`PendingGrows`), and for each call a lemma
says that what it announces leads from the tables before to the tables after it
(`CallsTold`, `CalledFollows`). Processing an event cuts it off the front of the pending ones (`ToldCut`,
`PageFollowsCut`), and for each handler a lemma says that what the event told has then been
done to the lists (`EventHandled`). A reload sets the lists to the tables; a restart and
`clear()` leave nothing to follow until the next reload. When nothing is pending, the predicates
say that lists and tables agree (`FollowsAgrees`).
The theorem holds for every page size, for pages that carry older data than the storage has,
for reads that fail and for a reload between any two steps.

**Query server** (`QueryCachesProofs`). `GenerationListsFollow` is inductive as it stands.
`ResultsNotOlderHolds` needs that every hash in the copies, in the batch and in the query
names a state that has been published (`HashInv`), so that what is fetched now is an answer
since then; and that an entry of the content cache serves the level that it is taken for
(`ContentInv`), which holds with one asked level (`OneLevel`) and fails with two, as
`query_levels` shows. `ContentInv` speaks of the entries with an answer. For the others
`PastInv` says where they come from: no copy, batch, cached list or query has a generation that
is newer than all the server has (`Past`), so that a fetch without an answer finds it removed, or
meets a reload (`Excused`); and since only the oldest generation is removed and a new one is newer
than all others, a generation that has gone does not come back (`Removed`, `PastStays`). `QueryTypeOKHolds` (invariant `TypeInv`) rests on two facts about
finite sets of naturals, minimum and maximum (`MinIs`, `MaxIs`): the oldest generation that the
content server removes and the newest one that a query has left are generations.

**Lua** (`LuaPoolProofs`). `StateUsedByOneHolds`: keys are counted and each is in the pool
once (`KeysCounted`, `KeysHeld`), only the thread that looks for a state has the state lock
(`LookersLock`), and the update has both locks (`UpdateLocks`). Hence the store that gives a
state back can meet a search, but not a second owner. `FileLoadedHolds`: the invariant
follows the update from state to state; what has been loaded is the file, or the file has
been edited or put back. `LuaTypeOKHolds` is about the key counter: it is bounded by the number of calls
because a call takes one key at most (`KeysLeft`).

**Data server** (`DataServerProofs`). `CopiesKeptHolds`: every grid file with a copy in use
has its copy in the directory, and while the cache thread is about to remove copies, it is
in the list that was made before. Only the cache thread lets copies come into use, and it
does not do so between the list and the removal; every other step takes grid files away or
leaves their flags alone (`NoNewCopies`).
The list has the grid files that are ready and for which a local copy is expected; that all files
with a copy in use are among them needs `LocalInv`: whether copies are expected of an id is
decided when the id is given out, and the registry, the events, the request and the grid files
agree about it.
`DataTypeOKHolds` (invariant `Typed`): every grid file, event and request has an id that has
been given out, through event handling, full updates and restarts of the content server.

Only model-checked:

* liveness (`EveryWaiterLeaves`, `Converges`, `OutdatedFilesGo`, `CopiesFollow`,
  `WaiterGetsState`, the fairness of `ImplementsQueue`), since temporal proofs under fairness
  need `ENABLED`, which the prover does not reason about. `EveryWaiterLeaves` is about the calm
  case, without crashes and shutdowns: after these it does not hold;
* what `PrimaryAgreesHolds` leaves out. `PrimaryAgrees` fails without its hypotheses: when content
  comes back while it is marked (`cache_again`), when a producer is added and renamed twice
  before the cache has seen the addition, when the log is truncated before the cache has
  read it, for geometries with a level, for deletions by forecast time, and for a `clear()`
  that holds the database lock. For two calls the
  hypotheses exclude more than fails: content that is added to a known file, and `clear()`
  by another process without the lock. `cache_follow` and `cache_reload` check them
  (`Increments`, `ClearedBy = "unlocked"`) with calls and bounds where no content comes back
  too early and nothing is reloaded during the sleep.

## 5. Findings

1. The recovery of the ticket lock lets two writers in after a crash (`lock_crash`).
2. `event_contentAdded()` drops content whose old record is marked (`cache_again`).
3. An entry of the content cache without a level is refilled with one level and serves the
   others (`query_levels`).

Seen in the models or in the code while modelling, and not among the runs:

* *Lock.* A waiter reads the release counter, sleeps, and asks whether the owner has the
  ticket after it. If the slow holder releases the lock in between and another waiter
  registers, the owner is not the one asked about; the first waiter resets the counter to
  its own ticket and enters beside the second, without any crash (`docs/developer-guide.md`
  240 says that a holder that is alive keeps the lock). `LockCrash.cfg` with
  `ThreeProcesses`, three objects and threads, `MaxCrashes = 0`, `Crashers = {}` and
  `SlowPhases <- SlowOperations` shows it in 15 steps. Two threads of one object block each other in the
  ticket mode: the waiter holds the thread lock that `unlock()` needs. A crash may leave
  tickets that nobody releases, and later waiters time out one after the other.
* *Storage.* `setFileInfo()` looks up the old name of the file instead of the new one.
  `addContentInfo()` and `addGeometryInfo()` may put two records under one key. Deletions by
  forecast time announce nothing about content whose file stays. With the database lock nobody can
  read the event of `clear()` before it is gone. The keys of content and geometries are packed
  into numbers that Redis keeps as doubles (`RedisImplementation.cpp` 300-316): from file id
  2^29 and generation id 2^21 on, neighbouring records share a key. `Key` and `GeometryKey` are
  exact, and what the runs and theorems say of content and geometries holds below these ids.
* *Cache.* The hash of the content list covers file ids and message indexes only: a file
  that is rewritten with the same indexes does not reach the search structure.
  `event_clear()` leaves the geometries. The deletion of a geometry with a level other than
  0 marks more in the cache (7144) than the storage removes (`RedisImplementation.cpp` 8425).
  `setGeometryInfo()` of a key that the cache does not know never reaches it (7209). A (re)load
  during the sleep of a `clear()` by another process takes CLEAR for its last event and
  keeps what is cleared afterwards. A producer may be lost after a sequence of renames.
  `CONTENT_SERVER_RELOAD` is handled, but nothing announces it. Without swapping, a geometry
  that changes does not reach the search structure, since the handlers return after the
  primary list (`event_geometryStatusChanged()`, `event_geometryUpdated()`), and the deletion of
  the geometries of a producer marks those of the source with the producer's id there
  (`event_geometryListDeletedByProducerId()`).
* *Data server.* An outdated file that wants a local copy is never dropped without a
  deletion time. A copy is made by id, and after a `clear()` the id may be that of another file
  (`copyToLocalCache`). A full update after a restart that returns early is not repeated.
* *Query server.* `getContentListByParameterAndGenerationId()` returns before it clears the
  list of the caller while the server reloads (`CacheImplementation.cpp` 4797), without a search
  structure (4807) and for an unknown generation (4816); the query server does not look at
  the result code. A new entry then says that there is no content. The entry of before keeps its
  content and gets the new hash, although `ServiceImplementation.h` 62 and 78 call it the
  "Producer state hash when this entry was built". For example: generation 1 is cached,
  generation 2 is published and 1 removed, and the producers have been copied but not yet the
  generations; a query with the new hash stores what it has of generation 1 under this hash. Both
  stay until the hash changes, an announcement clears the cache, or a day has gone.
  `ResultsNotOlder` without its second alternative, which is about these fetches, is violated
  in 16 states with `QueryCaches.cfg` and `MaxReloads = 0`. Before the first generation list has been
  read, a query dereferences a null list.
* *Lua.* A file that is edited while it is loaded may stay in some of the states only. After
  a file with an error, calls take null states until it is repaired; and if it is put back with
  the time of the last load, it is not loaded again (`LuaFile.cpp` 235).
* *Users.* `updateGroups()` takes the modification time before it opens the file, the groups
  are read without the lock, and two updates may overlap.

`PROJECT.json` lists most of them under "hazards".

## 6. Plan

In this order: the search structure swap as several steps of several threads (`SearchSwap`:
clients that write through the cache update it beside the event thread, and many handlers
share the lists' lock with them); the cache without swapping; an abstract replica that shows
past states of the storage, for the cache to implement; sessions and users; the pure algorithms of the record lists
(closest index, pages of the queries) against definitions by sets; the composition of
`DataServer` with `ContentCache`. Among the proofs, the
agreement of the cache when content is added to a known file, and after a `clear()` by another
process, comes next: the runs have both, the theorem leaves them out.

### Not modelled

* Calls and events by source id, last access times, the failure of a Redis command in the
  middle of a call: they have the shape of calls that are modelled, or (the last) leave the
  storage in states about which the code says nothing.
* The memory and PostgreSQL storages and `merge`: further implementations of the same
  interface; the atomicity of SQL statements is the database's.
* Sessions and users: small services beside the core.
* CORBA and HTTP stubs, the interface classes with their logging, record definitions,
  parsers and converters, configuration: no state that the properties could be about. They
  are more than half of the repository's lines.
* Functions, grid arithmetic, the translation of queries: floating point computation, out of
  TLC's reach.
