---------------------------- MODULE ContentCache ----------------------------
(***************************************************************************)
(* The cache of a content server (CacheImplementation) that follows the    *)
(* content storage: it reads everything once, then fetches the events after *)
(* the last one it has processed, and reads the records the events tell of. *)
(* Deletions only mark the records of the primary lists; from time to time *)
(* updateContent() removes the marked records and replaces the search      *)
(* structure, which answers the queries, if the hashes say it has changed. *)
(* (The content swap mode, which is the default.)                          *)
(*                                                                         *)
(* The storage changes between any two steps of the cache: between an event *)
(* and its fetch, the fetch and the handler, and two reads of a reload.     *)
(***************************************************************************)
EXTENDS ContentStorage

CONSTANTS
  PageSize,     \* the events that are fetched at a time (10000)
  ClearedBy,    \* who calls clear(): the object that the cache asks
                \* ("own"), or another process, with the database lock
                \* ("locked") or without it ("unlocked")
  MaxFailures   \* bound on the failing reads of a generation

ASSUME CacheAssumption ==
  /\ PageSize \in Nat \ {0} /\ MaxFailures \in Nat
  /\ ClearedBy \in {"own", "locked", "unlocked"}

VARIABLES
  primary,                   \* the primary lists and the delete counters
  served,                    \* the active search structure
  page,                      \* the fetched events that are not processed yet
  mLastProcessedEventId,
  mContentStorageStartTime,  \* start time of the storage that has been read
  reload,                    \* how far a reload is, and the start time behind it
  unread,                    \* generations whose last read has failed
  kept,                      \* geometries that the event of a clear() has left
  failures                   \* what has been used of MaxFailures

cacheVars == <<primary, served, page, mLastProcessedEventId, mContentStorageStartTime,
               reload, unread, kept, failures>>
vars == <<storageVars, cacheVars>>

-----------------------------------------------------------------------------
(* The primary lists: every record has a flag that marks it as deleted.     *)

Tables == {"producers", "generations", "geometries", "files", "contents"}

Unmarked(info) == [info |-> info, deleted |-> FALSE]
Live(list) == {k \in DOMAIN list : ~list[k].deleted}
Marked(list) == DOMAIN list \ Live(list)
Infos(list) == [k \in Live(list) |-> list[k].info]
Where(list, field, id) == {k \in DOMAIN list : list[k].info[field] = id}

Store(c, t, k, info) == [c EXCEPT !.lists[t] = Put(@, k, Unmarked(info))]

\* markDeletedBy...(), whose result is added to the delete counter: it counts
\* the records that were marked before, too.
Mark(c, t, K) ==
  [c EXCEPT
     !.lists[t] = [k \in DOMAIN @ |->
                     IF k \in K THEN [@[k] EXCEPT !.deleted = TRUE] ELSE @[k]],
     !.counters[t] = @ + Cardinality(K)]

MarkBy(c, t, field, id) == Mark(c, t, Where(c.lists[t], field, id))

\* The lookups by id and by key see only the live records.
MarkOne(c, t, k) == Mark(c, t, {k} \cap Live(c.lists[t]))

\* delete...(), which removes the records themselves.
Erase(c, t, K) ==
  [c EXCEPT !.lists[t] = Without(@, K), !.counters[t] = @ + Cardinality(K)]

\* addGenerationInfo(): not if there is a record with the id, marked or not.
addGenerationToList(c, g, info) ==
  IF g \in DOMAIN c.lists.generations THEN c ELSE Store(c, "generations", g, info)

\* addCachedContent(): a record that is marked is used for the new content.
addOrReplaceContent(r, c) ==
  IF Key(r) \in Live(c.lists.contents) THEN c
  ELSE [Store(c, "contents", Key(r), r) EXCEPT
          !.counters.contents =
             IF Key(r) \in DOMAIN c.lists.contents /\ @ > 0 THEN @ - 1 ELSE @]

-----------------------------------------------------------------------------
(* What the cache reads of the storage.                                     *)

\* The first of the records under a key.
ContentKeys == {Key(r) : r \in content}
ContentAt(k) == CHOOSE r \in content : Key(r) = k

StoredFile(f, count) ==
  {[file |-> files[x], contents |-> IF count > 0 THEN ByFile(x) ELSE {}]
     : x \in {f} \cap DOMAIN files}

StoredContent(k) == {ContentAt(x) : x \in {k} \cap ContentKeys}

\* getGeometryById(): the first of the records under a key.
GeometryKeys == {GeometryKey(x) : x \in geometries}
GeometryAt(k) == CHOOSE x \in geometries : GeometryKey(x) = k

\* setEventData(): what the storage sends with an event when it is fetched.
setEventData(e) ==
  CASE e.type = "FILE_ADDED"    -> StoredFile(e.id1, e.id3)
    [] e.type = "CONTENT_ADDED" -> StoredContent(<<e.id1, e.id2>>)
    [] OTHER                    -> {}

Stored ==
  [producers |-> producers, generations |-> generations,
   geometries |-> [k \in GeometryKeys |-> GeometryAt(k)],
   files |-> files,
   contents |-> [k \in ContentKeys |-> ContentAt(k)]]

-----------------------------------------------------------------------------
(* The handlers of the events.  ok: the read of a generation succeeds.      *)

\* The geometries are forgotten: they stay.
event_clear(c) ==
  [c EXCEPT !.lists = [t \in Tables |-> IF t = "geometries" THEN @[t] ELSE Nothing]]

event_producerAdded(c, p) ==
  IF \/ p \in Live(c.lists.producers)
     \/ p \notin DOMAIN producers
     \/ \E q \in Live(c.lists.producers) : c.lists.producers[q].info = producers[p]
    THEN c ELSE Store(c, "producers", p, producers[p])

event_producerUpdated(c, p) ==
  IF p \in Live(c.lists.producers) \cap DOMAIN producers
    THEN Store(c, "producers", p, producers[p]) ELSE c

event_producerDeleted(c, p) ==
  LET c1 == MarkBy(c, "contents", "producer", p)
      c2 == MarkBy(c1, "files", "producer", p)
      c3 == MarkBy(c2, "geometries", "producer", p)
      c4 == MarkBy(c3, "generations", "producer", p)
  IN MarkOne(c4, "producers", p)

event_generationAdded(c, g, ok) ==
  IF ok /\ g \in DOMAIN generations \ Live(c.lists.generations)
    THEN addGenerationToList(c, g, generations[g]) ELSE c

event_generationUpdated(c, g, ok) ==
  IF ~ok \/ g \notin DOMAIN generations THEN c
  ELSE IF g \in Live(c.lists.generations) THEN Store(c, "generations", g, generations[g])
  ELSE addGenerationToList(c, g, generations[g])

event_generationStatusChanged(c, g, status, ok) ==
  IF g \in Live(c.lists.generations)
    THEN [c EXCEPT !.lists.generations[g].info.status = status]
  ELSE IF ok /\ g \in DOMAIN generations
    THEN addGenerationToList(c, g, [generations[g] EXCEPT !.status = status])
  ELSE c

\* The generation itself is not marked but removed.
event_generationDeleted(c, g) ==
  LET c1 == MarkBy(c, "contents", "generation", g)
      c2 == MarkBy(c1, "files", "generation", g)
      c3 == MarkBy(c2, "geometries", "generation", g)
  IN Erase(c3, "generations", {g} \cap DOMAIN c.lists.generations)

\* Everything of the producer is removed, and what is marked among the content
\* and the files, too.
event_generationListDeletedByProducerId(c, p) ==
  LET gone(t) == Where(c.lists[t], "producer", p)
      c1 == Erase(c, "contents", gone("contents") \cup Marked(c.lists.contents))
      c2 == Erase(c1, "files", gone("files") \cup Marked(c.lists.files))
      c3 == Erase(c2, "geometries", gone("geometries"))
  IN Erase(c3, "generations", gone("generations"))

\* addGeometryInfo(): not if there is a record with the key, marked or not.
event_geometryAdded(c, k) ==
  IF k \in GeometryKeys \ DOMAIN c.lists.geometries
    THEN Store(c, "geometries", k, GeometryAt(k)) ELSE c

event_geometryUpdated(c, k) ==
  IF k \in GeometryKeys \cap Live(c.lists.geometries)
    THEN Store(c, "geometries", k, GeometryAt(k)) ELSE c

event_geometryStatusChanged(c, k, status) ==
  IF k \in Live(c.lists.geometries)
    THEN [c EXCEPT !.lists.geometries[k].info.status = status] ELSE c

\* The content of the geometry is marked, whatever the level is.
event_geometryDeleted(c, g, geometry, level) ==
  LET list == c.lists.contents
      gone == {k \in Where(list, "generation", g) :
                 GeometryOf[list[k].info.message][1] = geometry}
  IN Erase(Mark(c, "contents", gone), "geometries",
           {<<g, <<geometry, level>>>>} \cap DOMAIN c.lists.geometries)

event_geometryListDeletedByGenerationId(c, g) ==
  Erase(c, "geometries", Where(c.lists.geometries, "generation", g))

event_geometryListDeletedByProducerId(c, p) ==
  Erase(c, "geometries", Where(c.lists.geometries, "producer", p))

addFile(x, f, c) ==
  LET c1 == IF f \in Live(c.lists.files) THEN c ELSE Store(c, "files", f, x.file)
  IN FoldSet(addOrReplaceContent, c1, x.contents)

\* From the event data, or from the storage if the event has none.
event_fileAdded(c, e) ==
  LET found == IF e.data # {} THEN e.data ELSE StoredFile(e.id1, e.id3)
  IN IF found = {} THEN c ELSE addFile(CHOOSE x \in found : TRUE, e.id1, c)

\* Mutant: leaves the old content of the file.
event_fileUpdatedKept(c, f) ==
  IF f \notin DOMAIN files THEN c
  ELSE FoldSet(addOrReplaceContent, Store(c, "files", f, files[f]), ByFile(f))

\* The old content of a known file is marked, and what the storage has is added.
event_fileUpdated(c, f) ==
  IF f \notin DOMAIN files THEN c
  ELSE LET c1 == IF f \in Live(c.lists.files) THEN MarkBy(c, "contents", "file", f) ELSE c
       IN FoldSet(addOrReplaceContent, Store(c1, "files", f, files[f]), ByFile(f))

\* Mutant: does not count the marked content.
event_fileDeletedUncounted(c, f) ==
  MarkOne([MarkBy(c, "contents", "file", f) EXCEPT !.counters = c.counters], "files", f)

event_fileDeleted(c, f) == MarkOne(MarkBy(c, "contents", "file", f), "files", f)

event_fileListDeletedByProducerId(c, p) ==
  MarkBy(MarkBy(c, "contents", "producer", p), "files", "producer", p)

event_fileListDeletedByGenerationId(c, g) ==
  MarkBy(MarkBy(c, "contents", "generation", g), "files", "generation", g)

event_contentListDeletedByFileId(c, f) == MarkBy(c, "contents", "file", f)

event_contentListDeletedByProducerId(c, p) == MarkBy(c, "contents", "producer", p)

event_contentListDeletedByGenerationId(c, g) == MarkBy(c, "contents", "generation", g)

\* The new record is dropped if the list has one that is marked.
event_contentAdded(c, e) ==
  LET k == <<e.id1, e.id2>>
      found == IF e.data # {} THEN e.data ELSE StoredContent(k)
  IN IF k \in DOMAIN c.lists.contents \/ found = {} THEN c
     ELSE Store(c, "contents", k, CHOOSE r \in found : TRUE)

\* The old record is removed, with all the records that are marked.
event_contentUpdated(c, e) ==
  LET gone == {<<e.id1, e.id2>>} \cup Marked(c.lists.contents)
  IN event_contentAdded([c EXCEPT !.lists.contents = Without(@, gone)], e)

event_contentDeleted(c, k) == MarkOne(c, "contents", k)

\* The key of the geometry that an event tells of.
EventGeometry(e) == <<e.id1, <<e.id2, e.id3>>>>

processGeometryEvent(c, e) ==
  CASE e.type = "GEOMETRY_ADDED"          -> event_geometryAdded(c, EventGeometry(e))
    [] e.type = "GEOMETRY_UPDATED"        -> event_geometryUpdated(c, EventGeometry(e))
    [] e.type = "GEOMETRY_STATUS_CHANGED" ->
         event_geometryStatusChanged(c, EventGeometry(e), e.flags)
    [] e.type = "GEOMETRY_DELETED"        -> event_geometryDeleted(c, e.id1, e.id2, e.id3)
    [] e.type = "GEOMETRY_LIST_DELETED_BY_GENERATION_ID" ->
         event_geometryListDeletedByGenerationId(c, e.id1)
    [] e.type = "GEOMETRY_LIST_DELETED_BY_PRODUCER_ID" ->
         event_geometryListDeletedByProducerId(c, e.id1)
    [] OTHER                                -> c

processEvent(c, e, ok) ==
  CASE e.type = "CLEAR"             -> event_clear(c)
    [] e.type = "PRODUCER_ADDED"    -> event_producerAdded(c, e.id1)
    [] e.type = "PRODUCER_UPDATED"  -> event_producerUpdated(c, e.id1)
    [] e.type = "PRODUCER_DELETED"  -> event_producerDeleted(c, e.id1)
    [] e.type = "GENERATION_ADDED"  -> event_generationAdded(c, e.id1, ok)
    [] e.type = "GENERATION_UPDATED" -> event_generationUpdated(c, e.id1, ok)
    [] e.type = "GENERATION_STATUS_CHANGED" ->
         event_generationStatusChanged(c, e.id1, e.id2, ok)
    [] e.type = "GENERATION_DELETED" -> event_generationDeleted(c, e.id1)
    [] e.type = "GENERATION_LIST_DELETED_BY_PRODUCER_ID" ->
         event_generationListDeletedByProducerId(c, e.id1)
    [] e.type = "FILE_ADDED"        -> event_fileAdded(c, e)
    [] e.type = "FILE_UPDATED"      -> event_fileUpdated(c, e.id1)
    [] e.type = "FILE_DELETED"      -> event_fileDeleted(c, e.id1)
    [] e.type = "FILE_LIST_DELETED_BY_PRODUCER_ID" ->
         event_fileListDeletedByProducerId(c, e.id1)
    [] e.type = "FILE_LIST_DELETED_BY_GENERATION_ID" ->
         event_fileListDeletedByGenerationId(c, e.id1)
    [] e.type = "CONTENT_LIST_DELETED_BY_FILE_ID" ->
         event_contentListDeletedByFileId(c, e.id1)
    [] e.type = "CONTENT_LIST_DELETED_BY_PRODUCER_ID" ->
         event_contentListDeletedByProducerId(c, e.id1)
    [] e.type = "CONTENT_LIST_DELETED_BY_GENERATION_ID" ->
         event_contentListDeletedByGenerationId(c, e.id1)
    [] e.type = "CONTENT_ADDED"     -> event_contentAdded(c, e)
    [] e.type = "CONTENT_UPDATED"   -> event_contentUpdated(c, e)
    [] e.type = "CONTENT_DELETED"   -> event_contentDeleted(c, <<e.id1, e.id2>>)
    [] OTHER                        -> processGeometryEvent(c, e)

-----------------------------------------------------------------------------
(* The event thread.                                                        *)

\* Every call of the storage waits for the lock that clear() holds; only a
\* thread lock of another process is not in the way.
Reachable == ~clearing \/ ClearedBy = "unlocked"

\* The thread is between two fetches, or in the middle of a page.
Following == reload.phase = "none"

NewEvents == {k \in DOMAIN eventLog.events : k > mLastProcessedEventId}

\* getLastEventInfo() finds the event of the event counter; a start time that
\* has changed leads to a reload instead.
LastEventKnown == eventLog.counter \in DOMAIN eventLog.events
RestartDetected == mContentStorageStartTime < mStartTime

Fetched(k) ==
  LET e == eventLog.events[k]
  IN [id |-> k, type |-> e.type, id1 |-> e.id1, id2 |-> e.id2, id3 |-> e.id3,
      flags |-> e.flags, data |-> setEventData(e)]

\* Mutant: the newest events come first.
FetchEventsNewest ==
  LET count == Cardinality(NewEvents)
      next(i) == CHOOSE k \in NewEvents : Cardinality({n \in NewEvents : n >= k}) = i
  IN /\ Following /\ page = <<>>
     /\ Reachable
     /\ LastEventKnown /\ ~RestartDetected
     /\ NewEvents # {}
     /\ page' = [i \in 1..(IF count < PageSize THEN count ELSE PageSize) |-> Fetched(next(i))]
     /\ UNCHANGED <<primary, served, mLastProcessedEventId, mContentStorageStartTime,
                    reload, unread, kept, failures>>

\* processEvents() and processNextEvents(): the next page of events, with the
\* data that the storage has for them now.
FetchEvents ==
  LET count == Cardinality(NewEvents)
      next(i) == CHOOSE k \in NewEvents : Cardinality({n \in NewEvents : n <= k}) = i
  IN /\ Following /\ page = <<>>
     /\ Reachable
     /\ LastEventKnown /\ ~RestartDetected
     /\ NewEvents # {}
     /\ page' = [i \in 1..(IF count < PageSize THEN count ELSE PageSize) |-> Fetched(next(i))]
     /\ UNCHANGED <<primary, served, mLastProcessedEventId, mContentStorageStartTime,
                    reload, unread, kept, failures>>

\* The handlers of these events ask the storage for the generation.
ReadsGeneration(e) ==
  \/ e.type \in {"GENERATION_ADDED", "GENERATION_STATUS_CHANGED"}
       /\ e.id1 \notin Live(primary.lists.generations)
  \/ e.type = "GENERATION_UPDATED"

ProcessEvent ==
  /\ Following /\ page # <<>>
  /\ LET e == Head(page)
     IN /\ \/ /\ primary' = processEvent(primary, e, TRUE)
              /\ unread' = IF ReadsGeneration(e) THEN unread \ {e.id1} ELSE unread
              /\ UNCHANGED failures
           \/ /\ ReadsGeneration(e) /\ e.id1 \in DOMAIN generations
              /\ failures < MaxFailures
              /\ failures' = failures + 1
              /\ primary' = processEvent(primary, e, FALSE)
              /\ unread' = unread \cup {e.id1}
        /\ mLastProcessedEventId' = e.id
        /\ kept' = IF e.type = "CLEAR" THEN DOMAIN primary.lists.geometries ELSE kept
  /\ page' = Tail(page)
  /\ UNCHANGED <<served, mContentStorageStartTime, reload>>

-----------------------------------------------------------------------------
(* updateContent(), also by the threads of the requests.                    *)

deleteMarkedRecords(c) ==
  [lists |-> [t \in Tables |->
                IF c.counters[t] > 0 THEN Without(c.lists[t], Marked(c.lists[t]))
                                     ELSE c.lists[t]],
   counters |-> [t \in Tables |-> 0]]

LiveLists(c) == [t \in Tables |-> Infos(c.lists[t])]

\* getHash(): all of a producer, the status of a generation and of a geometry,
\* but only the ids of the files and the keys of the content.
Hash(lists) ==
  [producers |-> lists.producers,
   generations |-> [g \in DOMAIN lists.generations |-> lists.generations[g].status],
   geometries |-> [k \in DOMAIN lists.geometries |-> lists.geometries[k].status],
   files |-> DOMAIN lists.files,
   contents |-> DOMAIN lists.contents]

\* Mutant: does not compare the content.
isSearchStructureCurrentBlind(lists, active) ==
  [Hash(lists) EXCEPT !.contents = {}] = [Hash(active) EXCEPT !.contents = {}]

isSearchStructureCurrent(lists, active) == Hash(lists) = Hash(active)

UpdateContent ==
  /\ Following
  /\ primary' = deleteMarkedRecords(primary)
  /\ served' = IF isSearchStructureCurrent(LiveLists(primary'), served)
                 THEN served ELSE LiveLists(primary')
  /\ UNCHANGED <<page, mLastProcessedEventId, mContentStorageStartTime, reload,
                 unread, kept, failures>>

-----------------------------------------------------------------------------
(* reloadData() and init(): the id of the last event first, and then the    *)
(* lists one after the other.  No event is processed in the meantime.       *)

Phases == <<"producers", "generations", "geometries", "files", "contents">>

LastEventId == IF LastEventKnown THEN eventLog.counter ELSE 0

StartReload ==
  /\ Following /\ page = <<>>
  /\ Reachable
  /\ RestartDetected
  /\ reload' = [phase |-> "producers", time |-> mStartTime]
  /\ mLastProcessedEventId' = LastEventId
  /\ UNCHANGED <<primary, served, page, mContentStorageStartTime, unread, kept,
                 failures>>

\* Mutant: the id of the last event is read again at the end.
ReadListLate(i) ==
  LET t == Phases[i]
      last == i = Len(Phases)
  IN /\ reload.phase = t
     /\ Reachable
     /\ primary' = [primary EXCEPT !.lists[t] =
                      [k \in DOMAIN Stored[t] |-> Unmarked(Stored[t][k])]]
     /\ reload' = [reload EXCEPT !.phase = IF last THEN "none" ELSE Phases[i + 1]]
     /\ mContentStorageStartTime' = IF last THEN reload.time ELSE mContentStorageStartTime
     /\ unread' = IF t = "generations" THEN {} ELSE unread
     /\ kept' = IF t = "geometries" THEN {} ELSE kept
     /\ mLastProcessedEventId' = IF last THEN LastEventId ELSE mLastProcessedEventId
     /\ UNCHANGED <<served, page, failures>>

\* read...List(): the list is cleared and filled again.
ReadList(i) ==
  LET t == Phases[i]
      last == i = Len(Phases)
  IN /\ reload.phase = t
     /\ Reachable
     /\ primary' = [primary EXCEPT !.lists[t] =
                      [k \in DOMAIN Stored[t] |-> Unmarked(Stored[t][k])]]
     /\ reload' = [reload EXCEPT !.phase = IF last THEN "none" ELSE Phases[i + 1]]
     /\ mContentStorageStartTime' = IF last THEN reload.time ELSE mContentStorageStartTime
     /\ unread' = IF t = "generations" THEN {} ELSE unread
     /\ kept' = IF t = "geometries" THEN {} ELSE kept
     /\ UNCHANGED <<served, page, mLastProcessedEventId, failures>>

-----------------------------------------------------------------------------
NoLists == [t \in Tables |-> Nothing]

\* The cache has been created and starts to read the storage.
Init ==
  /\ StorageInit
  /\ primary = [lists |-> NoLists, counters |-> [t \in Tables |-> 0]]
  /\ served = NoLists
  /\ page = <<>>
  /\ mLastProcessedEventId = eventLog.counter
  /\ mContentStorageStartTime = mStartTime
  /\ reload = [phase |-> "producers", time |-> mStartTime]
  /\ unread = {} /\ kept = {} /\ failures = 0

ReadLists == \E i \in DOMAIN Phases : ReadList(i)

CacheStep ==
  /\ FetchEvents \/ ProcessEvent \/ UpdateContent \/ StartReload \/ ReadLists
  /\ UNCHANGED storageVars

\* The end of the sleep in clear().  It is meant to be long enough for the
\* cache to process what has been announced, if it can ask for it at all.
FinishClear ==
  /\ Reachable => Following /\ page = <<>> /\ NewEvents = {}
  /\ ClearDelete(ClearedBy = "own")

StorageStep ==
  /\ StorageCall \/ ClearAnnounce \/ FinishClear \/ Restart
  /\ UNCHANGED cacheVars

Next == StorageStep \/ CacheStep

Spec == Init /\ [][Next]_vars

\* The event thread polls every second as long as the server runs, clear()
\* comes to its end, and the storage answers in the end.  No client has to
\* call anything.
FairSpec ==
  /\ Spec
  /\ WF_vars(FetchEvents /\ UNCHANGED storageVars)
  /\ WF_vars(ProcessEvent /\ UNCHANGED storageVars)
  /\ WF_vars(UpdateContent /\ UNCHANGED storageVars)
  /\ WF_vars(StartReload /\ UNCHANGED storageVars)
  /\ WF_vars(ReadLists /\ UNCHANGED storageVars)
  /\ WF_vars(FinishClear /\ UNCHANGED cacheVars)

-----------------------------------------------------------------------------
(* Properties.                                                              *)

TypeOK ==
  /\ StorageTypeOK
  /\ DOMAIN primary.lists = Tables /\ DOMAIN served = Tables
  /\ \A t \in Tables : primary.counters[t] \in Nat
  /\ mLastProcessedEventId \in 0..eventLog.counter
  /\ mContentStorageStartTime \in 1..mStartTime
  /\ reload.phase \in {"none"} \cup Tables

\* The cache has nothing to do: it has read what the storage has announced.
Quiet ==
  /\ Following /\ page = <<>> /\ ~clearing
  /\ ~RestartDetected
  /\ NewEvents = {}

\* "The cache answers exactly like the storage": when every event has been
\* processed the live records of the primary lists are the records of the
\* storage, except for the generations that could not be read and the
\* geometries that the event of a clear() has forgotten.  The handlers
\* read records that are younger than their events, and a reload is followed
\* by events that it has seen the results of.
PrimaryAgrees ==
  Quiet =>
    LET seen(lists) == [lists EXCEPT !.generations = Without(@, unread),
                                     !.geometries = Without(@, kept)]
    IN seen(LiveLists(primary)) = seen(Stored)

\* The cache goes through the events in their order: except where a reload puts it
\* behind the last event, it never goes back, so that no event is processed twice,
\* and it passes over no event that is in the log, although the log is truncated,
\* cleared and grows between the fetch of a page and its last event.
EventsInOrder ==
  [][reload' = reload /\ mLastProcessedEventId' # mLastProcessedEventId =>
       /\ mLastProcessedEventId' > mLastProcessedEventId
       /\ \A k \in DOMAIN eventLog.events :
            k <= mLastProcessedEventId \/ k >= mLastProcessedEventId']_vars

\* The delete counters cover the marked records: updateContent() removes the
\* marked records of a list only if its counter is not 0, although revived
\* records are taken off the counter and a reload does not reset it.
CountersCoverMarks ==
  \A t \in Tables : Cardinality(Marked(primary.lists[t])) <= primary.counters[t]

\* When the clients have stopped the queries come to be answered from what
\* the storage has: its generations and geometries with their status, its
\* files and its content.
Converges == <>[](Hash(served) = Hash(Stored))
=============================================================================
