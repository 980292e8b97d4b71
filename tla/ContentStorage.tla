--------------------------- MODULE ContentStorage ---------------------------
(***************************************************************************)
(* The content storage in Redis (RedisImplementation): producers,          *)
(* generations, geometries, files, content, the filename hash, the id      *)
(* counters and the event log that every consumer follows.                 *)
(*                                                                         *)
(* The writers of all processes are serialised by the lock of RedisLock,   *)
(* so one action is one successful service call; a call that returns an    *)
(* error before it writes anything changes no state.  Only clear() is      *)
(* split, because it sleeps for five seconds between its event and its     *)
(* deletions.                                                              *)
(***************************************************************************)
EXTENDS Integers, FiniteSets, Sequences, SequencesExt, Functions

CONSTANTS
  Producers,        \* the names that a producer may get
  GenerationNames,  \* the names that a generation may get
  FileNames,        \* the names that a file may get
  Messages,         \* the message indexes of a file
  Data,             \* what a content record says of its message
  Statuses,         \* the statuses of a generation
  Geometries,       \* the pairs of a geometry id and a level id that are registered
  GeometryStatuses, \* the statuses of a geometry
  GeometryOf,       \* message -> geometry id and level id of its content
  Operations,       \* the service calls that the clients make
  MaxCalls,         \* bound on the calls of a behaviour
  MaxRestarts,      \* bound on the restarts of the content server
  FileIdModulus,    \* file ids are cut to this range (2^32)
  MaxEvents,        \* the event log is truncated above this length (3000000)
  TruncateStep,     \* ... and tested for it after this many events (10000)
  Loaded,           \* the storage already has a file when a behaviour starts
  GoneFiles,        \* ... and this many files have come and gone after it
  RegisterOnce      \* a file name belongs to one generation for ever, and a
                    \* geometry is added if it is unknown and set if it is known

ASSUME StorageAssumption ==
  /\ Messages \subseteq Nat /\ IsFiniteSet(Messages)
  /\ MaxCalls \in Nat /\ MaxRestarts \in Nat
  /\ FileIdModulus \in Nat \ {0, 1}
  /\ MaxEvents \in Nat /\ TruncateStep \in Nat \ {0}
  /\ GoneFiles \in 0..(FileIdModulus - 2)
  /\ Loaded \in BOOLEAN /\ RegisterOnce \in BOOLEAN
  /\ IsFiniteSet(Geometries)
  /\ Geometries \subseteq Nat \X Nat /\ GeometryOf \in [Messages -> Nat \X Nat]
  /\ Producers # {} /\ GenerationNames # {} /\ FileNames # {} /\ Messages # {}

VARIABLES
  producers,          \* producer id -> name
  generations,        \* generation id -> [producer, name, status]
  geometries,         \* the sorted set of geometry records
  files,              \* file id -> [producer, generation, name]
  filenames,          \* the hash: file name -> file id
  content,            \* the sorted set of content records
  producerCounter, generationCounter, fileCounter,
  eventLog,           \* eventCounter and the events: event id -> event
  mStartTime,         \* start time of the object that the consumers ask
  clearing,           \* clear() is in its sleep
  calls, restarts     \* what has been used of the bounds

counters == <<producerCounter, generationCounter, fileCounter>>
parents == <<producers, generations, geometries>>
records == <<parents, files, filenames, content>>
storageVars == <<records, counters, eventLog, mStartTime, clearing, calls, restarts>>

-----------------------------------------------------------------------------
(* Partial functions, and the records of the tables. *)

Put(f, k, v) == [x \in DOMAIN f \cup {k} |-> IF x = k THEN v ELSE f[x]]
Without(f, K) == [x \in DOMAIN f \ K |-> f[x]]
Nothing == [x \in {} |-> x]

Event(type, id1, id2, id3) ==
  [type |-> type, id1 |-> id1, id2 |-> id2, id3 |-> id3, flags |-> 0]

GeometryEvent(type, g, k) == Event(type, g, k[1], k[2])

ContentOf(f, m, g, d) ==
  [file |-> f, message |-> m, producer |-> generations[g].producer,
   generation |-> g, data |-> d]

\* getContentKey(): the score under which a content record is stored.  The code
\* packs the pair into (fileId << 24) + messageIndex and Redis keeps it as a
\* double, which is exact for file ids below 2^29 and message indexes below 2^24:
\* what is said of content below is said of these.
Key(r) == <<r.file, r.message>>

GeometryRecord(g, k, status) ==
  [producer |-> generations[g].producer, generation |-> g, geometry |-> k, status |-> status]

\* getGeometryKey(): the score under which a geometry record is stored, in the
\* code (generation << 32) + (geometry << 8) + level as a double: exact for
\* generation ids below 2^21, geometry ids below 2^24 and levels below 2^8.
GeometryKey(x) == <<x.generation, x.geometry>>
GeometriesAt(g, k) == {x \in geometries : GeometryKey(x) = <<g, k>>}

\* The content lists that a client may send for a file: some of its messages.
ContentLists == UNION {[M -> Data] : M \in SUBSET Messages}

ContentsOf(f, g, list) == {ContentOf(f, m, g, list[m]) : m \in DOMAIN list}

-----------------------------------------------------------------------------
(* The helpers that the operations share. *)

\* Mutant: removes one event too many of the young ones.
truncateEventsAll(events) ==
  IF Cardinality(DOMAIN events) > MaxEvents THEN Nothing ELSE events

\* truncateEvents(): drop the oldest events of a log that is too long.
truncateEvents(events) ==
  LET count == Cardinality(DOMAIN events)
      rank(n) == Cardinality({k \in DOMAIN events : k < n})
  IN IF count > MaxEvents
     THEN Without(events,
                  {n \in DOMAIN events : rank(n) <= count - MaxEvents + TruncateStep})
     ELSE events

\* addEvent(): INCR eventCounter and ZADD the event under the new id.
addEvent(log, e) ==
  LET id == log.counter + 1
      events == Put(log.events, id, e)
  IN [counter |-> id,
      events |-> IF id % TruncateStep = 0 THEN truncateEvents(events) ELSE events]

Announce(seq) == eventLog' = FoldLeft(addEvent, eventLog, seq)

\* Mutant: does not look for the ids that are in use.
allocateFileIdInUse(n) ==
  /\ n \in (fileCounter + 1)..(fileCounter + FileIdModulus)
  /\ n % FileIdModulus # 0
  /\ \A k \in (fileCounter + 1)..(n - 1) : k % FileIdModulus = 0

\* allocateFileId(): INCR fileCounter until its low bits are not 0 and not the
\* id of a file.  Here n is the counter, n % FileIdModulus the new id.
allocateFileId(n) ==
  LET free(k) == k % FileIdModulus \notin {0} \cup DOMAIN files
  IN /\ n \in (fileCounter + 1)..(fileCounter + FileIdModulus)
     /\ free(n)
     /\ \A k \in (fileCounter + 1)..(n - 1) : ~free(k)

\* getFileId() and getFileById(): the file that has the name, 0 if there is
\* none.  A name that leads to no record is forgotten by the callers.
FileIdOf(name) ==
  IF name \in DOMAIN filenames /\ filenames[name] \in DOMAIN files
    THEN filenames[name] ELSE 0

\* Mutant: leaves the name in the hash.
deleteFilenamesKept(names) == UNCHANGED filenames

\* deleteFilename(), for the names of some files.
deleteFilenames(names) == filenames' = Without(filenames, names)

NamesOf(F) == {files[f].name : f \in F}

\* deleteContent() for every record of a list: every record under its key goes.
DeleteContent(list) == content' = {r \in content : \A s \in list : Key(s) # Key(r)}

ByFile(f) == {r \in content : r.file = f}
ByGeneration(g) == {r \in content : r.generation = g}
ByProducer(p) == {r \in content : r.producer = p}
FilesOfGeneration(g) == {f \in DOMAIN files : files[f].generation = g}
FilesOfProducer(p) == {f \in DOMAIN files : files[f].producer = p}
GeometriesOf(field, id) == {x \in geometries : x[field] = id}

\* deleteContentByGeometry(): a level id of 0 stands for every level.
ByGeometry(g, k) ==
  {r \in ByGeneration(g) : /\ GeometryOf[r.message][1] = k[1]
                           /\ k[2] > 0 => GeometryOf[r.message][2] = k[2]}

\* deleteFileListBy...(), with the names of the files.
DeleteFiles(F) ==
  /\ deleteFilenames(NamesOf(F))
  /\ files' = Without(files, F)

\* The calls by name find the first record with the name.
ProducersNamed(name) == {p \in DOMAIN producers : producers[p] = name}
GenerationsNamed(name) == {g \in DOMAIN generations : generations[g].name = name}

\* A service call: nobody gets the lock during the sleep of clear().
Call(operation) ==
  /\ operation \in Operations
  /\ ~clearing
  /\ calls < MaxCalls
  /\ calls' = calls + 1
  /\ UNCHANGED <<mStartTime, clearing, restarts>>

-----------------------------------------------------------------------------
(* Init: an empty database with one producer, and the state after the       *)
(* registration of one generation and one file with a content list.         *)

NoFiles ==
  /\ generations = Nothing /\ geometries = {}
  /\ files = Nothing /\ filenames = Nothing /\ content = {}
  /\ generationCounter = 0 /\ fileCounter = 0
  /\ eventLog = addEvent([counter |-> 0, events |-> Nothing], Event("PRODUCER_ADDED", 1, 0, 0))

OneFile ==
  \E g \in GenerationNames, s \in Statuses, gs \in GeometryStatuses, n \in FileNames,
     list \in ContentLists :
    /\ generations = Put(Nothing, 1, [producer |-> 1, name |-> g, status |-> s])
    /\ geometries = {[producer |-> 1, generation |-> 1, geometry |-> k, status |-> gs]
                       : k \in Geometries}
    /\ files = Put(Nothing, 1, [producer |-> 1, generation |-> 1, name |-> n])
    /\ filenames = Put(Nothing, n, 1)
    /\ content = {[file |-> 1, message |-> m, producer |-> 1, generation |-> 1,
                   data |-> list[m]] : m \in DOMAIN list}
    /\ generationCounter = 1 /\ fileCounter = 1 + GoneFiles
    /\ eventLog = FoldLeft(addEvent, [counter |-> 0, events |-> Nothing],
                    <<Event("PRODUCER_ADDED", 1, 0, 0), Event("GENERATION_ADDED", 1, 0, 0),
                      Event("FILE_ADDED", 1, 0, Cardinality(DOMAIN list))>>
                    \o SetToSeq({GeometryEvent("GEOMETRY_ADDED", 1, k) : k \in Geometries})
                    \o [k \in 1..(2 * GoneFiles) |->
                         Event(IF k % 2 = 1 THEN "FILE_ADDED" ELSE "FILE_DELETED",
                               1 + (k + 1) \div 2, 0, 0)])

StorageInit ==
  /\ \E p \in Producers : producers = Put(Nothing, 1, p)
  /\ IF Loaded THEN OneFile ELSE NoFiles
  /\ producerCounter = 1
  /\ mStartTime = 1 /\ clearing = FALSE /\ calls = 0 /\ restarts = 0

-----------------------------------------------------------------------------
(* Producers. *)

addProducerInfo(name) ==
  /\ Call("addProducerInfo")
  /\ \A p \in DOMAIN producers : producers[p] # name
  /\ producerCounter' = producerCounter + 1
  /\ producers' = Put(producers, producerCounter + 1, name)
  /\ Announce(<<Event("PRODUCER_ADDED", producerCounter + 1, 0, 0)>>)
  /\ UNCHANGED <<generations, geometries, files, filenames, content,
                 generationCounter, fileCounter>>

\* An id that does not exist is accepted: the record is added.
setProducerInfo(p, name) ==
  /\ Call("setProducerInfo")
  /\ \A q \in DOMAIN producers \ {p} : producers[q] # name
  /\ producers' = Put(producers, p, name)
  /\ Announce(<<Event("PRODUCER_UPDATED", p, 0, 0)>>)
  /\ UNCHANGED <<generations, geometries, files, filenames, content, counters>>

GenerationsOf(p) == {g \in DOMAIN generations : generations[g].producer = p}

\* The content, the files, the geometries and the generations of a producer.
DeleteAllOfProducer(p) ==
  /\ DeleteContent(ByProducer(p))
  /\ DeleteFiles(FilesOfProducer(p))
  /\ geometries' = geometries \ GeometriesOf("producer", p)
  /\ generations' = Without(generations, GenerationsOf(p))

deleteProducer(p) ==
  /\ DeleteAllOfProducer(p)
  /\ producers' = Without(producers, {p})
  /\ Announce(<<Event("PRODUCER_DELETED", p, 0, 0)>>)
  /\ UNCHANGED counters

deleteProducerInfoById(p) ==
  /\ Call("deleteProducerInfoById")
  /\ p \in DOMAIN producers
  /\ deleteProducer(p)

deleteProducerInfoByName(name) ==
  /\ Call("deleteProducerInfoByName")
  /\ \E p \in ProducersNamed(name) : deleteProducer(p)

-----------------------------------------------------------------------------
(* Generations. *)

\* Mutant: does not look for the name.
addGenerationInfoTwice(p, name, status) ==
  /\ Call("addGenerationInfo")
  /\ p \in DOMAIN producers
  /\ generationCounter' = generationCounter + 1
  /\ generations' = Put(generations, generationCounter + 1,
                        [producer |-> p, name |-> name, status |-> status])
  /\ Announce(<<Event("GENERATION_ADDED", generationCounter + 1, 0, 0)>>)
  /\ UNCHANGED <<producers, geometries, files, filenames, content,
                 producerCounter, fileCounter>>

addGenerationInfo(p, name, status) ==
  /\ Call("addGenerationInfo")
  /\ p \in DOMAIN producers
  /\ \A g \in DOMAIN generations : generations[g].name # name
  /\ generationCounter' = generationCounter + 1
  /\ generations' = Put(generations, generationCounter + 1,
                        [producer |-> p, name |-> name, status |-> status])
  /\ Announce(<<Event("GENERATION_ADDED", generationCounter + 1, 0, 0)>>)
  /\ UNCHANGED <<producers, geometries, files, filenames, content,
                 producerCounter, fileCounter>>

\* An id that does not exist (any more) is accepted: the record is added.
setGenerationInfo(g, p, name, status) ==
  /\ Call("setGenerationInfo")
  /\ p \in DOMAIN producers
  /\ \A h \in DOMAIN generations \ {g} : generations[h].name # name
  /\ generations' = Put(generations, g, [producer |-> p, name |-> name, status |-> status])
  /\ Announce(<<Event("GENERATION_UPDATED", g, 0, 0)>>)
  /\ UNCHANGED <<producers, geometries, files, filenames, content, counters>>

setGenerationStatus(g, status) ==
  /\ generations' = [generations EXCEPT ![g].status = status]
  /\ Announce(<<Event("GENERATION_STATUS_CHANGED", g, status, 0)>>)
  /\ UNCHANGED <<producers, geometries, files, filenames, content, counters>>

setGenerationInfoStatusById(g, status) ==
  /\ Call("setGenerationInfoStatusById")
  /\ g \in DOMAIN generations
  /\ setGenerationStatus(g, status)

setGenerationInfoStatusByName(name, status) ==
  /\ Call("setGenerationInfoStatusByName")
  /\ \E g \in GenerationsNamed(name) : setGenerationStatus(g, status)

\* Mutant: leaves the content of the generations.
deleteGenerationListOnly(G) ==
  /\ DeleteFiles(UNION {FilesOfGeneration(g) : g \in G})
  /\ geometries' = geometries \ UNION {GeometriesOf("generation", g) : g \in G}
  /\ generations' = Without(generations, G)
  /\ Announce(SetToSeq({Event("GENERATION_DELETED", g, 0, 0) : g \in G}))
  /\ UNCHANGED <<producers, content, counters>>

\* The content, the files and the geometries of some generations, and then the
\* generations one by one.
deleteGenerationList(G) ==
  /\ DeleteContent(UNION {ByGeneration(g) : g \in G})
  /\ DeleteFiles(UNION {FilesOfGeneration(g) : g \in G})
  /\ geometries' = geometries \ UNION {GeometriesOf("generation", g) : g \in G}
  /\ generations' = Without(generations, G)
  /\ Announce(SetToSeq({Event("GENERATION_DELETED", g, 0, 0) : g \in G}))
  /\ UNCHANGED <<producers, counters>>

deleteGenerationInfoById(g) ==
  /\ Call("deleteGenerationInfoById")
  /\ g \in DOMAIN generations
  /\ deleteGenerationList({g})

deleteGenerationInfoByName(name) ==
  /\ Call("deleteGenerationInfoByName")
  /\ \E g \in GenerationsNamed(name) : deleteGenerationList({g})

\* An id that does not exist (any more) is announced, too.
deleteGenerationInfoListByIdList(G) ==
  /\ Call("deleteGenerationInfoListByIdList")
  /\ deleteGenerationList(G)

deleteGenerationsOfProducer(p) ==
  /\ DeleteAllOfProducer(p)
  /\ Announce(<<Event("GENERATION_LIST_DELETED_BY_PRODUCER_ID", p, 0, 0)>>)
  /\ UNCHANGED <<producers, counters>>

deleteGenerationInfoListByProducerId(p) ==
  /\ Call("deleteGenerationInfoListByProducerId")
  /\ p \in DOMAIN producers
  /\ deleteGenerationsOfProducer(p)

deleteGenerationInfoListByProducerName(name) ==
  /\ Call("deleteGenerationInfoListByProducerName")
  /\ \E p \in ProducersNamed(name) : deleteGenerationsOfProducer(p)

-----------------------------------------------------------------------------
(* Geometries. *)

\* A record can be stored for a generation that exists, with its producer.
HasProducer(g) == g \in DOMAIN generations /\ generations[g].producer \in DOMAIN producers

\* No test whether the key exists: a second record may come under it.
addGeometryInfo(g, k, status) ==
  /\ Call("addGeometryInfo")
  /\ HasProducer(g)
  /\ RegisterOnce => GeometriesAt(g, k) = {}
  /\ geometries' = geometries \cup {GeometryRecord(g, k, status)}
  /\ Announce(<<GeometryEvent("GEOMETRY_ADDED", g, k)>>)
  /\ UNCHANGED <<producers, generations, files, filenames, content, counters>>

\* A key that does not exist is accepted: the record is added.
setGeometryInfo(g, k, status) ==
  /\ Call("setGeometryInfo")
  /\ HasProducer(g)
  /\ RegisterOnce => GeometriesAt(g, k) # {}
  /\ geometries' = (geometries \ GeometriesAt(g, k)) \cup {GeometryRecord(g, k, status)}
  /\ Announce(<<GeometryEvent("GEOMETRY_UPDATED", g, k)>>)
  /\ UNCHANGED <<producers, generations, files, filenames, content, counters>>

setGeometryInfoStatusById(g, k, status) ==
  /\ Call("setGeometryInfoStatusById")
  /\ \E x \in GeometriesAt(g, k) :
       geometries' = (geometries \ GeometriesAt(g, k)) \cup {[x EXCEPT !.status = status]}
  /\ Announce(<<[GeometryEvent("GEOMETRY_STATUS_CHANGED", g, k) EXCEPT !.flags = status]>>)
  /\ UNCHANGED <<producers, generations, files, filenames, content, counters>>

\* With the content of the geometry, but not the files.
deleteGeometryInfoById(g, k) ==
  /\ Call("deleteGeometryInfoById")
  /\ GeometriesAt(g, k) # {}
  /\ DeleteContent(ByGeometry(g, k))
  /\ geometries' = geometries \ GeometriesAt(g, k)
  /\ Announce(<<GeometryEvent("GEOMETRY_DELETED", g, k)>>)
  /\ UNCHANGED <<producers, generations, files, filenames, counters>>

\* The records only.
deleteGeometryInfoListByGenerationId(g) ==
  /\ Call("deleteGeometryInfoListByGenerationId")
  /\ g \in DOMAIN generations
  /\ geometries' = geometries \ GeometriesOf("generation", g)
  /\ Announce(<<Event("GEOMETRY_LIST_DELETED_BY_GENERATION_ID", g, 0, 0)>>)
  /\ UNCHANGED <<producers, generations, files, filenames, content, counters>>

deleteGeometryInfoListByProducerId(p) ==
  /\ Call("deleteGeometryInfoListByProducerId")
  /\ p \in DOMAIN producers
  /\ geometries' = geometries \ GeometriesOf("producer", p)
  /\ Announce(<<Event("GEOMETRY_LIST_DELETED_BY_PRODUCER_ID", p, 0, 0)>>)
  /\ UNCHANGED <<producers, generations, files, filenames, content, counters>>

-----------------------------------------------------------------------------
(* Files. *)

\* The clients register a known name again only for the generation it has.
Registrable(name, g) ==
  /\ HasProducer(g)
  /\ RegisterOnce /\ FileIdOf(name) # 0 => files[FileIdOf(name)].generation = g

\* The record of a new file and its name.
NewFile(n, name, g) ==
  /\ allocateFileId(n)
  /\ fileCounter' = n
  /\ files' = Put(files, n % FileIdModulus,
                  [producer |-> generations[g].producer, generation |-> g, name |-> name])
  /\ filenames' = Put(filenames, name, n % FileIdModulus)

\* A known name: the caller gets the id of the file, whose record stays.
addFileInfo(name, g) ==
  LET f == FileIdOf(name)
  IN /\ Call("addFileInfo")
     /\ Registrable(name, g)
     /\ \/ /\ f # 0
           /\ Announce(<<Event("FILE_UPDATED", f, 0, 0)>>)
           /\ UNCHANGED <<files, filenames, fileCounter>>
        \/ /\ f = 0
           /\ \E n \in (fileCounter + 1)..(fileCounter + FileIdModulus) :
                /\ NewFile(n, name, g)
                /\ Announce(<<Event("FILE_ADDED", n % FileIdModulus, 0, 0)>>)
     /\ UNCHANGED <<parents, content, producerCounter, generationCounter>>

\* Only the mapping of the old name is tested; the new name is taken over.
setFileInfo(f, name, g) ==
  /\ Call("setFileInfo")
  /\ Registrable(name, g)
  /\ f \in DOMAIN files
  /\ LET old == files[f].name
         known == old \in DOMAIN filenames
     IN /\ known => filenames[old] = f
        /\ filenames' = IF known /\ name # old
                          THEN Put(Without(filenames, {old}), name, f) ELSE filenames
  /\ files' = Put(files, f, [producer |-> generations[g].producer, generation |-> g,
                             name |-> name])
  /\ Announce(<<Event("FILE_UPDATED", f, 0, 0)>>)
  /\ UNCHANGED <<parents, content, counters>>

\* A known name: the old content of the file is replaced, its record stays.
addFileInfoWithContentList(name, g, list) ==
  LET f == FileIdOf(name)
  IN /\ Call("addFileInfoWithContentList")
     /\ Registrable(name, g)
     /\ \/ /\ f # 0
           /\ content' = (content \ ByFile(f)) \cup ContentsOf(f, g, list)
           /\ Announce(<<Event("FILE_UPDATED", f, 0, Cardinality(DOMAIN list))>>)
           /\ UNCHANGED <<files, filenames, fileCounter>>
        \/ /\ f = 0
           /\ \E n \in (fileCounter + 1)..(fileCounter + FileIdModulus) :
                /\ NewFile(n, name, g)
                /\ content' = content \cup ContentsOf(n % FileIdModulus, g, list)
                /\ Announce(<<Event("FILE_ADDED", n % FileIdModulus, 0,
                                    Cardinality(DOMAIN list))>>)
     /\ UNCHANGED <<parents, producerCounter, generationCounter>>

\* The records of a list whose key is not in the database yet.
Missing(S, list) == {r \in list : \A s \in S : Key(s) # Key(r)}

\* One pair of the batch call; replace is the request flag 0x1.
addFileInfoListWithContent(name, g, list, replace) ==
  LET f == FileIdOf(name)
      old == IF replace THEN content \ ByFile(f) ELSE content
      new == Missing(old, ContentsOf(f, g, list))
  IN /\ Call(IF replace THEN "addFileInfoListWithContent(replace)"
                         ELSE "addFileInfoListWithContent")
     /\ Registrable(name, g)
     /\ \/ /\ f # 0
           /\ content' = old \cup new
           /\ IF replace
                THEN Announce(<<Event("FILE_UPDATED", f, 0, 0)>>)
                ELSE Announce(SetToSeq({Event("CONTENT_ADDED", f, r.message, 0) : r \in new}))
           /\ UNCHANGED <<files, filenames, fileCounter>>
        \/ /\ f = 0
           /\ \E n \in (fileCounter + 1)..(fileCounter + FileIdModulus) :
                /\ NewFile(n, name, g)
                /\ content' = content \cup Missing(content, ContentsOf(n % FileIdModulus, g, list))
                /\ Announce(<<Event("FILE_ADDED", n % FileIdModulus, 0,
                                    Cardinality(DOMAIN list))>>)
     /\ UNCHANGED <<parents, producerCounter, generationCounter>>

deleteFileInfoById(f) ==
  /\ Call("deleteFileInfoById")
  /\ f \in DOMAIN files
  /\ DeleteContent(ByFile(f))
  /\ DeleteFiles({f})
  /\ Announce(<<Event("FILE_DELETED", f, 0, 0)>>)
  /\ UNCHANGED <<parents, counters>>

\* The mapping goes even if it leads to no record.
deleteFileInfoByName(name) ==
  /\ Call("deleteFileInfoByName")
  /\ name \in DOMAIN filenames
  /\ deleteFilenames({name})
  /\ LET f == filenames[name]
     IN \/ /\ f \notin DOMAIN files
           /\ UNCHANGED <<files, content, eventLog>>
        \/ /\ f \in DOMAIN files
           /\ DeleteContent(ByFile(f))
           /\ files' = Without(files, {f})
           /\ Announce(<<Event("FILE_DELETED", f, 0, 0)>>)
  /\ UNCHANGED <<parents, counters>>

\* deleteFileListByProducerId(): the content goes by its own producer.
deleteFilesOfProducer(p) ==
  /\ DeleteContent(ByProducer(p))
  /\ DeleteFiles(FilesOfProducer(p))
  /\ Announce(<<Event("FILE_LIST_DELETED_BY_PRODUCER_ID", p, 0, 0)>>)
  /\ UNCHANGED <<parents, counters>>

\* An id that does not exist is accepted.
deleteFileInfoListByProducerId(p) ==
  /\ Call("deleteFileInfoListByProducerId")
  /\ deleteFilesOfProducer(p)

deleteFileInfoListByProducerName(name) ==
  /\ Call("deleteFileInfoListByProducerName")
  /\ \E p \in ProducersNamed(name) : deleteFilesOfProducer(p)

\* deleteFileListByGenerationId(): the content goes by its own generation.
deleteFilesOfGeneration(g) ==
  /\ DeleteContent(ByGeneration(g))
  /\ DeleteFiles(FilesOfGeneration(g))
  /\ Announce(<<Event("FILE_LIST_DELETED_BY_GENERATION_ID", g, 0, 0)>>)
  /\ UNCHANGED <<parents, counters>>

deleteFileInfoListByGenerationId(g) ==
  /\ Call("deleteFileInfoListByGenerationId")
  /\ deleteFilesOfGeneration(g)

deleteFileInfoListByGenerationName(name) ==
  /\ Call("deleteFileInfoListByGenerationName")
  /\ \E g \in GenerationsNamed(name) : deleteFilesOfGeneration(g)

deleteFileInfoListByFileIdList(F) ==
  /\ Call("deleteFileInfoListByFileIdList")
  /\ F \subseteq DOMAIN files
  /\ DeleteContent(UNION {ByFile(f) : f \in F})
  /\ DeleteFiles(F)
  /\ Announce(SetToSeq({Event("FILE_DELETED", f, 0, 0) : f \in F}))
  /\ UNCHANGED <<parents, counters>>

\* The content that a deletion by forecast time selects: the data stands for
\* the forecast time, the geometry and the forecast type.
AtForecastTime(g, d) == {r \in ByGeneration(g) : r.data = d}
FilesOf(list) == {r.file : r \in list}

\* A file goes when no content is left of it; no event tells of the content.
deleteFileInfoListByGenerationIdAndForecastTime(g, d) ==
  LET deleted == AtForecastTime(g, d)
      F == {f \in FilesOf(deleted) \cap DOMAIN files : ByFile(f) \subseteq deleted}
  IN /\ Call("deleteFileInfoListByGenerationIdAndForecastTime")
     /\ g \in DOMAIN generations
     /\ DeleteContent(deleted)
     /\ DeleteFiles(F)
     /\ Announce(SetToSeq({Event("FILE_DELETED", f, 0, 0) : f \in F}))
     /\ UNCHANGED <<parents, counters>>

\* The file of every selected content goes, and its other content stays.
deleteFileInfoListByForecastTimeList(g, d) ==
  LET deleted == AtForecastTime(g, d)
      F == FilesOf(deleted) \cap DOMAIN files
  IN /\ Call("deleteFileInfoListByForecastTimeList")
     /\ DeleteContent(deleted)
     /\ DeleteFiles(F)
     /\ Announce(SetToSeq({Event("FILE_DELETED", f, 0, 0) : f \in F}))
     /\ UNCHANGED <<parents, counters>>

-----------------------------------------------------------------------------
(* Content. *)

\* checkContentReferences(): the file and its generation and producer exist
\* and match; the record is given the generation of its file.
Referable(f) ==
  /\ f \in DOMAIN files
  /\ files[f].generation \in DOMAIN generations
  /\ files[f].producer \in DOMAIN producers
  /\ files[f].producer = generations[files[f].generation].producer

\* No test whether the key exists: a second record may come under it.
addContentInfo(f, m, d) ==
  /\ Call("addContentInfo")
  /\ Referable(f)
  /\ content' = content \cup {ContentOf(f, m, files[f].generation, d)}
  /\ Announce(<<Event("CONTENT_ADDED", f, m, 0)>>)
  /\ UNCHANGED <<parents, files, filenames, counters>>

\* No test whether the key exists: the record may be a new one.
setContentInfo(f, m, d) ==
  /\ Call("setContentInfo")
  /\ Referable(f)
  /\ LET new == ContentOf(f, m, files[f].generation, d)
     IN content' = {r \in content : Key(r) # Key(new)} \cup {new}
  /\ Announce(<<Event("CONTENT_UPDATED", f, m, 0)>>)
  /\ UNCHANGED <<parents, files, filenames, counters>>

\* The records whose key exists are passed over.
addContentList(f, list) ==
  /\ Call("addContentList")
  /\ Referable(f)
  /\ LET new == Missing(content, ContentsOf(f, files[f].generation, list))
     IN /\ content' = content \cup new
        /\ Announce(SetToSeq({Event("CONTENT_ADDED", f, r.message, 0) : r \in new}))
  /\ UNCHANGED <<parents, files, filenames, counters>>

deleteContentInfo(f, m) ==
  /\ Call("deleteContentInfo")
  /\ \E r \in content : Key(r) = <<f, m>>
  /\ content' = {r \in content : Key(r) # <<f, m>>}
  /\ Announce(<<Event("CONTENT_DELETED", f, m, 0)>>)
  /\ UNCHANGED <<parents, files, filenames, counters>>

\* Mutant: tells nobody.
deleteContentOfFileSilent(f) ==
  /\ DeleteContent(ByFile(f))
  /\ UNCHANGED <<parents, files, filenames, counters, eventLog>>

deleteContentOfFile(f) ==
  /\ DeleteContent(ByFile(f))
  /\ Announce(<<Event("CONTENT_LIST_DELETED_BY_FILE_ID", f, 0, 0)>>)
  /\ UNCHANGED <<parents, files, filenames, counters>>

deleteContentListByFileId(f) ==
  /\ Call("deleteContentListByFileId")
  /\ deleteContentOfFile(f)

deleteContentListByFileName(name) ==
  /\ Call("deleteContentListByFileName")
  /\ name \in DOMAIN filenames
  /\ deleteContentOfFile(filenames[name])

deleteContentOfProducer(p) ==
  /\ DeleteContent(ByProducer(p))
  /\ Announce(<<Event("CONTENT_LIST_DELETED_BY_PRODUCER_ID", p, 0, 0)>>)
  /\ UNCHANGED <<parents, files, filenames, counters>>

deleteContentListByProducerId(p) ==
  /\ Call("deleteContentListByProducerId")
  /\ deleteContentOfProducer(p)

deleteContentListByProducerName(name) ==
  /\ Call("deleteContentListByProducerName")
  /\ \E p \in ProducersNamed(name) : deleteContentOfProducer(p)

deleteContentOfGeneration(g) ==
  /\ DeleteContent(ByGeneration(g))
  /\ Announce(<<Event("CONTENT_LIST_DELETED_BY_GENERATION_ID", g, 0, 0)>>)
  /\ UNCHANGED <<parents, files, filenames, counters>>

deleteContentListByGenerationId(g) ==
  /\ Call("deleteContentListByGenerationId")
  /\ deleteContentOfGeneration(g)

deleteContentListByGenerationName(name) ==
  /\ Call("deleteContentListByGenerationName")
  /\ \E g \in GenerationsNamed(name) : deleteContentOfGeneration(g)

-----------------------------------------------------------------------------
(* clear() and the restart of the content server. *)

\* The event, and then the sleep in which the consumers shall read it.
ClearAnnounce ==
  /\ "clear" \in Operations
  /\ ~clearing /\ calls < MaxCalls
  /\ calls' = calls + 1
  /\ clearing' = TRUE
  /\ Announce(<<Event("CLEAR", 0, 0, 0)>>)
  /\ UNCHANGED <<records, counters, mStartTime, restarts>>

\* Mutant: one table survives.
ClearDeleteKept(own) ==
  /\ clearing
  /\ clearing' = FALSE
  /\ producers' = Nothing /\ geometries' = {}
  /\ files' = Nothing /\ filenames' = Nothing /\ content' = {}
  /\ producerCounter' = 0 /\ generationCounter' = 0 /\ fileCounter' = 0
  /\ eventLog' = [eventLog EXCEPT !.events = Nothing]
  /\ mStartTime' = IF own THEN mStartTime + 1 ELSE mStartTime
  /\ UNCHANGED <<generations, calls, restarts>>

\* The deletions.  eventCounter survives them; the start time changes in the
\* object that clears (own), not in those of the other processes.
ClearDelete(own) ==
  /\ clearing
  /\ clearing' = FALSE
  /\ producers' = Nothing /\ generations' = Nothing /\ geometries' = {}
  /\ files' = Nothing /\ filenames' = Nothing /\ content' = {}
  /\ producerCounter' = 0 /\ generationCounter' = 0 /\ fileCounter' = 0
  /\ eventLog' = [eventLog EXCEPT !.events = Nothing]
  /\ mStartTime' = IF own THEN mStartTime + 1 ELSE mStartTime
  /\ UNCHANGED <<calls, restarts>>

\* The process of the content server stops and starts again; what is in the
\* database stays.
Restart ==
  /\ ~clearing
  /\ restarts < MaxRestarts
  /\ restarts' = restarts + 1
  /\ mStartTime' = mStartTime + 1
  /\ UNCHANGED <<records, counters, eventLog, clearing, calls>>

-----------------------------------------------------------------------------
ProducerCalls ==
  \/ \E p \in 1..(producerCounter + 1), name \in Producers :
       \/ addProducerInfo(name)
       \/ p <= producerCounter /\ setProducerInfo(p, name)
       \/ deleteProducerInfoById(p)
  \/ \E name \in Producers : deleteProducerInfoByName(name)

GenerationCalls ==
  \/ \E p \in DOMAIN producers, name \in GenerationNames, status \in Statuses :
       \/ addGenerationInfo(p, name, status)
       \/ \E g \in 1..generationCounter : setGenerationInfo(g, p, name, status)
  \/ \E g \in DOMAIN generations, status \in Statuses : setGenerationInfoStatusById(g, status)
  \/ \E name \in GenerationNames, status \in Statuses :
       setGenerationInfoStatusByName(name, status)
  \/ \E g \in DOMAIN generations : deleteGenerationInfoById(g)
  \/ \E name \in GenerationNames : deleteGenerationInfoByName(name)
  \/ \E G \in SUBSET (1..generationCounter) : deleteGenerationInfoListByIdList(G)
  \/ \E p \in DOMAIN producers : deleteGenerationInfoListByProducerId(p)
  \/ \E name \in Producers : deleteGenerationInfoListByProducerName(name)

GeometryCalls ==
  \/ \E g \in 1..generationCounter, k \in Geometries :
       \/ \E status \in GeometryStatuses :
            \/ addGeometryInfo(g, k, status)
            \/ setGeometryInfo(g, k, status)
            \/ setGeometryInfoStatusById(g, k, status)
       \/ deleteGeometryInfoById(g, k)
  \/ \E g \in DOMAIN generations : deleteGeometryInfoListByGenerationId(g)
  \/ \E p \in DOMAIN producers : deleteGeometryInfoListByProducerId(p)

FileCalls ==
  \/ \E name \in FileNames, g \in DOMAIN generations :
       \/ addFileInfo(name, g)
       \/ \E f \in DOMAIN files : setFileInfo(f, name, g)
       \/ \E list \in ContentLists :
            \/ addFileInfoWithContentList(name, g, list)
            \/ \E replace \in BOOLEAN : addFileInfoListWithContent(name, g, list, replace)
  \/ \E f \in DOMAIN files : deleteFileInfoById(f)
  \/ \E name \in FileNames : deleteFileInfoByName(name)
  \/ \E F \in SUBSET DOMAIN files : deleteFileInfoListByFileIdList(F)
  \/ \E p \in 1..producerCounter : deleteFileInfoListByProducerId(p)
  \/ \E name \in Producers : deleteFileInfoListByProducerName(name)
  \/ \E name \in GenerationNames : deleteFileInfoListByGenerationName(name)
  \/ \E g \in DOMAIN generations :
       \/ deleteFileInfoListByGenerationId(g)
       \/ \E d \in Data :
            \/ deleteFileInfoListByGenerationIdAndForecastTime(g, d)
            \/ deleteFileInfoListByForecastTimeList(g, d)

ContentCalls ==
  \/ \E f \in DOMAIN files :
       \/ \E m \in Messages, d \in Data : addContentInfo(f, m, d) \/ setContentInfo(f, m, d)
       \/ \E list \in ContentLists : addContentList(f, list)
       \/ \E m \in Messages : deleteContentInfo(f, m)
       \/ deleteContentListByFileId(f)
  \/ \E name \in FileNames : deleteContentListByFileName(name)
  \/ \E p \in 1..producerCounter : deleteContentListByProducerId(p)
  \/ \E name \in Producers : deleteContentListByProducerName(name)
  \/ \E g \in DOMAIN generations : deleteContentListByGenerationId(g)
  \/ \E name \in GenerationNames : deleteContentListByGenerationName(name)

StorageCall ==
  ProducerCalls \/ GenerationCalls \/ GeometryCalls \/ FileCalls \/ ContentCalls

StorageNext ==
  \/ StorageCall
  \/ ClearAnnounce
  \/ \E own \in BOOLEAN : ClearDelete(own)
  \/ Restart

StorageSpec == StorageInit /\ [][StorageNext]_storageVars

-----------------------------------------------------------------------------
(* Properties.                                                             *)

ContentRecords ==
  [file : Nat, message : Messages, producer : Nat, generation : Nat, data : Data]

StorageTypeOK ==
  /\ DOMAIN producers \subseteq 1..producerCounter
  /\ \A p \in DOMAIN producers : producers[p] \in Producers
  /\ DOMAIN generations \subseteq 1..generationCounter
  /\ \A g \in DOMAIN generations :
       generations[g] \in [producer : Nat, name : GenerationNames, status : Statuses]
  /\ geometries \subseteq [producer : Nat, generation : Nat, geometry : Geometries,
                           status : GeometryStatuses]
  /\ DOMAIN files \subseteq 1..(FileIdModulus - 1)
  /\ \A f \in DOMAIN files :
       files[f] \in [producer : Nat, generation : Nat, name : FileNames]
  /\ DOMAIN filenames \subseteq FileNames
  /\ content \subseteq ContentRecords
  /\ DOMAIN eventLog.events \subseteq 1..eventLog.counter

\* No two producers and no two generations share a name, whatever is added,
\* renamed, set after its deletion or cleared: the names are what the clients
\* look the records up by.
NamesUnique ==
  /\ \A p, q \in DOMAIN producers : producers[p] = producers[q] => p = q
  /\ \A g, h \in DOMAIN generations : generations[g].name = generations[h].name => g = h

\* The filename hash and the file table agree: every file is found by its name
\* and no name leads to a file that has gone or has another name.  A name that
\* is lost makes the next registration a second record of the same file.
FileNamesResolve ==
  /\ \A f \in DOMAIN files :
       files[f].name \in DOMAIN filenames /\ filenames[files[f].name] = f
  /\ \A name \in DOMAIN filenames :
       filenames[name] \in DOMAIN files /\ files[filenames[name]].name = name

\* getContentListOfInvalidIntegrity(): the content whose file, generation or
\* producer is missing.
contentListOfInvalidIntegrity ==
  {r \in content : \/ r.file \notin DOMAIN files
                   \/ r.generation \notin DOMAIN generations
                   \/ r.producer \notin DOMAIN producers}

\* The integrity check of the storage never finds anything; a content record
\* has the generation and the producer of its file and is the only record under
\* its key; the files and the geometries belong to generations that exist.
ContentBelongs ==
  /\ contentListOfInvalidIntegrity = {}
  /\ \A r \in content :
       /\ r.generation = files[r.file].generation
       /\ r.producer = files[r.file].producer
       /\ \A s \in content : Key(s) = Key(r) => s = r
  /\ \A f \in DOMAIN files : files[f].generation \in DOMAIN generations
  /\ \A x \in geometries :
       /\ x.generation \in DOMAIN generations
       /\ x.producer = generations[x.generation].producer

\* The id of a new file is not 0 and not the id of a living file, also after
\* the counter has passed the 32 bits of an id: the content of the two files
\* would come under the same keys.
FreshFileIds ==
  [][\A k \in DOMAIN eventLog'.events \ DOMAIN eventLog.events :
       LET e == eventLog'.events[k]
       IN e.type = "FILE_ADDED" => e.id1 # 0 /\ e.id1 \notin DOMAIN files]_storageVars

\* "Every modifying call on a master adds an EventInfo": the records never
\* change without a new event, except in the deletions of clear(), whose event
\* comes before them.
ChangesAnnounced ==
  [][records' # records /\ ~clearing => eventLog'.counter > eventLog.counter]_storageVars

\* The log is a window of the newest events: nothing is missing inside it, it
\* is bounded, and except in clear() only what is further back than the window
\* goes, so that a consumer which is not that far behind misses no event.  (The
\* removal by rank takes one event more than the surplus and the step.)
LogIsWindow ==
  /\ [](\A k, n \in DOMAIN eventLog.events : k..n \subseteq DOMAIN eventLog.events)
  /\ [](Cardinality(DOMAIN eventLog.events) <= MaxEvents + TruncateStep - 1)
  /\ [][~clearing =>
          \A k \in DOMAIN eventLog.events :
            k > eventLog'.counter - (MaxEvents - TruncateStep - 1)
              => k \in DOMAIN eventLog'.events]_storageVars
=============================================================================
