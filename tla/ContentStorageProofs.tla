------------------------ MODULE ContentStorageProofs ------------------------
(***************************************************************************)
(* Proofs about ContentStorage for every set of names, messages, data and  *)
(* calls, every bound and every width of the file ids: the names, the       *)
(* filename hash, and that the records belong together.  They rest on the  *)
(* records only; EventLogProofs is about what is announced.                *)
(***************************************************************************)
EXTENDS ContentStorage, TLAPS

\* A generation record has a name that a change of its status leaves alone.
GenerationsHaveNames == \A g \in DOMAIN generations : "name" \in DOMAIN generations[g]

NamesInv == NamesUnique /\ GenerationsHaveNames

\* No file has the id 0, which getFileId() returns for an unknown name.
FilesInv == FileNamesResolve /\ 0 \notin DOMAIN files

-----------------------------------------------------------------------------
\* What Without() makes of a table.
LEMMA WithoutValue ==
  ASSUME NEW f, NEW K
  PROVE  \A x : /\ x \in DOMAIN Without(f, K) <=> x \in DOMAIN f /\ x \notin K
                /\ x \in DOMAIN f /\ x \notin K => Without(f, K)[x] = f[x]
BY DEF Without

\* The empty table.
LEMMA NothingValue == \A x : x \notin DOMAIN Nothing
BY DEF Nothing

-----------------------------------------------------------------------------
(* The names of producers and generations.                                  *)

\* The tables shrink, or stay as they are.
LEMMA NamesShrink ==
  ASSUME NamesInv, NEW P, NEW G,
         producers' = Without(producers, P) \/ UNCHANGED producers,
         generations' = Without(generations, G) \/ UNCHANGED generations
  PROVE  NamesInv'
<1>1. /\ DOMAIN producers' \subseteq DOMAIN producers
      /\ \A x \in DOMAIN producers' : producers'[x] = producers[x]
  BY WithoutValue
<1>2. /\ DOMAIN generations' \subseteq DOMAIN generations
      /\ \A x \in DOMAIN generations' : generations'[x] = generations[x]
  BY WithoutValue
<1> QED
  BY <1>1, <1>2 DEF NamesInv, NamesUnique, GenerationsHaveNames

\* A producer gets a name that no other has.
LEMMA ProducerPut ==
  ASSUME NamesInv, NEW p, NEW name,
         \A q \in DOMAIN producers \ {p} : producers[q] # name,
         producers' = Put(producers, p, name), UNCHANGED generations
  PROVE  NamesInv'
<1>1. /\ producers'[p] = name
      /\ \A x \in DOMAIN producers' :
           x # p => x \in DOMAIN producers /\ producers'[x] = producers[x]
  BY DEF Put
<1> QED
  BY <1>1 DEF NamesInv, NamesUnique, GenerationsHaveNames

\* A generation gets a name that no other has.
LEMMA GenerationPut ==
  ASSUME NamesInv, NEW g, NEW p, NEW name, NEW status,
         \A h \in DOMAIN generations \ {g} : generations[h].name # name,
         generations' = Put(generations, g, [producer |-> p, name |-> name, status |-> status]),
         UNCHANGED producers
  PROVE  NamesInv'
<1> DEFINE new == [producer |-> p, name |-> name, status |-> status]
<1>1. new.name = name /\ "name" \in DOMAIN new
  OBVIOUS
<1>2. generations' = Put(generations, g, new)
  OBVIOUS
<1> HIDE DEF new
<1>3. /\ generations'[g] = new
      /\ \A x \in DOMAIN generations' :
           x # g => x \in DOMAIN generations /\ generations'[x] = generations[x]
  BY <1>2 DEF Put
<1> QED
  BY <1>1, <1>3 DEF NamesInv, NamesUnique, GenerationsHaveNames

\* Every call keeps the names unique: only the additions and the two set calls
\* write a name, and they have looked for it among the other records.
LEMMA NamesStep == NamesInv /\ [StorageNext]_storageVars => NamesInv'
<1> SUFFICES ASSUME NamesInv, [StorageNext]_storageVars PROVE NamesInv'
  OBVIOUS
<1>1. ASSUME ProducerCalls PROVE NamesInv'
  <2>1. ASSUME NEW name, addProducerInfo(name) PROVE NamesInv'
    BY <2>1, ProducerPut DEF addProducerInfo
  <2>2. ASSUME NEW p, NEW name, setProducerInfo(p, name) PROVE NamesInv'
    BY <2>2, ProducerPut DEF setProducerInfo
  <2>3. ASSUME NEW p, deleteProducer(p) PROVE NamesInv'
    BY <2>3, NamesShrink DEF deleteProducer, DeleteAllOfProducer
  <2> QED
    BY <1>1, <2>1, <2>2, <2>3
    DEF ProducerCalls, deleteProducerInfoById, deleteProducerInfoByName
<1>2. ASSUME GenerationCalls PROVE NamesInv'
  <2>1. ASSUME NEW p, NEW name, NEW status, addGenerationInfo(p, name, status)
        PROVE  NamesInv'
    BY <2>1, GenerationPut DEF addGenerationInfo
  <2>2. ASSUME NEW g, NEW p, NEW name, NEW status, setGenerationInfo(g, p, name, status)
        PROVE  NamesInv'
    BY <2>2, GenerationPut DEF setGenerationInfo
  <2>3. ASSUME NEW g, NEW status, setGenerationStatus(g, status)
        PROVE  NamesInv'
    <3>1. /\ DOMAIN generations' = DOMAIN generations
          /\ \A h \in DOMAIN generations :
               /\ generations'[h].name = generations[h].name
               /\ "name" \in DOMAIN generations'[h]
      BY <2>3 DEF setGenerationStatus, NamesInv, GenerationsHaveNames
    <3> QED
      BY <2>3, <3>1 DEF setGenerationStatus, NamesInv, NamesUnique, GenerationsHaveNames
  <2>4. ASSUME NEW G, deleteGenerationList(G) PROVE NamesInv'
    BY <2>4, NamesShrink DEF deleteGenerationList
  <2>5. ASSUME NEW p, deleteGenerationsOfProducer(p) PROVE NamesInv'
    BY <2>5, NamesShrink DEF deleteGenerationsOfProducer, DeleteAllOfProducer
  <2> QED
    BY <1>2, <2>1, <2>2, <2>3, <2>4, <2>5
    DEF GenerationCalls, setGenerationInfoStatusById, setGenerationInfoStatusByName,
        deleteGenerationInfoById, deleteGenerationInfoByName, deleteGenerationInfoListByIdList,
        deleteGenerationInfoListByProducerId, deleteGenerationInfoListByProducerName
<1>3. ASSUME UNCHANGED <<producers, generations>> PROVE NamesInv'
  BY <1>3, NamesShrink
<1>4. ASSUME FileCalls PROVE UNCHANGED <<producers, generations>>
  <2>1. ASSUME NEW name, NEW g, NEW f, addFileInfo(name, g) \/ setFileInfo(f, name, g)
        PROVE  UNCHANGED parents
    BY <2>1 DEF addFileInfo, setFileInfo
  <2>2. ASSUME NEW name, NEW g, NEW list, addFileInfoWithContentList(name, g, list)
        PROVE  UNCHANGED parents
    BY <2>2 DEF addFileInfoWithContentList
  <2>3. ASSUME NEW name, NEW g, NEW list, NEW replace,
               addFileInfoListWithContent(name, g, list, replace)
        PROVE  UNCHANGED parents
    BY <2>3 DEF addFileInfoListWithContent
  <2>4. ASSUME NEW f, NEW name, deleteFileInfoById(f) \/ deleteFileInfoByName(name)
        PROVE  UNCHANGED parents
    BY <2>4 DEF deleteFileInfoById, deleteFileInfoByName
  <2>5. ASSUME NEW F, NEW p, NEW g,
               \/ deleteFileInfoListByFileIdList(F)
               \/ deleteFilesOfProducer(p) \/ deleteFilesOfGeneration(g)
        PROVE  UNCHANGED parents
    BY <2>5 DEF deleteFileInfoListByFileIdList, deleteFilesOfProducer, deleteFilesOfGeneration
  <2>6. ASSUME NEW g, NEW d, deleteFileInfoListByGenerationIdAndForecastTime(g, d)
                               \/ deleteFileInfoListByForecastTimeList(g, d)
        PROVE  UNCHANGED parents
    BY <2>6 DEF deleteFileInfoListByGenerationIdAndForecastTime,
                deleteFileInfoListByForecastTimeList
  <2>7. UNCHANGED parents
    BY <1>4, <2>1, <2>2, <2>3, <2>4, <2>5, <2>6
    DEF FileCalls, deleteFileInfoListByProducerId, deleteFileInfoListByProducerName,
        deleteFileInfoListByGenerationId, deleteFileInfoListByGenerationName
  <2> QED
    BY <2>7 DEF parents
<1>5. ASSUME ContentCalls PROVE UNCHANGED <<producers, generations>>
  <2>1. ASSUME NEW f, NEW m, NEW d, addContentInfo(f, m, d) \/ setContentInfo(f, m, d)
                                      \/ deleteContentInfo(f, m)
        PROVE  UNCHANGED parents
    BY <2>1 DEF addContentInfo, setContentInfo, deleteContentInfo
  <2>2. ASSUME NEW f, NEW list, addContentList(f, list) PROVE UNCHANGED parents
    BY <2>2 DEF addContentList
  <2>3. ASSUME NEW f, deleteContentOfFile(f) \/ deleteContentOfProducer(f)
                        \/ deleteContentOfGeneration(f)
        PROVE  UNCHANGED parents
    BY <2>3 DEF deleteContentOfFile, deleteContentOfProducer, deleteContentOfGeneration
  <2>4. UNCHANGED parents
    BY <1>5, <2>1, <2>2, <2>3
    DEF ContentCalls, deleteContentListByFileId, deleteContentListByFileName,
        deleteContentListByProducerId, deleteContentListByProducerName,
        deleteContentListByGenerationId, deleteContentListByGenerationName
  <2> QED
    BY <2>4 DEF parents
<1>8. ASSUME GeometryCalls PROVE UNCHANGED <<producers, generations>>
  BY <1>8
  DEF GeometryCalls, addGeometryInfo, setGeometryInfo, setGeometryInfoStatusById,
      deleteGeometryInfoById, deleteGeometryInfoListByGenerationId,
      deleteGeometryInfoListByProducerId
<1>6. ASSUME ClearAnnounce \/ Restart \/ UNCHANGED storageVars
      PROVE  UNCHANGED <<producers, generations>>
  BY <1>6 DEF ClearAnnounce, Restart, storageVars, records, parents
<1>7. ASSUME NEW own, ClearDelete(own) PROVE NamesInv'
  BY <1>7, NothingValue DEF ClearDelete, NamesInv, NamesUnique, GenerationsHaveNames
<1> QED
  BY <1>1, <1>2, <1>3, <1>4, <1>5, <1>6, <1>7, <1>8 DEF StorageNext, StorageCall

\* The first producer and the first generation are alone.
LEMMA NamesInit == StorageInit => NamesInv
<1> SUFFICES ASSUME StorageInit PROVE NamesInv
  OBVIOUS
<1>1. PICK p \in Producers : producers = Put(Nothing, 1, p)
  BY DEF StorageInit
<1>2. \A x \in DOMAIN producers : x = 1
  BY <1>1 DEF Put, Nothing
<1>3. CASE NoFiles
  BY <1>2, <1>3, NothingValue DEF NoFiles, NamesInv, NamesUnique, GenerationsHaveNames
<1>4. CASE OneFile
  <2>1. PICK g, s :
          generations = Put(Nothing, 1, [producer |-> 1, name |-> g, status |-> s])
    BY <1>4 DEF OneFile
  <2>2. /\ \A x \in DOMAIN generations : x = 1
        /\ generations[1] = [producer |-> 1, name |-> g, status |-> s]
    BY <2>1 DEF Put, Nothing
  <2> QED
    BY <1>2, <2>2 DEF NamesInv, NamesUnique, GenerationsHaveNames
<1> QED
  BY <1>3, <1>4 DEF StorageInit

\* No two producers and no two generations ever share a name, whatever calls
\* are made in whatever order: addGenerationInfo(), setGenerationInfo() and
\* their counterparts for the producers look for the name first.
THEOREM NamesUniqueHolds == StorageSpec => []NamesUnique
<1>1. NamesInv => NamesUnique
  BY DEF NamesInv
<1> QED
  BY NamesInit, NamesStep, <1>1, PTL DEF StorageSpec

-----------------------------------------------------------------------------
(* The filename hash and the files.                                         *)

\* Some files go together with the names that they have.
LEMMA FilesShrink ==
  ASSUME FilesInv, NEW F, F \subseteq DOMAIN files, DeleteFiles(F)
  PROVE  FilesInv'
<1>0. files' = Without(files, F) /\ deleteFilenames(NamesOf(F))
  BY DEF DeleteFiles
<1>1. \A f : /\ f \in DOMAIN files' <=> f \in DOMAIN files /\ f \notin F
             /\ f \in DOMAIN files /\ f \notin F => files'[f] = files[f]
  BY <1>0, WithoutValue
<1>2. \A name : name \in NamesOf(F) <=> \E f \in F : files[f].name = name
  BY DEF NamesOf
<1>3. \A name : /\ name \in DOMAIN filenames'
                    <=> name \in DOMAIN filenames /\ name \notin NamesOf(F)
                /\ name \in DOMAIN filenames' => filenames'[name] = filenames[name]
  BY <1>0 DEF deleteFilenames, Without
<1> QED
  BY <1>1, <1>2, <1>3 DEF FilesInv, FileNamesResolve

\* A file comes with a name that leads to no file, under an id that no file has.
LEMMA FileAdded ==
  ASSUME FilesInv, NEW n, NEW name, NEW g, FileIdOf(name) = 0, NewFile(n, name, g)
  PROVE  FilesInv'
<1> DEFINE id == n % FileIdModulus
<1>1. id # 0 /\ id \notin DOMAIN files
  BY DEF NewFile, allocateFileId
<1>2. name \notin DOMAIN filenames
  BY DEF FileIdOf, FilesInv, FileNamesResolve
<1>3. /\ files'[id].name = name
      /\ \A f : /\ f \in DOMAIN files' <=> f \in DOMAIN files \/ f = id
                /\ f \in DOMAIN files /\ f # id => files'[f] = files[f]
  BY DEF NewFile, Put
<1>4. /\ filenames'[name] = id
      /\ \A x : /\ x \in DOMAIN filenames' <=> x \in DOMAIN filenames \/ x = name
                /\ x \in DOMAIN filenames /\ x # name => filenames'[x] = filenames[x]
  BY DEF NewFile, Put
<1> HIDE DEF id
<1> QED
  BY <1>1, <1>2, <1>3, <1>4 DEF FilesInv, FileNamesResolve

\* Every call but setFileInfo() keeps the hash and the files together.
LEMMA FilesStep ==
  FilesInv /\ "setFileInfo" \notin Operations /\ [StorageNext]_storageVars => FilesInv'
<1> SUFFICES ASSUME FilesInv, "setFileInfo" \notin Operations, [StorageNext]_storageVars
             PROVE  FilesInv'
  OBVIOUS
<1>1. ASSUME UNCHANGED <<files, filenames>> PROVE FilesInv'
  BY <1>1 DEF FilesInv, FileNamesResolve
<1>2. ASSUME NEW p, DeleteFiles(FilesOfProducer(p)) PROVE FilesInv'
  BY <1>2, FilesShrink DEF FilesOfProducer
<1>3. ASSUME NEW g, DeleteFiles(FilesOfGeneration(g)) PROVE FilesInv'
  BY <1>3, FilesShrink DEF FilesOfGeneration
<1>4. ASSUME ProducerCalls PROVE FilesInv'
  <2>1. ASSUME NEW p, deleteProducer(p) PROVE FilesInv'
    BY <1>2, <2>1 DEF deleteProducer, DeleteAllOfProducer
  <2> QED
    BY <1>1, <1>4, <2>1
    DEF ProducerCalls, addProducerInfo, setProducerInfo, deleteProducerInfoById,
        deleteProducerInfoByName
<1>5. ASSUME GenerationCalls PROVE FilesInv'
  <2>1. ASSUME NEW g, NEW p, NEW name, NEW status,
               \/ addGenerationInfo(p, name, status) \/ setGenerationInfo(g, p, name, status)
               \/ setGenerationStatus(g, status)
        PROVE  FilesInv'
    BY <1>1, <2>1 DEF addGenerationInfo, setGenerationInfo, setGenerationStatus
  <2>2. ASSUME NEW G, deleteGenerationList(G) PROVE FilesInv'
    <3> DEFINE F == UNION {FilesOfGeneration(g) : g \in G}
    <3>1. DeleteFiles(F) /\ F \subseteq DOMAIN files
      BY <2>2 DEF deleteGenerationList, FilesOfGeneration
    <3> QED
      BY <3>1, FilesShrink
  <2>3. ASSUME NEW p, deleteGenerationsOfProducer(p) PROVE FilesInv'
    BY <1>2, <2>3 DEF deleteGenerationsOfProducer, DeleteAllOfProducer
  <2> QED
    BY <1>5, <2>1, <2>2, <2>3
    DEF GenerationCalls, setGenerationInfoStatusById, setGenerationInfoStatusByName,
        deleteGenerationInfoById, deleteGenerationInfoByName, deleteGenerationInfoListByIdList,
        deleteGenerationInfoListByProducerId, deleteGenerationInfoListByProducerName
<1>6. ASSUME FileCalls PROVE FilesInv'
  <2>1. ASSUME NEW name, NEW g, NEW f, addFileInfo(name, g) \/ setFileInfo(f, name, g)
        PROVE  FilesInv'
    BY <1>1, <2>1, FileAdded DEF addFileInfo, setFileInfo, Call
  <2>2. ASSUME NEW name, NEW g, NEW list, addFileInfoWithContentList(name, g, list)
        PROVE  FilesInv'
    BY <1>1, <2>2, FileAdded DEF addFileInfoWithContentList
  <2>3. ASSUME NEW name, NEW g, NEW list, NEW replace,
               addFileInfoListWithContent(name, g, list, replace)
        PROVE  FilesInv'
    BY <1>1, <2>3, FileAdded DEF addFileInfoListWithContent
  <2>4. ASSUME NEW f, deleteFileInfoById(f) PROVE FilesInv'
    BY <2>4, FilesShrink DEF deleteFileInfoById
  <2>5. ASSUME NEW name, deleteFileInfoByName(name) PROVE FilesInv'
    <3> DEFINE f == filenames[name]
    <3>1. f \in DOMAIN files /\ files[f].name = name
      BY <2>5 DEF deleteFileInfoByName, FilesInv, FileNamesResolve
    <3>2. NamesOf({f}) = {name}
      BY <3>1 DEF NamesOf
    <3>3. DeleteFiles({f})
      BY <2>5, <3>1, <3>2 DEF deleteFileInfoByName, DeleteFiles
    <3> QED
      BY <3>1, <3>3, FilesShrink
  <2>6. ASSUME NEW F, deleteFileInfoListByFileIdList(F) PROVE FilesInv'
    BY <2>6, FilesShrink DEF deleteFileInfoListByFileIdList
  <2>7. ASSUME NEW p, NEW g, deleteFilesOfProducer(p) \/ deleteFilesOfGeneration(g)
        PROVE  FilesInv'
    BY <1>2, <1>3, <2>7 DEF deleteFilesOfProducer, deleteFilesOfGeneration
  <2>8. ASSUME NEW g, NEW d, deleteFileInfoListByGenerationIdAndForecastTime(g, d)
        PROVE  FilesInv'
    <3> DEFINE deleted == AtForecastTime(g, d)
               F == {f \in FilesOf(deleted) \cap DOMAIN files : ByFile(f) \subseteq deleted}
    <3>1. DeleteFiles(F) /\ F \subseteq DOMAIN files
      BY <2>8 DEF deleteFileInfoListByGenerationIdAndForecastTime
    <3> QED
      BY <3>1, FilesShrink
  <2>9. ASSUME NEW g, NEW d, deleteFileInfoListByForecastTimeList(g, d) PROVE FilesInv'
    <3> DEFINE F == FilesOf(AtForecastTime(g, d)) \cap DOMAIN files
    <3>1. DeleteFiles(F) /\ F \subseteq DOMAIN files
      BY <2>9 DEF deleteFileInfoListByForecastTimeList
    <3> QED
      BY <3>1, FilesShrink
  <2> QED
    BY <1>6, <2>1, <2>2, <2>3, <2>4, <2>5, <2>6, <2>7, <2>8, <2>9
    DEF FileCalls, deleteFileInfoListByProducerId, deleteFileInfoListByProducerName,
        deleteFileInfoListByGenerationId, deleteFileInfoListByGenerationName
<1>7. ASSUME ClearAnnounce \/ Restart \/ UNCHANGED storageVars
      PROVE  UNCHANGED <<files, filenames>>
  BY <1>7 DEF ClearAnnounce, Restart, storageVars, records
<1>9. ASSUME GeometryCalls PROVE UNCHANGED <<files, filenames>>
  BY <1>9
  DEF GeometryCalls, addGeometryInfo, setGeometryInfo, setGeometryInfoStatusById,
      deleteGeometryInfoById, deleteGeometryInfoListByGenerationId,
      deleteGeometryInfoListByProducerId
<1>10. ASSUME ContentCalls PROVE UNCHANGED <<files, filenames>>
  <2>1. ASSUME NEW f, NEW m, NEW d, addContentInfo(f, m, d) \/ setContentInfo(f, m, d)
                                      \/ deleteContentInfo(f, m)
        PROVE  UNCHANGED <<files, filenames>>
    BY <2>1 DEF addContentInfo, setContentInfo, deleteContentInfo
  <2>2. ASSUME NEW f, NEW list, addContentList(f, list) PROVE UNCHANGED <<files, filenames>>
    BY <2>2 DEF addContentList
  <2>3. ASSUME NEW f, deleteContentOfFile(f) \/ deleteContentOfProducer(f)
                        \/ deleteContentOfGeneration(f)
        PROVE  UNCHANGED <<files, filenames>>
    BY <2>3 DEF deleteContentOfFile, deleteContentOfProducer, deleteContentOfGeneration
  <2> QED
    BY <1>10, <2>1, <2>2, <2>3
    DEF ContentCalls, deleteContentListByFileId, deleteContentListByFileName,
        deleteContentListByProducerId, deleteContentListByProducerName,
        deleteContentListByGenerationId, deleteContentListByGenerationName
<1>8. ASSUME NEW own, ClearDelete(own) PROVE FilesInv'
  BY <1>8, NothingValue DEF ClearDelete, FilesInv, FileNamesResolve
<1> QED
  BY <1>1, <1>4, <1>5, <1>6, <1>7, <1>8, <1>9, <1>10 DEF StorageNext, StorageCall

\* The first file is found by its name.
LEMMA FilesInit == StorageInit => FilesInv
<1> SUFFICES ASSUME StorageInit PROVE FilesInv
  OBVIOUS
<1>1. CASE NoFiles
  BY <1>1, NothingValue DEF NoFiles, FilesInv, FileNamesResolve
<1>2. CASE OneFile
  <2>1. PICK n : /\ files = Put(Nothing, 1, [producer |-> 1, generation |-> 1, name |-> n])
                 /\ filenames = Put(Nothing, n, 1)
    BY <1>2 DEF OneFile
  <2>2. /\ files[1].name = n /\ \A f : f \in DOMAIN files <=> f = 1
        /\ filenames[n] = 1 /\ \A x : x \in DOMAIN filenames <=> x = n
    BY <2>1 DEF Put, Nothing
  <2> QED
    BY <2>2 DEF FilesInv, FileNamesResolve
<1> QED
  BY <1>1, <1>2 DEF StorageInit

\* As long as nobody calls setFileInfo() the hash leads from the name of every
\* file to that file and from no name to a file that has gone, for every width
\* of the file ids and whatever else is called: registrations find the file of
\* a known name, and every deletion takes the names of its files along.
THEOREM FileNamesResolveHolds ==
  "setFileInfo" \notin Operations => (StorageSpec => []FileNamesResolve)
<1> SUFFICES ASSUME "setFileInfo" \notin Operations PROVE StorageSpec => []FileNamesResolve
  OBVIOUS
<1>1. FilesInv /\ [StorageNext]_storageVars => FilesInv'
  BY FilesStep
<1>2. FilesInv => FileNamesResolve
  BY DEF FilesInv
<1> QED
  BY FilesInit, <1>1, <1>2, PTL DEF StorageSpec

-----------------------------------------------------------------------------
(* The records belong together.                                             *)

\* The clients leave out the calls that move a record to another owner or leave a
\* record behind, and register a known file in its own generation.
CarefulClients ==
  /\ RegisterOnce
  /\ Operations \cap {"setGenerationInfo", "setFileInfo", "addContentInfo",
                      "deleteFileInfoListByForecastTimeList"} = {}

\* Content has the owners of its file, and a key of its own.
ContentFits ==
  \A r \in content :
    /\ r.file \in DOMAIN files
    /\ r.generation = files[r.file].generation
    /\ r.producer = files[r.file].producer
    /\ \A s \in content : Key(s) = Key(r) => s = r

\* A file has the producer of its generation.
FilesFit ==
  \A f \in DOMAIN files :
    /\ files[f].generation \in DOMAIN generations
    /\ files[f].producer = generations[files[f].generation].producer

GenerationsFit ==
  /\ generationCounter \in Nat
  /\ \A g \in DOMAIN generations :
       /\ g \in 1..generationCounter
       /\ "producer" \in DOMAIN generations[g]
       /\ generations[g].producer \in DOMAIN producers

GeometriesFit ==
  \A x \in geometries :
    /\ {"generation", "producer"} \subseteq DOMAIN x
    /\ x.generation \in DOMAIN generations
    /\ x.producer = generations[x.generation].producer

Integrity == ContentFits /\ FilesFit /\ GenerationsFit /\ GeometriesFit

LEMMA BelongsFromIntegrity == Integrity => ContentBelongs
BY DEF Integrity, ContentFits, FilesFit, GenerationsFit, GeometriesFit, ContentBelongs,
       contentListOfInvalidIntegrity

-----------------------------------------------------------------------------
(* The helpers.                                                             *)

\* What Put() makes of a table.
LEMMA PutValue ==
  ASSUME NEW f, NEW k, NEW v
  PROVE  /\ Put(f, k, v)[k] = v
         /\ \A x : /\ x \in DOMAIN Put(f, k, v) <=> x \in DOMAIN f \/ x = k
                   /\ x \in DOMAIN f /\ x # k => Put(f, k, v)[x] = f[x]
BY DEF Put

\* The records of a list go, whatever else is under their keys.
LEMMA DeleteContentIs ==
  ASSUME NEW list, DeleteContent(list)
  PROVE  content' \subseteq content /\ content' \cap list = {}
BY DEF DeleteContent

\* The records of a content list have the owners of their file and different keys.
LEMMA OwnersOfContents ==
  ASSUME NEW f, NEW g, NEW list
  PROVE  /\ \A r \in ContentsOf(f, g, list) :
              r.file = f /\ r.generation = g /\ r.producer = generations[g].producer
         /\ \A r, s \in ContentsOf(f, g, list) : Key(r) = Key(s) => r = s
BY DEF ContentsOf, ContentOf, Key

\* Records go, and with every owner what belongs to it.
LEMMA Removal ==
  ASSUME Integrity, UNCHANGED generationCounter,
         \A g \in DOMAIN generations' :
           /\ g \in DOMAIN generations /\ generations'[g] = generations[g]
           /\ generations[g].producer \in DOMAIN producers',
         \A f \in DOMAIN files' :
           /\ f \in DOMAIN files /\ files'[f] = files[f]
           /\ files[f].generation \in DOMAIN generations',
         \A r \in content' : r \in content /\ r.file \in DOMAIN files',
         \A x \in geometries' : x \in geometries /\ x.generation \in DOMAIN generations'
  PROVE  Integrity'
<1>1. ContentFits'
  BY DEF Integrity, ContentFits, Key
<1>2. FilesFit'
  BY DEF Integrity, FilesFit
<1>3. GenerationsFit'
  BY DEF Integrity, GenerationsFit
<1>4. GeometriesFit'
  BY DEF Integrity, GeometriesFit
<1> QED
  BY <1>1, <1>2, <1>3, <1>4 DEF Integrity

\* Content comes to one file, which may be a new one.
LEMMA OwnedContentComes ==
  ASSUME Integrity, NEW f, NEW S,
         UNCHANGED <<parents, generationCounter>>,
         \A x \in DOMAIN files : x \in DOMAIN files' /\ files'[x] = files[x],
         \A x \in DOMAIN files' : x \in DOMAIN files \/ x = f,
         f \in DOMAIN files',
         files'[f].generation \in DOMAIN generations,
         files'[f].producer = generations[files'[f].generation].producer,
         \A r \in S : /\ r.file = f /\ r.generation = files'[f].generation
                      /\ r.producer = files'[f].producer,
         \A r, s \in S : Key(r) = Key(s) => r = s,
         content' \subseteq content \cup S,
         \A r, s \in content' : r \in content /\ s \in S /\ Key(r) = Key(s) => r = s
  PROVE  Integrity'
<1>1. \A r \in content' :
        /\ r.file \in DOMAIN files'
        /\ r.generation = files'[r.file].generation
        /\ r.producer = files'[r.file].producer
  BY DEF Integrity, ContentFits
<1>2. \A r, s \in content' : Key(s) = Key(r) => s = r
  <2> SUFFICES ASSUME NEW r \in content', NEW s \in content', Key(s) = Key(r) PROVE s = r
    OBVIOUS
  <2>1. CASE r \in content /\ s \in content
    BY <2>1 DEF Integrity, ContentFits
  <2>2. CASE r \in S \/ s \in S
    BY <2>2
  <2> QED
    BY <2>1, <2>2
<1>3. ContentFits'
  BY <1>1, <1>2 DEF ContentFits, Key
<1>4. FilesFit'
  BY DEF Integrity, FilesFit, parents
<1> QED
  BY <1>3, <1>4 DEF Integrity, GenerationsFit, GeometriesFit, parents

\* A file that is registered for the first time has no content yet.
LEMMA NewFileIs ==
  ASSUME Integrity, NEW n, NEW name, NEW g, NewFile(n, name, g), HasProducer(g)
  PROVE  LET f == n % FileIdModulus
         IN /\ f \notin DOMAIN files /\ f \in DOMAIN files'
            /\ \A r \in content : r.file # f
            /\ \A x \in DOMAIN files : x \in DOMAIN files' /\ files'[x] = files[x]
            /\ \A x \in DOMAIN files' : x \in DOMAIN files \/ x = f
            /\ files'[f].generation = g
            /\ files'[f].producer = generations[g].producer
<1> DEFINE f == n % FileIdModulus
           record == [producer |-> generations[g].producer, generation |-> g, name |-> name]
<1>1. f \notin DOMAIN files
  BY DEF NewFile, allocateFileId
<1>2. files' = Put(files, f, record)
  BY DEF NewFile
<1>3. record.generation = g /\ record.producer = generations[g].producer
  OBVIOUS
<1> HIDE DEF f, record
<1>4. \A r \in content : r.file # f
  BY <1>1 DEF Integrity, ContentFits
<1>5. files'[f] = record /\ \A x : /\ x \in DOMAIN files' <=> x \in DOMAIN files \/ x = f
                                   /\ x \in DOMAIN files /\ x # f => files'[x] = files[x]
  BY <1>2, PutValue
<1>6. /\ f \notin DOMAIN files /\ f \in DOMAIN files'
      /\ \A r \in content : r.file # f
      /\ \A x \in DOMAIN files : x \in DOMAIN files' /\ files'[x] = files[x]
      /\ \A x \in DOMAIN files' : x \in DOMAIN files \/ x = f
      /\ files'[f].generation = g
      /\ files'[f].producer = generations[g].producer
  BY <1>1, <1>3, <1>4, <1>5
<1> QED
  BY <1>6 DEF f

-----------------------------------------------------------------------------
(* The calls.                                                               *)

\* Everything of a producer goes, in whatever order it is deleted.
LEMMA AllOfProducerGoes ==
  ASSUME Integrity, NEW p, DeleteAllOfProducer(p), UNCHANGED generationCounter,
         producers' = Without(producers, {p}) \/ UNCHANGED producers
  PROVE  Integrity'
<1> DEFINE G == GenerationsOf(p)
           F == FilesOfProducer(p)
<1>1. generations' = Without(generations, G) /\ files' = Without(files, F)
  BY DEF DeleteAllOfProducer, DeleteFiles
<1>2. \A g : /\ g \in G <=> g \in DOMAIN generations /\ generations[g].producer = p
             /\ g \in DOMAIN generations' <=> g \in DOMAIN generations /\ g \notin G
             /\ g \in DOMAIN generations' => generations'[g] = generations[g]
  BY <1>1, WithoutValue DEF GenerationsOf
<1>3. \A f : /\ f \in F <=> f \in DOMAIN files /\ files[f].producer = p
             /\ f \in DOMAIN files' <=> f \in DOMAIN files /\ f \notin F
             /\ f \in DOMAIN files' => files'[f] = files[f]
  BY <1>1, WithoutValue DEF FilesOfProducer
<1>4. content' \subseteq content /\ \A r \in content' : r.producer # p
  BY DeleteContentIs DEF DeleteAllOfProducer, ByProducer
<1>5. geometries' \subseteq geometries /\ \A x \in geometries' : x.producer # p
  BY DEF GeometriesOf, DeleteAllOfProducer
<1>6. \A q : q \in DOMAIN producers /\ q # p => q \in DOMAIN producers'
  BY WithoutValue
<1> HIDE DEF G, F
<1>7. \A g \in DOMAIN generations' : generations[g].producer \in DOMAIN producers'
  BY <1>2, <1>6 DEF Integrity, GenerationsFit
<1>8. \A f \in DOMAIN files' : files[f].generation \in DOMAIN generations'
  BY <1>2, <1>3 DEF Integrity, FilesFit
<1>9. \A r \in content' : r.file \in DOMAIN files'
  BY <1>3, <1>4 DEF Integrity, ContentFits
<1>10. \A x \in geometries' : x.generation \in DOMAIN generations'
  BY <1>2, <1>5 DEF Integrity, GeometriesFit
<1> QED
  BY <1>2, <1>3, <1>4, <1>5, <1>7, <1>8, <1>9, <1>10, Removal

\* Some files go with their content.
LEMMA OwnedFilesGo ==
  ASSUME Integrity, NEW F, files' = Without(files, F), content' \subseteq content,
         \A r \in content' : r.file \notin F,
         UNCHANGED <<producers, generations, geometries, generationCounter>>
  PROVE  Integrity'
<1>1. \A f : /\ f \in DOMAIN files' <=> f \in DOMAIN files /\ f \notin F
             /\ f \in DOMAIN files' => files'[f] = files[f]
  BY WithoutValue
<1>2. \A g \in DOMAIN generations : generations[g].producer \in DOMAIN producers
  BY DEF Integrity, GenerationsFit
<1>3. \A f \in DOMAIN files' : files[f].generation \in DOMAIN generations'
  BY <1>1 DEF Integrity, FilesFit
<1>4. \A r \in content' : r.file \in DOMAIN files'
  BY <1>1 DEF Integrity, ContentFits
<1>5. \A x \in geometries' : x.generation \in DOMAIN generations'
  BY DEF Integrity, GeometriesFit
<1> QED
  BY <1>1, <1>2, <1>3, <1>4, <1>5, Removal

\* Only content and geometries go.
LEMMA LeavesGo ==
  ASSUME Integrity, UNCHANGED <<producers, generations, files, generationCounter>>,
         content' \subseteq content, geometries' \subseteq geometries
  PROVE  Integrity'
BY DEF Integrity, ContentFits, FilesFit, GenerationsFit, GeometriesFit, Key

\* A new or renamed producer takes nothing away.
LEMMA ProducerStep == Integrity /\ ProducerCalls => Integrity'
<1> SUFFICES ASSUME Integrity, ProducerCalls PROVE Integrity'
  OBVIOUS
<1>1. ASSUME NEW p, NEW name, producers' = Put(producers, p, name),
             UNCHANGED <<generations, geometries, files, content, generationCounter>>
      PROVE  Integrity'
  <2>1. \A q \in DOMAIN producers : q \in DOMAIN producers'
    BY <1>1, PutValue
  <2> QED
    BY <1>1, <2>1
    DEF Integrity, ContentFits, FilesFit, GenerationsFit, GeometriesFit, Key
<1>2. ASSUME NEW name, addProducerInfo(name) PROVE Integrity'
  BY <1>1, <1>2 DEF addProducerInfo
<1>3. ASSUME NEW p, NEW name, setProducerInfo(p, name) PROVE Integrity'
  BY <1>1, <1>3 DEF setProducerInfo, counters
<1>4. ASSUME NEW p, deleteProducer(p) PROVE Integrity'
  BY <1>4, AllOfProducerGoes DEF deleteProducer, counters
<1> QED
  BY <1>2, <1>3, <1>4
  DEF ProducerCalls, deleteProducerInfoById, deleteProducerInfoByName

\* A new generation has an id of its own; a deleted one takes everything along.
LEMMA GenerationStep ==
  Integrity /\ "setGenerationInfo" \notin Operations /\ GenerationCalls => Integrity'
<1> SUFFICES ASSUME Integrity, "setGenerationInfo" \notin Operations, GenerationCalls
             PROVE  Integrity'
  OBVIOUS
<1>1. ASSUME NEW p, NEW name, NEW status, addGenerationInfo(p, name, status)
      PROVE  Integrity'
  <2> DEFINE new == [producer |-> p, name |-> name, status |-> status]
             g == generationCounter + 1
  <2>1. /\ p \in DOMAIN producers /\ generationCounter' = g
        /\ generations' = Put(generations, g, new)
        /\ UNCHANGED <<producers, geometries, files, content>>
    BY <1>1 DEF addGenerationInfo
  <2>2. "producer" \in DOMAIN new /\ new.producer = p
    OBVIOUS
  <2>3. g \notin DOMAIN generations /\ g \in Nat /\ g \in 1..g
        /\ \A x \in 1..generationCounter : x \in 1..g
    BY DEF Integrity, GenerationsFit
  <2> HIDE DEF new, g
  <2>4. generations'[g] = new
        /\ \A x : /\ x \in DOMAIN generations' <=> x \in DOMAIN generations \/ x = g
                  /\ x \in DOMAIN generations => generations'[x] = generations[x]
    BY <2>1, <2>3, PutValue
  <2>5. GenerationsFit'
    BY <2>1, <2>2, <2>3, <2>4 DEF Integrity, GenerationsFit
  <2> QED
    BY <2>1, <2>4, <2>5 DEF Integrity, ContentFits, FilesFit, GeometriesFit, Key
<1>2. ASSUME NEW g, NEW p, NEW name, NEW status, setGenerationInfo(g, p, name, status)
      PROVE  FALSE
  BY <1>2 DEF setGenerationInfo, Call
<1>3. ASSUME NEW g, NEW status, setGenerationStatus(g, status) PROVE Integrity'
  <2>1. UNCHANGED <<producers, geometries, files, content, generationCounter>>
    BY <1>3 DEF setGenerationStatus, counters
  <2>2. /\ DOMAIN generations' = DOMAIN generations
        /\ \A h \in DOMAIN generations :
             /\ generations'[h].producer = generations[h].producer
             /\ "producer" \in DOMAIN generations'[h]
    BY <1>3 DEF setGenerationStatus, Integrity, GenerationsFit
  <2> QED
    BY <2>1, <2>2 DEF Integrity, ContentFits, FilesFit, GenerationsFit, GeometriesFit, Key
<1>4. ASSUME NEW G, deleteGenerationList(G) PROVE Integrity'
  <2> DEFINE F == UNION {FilesOfGeneration(g) : g \in G}
  <2>1. /\ generations' = Without(generations, G) /\ files' = Without(files, F)
        /\ UNCHANGED <<producers, generationCounter>>
    BY <1>4 DEF deleteGenerationList, DeleteFiles, counters
  <2>2. content' \subseteq content /\ content' \cap UNION {ByGeneration(g) : g \in G} = {}
    BY <1>4, DeleteContentIs DEF deleteGenerationList
  <2>3. \A r \in content' : r.generation \notin G
    BY <2>2 DEF ByGeneration
  <2>4. geometries' \subseteq geometries /\ \A x \in geometries' : x.generation \notin G
    BY <1>4 DEF GeometriesOf, deleteGenerationList
  <2>5. \A f : /\ f \in DOMAIN files'
                    <=> f \in DOMAIN files /\ files[f].generation \notin G
               /\ f \in DOMAIN files' => files'[f] = files[f]
    BY <2>1, WithoutValue DEF FilesOfGeneration
  <2>6. \A g : /\ g \in DOMAIN generations' <=> g \in DOMAIN generations /\ g \notin G
               /\ g \in DOMAIN generations' => generations'[g] = generations[g]
    BY <2>1, WithoutValue
  <2> HIDE DEF F
  <2>7. \A g \in DOMAIN generations' : generations[g].producer \in DOMAIN producers'
    BY <2>1, <2>6 DEF Integrity, GenerationsFit
  <2>8. \A f \in DOMAIN files' : files[f].generation \in DOMAIN generations'
    BY <2>5, <2>6 DEF Integrity, FilesFit
  <2>9. \A r \in content' : r.file \in DOMAIN files'
    BY <2>2, <2>3, <2>5 DEF Integrity, ContentFits
  <2>10. \A x \in geometries' : x.generation \in DOMAIN generations'
    BY <2>4, <2>6 DEF Integrity, GeometriesFit
  <2> QED
    BY <2>1, <2>2, <2>4, <2>5, <2>6, <2>7, <2>8, <2>9, <2>10, Removal
<1>5. ASSUME NEW p, deleteGenerationsOfProducer(p) PROVE Integrity'
  BY <1>5, AllOfProducerGoes DEF deleteGenerationsOfProducer, counters
<1> QED
  BY <1>1, <1>2, <1>3, <1>4, <1>5
  DEF GenerationCalls, setGenerationInfoStatusById, setGenerationInfoStatusByName,
      deleteGenerationInfoById, deleteGenerationInfoByName, deleteGenerationInfoListByIdList,
      deleteGenerationInfoListByProducerId, deleteGenerationInfoListByProducerName

\* A geometry has the producer of its generation, whoever writes it.
LEMMA GeometryStep == Integrity /\ GeometryCalls => Integrity'
<1> SUFFICES ASSUME Integrity, GeometryCalls PROVE Integrity'
  OBVIOUS
<1>1. ASSUME UNCHANGED <<producers, generations, files, content, counters>>, GeometriesFit'
      PROVE  Integrity'
  BY <1>1 DEF Integrity, ContentFits, FilesFit, GenerationsFit, Key, counters
<1>2. ASSUME NEW g, NEW k, NEW status,
             addGeometryInfo(g, k, status) \/ setGeometryInfo(g, k, status)
      PROVE  Integrity'
  <2> DEFINE new == GeometryRecord(g, k, status)
  <2>1. /\ g \in DOMAIN generations /\ geometries' \subseteq geometries \cup {new}
        /\ UNCHANGED <<producers, generations, files, content, counters>>
    BY <1>2 DEF addGeometryInfo, setGeometryInfo, HasProducer
  <2>2. /\ {"generation", "producer"} \subseteq DOMAIN new
        /\ new.generation = g /\ new.producer = generations[g].producer
    BY DEF GeometryRecord
  <2> HIDE DEF new
  <2> QED
    BY <1>1, <2>1, <2>2 DEF Integrity, GeometriesFit
<1>3. ASSUME NEW g, NEW k, NEW status, setGeometryInfoStatusById(g, k, status) PROVE Integrity'
  <2>1. PICK x \in geometries :
          geometries' \subseteq geometries \cup {[x EXCEPT !.status = status]}
    BY <1>3 DEF setGeometryInfoStatusById, GeometriesAt
  <2> DEFINE new == [x EXCEPT !.status = status]
  <2>2. /\ {"generation", "producer"} \subseteq DOMAIN new
        /\ new.generation = x.generation /\ new.producer = x.producer
    BY DEF Integrity, GeometriesFit
  <2>3. geometries' \subseteq geometries \cup {new}
    BY <2>1
  <2> HIDE DEF new
  <2>4. UNCHANGED <<producers, generations, files, content, counters>>
    BY <1>3 DEF setGeometryInfoStatusById
  <2> QED
    BY <1>1, <2>2, <2>3, <2>4 DEF Integrity, GeometriesFit
<1>4. ASSUME NEW g, NEW k, deleteGeometryInfoById(g, k) PROVE Integrity'
  BY <1>4, DeleteContentIs, LeavesGo DEF deleteGeometryInfoById, counters
<1>5. ASSUME NEW id, \/ deleteGeometryInfoListByGenerationId(id)
                     \/ deleteGeometryInfoListByProducerId(id)
      PROVE  Integrity'
  BY <1>5, LeavesGo
  DEF deleteGeometryInfoListByGenerationId, deleteGeometryInfoListByProducerId, counters
<1> QED
  BY <1>2, <1>3, <1>4, <1>5 DEF GeometryCalls

\* The content list of a file that is registered for the first time, or none.
LEMMA OwnedFileComes ==
  ASSUME Integrity, NEW n, NEW name, NEW g, NewFile(n, name, g), HasProducer(g),
         UNCHANGED <<parents, generationCounter>>,
         NEW list, NEW S, S \subseteq ContentsOf(n % FileIdModulus, g, list),
         content' \subseteq content \cup S
  PROVE  Integrity'
<1> DEFINE f == n % FileIdModulus
<1>1. /\ f \in DOMAIN files' /\ \A r \in content : r.file # f
      /\ \A x \in DOMAIN files : x \in DOMAIN files' /\ files'[x] = files[x]
      /\ \A x \in DOMAIN files' : x \in DOMAIN files \/ x = f
      /\ files'[f].generation = g /\ files'[f].producer = generations[g].producer
  BY NewFileIs
<1>2. /\ \A r \in S : r.file = f /\ r.generation = g /\ r.producer = generations[g].producer
      /\ \A r, s \in S : Key(r) = Key(s) => r = s
  BY OwnersOfContents
<1> HIDE DEF f
<1>3. \A r, s \in content' : r \in content /\ s \in S /\ Key(r) = Key(s) => r = s
  BY <1>1, <1>2 DEF Key
<1> QED
  BY <1>1, <1>2, <1>3, OwnedContentComes DEF HasProducer

\* A file that is known gets content of a list in the place of some of its own.
LEMMA FileGrows ==
  ASSUME Integrity, NEW f \in DOMAIN files, NEW g, g = files[f].generation, NEW list, NEW S,
         UNCHANGED <<parents, files, generationCounter>>,
         S \subseteq ContentsOf(f, g, list), content' \subseteq content \cup S,
         \A r, s \in content' : r \in content /\ s \in S /\ Key(r) = Key(s) => r = s
  PROVE  Integrity'
<1>1. g \in DOMAIN generations /\ files[f].producer = generations[g].producer
  BY DEF Integrity, FilesFit
<1>2. /\ \A r \in S : r.file = f /\ r.generation = g /\ r.producer = generations[g].producer
      /\ \A r, s \in S : Key(r) = Key(s) => r = s
  BY OwnersOfContents
<1> QED
  BY <1>1, <1>2, OwnedContentComes

\* A known name belongs to a file of the generation for which it is registered.
LEMMA KnownFile ==
  ASSUME RegisterOnce, NEW name, NEW g, Registrable(name, g), FileIdOf(name) # 0
  PROVE  /\ FileIdOf(name) \in DOMAIN files
         /\ g = files[FileIdOf(name)].generation
BY DEF Registrable, FileIdOf

\* A registration writes content of the file only, under its owners; a deletion
\* of a file takes all its content along.
LEMMA FileStep == Integrity /\ CarefulClients /\ FileCalls => Integrity'
<1> SUFFICES ASSUME Integrity, CarefulClients, FileCalls PROVE Integrity'
  OBVIOUS
<1>1. ASSUME NEW name, NEW g, addFileInfo(name, g) PROVE Integrity'
  <2>1. UNCHANGED <<parents, content, generationCounter>> /\ HasProducer(g)
    BY <1>1 DEF addFileInfo, Registrable
  <2>2. CASE UNCHANGED files
    BY <2>1, <2>2, LeavesGo DEF parents
  <2>3. ASSUME NEW n, NewFile(n, name, g) PROVE Integrity'
    BY <2>1, <2>3, OwnedFileComes
  <2> QED
    BY <1>1, <2>2, <2>3 DEF addFileInfo
<1>2. ASSUME NEW name, NEW g, NEW f, setFileInfo(f, name, g) PROVE FALSE
  BY <1>2 DEF setFileInfo, Call, CarefulClients
<1>3. ASSUME NEW name, NEW g, NEW list, addFileInfoWithContentList(name, g, list)
      PROVE  Integrity'
  <2> DEFINE f == FileIdOf(name)
  <2>1. UNCHANGED <<parents, generationCounter>> /\ Registrable(name, g) /\ HasProducer(g)
    BY <1>3 DEF addFileInfoWithContentList, Registrable
  <2>2. ASSUME f # 0, UNCHANGED files,
               content' = (content \ ByFile(f)) \cup ContentsOf(f, g, list)
        PROVE  Integrity'
    <3> DEFINE S == ContentsOf(f, g, list)
    <3>1. f \in DOMAIN files /\ g = files[f].generation
      BY <2>1, <2>2, KnownFile DEF CarefulClients
    <3>2. \A r, s \in S : r.file = f /\ (Key(r) = Key(s) => r = s)
      BY OwnersOfContents
    <3>3. \A r \in content' : r \in S \/ (r \in content /\ r.file # f)
      BY <2>2 DEF ByFile
    <3>4. \A r, s : Key(r) = Key(s) => r.file = s.file
      BY DEF Key
    <3> HIDE DEF f, S
    <3>5. \A r, s \in content' : r \in content /\ s \in S /\ Key(r) = Key(s) => r = s
      BY <3>2, <3>3, <3>4
    <3>6. S \subseteq ContentsOf(f, g, list) /\ content' \subseteq content \cup S
      BY <2>2 DEF S, f
    <3> QED
      BY <2>1, <2>2, <3>1, <3>6, <3>5, FileGrows
  <2>3. ASSUME NEW n, NewFile(n, name, g),
               content' = content \cup ContentsOf(n % FileIdModulus, g, list)
        PROVE  Integrity'
    BY <2>1, <2>3, OwnedFileComes
  <2> QED
    BY <1>3, <2>2, <2>3 DEF addFileInfoWithContentList
<1>4. ASSUME NEW name, NEW g, NEW list, NEW replace,
             addFileInfoListWithContent(name, g, list, replace)
      PROVE  Integrity'
  <2> DEFINE f == FileIdOf(name)
             old == IF replace THEN content \ ByFile(f) ELSE content
             S == Missing(old, ContentsOf(f, g, list))
  <2>1. UNCHANGED <<parents, generationCounter>> /\ Registrable(name, g) /\ HasProducer(g)
    BY <1>4 DEF addFileInfoListWithContent, Registrable
  <2>2. ASSUME f # 0, UNCHANGED files, content' = old \cup S
        PROVE  Integrity'
    <3>1. f \in DOMAIN files /\ g = files[f].generation
      BY <2>1, <2>2, KnownFile DEF CarefulClients
    <3>2. /\ S \subseteq ContentsOf(f, g, list)
          /\ \A r \in old, s \in S : Key(r) # Key(s)
      BY DEF Missing
    <3>3. \A r, s \in S : Key(r) = Key(s) => r = s
      BY <3>2, OwnersOfContents
    <3>4. old \subseteq content
      OBVIOUS
    <3> HIDE DEF f, old, S
    <3>5. \A r, s \in content' : r \in content /\ s \in S /\ Key(r) = Key(s) => r = s
      BY <2>2, <3>2, <3>3
    <3>6. content' \subseteq content \cup S
      BY <2>2, <3>4
    <3> QED
      BY <2>1, <2>2, <3>1, <3>2, <3>5, <3>6, FileGrows
  <2>3. ASSUME NEW n, NewFile(n, name, g),
               content' = content \cup Missing(content, ContentsOf(n % FileIdModulus, g, list))
        PROVE  Integrity'
    <3> DEFINE T == Missing(content, ContentsOf(n % FileIdModulus, g, list))
    <3>1. T \subseteq ContentsOf(n % FileIdModulus, g, list) /\ content' \subseteq content \cup T
      BY <2>3 DEF Missing
    <3> QED
      BY <2>1, <2>3, <3>1, OwnedFileComes
  <2> QED
    BY <1>4, <2>2, <2>3 DEF addFileInfoListWithContent
<1>5. ASSUME NEW F, files' = Without(files, F), UNCHANGED <<parents, counters>>,
             DeleteContent(UNION {ByFile(f) : f \in F})
      PROVE  Integrity'
  <2>1. content' \subseteq content /\ \A r \in content' : r.file \notin F
    BY <1>5, DeleteContentIs DEF ByFile
  <2> QED
    BY <1>5, <2>1, OwnedFilesGo DEF parents, counters
<1>6. ASSUME NEW f, files' = Without(files, {f}), UNCHANGED <<parents, counters>>,
             DeleteContent(ByFile(f))
      PROVE  Integrity'
  <2>1. content' \subseteq content /\ \A r \in content' : r.file # f
    BY <1>6, DeleteContentIs DEF ByFile
  <2> QED
    BY <1>6, <2>1, OwnedFilesGo DEF parents, counters
<1>7. ASSUME NEW name, deleteFileInfoByName(name) PROVE Integrity'
  BY <1>6, <1>7, LeavesGo DEF deleteFileInfoByName, parents, counters
<1>8. ASSUME NEW p, deleteFilesOfProducer(p) PROVE Integrity'
  <2>1. content' \subseteq content /\ \A r \in content' : r.producer # p
    BY <1>8, DeleteContentIs DEF deleteFilesOfProducer, ByProducer
  <2>2. \A r \in content' : r.file \notin FilesOfProducer(p)
    BY <2>1 DEF FilesOfProducer, Integrity, ContentFits
  <2> QED
    BY <1>8, <2>1, <2>2, OwnedFilesGo DEF deleteFilesOfProducer, DeleteFiles, parents, counters
<1>9. ASSUME NEW g, deleteFilesOfGeneration(g) PROVE Integrity'
  <2>1. content' \subseteq content /\ \A r \in content' : r.generation # g
    BY <1>9, DeleteContentIs DEF deleteFilesOfGeneration, ByGeneration
  <2>2. \A r \in content' : r.file \notin FilesOfGeneration(g)
    BY <2>1 DEF FilesOfGeneration, Integrity, ContentFits
  <2> QED
    BY <1>9, <2>1, <2>2, OwnedFilesGo DEF deleteFilesOfGeneration, DeleteFiles, parents, counters
<1>10. ASSUME NEW g, NEW d, deleteFileInfoListByGenerationIdAndForecastTime(g, d)
       PROVE  Integrity'
  <2> DEFINE deleted == AtForecastTime(g, d)
             F == {f \in FilesOf(deleted) \cap DOMAIN files : ByFile(f) \subseteq deleted}
  <2>1. content' \subseteq content /\ content' \cap deleted = {}
        /\ files' = Without(files, F) /\ UNCHANGED <<parents, counters>>
    BY <1>10, DeleteContentIs DEF deleteFileInfoListByGenerationIdAndForecastTime, DeleteFiles
  <2>2. \A r \in content' : r.file \notin F
    BY <2>1 DEF ByFile
  <2> QED
    BY <2>1, <2>2, OwnedFilesGo DEF parents, counters
<1>11. ASSUME NEW g, NEW d, deleteFileInfoListByForecastTimeList(g, d) PROVE FALSE
  BY <1>11 DEF deleteFileInfoListByForecastTimeList, Call, CarefulClients
<1> QED
  BY <1>1, <1>2, <1>3, <1>4, <1>5, <1>6, <1>7, <1>8, <1>9, <1>10, <1>11
  DEF FileCalls, deleteFileInfoById, deleteFileInfoListByFileIdList, DeleteFiles,
      deleteFileInfoListByProducerId, deleteFileInfoListByProducerName,
      deleteFileInfoListByGenerationId, deleteFileInfoListByGenerationName

\* Content is written under the owners of its file, or goes.
LEMMA ContentStep ==
  Integrity /\ "addContentInfo" \notin Operations /\ ContentCalls => Integrity'
<1> SUFFICES ASSUME Integrity, "addContentInfo" \notin Operations, ContentCalls PROVE Integrity'
  OBVIOUS
<1>1. ASSUME NEW f, NEW m, NEW d, addContentInfo(f, m, d) PROVE FALSE
  BY <1>1 DEF addContentInfo, Call
<1>2. ASSUME NEW f, NEW m, NEW d, setContentInfo(f, m, d) PROVE Integrity'
  <2> DEFINE g == files[f].generation
             new == ContentOf(f, m, g, d)
             S == {new}
  <2>1. /\ f \in DOMAIN files /\ g \in DOMAIN generations
        /\ files[f].producer = generations[g].producer
        /\ content' = {r \in content : Key(r) # Key(new)} \cup {new}
        /\ UNCHANGED <<parents, files, counters>>
    BY <1>2 DEF setContentInfo, Referable
  <2>2. new.file = f /\ new.generation = g /\ new.producer = generations[g].producer
    BY DEF ContentOf
  <2> HIDE DEF new, g
  <2>3. /\ UNCHANGED <<parents, files, generationCounter>> /\ g = files[f].generation
        /\ files'[f].generation = g /\ files'[f].producer = generations[g].producer
    BY <2>1 DEF counters, g
  <2>4. /\ \A r \in S : r.file = f /\ r.generation = g /\ r.producer = generations[g].producer
        /\ \A r, s \in S : Key(r) = Key(s) => r = s
        /\ content' \subseteq content \cup S
        /\ \A r, s \in content' : r \in content /\ s \in S /\ Key(r) = Key(s) => r = s
    BY <2>1, <2>2
  <2> HIDE DEF S
  <2> QED
    BY <2>1, <2>3, <2>4, OwnedContentComes
<1>3. ASSUME NEW f, NEW list, addContentList(f, list) PROVE Integrity'
  <2> DEFINE g == files[f].generation
             S == Missing(content, ContentsOf(f, g, list))
  <2>1. /\ f \in DOMAIN files /\ content' = content \cup S
        /\ UNCHANGED <<parents, files, generationCounter>>
    BY <1>3 DEF addContentList, Referable, counters
  <2>2. S \subseteq ContentsOf(f, g, list) /\ \A r \in content, s \in S : Key(r) # Key(s)
    BY DEF Missing
  <2> HIDE DEF S
  <2> QED
    BY <2>1, <2>2, FileGrows
<1>4. ASSUME NEW f, NEW m, deleteContentInfo(f, m) PROVE Integrity'
  BY <1>4, LeavesGo DEF deleteContentInfo, parents, counters
<1>5. ASSUME NEW id, deleteContentOfFile(id) \/ deleteContentOfProducer(id)
                       \/ deleteContentOfGeneration(id)
      PROVE  Integrity'
  BY <1>5, DeleteContentIs, LeavesGo
  DEF deleteContentOfFile, deleteContentOfProducer, deleteContentOfGeneration, parents, counters
<1> QED
  BY <1>1, <1>2, <1>3, <1>4, <1>5
  DEF ContentCalls, deleteContentListByFileId, deleteContentListByFileName,
      deleteContentListByProducerId, deleteContentListByProducerName,
      deleteContentListByGenerationId, deleteContentListByGenerationName

\* The deletions of clear() leave no record.
LEMMA IntegrityStep == Integrity /\ CarefulClients /\ [StorageNext]_storageVars => Integrity'
<1> SUFFICES ASSUME Integrity, CarefulClients, [StorageNext]_storageVars PROVE Integrity'
  OBVIOUS
<1>1. ASSUME ClearAnnounce \/ Restart \/ UNCHANGED storageVars PROVE Integrity'
  BY <1>1, LeavesGo DEF ClearAnnounce, Restart, storageVars, records, parents, counters
<1>2. ASSUME NEW own, ClearDelete(own) PROVE Integrity'
  <2>1. /\ \A x : x \notin DOMAIN Nothing
        /\ generationCounter' = 0 /\ content' = {} /\ geometries' = {}
        /\ generations' = Nothing /\ files' = Nothing
    BY <1>2 DEF ClearDelete, Nothing
  <2> QED
    BY <2>1 DEF Integrity, ContentFits, FilesFit, GenerationsFit, GeometriesFit
<1>3. CASE StorageCall
  BY <1>3, ProducerStep, GenerationStep, GeometryStep, FileStep, ContentStep
  DEF StorageCall, CarefulClients
<1> QED
  BY <1>1, <1>2, <1>3 DEF StorageNext

\* The first file has an existing generation, and its content a key for each message.
LEMMA IntegrityInit == StorageInit => Integrity
<1> SUFFICES ASSUME StorageInit PROVE Integrity
  OBVIOUS
<1>1. \A x : x \notin DOMAIN Nothing
  BY DEF Nothing
<1>2. 1 \in DOMAIN producers
  BY PutValue DEF StorageInit
<1>3. CASE NoFiles
  BY <1>1, <1>3 DEF NoFiles, Integrity, ContentFits, FilesFit, GenerationsFit, GeometriesFit
<1>4. CASE OneFile
  <2>1. PICK g \in GenerationNames, s \in Statuses, gs \in GeometryStatuses,
             n \in FileNames, list \in ContentLists :
          /\ generations = Put(Nothing, 1, [producer |-> 1, name |-> g, status |-> s])
          /\ geometries = {[producer |-> 1, generation |-> 1, geometry |-> k, status |-> gs]
                             : k \in Geometries}
          /\ files = Put(Nothing, 1, [producer |-> 1, generation |-> 1, name |-> n])
          /\ content = {[file |-> 1, message |-> m, producer |-> 1, generation |-> 1,
                         data |-> list[m]] : m \in DOMAIN list}
          /\ generationCounter = 1
    BY <1>4 DEF OneFile
  <2>2. /\ \A x : x \in DOMAIN generations <=> x = 1
        /\ generations[1] = [producer |-> 1, name |-> g, status |-> s]
        /\ \A x : x \in DOMAIN files <=> x = 1
        /\ files[1] = [producer |-> 1, generation |-> 1, name |-> n]
    BY <2>1, <1>1, PutValue
  <2>3. GenerationsFit
    BY <1>2, <2>1, <2>2 DEF GenerationsFit
  <2>4. FilesFit
    BY <2>2 DEF FilesFit
  <2>5. GeometriesFit
    BY <2>1, <2>2 DEF GeometriesFit
  <2>6. ContentFits
    BY <2>1, <2>2 DEF ContentFits, Key
  <2> QED
    BY <2>3, <2>4, <2>5, <2>6 DEF Integrity
<1> QED
  BY <1>3, <1>4 DEF StorageInit

\* With careful clients the integrity check of the storage never finds a record
\* without owner, whatever they register, replace, delete and clear: a record is
\* written with the owners of its file, and a deletion takes along what it owns.
THEOREM ContentBelongsHolds == CarefulClients => (StorageSpec => []ContentBelongs)
<1> SUFFICES ASSUME CarefulClients PROVE StorageSpec => []ContentBelongs
  OBVIOUS
<1>1. Integrity /\ [StorageNext]_storageVars => Integrity'
  BY IntegrityStep
<1> QED
  BY IntegrityInit, <1>1, BelongsFromIntegrity, PTL DEF StorageSpec
=============================================================================
