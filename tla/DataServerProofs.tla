---------------------------- MODULE DataServerProofs ----------------------------
(***************************************************************************)
(* The local copies of DataServer, for every set of files and messages,    *)
(* every deletion time and every bound.                                    *)
(***************************************************************************)
EXTENDS DataServer, NaturalsInduction, WellFoundedInduction, TLAPS

\* The files that the requests read from the local directory.
InCache(G) == {f \in DOMAIN G : G[f].ready}

\* The copies are there, and between the two steps of the removal the files that
\* the cache thread is going to keep are at least those in use.
CopyInv ==
  /\ \A f \in DOMAIN gridFiles : "ready" \in DOMAIN gridFiles[f]
  /\ InCache(gridFiles) \subseteq directory
  /\ cpc = "remove" => InCache(gridFiles) \subseteq snapshot

\* H has no copy in use that G has not.
NoNewCopies(G, H) ==
  /\ \A f \in DOMAIN H : "ready" \in DOMAIN H[f]
  /\ InCache(H) \subseteq InCache(G)

\* Whatever becomes of the grid files, only the cache thread makes copies ready.
LEMMA CopiesStay ==
  ASSUME CopyInv, UNCHANGED copyVars, NoNewCopies(gridFiles, gridFiles')
  PROVE  CopyInv'
BY DEF CopyInv, NoNewCopies, copyVars

-----------------------------------------------------------------------------
(* What the operations do with the flag of a file.                          *)

\* A file that comes in has no copy, and one that is known keeps its flag.
LEMMA AddFileCopies ==
  ASSUME NEW G, \A g \in DOMAIN G : "ready" \in DOMAIN G[g],
         NEW f, NEW info, NEW contents, NEW readable
  PROVE  LET H == addFile(G, f, info, contents, readable)
         IN /\ \A g \in DOMAIN H : "ready" \in DOMAIN H[g]
            /\ \A g \in DOMAIN H : H[g].ready => g \in DOMAIN G /\ G[g].ready
            /\ f \in DOMAIN G \/ readable => f \in DOMAIN H
<1> DEFINE H == addFile(G, f, info, contents, readable)
<1>1. CASE f \notin DOMAIN G /\ ~readable
  BY <1>1 DEF addFile
<1>2. CASE f \notin DOMAIN G /\ readable
  <2> DEFINE new == [messages |-> contents, left |-> info.left, age |-> 0,
                     local |-> info.local, ready |-> FALSE, broken |-> FALSE]
  <2>1. H = Put(G, f, new)
    BY <1>2 DEF addFile
  <2>2. "ready" \in DOMAIN new /\ ~new.ready
    OBVIOUS
  <2> HIDE DEF H, new
  <2>3. \A g : /\ g \in DOMAIN H <=> g \in DOMAIN G \/ g = f
               /\ g \in DOMAIN G => H[g] = G[g]
               /\ H[f] = new
    BY <1>2, <2>1 DEF Put
  <2> QED
    BY <1>2, <2>2, <2>3 DEF H
<1>3. CASE f \in DOMAIN G
  BY <1>3 DEF addFile
<1> QED
  BY <1>1, <1>2, <1>3

LEMMA AddFileNoNew ==
  ASSUME NEW G, \A g \in DOMAIN G : "ready" \in DOMAIN G[g],
         NEW f, NEW info, NEW contents, NEW readable
  PROVE  NoNewCopies(G, addFile(G, f, info, contents, readable))
BY AddFileCopies DEF NoNewCopies, InCache

\* Files that go take no copy of another file along.
LEMMA WithoutNoNew ==
  ASSUME NEW G, \A g \in DOMAIN G : "ready" \in DOMAIN G[g], NEW S
  PROVE  NoNewCopies(G, Without(G, S))
BY DEF NoNewCopies, InCache, Without, Restrict

LEMMA NoNewTwice ==
  ASSUME NEW G, NEW H, NEW K, NoNewCopies(G, H), NoNewCopies(H, K)
  PROVE  NoNewCopies(G, K)
BY DEF NoNewCopies

LEMMA EmptyNoNew == ASSUME NEW G PROVE NoNewCopies(G, <<>>)
BY DEF NoNewCopies, InCache

\* A file keeps its flag when another field of it is set.
LEMMA SameFlagsNoNew ==
  ASSUME NEW G, NEW H, DOMAIN H = DOMAIN G,
         \A f \in DOMAIN G : "ready" \in DOMAIN H[f] /\ H[f].ready = G[f].ready
  PROVE  NoNewCopies(G, H)
BY DEF NoNewCopies, InCache

-----------------------------------------------------------------------------
\* An event makes no copy ready.
LEMMA HandledNoNew ==
  ASSUME CopyInv, NEW e, Handled(e)
  PROVE  NoNewCopies(gridFiles, gridFiles')
<1>1. \A f \in DOMAIN gridFiles : "ready" \in DOMAIN gridFiles[f]
  BY DEF CopyInv
<1>2. ASSUME UNCHANGED gridFiles PROVE NoNewCopies(gridFiles, gridFiles')
  BY <1>1, <1>2, SameFlagsNoNew
<1>3. CASE event_fileAdded(e)
  BY <1>1, <1>2, <1>3, AddFileNoNew DEF event_fileAdded
<1>4. CASE event_fileDeleted(e)
  BY <1>1, <1>4, SameFlagsNoNew DEF event_fileDeleted
<1>5. CASE event_fileUpdated(e)
  BY <1>2, <1>5 DEF event_fileUpdated
<1>6. CASE event_contentAdded(e)
  BY <1>1, <1>6, SameFlagsNoNew DEF event_contentAdded
<1>7. CASE event_fileListDeletedByGenerationId(e)
  BY <1>1, <1>7, WithoutNoNew DEF event_fileListDeletedByGenerationId
<1>8. CASE event_clear(e)
  BY <1>8, EmptyNoNew DEF event_clear
<1> QED
  BY <1>3, <1>4, <1>5, <1>6, <1>7, <1>8 DEF Handled

-----------------------------------------------------------------------------
(* The types.                                                               *)

\* What the content server has of a file.
FileInfos == [messages : SUBSET Messages, left : Int \cup {Never}, local : BOOLEAN]

\* The ids that have been given out are the only ones there are.
ServerTyped ==
  /\ used = [changes |-> used.changes, failures |-> used.failures, ids |-> used.ids]
  /\ used.ids \subseteq Files
  /\ DOMAIN registry \subseteq used.ids
  /\ \A f \in DOMAIN registry : registry[f] \in FileInfos
  /\ nextEventId \in Nat \ {0} /\ mServerTime \in Nat
  /\ DOMAIN events \subseteq 1..LastEvent
  /\ \A i \in DOMAIN events :
       /\ events[i].data \subseteq FileInfos
       /\ events[i].type # "CLEAR" => events[i].file \in used.ids

GridTyped(G) == DOMAIN G \subseteq used.ids /\ \A f \in DOMAIN G : G[f] \in GridFiles

EventsTyped ==
  /\ mLastProcessedEventId \in 0..LastEvent
  /\ mContentServerStartTime \in 0..mServerTime /\ restartTime \in 0..mServerTime
  /\ \A f \in DOMAIN fullContentList : fullContentList[f] \subseteq Messages
  /\ epc \in {"idle", "events", "process", "readContent", "readLastEvent", "readFiles"}

CopiesTyped ==
  /\ directory \subseteq used.ids /\ snapshot \subseteq used.ids
  /\ cpc \in {"idle", "copy", "remove"}

RequestTyped ==
  /\ request.pc \in {"idle", "content", "add"}
  /\ request.pc # "idle" => request.file \in used.ids /\ request.info \in FileInfos
  /\ request.pc = "add" => request.contents \subseteq Messages

Typed == ServerTyped /\ GridTyped(gridFiles) /\ EventsTyped /\ CopiesTyped /\ RequestTyped

\* The sets of ids and of events only grow, as far as the others can tell.
LEMMA OthersStay ==
  ASSUME Typed, ServerTyped', used.ids \subseteq used'.ids, nextEventId <= nextEventId',
         mServerTime <= mServerTime', GridTyped(gridFiles)',
         UNCHANGED <<eventVars, copyVars, request>>
  PROVE  Typed'
<1> USE DEF Typed, eventVars, startVars, copyVars
<1>1. EventsTyped'
  BY DEF EventsTyped, ServerTyped, LastEvent
<1>2. CopiesTyped'
  BY DEF CopiesTyped
<1>3. RequestTyped'
  BY DEF RequestTyped
<1> QED
  BY <1>1, <1>2, <1>3

\* The content server changes and announces it.
LEMMA ChangeTyped ==
  ASSUME Typed, NEW type, NEW f, Announce(type, f), Change,
         DOMAIN registry' \subseteq Files, \A x \in DOMAIN registry' : registry'[x] \in FileInfos,
         f \in DOMAIN registry \cup DOMAIN registry'
  PROVE  Typed'
<1> DEFINE e == [type |-> type, file |-> f, data |-> {registry'[x] : x \in {f} \cap DOMAIN registry'}]
<1>1. /\ used' = [used EXCEPT !.changes = @ + 1, !.ids = @ \cup DOMAIN registry']
      /\ UNCHANGED <<mServerTime, gridFiles, eventVars, copyVars, request>>
  BY DEF Change
<1>2. /\ used' = [changes |-> used'.changes, failures |-> used'.failures, ids |-> used'.ids]
      /\ used'.ids = used.ids \cup DOMAIN registry'
  BY <1>1 DEF Typed, ServerTyped
<1>3. events' = Put(events, nextEventId, e) /\ nextEventId' = nextEventId + 1
  BY DEF Announce
<1>4. e.data \subseteq FileInfos /\ e.file = f
  OBVIOUS
<1> HIDE DEF e
<1>5. /\ DOMAIN events' = DOMAIN events \cup {nextEventId} /\ events'[nextEventId] = e
      /\ \A i \in DOMAIN events : i # nextEventId => events'[i] = events[i]
  BY <1>3 DEF Put
<1>6. used'.ids \subseteq Files /\ f \in used'.ids /\ DOMAIN registry' \subseteq used'.ids
  BY <1>2 DEF Typed, ServerTyped
<1>7. DOMAIN events' \subseteq 1..LastEvent' /\ nextEventId' \in Nat \ {0}
  BY <1>3, <1>5 DEF Typed, ServerTyped, LastEvent
<1>8. \A i \in DOMAIN events' :
        /\ events'[i].data \subseteq FileInfos
        /\ events'[i].type # "CLEAR" => events'[i].file \in used'.ids
  BY <1>2, <1>4, <1>5, <1>6 DEF Typed, ServerTyped
<1>9. ServerTyped'
  BY <1>1, <1>2, <1>6, <1>7, <1>8 DEF Typed, ServerTyped
<1>10. GridTyped(gridFiles)'
  BY <1>1, <1>2 DEF Typed, GridTyped
<1>11. nextEventId <= nextEventId' /\ mServerTime <= mServerTime'
  BY <1>1, <1>3 DEF Typed, ServerTyped
<1> QED
  BY <1>1, <1>2, <1>9, <1>10, <1>11, OthersStay

LEMMA ContentServerTyped == Typed /\ ContentServer => Typed'
<1> SUFFICES ASSUME Typed, ContentServer PROVE Typed'
  OBVIOUS
<1>0. /\ DOMAIN registry \subseteq Files /\ \A x \in DOMAIN registry : registry[x] \in FileInfos
      /\ Lifetimes \subseteq Int \cup {Never}
  BY DataAssumption DEF Typed, ServerTyped
<1>1. ASSUME NEW f \in Files, RegisterFile(f) PROVE Typed'
  <2>1. PICK left \in Lifetimes, M \in SUBSET Messages, local \in BOOLEAN :
          registry' = Put(registry, f, [messages |-> M, left |-> left, local |-> local])
    BY <1>1 DEF RegisterFile
  <2> DEFINE info == [messages |-> M, left |-> left, local |-> local]
  <2>2. info \in FileInfos
    BY <1>0 DEF FileInfos
  <2> HIDE DEF info
  <2>3. registry' = Put(registry, f, info)
    BY <2>1 DEF info
  <2>4. /\ DOMAIN registry' = DOMAIN registry \cup {f}
        /\ \A x \in DOMAIN registry' : registry'[x] \in FileInfos
    BY <1>0, <2>2, <2>3 DEF Put
  <2> QED
    BY <1>0, <1>1, <2>4, ChangeTyped DEF RegisterFile
<1>2. ASSUME NEW f \in Files, UpdateFile(f) \/ AddContent(f) PROVE Typed'
  <2>1. PICK M \in SUBSET Messages : f \in DOMAIN registry /\ registry' = [registry EXCEPT ![f].messages = M]
    <3>1. ASSUME UpdateFile(f)
          PROVE  \E M \in SUBSET Messages : registry' = [registry EXCEPT ![f].messages = M]
      BY <3>1 DEF UpdateFile
    <3>2. ASSUME AddContent(f)
          PROVE  \E M \in SUBSET Messages : registry' = [registry EXCEPT ![f].messages = M]
      <4>1. PICK m \in Messages : registry' = [registry EXCEPT ![f].messages = @ \cup {m}]
        BY <3>2 DEF AddContent
      <4>2. registry[f].messages \cup {m} \in SUBSET Messages
        BY <1>0, <3>2 DEF AddContent, FileInfos
      <4> QED
        BY <4>1, <4>2
    <3> QED
      BY <1>2, <3>1, <3>2 DEF UpdateFile, AddContent
  <2>2. DOMAIN registry' = DOMAIN registry /\ \A x \in DOMAIN registry : registry'[x] \in FileInfos
    BY <1>0, <2>1 DEF FileInfos
  <2> QED
    BY <1>0, <1>2, <2>1, <2>2, ChangeTyped DEF UpdateFile, AddContent
<1>3. ASSUME NEW f \in Files, DeleteFile(f) PROVE Typed'
  <2>1. /\ DOMAIN registry' \subseteq DOMAIN registry
        /\ \A x \in DOMAIN registry' : registry'[x] = registry[x]
    BY <1>3 DEF DeleteFile, Without, Restrict
  <2> QED
    BY <1>0, <1>3, <2>1, ChangeTyped DEF DeleteFile
<1>4. CASE ClearServer
  <2> DEFINE e == [type |-> "CLEAR", file |-> 0, data |-> {}]
  <2>1. /\ used' = [used EXCEPT !.changes = @ + 1, !.ids = @ \cup DOMAIN registry']
        /\ UNCHANGED <<mServerTime, gridFiles, eventVars, copyVars, request>>
        /\ registry' = <<>> /\ events' = Put(<<>>, nextEventId, e)
        /\ nextEventId' = nextEventId + 1
    BY <1>4 DEF ClearServer, Change
  <2>2. DOMAIN registry' = {}
    BY <2>1
  <2>3. /\ used' = [changes |-> used'.changes, failures |-> used'.failures, ids |-> used'.ids]
        /\ used'.ids = used.ids
    BY <2>1, <2>2 DEF Typed, ServerTyped
  <2>4. e.data = {} /\ e.type = "CLEAR"
    OBVIOUS
  <2> HIDE DEF e
  <2>5. DOMAIN events' = {nextEventId} /\ events'[nextEventId] = e
    BY <2>1 DEF Put
  <2>6. ServerTyped'
    BY <2>1, <2>2, <2>3, <2>4, <2>5 DEF Typed, ServerTyped, LastEvent
  <2>7. GridTyped(gridFiles)'
    BY <2>1, <2>3 DEF Typed, GridTyped
  <2>8. nextEventId <= nextEventId' /\ mServerTime <= mServerTime'
    BY <2>1 DEF Typed, ServerTyped
  <2> QED
    BY <2>1, <2>3, <2>6, <2>7, <2>8, OthersStay
<1>5. CASE RestartServer
  <2>1. /\ used' = [used EXCEPT !.failures = @ + 1]
        /\ events' = <<>> /\ mServerTime' = mServerTime + 1
        /\ UNCHANGED <<registry, nextEventId, gridFiles, eventVars, copyVars, request>>
    BY <1>5 DEF RestartServer
  <2>2. /\ used' = [changes |-> used'.changes, failures |-> used'.failures, ids |-> used'.ids]
        /\ used'.ids = used.ids
    BY <2>1 DEF Typed, ServerTyped
  <2>3. DOMAIN events' = {}
    BY <2>1
  <2>4. ServerTyped'
    BY <2>1, <2>2, <2>3 DEF Typed, ServerTyped, LastEvent
  <2>5. GridTyped(gridFiles)'
    BY <2>1, <2>2 DEF Typed, GridTyped
  <2>6. nextEventId <= nextEventId' /\ mServerTime <= mServerTime'
    BY <2>1 DEF Typed, ServerTyped
  <2> QED
    BY <2>1, <2>2, <2>4, <2>5, <2>6, OthersStay
<1> QED
  BY <1>1, <1>2, <1>3, <1>4, <1>5 DEF ContentServer

LEMMA AddFileTyped ==
  ASSUME NEW G, GridTyped(G), NEW f \in used.ids, NEW info \in FileInfos,
         NEW contents \in SUBSET Messages, NEW readable
  PROVE  GridTyped(addFile(G, f, info, contents, readable))
<1> DEFINE H == addFile(G, f, info, contents, readable)
<1>1. CASE f \notin DOMAIN G
  <2> DEFINE new == [messages |-> contents, left |-> info.left, age |-> 0,
                     local |-> info.local, ready |-> FALSE, broken |-> FALSE]
  <2>1. new \in GridFiles
    BY DataAssumption DEF GridFiles, FileInfos
  <2> HIDE DEF new
  <2>2. H = G \/ H = Put(G, f, new)
    BY <1>1 DEF addFile, new
  <2> HIDE DEF H
  <2>3. GridTyped(H)
    BY <2>1, <2>2 DEF GridTyped, Put
  <2> QED
    BY <2>3 DEF H
<1>2. CASE f \in DOMAIN G
  <2> DEFINE M == IF Cardinality(G[f].messages) < Cardinality(contents)
                    THEN G[f].messages \cup contents ELSE G[f].messages
             a == IF readable THEN 0 ELSE G[f].age
             r == [[G[f] EXCEPT !.messages = M] EXCEPT !.age = a]
  <2>1. H = [G EXCEPT ![f] = r]
    BY <1>2 DEF addFile
  <2>2. G[f] \in GridFiles
    BY <1>2 DEF GridTyped
  <2>3. M \in SUBSET Messages /\ a \in 0..CleanupAge + 1
    BY <2>2, DataAssumption DEF GridFiles
  <2> HIDE DEF M, a
  <2>4. r \in GridFiles
    BY <2>2, <2>3 DEF GridFiles
  <2> HIDE DEF r, H
  <2>5. GridTyped(H)
    BY <2>1, <2>4 DEF GridTyped
  <2> QED
    BY <2>5 DEF H
<1> QED
  BY <1>1, <1>2

LEMMA WithoutTyped ==
  ASSUME NEW G, GridTyped(G), NEW S
  PROVE  GridTyped(Without(G, S))
BY DEF GridTyped, Without, Restrict

\* A step that changes nothing but the grid files.
LEMMA GridStep ==
  ASSUME Typed, GridTyped(gridFiles'),
         UNCHANGED <<used, registry, events, nextEventId, mServerTime, eventVars, copyVars, request>>
  PROVE  Typed'
<1>1. ServerTyped'
  BY DEF Typed, ServerTyped, LastEvent
<1>2. GridTyped(gridFiles)'
  BY DEF GridTyped
<1>3. EventsTyped'
  BY DEF Typed, EventsTyped, LastEvent, eventVars, startVars
<1>4. CopiesTyped'
  BY DEF Typed, CopiesTyped, copyVars
<1>5. RequestTyped'
  BY DEF Typed, RequestTyped
<1> QED
  BY <1>1, <1>2, <1>3, <1>4, <1>5 DEF Typed

LEMMA TickTyped == Typed /\ Tick => Typed'
<1> SUFFICES ASSUME Typed, Tick PROVE Typed'
  OBVIOUS
<1>1. \A left \in Int \cup {Never} : Sooner(left) \in Int \cup {Never}
  BY DataAssumption DEF Sooner
<1>2. DOMAIN registry' = DOMAIN registry /\ \A f \in DOMAIN registry : registry'[f] \in FileInfos
  BY <1>1 DEF Tick, Typed, ServerTyped, FileInfos
<1>3. DOMAIN gridFiles' = DOMAIN gridFiles /\ \A f \in DOMAIN gridFiles : gridFiles'[f] \in GridFiles
  <2>1. DOMAIN gridFiles' = DOMAIN gridFiles
    BY DEF Tick
  <2>2. ASSUME NEW f \in DOMAIN gridFiles PROVE gridFiles'[f] \in GridFiles
    <3> DEFINE r == gridFiles[f]
               a == IF r.age > CleanupAge THEN r.age ELSE r.age + 1
    <3>1. r \in GridFiles
      BY DEF Typed, GridTyped
    <3>2. Sooner(r.left) \in Int \cup {Never}
      BY <1>1, <3>1 DEF GridFiles
    <3>4. a \in 0..CleanupAge + 1
      BY <3>1, DataAssumption DEF GridFiles
    <3>3. gridFiles'[f] = [r EXCEPT !.left = Sooner(r.left), !.age = a]
      BY DEF Tick
    <3> HIDE DEF r, a
    <3> QED
      BY <3>1, <3>2, <3>3, <3>4 DEF GridFiles
  <2> QED
    BY <2>1, <2>2
<1>4. UNCHANGED <<used, events, nextEventId, mServerTime, eventVars, copyVars, request>>
  BY DEF Tick
<1>5. ServerTyped'
  BY <1>2, <1>4 DEF Typed, ServerTyped, LastEvent
<1>6. GridTyped(gridFiles)'
  BY <1>3, <1>4 DEF Typed, GridTyped
<1>7. nextEventId <= nextEventId' /\ mServerTime <= mServerTime'
  BY <1>4 DEF Typed, ServerTyped
<1> QED
  BY <1>4, <1>5, <1>6, <1>7, OthersStay

LEMMA FaultTyped == ASSUME Typed, NEW f, Fault(f) PROVE Typed'
<1>1. /\ used' = [used EXCEPT !.failures = @ + 1]
      /\ gridFiles' = [gridFiles EXCEPT ![f].broken = TRUE] /\ f \in DOMAIN gridFiles
      /\ UNCHANGED <<registry, events, nextEventId, mServerTime, eventVars, copyVars, request>>
  BY DEF Fault
<1>2. /\ used' = [changes |-> used'.changes, failures |-> used'.failures, ids |-> used'.ids]
      /\ used'.ids = used.ids
  BY <1>1 DEF Typed, ServerTyped
<1>3. [gridFiles[f] EXCEPT !.broken = TRUE] \in GridFiles
  BY <1>1 DEF Typed, GridTyped, GridFiles
<1>4. GridTyped(gridFiles)'
  BY <1>1, <1>2, <1>3 DEF Typed, GridTyped
<1>5. ServerTyped'
  BY <1>1, <1>2 DEF Typed, ServerTyped, LastEvent
<1>6. nextEventId <= nextEventId' /\ mServerTime <= mServerTime'
  BY <1>1 DEF Typed, ServerTyped
<1> QED
  BY <1>1, <1>2, <1>4, <1>5, <1>6, OthersStay

LEMMA RequestStepTyped == Typed /\ Request => Typed'
<1> SUFFICES ASSUME Typed, Request PROVE Typed'
  OBVIOUS
<1>0. ASSUME RequestTyped', GridTyped(gridFiles'), UNCHANGED <<serverVars, eventVars, copyVars>>
      PROVE  Typed'
  BY <1>0 DEF Typed, ServerTyped, GridTyped, EventsTyped, CopiesTyped, LastEvent, serverVars,
     eventVars, startVars, copyVars
<1>1. ASSUME NEW f, AskKnown(f) PROVE Typed'
  <2>1. gridFiles[f] \in GridFiles /\ f \in DOMAIN gridFiles
    BY <1>1 DEF AskKnown, Typed, GridTyped
  <2>2. usableGridFile(gridFiles[f]) \in GridFiles
    <3> DEFINE r == gridFiles[f]
               x == IF r.left # Never /\ FaultyAfter < r.left THEN FaultyAfter ELSE r.left
    <3>1. x \in Int \cup {Never}
      BY <2>1, DataAssumption DEF GridFiles
    <3>2. usableGridFile(r) \in {[r EXCEPT !.left = x], [r EXCEPT !.age = 0], r}
      BY DEF usableGridFile
    <3> HIDE DEF r, x
    <3> QED
      BY <2>1, <3>1, <3>2, DataAssumption DEF r, GridFiles
  <2>3. gridFiles' = [gridFiles EXCEPT ![f] = usableGridFile(gridFiles[f])]
    BY <1>1 DEF AskKnown
  <2>4. GridTyped(gridFiles')
    BY <2>1, <2>2, <2>3 DEF Typed, GridTyped
  <2> QED
    BY <1>1, <2>4, GridStep DEF AskKnown, serverVars
<1>2. ASSUME NEW f, AskUnknown(f) PROVE Typed'
  <2>1. /\ request' = [pc |-> "content", file |-> f, info |-> registry[f]]
        /\ f \in DOMAIN registry /\ UNCHANGED used
    BY <1>2 DEF AskUnknown, serverVars
  <2>2. f \in used.ids /\ registry[f] \in FileInfos
    BY <2>1 DEF Typed, ServerTyped
  <2>3. request'.pc = "content" /\ request'.file = f /\ request'.info = registry[f]
    BY <2>1
  <2>4. RequestTyped'
    BY <2>1, <2>2, <2>3 DEF RequestTyped
  <2> QED
    BY <1>0, <1>2, <2>4 DEF AskUnknown, Typed
<1>3. CASE ReadContent
  <2>1. CASE request' = NoRequest
    <3>1. RequestTyped'
      BY <2>1 DEF RequestTyped, NoRequest
    <3> QED
      BY <1>0, <1>3, <3>1 DEF ReadContent, Typed
  <2>2. CASE request' # NoRequest
    <3>1. /\ request.pc = "content" /\ request.file \in DOMAIN registry
          /\ request' = [pc |-> "add", file |-> request.file, info |-> request.info,
                         contents |-> registry[request.file].messages]
      BY <1>3, <2>2 DEF ReadContent
    <3>2. registry[request.file].messages \subseteq Messages
      BY <3>1 DEF Typed, ServerTyped, FileInfos
    <3>3. RequestTyped'
      <4>1. /\ request'.pc = "add" /\ request'.file = request.file /\ request'.info = request.info
            /\ request'.contents \subseteq Messages
        BY <3>1, <3>2
      <4>2. request.file \in used.ids /\ request.info \in FileInfos /\ UNCHANGED used
        BY <1>3, <3>1 DEF Typed, RequestTyped, ReadContent, serverVars
      <4> QED
        BY <4>1, <4>2 DEF RequestTyped
    <3> QED
      BY <1>0, <1>3, <3>3 DEF ReadContent, Typed
  <2> QED
    BY <2>1, <2>2
<1>4. CASE AddRequested
  <2>1. request.file \in used.ids /\ request.info \in FileInfos /\ request.contents \in SUBSET Messages
    BY <1>4 DEF AddRequested, Typed, RequestTyped
  <2>2. PICK readable : gridFiles' = addFile(gridFiles, request.file, request.info, request.contents, readable)
    BY <1>4 DEF AddRequested
  <2>3. GridTyped(gridFiles')
    BY <2>1, <2>2, AddFileTyped DEF Typed
  <2>4. RequestTyped'
    BY <1>4 DEF AddRequested, RequestTyped, NoRequest
  <2> QED
    BY <1>0, <1>4, <2>3, <2>4 DEF AddRequested
<1> QED
  BY <1>1, <1>2, <1>3, <1>4 DEF Request

\* The first of the new events.
LEMMA FirstEventIs ==
  ASSUME NEW S, S \subseteq Nat, S # {}
  PROVE  (CHOOSE x \in S : \A y \in S : x <= y) \in S
<1> DEFINE R == OpToRel(<, Nat)
<1>1. IsWellFoundedOn(R, Nat)
  BY NatLessThanWellFounded
<1>2. \A m, n \in Nat : m < n => <<m, n>> \in R
  BY DEF OpToRel
<1> HIDE DEF R
<1>3. PICK x \in S : \A y \in S : ~(<<y, x>> \in R)
  BY <1>1, WFMin
<1>4. ASSUME NEW y \in S PROVE x <= y
  <2>1. x \in Nat /\ y \in Nat
    OBVIOUS
  <2>2. ~(y < x)
    BY <1>2, <1>3, <2>1
  <2> QED
    BY <2>1, <2>2
<1> QED
  BY <1>4

LEMMA HandledTyped ==
  ASSUME Typed, NEW i \in DOMAIN events, Handled(events[i])
  PROVE  GridTyped(gridFiles')
<1> DEFINE e == events[i]
<1>0. /\ e.data \subseteq FileInfos /\ GridTyped(gridFiles)
      /\ e.type # "CLEAR" => e.file \in used.ids
      /\ \A f \in DOMAIN registry : registry[f] \in FileInfos
  BY DEF Typed, ServerTyped
<1> HIDE DEF e
<1>1. CASE e.type = "FILE_ADDED" /\ event_fileAdded(e)
  <2>1. PICK data \in EventData(e), readable \in BOOLEAN :
          \/ UNCHANGED gridFiles
          \/ \E info \in data :
               gridFiles' = addFile(gridFiles, e.file, info, info.messages, readable)
    BY <1>1 DEF event_fileAdded
  <2>2. CASE UNCHANGED gridFiles
    BY <1>0, <2>2 DEF GridTyped
  <2>3. CASE ~UNCHANGED gridFiles
    <3>1. PICK info \in data :
            gridFiles' = addFile(gridFiles, e.file, info, info.messages, readable)
      BY <2>1, <2>3
    <3>2. data \subseteq FileInfos
      BY <1>0 DEF EventData
    <3>3. info \in FileInfos /\ info.messages \in SUBSET Messages /\ e.file \in used.ids
      BY <1>0, <1>1, <3>2 DEF FileInfos
    <3> QED
      BY <1>0, <3>1, <3>3, AddFileTyped
  <2> QED
    BY <2>2, <2>3
<1>2. CASE event_fileDeleted(e)
  BY <1>0, <1>2, DataAssumption DEF event_fileDeleted, GridTyped, GridFiles
<1>3. CASE event_fileUpdated(e)
  BY <1>0, <1>3 DEF event_fileUpdated, GridTyped
<1>4. CASE event_contentAdded(e)
  <2> DEFINE new == UNION {d.messages : d \in e.data}
  <2>1. new \subseteq Messages
    BY <1>0 DEF FileInfos
  <2>2. DOMAIN gridFiles' = DOMAIN gridFiles
    BY <1>4 DEF event_contentAdded
  <2>3. ASSUME NEW f \in DOMAIN gridFiles PROVE gridFiles'[f] \in GridFiles
    <3> DEFINE M == gridFiles[f].messages \cup new
    <3>1. gridFiles'[f] \in {gridFiles[f], [gridFiles[f] EXCEPT !.messages = M]}
      BY <1>4 DEF event_contentAdded
    <3>2. gridFiles[f] \in GridFiles
      BY <1>0 DEF GridTyped
    <3>3. M \in SUBSET Messages
      BY <2>1, <3>2 DEF GridFiles
    <3> HIDE DEF M
    <3> QED
      BY <3>1, <3>2, <3>3 DEF GridFiles
  <2> QED
    BY <1>0, <2>2, <2>3 DEF GridTyped
<1>5. CASE event_fileListDeletedByGenerationId(e)
  BY <1>0, <1>5, WithoutTyped DEF event_fileListDeletedByGenerationId
<1>6. CASE event_clear(e)
  BY <1>6 DEF event_clear, GridTyped
<1> QED
  BY <1>1, <1>2, <1>3, <1>4, <1>5, <1>6 DEF Handled, e

LEMMA EventThreadTyped == Typed /\ EventThread => Typed'
<1> SUFFICES ASSUME Typed, EventThread PROVE Typed'
  OBVIOUS
<1>0. ASSUME EventsTyped', GridTyped(gridFiles'), UNCHANGED <<serverVars, copyVars, request>>
      PROVE  Typed'
  BY <1>0 DEF Typed, ServerTyped, GridTyped, CopiesTyped, RequestTyped, LastEvent, serverVars,
     copyVars
<1>9. LastEvent \in Nat /\ mServerTime \in Nat
  BY DEF Typed, ServerTyped, LastEvent
<1> USE DEF startVars
<1>1. CASE cleanupFiles
  <2> DEFINE H == deleteFilesByAccessTime(gridFiles)
  <2>1. GridTyped(H)
    BY WithoutTyped DEF deleteFilesByAccessTime, Typed
  <2>2. gridFiles' = deleteFilesByDeletionTime(H)
    BY <1>1 DEF cleanupFiles
  <2> HIDE DEF H
  <2>3. GridTyped(gridFiles')
    BY <2>1, <2>2, WithoutTyped DEF deleteFilesByDeletionTime
  <2>4. EventsTyped'
    BY <1>1 DEF cleanupFiles, Typed, EventsTyped, LastEvent, serverVars
  <2> QED
    BY <1>0, <1>1, <2>3, <2>4 DEF cleanupFiles
<1>2. CASE processEvents
  <2>1. UNCHANGED <<serverVars, gridFiles, mLastProcessedEventId, mFullUpdateRequired,
                    fullContentList, copyVars, request>>
    BY <1>2 DEF processEvents
  <2>2. /\ restartTime' \in {restartTime, mServerTime, 0}
        /\ mContentServerStartTime' \in {mContentServerStartTime, mServerTime}
        /\ epc' \in {"readContent", "idle", "process"}
    BY <1>2 DEF processEvents
  <2>3. EventsTyped'
    BY <1>9, <2>1, <2>2 DEF Typed, EventsTyped, LastEvent, serverVars
  <2> QED
    BY <1>0, <2>1, <2>3 DEF Typed
<1>3. CASE processEvent
  <2>1. UNCHANGED <<serverVars, mFullUpdateRequired, fullContentList, startVars, copyVars, request>>
    BY <1>3 DEF processEvent
  <2>2. CASE NewEvents = {}
    <3>1. epc' = "idle" /\ UNCHANGED <<gridFiles, mLastProcessedEventId>>
      BY <1>3, <2>2 DEF processEvent
    <3>2. EventsTyped'
      BY <2>1, <3>1 DEF Typed, EventsTyped, LastEvent, serverVars
    <3> QED
      BY <1>0, <2>1, <3>1, <3>2 DEF Typed
  <2>3. CASE NewEvents # {}
    <3> DEFINE i == CHOOSE x \in NewEvents : \A y \in NewEvents : x <= y
    <3>1. Handled(events[i]) /\ mLastProcessedEventId' = i /\ UNCHANGED epc
      BY <1>3, <2>3 DEF processEvent
    <3>2. NewEvents \subseteq DOMAIN events /\ NewEvents \subseteq Nat
      BY <1>9 DEF NewEvents, Typed, ServerTyped
    <3>3. i \in NewEvents
      BY <2>3, <3>2, FirstEventIs
    <3> HIDE DEF i
    <3>4. i \in DOMAIN events /\ i \in 0..LastEvent
      BY <1>9, <3>2, <3>3 DEF Typed, ServerTyped
    <3>5. GridTyped(gridFiles')
      BY <3>1, <3>4, HandledTyped
    <3>6. EventsTyped'
      BY <2>1, <3>1, <3>4 DEF Typed, EventsTyped, LastEvent, serverVars
    <3> QED
      BY <1>0, <2>1, <3>5, <3>6
  <2> QED
    BY <2>2, <2>3
<1>4. CASE readContentList
  <2>1. \A f \in DOMAIN fullContentList' : fullContentList'[f] \subseteq Messages
    BY <1>4 DEF readContentList, Typed, ServerTyped, FileInfos
  <2>2. EventsTyped'
    BY <1>4, <2>1 DEF readContentList, Typed, EventsTyped, LastEvent, serverVars
  <2> QED
    BY <1>0, <1>4, <2>2 DEF readContentList, Typed
<1>5. CASE readLastEvent
  <2>1. GridTyped(gridFiles')
    BY <1>5 DEF readLastEvent, GridTyped
  <2>2. /\ mLastProcessedEventId' \in {mLastProcessedEventId, LastEvent}
        /\ mContentServerStartTime' \in {mContentServerStartTime, mServerTime}
    BY <1>5 DEF readLastEvent
  <2>3. EventsTyped'
    BY <1>5, <1>9, <2>2 DEF readLastEvent, Typed, EventsTyped, LastEvent, serverVars
  <2> QED
    BY <1>0, <1>5, <2>1, <2>3 DEF readLastEvent
<1>6. CASE readFileList
  <2>1. PICK unreadable \in SUBSET DOMAIN registry :
          gridFiles' =
            [f \in DOMAIN gridFiles
                     \cup {x \in DOMAIN registry \ unreadable : FullContent(x) # {}} |->
               IF f \in DOMAIN registry /\ FullContent(f) # {}
                 THEN addFile(gridFiles, f, registry[f], FullContent(f), f \notin unreadable)[f]
                 ELSE gridFiles[f]]
    BY <1>6 DEF readFileList
  <2>2. GridTyped(gridFiles)
    BY DEF Typed
  <2>3. \A f \in DOMAIN registry : /\ f \in used.ids /\ registry[f] \in FileInfos
                                   /\ FullContent(f) \in SUBSET Messages
    BY DEF Typed, ServerTyped, EventsTyped, FileInfos, FullContent
  <2>4. DOMAIN gridFiles' \subseteq used.ids
    BY <2>1, <2>2, <2>3 DEF GridTyped
  <2>5. ASSUME NEW f \in DOMAIN gridFiles' PROVE gridFiles'[f] \in GridFiles
    <3>1. CASE f \in DOMAIN registry /\ FullContent(f) # {}
      <4> DEFINE H == addFile(gridFiles, f, registry[f], FullContent(f), f \notin unreadable)
      <4>1. GridTyped(H)
        BY <2>2, <2>3, <3>1, AddFileTyped
      <4>2. f \in DOMAIN gridFiles \/ f \notin unreadable
        BY <2>1, <3>1
      <4>3. f \in DOMAIN H
        BY <4>2 DEF addFile, Put
      <4>4. gridFiles'[f] = H[f]
        BY <2>1, <3>1
      <4> QED
        BY <4>1, <4>3, <4>4 DEF GridTyped
    <3>2. CASE ~(f \in DOMAIN registry /\ FullContent(f) # {})
      BY <2>1, <2>2, <3>2 DEF GridTyped
    <3> QED
      BY <3>1, <3>2
  <2>6. GridTyped(gridFiles')
    BY <2>4, <2>5 DEF GridTyped
  <2>7. /\ restartTime' = 0 /\ epc' = "idle" /\ DOMAIN fullContentList' = {}
        /\ mContentServerStartTime' \in {restartTime, mContentServerStartTime}
        /\ UNCHANGED <<serverVars, mLastProcessedEventId, copyVars, request>>
    BY <1>6 DEF readFileList
  <2>8. EventsTyped'
    BY <1>9, <2>7 DEF Typed, EventsTyped, LastEvent, serverVars
  <2> QED
    BY <1>0, <2>6, <2>7, <2>8
<1> QED
  BY <1>1, <1>2, <1>3, <1>4, <1>5, <1>6 DEF EventThread

LEMMA CacheThreadTyped == Typed /\ CacheThread => Typed'
<1> SUFFICES ASSUME Typed, CacheThread PROVE Typed'
  OBVIOUS
<1>0. ASSUME CopiesTyped', GridTyped(gridFiles'), UNCHANGED <<serverVars, eventVars, request>>
      PROVE  Typed'
  BY <1>0 DEF Typed, ServerTyped, GridTyped, EventsTyped, RequestTyped, LastEvent, serverVars,
     eventVars, startVars
<1>1. CASE getFilesToBeCached \/ getFilesInCache \/ removeOldCacheFiles
  <2>1. UNCHANGED <<serverVars, gridFiles, eventVars, request>>
    BY <1>1 DEF getFilesToBeCached, getFilesInCache, removeOldCacheFiles
  <2>2. CopiesTyped'
    BY <1>1, <2>1 DEF getFilesToBeCached, getFilesInCache, removeOldCacheFiles, Typed, GridTyped,
       CopiesTyped, serverVars
  <2> QED
    BY <1>0, <2>1, <2>2 DEF Typed
<1>2. ASSUME NEW f, copyToLocalCache(f) PROVE Typed'
  <2>1. CopiesTyped'
    BY <1>2 DEF copyToLocalCache, Typed, CopiesTyped, serverVars
  <2>2. GridTyped(gridFiles')
    BY <1>2 DEF copyToLocalCache, Typed, GridTyped, GridFiles
  <2> QED
    BY <1>0, <1>2, <2>1, <2>2 DEF copyToLocalCache
<1> QED
  BY <1>1, <1>2 DEF CacheThread

LEMMA NextTyped == Typed /\ [Next]_vars => Typed'
<1> SUFFICES ASSUME Typed, UNCHANGED vars PROVE Typed'
  BY ContentServerTyped, TickTyped, FaultTyped, RequestStepTyped, EventThreadTyped,
     CacheThreadTyped DEF Next
<1> QED
  BY GridStep DEF vars, serverVars, Typed

LEMMA InitTyped == Init => Typed
<1> SUFFICES ASSUME Init PROVE Typed
  OBVIOUS
<1>1. ServerTyped
  BY DEF Init, ServerTyped, LastEvent
<1>2. GridTyped(gridFiles) /\ CopiesTyped
  BY DEF Init, GridTyped, CopiesTyped
<1>3. EventsTyped
  BY DEF Init, EventsTyped, LastEvent
<1>4. RequestTyped
  BY DEF Init, RequestTyped, NoRequest
<1> QED
  BY <1>1, <1>2, <1>3, <1>4 DEF Typed

\* The variables have their types: the ids of all files that anybody has are ids that
\* the content server has given out, and the event thread is never ahead of the events,
\* although the event list does not survive a restart of the content server.
THEOREM DataTypeOKHolds == Spec => []TypeOK
<1>1. Typed => TypeOK
  BY DEF Typed, ServerTyped, GridTyped, EventsTyped, CopiesTyped, RequestTyped, TypeOK
<1> QED
  BY <1>1, InitTyped, NextTyped, PTL DEF Spec

-----------------------------------------------------------------------------
(* Whether a file is to have a local copy.                                  *)

\* What a set of grid files says of a file: no copy is in use that is not expected.
GridHas(G, f, b) == f \in DOMAIN G => G[f].local = b /\ (G[f].ready => b)

\* All that anybody knows of a file says the same.
ServerHas(f, b) ==
  /\ f \in DOMAIN registry => registry[f].local = b
  /\ \A i \in DOMAIN events :
       events[i].file = f => \A info \in events[i].data : info.local = b

FileHas(f, b) ==
  /\ ServerHas(f, b)
  /\ GridHas(gridFiles, f, b)
  /\ request.pc # "idle" /\ request.file = f => request.info.local = b
  /\ cpc = "copy" /\ f \in snapshot => b

LocalInv ==
  /\ \A f \in used.ids : \E b \in BOOLEAN : FileHas(f, b)
  /\ \A i \in DOMAIN events : events[i].type = "CLEAR" => events[i].data = {}

LEMMA ReadyAreLocal ==
  ASSUME Typed, LocalInv
  PROVE  \A f \in DOMAIN gridFiles : gridFiles[f].ready => gridFiles[f].local
BY DEF Typed, GridTyped, LocalInv, FileHas, GridHas

LEMMA AddFileHas ==
  ASSUME NEW G, GridTyped(G), NEW f, NEW b, GridHas(G, f, b),
         NEW x, NEW info, x = f => info.local = b, NEW contents, NEW readable
  PROVE  GridHas(addFile(G, x, info, contents, readable), f, b)
<1> DEFINE H == addFile(G, x, info, contents, readable)
<1>1. CASE x \notin DOMAIN G
  <2> DEFINE new == [messages |-> contents, left |-> info.left, age |-> 0,
                     local |-> info.local, ready |-> FALSE, broken |-> FALSE]
  <2>1. new.local = info.local /\ new.ready = FALSE
    OBVIOUS
  <2> HIDE DEF new
  <2>2. H = G \/ H = Put(G, x, new)
    BY <1>1 DEF addFile, new
  <2> HIDE DEF H
  <2>3. GridHas(H, f, b)
    BY <1>1, <2>1, <2>2 DEF GridHas, Put
  <2> QED
    BY <2>3 DEF H
<1>2. CASE x \in DOMAIN G
  <2> DEFINE M == IF Cardinality(G[x].messages) < Cardinality(contents)
                    THEN G[x].messages \cup contents ELSE G[x].messages
             a == IF readable THEN 0 ELSE G[x].age
             r == [[G[x] EXCEPT !.messages = M] EXCEPT !.age = a]
  <2>1. H = [G EXCEPT ![x] = r]
    BY <1>2 DEF addFile
  <2>2. G[x] \in GridFiles
    BY <1>2 DEF GridTyped
  <2> HIDE DEF M, a
  <2>3. r.local = G[x].local /\ r.ready = G[x].ready
    BY <2>2 DEF GridFiles
  <2> HIDE DEF r, H
  <2>4. GridHas(H, f, b)
    BY <2>1, <2>3 DEF GridHas
  <2> QED
    BY <2>4 DEF H
<1> QED
  BY <1>1, <1>2

LEMMA WithoutHas ==
  ASSUME NEW G, NEW f, NEW b, GridHas(G, f, b), NEW S
  PROVE  GridHas(Without(G, S), f, b)
BY DEF GridHas, Without, Restrict

\* A step of the data server that leaves requests and copies as they are.
LEMMA GridHasStep ==
  ASSUME LocalInv, UNCHANGED <<serverVars, copyVars>>,
         request' = request \/ request' = NoRequest,
         \A f \in used.ids : \A b \in BOOLEAN : FileHas(f, b) => GridHas(gridFiles', f, b)
  PROVE  LocalInv'
<1>1. ASSUME NEW f \in used.ids, NEW b \in BOOLEAN, FileHas(f, b)
      PROVE  FileHas(f, b)'
  <2>1. ServerHas(f, b)'
    BY <1>1 DEF FileHas, ServerHas, serverVars
  <2>2. GridHas(gridFiles, f, b)'
    <3>1. GridHas(gridFiles', f, b)
      BY <1>1
    <3> QED
      BY <3>1 DEF GridHas
  <2>3. request'.pc # "idle" /\ request'.file = f => request'.info.local = b
    BY <1>1 DEF FileHas, NoRequest
  <2> QED
    BY <1>1, <2>1, <2>2, <2>3 DEF FileHas, copyVars
<1> QED
  BY <1>1 DEF LocalInv, serverVars

LEMMA HandledHas ==
  ASSUME Typed, NEW i \in DOMAIN events, Handled(events[i]),
         NEW f \in used.ids, NEW b \in BOOLEAN, FileHas(f, b)
  PROVE  GridHas(gridFiles', f, b)
<1> DEFINE e == events[i]
<1>0. /\ GridTyped(gridFiles) /\ GridHas(gridFiles, f, b)
      /\ e.file = f => \A data \in EventData(e) : \A info \in data : info.local = b
  BY DEF Typed, FileHas, ServerHas, EventData
<1> HIDE DEF e
<1>1. CASE UNCHANGED gridFiles
  BY <1>0, <1>1 DEF GridHas
<1>2. CASE event_fileAdded(e)
  <2>1. CASE \E data \in EventData(e) : \E readable \in BOOLEAN : \E info \in data :
               gridFiles' = addFile(gridFiles, e.file, info, info.messages, readable)
    <3>1. PICK data \in EventData(e), readable \in BOOLEAN :
            \E info \in data :
              gridFiles' = addFile(gridFiles, e.file, info, info.messages, readable)
      BY <2>1
    <3>2. PICK info \in data :
            gridFiles' = addFile(gridFiles, e.file, info, info.messages, readable)
      BY <3>1
    <3>3. e.file = f => info.local = b
      BY <1>0, <3>2
    <3> QED
      BY <1>0, <3>2, <3>3, AddFileHas
  <2> QED
    BY <1>1, <1>2, <2>1 DEF event_fileAdded
<1>3. CASE event_fileDeleted(e)
  BY <1>0, <1>3 DEF event_fileDeleted, GridHas, GridTyped, GridFiles
<1>4. CASE event_contentAdded(e)
  BY <1>0, <1>4 DEF event_contentAdded, GridHas, GridTyped, GridFiles
<1>5. CASE event_fileListDeletedByGenerationId(e)
  BY <1>0, <1>5, WithoutHas DEF event_fileListDeletedByGenerationId
<1>6. CASE event_clear(e)
  BY <1>6 DEF event_clear, GridHas
<1> QED
  BY <1>1, <1>2, <1>3, <1>4, <1>5, <1>6 DEF Handled, event_fileUpdated, e

LEMMA EventThreadHas == Typed /\ LocalInv /\ EventThread => LocalInv'
<1> SUFFICES ASSUME Typed, LocalInv, EventThread PROVE LocalInv'
  OBVIOUS
<1>0. UNCHANGED <<serverVars, copyVars, request>>
  BY DEF EventThread, cleanupFiles, processEvents, processEvent, readContentList, readLastEvent,
     readFileList
<1> SUFFICES ASSUME NEW f \in used.ids, NEW b \in BOOLEAN, FileHas(f, b)
             PROVE  GridHas(gridFiles', f, b)
  BY <1>0, GridHasStep
<1>1. GridTyped(gridFiles) /\ GridHas(gridFiles, f, b)
  BY DEF Typed, FileHas
<1>2. CASE UNCHANGED gridFiles
  BY <1>1, <1>2 DEF GridHas
<1>3. CASE cleanupFiles
  BY <1>1, <1>3, WithoutHas
  DEF cleanupFiles, deleteFilesByDeletionTime, deleteFilesByAccessTime
<1>4. CASE processEvent /\ NewEvents # {}
  <2> DEFINE i == CHOOSE x \in NewEvents : \A y \in NewEvents : x <= y
  <2>1. Handled(events[i])
    BY <1>4 DEF processEvent
  <2>2. NewEvents \subseteq Nat /\ NewEvents \subseteq DOMAIN events
    BY DEF NewEvents, Typed, ServerTyped, LastEvent
  <2>3. i \in DOMAIN events
    BY <1>4, <2>2, FirstEventIs
  <2> HIDE DEF i
  <2> QED
    BY <2>1, <2>3, HandledHas
<1>5. CASE readLastEvent
  BY <1>5 DEF readLastEvent, GridHas
<1>6. CASE readFileList
  <2>1. PICK unreadable \in SUBSET DOMAIN registry :
          gridFiles' =
            [x \in DOMAIN gridFiles
                     \cup {y \in DOMAIN registry \ unreadable : FullContent(y) # {}} |->
               IF x \in DOMAIN registry /\ FullContent(x) # {}
                 THEN addFile(gridFiles, x, registry[x], FullContent(x), x \notin unreadable)[x]
                 ELSE gridFiles[x]]
    BY <1>6 DEF readFileList
  <2> SUFFICES ASSUME f \in DOMAIN gridFiles' PROVE gridFiles'[f].local = b /\ (gridFiles'[f].ready => b)
    BY DEF GridHas
  <2>2. CASE f \in DOMAIN registry /\ FullContent(f) # {}
    <3> DEFINE H == addFile(gridFiles, f, registry[f], FullContent(f), f \notin unreadable)
    <3>1. registry[f].local = b
      BY <2>2 DEF FileHas, ServerHas
    <3>2. GridHas(H, f, b)
      BY <1>1, <3>1, AddFileHas
    <3>3. f \in DOMAIN gridFiles \/ f \notin unreadable
      BY <2>1, <2>2
    <3>4. f \in DOMAIN H
      BY <3>3 DEF addFile, Put
    <3>5. gridFiles'[f] = H[f]
      BY <2>1, <2>2
    <3> QED
      BY <3>2, <3>4, <3>5 DEF GridHas
  <2>3. CASE ~(f \in DOMAIN registry /\ FullContent(f) # {})
    BY <1>1, <2>1, <2>3 DEF GridHas
  <2> QED
    BY <2>2, <2>3
<1> QED
  BY <1>2, <1>3, <1>4, <1>5, <1>6 DEF EventThread, processEvents, processEvent, readContentList

LEMMA RequestHas == Typed /\ LocalInv /\ Request => LocalInv'
<1> SUFFICES ASSUME Typed, LocalInv, Request PROVE LocalInv'
  OBVIOUS
<1>1. ASSUME NEW x, AskKnown(x) PROVE LocalInv'
  <2> SUFFICES ASSUME NEW f \in used.ids, NEW b \in BOOLEAN, FileHas(f, b)
               PROVE  GridHas(gridFiles', f, b)
    BY <1>1, GridHasStep DEF AskKnown
  <2> DEFINE r == gridFiles[x]
             l == IF r.left # Never /\ FaultyAfter < r.left THEN FaultyAfter ELSE r.left
  <2>1. x \in DOMAIN gridFiles /\ gridFiles' = [gridFiles EXCEPT ![x] = usableGridFile(r)]
    BY <1>1 DEF AskKnown
  <2>2. usableGridFile(r) \in {[r EXCEPT !.left = l], [r EXCEPT !.age = 0], r}
    BY DEF usableGridFile
  <2>3. r \in GridFiles
    BY <2>1 DEF Typed, GridTyped
  <2>4. usableGridFile(r).local = r.local /\ usableGridFile(r).ready = r.ready
    <3> HIDE DEF r, l
    <3> QED
      BY <2>2, <2>3 DEF GridFiles
  <2> QED
    BY <2>1, <2>4 DEF FileHas, GridHas
<1>2. ASSUME NEW x, AskUnknown(x) PROVE LocalInv'
  <2>1. /\ request' = [pc |-> "content", file |-> x, info |-> registry[x]]
        /\ x \in DOMAIN registry
        /\ UNCHANGED <<serverVars, gridFiles, copyVars>>
    BY <1>2 DEF AskUnknown
  <2>2. request'.file = x /\ request'.info = registry[x]
    BY <2>1
  <2>3. ASSUME NEW f \in used.ids, NEW b \in BOOLEAN, FileHas(f, b) PROVE FileHas(f, b)'
    BY <2>1, <2>2, <2>3 DEF FileHas, ServerHas, GridHas, serverVars, copyVars
  <2> QED
    BY <2>1, <2>3 DEF LocalInv, serverVars
<1>3. CASE ReadContent
  <2>1. UNCHANGED <<serverVars, gridFiles, copyVars>> /\ request.pc # "idle"
    BY <1>3 DEF ReadContent
  <2>2. request' = NoRequest \/ (request'.file = request.file /\ request'.info = request.info)
    BY <1>3 DEF ReadContent
  <2>3. ASSUME NEW f \in used.ids, NEW b \in BOOLEAN, FileHas(f, b) PROVE FileHas(f, b)'
    BY <2>1, <2>2, <2>3 DEF FileHas, ServerHas, GridHas, serverVars, copyVars, NoRequest
  <2> QED
    BY <2>1, <2>3 DEF LocalInv, serverVars
<1>4. CASE AddRequested
  <2> SUFFICES ASSUME NEW f \in used.ids, NEW b \in BOOLEAN, FileHas(f, b)
               PROVE  GridHas(gridFiles', f, b)
    BY <1>4, GridHasStep DEF AddRequested
  <2>1. PICK readable \in BOOLEAN :
          gridFiles' = addFile(gridFiles, request.file, request.info, request.contents, readable)
    BY <1>4 DEF AddRequested
  <2>2. request.file = f => request.info.local = b
    BY <1>4 DEF AddRequested, FileHas
  <2>3. GridTyped(gridFiles) /\ GridHas(gridFiles, f, b)
    BY DEF Typed, FileHas
  <2> QED
    BY <2>1, <2>2, <2>3, AddFileHas
<1> QED
  BY <1>1, <1>2, <1>3, <1>4 DEF Request

LEMMA CacheThreadHas == Typed /\ LocalInv /\ CacheThread => LocalInv'
<1> SUFFICES ASSUME Typed, LocalInv, CacheThread PROVE LocalInv'
  OBVIOUS
<1>1. UNCHANGED <<serverVars, request>>
  BY DEF CacheThread, getFilesToBeCached, copyToLocalCache, getFilesInCache, removeOldCacheFiles
<1> SUFFICES ASSUME NEW f \in used.ids, NEW b \in BOOLEAN, FileHas(f, b)
             PROVE  GridHas(gridFiles, f, b)' /\ (cpc' = "copy" /\ f \in snapshot' => b)
  <2>1. ASSUME NEW f \in used.ids, NEW b \in BOOLEAN, FileHas(f, b)
        PROVE  ServerHas(f, b)' /\ (request'.pc # "idle" /\ request'.file = f => request'.info.local = b)
    BY <1>1, <2>1 DEF FileHas, ServerHas, serverVars
  <2> QED
    BY <1>1, <2>1 DEF LocalInv, FileHas, serverVars
<1>2. CASE getFilesToBeCached
  BY <1>2 DEF getFilesToBeCached, FileHas, GridHas
<1>3. ASSUME NEW x, copyToLocalCache(x) PROVE GridHas(gridFiles, f, b)' /\ (cpc' = "copy" /\ f \in snapshot' => b)
  BY <1>3 DEF copyToLocalCache, FileHas, GridHas, Typed, GridTyped, GridFiles
<1>4. CASE getFilesInCache \/ removeOldCacheFiles
  BY <1>4 DEF getFilesInCache, removeOldCacheFiles, FileHas, GridHas
<1> QED
  BY <1>2, <1>3, <1>4 DEF CacheThread

\* The content server says of a file what it said when it was registered.
LEMMA ContentServerHas == Typed /\ LocalInv /\ ContentServer => LocalInv'
<1> SUFFICES ASSUME Typed, LocalInv, ContentServer PROVE LocalInv'
  OBVIOUS
<1>0. /\ UNCHANGED <<gridFiles, copyVars, request>>
      /\ used.ids \subseteq used'.ids
  BY DEF ContentServer, RegisterFile, UpdateFile, AddContent, DeleteFile, ClearServer,
     RestartServer, Change, Typed, ServerTyped
<1>1. ASSUME used'.ids = used.ids,
             \A f \in used.ids : \A b \in BOOLEAN : ServerHas(f, b) => ServerHas(f, b)',
             \A i \in DOMAIN events' : events'[i].type = "CLEAR" => events'[i].data = {}
      PROVE  LocalInv'
  <2>1. ASSUME NEW f \in used.ids, NEW b \in BOOLEAN, FileHas(f, b) PROVE FileHas(f, b)'
    BY <1>0, <1>1, <2>1 DEF FileHas, GridHas, copyVars
  <2> QED
    BY <1>1, <2>1 DEF LocalInv
<1> DEFINE Announced(x) ==
             /\ DOMAIN events' = DOMAIN events \cup {nextEventId}
             /\ \A i \in DOMAIN events : i # nextEventId => events'[i] = events[i]
             /\ events'[nextEventId].file = x /\ events'[nextEventId].type # "CLEAR"
             /\ \A info \in events'[nextEventId].data : x \in DOMAIN registry' /\ info = registry'[x]
             /\ \A i \in DOMAIN events' : events'[i].type = "CLEAR" => events'[i].data = {}
<1>2. ASSUME NEW type, type # "CLEAR", NEW x, Announce(type, x) PROVE Announced(x)
  <2> DEFINE e == [type |-> type, file |-> x, data |-> {registry'[y] : y \in {x} \cap DOMAIN registry'}]
  <2>1. events' = Put(events, nextEventId, e)
    BY <1>2 DEF Announce
  <2>2. /\ e.file = x /\ e.type # "CLEAR"
        /\ \A info \in e.data : x \in DOMAIN registry' /\ info = registry'[x]
    BY <1>2
  <2> HIDE DEF e
  <2>3. /\ DOMAIN events' = DOMAIN events \cup {nextEventId} /\ events'[nextEventId] = e
        /\ \A i \in DOMAIN events : i # nextEventId => events'[i] = events[i]
    BY <2>1 DEF Put
  <2> QED
    BY <2>2, <2>3 DEF LocalInv
<1>3. ASSUME NEW type, type # "CLEAR", NEW x, Announce(type, x), used'.ids = used.ids,
             \A f \in DOMAIN registry' :
               f \in DOMAIN registry /\ registry'[f].local = registry[f].local
      PROVE  LocalInv'
  <2>0. Announced(x)
    BY <1>2, <1>3
  <2>1. ASSUME NEW f \in used.ids, NEW b \in BOOLEAN, ServerHas(f, b) PROVE ServerHas(f, b)'
    <3>1. f \in DOMAIN registry' => registry'[f].local = b
      BY <1>3, <2>1 DEF ServerHas
    <3>2. ASSUME NEW i \in DOMAIN events', events'[i].file = f, NEW info \in events'[i].data
          PROVE  info.local = b
      <4>1. CASE i = nextEventId
        BY <2>0, <3>1, <3>2, <4>1
      <4>2. CASE i # nextEventId
        BY <2>0, <2>1, <3>2, <4>2 DEF ServerHas
      <4> QED
        BY <4>1, <4>2
    <3> QED
      BY <3>1, <3>2 DEF ServerHas
  <2> QED
    BY <1>1, <1>3, <2>0, <2>1
<1>4. ASSUME NEW x \in Files, RegisterFile(x) PROVE LocalInv'
  <2>1. PICK left \in Lifetimes, M \in SUBSET Messages, local \in BOOLEAN :
          registry' = Put(registry, x, [messages |-> M, left |-> left, local |-> local])
    BY <1>4 DEF RegisterFile
  <2>2. /\ DOMAIN registry' = DOMAIN registry \cup {x} /\ registry'[x].local = local
        /\ \A f \in DOMAIN registry : f # x => registry'[f] = registry[f]
    BY <2>1 DEF Put
  <2>3. x \notin used.ids /\ Announced(x)
    BY <1>2, <1>4 DEF RegisterFile
  <2>4. used'.ids = used.ids \cup {x}
    BY <1>4, <2>2 DEF RegisterFile, Change, Typed, ServerTyped
  <2>5. ASSUME NEW f \in used.ids, NEW b \in BOOLEAN, FileHas(f, b) PROVE FileHas(f, b)'
    <3>1. f # x
      BY <2>3
    <3>2. ServerHas(f, b)'
      <4>1. ASSUME NEW i \in DOMAIN events', events'[i].file = f, NEW info \in events'[i].data
            PROVE  info.local = b
        BY <2>3, <2>5, <3>1, <4>1 DEF FileHas, ServerHas
      <4> QED
        BY <2>2, <2>5, <3>1, <4>1 DEF FileHas, ServerHas
    <3> QED
      BY <1>0, <2>5, <3>2 DEF FileHas, GridHas, copyVars
  <2>6. FileHas(x, local)'
    <3>1. \A i \in DOMAIN events : events[i].file = x => events[i].data = {}
      BY <2>3 DEF LocalInv, Typed, ServerTyped
    <3>2. ServerHas(x, local)'
      <4>1. ASSUME NEW i \in DOMAIN events', events'[i].file = x, NEW info \in events'[i].data
            PROVE  info.local = local
        <5>1. CASE i = nextEventId
          BY <2>2, <2>3, <4>1, <5>1
        <5>2. CASE i # nextEventId
          BY <2>3, <3>1, <4>1, <5>2
        <5> QED
          BY <5>1, <5>2
      <4> QED
        BY <2>2, <4>1 DEF ServerHas
    <3>3. /\ x \notin DOMAIN gridFiles /\ x \notin snapshot
          /\ request.pc # "idle" => request.file # x
      BY <2>3 DEF Typed, GridTyped, CopiesTyped, RequestTyped
    <3> QED
      BY <1>0, <3>2, <3>3 DEF FileHas, GridHas, copyVars
  <2>7. \A i \in DOMAIN events' : events'[i].type = "CLEAR" => events'[i].data = {}
    BY <2>3
  <2> QED
    BY <2>1, <2>4, <2>5, <2>6, <2>7 DEF LocalInv
<1>5. ASSUME NEW x \in Files, UpdateFile(x) \/ AddContent(x) \/ DeleteFile(x) PROVE LocalInv'
  <2>1. \A f \in DOMAIN registry' :
          f \in DOMAIN registry /\ registry'[f].local = registry[f].local
    <3>1. ASSUME UpdateFile(x) PROVE <2>1!:
      BY <3>1 DEF UpdateFile, Typed, ServerTyped, FileInfos
    <3>2. ASSUME AddContent(x) PROVE <2>1!:
      BY <3>2 DEF AddContent, Typed, ServerTyped, FileInfos
    <3>3. ASSUME DeleteFile(x) PROVE <2>1!:
      BY <3>3 DEF DeleteFile, Without, Restrict
    <3> QED
      BY <1>5, <3>1, <3>2, <3>3
  <2>2. used'.ids = used.ids \cup DOMAIN registry'
    BY <1>5 DEF UpdateFile, AddContent, DeleteFile, Change, Typed, ServerTyped
  <2>3. used'.ids = used.ids
    BY <2>1, <2>2 DEF Typed, ServerTyped
  <2>4. \E type : type # "CLEAR" /\ Announce(type, x)
    BY <1>5 DEF UpdateFile, AddContent, DeleteFile
  <2> QED
    BY <1>3, <2>1, <2>3, <2>4
<1>6. CASE ClearServer
  <2> DEFINE e == [type |-> "CLEAR", file |-> 0, data |-> {}]
  <2>1. registry' = <<>> /\ events' = Put(<<>>, nextEventId, e)
    BY <1>6 DEF ClearServer
  <2>2. e.data = {}
    OBVIOUS
  <2> HIDE DEF e
  <2>3. DOMAIN registry' = {} /\ DOMAIN events' = {nextEventId} /\ events'[nextEventId] = e
    BY <2>1 DEF Put
  <2>4. used'.ids = used.ids
    BY <1>6, <2>3 DEF ClearServer, Change, Typed, ServerTyped
  <2> QED
    BY <1>1, <2>2, <2>3, <2>4 DEF ServerHas
<1>7. CASE RestartServer
  <2>1. UNCHANGED registry /\ DOMAIN events' = {} /\ used'.ids = used.ids
    BY <1>7 DEF RestartServer, Typed, ServerTyped
  <2> QED
    BY <1>1, <2>1 DEF ServerHas
<1> QED
  BY <1>4, <1>5, <1>6, <1>7 DEF ContentServer

LEMMA LocalStep == Typed /\ LocalInv /\ [Next]_vars => LocalInv'
<1> SUFFICES ASSUME Typed, LocalInv, [Next]_vars PROVE LocalInv'
  OBVIOUS
<1>1. CASE Tick
  <2>1. /\ DOMAIN registry' = DOMAIN registry
        /\ \A f \in DOMAIN registry : registry'[f].local = registry[f].local
    BY <1>1 DEF Tick, Typed, ServerTyped, FileInfos
  <2>2. /\ DOMAIN gridFiles' = DOMAIN gridFiles
        /\ \A f \in DOMAIN gridFiles :
             gridFiles'[f].local = gridFiles[f].local /\ gridFiles'[f].ready = gridFiles[f].ready
    BY <1>1 DEF Tick, Typed, GridTyped, GridFiles
  <2>3. UNCHANGED <<events, used, request, copyVars>>
    BY <1>1 DEF Tick
  <2>4. ASSUME NEW f \in used.ids, NEW b \in BOOLEAN, FileHas(f, b) PROVE FileHas(f, b)'
    BY <2>1, <2>2, <2>3, <2>4 DEF FileHas, ServerHas, GridHas, copyVars
  <2> QED
    BY <2>3, <2>4 DEF LocalInv
<1>2. ASSUME NEW x, Fault(x) PROVE LocalInv'
  <2>1. /\ DOMAIN gridFiles' = DOMAIN gridFiles
        /\ \A f \in DOMAIN gridFiles :
             gridFiles'[f].local = gridFiles[f].local /\ gridFiles'[f].ready = gridFiles[f].ready
    BY <1>2 DEF Fault, Typed, GridTyped, GridFiles
  <2>2. UNCHANGED <<registry, events, request, copyVars>> /\ used'.ids = used.ids
    BY <1>2 DEF Fault, Typed, ServerTyped
  <2>3. ASSUME NEW f \in used.ids, NEW b \in BOOLEAN, FileHas(f, b) PROVE FileHas(f, b)'
    BY <2>1, <2>2, <2>3 DEF FileHas, ServerHas, GridHas, copyVars
  <2> QED
    BY <2>2, <2>3 DEF LocalInv
<1>3. CASE UNCHANGED vars
  BY <1>3 DEF vars, serverVars, copyVars, LocalInv, FileHas, ServerHas, GridHas
<1> QED
  BY <1>1, <1>2, <1>3, ContentServerHas, RequestHas, EventThreadHas, CacheThreadHas DEF Next

-----------------------------------------------------------------------------
\* Every step of every thread keeps the copies in use.
LEMMA CopyStep == Typed /\ LocalInv /\ CopyInv /\ [Next]_vars => CopyInv'
<1> SUFFICES ASSUME Typed, LocalInv, CopyInv, [Next]_vars PROVE CopyInv'
  OBVIOUS
<1>1. \A f \in DOMAIN gridFiles : "ready" \in DOMAIN gridFiles[f]
  BY DEF CopyInv
<1>2. ASSUME UNCHANGED <<gridFiles, copyVars>> PROVE CopyInv'
  BY <1>2 DEF CopyInv, copyVars
<1>3. CASE ContentServer
  BY <1>2, <1>3
  DEF ContentServer, RegisterFile, UpdateFile, AddContent, DeleteFile, ClearServer,
      RestartServer, Change
<1>0. ASSUME UNCHANGED copyVars, DOMAIN gridFiles' = DOMAIN gridFiles,
             \A f \in DOMAIN gridFiles : /\ "ready" \in DOMAIN gridFiles'[f]
                                         /\ gridFiles'[f].ready = gridFiles[f].ready
      PROVE  CopyInv'
  BY <1>0, SameFlagsNoNew, CopiesStay
<1>4. CASE Tick
  <2>1. /\ DOMAIN gridFiles' = DOMAIN gridFiles
        /\ \A f \in DOMAIN gridFiles : /\ "ready" \in DOMAIN gridFiles'[f]
                                        /\ gridFiles'[f].ready = gridFiles[f].ready
    BY <1>1, <1>4 DEF Tick
  <2> QED
    BY <1>0, <1>4, <2>1 DEF Tick
<1>5. ASSUME NEW f, Fault(f) PROVE CopyInv'
  <2>1. /\ DOMAIN gridFiles' = DOMAIN gridFiles
        /\ \A g \in DOMAIN gridFiles : /\ "ready" \in DOMAIN gridFiles'[g]
                                        /\ gridFiles'[g].ready = gridFiles[g].ready
    BY <1>1, <1>5 DEF Fault
  <2> QED
    BY <1>0, <1>5, <2>1 DEF Fault
<1>6. CASE Request
  <2>1. ASSUME NEW f, AskKnown(f) PROVE CopyInv'
    <3>1. /\ "ready" \in DOMAIN usableGridFile(gridFiles[f])
          /\ usableGridFile(gridFiles[f]).ready = gridFiles[f].ready
      BY <1>1, <2>1 DEF AskKnown, usableGridFile
    <3>2. /\ DOMAIN gridFiles' = DOMAIN gridFiles
          /\ \A g \in DOMAIN gridFiles : /\ "ready" \in DOMAIN gridFiles'[g]
                                          /\ gridFiles'[g].ready = gridFiles[g].ready
      BY <1>1, <2>1, <3>1 DEF AskKnown
    <3> QED
      BY <1>0, <2>1, <3>2 DEF AskKnown
  <2>2. ASSUME NEW f, AskUnknown(f) \/ ReadContent PROVE CopyInv'
    BY <1>2, <2>2 DEF AskUnknown, ReadContent
  <2>3. ASSUME AddRequested PROVE CopyInv'
    BY <1>1, <2>3, AddFileNoNew, CopiesStay DEF AddRequested
  <2> QED
    BY <1>6, <2>1, <2>2, <2>3 DEF Request
<1>7. CASE EventThread
  <2>1. ASSUME cleanupFiles PROVE CopyInv'
    <3> DEFINE H == deleteFilesByAccessTime(gridFiles)
    <3>1. NoNewCopies(gridFiles, H)
      BY <1>1, WithoutNoNew DEF deleteFilesByAccessTime
    <3>2. NoNewCopies(H, gridFiles')
      BY <2>1, <3>1, WithoutNoNew DEF cleanupFiles, deleteFilesByDeletionTime, NoNewCopies
    <3> QED
      BY <2>1, <3>1, <3>2, NoNewTwice, CopiesStay DEF cleanupFiles
  <2>2. ASSUME processEvents \/ readContentList PROVE CopyInv'
    BY <1>2, <2>2 DEF processEvents, readContentList
  <2>3. ASSUME processEvent PROVE CopyInv'
    BY <1>2, <2>3, HandledNoNew, CopiesStay DEF processEvent
  <2>4. ASSUME readLastEvent PROVE CopyInv'
    BY <2>4, EmptyNoNew, CopiesStay DEF readLastEvent
  <2>5. ASSUME readFileList PROVE CopyInv'
    <3>1. PICK unreadable \in SUBSET DOMAIN registry :
            gridFiles' =
              [f \in DOMAIN gridFiles
                       \cup {x \in DOMAIN registry \ unreadable : FullContent(x) # {}} |->
                 IF f \in DOMAIN registry /\ FullContent(f) # {}
                   THEN addFile(gridFiles, f, registry[f], FullContent(f), f \notin unreadable)[f]
                   ELSE gridFiles[f]]
      BY <2>5 DEF readFileList
    <3>2. \A f \in DOMAIN gridFiles' :
            /\ "ready" \in DOMAIN gridFiles'[f]
            /\ gridFiles'[f].ready => f \in DOMAIN gridFiles /\ gridFiles[f].ready
      <4> SUFFICES ASSUME NEW f \in DOMAIN gridFiles'
                   PROVE  /\ "ready" \in DOMAIN gridFiles'[f]
                          /\ gridFiles'[f].ready => f \in DOMAIN gridFiles /\ gridFiles[f].ready
        OBVIOUS
      <4> DEFINE H == addFile(gridFiles, f, registry[f], FullContent(f), f \notin unreadable)
      <4>1. CASE f \in DOMAIN registry /\ FullContent(f) # {}
        <5>1. gridFiles'[f] = H[f] /\ (f \in DOMAIN gridFiles \/ f \notin unreadable)
          BY <3>1, <4>1
        <5>2. /\ f \in DOMAIN H /\ "ready" \in DOMAIN H[f]
              /\ H[f].ready => f \in DOMAIN gridFiles /\ gridFiles[f].ready
          BY <1>1, <5>1, AddFileCopies
        <5> QED
          BY <5>1, <5>2
      <4>2. CASE ~(f \in DOMAIN registry /\ FullContent(f) # {})
        BY <1>1, <3>1, <4>2
      <4> QED
        BY <4>1, <4>2
    <3>3. NoNewCopies(gridFiles, gridFiles')
      BY <3>2 DEF NoNewCopies, InCache
    <3> QED
      BY <2>5, <3>3, CopiesStay DEF readFileList
  <2> QED
    BY <1>7, <2>1, <2>2, <2>3, <2>4, <2>5 DEF EventThread
<1>8. CASE CacheThread
  <2>1. ASSUME getFilesToBeCached PROVE CopyInv'
    BY <2>1 DEF getFilesToBeCached, CopyInv
  <2>2. ASSUME NEW f, copyToLocalCache(f) PROVE CopyInv'
    BY <2>2 DEF copyToLocalCache, CopyInv, InCache
  <2>3. ASSUME getFilesInCache PROVE CopyInv'
    <3>1. snapshot' = InCache(gridFiles) /\ UNCHANGED <<gridFiles, directory>>
      BY <2>3, ReadyAreLocal DEF getFilesInCache, InCache
    <3> QED
      BY <3>1 DEF CopyInv
  <2>4. ASSUME removeOldCacheFiles PROVE CopyInv'
    BY <2>4 DEF removeOldCacheFiles, CopyInv
  <2> QED
    BY <1>8, <2>1, <2>2, <2>3, <2>4 DEF CacheThread
<1>9. CASE UNCHANGED vars
  BY <1>2, <1>9 DEF vars
<1> QED
  BY <1>3, <1>4, <1>5, <1>6, <1>7, <1>8, <1>9 DEF Next

\* A local copy from which the requests read is never removed, whatever the other
\* threads do while the cache thread collects, copies and removes: only the cache
\* thread makes copies ready, none between the two steps of the removal, and those of
\* no other files than it looks for.
THEOREM CopiesKeptHolds == Spec => []CopiesKept
<1> DEFINE Inv == Typed /\ LocalInv /\ CopyInv
<1>1. Init => Inv
  BY InitTyped DEF Init, LocalInv, CopyInv, InCache
<1>2. Inv /\ [Next]_vars => Inv'
  BY NextTyped, LocalStep, CopyStep
<1>3. Inv => CopiesKept
  BY DEF CopyInv, CopiesKept, InCache
<1> HIDE DEF Inv
<1> QED
  BY <1>1, <1>2, <1>3, PTL DEF Spec
=============================================================================
