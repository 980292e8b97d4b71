---------------------------- MODULE QueryCaches ----------------------------
(***************************************************************************)
(* The lookups of a query server (queryServer/implementation), in which    *)
(* three threads of control meet:                                          *)
(*   - the content server publishes a new search structure, or reloads its *)
(*     data and does not answer in the meantime;                           *)
(*   - the update thread of the query server copies the producers and the  *)
(*     generations, every 60 seconds or when the content has changed;      *)
(*   - a query looks for content, the newest generation first, and caches  *)
(*     what it finds, labelled with the hash of the producer.               *)
(* The caches of a query thread are its own (thread_local), so that one    *)
(* query thread stands for all.  One producer, parameter and forecast time. *)
(*                                                                         *)
(* A counter that the update thread increments, and the value of it that a *)
(* query thread has seen, are one flag here: the thread has something to   *)
(* clear.  A time and the seconds since then are an age that stops at the  *)
(* check interval.                                                         *)
(***************************************************************************)
EXTENDS Naturals, Sequences, FiniteSets, FiniteSetsExt, SequencesExt, Functions

CONSTANTS
  Generations,       \* numbers, in the order of the analysis times
  Levels,
  AskedLevels,       \* the levels that are asked for
  AnyLevel,          \* stands for the level in hash3
  NoProducer,        \* the producer is not in the producer map
  CheckInterval,     \* mProducerMap_checkInterval, mGenerationInfoList_checkInterval
  MaxChanges,        \* bound on the search structures and the reloads together
  MaxReloads,        \* bound on the reloads of the content server
  Expiry,            \* whether the caches may be a day old or have too many records
  EmptyGenerations   \* whether a generation may be listed before its content

ASSUME QueryAssumption ==
  /\ Generations \subseteq Nat /\ Generations # {} /\ IsFiniteSet(Generations)
  /\ AskedLevels \subseteq Levels /\ AskedLevels # {} /\ AnyLevel \notin Levels
  /\ CheckInterval \in Nat \ {0}
  /\ MaxChanges \in Nat /\ MaxReloads \in Nat
  /\ Expiry \in BOOLEAN /\ EmptyGenerations \in BOOLEAN

VARIABLES
  history,               \* the search structures published so far
  changeTold,            \* mContentChangeTime tells of the last one
  reloading,             \* mUpdateInProgress of the content server
  reloads,               \* what has been used of MaxReloads
  upc, batch,            \* where the update thread is, and what it has fetched
  restartUnseen,         \* mServerTime > mContentServerStartTime
  mProducerMap,          \* the hash of the producer
  mapAge, changeUnseen,  \* since mProducerMap_updateTime; changeTime is after it
  mGenerationInfoList,
  listAge,               \* since mGenerationInfoList_checkTime
  clearGenerations,      \* the flags of the three generation counters
  clearContent, clearSearches,
  mProducerGenerationListCache,
  mContentCache,
  mContentSearchCache,
  qpc, query             \* where the query thread is, and what it looks for

serverVars == <<history, changeTold, reloading, reloads>>
copyVars == <<mProducerMap, mapAge, changeUnseen, mGenerationInfoList, listAge>>
updateVars == <<upc, batch, restartUnseen>>
flagVars == <<clearGenerations, clearContent, clearSearches>>
cacheVars == <<mProducerGenerationListCache, mContentCache, mContentSearchCache>>
queryVars == <<qpc, query>>
vars == <<serverVars, copyVars, updateVars, flagVars, cacheVars, queryVars>>

-----------------------------------------------------------------------------
(* The content server.                                                      *)

\* A record stands for the content of a generation on a level; a new edition is
\* content of other files.
Records == [generation : Generations, level : Levels, edition : Nat]
Structures == [generations : SUBSET Generations, content : SUBSET Records]

published == Last(history)

\* The hash of a producer covers its generations and the identifiers of its
\* content: it names the state.
Hash(structure) == structure

\* Mutant: a reload that has a hash before it has the data.
ProducerListUnloaded ==
  IF reloading THEN Hash([generations |-> {}, content |-> {}]) ELSE Hash(published)

\* The getters return at once while the data is loaded, and leave the list of the
\* caller as it is: the lists of the update thread are empty then.
ProducerList == IF reloading THEN NoProducer ELSE Hash(published)
GenerationList == IF reloading THEN {} ELSE published.generations

\* The content is not looked for, either, if there is no such generation (any more).
Answers(g) == ~reloading /\ g \in published.generations

\* What becomes of the caller's list: it is cleared and filled, or left as it is.
ContentList(g, levels, list) ==
  IF Answers(g) THEN {r \in published.content : r.generation = g /\ r.level \in levels}
  ELSE list

Edition == Len(history) + 1

Filled(g, levels, edition) ==
  [generation : {g}, level : levels, edition : {edition}]

\* The levels of a generation that has just been listed.
FirstLevels == {L \in SUBSET Levels : L # {} \/ EmptyGenerations}

Refilled(g, levels) ==
  [published EXCEPT
     !.content = {r \in @ : r.generation # g \/ r.level \notin levels}
                   \cup Filled(g, levels, Edition)]

WithGeneration(g, levels) ==
  [generations |-> published.generations \cup {g},
   content |-> published.content \cup Filled(g, levels, Edition)]

WithoutOldest ==
  LET g == Min(published.generations)
  IN [generations |-> published.generations \ {g},
      content |-> {r \in published.content : r.generation # g}]

Changes ==
  {Refilled(g, levels) : g \in published.generations, levels \in (SUBSET Levels) \ {{}}}
    \cup {WithGeneration(g, levels) :
            g \in {x \in Generations : \A y \in published.generations : x > y},
            levels \in FirstLevels}
    \cup (IF Cardinality(published.generations) > 1 THEN {WithoutOldest} ELSE {})

Publish ==
  /\ ~reloading /\ changeTold /\ Len(history) + reloads <= MaxChanges
  /\ \E s \in Changes : history' = Append(history, s)
  /\ changeTold' = FALSE
  /\ UNCHANGED <<reloading, reloads, copyVars, updateVars, flagVars, cacheVars, queryVars>>

\* mContentChangeTime = time(nullptr), in the same second as the last copy of the
\* producers or later.
StampChangeTime ==
  /\ ~changeTold
  /\ changeTold' = TRUE
  /\ changeUnseen' = (changeUnseen \/ mapAge > 0)
  /\ UNCHANGED <<history, reloading, reloads, mProducerMap, mapAge, mGenerationInfoList,
                 listAge, updateVars, flagVars, cacheVars, queryVars>>

\* The storage has started again: the cache tells its new start time at once.
StartReload ==
  /\ ~reloading /\ changeTold
  /\ reloads < MaxReloads /\ Len(history) + reloads <= MaxChanges
  /\ reloading' = TRUE
  /\ reloads' = reloads + 1
  /\ restartUnseen' = TRUE
  /\ UNCHANGED <<history, changeTold, copyVars, upc, batch, flagVars, cacheVars, queryVars>>

EndReload ==
  /\ reloading
  /\ reloading' = FALSE
  /\ UNCHANGED <<history, changeTold, reloads, copyVars, updateVars, flagVars, cacheVars,
                 queryVars>>

-----------------------------------------------------------------------------
(* The update thread, once in a second.                                     *)

Older(age) == IF age < CheckInterval THEN age + 1 ELSE age

\* A second goes by.
Tick ==
  /\ mapAge' = Older(mapAge)
  /\ listAge' = Older(listAge)
  /\ UNCHANGED <<serverVars, mProducerMap, changeUnseen, mGenerationInfoList, updateVars,
                 flagVars, cacheVars, queryVars>>

checkContentServerRestart ==
  /\ upc = "restart"
  /\ upc' = "producers"
  /\ restartUnseen' = FALSE
  /\ IF restartUnseen
       THEN /\ clearGenerations' = TRUE
            /\ clearContent' = TRUE
            /\ clearSearches' = TRUE
            /\ mapAge' = CheckInterval
            /\ changeUnseen' = TRUE
            /\ listAge' = CheckInterval
       ELSE UNCHANGED <<flagVars, mapAge, changeUnseen, listAge>>
  /\ UNCHANGED <<serverVars, batch, mProducerMap, mGenerationInfoList, cacheVars, queryVars>>

\* Mutant: without the check in regular intervals.
ProducersDueTold == changeUnseen

\* checkProducerMapUpdates() up to the answer of getProducerInfoList().
ProducersDue == changeUnseen \/ mapAge >= CheckInterval

FetchProducers ==
  /\ upc = "producers"
  /\ listAge' = IF changeUnseen THEN CheckInterval ELSE listAge
  /\ IF ProducersDue
       THEN /\ batch' = [hash |-> ProducerList]
            /\ upc' = "replaceProducers"
       ELSE /\ upc' = "generations"
            /\ UNCHANGED batch
  /\ UNCHANGED <<serverVars, restartUnseen, mProducerMap, mapAge, changeUnseen,
                 mGenerationInfoList, flagVars, cacheVars, queryVars>>

\* The map is replaced and the time is taken after the answer: a change between
\* the answer and this step may be in the past of mProducerMap_updateTime.
ReplaceProducers ==
  /\ upc = "replaceProducers"
  /\ mProducerMap' = batch.hash
  /\ mapAge' = 0
  /\ changeUnseen' = FALSE
  /\ batch' = [hash |-> NoProducer]
  /\ upc' = "generations"
  /\ UNCHANGED <<serverVars, restartUnseen, mGenerationInfoList, listAge, flagVars,
                 cacheVars, queryVars>>

\* checkGenerationUpdates()
FetchGenerations ==
  /\ upc = "generations"
  /\ IF listAge >= CheckInterval
       THEN /\ batch' = [generations |-> GenerationList]
            /\ upc' = "replaceGenerations"
       ELSE /\ upc' = "restart"
            /\ UNCHANGED batch
  /\ UNCHANGED <<serverVars, restartUnseen, copyVars, flagVars, cacheVars, queryVars>>

ReplaceGenerations ==
  /\ upc = "replaceGenerations"
  /\ mGenerationInfoList' = batch.generations
  /\ listAge' = 0
  /\ batch' = [hash |-> NoProducer]
  /\ upc' = "announceGenerations"
  /\ UNCHANGED <<serverVars, restartUnseen, mProducerMap, mapAge, changeUnseen, flagVars,
                 cacheVars, queryVars>>

AnnounceGenerations ==
  /\ upc = "announceGenerations"
  /\ clearGenerations' = TRUE
  /\ upc' = "restart"
  /\ UNCHANGED <<serverVars, restartUnseen, batch, copyVars, clearContent, clearSearches,
                 cacheVars, queryVars>>

UpdateThread ==
  \/ checkContentServerRestart \/ FetchProducers \/ ReplaceProducers
  \/ FetchGenerations \/ ReplaceGenerations \/ AnnounceGenerations

-----------------------------------------------------------------------------
(* The query thread.                                                        *)

Put(f, k, v) == [x \in DOMAIN f \cup {k} |-> IF x = k THEN v ELSE f[x]]

Idle == [level |-> AnyLevel, hash |-> NoProducer, left |-> {}]

\* What is found for a level: the content on it, or what there is on the levels
\* around it.
searchContentList(list, l) ==
  IF \E r \in list : r.level = l THEN {r \in list : r.level = l} ELSE list

\* getProducerInfoByName(): the query keeps its copy of the hash.
BeginQuery(l) ==
  /\ qpc = "idle"
  /\ mProducerMap # NoProducer
  /\ query' = [Idle EXCEPT !.level = l, !.hash = mProducerMap]
  /\ qpc' = "generations"
  /\ UNCHANGED <<serverVars, copyVars, updateVars, flagVars, cacheVars>>

\* Mutant: the counter is noted, but nothing is cleared.
FindGenerationsNoted ==
  /\ qpc = "generations"
  /\ clearGenerations' = FALSE
  /\ LET valid == {e \in mProducerGenerationListCache : e.hash = query.hash}
     IN /\ mProducerGenerationListCache' = valid
        /\ IF valid = {}
             THEN qpc' = "readGenerations" /\ UNCHANGED query
             ELSE /\ qpc' = "search"
                  /\ \E e \in valid : query' = [query EXCEPT !.left = e.generations]
  /\ UNCHANGED <<serverVars, copyVars, updateVars, clearContent, clearSearches,
                 mContentCache, mContentSearchCache>>

\* getGenerationInfoListByProducerId(): the counter, and then the cache.
FindGenerations ==
  /\ qpc = "generations"
  /\ clearGenerations' = FALSE
  /\ LET valid == IF clearGenerations THEN {}
                  ELSE {e \in mProducerGenerationListCache : e.hash = query.hash}
     IN /\ mProducerGenerationListCache' = valid
        /\ IF valid = {}
             THEN qpc' = "readGenerations" /\ UNCHANGED query
             ELSE /\ qpc' = "search"
                  /\ \E e \in valid : query' = [query EXCEPT !.left = e.generations]
  /\ UNCHANGED <<serverVars, copyVars, updateVars, clearContent, clearSearches,
                 mContentCache, mContentSearchCache>>

\* mGenerationInfoList is read without its lock, and stored under the hash of the
\* query.
ReadGenerations ==
  /\ qpc = "readGenerations"
  /\ mProducerGenerationListCache' = {[hash |-> query.hash,
                                       generations |-> mGenerationInfoList]}
  /\ query' = [query EXCEPT !.left = mGenerationInfoList]
  /\ qpc' = "search"
  /\ UNCHANGED <<serverVars, copyVars, updateVars, flagVars, mContentCache,
                 mContentSearchCache>>

\* The generation that is searched next, and what is cached of it.
Newest == Max(query.left)
SearchKey == <<Newest, query.level>>
EntryKey ==
  IF SearchKey \in DOMAIN mContentCache THEN SearchKey ELSE <<Newest, AnyLevel>>

Valid(cache, k) == k \in DOMAIN cache /\ cache[k].hash = query.hash

\* The next generation, when there is nothing in this one.
Proceed(found) ==
  IF found = {} /\ query.left # {Newest}
    THEN /\ query' = [query EXCEPT !.left = @ \ {Newest}]
         /\ qpc' = "search"
    ELSE query' = Idle /\ qpc' = "idle"

SearchNothing ==
  /\ qpc = "search" /\ query.left = {}
  /\ query' = Idle /\ qpc' = "idle"
  /\ UNCHANGED <<serverVars, copyVars, updateVars, flagVars, cacheVars>>

\* A result in mContentSearchCache is used at once.
SearchHit ==
  /\ qpc = "search" /\ query.left # {}
  /\ Valid(mContentSearchCache, SearchKey)
  /\ Proceed(mContentSearchCache[SearchKey].list)
  /\ UNCHANGED <<serverVars, copyVars, updateVars, flagVars, cacheVars>>

\* storeContentSearchResult().  A cache is cleared before something is stored, if
\* its counter says so, or (full) if it is a day old or has too many records.
storeContentSearchResult(entry) ==
  LET found == searchContentList(entry.list, query.level)
  IN /\ \E full \in {FALSE, Expiry} :
          mContentSearchCache' =
            Put(IF clearSearches \/ full THEN <<>> ELSE mContentSearchCache, SearchKey,
                [hash |-> query.hash, list |-> found, answered |-> entry.answered])
     /\ clearSearches' = FALSE
     /\ Proceed(found)

EntryHit ==
  /\ qpc = "search" /\ query.left # {}
  /\ ~Valid(mContentSearchCache, SearchKey)
  /\ Valid(mContentCache, EntryKey)
  /\ storeContentSearchResult(mContentCache[EntryKey])
  /\ UNCHANGED <<serverVars, copyVars, updateVars, clearGenerations, clearContent,
                 mProducerGenerationListCache, mContentCache>>

\* storeContentCacheEntry()
storeContentCacheEntry(k, entry) ==
  /\ \E full \in {FALSE, Expiry} :
       mContentCache' = Put(IF clearContent \/ full THEN <<>> ELSE mContentCache, k, entry)
  /\ clearContent' = FALSE

\* The list has been fetched and gets the hash of the query, whatever the server said.
\* Whether it has answered is history.
Labelled(list) == [hash |-> query.hash, list |-> list, answered |-> Answers(Newest)]

\* A new entry is stored for its level, and for every level if there is no content.
NewKey(list) == IF list = {} THEN <<Newest, AnyLevel>> ELSE SearchKey

\* Mutant: the result comes from the entry of before.
updateContentCacheEntryBefore(list) ==
  IF EntryKey \in DOMAIN mContentCache
    THEN /\ mContentCache' = [mContentCache EXCEPT ![EntryKey] = Labelled(list)]
         /\ storeContentSearchResult(mContentCache[EntryKey])
         /\ UNCHANGED clearContent
    ELSE /\ storeContentSearchResult(Labelled(list))
         /\ storeContentCacheEntry(NewKey(list), Labelled(list))

\* updateContentCacheEntry() when the content has been fetched, and what follows.
\* An entry that there is keeps its key.
updateContentCacheEntry(list) ==
  /\ storeContentSearchResult(Labelled(list))
  /\ IF EntryKey \in DOMAIN mContentCache
       THEN /\ mContentCache' = [mContentCache EXCEPT ![EntryKey] = Labelled(list)]
            /\ UNCHANGED clearContent
       ELSE storeContentCacheEntry(NewKey(list), Labelled(list))

\* The list of the entry, or of a new one, which the fetches fill in place.
EntryList == IF EntryKey \in DOMAIN mContentCache THEN mContentCache[EntryKey].list ELSE {}

\* Content of before, which a fetch without an answer leaves there, is not empty: it
\* counts as fetched.
FetchLevel ==
  /\ qpc = "search" /\ query.left # {}
  /\ ~Valid(mContentSearchCache, SearchKey)
  /\ ~Valid(mContentCache, EntryKey)
  /\ LET list == ContentList(Newest, {query.level}, EntryList)
     IN IF list # {}
          THEN updateContentCacheEntry(list) /\ UNCHANGED clearGenerations
          ELSE /\ qpc' = "fetchAll"
               /\ UNCHANGED <<query, flagVars, mContentCache, mContentSearchCache>>
  /\ UNCHANGED <<serverVars, copyVars, updateVars, mProducerGenerationListCache>>

\* The list of the entry is empty.
FetchAllLevels ==
  /\ qpc = "fetchAll"
  /\ updateContentCacheEntry(ContentList(Newest, Levels, {}))
  /\ UNCHANGED <<serverVars, copyVars, updateVars, clearGenerations,
                 mProducerGenerationListCache>>

QueryThread ==
  \/ \E l \in AskedLevels : BeginQuery(l)
  \/ FindGenerations \/ ReadGenerations
  \/ SearchNothing \/ SearchHit \/ EntryHit \/ FetchLevel \/ FetchAllLevels

-----------------------------------------------------------------------------
\* The server has published a generation, and the query server has copied it.
Init ==
  /\ \E g \in {Min(Generations)}, levels \in (SUBSET Levels) \ {{}} :
       history = <<[generations |-> {g}, content |-> Filled(g, levels, 1)]>>
  /\ changeTold = TRUE
  /\ reloading = FALSE /\ reloads = 0
  /\ upc = "restart" /\ batch = [hash |-> NoProducer]
  /\ restartUnseen = FALSE
  /\ mProducerMap = Hash(published) /\ mapAge = 0 /\ changeUnseen = FALSE
  /\ mGenerationInfoList = published.generations /\ listAge = 0
  /\ clearGenerations = FALSE /\ clearContent = FALSE /\ clearSearches = FALSE
  /\ mProducerGenerationListCache = {} /\ mContentCache = <<>> /\ mContentSearchCache = <<>>
  /\ qpc = "idle" /\ query = Idle

Next ==
  \/ Publish \/ StampChangeTime \/ StartReload \/ EndReload
  \/ Tick \/ UpdateThread \/ QueryThread

Spec == Init /\ [][Next]_vars

\* Time goes by, the update thread goes on, and a change of the server comes to
\* its end.  Nobody has to ask anything.
FairSpec ==
  /\ Spec
  /\ WF_vars(StampChangeTime) /\ WF_vars(EndReload)
  /\ WF_vars(Tick) /\ WF_vars(UpdateThread)

-----------------------------------------------------------------------------
IsCache(cache) ==
  /\ DOMAIN cache \subseteq Generations \X (Levels \cup {AnyLevel})
  /\ \A k \in DOMAIN cache :
       /\ cache[k].hash \in Range(history)
       /\ cache[k].list \subseteq UNION {s.content : s \in Range(history)}
       /\ cache[k].answered \in BOOLEAN

\* Types of the variables: a hash is one that the server has published.
TypeOK ==
  /\ \A i \in DOMAIN history : history[i].generations \subseteq Generations
  /\ changeTold \in BOOLEAN /\ reloading \in BOOLEAN /\ reloads \in 0..MaxReloads
  /\ upc \in {"restart", "producers", "replaceProducers", "generations",
              "replaceGenerations", "announceGenerations"}
  /\ restartUnseen \in BOOLEAN
  /\ mProducerMap \in Range(history) \cup {NoProducer}
  /\ mapAge \in 0..CheckInterval /\ listAge \in 0..CheckInterval
  /\ mGenerationInfoList \subseteq Generations
  /\ {changeUnseen, clearGenerations, clearContent, clearSearches} \subseteq BOOLEAN
  /\ \A e \in mProducerGenerationListCache :
       e.hash \in Range(history) /\ e.generations \subseteq Generations
  /\ IsCache(mContentCache) /\ IsCache(mContentSearchCache)
  /\ qpc \in {"idle", "generations", "readGenerations", "search", "fetchAll"}
  /\ query.level \in Levels \cup {AnyLevel}
  /\ query.hash \in Range(history) \cup {NoProducer}
  /\ query.left \subseteq Generations

\* What the server would have answered for a level, since it published the state
\* that a hash names.
AnswersSince(structures, hash, g, l) ==
  {searchContentList({r \in structures[i].content : r.generation = g}, l) :
     i \in {j \in DOMAIN structures : \E k \in 1..j : structures[k] = hash}}

IsAnswer(k, entry) == entry.list \in AnswersSince(history, entry.hash, k[1], k[2])

\* A result that a query may take from mContentSearchCache was an answer of the
\* server after it had published the state in the label of the result: a hash that
\* has changed leads to a new fetch, however the fetches, the copies of the update
\* thread and the changes of the server interleave.  It is older than its label only
\* if the fetch had no answer and left the content of before in the entry; and this
\* happens to a generation that the server has not any more, or after a reload.
ResultsNotOlder ==
  \A k \in DOMAIN mContentSearchCache :
    \/ IsAnswer(k, mContentSearchCache[k])
    \/ /\ ~mContentSearchCache[k].answered
       /\ k[1] \notin published.generations \/ reloads > 0

\* The counter covers the replacement of the generations: unless there is something to
\* clear or to announce, a cached list is the list of the update thread.
GenerationListsFollow ==
  \/ clearGenerations \/ upc = "announceGenerations"
  \/ \A e \in mProducerGenerationListCache : e.generations = mGenerationInfoList

\* The copies of the update thread come to be what the server has published, also after
\* a change in the second of a copy, and after a reload.
CopiesFollow ==
  <>[](mProducerMap = Hash(published) /\ mGenerationInfoList = published.generations)

\* An entry without a level serves every level.
LevelIndependent ==
  \A k \in DOMAIN mContentCache :
    k[2] = AnyLevel /\ mContentCache[k].answered =>
      \A l \in AskedLevels :
        searchContentList(mContentCache[k].list, l)
          \in AnswersSince(history, mContentCache[k].hash, k[1], l)
=============================================================================
