------------------------- MODULE QueryCachesProofs -------------------------
(***************************************************************************)
(* Proofs about QueryCaches for every set of generations and levels, every *)
(* check interval and every number of publications and reloads.            *)
(***************************************************************************)
EXTENDS QueryCaches, SequenceTheorems, FiniteSetTheorems, NaturalsInduction,
        WellFoundedInduction, TLAPS

-----------------------------------------------------------------------------
(* Numbers.                                                                 *)

\* The first of some numbers.
LEMMA LeastOfNat ==
  ASSUME NEW S, S \subseteq Nat, S # {}
  PROVE  \E x \in S : \A y \in S : x <= y
<1> DEFINE R == OpToRel(<, Nat)
<1>1. IsWellFoundedOn(R, Nat)
  BY NatLessThanWellFounded
<1>2. \A m, n \in Nat : m < n => <<m, n>> \in R
  BY DEF OpToRel
<1> HIDE DEF R
<1>3. PICK x \in S : \A y \in S : ~(<<y, x>> \in R)
  BY <1>1, WFMin
<1>4. ASSUME NEW y \in S PROVE x <= y
  <2>1. x \in Nat /\ y \in Nat
    OBVIOUS
  <2>2. ~(y < x)
    BY <1>2, <1>3, <2>1
  <2> QED
    BY <2>1, <2>2
<1> QED
  BY <1>4

LEMMA MinIs ==
  ASSUME NEW S, S \subseteq Nat, S # {}
  PROVE  Min(S) \in S /\ \A y \in S : Min(S) <= y
BY LeastOfNat DEF Min

\* A finite set of numbers has a bound, and the least of its bounds is in the set.
LEMMA BoundOfNat ==
  ASSUME NEW S, S \subseteq Nat, IsFiniteSet(S)
  PROVE  \E b \in Nat : \A y \in S : y <= b
<1>n. PICK n \in Nat : \E f \in [1..n -> S] : \A y \in S : \E i \in 1..n : f[i] = y
  BY FS_NatSurjection DEF ExistsSurjection, Surjection
<1>1. PICK f : f \in [1..n -> S] /\ \A y \in S : \E i \in 1..n : f[i] = y
  BY <1>n
<1> DEFINE Bounded(m) == \E b \in Nat : \A i \in 1..m : f[i] <= b
           Unbounded == {m \in 0..n : ~Bounded(m)}
<1>0. \A i \in 1..n : f[i] \in Nat
  BY <1>1
<1>2. Unbounded = {}
  <2> SUFFICES ASSUME Unbounded # {} PROVE FALSE
    OBVIOUS
  <2>1. PICK m \in Unbounded : \A k \in Unbounded : m <= k
    <3>1. Unbounded \subseteq Nat
      OBVIOUS
    <3> QED
      BY <3>1, LeastOfNat
  <2>2. m \in 0..n /\ ~Bounded(m)
    BY <2>1
  <2>3. Bounded(0)
    <3>1. \A i \in 1..0 : f[i] <= 0
      OBVIOUS
    <3> QED
      BY <3>1
  <2>4. m # 0
    BY <2>2, <2>3
  <2>5. m - 1 \in 0..n /\ ~(m <= m - 1)
    BY <2>2, <2>4
  <2>6. Bounded(m - 1)
    BY <2>1, <2>5
  <2>7. PICK b \in Nat : \A i \in 1..(m - 1) : f[i] <= b
    BY <2>6
  <2>8. f[m] \in Nat
    <3>1. m \in 1..n
      BY <2>2, <2>4
    <3> QED
      BY <1>0, <3>1
  <2>9. \A i \in 1..m : f[i] <= b + f[m]
    <3> SUFFICES ASSUME NEW i \in 1..m PROVE f[i] <= b + f[m]
      OBVIOUS
    <3>0. i \in 1..n
      BY <2>2
    <3>1. f[i] \in Nat
      BY <1>0, <3>0
    <3>2. CASE i = m
      BY <2>8, <3>2
    <3>3. CASE i # m
      <4>1. i \in 1..(m - 1)
        BY <2>2, <3>3
      <4>2. f[i] <= b
        BY <2>7, <4>1
      <4> QED
        BY <2>8, <3>1, <4>2
    <3> QED
      BY <3>2, <3>3
  <2>10. b + f[m] \in Nat
    BY <2>8
  <2> QED
    BY <2>2, <2>9, <2>10
<1>3. Bounded(n)
  BY <1>2
<1>4. PICK b \in Nat : \A i \in 1..n : f[i] <= b
  BY <1>3
<1> QED
  BY <1>1, <1>4

LEMMA MaxIs ==
  ASSUME NEW S, S \subseteq Nat, S # {}, IsFiniteSet(S)
  PROVE  Max(S) \in S
<1> DEFINE Bounds == {b \in Nat : \A y \in S : y <= b}
<1>1. PICK b \in Bounds : \A c \in Bounds : b <= c
  BY BoundOfNat, LeastOfNat
<1>2. b \in S
  <2> SUFFICES ASSUME b \notin S PROVE FALSE
    OBVIOUS
  <2>1. PICK z \in S : TRUE
    OBVIOUS
  <2>2. b # 0
    BY <1>1, <2>1
  <2>3. b - 1 \in Bounds
    BY <1>1, <2>2
  <2> QED
    BY <1>1, <2>3
<1>3. \E x \in S : \A y \in S : x >= y
  BY <1>1, <1>2
<1> QED
  BY <1>3 DEF Max

-----------------------------------------------------------------------------
(* The generation lists.                                                    *)

\* Nothing but the replacement changes the list of the update thread, and the counter
\* covers the time until it is announced.
LEMMA NextGenerationLists == GenerationListsFollow /\ [Next]_vars => GenerationListsFollow'
<1> SUFFICES ASSUME GenerationListsFollow, [Next]_vars PROVE GenerationListsFollow'
  OBVIOUS
<1> USE DEF GenerationListsFollow, serverVars, copyVars, updateVars, flagVars, cacheVars,
            queryVars
<1>1. ASSUME FindGenerations PROVE GenerationListsFollow'
  BY <1>1 DEF FindGenerations
<1>2. ASSUME ReadGenerations PROVE GenerationListsFollow'
  BY <1>2 DEF ReadGenerations
<1>3. ASSUME ReplaceGenerations PROVE GenerationListsFollow'
  BY <1>3 DEF ReplaceGenerations
<1>4. ASSUME AnnounceGenerations PROVE GenerationListsFollow'
  BY <1>4 DEF AnnounceGenerations
<1>5. ASSUME checkContentServerRestart PROVE GenerationListsFollow'
  BY <1>5 DEF checkContentServerRestart
<1>6. ASSUME FetchProducers \/ ReplaceProducers \/ FetchGenerations
      PROVE  GenerationListsFollow'
  BY <1>6 DEF FetchProducers, ReplaceProducers, FetchGenerations
<1>7. ASSUME Publish \/ StampChangeTime \/ StartReload \/ EndReload \/ Tick
      PROVE  GenerationListsFollow'
  BY <1>7 DEF Publish, StampChangeTime, StartReload, EndReload, Tick
<1>8. ASSUME \/ \E l \in AskedLevels : BeginQuery(l)
             \/ SearchNothing \/ SearchHit \/ EntryHit \/ FetchLevel \/ FetchAllLevels
      PROVE  GenerationListsFollow'
  <2>1. UNCHANGED <<clearGenerations, upc, mProducerGenerationListCache, mGenerationInfoList>>
    BY <1>8 DEF BeginQuery, SearchNothing, SearchHit, EntryHit, FetchLevel, FetchAllLevels
  <2> QED
    BY <2>1
<1>9. CASE UNCHANGED vars
  BY <1>9 DEF vars
<1> QED
  BY <1>1, <1>2, <1>3, <1>4, <1>5, <1>6, <1>7, <1>8, <1>9 DEF Next, UpdateThread, QueryThread

\* A cached generation list is the list of the update thread, unless its replacement is
\* still to be announced or to be noticed.
THEOREM GenerationListsFollowHolds == Spec => []GenerationListsFollow
<1>1. Init => GenerationListsFollow
  BY DEF Init, GenerationListsFollow
<1> QED
  BY <1>1, NextGenerationLists, PTL DEF Spec

-----------------------------------------------------------------------------
(* The content that is cached.                                              *)

\* What the server has published so far.
HistoryInv == history \in Seq(Structures) /\ history # <<>>

\* A hash names a state that the server has published.
Published(hash) == \E k \in 1..Len(history) : history[k] = hash

HashInv ==
  /\ mProducerMap # NoProducer => Published(mProducerMap)
  /\ upc = "replaceProducers" /\ batch.hash # NoProducer => Published(batch.hash)
  /\ qpc # "idle" => Published(query.hash) /\ query.level \in AskedLevels
  /\ DOMAIN query = {"level", "hash", "left"}

\* What is found in a list of content for a level is what the server has answered
\* since it published a state.
Serves(list, hash, g, l) == searchContentList(list, l) \in AnswersSince(history, hash, g, l)

ContentInv ==
  \A k \in DOMAIN mContentCache :
    mContentCache[k].answered =>
      \A l \in AskedLevels : Serves(mContentCache[k].list, mContentCache[k].hash, k[1], l)

ResultsServe ==
  \A k \in DOMAIN mContentSearchCache :
    mContentSearchCache[k].answered => IsAnswer(k, mContentSearchCache[k])

IInv == HistoryInv /\ HashInv /\ ContentInv /\ ResultsServe

LEMMA InitIInv == Init => IInv
<1> SUFFICES ASSUME Init PROVE IInv
  OBVIOUS
<1> PICK g \in {Min(Generations)}, levels \in (SUBSET Levels) \ {{}} :
      history = <<[generations |-> {g}, content |-> Filled(g, levels, 1)]>>
  BY DEF Init
<1>1. [generations |-> {g}, content |-> Filled(g, levels, 1)] \in Structures
  <2>1. g \in Generations
    BY MinIs, QueryAssumption
  <2>2. Filled(g, levels, 1) \in SUBSET Records
    BY <2>1 DEF Records, Filled
  <2> QED
    BY <2>1, <2>2 DEF Structures
<1>2. HistoryInv
  BY <1>1 DEF HistoryInv
<1>3. HashInv
  <2>1. Len(history) = 1 /\ mProducerMap = history[1]
    BY <1>1 DEF Init, Hash, published, Last
  <2>2. Published(mProducerMap)
    BY <2>1 DEF Published
  <2> QED
    BY <2>2 DEF Init, HashInv, Idle
<1>4. ContentInv /\ ResultsServe
  BY DEF Init, ContentInv, ResultsServe
<1> QED
  BY <1>2, <1>3, <1>4 DEF IInv

\* Whatever changes is published.
LEMMA ChangesPublished == HistoryInv => Changes \subseteq Structures
<1> SUFFICES ASSUME HistoryInv, NEW s \in Changes PROVE s \in Structures
  OBVIOUS
<1>1. published \in Structures /\ Edition \in Nat
  BY DEF HistoryInv, published, Last, Edition
<1> USE <1>1 DEF Structures, Records, Filled
<1>2. ASSUME NEW g \in published.generations, NEW levels \in (SUBSET Levels) \ {{}}
      PROVE  Refilled(g, levels) \in Structures
  BY DEF Refilled
<1>3. ASSUME NEW g \in Generations, NEW levels \in SUBSET Levels
      PROVE  WithGeneration(g, levels) \in Structures
  BY DEF WithGeneration
<1>4. WithoutOldest \in Structures
  BY DEF WithoutOldest
<1> QED
  BY <1>2, <1>3, <1>4 DEF Changes, FirstLevels

\* The answers of the past stay answers.
LEMMA HistoryGrows ==
  ASSUME HistoryInv, Publish \/ UNCHANGED history
  PROVE  /\ HistoryInv'
         /\ Len(history') >= Len(history)
         /\ \A i \in 1..Len(history) : history'[i] = history[i]
<1>1. CASE UNCHANGED history
  BY <1>1 DEF HistoryInv
<1>2. CASE Publish
  <2>1. PICK s \in Structures : history' = Append(history, s)
    BY <1>2, ChangesPublished DEF Publish
  <2> QED
    BY <2>1, AppendProperties DEF HistoryInv
<1> QED
  BY <1>1, <1>2

LEMMA AnswersStay ==
  ASSUME HistoryInv, Publish \/ UNCHANGED history, NEW hash, NEW g, NEW l
  PROVE  /\ Published(hash) => Published(hash)'
         /\ AnswersSince(history, hash, g, l) \subseteq AnswersSince(history', hash, g, l)
<1>1. /\ Len(history) \in Nat /\ Len(history') \in Nat /\ Len(history') >= Len(history)
      /\ \A i \in 1..Len(history) : history'[i] = history[i]
      /\ DOMAIN history = 1..Len(history) /\ DOMAIN history' = 1..Len(history')
  BY HistoryGrows DEF HistoryInv
<1>2. Published(hash) => Published(hash)'
  BY <1>1 DEF Published
<1>3. ASSUME NEW i \in DOMAIN history, NEW k \in 1..i, history[k] = hash
      PROVE  /\ i \in DOMAIN history' /\ history'[i] = history[i]
             /\ k \in 1..i /\ history'[k] = hash
  BY <1>1, <1>3
<1> QED
  BY <1>2, <1>3 DEF AnswersSince

\* A fetch finds what is there now, which is later than every state with a label.
LEMMA FetchedNow ==
  ASSUME HistoryInv, NEW g, Answers(g), NEW hash, Published(hash), NEW l \in Levels, NEW list
  PROVE  /\ Serves(ContentList(g, Levels, list), hash, g, l)
         /\ ContentList(g, {l}, list) # {} => Serves(ContentList(g, {l}, list), hash, g, l)
<1> DEFINE now == {r \in published.content : r.generation = g}
<1>1. searchContentList(now, l) \in AnswersSince(history, hash, g, l)
  <2>1. /\ Len(history) \in DOMAIN history
        /\ \E k \in 1..Len(history) : history[k] = hash
    BY DEF HistoryInv, Published
  <2>2. now = {r \in history[Len(history)].content : r.generation = g}
    BY DEF published, Last
  <2> QED
    BY <2>1, <2>2 DEF AnswersSince
<1>2. ContentList(g, Levels, list) = now
  <2>1. published \in Structures
    BY DEF HistoryInv, published, Last
  <2> QED
    BY <2>1 DEF ContentList, Structures, Records
<1>3. ContentList(g, {l}, list) = {r \in now : r.level = l}
  BY DEF ContentList
<1>4. ContentList(g, {l}, list) # {} =>
        searchContentList(ContentList(g, {l}, list), l) = searchContentList(now, l)
  BY <1>3 DEF searchContentList
<1> QED
  BY <1>1, <1>2, <1>4 DEF Serves

-----------------------------------------------------------------------------
(* One level is asked for.                                                  *)

OneLevel == \A k, l \in AskedLevels : k = l

\* A result that is stored serves its level since the state in its label.
LEMMA SearchResultStored ==
  ASSUME IInv, qpc # "idle", NEW entry,
         entry.answered => Serves(entry.list, query.hash, Newest, query.level),
         storeContentSearchResult(entry), UNCHANGED history
  PROVE  ResultsServe'
<1>1. PICK cache \in {<<>>, mContentSearchCache} :
        mContentSearchCache' =
          Put(cache, SearchKey, [hash |-> query.hash,
                                 list |-> searchContentList(entry.list, query.level),
                                 answered |-> entry.answered])
  BY DEF storeContentSearchResult
<1> SUFFICES ASSUME NEW k \in DOMAIN mContentSearchCache', mContentSearchCache'[k].answered
             PROVE  mContentSearchCache'[k].list
                      \in AnswersSince(history, mContentSearchCache'[k].hash, k[1], k[2])
  BY DEF ResultsServe, IsAnswer
<1>2. CASE k = SearchKey
  <2>1. mContentSearchCache'[k] = [hash |-> query.hash,
                                   list |-> searchContentList(entry.list, query.level),
                                   answered |-> entry.answered]
    BY <1>1, <1>2 DEF Put
  <2>2. k[1] = Newest /\ k[2] = query.level
    BY <1>2 DEF SearchKey
  <2> QED
    BY <2>1, <2>2 DEF Serves
<1>3. CASE k # SearchKey
  <2>1. k \in DOMAIN mContentSearchCache /\ mContentSearchCache'[k] = mContentSearchCache[k]
    BY <1>1, <1>3 DEF Put
  <2> QED
    BY <2>1 DEF IInv, ResultsServe, IsAnswer
<1> QED
  BY <1>2, <1>3

\* What has been fetched serves the level that was asked for, and so every level.
LEMMA ContentStored ==
  ASSUME OneLevel, IInv, qpc # "idle", NEW list,
         Answers(Newest) => Serves(list, query.hash, Newest, query.level),
         updateContentCacheEntry(list), UNCHANGED history
  PROVE  ContentInv' /\ ResultsServe'
<1> DEFINE entry == Labelled(list)
<1>0. entry.hash = query.hash /\ entry.list = list /\ entry.answered = Answers(Newest)
  BY Zenon DEF Labelled
<1>1. ResultsServe'
  <2>1. storeContentSearchResult(entry)
    BY DEF updateContentCacheEntry
  <2>2. entry.answered => Serves(entry.list, query.hash, Newest, query.level)
    <3> HIDE DEF entry
    <3> QED
      BY <1>0, Zenon
  <2> HIDE DEF entry
  <2> QED
    BY <2>1, <2>2, SearchResultStored
<1>2. PICK cache \in {<<>>, mContentCache}, key \in {EntryKey, SearchKey, <<Newest, AnyLevel>>} :
        mContentCache' = Put(cache, key, entry)
  <2>1. CASE EntryKey \in DOMAIN mContentCache
    <3>1. mContentCache' = [mContentCache EXCEPT ![EntryKey] = entry]
      BY <2>1 DEF updateContentCacheEntry
    <3>2. DOMAIN mContentCache \cup {EntryKey} = DOMAIN mContentCache
      BY <2>1
    <3>3. mContentCache' = Put(mContentCache, EntryKey, entry)
      BY <3>1, <3>2 DEF Put
    <3> QED
      BY <3>3
  <2>2. CASE EntryKey \notin DOMAIN mContentCache
    BY <2>2 DEF updateContentCacheEntry, storeContentCacheEntry, NewKey
  <2> QED
    BY <2>1, <2>2
<1>3. key[1] = Newest
  BY DEF EntryKey, SearchKey
<1>4. ContentInv'
  <2> SUFFICES ASSUME NEW k \in DOMAIN mContentCache', mContentCache'[k].answered,
                      NEW l \in AskedLevels
               PROVE  Serves(mContentCache'[k].list, mContentCache'[k].hash, k[1], l)
    BY DEF ContentInv, Serves
  <2>1. CASE k = key
    <3>1. mContentCache'[k] = entry
      BY <1>2, <2>1 DEF Put
    <3>2. l = query.level
      BY DEF IInv, HashInv, OneLevel
    <3> HIDE DEF entry
    <3>3. Answers(Newest)
      BY <1>0, <3>1, Zenon
    <3>4. mContentCache'[k].list = list /\ mContentCache'[k].hash = query.hash
      BY <1>0, <3>1
    <3>5. Serves(list, query.hash, Newest, query.level)
      BY <3>3
    <3>6. k[1] = Newest
      BY <1>3, <2>1
    <3> QED
      BY <3>2, <3>4, <3>5, <3>6
  <2>2. CASE k # key
    <3>1. k \in DOMAIN mContentCache /\ mContentCache'[k] = mContentCache[k]
      BY <1>2, <2>2 DEF Put
    <3> QED
      BY <3>1 DEF IInv, ContentInv
  <2> QED
    BY <2>1, <2>2
<1> QED
  BY <1>1, <1>4

\* The caches of every step of the query thread.
LEMMA NextCaches ==
  ASSUME OneLevel, IInv, Next
  PROVE  ContentInv' /\ ResultsServe'
<1> USE DEF serverVars, copyVars, updateVars, flagVars, cacheVars, queryVars
<1>1. ASSUME EntryHit PROVE ContentInv' /\ ResultsServe'
  <2>1. /\ qpc # "idle" /\ storeContentSearchResult(mContentCache[EntryKey])
        /\ EntryKey \in DOMAIN mContentCache /\ mContentCache[EntryKey].hash = query.hash
        /\ UNCHANGED <<history, mContentCache>>
    BY <1>1 DEF EntryHit, Valid
  <2>2. EntryKey[1] = Newest
    BY DEF EntryKey, SearchKey
  <2>3. mContentCache[EntryKey].answered =>
          Serves(mContentCache[EntryKey].list, query.hash, Newest, query.level)
    BY <2>1, <2>2 DEF IInv, ContentInv, HashInv
  <2>4. ResultsServe'
    BY <2>1, <2>3, SearchResultStored
  <2> QED
    BY <2>1, <2>4 DEF IInv, ContentInv, Serves
<1> DEFINE list == ContentList(Newest, {query.level}, EntryList)
<1>2. ASSUME FetchLevel, list # {}
      PROVE  ContentInv' /\ ResultsServe'
  <2>1. qpc # "idle" /\ UNCHANGED history /\ updateContentCacheEntry(list)
    BY <1>2 DEF FetchLevel
  <2>2. Answers(Newest) => Serves(list, query.hash, Newest, query.level)
    BY <1>2, <2>1, FetchedNow, QueryAssumption DEF IInv, HashInv
  <2> HIDE DEF list
  <2> QED
    BY <2>1, <2>2, ContentStored
<1>3. ASSUME FetchAllLevels PROVE ContentInv' /\ ResultsServe'
  <2>1. /\ qpc # "idle" /\ UNCHANGED history
        /\ updateContentCacheEntry(ContentList(Newest, Levels, {}))
    BY <1>3 DEF FetchAllLevels
  <2>2. Answers(Newest) =>
          Serves(ContentList(Newest, Levels, {}), query.hash, Newest, query.level)
    BY <2>1, FetchedNow, QueryAssumption DEF IInv, HashInv
  <2> QED
    BY <2>1, <2>2, ContentStored
<1>4. ASSUME UNCHANGED <<mContentCache, mContentSearchCache>>, Publish \/ UNCHANGED history
      PROVE  ContentInv' /\ ResultsServe'
  <2>1. \A hash, g, l :
          AnswersSince(history, hash, g, l) \subseteq AnswersSince(history', hash, g, l)
    BY <1>4, AnswersStay DEF IInv
  <2>2. ASSUME NEW k \in DOMAIN mContentCache, mContentCache[k].answered,
               NEW l \in AskedLevels
        PROVE  searchContentList(mContentCache[k].list, l)
                 \in AnswersSince(history', mContentCache[k].hash, k[1], l)
    BY <2>1, <2>2 DEF IInv, ContentInv, Serves
  <2>3. ASSUME NEW k \in DOMAIN mContentSearchCache, mContentSearchCache[k].answered
        PROVE  mContentSearchCache[k].list
                 \in AnswersSince(history', mContentSearchCache[k].hash, k[1], k[2])
    BY <2>1, <2>3 DEF IInv, ResultsServe, IsAnswer
  <2>4. ContentInv'
    BY <1>4, <2>2 DEF ContentInv, Serves
  <2>5. ResultsServe'
    BY <1>4, <2>3 DEF ResultsServe, IsAnswer
  <2> QED
    BY <2>4, <2>5
<1>5. ASSUME FetchLevel, list = {}
      PROVE  ContentInv' /\ ResultsServe'
  BY <1>4, <1>5 DEF FetchLevel
<1>6. ASSUME Publish \/ StampChangeTime \/ StartReload \/ EndReload \/ Tick \/ UpdateThread
      PROVE  ContentInv' /\ ResultsServe'
  BY <1>4, <1>6 DEF Publish, StampChangeTime, StartReload, EndReload, Tick, UpdateThread,
     checkContentServerRestart, FetchProducers, ReplaceProducers, FetchGenerations,
     ReplaceGenerations, AnnounceGenerations
<1>7. ASSUME \/ \E l \in AskedLevels : BeginQuery(l)
             \/ FindGenerations \/ ReadGenerations \/ SearchNothing \/ SearchHit
      PROVE  ContentInv' /\ ResultsServe'
  BY <1>4, <1>7 DEF BeginQuery, FindGenerations, ReadGenerations, SearchNothing, SearchHit
<1> QED
  BY <1>1, <1>2, <1>3, <1>5, <1>6, <1>7 DEF Next, QueryThread

-----------------------------------------------------------------------------
(* The hashes.                                                              *)

\* A hash that is copied, fetched or kept by a query was the server's at that time.
LEMMA NextHashInv ==
  ASSUME IInv, Next
  PROVE  HashInv'
<1> USE DEF serverVars, copyVars, updateVars, flagVars, cacheVars, queryVars
<1>1. ASSUME UNCHANGED <<history, mProducerMap, upc, batch, qpc, query>>
      PROVE  HashInv'
  BY <1>1 DEF IInv, HashInv, Published
<1>2. ASSUME UNCHANGED <<history, mProducerMap, upc, batch>>,
             DOMAIN query' = {"level", "hash", "left"},
             qpc' # "idle" =>
               qpc # "idle" /\ query'.hash = query.hash /\ query'.level = query.level
      PROVE  HashInv'
  BY <1>2 DEF IInv, HashInv, Published
<1>3. ASSUME Publish PROVE HashInv'
  <2>1. UNCHANGED <<mProducerMap, upc, batch, qpc, query>>
    BY <1>3 DEF Publish
  <2>2. /\ Len(history) \in Nat /\ Len(history') \in Nat /\ Len(history') >= Len(history)
        /\ \A i \in 1..Len(history) : history'[i] = history[i]
    BY <1>3, HistoryGrows DEF IInv, HistoryInv
  <2> QED
    BY <2>1, <2>2 DEF IInv, HashInv, Published
<1>4. ASSUME FetchProducers PROVE HashInv'
  <2>1. Published(Hash(published))
    BY DEF IInv, HistoryInv, Published, Hash, published, Last
  <2>2. UNCHANGED <<history, mProducerMap, qpc, query>>
    BY <1>4 DEF FetchProducers
  <2>3. upc' = "replaceProducers" => batch'.hash = ProducerList
    BY <1>4 DEF FetchProducers
  <2>4. ProducerList # NoProducer => \E k \in 1..Len(history) : history[k] = ProducerList
    BY <2>1 DEF ProducerList, Published
  <2> QED
    BY <2>2, <2>3, <2>4 DEF IInv, HashInv, Published
<1>5. ASSUME ReplaceProducers PROVE HashInv'
  BY <1>5 DEF ReplaceProducers, IInv, HashInv, Published
<1>6. ASSUME checkContentServerRestart \/ FetchGenerations \/ ReplaceGenerations
             \/ AnnounceGenerations
      PROVE  HashInv'
  <2>1. UNCHANGED <<history, mProducerMap, qpc, query>> /\ upc' # "replaceProducers"
    BY <1>6 DEF checkContentServerRestart, FetchGenerations, ReplaceGenerations,
       AnnounceGenerations
  <2> QED
    BY <2>1 DEF IInv, HashInv, Published
<1>7. ASSUME NEW l \in AskedLevels, BeginQuery(l) PROVE HashInv'
  <2>1. UNCHANGED <<history, mProducerMap, upc, batch>> /\ mProducerMap # NoProducer
    BY <1>7 DEF BeginQuery
  <2>2. /\ query'.hash = mProducerMap /\ query'.level = l
        /\ DOMAIN query' = {"level", "hash", "left"}
    BY <1>7 DEF BeginQuery, Idle
  <2> QED
    BY <2>1, <2>2 DEF IInv, HashInv, Published
<1>8. ASSUME \/ FindGenerations \/ ReadGenerations \/ SearchNothing \/ SearchHit
             \/ EntryHit \/ FetchLevel \/ FetchAllLevels
      PROVE  HashInv'
  <2>1. DOMAIN query = {"level", "hash", "left"}
    BY DEF IInv, HashInv
  <2>2. ASSUME NEW found, Proceed(found), qpc # "idle", UNCHANGED <<history, mProducerMap, upc, batch>>
        PROVE  HashInv'
    <3>1. CASE query' = Idle /\ qpc' = "idle"
      BY <1>2, <2>2, <3>1 DEF Idle
    <3>2. CASE query' = [query EXCEPT !.left = @ \ {Newest}]
      BY <1>2, <2>1, <2>2, <3>2
    <3> QED
      BY <2>2, <3>1, <3>2 DEF Proceed
  <2>3. CASE SearchNothing
    BY <1>2, <2>3 DEF SearchNothing, Idle
  <2>4. CASE FindGenerations \/ ReadGenerations
    BY <1>2, <2>1, <2>4 DEF FindGenerations, ReadGenerations
  <2>5. CASE SearchHit
    BY <2>2, <2>5 DEF SearchHit
  <2>6. CASE EntryHit
    BY <2>2, <2>6 DEF EntryHit, storeContentSearchResult
  <2>7. CASE FetchLevel
    BY <1>2, <2>1, <2>2, <2>7 DEF FetchLevel, updateContentCacheEntry, storeContentSearchResult
  <2>8. CASE FetchAllLevels
    BY <2>2, <2>8 DEF FetchAllLevels, updateContentCacheEntry, storeContentSearchResult
  <2> QED
    BY <1>8, <2>3, <2>4, <2>5, <2>6, <2>7, <2>8
<1>9. ASSUME StampChangeTime \/ StartReload \/ EndReload \/ Tick PROVE HashInv'
  BY <1>1, <1>9 DEF StampChangeTime, StartReload, EndReload, Tick
<1> QED
  BY <1>3, <1>4, <1>5, <1>6, <1>7, <1>8, <1>9 DEF Next, UpdateThread, QueryThread

-----------------------------------------------------------------------------
LEMMA NextIInv == OneLevel /\ IInv /\ [Next]_vars => IInv'
<1> SUFFICES ASSUME OneLevel, IInv, [Next]_vars PROVE IInv'
  OBVIOUS
<1>1. CASE Next
  <2>1. Publish \/ UNCHANGED history
    BY <1>1 DEF Next, serverVars, StampChangeTime, StartReload, EndReload, Tick, UpdateThread,
       checkContentServerRestart, FetchProducers, ReplaceProducers, FetchGenerations,
       ReplaceGenerations, AnnounceGenerations, QueryThread, BeginQuery, FindGenerations,
       ReadGenerations, SearchNothing, SearchHit, EntryHit, FetchLevel, FetchAllLevels
  <2>2. HistoryInv'
    BY <2>1, HistoryGrows DEF IInv
  <2> QED
    BY <1>1, <2>2, NextHashInv, NextCaches DEF IInv
<1>2. CASE UNCHANGED vars
  BY <1>2 DEF vars, serverVars, copyVars, updateVars, flagVars, cacheVars, queryVars, IInv,
     HistoryInv, HashInv, Published, ContentInv, Serves, ResultsServe, IsAnswer
<1> QED
  BY <1>1, <1>2

-----------------------------------------------------------------------------
(* The types.                                                               *)

\* The content that the server has published so far.
PublishedContent == UNION {s.content : s \in Range(history)}

CacheTyped(cache) ==
  /\ DOMAIN cache \subseteq Generations \X (Levels \cup {AnyLevel})
  /\ \A k \in DOMAIN cache :
       /\ cache[k].hash \in Range(history)
       /\ cache[k].list \subseteq PublishedContent
       /\ cache[k].answered \in BOOLEAN

UpdateTyped ==
  /\ upc \in {"restart", "producers", "replaceProducers", "generations",
              "replaceGenerations", "announceGenerations"}
  /\ upc = "replaceProducers" => batch.hash \in Range(history) \cup {NoProducer}
  /\ upc = "replaceGenerations" => batch.generations \subseteq Generations

CopyTyped ==
  /\ mProducerMap \in Range(history) \cup {NoProducer}
  /\ mapAge \in 0..CheckInterval /\ listAge \in 0..CheckInterval
  /\ mGenerationInfoList \subseteq Generations

FlagsTyped ==
  /\ changeTold \in BOOLEAN /\ reloading \in BOOLEAN /\ restartUnseen \in BOOLEAN
  /\ changeUnseen \in BOOLEAN /\ clearGenerations \in BOOLEAN
  /\ clearContent \in BOOLEAN /\ clearSearches \in BOOLEAN

\* A query that is on its way has a level and a hash; one that fetches all levels has a
\* generation left.
QueryTyped ==
  /\ qpc \in {"idle", "generations", "readGenerations", "search", "fetchAll"}
  /\ query \in [level : Levels \cup {AnyLevel}, hash : Range(history) \cup {NoProducer},
                left : SUBSET Generations]
  /\ qpc # "idle" => query.hash \in Range(history)
  /\ qpc = "fetchAll" => query.left # {}

ListsTyped ==
  \A e \in mProducerGenerationListCache :
    e.hash \in Range(history) /\ e.generations \subseteq Generations

TypeInv ==
  /\ HistoryInv /\ reloads \in 0..MaxReloads
  /\ UpdateTyped /\ CopyTyped /\ FlagsTyped /\ QueryTyped /\ ListsTyped
  /\ CacheTyped(mContentCache) /\ CacheTyped(mContentSearchCache)

LEMMA TypeInvImplies == TypeInv => TypeOK
<1> SUFFICES ASSUME TypeInv PROVE TypeOK
  OBVIOUS
<1>1. ASSUME NEW i \in DOMAIN history PROVE history[i].generations \subseteq Generations
  <2>1. history[i] \in Structures
    BY DEF TypeInv, HistoryInv
  <2> QED
    BY <2>1 DEF Structures
<1>2. {changeUnseen, clearGenerations, clearContent, clearSearches} \subseteq BOOLEAN
  BY DEF TypeInv, FlagsTyped
<1>3. IsCache(mContentCache) /\ IsCache(mContentSearchCache)
  BY DEF TypeInv, CacheTyped, IsCache, PublishedContent
<1>4. /\ query.level \in Levels \cup {AnyLevel}
      /\ query.hash \in Range(history) \cup {NoProducer}
      /\ query.left \subseteq Generations
  BY DEF TypeInv, QueryTyped
<1> QED
  BY <1>1, <1>2, <1>3, <1>4
  DEF TypeInv, TypeOK, UpdateTyped, CopyTyped, FlagsTyped, QueryTyped, ListsTyped

\* The state that the server tells of is one that it has published.
LEMMA PublishedIs ==
  ASSUME HistoryInv
  PROVE  /\ published \in Range(history) /\ published \in Structures
         /\ ProducerList \in Range(history) \cup {NoProducer}
         /\ GenerationList \subseteq Generations
         /\ \A g, levels : \A list \in SUBSET PublishedContent :
              ContentList(g, levels, list) \subseteq PublishedContent
<1>1. published \in Range(history) /\ published \in Structures
  BY DEF HistoryInv, published, Last, Range
<1>2. GenerationList \subseteq Generations
  BY <1>1 DEF GenerationList, Structures
<1>3. ASSUME NEW g, NEW levels, NEW list \in SUBSET PublishedContent
      PROVE  ContentList(g, levels, list) \subseteq PublishedContent
  BY <1>1 DEF ContentList, PublishedContent
<1> QED
  BY <1>1, <1>2, <1>3 DEF ProducerList, Hash

LEMMA InitTypeInv == Init => TypeInv
<1> SUFFICES ASSUME Init PROVE TypeInv
  OBVIOUS
<1>1. HistoryInv
  BY InitIInv DEF IInv
<1>2. published \in Range(history) /\ published.generations \subseteq Generations
  BY <1>1, PublishedIs DEF Structures
<1>3. CopyTyped
  BY <1>2, QueryAssumption DEF Init, CopyTyped, Hash
<1>4. QueryTyped
  BY DEF Init, QueryTyped, Idle
<1>5. CacheTyped(mContentCache) /\ CacheTyped(mContentSearchCache)
  BY DEF Init, CacheTyped
<1>6. UpdateTyped /\ FlagsTyped /\ ListsTyped
  BY DEF Init, UpdateTyped, FlagsTyped, ListsTyped
<1>7. reloads \in 0..MaxReloads
  BY QueryAssumption DEF Init
<1> QED
  BY <1>1, <1>3, <1>4, <1>5, <1>6, <1>7 DEF TypeInv

\* What has been published stays published.
LEMMA PublishedStays ==
  ASSUME HistoryInv, Publish \/ UNCHANGED history
  PROVE  Range(history) \subseteq Range(history') /\ PublishedContent \subseteq PublishedContent'
<1>1. /\ Len(history) \in Nat /\ Len(history') \in Nat /\ Len(history') >= Len(history)
      /\ \A i \in 1..Len(history) : history'[i] = history[i]
      /\ DOMAIN history = 1..Len(history) /\ DOMAIN history' = 1..Len(history')
  BY HistoryGrows DEF HistoryInv
<1>2. Range(history) \subseteq Range(history')
  BY <1>1 DEF Range
<1> QED
  BY <1>2 DEF PublishedContent

LEMMA CacheStays ==
  ASSUME Range(history) \subseteq Range(history'), PublishedContent \subseteq PublishedContent',
         NEW cache, CacheTyped(cache)
  PROVE  /\ DOMAIN cache \subseteq Generations \X (Levels \cup {AnyLevel})
         /\ \A k \in DOMAIN cache :
              /\ cache[k].hash \in Range(history')
              /\ cache[k].list \subseteq PublishedContent'
              /\ cache[k].answered \in BOOLEAN
BY DEF CacheTyped

\* What has been published, and who else keeps something of it.
LEMMA StaysTyped ==
  ASSUME TypeInv, Publish,
         UNCHANGED <<updateVars, flagVars, cacheVars, queryVars, copyVars, reloading, reloads>>,
         changeTold' \in BOOLEAN
  PROVE  TypeInv'
<1> USE DEF updateVars, flagVars, cacheVars, queryVars, copyVars
<1>1. Range(history) \subseteq Range(history') /\ PublishedContent \subseteq PublishedContent'
  BY PublishedStays DEF TypeInv
<1>2. HistoryInv'
  BY HistoryGrows DEF TypeInv
<1>3. CacheTyped(mContentCache)' /\ CacheTyped(mContentSearchCache)'
  BY <1>1, CacheStays DEF TypeInv, CacheTyped
<1>4. UpdateTyped' /\ CopyTyped' /\ FlagsTyped' /\ ListsTyped'
  BY <1>1 DEF TypeInv, UpdateTyped, CopyTyped, FlagsTyped, ListsTyped
<1>5. QueryTyped'
  BY <1>1 DEF TypeInv, QueryTyped
<1> QED
  BY <1>2, <1>3, <1>4, <1>5 DEF TypeInv

\* The server and the update thread.
LEMMA ServerStepTyped ==
  ASSUME TypeInv, StampChangeTime \/ StartReload \/ EndReload \/ Tick
  PROVE  TypeInv'
<1> USE DEF serverVars, copyVars, updateVars, flagVars, cacheVars, queryVars
<1>1. UNCHANGED <<history, upc, batch, mProducerMap, mGenerationInfoList, cacheVars, queryVars>>
  BY DEF StampChangeTime, StartReload, EndReload, Tick
<1>2. HistoryInv' /\ UpdateTyped' /\ QueryTyped' /\ ListsTyped'
      /\ CacheTyped(mContentCache)' /\ CacheTyped(mContentSearchCache)'
  BY <1>1 DEF TypeInv, HistoryInv, UpdateTyped, QueryTyped, ListsTyped, CacheTyped,
     PublishedContent
<1>3. FlagsTyped'
  BY DEF TypeInv, FlagsTyped, StampChangeTime, StartReload, EndReload, Tick
<1>4. reloads' \in 0..MaxReloads
  BY QueryAssumption DEF TypeInv, StampChangeTime, StartReload, EndReload, Tick
<1>5. mapAge' \in 0..CheckInterval /\ listAge' \in 0..CheckInterval
  BY QueryAssumption DEF TypeInv, CopyTyped, StampChangeTime, StartReload, EndReload, Tick,
     Older
<1>6. CopyTyped'
  BY <1>1, <1>5 DEF TypeInv, CopyTyped
<1> QED
  BY <1>2, <1>3, <1>4, <1>6 DEF TypeInv

LEMMA UpdateStepTyped ==
  ASSUME TypeInv, UpdateThread
  PROVE  TypeInv'
<1> USE DEF serverVars, copyVars, updateVars, flagVars, cacheVars, queryVars
<1>1. UNCHANGED <<serverVars, cacheVars, queryVars>>
  BY DEF UpdateThread, checkContentServerRestart, FetchProducers, ReplaceProducers,
     FetchGenerations, ReplaceGenerations, AnnounceGenerations
<1>2. HistoryInv' /\ QueryTyped' /\ ListsTyped' /\ reloads' \in 0..MaxReloads
      /\ CacheTyped(mContentCache)' /\ CacheTyped(mContentSearchCache)'
  BY <1>1 DEF TypeInv, HistoryInv, QueryTyped, ListsTyped, CacheTyped, PublishedContent
<1>3. FlagsTyped'
  BY <1>1 DEF TypeInv, FlagsTyped, UpdateThread, checkContentServerRestart, FetchProducers,
     ReplaceProducers, FetchGenerations, ReplaceGenerations, AnnounceGenerations
<1>4. UpdateTyped'
  BY <1>1, PublishedIs DEF TypeInv, UpdateTyped, UpdateThread, checkContentServerRestart,
     FetchProducers, ReplaceProducers, FetchGenerations, ReplaceGenerations, AnnounceGenerations
<1>5. CopyTyped'
  <2>1. mProducerMap' \in Range(history) \cup {NoProducer}
    BY DEF TypeInv, CopyTyped, UpdateTyped, UpdateThread, checkContentServerRestart,
       FetchProducers, ReplaceProducers, FetchGenerations, ReplaceGenerations,
       AnnounceGenerations
  <2>2. mGenerationInfoList' \subseteq Generations
    BY DEF TypeInv, CopyTyped, UpdateTyped, UpdateThread, checkContentServerRestart,
       FetchProducers, ReplaceProducers, FetchGenerations, ReplaceGenerations,
       AnnounceGenerations
  <2>3. /\ mapAge' \in {mapAge, 0, CheckInterval}
        /\ listAge' \in {listAge, 0, CheckInterval}
    BY DEF UpdateThread, checkContentServerRestart, FetchProducers, ReplaceProducers,
       FetchGenerations, ReplaceGenerations, AnnounceGenerations
  <2>4. mapAge' \in 0..CheckInterval /\ listAge' \in 0..CheckInterval
    BY <2>3, QueryAssumption DEF TypeInv, CopyTyped
  <2> QED
    BY <1>1, <2>1, <2>2, <2>4 DEF CopyTyped
<1> QED
  BY <1>2, <1>3, <1>4, <1>5 DEF TypeInv

\* The generation that is searched next is one of the generations.
LEMMA NewestIs ==
  ASSUME TypeInv, query.left # {}
  PROVE  Newest \in Generations /\ SearchKey \in Generations \X (Levels \cup {AnyLevel})
<1>1. query.left \in SUBSET Generations /\ query.level \in Levels \cup {AnyLevel}
  BY DEF TypeInv, QueryTyped
<1>2. Newest \in query.left
  BY <1>1, MaxIs, FS_Subset, QueryAssumption DEF Newest
<1> QED
  BY <1>1, <1>2 DEF SearchKey

LEMMA PutTyped ==
  ASSUME TypeInv, NEW cache, cache = <<>> \/ CacheTyped(cache),
         NEW k \in Generations \X (Levels \cup {AnyLevel}), NEW e,
         e.hash \in Range(history), e.list \subseteq PublishedContent, e.answered \in BOOLEAN
  PROVE  CacheTyped(Put(cache, k, e))
<1>1. CacheTyped(cache)
  BY DEF CacheTyped
<1>2. /\ DOMAIN Put(cache, k, e) = DOMAIN cache \cup {k}
      /\ \A x \in DOMAIN Put(cache, k, e) :
           Put(cache, k, e)[x] = IF x = k THEN e ELSE cache[x]
  BY DEF Put
<1> QED
  BY <1>1, <1>2 DEF CacheTyped

LEMMA ProceedTyped ==
  ASSUME TypeInv, NEW found, Proceed(found), qpc # "idle", UNCHANGED history
  PROVE  QueryTyped'
<1>1. CASE query' = Idle /\ qpc' = "idle"
  BY <1>1 DEF TypeInv, QueryTyped, Idle
<1>2. CASE query' = [query EXCEPT !.left = @ \ {Newest}] /\ qpc' = "search"
  BY <1>2 DEF TypeInv, QueryTyped
<1> QED
  BY <1>1, <1>2 DEF Proceed

\* A result that is stored.
LEMMA ResultStoredTyped ==
  ASSUME TypeInv, qpc # "idle", query.left # {}, UNCHANGED history,
         NEW entry, entry.list \subseteq PublishedContent, entry.answered \in BOOLEAN,
         storeContentSearchResult(entry)
  PROVE  CacheTyped(mContentSearchCache)' /\ clearSearches' \in BOOLEAN /\ QueryTyped'
<1> DEFINE found == searchContentList(entry.list, query.level)
           result == [hash |-> query.hash, list |-> found, answered |-> entry.answered]
<1>1. PICK cache \in {<<>>, mContentSearchCache} :
        mContentSearchCache' = Put(cache, SearchKey, result)
  BY DEF storeContentSearchResult
<1>2. found \subseteq PublishedContent
  BY DEF searchContentList
<1>3. /\ result.hash \in Range(history) /\ result.list \subseteq PublishedContent
      /\ result.answered \in BOOLEAN
  BY <1>2 DEF TypeInv, QueryTyped
<1>4. CacheTyped(Put(cache, SearchKey, result))
  <2>1. cache = <<>> \/ CacheTyped(cache)
    BY DEF TypeInv
  <2> HIDE DEF result
  <2> QED
    BY <1>3, <2>1, NewestIs, PutTyped
<1>5. QueryTyped'
  BY ProceedTyped DEF storeContentSearchResult
<1>6. clearSearches' \in BOOLEAN
  BY DEF storeContentSearchResult
<1> HIDE DEF result
<1> QED
  BY <1>1, <1>4, <1>5, <1>6 DEF CacheTyped, PublishedContent

LEMMA EntryStoredTyped ==
  ASSUME TypeInv, qpc # "idle", query.left # {}, UNCHANGED history,
         NEW list, list \subseteq PublishedContent, updateContentCacheEntry(list)
  PROVE  /\ CacheTyped(mContentCache)' /\ CacheTyped(mContentSearchCache)'
         /\ clearContent' \in BOOLEAN /\ clearSearches' \in BOOLEAN /\ QueryTyped'
<1> DEFINE entry == Labelled(list)
<1>1. entry.hash \in Range(history) /\ entry.list \subseteq PublishedContent
  BY DEF Labelled, TypeInv, QueryTyped
<1>2. entry.answered \in BOOLEAN
  <2>1. entry.answered = Answers(Newest)
    BY Zenon DEF Labelled
  <2> HIDE DEF entry
  <2> QED
    BY <2>1, Zenon DEF Answers
<1>3. PICK cache \in {<<>>, mContentCache}, key \in {EntryKey, SearchKey, <<Newest, AnyLevel>>} :
        mContentCache' = Put(cache, key, entry)
  <2>1. CASE EntryKey \in DOMAIN mContentCache
    <3>1. mContentCache' = [mContentCache EXCEPT ![EntryKey] = entry]
      BY <2>1 DEF updateContentCacheEntry
    <3>2. DOMAIN mContentCache \cup {EntryKey} = DOMAIN mContentCache
      BY <2>1
    <3>3. mContentCache' = Put(mContentCache, EntryKey, entry)
      BY <3>1, <3>2 DEF Put
    <3> QED
      BY <3>3
  <2>2. CASE EntryKey \notin DOMAIN mContentCache
    BY <2>2 DEF updateContentCacheEntry, storeContentCacheEntry, NewKey
  <2> QED
    BY <2>1, <2>2
<1>4. storeContentSearchResult(entry)
  BY DEF updateContentCacheEntry
<1>5. clearContent' \in BOOLEAN
  BY DEF updateContentCacheEntry, storeContentCacheEntry, TypeInv, FlagsTyped
<1> HIDE DEF entry
<1>6. key \in Generations \X (Levels \cup {AnyLevel})
  BY NewestIs DEF EntryKey
<1>7. CacheTyped(Put(cache, key, entry))
  <2>1. cache = <<>> \/ CacheTyped(cache)
    BY DEF TypeInv
  <2> QED
    BY <1>1, <1>2, <1>6, <2>1, PutTyped
<1>8. CacheTyped(mContentSearchCache)' /\ clearSearches' \in BOOLEAN /\ QueryTyped'
  BY <1>1, <1>2, <1>4, ResultStoredTyped
<1> QED
  BY <1>3, <1>5, <1>7, <1>8 DEF CacheTyped, PublishedContent

\* The query thread keeps the copies and the flags of the others.
LEMMA QueryStepTyped ==
  ASSUME TypeInv, QueryThread
  PROVE  TypeInv'
<1> USE DEF serverVars, copyVars, updateVars, flagVars, cacheVars, queryVars
<1>1. UNCHANGED <<serverVars, copyVars, updateVars>>
  BY DEF QueryThread, BeginQuery, FindGenerations, ReadGenerations, SearchNothing, SearchHit,
     EntryHit, FetchLevel, FetchAllLevels
<1>2. HistoryInv' /\ reloads' \in 0..MaxReloads /\ UpdateTyped' /\ CopyTyped'
  BY <1>1 DEF TypeInv, HistoryInv, UpdateTyped, CopyTyped
<1>3. SUFFICES /\ CacheTyped(mContentCache)' /\ CacheTyped(mContentSearchCache)'
               /\ QueryTyped' /\ ListsTyped'
               /\ clearGenerations' \in BOOLEAN /\ clearContent' \in BOOLEAN
               /\ clearSearches' \in BOOLEAN
  <2> SUFFICES FlagsTyped'
    BY <1>2 DEF TypeInv
  <2> QED
    BY <1>1 DEF TypeInv, FlagsTyped
<1>4. UNCHANGED <<mContentCache, clearContent>> =>
        CacheTyped(mContentCache)' /\ clearContent' \in BOOLEAN
  BY <1>1 DEF TypeInv, CacheTyped, PublishedContent, FlagsTyped
<1>5. UNCHANGED <<mContentSearchCache, clearSearches>> =>
        CacheTyped(mContentSearchCache)' /\ clearSearches' \in BOOLEAN
  BY <1>1 DEF TypeInv, CacheTyped, PublishedContent, FlagsTyped
<1>6. UNCHANGED <<mProducerGenerationListCache, clearGenerations>> =>
        ListsTyped' /\ clearGenerations' \in BOOLEAN
  BY <1>1 DEF TypeInv, ListsTyped, FlagsTyped
<1>7. ASSUME NEW l \in AskedLevels, BeginQuery(l) PROVE QueryTyped'
  BY <1>1, <1>7, QueryAssumption DEF TypeInv, QueryTyped, CopyTyped, BeginQuery, Idle
<1>8. CASE \E l \in AskedLevels : BeginQuery(l)
  BY <1>4, <1>5, <1>6, <1>7, <1>8 DEF BeginQuery
<1>9. CASE FindGenerations
  <2>1. ListsTyped' /\ clearGenerations' \in BOOLEAN
    BY <1>1, <1>9 DEF TypeInv, ListsTyped, FindGenerations
  <2>2. QueryTyped'
    <3>1. CASE qpc' = "readGenerations" /\ UNCHANGED query
      BY <1>1, <1>9, <3>1 DEF TypeInv, QueryTyped, FindGenerations
    <3>2. CASE qpc' = "search" /\ \E e \in mProducerGenerationListCache :
                 query' = [query EXCEPT !.left = e.generations]
      BY <1>1, <1>9, <3>2 DEF TypeInv, QueryTyped, ListsTyped, FindGenerations
    <3> QED
      BY <1>9, <3>1, <3>2 DEF FindGenerations
  <2> QED
    BY <1>4, <1>5, <1>9, <2>1, <2>2 DEF FindGenerations
<1>10. CASE ReadGenerations
  <2>1. mGenerationInfoList \subseteq Generations /\ query.hash \in Range(history)
    BY <1>10 DEF TypeInv, CopyTyped, QueryTyped, ReadGenerations
  <2>2. ListsTyped'
    BY <1>1, <1>10, <2>1 DEF ListsTyped, ReadGenerations
  <2>3. QueryTyped'
    BY <1>1, <1>10, <2>1 DEF TypeInv, QueryTyped, ReadGenerations
  <2> QED
    BY <1>4, <1>5, <1>10, <2>2, <2>3 DEF ReadGenerations, TypeInv, FlagsTyped
<1>11. CASE SearchNothing
  <2>1. QueryTyped'
    BY <1>1, <1>11 DEF SearchNothing, QueryTyped, Idle
  <2> QED
    BY <1>4, <1>5, <1>6, <1>11, <2>1 DEF SearchNothing
<1>12. CASE SearchHit
  <2>1. QueryTyped'
    BY <1>1, <1>12, ProceedTyped DEF SearchHit
  <2> QED
    BY <1>4, <1>5, <1>6, <1>12, <2>1 DEF SearchHit
<1>13. CASE EntryHit
  <2>1. EntryKey \in DOMAIN mContentCache
    BY <1>13 DEF EntryHit, Valid
  <2>2. /\ mContentCache[EntryKey].list \subseteq PublishedContent
        /\ mContentCache[EntryKey].answered \in BOOLEAN
    BY <2>1 DEF TypeInv, CacheTyped
  <2>3. CacheTyped(mContentSearchCache)' /\ clearSearches' \in BOOLEAN /\ QueryTyped'
    BY <1>1, <1>13, <2>2, ResultStoredTyped DEF EntryHit
  <2> QED
    BY <1>4, <1>6, <1>13, <2>3 DEF EntryHit
<1>14. CASE FetchLevel
  <2> DEFINE list == ContentList(Newest, {query.level}, EntryList)
  <2>1. CASE list # {}
    <3>1. updateContentCacheEntry(list) /\ qpc # "idle" /\ query.left # {}
      BY <1>14, <2>1 DEF FetchLevel
    <3>2. list \subseteq PublishedContent
      <4>1. EntryList \subseteq PublishedContent
        BY DEF EntryList, TypeInv, CacheTyped
      <4> QED
        BY <4>1, PublishedIs DEF TypeInv
    <3>3. UNCHANGED <<mProducerGenerationListCache, clearGenerations>>
      BY <1>14, <2>1 DEF FetchLevel
    <3> HIDE DEF list
    <3> QED
      BY <1>1, <1>6, <3>1, <3>2, <3>3, EntryStoredTyped
  <2>2. CASE list = {}
    <3>1. QueryTyped'
      BY <1>1, <1>14, <2>2 DEF FetchLevel, TypeInv, QueryTyped, FlagsTyped
    <3> QED
      BY <1>4, <1>5, <1>6, <1>14, <2>2, <3>1 DEF FetchLevel
  <2> QED
    BY <2>1, <2>2
<1>15. CASE FetchAllLevels
  <2>1. qpc # "idle" /\ query.left # {}
    BY <1>15 DEF FetchAllLevels, TypeInv, QueryTyped
  <2>2. ContentList(Newest, Levels, {}) \subseteq PublishedContent
    BY PublishedIs DEF TypeInv
  <2> QED
    BY <1>1, <1>6, <1>15, <2>1, <2>2, EntryStoredTyped DEF FetchAllLevels
<1> QED
  BY <1>8, <1>9, <1>10, <1>11, <1>12, <1>13, <1>14, <1>15 DEF QueryThread

LEMMA NextTypeInv == TypeInv /\ [Next]_vars => TypeInv'
<1> SUFFICES ASSUME TypeInv, [Next]_vars PROVE TypeInv'
  OBVIOUS
<1>1. CASE Publish
  BY <1>1, StaysTyped DEF Publish
<1>2. CASE UNCHANGED vars
  BY <1>2 DEF vars, serverVars, copyVars, updateVars, flagVars, cacheVars, queryVars, TypeInv,
     HistoryInv, UpdateTyped, CopyTyped, FlagsTyped, QueryTyped, ListsTyped, CacheTyped,
     PublishedContent
<1> QED
  BY <1>1, <1>2, ServerStepTyped, UpdateStepTyped, QueryStepTyped DEF Next

\* Every variable has its type: the generations are known ones, also the one that is
\* searched next, and every hash that is kept or copied, cached or carried by a query, is
\* one that the server has published.
THEOREM QueryTypeOKHolds == Spec => []TypeOK
<1> QED
  BY InitTypeInv, NextTypeInv, TypeInvImplies, PTL DEF Spec

-----------------------------------------------------------------------------
(* The fetches that have no answer.                                         *)

\* The server has had a generation that is not newer than its newest one.
Past(g) == \E y \in published.generations : g <= y
Removed(g) == Past(g) /\ g \notin published.generations

\* What is fetched without an answer is of a generation that is not there any more, unless
\* there was a reload.
Excused(cache) ==
  \A k \in DOMAIN cache : cache[k].answered \/ reloads > 0 \/ Removed(k[1])

PastInv ==
  /\ reloading => reloads > 0
  /\ \A g \in mGenerationInfoList : Past(g)
  /\ upc = "replaceGenerations" => \A g \in batch.generations : Past(g)
  /\ \A e \in mProducerGenerationListCache : \A g \in e.generations : Past(g)
  /\ \A g \in query.left : Past(g)
  /\ Excused(mContentCache) /\ Excused(mContentSearchCache)

LEMMA InitPastInv == Init => PastInv
<1> SUFFICES ASSUME Init PROVE PastInv
  OBVIOUS
<1>1. published.generations \subseteq Nat
  BY InitIInv, PublishedIs, QueryAssumption DEF IInv, Structures
<1>2. \A g \in published.generations : Past(g)
  BY <1>1 DEF Past
<1> QED
  BY <1>2 DEF Init, PastInv, Excused, Idle

\* A generation does not come back: the oldest one goes, and a new one is the newest.
LEMMA PastStays ==
  ASSUME TypeInv, Publish, NEW g \in Generations
  PROVE  (Past(g) => Past(g)') /\ (Removed(g) => Removed(g)')
<1> DEFINE old == published.generations
<1>1. old \subseteq Generations /\ Generations \subseteq Nat /\ IsFiniteSet(old)
  BY PublishedIs, FS_Subset, QueryAssumption DEF TypeInv, Structures
<1>2. PICK s \in Changes : published' = s
  <2>1. PICK s \in Changes : history' = Append(history, s)
    BY DEF Publish
  <2>2. s \in Structures /\ history \in Seq(Structures)
    BY ChangesPublished DEF TypeInv, HistoryInv
  <2> QED
    BY <2>1, <2>2, AppendProperties DEF published, Last
<1>3. CASE published'.generations = old
  BY <1>3 DEF Past, Removed
<1>4. CASE \E x \in Generations : (\A y \in old : x > y) /\ published'.generations = old \cup {x}
  BY <1>1, <1>4 DEF Past, Removed
<1>5. CASE Cardinality(old) > 1 /\ published'.generations = old \ {Min(old)}
  <2>1. old # {} /\ old # {Min(old)}
    <3>1. Cardinality({}) = 0 /\ Cardinality({Min(old)}) = 1
      BY FS_EmptySet, FS_Singleton
    <3> HIDE DEF old
    <3> QED
      BY <1>5, <3>1
  <2>2. PICK z \in old : z # Min(old)
    BY <2>1
  <2>3. Min(old) \in old /\ \A y \in old : Min(old) <= y
    BY <1>1, <2>1, MinIs
  <2>4. ASSUME NEW y \in old, g <= y
        PROVE  \E x \in old \ {Min(old)} : g <= x
    <3>1. CASE y = Min(old)
      <4>1. g <= y /\ y <= z /\ g \in Nat /\ y \in Nat /\ z \in Nat
        BY <1>1, <2>2, <2>3, <2>4, <3>1
      <4> QED
        BY <2>2, <4>1
    <3>2. CASE y # Min(old)
      BY <2>4, <3>2
    <3> QED
      BY <3>1, <3>2
  <2>5. Past(g) => Past(g)'
    BY <1>5, <2>4 DEF Past
  <2> QED
    BY <1>5, <2>5 DEF Removed
<1>6. \/ published'.generations = old
      \/ \E x \in Generations : (\A y \in old : x > y) /\ published'.generations = old \cup {x}
      \/ Cardinality(old) > 1 /\ published'.generations = old \ {Min(old)}
  <2>1. ASSUME NEW x, NEW levels, published' = Refilled(x, levels)
        PROVE  published'.generations = old
    <3>1. published \in Structures
      BY PublishedIs DEF TypeInv
    <3> QED
      BY <2>1, <3>1 DEF Refilled, Structures
  <2>2. ASSUME NEW x, NEW levels, published' = WithGeneration(x, levels)
        PROVE  published'.generations = old \cup {x}
    BY <2>2 DEF WithGeneration
  <2>3. ASSUME published' = WithoutOldest
        PROVE  published'.generations = old \ {Min(old)}
    BY <2>3 DEF WithoutOldest
  <2> QED
    BY <1>2, <2>1, <2>2, <2>3 DEF Changes
<1> QED
  BY <1>3, <1>4, <1>5, <1>6

LEMMA PublishExcused ==
  ASSUME TypeInv, PastInv, Publish
  PROVE  PastInv'
<1> USE DEF copyVars, updateVars, flagVars, cacheVars, queryVars
<1>1. UNCHANGED <<reloading, reloads, copyVars, updateVars, cacheVars, queryVars>>
  BY DEF Publish
<1>2. ASSUME NEW cache, CacheTyped(cache), Excused(cache)
      PROVE  \A k \in DOMAIN cache : cache[k].answered \/ reloads' > 0 \/ Removed(k[1])'
  <2>1. ASSUME NEW k \in DOMAIN cache PROVE k[1] \in Generations
    BY <1>2, <2>1 DEF CacheTyped
  <2> QED
    BY <1>1, <1>2, <2>1, PastStays DEF Excused
<1>3. Excused(mContentCache)' /\ Excused(mContentSearchCache)'
  BY <1>1, <1>2 DEF TypeInv, PastInv, Excused
<1>4. \A g \in Generations : Past(g) => Past(g)'
  BY PastStays
<1>5. /\ \A g \in mGenerationInfoList : Past(g)'
      /\ upc = "replaceGenerations" => \A g \in batch.generations : Past(g)'
      /\ \A e \in mProducerGenerationListCache : \A g \in e.generations : Past(g)'
      /\ \A g \in query.left : Past(g)'
  BY <1>4 DEF TypeInv, CopyTyped, UpdateTyped, ListsTyped, QueryTyped, PastInv
<1> QED
  BY <1>1, <1>3, <1>5 DEF PastInv

\* An entry is stored for the generation that is searched, and says whether it was answered.
LEMMA LabelledExcused ==
  ASSUME PastInv, TypeInv, query.left # {}, NEW list
  PROVE  Labelled(list).answered \/ reloads > 0 \/ Removed(Newest)
<1>1. Newest \in query.left
  <2>1. query.left \in SUBSET Generations
    BY DEF TypeInv, QueryTyped
  <2> QED
    BY <2>1, MaxIs, FS_Subset, QueryAssumption DEF Newest
<1>2. Past(Newest)
  BY <1>1 DEF PastInv
<1>3. Labelled(list).answered = Answers(Newest)
  BY Zenon DEF Labelled
<1>4. Answers(Newest) \/ reloads > 0 \/ Newest \notin published.generations
  BY DEF Answers, PastInv
<1> QED
  BY <1>2, <1>3, <1>4 DEF Removed

LEMMA ResultExcused ==
  ASSUME PastInv, TypeInv, NEW entry, entry.answered \/ reloads > 0 \/ Removed(Newest),
         storeContentSearchResult(entry), UNCHANGED serverVars
  PROVE  Excused(mContentSearchCache)' /\ \A g \in query'.left : g \in query.left
<1> USE DEF serverVars
<1>1. PICK cache \in {<<>>, mContentSearchCache} :
        mContentSearchCache' =
          Put(cache, SearchKey, [hash |-> query.hash,
                                 list |-> searchContentList(entry.list, query.level),
                                 answered |-> entry.answered])
  BY DEF storeContentSearchResult
<1>2. ASSUME NEW k \in DOMAIN mContentSearchCache'
      PROVE  mContentSearchCache'[k].answered \/ reloads > 0 \/ Removed(k[1])
  <2>1. CASE k = SearchKey
    <3>1. k[1] = Newest
      BY <2>1 DEF SearchKey
    <3>2. mContentSearchCache'[k].answered = entry.answered
      BY <1>1, <2>1 DEF Put
    <3> QED
      BY <3>1, <3>2
  <2>2. CASE k # SearchKey
    <3>1. k \in DOMAIN mContentSearchCache /\ mContentSearchCache'[k] = mContentSearchCache[k]
      BY <1>1, <2>2 DEF Put
    <3> QED
      BY <3>1 DEF PastInv, Excused
  <2> QED
    BY <2>1, <2>2
<1>3. Excused(mContentSearchCache)'
  BY <1>2 DEF Excused, Removed, Past, published
<1>4. \A g \in query'.left : g \in query.left
  BY DEF storeContentSearchResult, Proceed, Idle, TypeInv, QueryTyped
<1> QED
  BY <1>3, <1>4

LEMMA EntryExcused ==
  ASSUME PastInv, TypeInv, query.left # {}, NEW list, updateContentCacheEntry(list),
         UNCHANGED serverVars
  PROVE  /\ Excused(mContentCache)' /\ Excused(mContentSearchCache)'
         /\ \A g \in query'.left : g \in query.left
<1> USE DEF serverVars
<1> DEFINE entry == Labelled(list)
<1>1. PICK cache \in {<<>>, mContentCache}, key \in {EntryKey, SearchKey, <<Newest, AnyLevel>>} :
        mContentCache' = Put(cache, key, entry)
  <2>1. CASE EntryKey \in DOMAIN mContentCache
    <3>1. mContentCache' = [mContentCache EXCEPT ![EntryKey] = entry]
      BY <2>1 DEF updateContentCacheEntry
    <3>2. DOMAIN mContentCache \cup {EntryKey} = DOMAIN mContentCache
      BY <2>1
    <3>3. mContentCache' = Put(mContentCache, EntryKey, entry)
      BY <3>1, <3>2 DEF Put
    <3> QED
      BY <3>3
  <2>2. CASE EntryKey \notin DOMAIN mContentCache
    BY <2>2 DEF updateContentCacheEntry, storeContentCacheEntry, NewKey
  <2> QED
    BY <2>1, <2>2
<1>2. key[1] = Newest
  BY DEF EntryKey, SearchKey
<1>3. storeContentSearchResult(entry)
  BY DEF updateContentCacheEntry
<1>4. entry.answered \/ reloads > 0 \/ Removed(Newest)
  BY LabelledExcused
<1> HIDE DEF entry
<1>5. ASSUME NEW k \in DOMAIN mContentCache'
      PROVE  mContentCache'[k].answered \/ reloads > 0 \/ Removed(k[1])
  <2>1. CASE k = key
    <3>1. mContentCache'[k] = entry
      BY <1>1, <2>1 DEF Put
    <3> QED
      BY <1>2, <1>4, <2>1, <3>1
  <2>2. CASE k # key
    <3>1. k \in DOMAIN mContentCache /\ mContentCache'[k] = mContentCache[k]
      BY <1>1, <2>2 DEF Put
    <3> QED
      BY <3>1 DEF PastInv, Excused
  <2> QED
    BY <2>1, <2>2
<1>6. Excused(mContentCache)'
  BY <1>5 DEF Excused, Removed, Past, published
<1> QED
  BY <1>3, <1>4, <1>6, ResultExcused

\* The query thread searches in generations that it has from the update thread.
LEMMA QueryExcused ==
  ASSUME PastInv, TypeInv, QueryThread
  PROVE  PastInv'
<1> USE DEF serverVars, copyVars, updateVars, flagVars, cacheVars, queryVars
<1>1. UNCHANGED <<serverVars, copyVars, updateVars>>
  BY DEF QueryThread, BeginQuery, FindGenerations, ReadGenerations, SearchNothing, SearchHit,
     EntryHit, FetchLevel, FetchAllLevels
<1>2. SUFFICES /\ \A e \in mProducerGenerationListCache' : \A g \in e.generations : Past(g)
               /\ \A g \in query'.left : Past(g)
               /\ Excused(mContentCache)' /\ Excused(mContentSearchCache)'
  BY <1>1 DEF PastInv, Past, published
<1>3. mContentCache' = mContentCache => Excused(mContentCache)'
  BY <1>1 DEF PastInv, Excused, Removed, Past, published
<1>4. mContentSearchCache' = mContentSearchCache => Excused(mContentSearchCache)'
  BY <1>1 DEF PastInv, Excused, Removed, Past, published
<1>5. DOMAIN query = {"level", "hash", "left"}
  BY DEF TypeInv, QueryTyped
<1>6. CASE (\E l \in AskedLevels : BeginQuery(l)) \/ SearchNothing
  <2>1. query'.left = {}
    <3>1. ASSUME NEW l \in AskedLevels, BeginQuery(l) PROVE query'.left = {}
      BY <3>1 DEF BeginQuery, Idle
    <3>2. ASSUME SearchNothing PROVE query'.left = {}
      BY <3>2 DEF SearchNothing, Idle
    <3> QED
      BY <1>6, <3>1, <3>2
  <2> QED
    BY <1>3, <1>4, <1>6, <2>1 DEF BeginQuery, SearchNothing, PastInv
<1>7. CASE FindGenerations
  <2>1. mProducerGenerationListCache' \subseteq mProducerGenerationListCache
    BY <1>7 DEF FindGenerations
  <2>2. \A g \in query'.left : Past(g)
    <3>1. CASE UNCHANGED query
      BY <3>1 DEF PastInv
    <3>2. CASE \E e \in mProducerGenerationListCache :
                 query' = [query EXCEPT !.left = e.generations]
      BY <1>5, <3>2 DEF PastInv
    <3> QED
      BY <1>7, <3>1, <3>2 DEF FindGenerations
  <2> QED
    BY <1>3, <1>4, <1>7, <2>1, <2>2 DEF FindGenerations, PastInv
<1>8. CASE ReadGenerations
  <2>1. query'.left = mGenerationInfoList
    BY <1>5, <1>8 DEF ReadGenerations
  <2> QED
    BY <1>3, <1>4, <1>8, <2>1 DEF ReadGenerations, PastInv
<1>9. CASE SearchHit
  <2>1. \A g \in query'.left : g \in query.left
    BY <1>5, <1>9 DEF SearchHit, Proceed, Idle
  <2> QED
    BY <1>3, <1>4, <1>9, <2>1 DEF SearchHit, PastInv
<1>10. CASE EntryHit
  <2>1. EntryKey \in DOMAIN mContentCache /\ EntryKey[1] = Newest
    BY <1>10 DEF EntryHit, Valid, EntryKey, SearchKey
  <2>2. mContentCache[EntryKey].answered \/ reloads > 0 \/ Removed(Newest)
    BY <2>1 DEF PastInv, Excused
  <2>3. Excused(mContentSearchCache)' /\ \A g \in query'.left : g \in query.left
    BY <1>1, <1>10, <2>2, ResultExcused DEF EntryHit
  <2> QED
    BY <1>3, <1>10, <2>3 DEF EntryHit, PastInv
<1> DEFINE list == ContentList(Newest, {query.level}, EntryList)
<1>11. CASE FetchLevel /\ list # {}
  <2>1. query.left # {} /\ updateContentCacheEntry(list) /\ UNCHANGED mProducerGenerationListCache
    BY <1>11 DEF FetchLevel
  <2> HIDE DEF list
  <2>2. /\ Excused(mContentCache)' /\ Excused(mContentSearchCache)'
        /\ \A g \in query'.left : g \in query.left
    BY <1>1, <2>1, EntryExcused
  <2> QED
    BY <2>1, <2>2 DEF PastInv
<1>12. CASE FetchLevel /\ list = {}
  BY <1>3, <1>4, <1>12 DEF FetchLevel, PastInv
<1>13. CASE FetchAllLevels
  <2>1. query.left # {}
    BY <1>13 DEF FetchAllLevels, TypeInv, QueryTyped
  <2>2. /\ Excused(mContentCache)' /\ Excused(mContentSearchCache)'
        /\ \A g \in query'.left : g \in query.left
    BY <1>1, <1>13, <2>1, EntryExcused DEF FetchAllLevels
  <2> QED
    BY <1>13, <2>2 DEF FetchAllLevels, PastInv
<1> QED
  BY <1>6, <1>7, <1>8, <1>9, <1>10, <1>11, <1>12, <1>13 DEF QueryThread

LEMMA NextPastInv == TypeInv /\ PastInv /\ [Next]_vars => PastInv'
<1> SUFFICES ASSUME TypeInv, PastInv, [Next]_vars PROVE PastInv'
  OBVIOUS
<1> USE DEF serverVars, copyVars, updateVars, flagVars, cacheVars, queryVars
<1>1. ASSUME UNCHANGED <<history, reloads, cacheVars, queryVars>>,
             reloading' => reloading,
             \A g \in mGenerationInfoList' : Past(g),
             upc' = "replaceGenerations" => \A g \in batch'.generations : Past(g)
      PROVE  PastInv'
  BY <1>1 DEF PastInv, Excused, Removed, Past, published
<1>2. CASE StampChangeTime \/ EndReload \/ Tick
  BY <1>1, <1>2 DEF StampChangeTime, EndReload, Tick, PastInv
<1>3. CASE StartReload
  <2>1. /\ reloads' > 0 /\ reloads' >= reloads
        /\ UNCHANGED <<history, upc, batch, mGenerationInfoList, cacheVars, queryVars>>
    BY <1>3, QueryAssumption DEF StartReload, TypeInv
  <2> QED
    BY <2>1 DEF PastInv, Excused, Past, published
<1>4. CASE FetchGenerations
  <2>1. published.generations \subseteq Nat
    BY PublishedIs, QueryAssumption DEF TypeInv, Structures
  <2>2. \A g \in GenerationList : Past(g)
    BY <2>1 DEF GenerationList, Past
  <2>3. upc' = "replaceGenerations" => batch'.generations = GenerationList
    BY <1>4 DEF FetchGenerations
  <2> QED
    BY <1>1, <1>4, <2>2, <2>3 DEF FetchGenerations, PastInv
<1>5. CASE ReplaceGenerations
  BY <1>1, <1>5 DEF ReplaceGenerations, PastInv
<1>6. CASE checkContentServerRestart \/ FetchProducers \/ ReplaceProducers \/ AnnounceGenerations
  BY <1>1, <1>6 DEF checkContentServerRestart, FetchProducers, ReplaceProducers,
     AnnounceGenerations, PastInv
<1>7. CASE UNCHANGED vars
  BY <1>1, <1>7 DEF vars, PastInv
<1> QED
  BY <1>2, <1>3, <1>4, <1>5, <1>6, <1>7, PublishExcused, QueryExcused DEF Next, UpdateThread

-----------------------------------------------------------------------------
\* Of a level that is asked for alone: a result that a query takes from the cache was an
\* answer of the server since it published the state in the label of the result, if the
\* fetch had an answer; a fetch without one leaves content of before there only for a
\* generation that the server has not any more, or after a reload.
THEOREM ResultsNotOlderHolds ==
  ASSUME OneLevel
  PROVE  Spec => []ResultsNotOlder
<1> DEFINE Inv == IInv /\ TypeInv /\ PastInv
<1>1. Init => Inv
  BY InitIInv, InitTypeInv, InitPastInv
<1>2. Inv /\ [Next]_vars => Inv'
  BY NextIInv, NextTypeInv, NextPastInv
<1>3. Inv => ResultsNotOlder
  <2> SUFFICES ASSUME Inv, NEW k \in DOMAIN mContentSearchCache,
                      ~IsAnswer(k, mContentSearchCache[k])
               PROVE  /\ ~mContentSearchCache[k].answered
                      /\ k[1] \notin published.generations \/ reloads > 0
    BY DEF ResultsNotOlder
  <2>1. ~mContentSearchCache[k].answered
    BY DEF IInv, ResultsServe
  <2> QED
    BY <2>1 DEF PastInv, Excused, Removed
<1> HIDE DEF Inv
<1> QED
  BY <1>1, <1>2, <1>3, PTL DEF Spec
=============================================================================
