------------------------ MODULE CacheAgreementProofs ------------------------
(***************************************************************************)
(* The proof that the cache agrees with the storage when it has processed  *)
(* every event (PrimaryAgrees), for every set of names, messages, data and  *)
(* calls that the hypotheses leave, every bound, every page size and every  *)
(* width of the file ids.                                                   *)
(*                                                                         *)
(* The cache is seldom equal to the storage: it is behind by the events     *)
(* that it has not processed, and ahead of them by the records that it has *)
(* read meanwhile.  The invariant says how the events that are pending lead *)
(* from the lists to the tables, for one table after the other.  The        *)
(* predicates take the tables, the lists and the log as parameters, so that *)
(* the lemmas are about values and speak of a step as two values.           *)
(***************************************************************************)
EXTENDS ContentCacheProofs

\* The clients leave out what the cache does not follow: the calls that change
\* what a registered record belongs to or is called, the content that is added
\* to a known file record by record, the deletions by forecast time, of whose
\* content no event tells, the deletion of one level of a geometry, and a clear()
\* by another process.
SteadyClients ==
  /\ RegisterOnce
  /\ Operations \cap
       {"setProducerInfo", "setGenerationInfo", "setFileInfo",
        "addContentInfo", "addContentList", "addFileInfoListWithContent",
        "deleteFileInfoListByGenerationIdAndForecastTime",
        "deleteFileInfoListByForecastTimeList"} = {}
  /\ "deleteGeometryInfoById" \in Operations => \A k \in Geometries : k[2] = 0
  /\ "clear" \in Operations => ClearedBy = "own"

\* The event log is never truncated ahead of the cache.
KeepsUp ==
  [][~clearing => \A k \in NewEvents \cup (eventLog.counter + 1)..eventLog'.counter :
                     k \in DOMAIN eventLog'.events]_vars

-----------------------------------------------------------------------------
(* The invariant speaks of the events that the cache has not processed yet,  *)
(* and of those among them after some event.                                *)

Pending == [i \in NewEvents |-> eventLog.events[i]]
After(log, n) == [i \in {x \in DOMAIN log : x > n} |-> log[i]]

\* What an event tells: of a record, or that records with some owners have gone.
Of(e, type, id) == e.type = type /\ e.id1 = id

OwnerGone(e, p, g) ==
  \/ Of(e, "PRODUCER_DELETED", p)
  \/ Of(e, "GENERATION_LIST_DELETED_BY_PRODUCER_ID", p)
  \/ Of(e, "GENERATION_DELETED", g)

StatusChanged(e, g, status) == Of(e, "GENERATION_STATUS_CHANGED", g) /\ e.id2 = status

GeometryTold(e, type, k) == e.type = type /\ EventGeometry(e) = k

GeometryGone(e, k, p) ==
  \/ OwnerGone(e, p, k[1])
  \/ GeometryTold(e, "GEOMETRY_DELETED", k)
  \/ Of(e, "GEOMETRY_LIST_DELETED_BY_GENERATION_ID", k[1])
  \/ Of(e, "GEOMETRY_LIST_DELETED_BY_PRODUCER_ID", p)

\* After this event a cached geometry has the status of the stored one, or is gone.
StatusSettled(e, y) ==
  \/ GeometryTold(e, "GEOMETRY_UPDATED", GeometryKey(y))
  \/ GeometryTold(e, "GEOMETRY_STATUS_CHANGED", GeometryKey(y)) /\ e.flags = y.status
  \/ GeometryGone(e, GeometryKey(y), y.producer)

FileGone(e, f, r) ==
  \/ OwnerGone(e, r.producer, r.generation)
  \/ Of(e, "FILE_DELETED", f)
  \/ Of(e, "FILE_LIST_DELETED_BY_PRODUCER_ID", r.producer)
  \/ Of(e, "FILE_LIST_DELETED_BY_GENERATION_ID", r.generation)

ContentTold(e, type, k) == e.type = type /\ <<e.id1, e.id2>> = k

ContentGone(e, r) ==
  \/ FileGone(e, r.file, r)
  \/ Of(e, "CONTENT_LIST_DELETED_BY_FILE_ID", r.file)
  \/ Of(e, "CONTENT_LIST_DELETED_BY_PRODUCER_ID", r.producer)
  \/ Of(e, "CONTENT_LIST_DELETED_BY_GENERATION_ID", r.generation)
  \/ ContentTold(e, "CONTENT_DELETED", Key(r))
  \/ ContentTold(e, "CONTENT_UPDATED", Key(r))
  \/ Of(e, "GEOMETRY_DELETED", r.generation) /\ e.id2 = GeometryOf[r.message][1]

ContentAdded(e, k) ==
  \/ ContentTold(e, "CONTENT_UPDATED", k)
  \/ Of(e, "FILE_UPDATED", k[1])
  \/ Of(e, "FILE_ADDED", k[1]) /\ e.id3 > 0

-----------------------------------------------------------------------------
(* The pending events and the storage: what tells that a stored record has   *)
(* gone is followed by what brings it back.                                 *)

ProducersTold(P, n, log) ==
  \A i \in DOMAIN log :
    /\ log[i].type = "PRODUCER_DELETED" => log[i].id1 \in 1..n \ DOMAIN P
    /\ log[i].type = "PRODUCER_ADDED" => log[i].id1 \in 1..n

GenerationsTold(G, n, log) ==
  \A i \in DOMAIN log :
    /\ log[i].type = "GENERATION_DELETED" => log[i].id1 \in 1..n \ DOMAIN G
    /\ log[i].type = "GENERATION_STATUS_CHANGED" => log[i].id1 \in 1..n
    /\ \A g \in DOMAIN G :
         /\ Of(log[i], "GENERATION_LIST_DELETED_BY_PRODUCER_ID", G[g].producer)
              => \E j \in DOMAIN log : j > i /\ Of(log[j], "GENERATION_ADDED", g)
         /\ Of(log[i], "GENERATION_STATUS_CHANGED", g)
              => \E j \in DOMAIN log : j >= i /\ StatusChanged(log[j], g, G[g].status)

GeometriesTold(Y, G, n, log) ==
  \A i \in DOMAIN log :
    /\ \A y \in Y :
         /\ GeometryGone(log[i], GeometryKey(y), y.producer)
              => \E j \in DOMAIN log : j > i /\ GeometryTold(log[j], "GEOMETRY_ADDED", GeometryKey(y))
         /\ GeometryTold(log[i], "GEOMETRY_STATUS_CHANGED", GeometryKey(y))
              => \E j \in DOMAIN log : j >= i /\ StatusSettled(log[j], y)
    /\ log[i].type = "GEOMETRY_STATUS_CHANGED" =>
         LET k == EventGeometry(log[i])
         IN /\ k[1] \in 1..n
            /\ k[1] \in DOMAIN G /\ (\A y \in Y : GeometryKey(y) # k)
                 => \E j \in DOMAIN log : j > i /\ GeometryGone(log[j], k, G[k[1]].producer)

FilesTold(F, log) ==
  \A i \in DOMAIN log, f \in DOMAIN F :
    FileGone(log[i], f, F[f]) => \E j \in DOMAIN log : j > i /\ Of(log[j], "FILE_ADDED", f)

ContentsTold(C, log) ==
  \A i \in DOMAIN log, r \in C :
    ContentGone(log[i], r) => \E j \in DOMAIN log : j >= i /\ ContentAdded(log[j], Key(r))

\* No call of the steady clients announces these.
TypesTold(log) ==
  \A i \in DOMAIN log :
    /\ log[i].type \notin {"PRODUCER_UPDATED", "GENERATION_UPDATED", "CONTENT_ADDED"}
    /\ log[i].type = "CLEAR" => clearing

GeometriesOnce == \A x, y \in geometries : GeometryKey(x) = GeometryKey(y) => x = y

StorageTold(log) ==
  /\ ProducersTold(producers, producerCounter, log)
  /\ GenerationsTold(generations, generationCounter, log)
  /\ GeometriesTold(geometries, generations, generationCounter, log)
  /\ FilesTold(files, log)
  /\ ContentsTold(content, log)
  /\ TypesTold(log)

-----------------------------------------------------------------------------
(* A list follows its table: a live record is the stored one, or a pending   *)
(* event removes it or brings it up to date; a stored record is live, or a  *)
(* pending event adds it.                                                   *)

Flagged(list) == \A k \in DOMAIN list : list[k] = [info |-> list[k].info, deleted |-> list[k].deleted]

ProducersFollow(list, P, n, log) ==
  /\ Flagged(list)
  /\ \A q \in DOMAIN list : q \in 1..n
  /\ \A q \in Marked(list) : q \notin DOMAIN P
  /\ \A q \in Live(list) :
       \/ q \in DOMAIN P /\ list[q].info = P[q]
       \/ q \notin DOMAIN P /\ \E i \in DOMAIN log : Of(log[i], "PRODUCER_DELETED", q)
  /\ \A p \in DOMAIN P :
       p \in Live(list) \/ \E i \in DOMAIN log : Of(log[i], "PRODUCER_ADDED", p)
  /\ \A p \in DOMAIN P, q \in Live(list), i \in DOMAIN log :
       q # p /\ list[q].info = P[p] /\ Of(log[i], "PRODUCER_ADDED", p)
         => \E j \in DOMAIN log : j < i /\ Of(log[j], "PRODUCER_DELETED", q)

IsGeneration(info) == info = [producer |-> info.producer, name |-> info.name, status |-> info.status]

GenerationsFollow(list, G, n, except, log) ==
  /\ Flagged(list)
  /\ \A g \in DOMAIN list : g \in 1..n /\ IsGeneration(list[g].info)
  /\ \A g \in Marked(list) : g \notin DOMAIN G
  /\ \A g \in Live(list) :
       IF g \in DOMAIN G
         THEN /\ list[g].info.producer = G[g].producer /\ list[g].info.name = G[g].name
              /\ \/ list[g].info.status = G[g].status
                 \/ \E i \in DOMAIN log : StatusChanged(log[i], g, G[g].status)
         ELSE \E i \in DOMAIN log : OwnerGone(log[i], list[g].info.producer, g)
  /\ \A g \in DOMAIN G \ except :
       g \in Live(list) \/ \E i \in DOMAIN log : Of(log[i], "GENERATION_ADDED", g)

IsGeometry(info) ==
  info = [producer |-> info.producer, generation |-> info.generation,
          geometry |-> info.geometry, status |-> info.status]

GeometriesFollow(list, Y, G, n, log) ==
  /\ Flagged(list)
  /\ \A k \in DOMAIN list :
       /\ IsGeometry(list[k].info) /\ GeometryKey(list[k].info) = k
       /\ k[1] \in 1..n
       /\ k[1] \in DOMAIN G => list[k].info.producer = G[k[1]].producer
  /\ \A k \in Marked(list) : k[1] \notin DOMAIN G
  /\ \A k \in Live(list) :
       /\ \/ \E y \in Y : GeometryKey(y) = k
          \/ \E i \in DOMAIN log : GeometryGone(log[i], k, list[k].info.producer)
       /\ \A y \in Y : GeometryKey(y) = k =>
            \/ list[k].info.status = y.status
            \/ \E i \in DOMAIN log : StatusSettled(log[i], y)
  /\ \A y \in Y :
       \/ GeometryKey(y) \in Live(list)
       \/ \E i \in DOMAIN log : GeometryTold(log[i], "GEOMETRY_ADDED", GeometryKey(y))

FileFollows(f, r, F, log) ==
  \/ f \in DOMAIN F /\ r = F[f]
  \/ \E i \in DOMAIN log :
       /\ FileGone(log[i], f, r)
       /\ f \in DOMAIN F => \E j \in DOMAIN log : j > i /\ Of(log[j], "FILE_ADDED", f)

FilesFollow(list, F, log) ==
  /\ Flagged(list)
  /\ \A f \in Live(list) : FileFollows(f, list[f].info, F, log)
  /\ \A f \in DOMAIN F :
       f \in Live(list) \/ \E i \in DOMAIN log : Of(log[i], "FILE_ADDED", f)

\* The content of a known file is removed by the update of the file: the file is in the
\* cache then, or it would still have to be added.
FileReplaced(r, F, log) ==
  /\ r.file \in DOMAIN F
  /\ r.producer = F[r.file].producer /\ r.generation = F[r.file].generation
  /\ \E i \in DOMAIN log :
       /\ Of(log[i], "FILE_UPDATED", r.file)
       /\ \A j \in DOMAIN log : Of(log[j], "FILE_ADDED", r.file) => j < i

ContentFollows(r, C, F, log) ==
  \/ r \in C
  \/ \E i \in DOMAIN log :
       /\ ContentGone(log[i], r)
       /\ (\E s \in C : Key(s) = Key(r))
            => \E j \in DOMAIN log : j >= i /\ ContentAdded(log[j], Key(r))
  \/ FileReplaced(r, F, log)

\* The event brings the content under a key: the data that has been fetched with a new
\* file may be older than the content.
Brings(i, k, fetched, log) ==
  /\ ContentAdded(log[i], k)
  /\ \A n \in 1..Len(fetched) : fetched[n].id = i /\ fetched[n].type = "FILE_ADDED" =>
       \A x \in fetched[n].data : \E r \in x.contents : Key(r) = k

ContentsFollow(list, C, F, fetched, log) ==
  /\ Flagged(list)
  /\ \A k \in DOMAIN list : Key(list[k].info) = k
  /\ \A k \in Live(list) : ContentFollows(list[k].info, C, F, log)
  /\ \A r \in C : Key(r) \in Live(list) \/ \E i \in DOMAIN log : Brings(i, Key(r), fetched, log)

-----------------------------------------------------------------------------
(* The fetched events are pending ones, and their data follows the storage   *)
(* as the lists do, with the events after them.                             *)

Matches(h, e) ==
  /\ h.type = e.type /\ h.flags = e.flags
  /\ h.id1 = e.id1 /\ h.id2 = e.id2 /\ h.id3 = e.id3

PageMatches(fetched, log) ==
  \A n \in 1..Len(fetched) :
    /\ fetched[n].id \in DOMAIN log /\ Matches(fetched[n], log[fetched[n].id])
    /\ fetched[n].type # "CLEAR"
    /\ fetched[n].type = "CONTENT_UPDATED" => fetched[n].data = {}

DataFollows(h, x, last, C, F, log) ==
  /\ FileFollows(h.id1, x.file, F, After(log, h.id))
  /\ \A r \in x.contents : r.file = h.id1 /\ ContentFollows(r, C, F, After(log, h.id))
  /\ h.id3 > 0 => \A r \in C : r.file = h.id1 =>
       \/ \E s \in x.contents : Key(s) = Key(r)
       \/ \E i \in DOMAIN log : i > last /\ ContentAdded(log[i], Key(r))

PageFollows(fetched, C, F, log) ==
  \A n \in 1..Len(fetched) : fetched[n].type = "FILE_ADDED" =>
    \A x \in fetched[n].data : DataFollows(fetched[n], x, fetched[Len(fetched)].id, C, F, log)

-----------------------------------------------------------------------------
(* The invariant.                                                           *)

\* What the cache has, or reads, is of the storage that is there: neither a clear() nor
\* a restart has come since.
Synced == (IF Following THEN mContentStorageStartTime ELSE reload.time) = mStartTime

\* A reload has read the list of a table.
HasRead(t) ==
  \/ Following
  \/ \E i, j \in DOMAIN Phases : Phases[i] = t /\ Phases[j] = reload.phase /\ i < j

ListsFollow ==
  /\ HasRead("producers") =>
       ProducersFollow(primary.lists["producers"], producers, producerCounter, Pending)
  /\ HasRead("generations") =>
       GenerationsFollow(primary.lists["generations"], generations, generationCounter, unread,
                         Pending)
  /\ HasRead("geometries") =>
       /\ kept = {}
       /\ GeometriesFollow(primary.lists["geometries"], geometries, generations,
                           generationCounter, Pending)
  /\ HasRead("files") => FilesFollow(primary.lists["files"], files, Pending)
  /\ HasRead("contents") =>
       ContentsFollow(primary.lists["contents"], content, files, page, Pending)

Follows ==
  Synced =>
    /\ StorageTold(Pending)
    /\ PageMatches(page, Pending) /\ PageFollows(page, content, files, Pending)
    /\ ListsFollow

-----------------------------------------------------------------------------
(* The log of the pending events.                                           *)

\* The log grows by some events, which come after all the others.
Grown(log, new, E) ==
  /\ DOMAIN new \subseteq Int
  /\ \A i \in DOMAIN log : i \in DOMAIN new /\ new[i] = log[i]
  /\ \A i \in DOMAIN new : i \in DOMAIN log \/ new[i] \in E
  /\ \A i \in DOMAIN new \ DOMAIN log, j \in DOMAIN log : j < i
  /\ \A e \in E : \E i \in DOMAIN new \ DOMAIN log : new[i] = e

\* The first event is taken off the log.
Cut(log, m, rest) ==
  /\ DOMAIN log \subseteq Int /\ m \in DOMAIN log
  /\ \A i \in DOMAIN log : i = m \/ i > m
  /\ \A i : i \in DOMAIN rest <=> i \in DOMAIN log /\ i > m
  /\ \A i \in DOMAIN rest : rest[i] = log[i]

LEMMA AfterIs ==
  ASSUME NEW log, NEW n
  PROVE  /\ \A i : i \in DOMAIN After(log, n) <=> i \in DOMAIN log /\ i > n
         /\ \A i \in DOMAIN After(log, n) : After(log, n)[i] = log[i]
BY DEF After

LEMMA GrownAfter ==
  ASSUME NEW log, NEW new, NEW E, Grown(log, new, E), NEW m \in DOMAIN log
  PROVE  Grown(After(log, m), After(new, m), E)
<1>1. /\ \A i : i \in DOMAIN After(log, m) <=> i \in DOMAIN log /\ i > m
      /\ \A i \in DOMAIN After(log, m) : After(log, m)[i] = log[i]
      /\ \A i : i \in DOMAIN After(new, m) <=> i \in DOMAIN new /\ i > m
      /\ \A i \in DOMAIN After(new, m) : After(new, m)[i] = new[i]
  BY AfterIs
<1> QED
  BY <1>1 DEF Grown

LEMMA CutAfter ==
  ASSUME NEW log, DOMAIN log \subseteq Int, NEW m \in DOMAIN log,
         \A i \in DOMAIN log : i >= m
  PROVE  Cut(log, m, After(log, m))
BY AfterIs DEF Cut

\* After a later event the cut does not matter.
LEMMA AfterCut ==
  ASSUME NEW log, NEW m, NEW rest, Cut(log, m, rest), NEW n \in DOMAIN log
  PROVE  After(rest, n) = After(log, n)
<1>1. {i \in DOMAIN rest : i > n} = {i \in DOMAIN log : i > n}
  BY DEF Cut
<1>2. \A i \in {x \in DOMAIN rest : x > n} : rest[i] = log[i]
  BY DEF Cut
<1> QED
  BY <1>1, <1>2 DEF After

-----------------------------------------------------------------------------
(* Producers.                                                               *)

\* What a call tells of the producers that it removes and adds: their ids do not
\* come back.
ProducersCall(P, n, Q, m, E) ==
  /\ n \in Nat /\ m \in Nat /\ n <= m
  /\ DOMAIN P \subseteq 1..n /\ DOMAIN Q \subseteq 1..m
  /\ \A p \in DOMAIN P : IF p \in DOMAIN Q THEN Q[p] = P[p]
                                           ELSE \E e \in E : Of(e, "PRODUCER_DELETED", p)
  /\ \A p \in DOMAIN Q \ DOMAIN P : p > n /\ \E e \in E : Of(e, "PRODUCER_ADDED", p)
  /\ \A e \in E :
       /\ e.type = "PRODUCER_DELETED" => e.id1 \in 1..m \ DOMAIN Q
       /\ e.type = "PRODUCER_ADDED" =>
            e.id1 \in 1..m /\ e.id1 > n /\ DOMAIN P \subseteq DOMAIN Q
  /\ \A p, q \in DOMAIN Q : Q[p] = Q[q] => p = q

LEMMA ProducersToldStep ==
  ASSUME NEW P, NEW n, NEW Q, NEW m, NEW E, NEW log, NEW new,
         ProducersCall(P, n, Q, m, E), Grown(log, new, E), ProducersTold(P, n, log)
  PROVE  ProducersTold(Q, m, new)
<1> SUFFICES ASSUME NEW i \in DOMAIN new
             PROVE  /\ new[i].type = "PRODUCER_DELETED" => new[i].id1 \in 1..m \ DOMAIN Q
                    /\ new[i].type = "PRODUCER_ADDED" => new[i].id1 \in 1..m
  BY DEF ProducersTold
<1>1. CASE i \in DOMAIN log
  <2>1. new[i] = log[i]
    BY <1>1 DEF Grown
  <2>2. \A p \in 1..n : p \in 1..m /\ (p \in DOMAIN Q => p \in DOMAIN P)
    BY DEF ProducersCall
  <2> QED
    BY <1>1, <2>1, <2>2 DEF ProducersTold
<1>2. CASE new[i] \in E
  BY <1>2 DEF ProducersCall
<1> QED
  BY <1>1, <1>2 DEF Grown

LEMMA ProducersFollowStep ==
  ASSUME NEW list, NEW P, NEW n, NEW Q, NEW m, NEW E, NEW log, NEW new,
         ProducersCall(P, n, Q, m, E), Grown(log, new, E),
         ProducersTold(P, n, log), ProducersFollow(list, P, n, log)
  PROVE  ProducersFollow(list, Q, m, new)
<1>1. \A p \in 1..n : p \in 1..m /\ (p \in DOMAIN Q => p \in DOMAIN P)
  BY DEF ProducersCall
<1>2. \A q \in DOMAIN list : q \in 1..m
  BY <1>1 DEF ProducersFollow
<1>3. \A q \in Marked(list) : q \notin DOMAIN Q
  BY <1>1 DEF ProducersFollow, Marked
<1>4. ASSUME NEW q \in Live(list)
      PROVE  \/ q \in DOMAIN Q /\ list[q].info = Q[q]
             \/ q \notin DOMAIN Q /\ \E i \in DOMAIN new : Of(new[i], "PRODUCER_DELETED", q)
  <2>1. q \in 1..n
    BY DEF ProducersFollow, Live
  <2>2. CASE q \in DOMAIN P /\ list[q].info = P[q]
    BY <2>2 DEF ProducersCall, Grown
  <2>3. CASE q \notin DOMAIN P /\ \E i \in DOMAIN log : Of(log[i], "PRODUCER_DELETED", q)
    BY <1>1, <2>1, <2>3 DEF Grown
  <2> QED
    BY <2>2, <2>3 DEF ProducersFollow
<1>5. \A p \in DOMAIN Q :
        p \in Live(list) \/ \E i \in DOMAIN new : Of(new[i], "PRODUCER_ADDED", p)
  <2> SUFFICES ASSUME NEW p \in DOMAIN Q
               PROVE  p \in Live(list) \/ \E i \in DOMAIN new : Of(new[i], "PRODUCER_ADDED", p)
    OBVIOUS
  <2>1. CASE p \in DOMAIN P
    BY <2>1 DEF ProducersFollow, Grown
  <2>2. CASE p \notin DOMAIN P
    BY <2>2 DEF ProducersCall, Grown
  <2> QED
    BY <2>1, <2>2
<1>6. ASSUME NEW p \in DOMAIN Q, NEW q \in Live(list), NEW i \in DOMAIN new,
             q # p, list[q].info = Q[p], Of(new[i], "PRODUCER_ADDED", p)
      PROVE  \E j \in DOMAIN new : j < i /\ Of(new[j], "PRODUCER_DELETED", q)
  <2>1. CASE i \in DOMAIN log
    <3>1. Of(log[i], "PRODUCER_ADDED", p) /\ p \in 1..n
      BY <1>6, <2>1 DEF Grown, ProducersTold, Of
    <3>2. p \in DOMAIN P /\ P[p] = Q[p]
      BY <1>1, <3>1 DEF ProducersCall
    <3>3. \E j \in DOMAIN log : j < i /\ Of(log[j], "PRODUCER_DELETED", q)
      BY <1>6, <2>1, <3>1, <3>2 DEF ProducersFollow
    <3> QED
      BY <3>3 DEF Grown
  <2>2. CASE i \notin DOMAIN log
    <3>1. new[i] \in E
      BY <2>2 DEF Grown
    <3>2. DOMAIN P \subseteq DOMAIN Q
      BY <1>6, <3>1 DEF ProducersCall, Of
    <3>3. q \notin DOMAIN P
      <4> SUFFICES ASSUME q \in DOMAIN P PROVE FALSE
        OBVIOUS
      <4>1. list[q].info = P[q]
        BY DEF ProducersFollow
      <4>2. Q[q] = Q[p] /\ q \in DOMAIN Q
        BY <1>6, <3>2, <4>1 DEF ProducersCall
      <4> QED
        BY <1>6, <4>2 DEF ProducersCall
    <3>4. \E j \in DOMAIN log : Of(log[j], "PRODUCER_DELETED", q)
      BY <3>3 DEF ProducersFollow
    <3> QED
      BY <2>2, <3>4 DEF Grown
  <2> QED
    BY <2>1, <2>2
<1>7. Flagged(list)
  BY DEF ProducersFollow
<1> QED
  BY <1>2, <1>3, <1>4, <1>5, <1>6, <1>7 DEF ProducersFollow

\* A handler removes some records from a list, and marks those of M.
Loses(new, old, K, M) ==
  /\ Flagged(new)
  /\ DOMAIN new \subseteq DOMAIN old
  /\ \A k \in DOMAIN new : new[k].info = old[k].info
  /\ Live(new) = Live(old) \ K
  /\ Marked(new) \subseteq Marked(old) \cup M

LEMMA LiveIs ==
  ASSUME NEW list
  PROVE  /\ \A k : k \in Live(list) <=> k \in DOMAIN list /\ ~list[k].deleted
         /\ \A k : k \in Marked(list) <=> k \in DOMAIN list /\ k \notin Live(list)
BY DEF Live, Marked

LEMMA ProducersLost ==
  ASSUME NEW list, NEW lost, NEW P, NEW n, NEW log, NEW m, NEW rest, NEW K, NEW M,
         Cut(log, m, rest), ProducersTold(P, n, log), ProducersFollow(list, P, n, log),
         log[m].type # "PRODUCER_ADDED",
         Loses(lost, list, K, M),
         \A q : q \in DOMAIN list => (q \in K <=> Of(log[m], "PRODUCER_DELETED", q)),
         \A q \in M : q \in DOMAIN list /\ Of(log[m], "PRODUCER_DELETED", q)
  PROVE  ProducersFollow(lost, P, n, rest)
<1> USE LiveIs
<1>0. \A q : Of(log[m], "PRODUCER_DELETED", q) => q \notin DOMAIN P
  BY DEF Cut, ProducersTold, Of
<1>1. \A q \in DOMAIN lost : q \in 1..n
  BY DEF ProducersFollow, Loses
<1>2. \A q \in Marked(lost) : q \notin DOMAIN P
  BY <1>0 DEF ProducersFollow, Loses
<1>3. \A q \in Live(lost) : q \in Live(list) /\ q \notin K /\ lost[q].info = list[q].info
  BY DEF Loses
<1>4. ASSUME NEW q \in Live(lost)
      PROVE  \/ q \in DOMAIN P /\ lost[q].info = P[q]
             \/ q \notin DOMAIN P /\ \E i \in DOMAIN rest : Of(rest[i], "PRODUCER_DELETED", q)
  <2>1. CASE q \in DOMAIN P
    BY <1>3, <2>1 DEF ProducersFollow
  <2>2. CASE q \notin DOMAIN P
    <3>1. PICK i \in DOMAIN log : Of(log[i], "PRODUCER_DELETED", q)
      BY <1>3, <2>2 DEF ProducersFollow
    <3>2. i # m
      BY <1>3, <3>1
    <3> QED
      BY <2>2, <3>1, <3>2 DEF Cut
  <2> QED
    BY <2>1, <2>2
<1>5. ASSUME NEW p \in DOMAIN P
      PROVE  p \in Live(lost) \/ \E i \in DOMAIN rest : Of(rest[i], "PRODUCER_ADDED", p)
  <2>1. CASE p \in Live(list)
    BY <1>0, <2>1 DEF Loses
  <2>2. CASE p \notin Live(list)
    <3>1. PICK i \in DOMAIN log : Of(log[i], "PRODUCER_ADDED", p)
      BY <2>2 DEF ProducersFollow
    <3>2. i # m
      BY <3>1 DEF Of
    <3> QED
      BY <3>1, <3>2 DEF Cut
  <2> QED
    BY <2>1, <2>2
<1>6. ASSUME NEW p \in DOMAIN P, NEW q \in Live(lost), NEW i \in DOMAIN rest,
             q # p, lost[q].info = P[p], Of(rest[i], "PRODUCER_ADDED", p)
      PROVE  \E j \in DOMAIN rest : j < i /\ Of(rest[j], "PRODUCER_DELETED", q)
  <2>1. i \in DOMAIN log /\ Of(log[i], "PRODUCER_ADDED", p)
    BY <1>6 DEF Cut
  <2>2. PICK j \in DOMAIN log : j < i /\ Of(log[j], "PRODUCER_DELETED", q)
    BY <1>3, <1>6, <2>1 DEF ProducersFollow
  <2>3. j # m
    BY <1>3, <2>2
  <2> QED
    BY <2>2, <2>3 DEF Cut
<1>7. Flagged(lost)
  BY DEF Loses
<1> QED
  BY <1>1, <1>2, <1>4, <1>5, <1>6, <1>7 DEF ProducersFollow

\* A record is put into a list.
LEMMA PutLive ==
  ASSUME NEW list, Flagged(list), NEW k, NEW info
  PROVE  LET new == Put(list, k, Unmarked(info))
         IN /\ Flagged(new)
            /\ DOMAIN new = DOMAIN list \cup {k}
            /\ new[k].info = info
            /\ \A x \in DOMAIN list : x # k => new[x] = list[x]
            /\ Live(new) = Live(list) \cup {k}
            /\ Marked(new) = Marked(list) \ {k}
<1> DEFINE new == Put(list, k, Unmarked(info))
<1>1. /\ DOMAIN new = DOMAIN list \cup {k} /\ new[k] = [info |-> info, deleted |-> FALSE]
      /\ \A x \in DOMAIN list : x # k => new[x] = list[x]
  BY DEF Put, Unmarked
<1> HIDE DEF new
<1>2. Flagged(new)
  BY <1>1 DEF Flagged
<1>3. Live(new) = Live(list) \cup {k} /\ Marked(new) = Marked(list) \ {k}
  BY <1>1, LiveIs
<1> QED
  BY <1>1, <1>2, <1>3 DEF new

\* The list after an event of a new producer.
ProducerAddedTo(list, P, p) ==
  IF \/ p \in Live(list)
     \/ p \notin DOMAIN P
     \/ \E q \in Live(list) : list[q].info = P[p]
    THEN list ELSE Put(list, p, Unmarked(P[p]))

LEMMA ProducerAddedIs ==
  ASSUME NEW list, NEW P, NEW n, NEW log, NEW m, NEW rest,
         Cut(log, m, rest), ProducersTold(P, n, log), ProducersFollow(list, P, n, log),
         log[m].type = "PRODUCER_ADDED",
         \A p, q \in DOMAIN P : P[p] = P[q] => p = q
  PROVE  ProducersFollow(ProducerAddedTo(list, P, log[m].id1), P, n, rest)
<1> USE LiveIs
<1> DEFINE p == log[m].id1
           new == ProducerAddedTo(list, P, p)
<1>0. m \in DOMAIN log /\ Of(log[m], "PRODUCER_ADDED", p) /\ p \in 1..n
  BY DEF Cut, ProducersTold, Of
<1>1. p \in DOMAIN P /\ p \notin Live(list) => ~\E q \in Live(list) : list[q].info = P[p]
  <2> SUFFICES ASSUME p \in DOMAIN P, p \notin Live(list),
                      NEW q \in Live(list), list[q].info = P[p]
               PROVE  FALSE
    OBVIOUS
  <2>1. PICK j \in DOMAIN log : j < m /\ Of(log[j], "PRODUCER_DELETED", q)
    BY <1>0 DEF ProducersFollow
  <2> QED
    BY <2>1 DEF Cut
<1>2. \A q \in Live(list) : q \notin DOMAIN P =>
        \E i \in DOMAIN rest : Of(rest[i], "PRODUCER_DELETED", q)
  <2> SUFFICES ASSUME NEW q \in Live(list), q \notin DOMAIN P
               PROVE  \E i \in DOMAIN rest : Of(rest[i], "PRODUCER_DELETED", q)
    OBVIOUS
  <2>1. PICK i \in DOMAIN log : Of(log[i], "PRODUCER_DELETED", q)
    BY DEF ProducersFollow
  <2>2. i # m
    BY <2>1 DEF Of
  <2> QED
    BY <2>1, <2>2 DEF Cut
<1>3. \A x \in DOMAIN P : x # p => x \in Live(list) \/ \E i \in DOMAIN rest : Of(rest[i], "PRODUCER_ADDED", x)
  <2> SUFFICES ASSUME NEW x \in DOMAIN P, x # p, x \notin Live(list)
               PROVE  \E i \in DOMAIN rest : Of(rest[i], "PRODUCER_ADDED", x)
    OBVIOUS
  <2>1. PICK i \in DOMAIN log : Of(log[i], "PRODUCER_ADDED", x)
    BY DEF ProducersFollow
  <2>2. i # m
    BY <2>1 DEF Of
  <2> QED
    BY <2>1, <2>2 DEF Cut
<1>4. ASSUME NEW x \in DOMAIN P, NEW q \in Live(list), NEW i \in DOMAIN rest,
             q # x, list[q].info = P[x], Of(rest[i], "PRODUCER_ADDED", x)
      PROVE  \E j \in DOMAIN rest : j < i /\ Of(rest[j], "PRODUCER_DELETED", q)
  <2>1. i \in DOMAIN log /\ Of(log[i], "PRODUCER_ADDED", x)
    BY <1>4 DEF Cut
  <2>2. PICK j \in DOMAIN log : j < i /\ Of(log[j], "PRODUCER_DELETED", q)
    BY <1>4, <2>1 DEF ProducersFollow
  <2>3. j # m
    BY <2>2 DEF Of
  <2> QED
    BY <2>2, <2>3 DEF Cut
<1> HIDE DEF p
<1>5. CASE p \in Live(list) \/ p \notin DOMAIN P
  <2>1. new = list
    BY <1>5 DEF ProducerAddedTo
  <2>2. \A x \in DOMAIN P : x \in Live(list) \/ \E i \in DOMAIN rest : Of(rest[i], "PRODUCER_ADDED", x)
    BY <1>3, <1>5
  <2>3. ProducersFollow(list, P, n, rest)
    BY <1>2, <1>4, <2>2 DEF ProducersFollow
  <2> QED
    BY <2>1, <2>3 DEF p
<1>6. CASE p \in DOMAIN P /\ p \notin Live(list)
  <2>1. new = Put(list, p, Unmarked(P[p]))
    BY <1>1, <1>6 DEF ProducerAddedTo
  <2>2. /\ Flagged(new) /\ DOMAIN new = DOMAIN list \cup {p} /\ new[p].info = P[p]
        /\ \A x \in DOMAIN list : x # p => new[x] = list[x]
        /\ Live(new) = Live(list) \cup {p} /\ Marked(new) = Marked(list) \ {p}
    <3>1. Flagged(list)
      BY DEF ProducersFollow
    <3> HIDE DEF new
    <3> QED
      BY ONLY <2>1, <3>1, PutLive
  <2> HIDE DEF new
  <2>3. \A q \in DOMAIN new : q \in 1..n
    BY <1>0, <2>2 DEF ProducersFollow
  <2>4. \A q \in Marked(new) : q \notin DOMAIN P
    BY <2>2 DEF ProducersFollow
  <2>5. \A q \in Live(new) : q = p \/ (q \in Live(list) /\ new[q] = list[q])
    BY <1>6, <2>2
  <2>6. \A q \in Live(new) :
          \/ q \in DOMAIN P /\ new[q].info = P[q]
          \/ q \notin DOMAIN P /\ \E i \in DOMAIN rest : Of(rest[i], "PRODUCER_DELETED", q)
    BY <1>2, <1>6, <2>2, <2>5 DEF ProducersFollow
  <2>7. \A x \in DOMAIN P : x \in Live(new) \/ \E i \in DOMAIN rest : Of(rest[i], "PRODUCER_ADDED", x)
    BY <1>3, <2>2
  <2>8. \A x \in DOMAIN P, q \in Live(new), i \in DOMAIN rest :
          q # x /\ new[q].info = P[x] /\ Of(rest[i], "PRODUCER_ADDED", x)
            => \E j \in DOMAIN rest : j < i /\ Of(rest[j], "PRODUCER_DELETED", q)
    BY <1>4, <1>6, <2>2, <2>5
  <2> QED
    BY <2>2, <2>3, <2>4, <2>6, <2>7, <2>8 DEF ProducersFollow, p, new
<1> QED
  BY <1>5, <1>6 DEF p

-----------------------------------------------------------------------------
(* Generations.                                                             *)

GenerationsCall(G, n, H, m, E) ==
  /\ n \in Nat /\ m \in Nat /\ n <= m
  /\ DOMAIN G \subseteq 1..n /\ DOMAIN H \subseteq 1..m
  /\ \A g \in DOMAIN G :
       IF g \in DOMAIN H
         THEN /\ H[g].producer = G[g].producer /\ H[g].name = G[g].name
              /\ H[g].status = G[g].status \/ \E e \in E : StatusChanged(e, g, H[g].status)
         ELSE \E e \in E : OwnerGone(e, G[g].producer, g)
  /\ \A g \in DOMAIN H \ DOMAIN G : g > n /\ \E e \in E : Of(e, "GENERATION_ADDED", g)
  /\ \A e \in E :
       /\ e.type = "GENERATION_DELETED" => e.id1 \in 1..m \ DOMAIN H
       /\ e.type = "GENERATION_STATUS_CHANGED" =>
            e.id1 \in 1..m /\ (e.id1 \in DOMAIN H => e.id2 = H[e.id1].status)
       /\ \A g \in DOMAIN H : ~Of(e, "GENERATION_LIST_DELETED_BY_PRODUCER_ID", H[g].producer)

LEMMA GenerationsBack ==
  ASSUME NEW G, NEW n, NEW H, NEW m, NEW E, GenerationsCall(G, n, H, m, E)
  PROVE  \A g \in 1..n : g \in 1..m /\ (g \in DOMAIN H => g \in DOMAIN G)
BY DEF GenerationsCall

LEMMA GenerationsToldStep ==
  ASSUME NEW G, NEW n, NEW H, NEW m, NEW E, NEW log, NEW new,
         GenerationsCall(G, n, H, m, E), Grown(log, new, E), GenerationsTold(G, n, log)
  PROVE  GenerationsTold(H, m, new)
<1> USE GenerationsBack
<1>1. ASSUME NEW i \in DOMAIN log
      PROVE  /\ new[i] = log[i]
             /\ log[i].type = "GENERATION_DELETED" => log[i].id1 \in 1..m \ DOMAIN H
             /\ log[i].type = "GENERATION_STATUS_CHANGED" => log[i].id1 \in 1..m
  BY DEF Grown, GenerationsTold
<1>2. ASSUME NEW i \in DOMAIN new, new[i] \in E
      PROVE  /\ new[i].type = "GENERATION_DELETED" => new[i].id1 \in 1..m \ DOMAIN H
             /\ new[i].type = "GENERATION_STATUS_CHANGED" => new[i].id1 \in 1..m
  BY <1>2 DEF GenerationsCall
<1>3. ASSUME NEW i \in DOMAIN new, NEW g \in DOMAIN H,
             Of(new[i], "GENERATION_LIST_DELETED_BY_PRODUCER_ID", H[g].producer)
      PROVE  \E j \in DOMAIN new : j > i /\ Of(new[j], "GENERATION_ADDED", g)
  <2>1. i \in DOMAIN log /\ new[i] = log[i]
    BY <1>3 DEF Grown, GenerationsCall
  <2>2. CASE g \in DOMAIN G
    <3>1. G[g].producer = H[g].producer
      BY <2>2 DEF GenerationsCall
    <3>2. \E j \in DOMAIN log : j > i /\ Of(log[j], "GENERATION_ADDED", g)
      BY <1>3, <2>1, <2>2, <3>1 DEF GenerationsTold
    <3> QED
      BY <3>2 DEF Grown
  <2>3. CASE g \notin DOMAIN G
    <3>1. PICK e \in E : Of(e, "GENERATION_ADDED", g)
      BY <2>3 DEF GenerationsCall
    <3>2. PICK j \in DOMAIN new \ DOMAIN log : new[j] = e
      BY <3>1 DEF Grown
    <3> QED
      BY <2>1, <3>1, <3>2 DEF Grown
  <2> QED
    BY <2>2, <2>3
<1>4. ASSUME NEW i \in DOMAIN new, NEW g \in DOMAIN H,
             Of(new[i], "GENERATION_STATUS_CHANGED", g)
      PROVE  \E j \in DOMAIN new : j >= i /\ StatusChanged(new[j], g, H[g].status)
  <2>1. CASE i \in DOMAIN log
    <3>1. new[i] = log[i] /\ g \in 1..n
      BY <1>4, <2>1 DEF Grown, GenerationsTold, Of
    <3>2. g \in DOMAIN G
      BY <3>1
    <3>3. CASE H[g].status = G[g].status
      <4>1. \E j \in DOMAIN log : j >= i /\ StatusChanged(log[j], g, H[g].status)
        BY <1>4, <2>1, <3>1, <3>2, <3>3 DEF GenerationsTold
      <4> QED
        BY <4>1 DEF Grown
    <3>4. CASE \E e \in E : StatusChanged(e, g, H[g].status)
      <4>1. PICK e \in E : StatusChanged(e, g, H[g].status)
        BY <3>4
      <4>2. PICK j \in DOMAIN new \ DOMAIN log : new[j] = e
        BY DEF Grown
      <4>3. j > i /\ j \in Int /\ i \in Int
        BY <2>1 DEF Grown
      <4> QED
        BY <4>1, <4>2, <4>3
    <3> QED
      BY <3>2, <3>3, <3>4 DEF GenerationsCall
  <2>2. CASE i \notin DOMAIN log
    <3>1. new[i] \in E /\ i >= i
      BY <2>2 DEF Grown
    <3>2. StatusChanged(new[i], g, H[g].status)
      BY <1>4, <3>1 DEF GenerationsCall, StatusChanged, Of
    <3> QED
      BY <3>1, <3>2
  <2> QED
    BY <2>1, <2>2
<1> QED
  BY <1>1, <1>2, <1>3, <1>4 DEF GenerationsTold, Grown

LEMMA GenerationsFollowStep ==
  ASSUME NEW list, NEW G, NEW n, NEW H, NEW m, NEW E, NEW except, NEW log, NEW new,
         GenerationsCall(G, n, H, m, E), Grown(log, new, E),
         GenerationsFollow(list, G, n, except, log)
  PROVE  GenerationsFollow(list, H, m, except, new)
<1> USE GenerationsBack
<1>1. Flagged(list) /\ \A g \in DOMAIN list : g \in 1..m /\ IsGeneration(list[g].info)
  BY DEF GenerationsFollow
<1>2. \A g \in Marked(list) : g \notin DOMAIN H
  BY DEF GenerationsFollow, Marked
<1>3. ASSUME NEW g \in Live(list), g \in DOMAIN H
      PROVE  /\ list[g].info.producer = H[g].producer /\ list[g].info.name = H[g].name
             /\ \/ list[g].info.status = H[g].status
                \/ \E i \in DOMAIN new : StatusChanged(new[i], g, H[g].status)
  <2>1. g \in DOMAIN G
    BY <1>3 DEF GenerationsFollow, Live
  <2>2. /\ H[g].producer = G[g].producer /\ H[g].name = G[g].name
        /\ H[g].status = G[g].status \/ \E e \in E : StatusChanged(e, g, H[g].status)
    BY <1>3, <2>1 DEF GenerationsCall
  <2>3. /\ list[g].info.producer = G[g].producer /\ list[g].info.name = G[g].name
        /\ \/ list[g].info.status = G[g].status
           \/ \E i \in DOMAIN log : StatusChanged(log[i], g, G[g].status)
    BY <2>1 DEF GenerationsFollow
  <2>4. CASE H[g].status = G[g].status
    BY <2>2, <2>3, <2>4 DEF Grown
  <2>5. CASE \E e \in E : StatusChanged(e, g, H[g].status)
    BY <2>2, <2>3, <2>5 DEF Grown
  <2> QED
    BY <2>2, <2>4, <2>5
<1>4. ASSUME NEW g \in Live(list), g \notin DOMAIN H
      PROVE  \E i \in DOMAIN new : OwnerGone(new[i], list[g].info.producer, g)
  <2>1. CASE g \in DOMAIN G
    BY <1>4, <2>1 DEF GenerationsFollow, GenerationsCall, Grown
  <2>2. CASE g \notin DOMAIN G
    BY <2>2 DEF GenerationsFollow, Grown
  <2> QED
    BY <2>1, <2>2
<1>5. ASSUME NEW g \in DOMAIN H \ except, g \notin Live(list)
      PROVE  \E i \in DOMAIN new : Of(new[i], "GENERATION_ADDED", g)
  <2>1. CASE g \in DOMAIN G
    BY <1>5, <2>1 DEF GenerationsFollow, Grown
  <2>2. CASE g \notin DOMAIN G
    BY <2>2 DEF GenerationsCall, Grown
  <2> QED
    BY <2>1, <2>2
<1> QED
  BY <1>1, <1>2, <1>3, <1>4, <1>5 DEF GenerationsFollow

\* The generations belong to producers.
HaveProducers(G, P) == \A g \in DOMAIN G : G[g].producer \in DOMAIN P

LEMMA GenerationsLost ==
  ASSUME NEW list, NEW lost, NEW P, NEW np, NEW G, NEW n, NEW except, NEW log, NEW m, NEW rest,
         NEW K, NEW M,
         Cut(log, m, rest), ProducersTold(P, np, log), GenerationsTold(G, n, log),
         HaveProducers(G, P), GenerationsFollow(list, G, n, except, log),
         log[m].type \notin {"GENERATION_ADDED", "GENERATION_STATUS_CHANGED"},
         Loses(lost, list, K, M),
         \A g \in DOMAIN list : g \in K <=> OwnerGone(log[m], list[g].info.producer, g),
         \A g \in M : g \in DOMAIN list /\ Of(log[m], "PRODUCER_DELETED", list[g].info.producer)
  PROVE  GenerationsFollow(lost, G, n, except, rest)
<1> USE LiveIs
<1>1. Flagged(lost) /\ \A g \in DOMAIN lost : g \in 1..n /\ IsGeneration(lost[g].info)
  BY DEF GenerationsFollow, Loses
<1>2. ASSUME NEW g \in DOMAIN list, Of(log[m], "PRODUCER_DELETED", list[g].info.producer)
      PROVE  g \notin DOMAIN G
  <2>1. list[g].info.producer \notin DOMAIN P
    BY <1>2 DEF Cut, ProducersTold, Of
  <2>2. g \in Live(list) /\ g \in DOMAIN G => list[g].info.producer = G[g].producer
    BY DEF GenerationsFollow
  <2>3. g \in Marked(list) => g \notin DOMAIN G
    BY DEF GenerationsFollow
  <2> QED
    BY <2>1, <2>2, <2>3 DEF HaveProducers
<1>3. \A g \in Marked(lost) : g \notin DOMAIN G
  BY <1>2 DEF GenerationsFollow, Loses
<1>4. \A g \in Live(lost) : g \in Live(list) /\ g \notin K /\ lost[g].info = list[g].info
  BY DEF Loses
<1>5. ASSUME NEW g \in Live(lost), g \in DOMAIN G
      PROVE  /\ lost[g].info.producer = G[g].producer /\ lost[g].info.name = G[g].name
             /\ \/ lost[g].info.status = G[g].status
                \/ \E i \in DOMAIN rest : StatusChanged(rest[i], g, G[g].status)
  <2>1. /\ list[g].info.producer = G[g].producer /\ list[g].info.name = G[g].name
        /\ \/ list[g].info.status = G[g].status
           \/ \E i \in DOMAIN log : StatusChanged(log[i], g, G[g].status)
    BY <1>4, <1>5 DEF GenerationsFollow
  <2>2. ASSUME NEW i \in DOMAIN log, StatusChanged(log[i], g, G[g].status)
        PROVE  i \in DOMAIN rest /\ rest[i] = log[i]
    BY <2>2 DEF Cut, StatusChanged, Of
  <2> QED
    BY <1>4, <2>1, <2>2
<1>6. ASSUME NEW g \in Live(lost), g \notin DOMAIN G
      PROVE  \E i \in DOMAIN rest : OwnerGone(rest[i], lost[g].info.producer, g)
  <2>1. PICK i \in DOMAIN log : OwnerGone(log[i], list[g].info.producer, g)
    BY <1>4, <1>6 DEF GenerationsFollow
  <2>2. i # m
    BY <1>4, <2>1
  <2> QED
    BY <1>4, <2>1, <2>2 DEF Cut
<1>7. ASSUME NEW g \in DOMAIN G \ except, g \notin Live(lost)
      PROVE  \E i \in DOMAIN rest : Of(rest[i], "GENERATION_ADDED", g)
  <2>1. CASE g \in Live(list)
    <3>1. OwnerGone(log[m], G[g].producer, g)
      BY <1>7, <2>1 DEF Loses, GenerationsFollow
    <3>2. G[g].producer \in DOMAIN P /\ m \in DOMAIN log
      BY DEF HaveProducers, Cut
    <3>3. Of(log[m], "GENERATION_LIST_DELETED_BY_PRODUCER_ID", G[g].producer)
      BY <3>1, <3>2 DEF OwnerGone, Of, ProducersTold, GenerationsTold
    <3>4. \E j \in DOMAIN log : j > m /\ Of(log[j], "GENERATION_ADDED", g)
      BY <3>2, <3>3 DEF GenerationsTold
    <3> QED
      BY <3>4 DEF Cut
  <2>2. CASE g \notin Live(list)
    <3>1. PICK i \in DOMAIN log : Of(log[i], "GENERATION_ADDED", g)
      BY <2>2 DEF GenerationsFollow
    <3>2. i # m
      BY <3>1 DEF Of
    <3> QED
      BY <3>1, <3>2 DEF Cut
  <2> QED
    BY <2>1, <2>2
<1> QED
  BY <1>1, <1>3, <1>5, <1>6, <1>7 DEF GenerationsFollow

\* The status of a record is set.
StatusSet(new, list, k, status) ==
  /\ Flagged(new)
  /\ DOMAIN new = DOMAIN list
  /\ \A x \in DOMAIN list : x # k => new[x] = list[x]
  /\ new[k].info = [list[k].info EXCEPT !.status = status]
  /\ Live(new) = Live(list)

\* What the two handlers that read a generation do: nothing, because there is no such
\* generation, it is live already or cannot be read, or they add it, or set its status.
LEMMA GenerationRead ==
  ASSUME NEW list, NEW new, NEW G, NEW n, NEW except, NEW unable, NEW log, NEW m, NEW rest, NEW g,
         Cut(log, m, rest), GenerationsTold(G, n, log),
         GenerationsFollow(list, G, n, except, log),
         DOMAIN G \subseteq 1..n,
         log[m].type \in {"GENERATION_ADDED", "GENERATION_STATUS_CHANGED"}, log[m].id1 = g,
         except \ {g} \subseteq unable,
         \/ /\ new = list
            /\ \/ log[m].type = "GENERATION_ADDED" /\ g \in Live(list)
               \/ g \notin Live(list) /\ (g \notin DOMAIN G \/ g \in unable)
         \/ /\ g \in DOMAIN G /\ g \notin Live(list)
            /\ \E info : /\ IsGeneration(info)
                         /\ info.producer = G[g].producer /\ info.name = G[g].name
                         /\ \/ info.status = G[g].status
                            \/ log[m].type = "GENERATION_STATUS_CHANGED" /\ info.status = log[m].id2
                         /\ new = Put(list, g, Unmarked(info))
         \/ /\ log[m].type = "GENERATION_STATUS_CHANGED" /\ g \in Live(list)
            /\ StatusSet(new, list, g, log[m].id2)
  PROVE  GenerationsFollow(new, G, n, unable, rest)
<1> USE LiveIs
<1>1. ASSUME NEW i \in DOMAIN log, NEW q, NEW x,
             OwnerGone(log[i], q, x) \/ (Of(log[i], "GENERATION_ADDED", x) /\ x # g)
               \/ (StatusChanged(log[i], x, q) /\ x # g)
      PROVE  i \in DOMAIN rest /\ rest[i] = log[i]
  <2>1. i # m
    BY <1>1 DEF OwnerGone, Of, StatusChanged
  <2> QED
    BY <2>1 DEF Cut
<1>2. log[m].type = "GENERATION_STATUS_CHANGED" /\ g \in DOMAIN G =>
        \/ log[m].id2 = G[g].status
        \/ \E i \in DOMAIN rest : StatusChanged(rest[i], g, G[g].status)
  <2> SUFFICES ASSUME log[m].type = "GENERATION_STATUS_CHANGED", g \in DOMAIN G
               PROVE  \/ log[m].id2 = G[g].status
                      \/ \E i \in DOMAIN rest : StatusChanged(rest[i], g, G[g].status)
    OBVIOUS
  <2>1. PICK j \in DOMAIN log : j >= m /\ StatusChanged(log[j], g, G[g].status)
    BY DEF GenerationsTold, Cut, Of
  <2>2. CASE j = m
    BY <2>1, <2>2 DEF StatusChanged
  <2>3. CASE j # m
    BY <2>1, <2>3 DEF Cut
  <2> QED
    BY <2>2, <2>3
<1>3. \A x \in Live(list) : x # g =>
        IF x \in DOMAIN G
          THEN /\ list[x].info.producer = G[x].producer /\ list[x].info.name = G[x].name
               /\ \/ list[x].info.status = G[x].status
                  \/ \E i \in DOMAIN rest : StatusChanged(rest[i], x, G[x].status)
          ELSE \E i \in DOMAIN rest : OwnerGone(rest[i], list[x].info.producer, x)
  <2> SUFFICES ASSUME NEW x \in Live(list), x # g
               PROVE  IF x \in DOMAIN G
                        THEN /\ list[x].info.producer = G[x].producer /\ list[x].info.name = G[x].name
                             /\ \/ list[x].info.status = G[x].status
                                \/ \E i \in DOMAIN rest : StatusChanged(rest[i], x, G[x].status)
                        ELSE \E i \in DOMAIN rest : OwnerGone(rest[i], list[x].info.producer, x)
    OBVIOUS
  <2>1. CASE x \in DOMAIN G
    <3>1. /\ list[x].info.producer = G[x].producer /\ list[x].info.name = G[x].name
          /\ \/ list[x].info.status = G[x].status
             \/ \E i \in DOMAIN log : StatusChanged(log[i], x, G[x].status)
      BY <2>1 DEF GenerationsFollow
    <3> QED
      BY <1>1, <2>1, <3>1
  <2>2. CASE x \notin DOMAIN G
    <3>1. \E i \in DOMAIN log : OwnerGone(log[i], list[x].info.producer, x)
      BY <2>2 DEF GenerationsFollow
    <3> QED
      BY <1>1, <2>2, <3>1
  <2> QED
    BY <2>1, <2>2
<1>4. \A x \in DOMAIN G \ unable : x # g =>
        x \in Live(list) \/ \E i \in DOMAIN rest : Of(rest[i], "GENERATION_ADDED", x)
  <2> SUFFICES ASSUME NEW x \in DOMAIN G \ unable, x # g, x \notin Live(list)
               PROVE  \E i \in DOMAIN rest : Of(rest[i], "GENERATION_ADDED", x)
    OBVIOUS
  <2>1. \E i \in DOMAIN log : Of(log[i], "GENERATION_ADDED", x)
    BY DEF GenerationsFollow
  <2> QED
    BY <1>1, <2>1
<1>5. g \in Live(list) /\ g \in DOMAIN G =>
        list[g].info.producer = G[g].producer /\ list[g].info.name = G[g].name
  BY DEF GenerationsFollow
<1>6. g \in Live(list) /\ g \notin DOMAIN G =>
        \E i \in DOMAIN rest : OwnerGone(rest[i], list[g].info.producer, g)
  <2> SUFFICES ASSUME g \in Live(list), g \notin DOMAIN G
               PROVE  \E i \in DOMAIN rest : OwnerGone(rest[i], list[g].info.producer, g)
    OBVIOUS
  <2>1. \E i \in DOMAIN log : OwnerGone(log[i], list[g].info.producer, g)
    BY DEF GenerationsFollow
  <2> QED
    BY <1>1, <2>1
<1>7. /\ Flagged(list) /\ \A x \in DOMAIN list : x \in 1..n /\ IsGeneration(list[x].info)
      /\ \A x \in Marked(list) : x \notin DOMAIN G
  BY DEF GenerationsFollow
<1>8. CASE /\ new = list
           /\ \/ log[m].type = "GENERATION_ADDED" /\ g \in Live(list)
              \/ g \notin Live(list) /\ (g \notin DOMAIN G \/ g \in unable)
  <2>1. g \in Live(list) /\ g \in DOMAIN G =>
          \/ list[g].info.status = G[g].status
          \/ \E i \in DOMAIN rest : StatusChanged(rest[i], g, G[g].status)
    <3> SUFFICES ASSUME g \in Live(list), g \in DOMAIN G, list[g].info.status # G[g].status
                 PROVE  \E i \in DOMAIN rest : StatusChanged(rest[i], g, G[g].status)
      OBVIOUS
    <3>1. PICK i \in DOMAIN log : StatusChanged(log[i], g, G[g].status)
      BY DEF GenerationsFollow
    <3>2. i # m
      BY <1>8, <3>1 DEF StatusChanged, Of
    <3> QED
      BY <3>1, <3>2 DEF Cut
  <2>2. \A x \in Live(list) :
          IF x \in DOMAIN G
            THEN /\ list[x].info.producer = G[x].producer /\ list[x].info.name = G[x].name
                 /\ \/ list[x].info.status = G[x].status
                    \/ \E i \in DOMAIN rest : StatusChanged(rest[i], x, G[x].status)
            ELSE \E i \in DOMAIN rest : OwnerGone(rest[i], list[x].info.producer, x)
    BY <1>3, <1>5, <1>6, <2>1
  <2>3. \A x \in DOMAIN G \ unable :
          x \in Live(list) \/ \E i \in DOMAIN rest : Of(rest[i], "GENERATION_ADDED", x)
    BY <1>4, <1>8
  <2>4. GenerationsFollow(list, G, n, unable, rest)
    BY <1>7, <2>2, <2>3 DEF GenerationsFollow
  <2> QED
    BY <1>8, <2>4
<1>9. ASSUME g \in DOMAIN G, g \notin Live(list), NEW info, IsGeneration(info),
             info.producer = G[g].producer, info.name = G[g].name,
             \/ info.status = G[g].status
             \/ log[m].type = "GENERATION_STATUS_CHANGED" /\ info.status = log[m].id2,
             new = Put(list, g, Unmarked(info))
      PROVE  GenerationsFollow(new, G, n, unable, rest)
  <2>1. /\ Flagged(new) /\ DOMAIN new = DOMAIN list \cup {g} /\ new[g].info = info
        /\ \A x \in DOMAIN list : x # g => new[x] = list[x]
        /\ Live(new) = Live(list) \cup {g} /\ Marked(new) = Marked(list) \ {g}
    <3>1. Flagged(list) /\ new = Put(list, g, Unmarked(info))
      BY <1>7, <1>9
    <3>2. /\ DOMAIN new = DOMAIN list \cup {g} /\ new[g] = [info |-> info, deleted |-> FALSE]
          /\ \A x \in DOMAIN list : x # g => new[x] = list[x]
      BY ONLY <3>1 DEF Put, Unmarked
    <3>3. Flagged(new) /\ Live(new) = Live(list) \cup {g} /\ Marked(new) = Marked(list) \ {g}
      BY ONLY <3>1, PutLive
    <3> QED
      BY <3>2, <3>3
  <2>2. \A x \in DOMAIN new : x \in 1..n /\ IsGeneration(new[x].info)
    BY <1>7, <1>9, <2>1
  <2>3. info.status = G[g].status \/ \E i \in DOMAIN rest : StatusChanged(rest[i], g, G[g].status)
    BY <1>2, <1>9
  <2>4. \A x \in Live(new) :
          IF x \in DOMAIN G
            THEN /\ new[x].info.producer = G[x].producer /\ new[x].info.name = G[x].name
                 /\ \/ new[x].info.status = G[x].status
                    \/ \E i \in DOMAIN rest : StatusChanged(rest[i], x, G[x].status)
            ELSE \E i \in DOMAIN rest : OwnerGone(rest[i], new[x].info.producer, x)
    <3>1. \A x \in Live(new) : x = g \/ (x # g /\ x \in Live(list) /\ new[x] = list[x])
      BY <2>1
    <3> QED
      BY <1>3, <1>9, <2>1, <2>3, <3>1
  <2> QED
    BY <1>4, <1>7, <2>1, <2>2, <2>4 DEF GenerationsFollow
<1>10. CASE /\ log[m].type = "GENERATION_STATUS_CHANGED" /\ g \in Live(list)
            /\ StatusSet(new, list, g, log[m].id2)
  <2>1. IsGeneration(list[g].info) /\ g \in DOMAIN list
    BY <1>7, <1>10
  <2>2. /\ IsGeneration(new[g].info)
        /\ new[g].info.producer = list[g].info.producer /\ new[g].info.name = list[g].info.name
        /\ new[g].info.status = log[m].id2
    BY <1>10, <2>1 DEF StatusSet, IsGeneration
  <2>3. \A x \in DOMAIN new : x \in 1..n /\ IsGeneration(new[x].info)
    BY <1>7, <1>10, <2>2 DEF StatusSet
  <2>4. /\ Flagged(new) /\ Live(new) = Live(list) /\ Marked(new) = Marked(list)
        /\ \A x \in Live(list) : x # g => new[x] = list[x]
    BY <1>10 DEF StatusSet
  <2>5. \A x \in Live(new) :
          IF x \in DOMAIN G
            THEN /\ new[x].info.producer = G[x].producer /\ new[x].info.name = G[x].name
                 /\ \/ new[x].info.status = G[x].status
                    \/ \E i \in DOMAIN rest : StatusChanged(rest[i], x, G[x].status)
            ELSE \E i \in DOMAIN rest : OwnerGone(rest[i], new[x].info.producer, x)
    BY <1>2, <1>3, <1>5, <1>6, <1>10, <2>2, <2>4
  <2>6. \A x \in DOMAIN G \ unable :
          x \in Live(new) \/ \E i \in DOMAIN rest : Of(rest[i], "GENERATION_ADDED", x)
    BY <1>4, <1>10, <2>4
  <2> QED
    BY <1>7, <2>3, <2>4, <2>5, <2>6 DEF GenerationsFollow
<1> QED
  BY <1>8, <1>9, <1>10

-----------------------------------------------------------------------------
(* Geometries.                                                              *)

\* The geometries belong to generations, and no two of them have a key.
GeometriesOwned(Y, G) ==
  /\ \A y \in Y : /\ IsGeometry(y) /\ y.generation \in DOMAIN G
                  /\ y.producer = G[y.generation].producer
  /\ \A x, y \in Y : GeometryKey(x) = GeometryKey(y) => x = y

HaveKey(Y, k) == \E y \in Y : GeometryKey(y) = k

GeometriesCall(Y, G, Z, H, E) ==
  /\ GeometriesOwned(Y, G) /\ GeometriesOwned(Z, H)
  /\ \A y \in Y : ~HaveKey(Z, GeometryKey(y)) =>
       \E e \in E : GeometryGone(e, GeometryKey(y), y.producer)
  /\ \A z \in Z : ~HaveKey(Y, GeometryKey(z)) =>
       \E e \in E : GeometryTold(e, "GEOMETRY_ADDED", GeometryKey(z))
  /\ \A y \in Y, z \in Z : GeometryKey(y) = GeometryKey(z) =>
       y.status = z.status \/ \E e \in E : StatusSettled(e, z)
  /\ \A e \in E, z \in Z : ~GeometryGone(e, GeometryKey(z), z.producer)
  /\ \A e \in E : e.type = "GEOMETRY_STATUS_CHANGED" =>
       \E z \in Z : GeometryKey(z) = EventGeometry(e) /\ e.flags = z.status

LEMMA GeometryKeyIs == ASSUME NEW y, NEW k, GeometryKey(y) = k PROVE k[1] = y.generation
BY DEF GeometryKey

LEMMA SettledSame ==
  ASSUME NEW e, NEW y, NEW z, GeometryKey(y) = GeometryKey(z), y.producer = z.producer,
         y.status = z.status, StatusSettled(e, y)
  PROVE  StatusSettled(e, z)
BY DEF StatusSettled

\* The geometries under a key belong to one producer before and after a call.
LEMMA GeometriesBack ==
  ASSUME NEW Y, NEW G, NEW Z, NEW H, NEW n, NEW m, NEW E,
         GenerationsCall(G, n, H, m, E), GeometriesCall(Y, G, Z, H, E)
  PROVE  /\ \A y \in Y, z \in Z : GeometryKey(y) = GeometryKey(z) => y.producer = z.producer
         /\ \A z \in Z : z.generation \in 1..n =>
              z.generation \in DOMAIN G /\ G[z.generation].producer = z.producer
         /\ \A z \in Z : z.generation \in 1..m
<1>1. \A z \in Z : z.generation \in DOMAIN H /\ z.producer = H[z.generation].producer
  BY DEF GeometriesCall, GeometriesOwned
<1>2. \A y \in Y : y.generation \in DOMAIN G /\ y.producer = G[y.generation].producer
  BY DEF GeometriesCall, GeometriesOwned
<1>3. \A g \in DOMAIN G : g \in DOMAIN H => H[g].producer = G[g].producer
  BY DEF GenerationsCall
<1>4. \A g \in 1..n : g \in DOMAIN H => g \in DOMAIN G
  BY GenerationsBack
<1>5. \A y \in Y, z \in Z : GeometryKey(y) = GeometryKey(z) => y.generation = z.generation
  BY GeometryKeyIs
<1>6. DOMAIN H \subseteq 1..m
  BY DEF GenerationsCall
<1> QED
  BY <1>1, <1>2, <1>3, <1>4, <1>5, <1>6

LEMMA GeometriesToldStep ==
  ASSUME NEW Y, NEW G, NEW Z, NEW H, NEW n, NEW m, NEW E, NEW log, NEW new,
         GenerationsCall(G, n, H, m, E), GeometriesCall(Y, G, Z, H, E), Grown(log, new, E),
         GeometriesTold(Y, G, n, log)
  PROVE  GeometriesTold(Z, H, m, new)
<1>0. \A i \in DOMAIN log : i \in DOMAIN new /\ new[i] = log[i] /\ i \in Int
  BY DEF Grown
<1>1. ASSUME NEW i \in DOMAIN log, NEW e \in E
      PROVE  \E j \in DOMAIN new : j > i /\ new[j] = e
  <2>1. PICK j \in DOMAIN new \ DOMAIN log : new[j] = e
    BY DEF Grown
  <2>2. i < j /\ i \in Int /\ j \in Int
    BY <1>0, <2>1 DEF Grown
  <2> QED
    BY <2>1, <2>2
<1>2. ASSUME NEW i \in DOMAIN new, NEW z \in Z, GeometryGone(new[i], GeometryKey(z), z.producer)
      PROVE  \E j \in DOMAIN new : j > i /\ GeometryTold(new[j], "GEOMETRY_ADDED", GeometryKey(z))
  <2>1. i \in DOMAIN log
    BY <1>2 DEF Grown, GeometriesCall
  <2>2. ASSUME NEW y \in Y, GeometryKey(y) = GeometryKey(z)
        PROVE  \E j \in DOMAIN log : j > i /\ GeometryTold(log[j], "GEOMETRY_ADDED", GeometryKey(z))
    <3>1. GeometryGone(log[i], GeometryKey(y), y.producer)
      BY <1>0, <1>2, <2>1, <2>2, GeometriesBack
    <3> QED
      BY <2>1, <2>2, <3>1 DEF GeometriesTold
  <2>3. CASE HaveKey(Y, GeometryKey(z))
    BY <1>0, <2>2, <2>3 DEF HaveKey
  <2>4. CASE ~HaveKey(Y, GeometryKey(z))
    <3>1. PICK e \in E : GeometryTold(e, "GEOMETRY_ADDED", GeometryKey(z))
      BY <2>4 DEF GeometriesCall
    <3> QED
      BY <1>1, <2>1, <3>1
  <2> QED
    BY <2>3, <2>4
<1>3. ASSUME NEW i \in DOMAIN log, log[i].type = "GEOMETRY_STATUS_CHANGED",
             EventGeometry(log[i])[1] \in DOMAIN H
      PROVE  LET k == EventGeometry(log[i])
             IN /\ k[1] \in DOMAIN G /\ G[k[1]].producer = H[k[1]].producer
                /\ ~HaveKey(Y, k) =>
                     \E j \in DOMAIN log : j > i /\ GeometryGone(log[j], k, H[k[1]].producer)
  <2> DEFINE k == EventGeometry(log[i])
  <2>1. k[1] \in 1..n
    BY <1>3 DEF GeometriesTold
  <2>2. k[1] \in DOMAIN G
    BY <1>3, <2>1, GenerationsBack
  <2>3. G[k[1]].producer = H[k[1]].producer
    BY <1>3, <2>2 DEF GenerationsCall
  <2>4. ~HaveKey(Y, k) =>
          \E j \in DOMAIN log : j > i /\ GeometryGone(log[j], k, G[k[1]].producer)
    BY <1>3, <2>2 DEF GeometriesTold, HaveKey
  <2> QED
    BY <2>2, <2>3, <2>4
<1>4. ASSUME NEW i \in DOMAIN new, NEW z \in Z,
             GeometryTold(new[i], "GEOMETRY_STATUS_CHANGED", GeometryKey(z))
      PROVE  \E j \in DOMAIN new : j >= i /\ StatusSettled(new[j], z)
  <2>1. CASE i \in DOMAIN log
    <3>0. /\ new[i] = log[i] /\ log[i].type = "GEOMETRY_STATUS_CHANGED"
          /\ EventGeometry(log[i]) = GeometryKey(z)
      BY <1>0, <1>4, <2>1 DEF GeometryTold
    <3>1. GeometryKey(z)[1] = z.generation /\ z.generation \in DOMAIN H
          /\ z.producer = H[z.generation].producer
      BY GeometryKeyIs DEF GeometriesCall, GeometriesOwned
    <3>2. ASSUME NEW y \in Y, GeometryKey(y) = GeometryKey(z)
          PROVE  \E j \in DOMAIN new : j >= i /\ StatusSettled(new[j], z)
      <4>1. y.status = z.status \/ \E e \in E : StatusSettled(e, z)
        BY <3>2 DEF GeometriesCall
      <4>2. CASE y.status = z.status
        <5>1. PICK j \in DOMAIN log : j >= i /\ StatusSettled(log[j], y)
          BY <1>4, <2>1, <3>0, <3>2 DEF GeometriesTold, GeometryTold
        <5>2. y.producer = z.producer
          BY <3>2, GeometriesBack
        <5>3. StatusSettled(log[j], z)
          BY <3>2, <4>2, <5>1, <5>2, SettledSame
        <5> QED
          BY <1>0, <5>1, <5>3
      <4>3. CASE \E e \in E : StatusSettled(e, z)
        <5>1. PICK j \in DOMAIN new : j > i /\ StatusSettled(new[j], z)
          BY <1>1, <2>1, <4>3
        <5>2. i \in Int /\ j \in Int
          BY <1>0, <2>1 DEF Grown
        <5> QED
          BY <5>1, <5>2
      <4> QED
        BY <4>1, <4>2, <4>3
    <3>3. CASE ~HaveKey(Y, GeometryKey(z))
      <4>1. PICK j \in DOMAIN log : j > i /\ GeometryGone(log[j], GeometryKey(z), z.producer)
        BY <1>3, <2>1, <3>0, <3>1, <3>3
      <4>2. i \in Int /\ j \in Int
        BY <1>0, <2>1
      <4> QED
        BY <1>0, <4>1, <4>2 DEF StatusSettled
    <3> QED
      BY <3>2, <3>3 DEF HaveKey
  <2>2. CASE i \notin DOMAIN log
    <3>1. new[i] \in E /\ i \in Int
      BY <2>2 DEF Grown
    <3>2. PICK x \in Z : GeometryKey(x) = GeometryKey(z) /\ new[i].flags = x.status
      BY <1>4, <3>1 DEF GeometriesCall, GeometryTold
    <3>3. x = z
      BY <3>2 DEF GeometriesCall, GeometriesOwned
    <3>4. StatusSettled(new[i], z) /\ i >= i
      BY <1>4, <3>1, <3>2, <3>3 DEF StatusSettled
    <3> QED
      BY <3>4
  <2> QED
    BY <2>1, <2>2
<1>5. ASSUME NEW i \in DOMAIN new, new[i].type = "GEOMETRY_STATUS_CHANGED"
      PROVE  LET k == EventGeometry(new[i])
             IN /\ k[1] \in 1..m
                /\ k[1] \in DOMAIN H /\ ~HaveKey(Z, k) =>
                     \E j \in DOMAIN new : j > i /\ GeometryGone(new[j], k, H[k[1]].producer)
  <2> DEFINE k == EventGeometry(new[i])
  <2>1. CASE i \in DOMAIN log
    <3>0. k = EventGeometry(log[i]) /\ log[i].type = "GEOMETRY_STATUS_CHANGED"
      BY <1>0, <1>5, <2>1
    <3> HIDE DEF k
    <3>1. k[1] \in 1..m
      <4>1. k[1] \in 1..n
        BY <2>1, <3>0 DEF GeometriesTold
      <4> QED
        BY <4>1, GenerationsBack
    <3>2. ASSUME k[1] \in DOMAIN H, ~HaveKey(Z, k)
          PROVE  \E j \in DOMAIN new : j > i /\ GeometryGone(new[j], k, H[k[1]].producer)
      <4>0. /\ k[1] \in DOMAIN G /\ G[k[1]].producer = H[k[1]].producer
            /\ ~HaveKey(Y, k) =>
                 \E j \in DOMAIN log : j > i /\ GeometryGone(log[j], k, H[k[1]].producer)
        BY <1>3, <2>1, <3>0, <3>2
      <4>1. CASE ~HaveKey(Y, k)
        BY <1>0, <4>0, <4>1
      <4>2. ASSUME NEW y \in Y, GeometryKey(y) = k
            PROVE  \E j \in DOMAIN new : j > i /\ GeometryGone(new[j], k, H[k[1]].producer)
        <5>1. \E e \in E : GeometryGone(e, k, y.producer)
          BY <3>2, <4>2 DEF GeometriesCall
        <5>2. y.producer = G[k[1]].producer
          BY <4>2, GeometryKeyIs DEF GeometriesCall, GeometriesOwned
        <5> QED
          BY <1>1, <2>1, <4>0, <5>1, <5>2
      <4> QED
        BY <4>1, <4>2 DEF HaveKey
    <3> QED
      BY <3>1, <3>2 DEF k
  <2>2. CASE i \notin DOMAIN log
    <3>1. new[i] \in E
      BY <2>2 DEF Grown
    <3>2. PICK z \in Z : GeometryKey(z) = k
      BY <1>5, <3>1 DEF GeometriesCall
    <3>3. HaveKey(Z, k) /\ k[1] = z.generation
      BY <3>2, GeometryKeyIs DEF HaveKey
    <3> QED
      BY <3>3, GeometriesBack
  <2> QED
    BY <2>1, <2>2
<1>6. \A i \in DOMAIN new : new[i].type = "GEOMETRY_STATUS_CHANGED" =>
         LET k == EventGeometry(new[i])
         IN /\ k[1] \in 1..m
            /\ k[1] \in DOMAIN H /\ (\A z \in Z : GeometryKey(z) # k) =>
                 \E j \in DOMAIN new : j > i /\ GeometryGone(new[j], k, H[k[1]].producer)
  BY <1>5 DEF HaveKey
<1> QED
  BY <1>2, <1>4, <1>6 DEF GeometriesTold

LEMMA GeometriesFollowStep ==
  ASSUME NEW list, NEW Y, NEW G, NEW Z, NEW H, NEW n, NEW m, NEW E, NEW log, NEW new,
         GenerationsCall(G, n, H, m, E), GeometriesCall(Y, G, Z, H, E), Grown(log, new, E),
         GeometriesFollow(list, Y, G, n, log)
  PROVE  GeometriesFollow(list, Z, H, m, new)
<1>0. /\ \A i \in DOMAIN log : i \in DOMAIN new /\ new[i] = log[i]
      /\ \A e \in E : \E i \in DOMAIN new : new[i] = e
  BY DEF Grown
<1>1. \A g \in 1..n : g \in 1..m /\ (g \in DOMAIN H => g \in DOMAIN G /\ H[g].producer = G[g].producer)
  BY GenerationsBack DEF GenerationsCall
<1>2. \A k \in DOMAIN list :
        /\ IsGeometry(list[k].info) /\ GeometryKey(list[k].info) = k
        /\ k[1] \in 1..n
        /\ k[1] \in DOMAIN G => list[k].info.producer = G[k[1]].producer
  BY DEF GeometriesFollow
<1>3. \A k \in DOMAIN list :
        /\ IsGeometry(list[k].info) /\ GeometryKey(list[k].info) = k
        /\ k[1] \in 1..m
        /\ k[1] \in DOMAIN H => list[k].info.producer = H[k[1]].producer
  BY <1>1, <1>2
<1>4. \A k \in Marked(list) : k[1] \notin DOMAIN H
  BY <1>1, <1>2 DEF GeometriesFollow, Marked
<1>5. ASSUME NEW k \in Live(list), ~HaveKey(Z, k)
      PROVE  \E i \in DOMAIN new : GeometryGone(new[i], k, list[k].info.producer)
  <2>1. ASSUME NEW y \in Y, GeometryKey(y) = k
        PROVE  \E i \in DOMAIN new : GeometryGone(new[i], k, list[k].info.producer)
    <3>1. \E e \in E : GeometryGone(e, k, y.producer)
      BY <1>5, <2>1 DEF GeometriesCall
    <3>2. y.producer = G[k[1]].producer /\ k[1] \in DOMAIN G
      BY <2>1, GeometryKeyIs DEF GeometriesCall, GeometriesOwned
    <3>3. list[k].info.producer = y.producer
      BY <1>2, <3>2 DEF Live
    <3> QED
      BY <1>0, <3>1, <3>3
  <2>2. CASE ~HaveKey(Y, k)
    <3>1. \E i \in DOMAIN log : GeometryGone(log[i], k, list[k].info.producer)
      BY <2>2 DEF GeometriesFollow, HaveKey
    <3> QED
      BY <1>0, <3>1
  <2> QED
    BY <2>1, <2>2 DEF HaveKey
<1>6. ASSUME NEW k \in Live(list), NEW z \in Z, GeometryKey(z) = k, list[k].info.status # z.status
      PROVE  \E i \in DOMAIN new : StatusSettled(new[i], z)
  <2>1. ASSUME NEW y \in Y, GeometryKey(y) = k
        PROVE  \E i \in DOMAIN new : StatusSettled(new[i], z)
    <3>1. CASE \E e \in E : StatusSettled(e, z)
      BY <1>0, <3>1
    <3>2. CASE y.status = z.status
      <4>1. PICK i \in DOMAIN log : StatusSettled(log[i], y)
        BY <1>6, <2>1, <3>2 DEF GeometriesFollow
      <4>2. y.producer = z.producer
        BY <1>6, <2>1, GeometriesBack
      <4>3. StatusSettled(log[i], z)
        BY <1>6, <2>1, <3>2, <4>1, <4>2, SettledSame
      <4> QED
        BY <1>0, <4>3
    <3> QED
      BY <1>6, <2>1, <3>1, <3>2 DEF GeometriesCall
  <2>2. CASE ~HaveKey(Y, k)
    <3>1. PICK i \in DOMAIN log : GeometryGone(log[i], k, list[k].info.producer)
      BY <2>2 DEF GeometriesFollow, HaveKey
    <3>2. k[1] = z.generation
      BY <1>6, GeometryKeyIs
    <3>3. k[1] \in DOMAIN G /\ G[k[1]].producer = z.producer
      BY <1>2, <3>2, GeometriesBack DEF Live
    <3>4. list[k].info.producer = z.producer
      BY <1>2, <3>3 DEF Live
    <3> QED
      BY <1>0, <1>6, <3>1, <3>4 DEF StatusSettled
  <2> QED
    BY <2>1, <2>2 DEF HaveKey
<1>7. ASSUME NEW z \in Z, GeometryKey(z) \notin Live(list)
      PROVE  \E i \in DOMAIN new : GeometryTold(new[i], "GEOMETRY_ADDED", GeometryKey(z))
  <2>1. ASSUME NEW y \in Y, GeometryKey(y) = GeometryKey(z)
        PROVE  \E i \in DOMAIN new : GeometryTold(new[i], "GEOMETRY_ADDED", GeometryKey(z))
    <3>1. \E i \in DOMAIN log : GeometryTold(log[i], "GEOMETRY_ADDED", GeometryKey(z))
      BY <1>7, <2>1 DEF GeometriesFollow
    <3> QED
      BY <1>0, <3>1
  <2>2. CASE ~HaveKey(Y, GeometryKey(z))
    BY <1>0, <2>2 DEF GeometriesCall
  <2> QED
    BY <2>1, <2>2 DEF HaveKey
<1>8. Flagged(list)
  BY DEF GeometriesFollow
<1> QED
  BY <1>3, <1>4, <1>5, <1>6, <1>7, <1>8 DEF GeometriesFollow, HaveKey

\* What the list and a stored geometry under its key have in common.
LEMMA GeometryListed ==
  ASSUME NEW list, NEW Y, NEW G, NEW n, NEW log,
         GeometriesOwned(Y, G), GeometriesFollow(list, Y, G, n, log)
  PROVE  \A y \in Y : GeometryKey(y) \in DOMAIN list =>
           /\ GeometryKey(y) \in Live(list)
           /\ list[GeometryKey(y)].info.producer = y.producer
<1> SUFFICES ASSUME NEW y \in Y, GeometryKey(y) \in DOMAIN list
             PROVE  /\ GeometryKey(y) \in Live(list)
                    /\ list[GeometryKey(y)].info.producer = y.producer
  OBVIOUS
<1>1. /\ GeometryKey(y)[1] \in DOMAIN G /\ y.producer = G[GeometryKey(y)[1]].producer
  BY GeometryKeyIs DEF GeometriesOwned
<1>2. GeometryKey(y) \notin Marked(list)
  BY <1>1 DEF GeometriesFollow
<1> QED
  BY <1>1, <1>2, LiveIs DEF GeometriesFollow

LEMMA GeometriesLost ==
  ASSUME NEW list, NEW lost, NEW P, NEW np, NEW Y, NEW G, NEW n, NEW log, NEW m, NEW rest,
         NEW K, NEW M,
         Cut(log, m, rest), ProducersTold(P, np, log), GenerationsTold(G, n, log),
         GeometriesTold(Y, G, n, log), HaveProducers(G, P), GeometriesOwned(Y, G),
         GeometriesFollow(list, Y, G, n, log),
         log[m].type \notin {"GEOMETRY_ADDED", "GEOMETRY_UPDATED", "GEOMETRY_STATUS_CHANGED"},
         Loses(lost, list, K, M),
         \A k \in DOMAIN list : k \in K <=> GeometryGone(log[m], k, list[k].info.producer),
         \A k \in M : /\ k \in DOMAIN list
                      /\ \/ Of(log[m], "PRODUCER_DELETED", list[k].info.producer)
                         \/ Of(log[m], "GENERATION_DELETED", k[1])
  PROVE  GeometriesFollow(lost, Y, G, n, rest)
<1> USE LiveIs
<1>0. m \in DOMAIN log /\ \A i \in DOMAIN log : i = m \/ (i \in DOMAIN rest /\ rest[i] = log[i])
  BY DEF Cut
<1>1. \A k \in DOMAIN list :
        /\ IsGeometry(list[k].info) /\ GeometryKey(list[k].info) = k
        /\ k[1] \in 1..n
        /\ k[1] \in DOMAIN G => list[k].info.producer = G[k[1]].producer
  BY DEF GeometriesFollow
<1>2. \A k \in DOMAIN lost :
        /\ IsGeometry(lost[k].info) /\ GeometryKey(lost[k].info) = k
        /\ k[1] \in 1..n
        /\ k[1] \in DOMAIN G => lost[k].info.producer = G[k[1]].producer
  BY <1>1 DEF Loses
<1>3. \A k \in M : k[1] \notin DOMAIN G
  <2> SUFFICES ASSUME NEW k \in M, k[1] \in DOMAIN G PROVE FALSE
    OBVIOUS
  <2>1. k \in DOMAIN list
    OBVIOUS
  <2>2. list[k].info.producer \in DOMAIN P
    BY <1>1, <2>1 DEF HaveProducers
  <2> QED
    BY <1>0, <2>2 DEF ProducersTold, GenerationsTold, Of
<1>4. \A k \in Marked(lost) : k[1] \notin DOMAIN G
  BY <1>3 DEF GeometriesFollow, Loses
<1>5. \A k \in Live(lost) : k \in Live(list) /\ k \notin K /\ lost[k].info = list[k].info
  BY DEF Loses
<1>6. ASSUME NEW k \in Live(lost), ~HaveKey(Y, k)
      PROVE  \E i \in DOMAIN rest : GeometryGone(rest[i], k, lost[k].info.producer)
  <2>1. PICK i \in DOMAIN log : GeometryGone(log[i], k, list[k].info.producer)
    BY <1>5, <1>6 DEF GeometriesFollow, HaveKey
  <2>2. i # m
    BY <1>5, <2>1
  <2> QED
    BY <1>0, <1>5, <2>1, <2>2
<1>7. ASSUME NEW k \in Live(lost), NEW y \in Y, GeometryKey(y) = k, lost[k].info.status # y.status
      PROVE  \E i \in DOMAIN rest : StatusSettled(rest[i], y)
  <2>1. PICK i \in DOMAIN log : StatusSettled(log[i], y)
    BY <1>5, <1>7 DEF GeometriesFollow
  <2>2. i # m
    <3>1. list[k].info.producer = y.producer
      BY <1>5, <1>7, GeometryListed
    <3>2. ~GeometryGone(log[m], k, y.producer)
      BY <1>5, <3>1
    <3> QED
      BY <1>7, <2>1, <3>2 DEF StatusSettled, GeometryTold
  <2> QED
    BY <1>0, <2>1, <2>2
<1>8. ASSUME NEW y \in Y, GeometryKey(y) \notin Live(lost)
      PROVE  \E i \in DOMAIN rest : GeometryTold(rest[i], "GEOMETRY_ADDED", GeometryKey(y))
  <2>1. CASE GeometryKey(y) \in Live(list)
    <3>1. GeometryKey(y) \in K
      BY <1>8, <2>1 DEF Loses
    <3>2. GeometryGone(log[m], GeometryKey(y), y.producer)
      BY <2>1, <3>1, GeometryListed
    <3>3. PICK j \in DOMAIN log : j > m /\ GeometryTold(log[j], "GEOMETRY_ADDED", GeometryKey(y))
      BY <1>0, <3>2 DEF GeometriesTold
    <3> QED
      BY <3>3 DEF Cut
  <2>2. CASE GeometryKey(y) \notin Live(list)
    <3>1. PICK i \in DOMAIN log : GeometryTold(log[i], "GEOMETRY_ADDED", GeometryKey(y))
      BY <2>2 DEF GeometriesFollow
    <3>2. i # m
      BY <3>1 DEF GeometryTold
    <3> QED
      BY <1>0, <3>1, <3>2
  <2> QED
    BY <2>1, <2>2
<1>9. Flagged(lost)
  BY DEF Loses
<1> QED
  BY <1>2, <1>4, <1>6, <1>7, <1>8, <1>9 DEF GeometriesFollow, HaveKey

\* The handlers that read a geometry, or set its status.
LEMMA GeometryRead ==
  ASSUME NEW list, NEW new, NEW Y, NEW G, NEW n, NEW log, NEW m, NEW rest, NEW k,
         Cut(log, m, rest), GeometriesTold(Y, G, n, log), GeometriesOwned(Y, G),
         DOMAIN G \subseteq 1..n, GeometriesFollow(list, Y, G, n, log),
         log[m].type \in {"GEOMETRY_ADDED", "GEOMETRY_UPDATED", "GEOMETRY_STATUS_CHANGED"},
         EventGeometry(log[m]) = k,
         \/ /\ new = list
            /\ \/ log[m].type = "GEOMETRY_ADDED" /\ k \in DOMAIN list
               \/ log[m].type # "GEOMETRY_ADDED" /\ k \notin Live(list)
               \/ ~HaveKey(Y, k)
         \/ \E y \in Y : GeometryKey(y) = k /\ new = Put(list, k, Unmarked(y))
         \/ /\ log[m].type = "GEOMETRY_STATUS_CHANGED" /\ k \in Live(list)
            /\ StatusSet(new, list, k, log[m].flags)
  PROVE  GeometriesFollow(new, Y, G, n, rest)
<1> USE LiveIs
<1>0. m \in DOMAIN log /\ \A i \in DOMAIN log : i = m \/ (i \in DOMAIN rest /\ rest[i] = log[i])
  BY DEF Cut
<1>1. /\ Flagged(list)
      /\ \A x \in DOMAIN list :
           /\ IsGeometry(list[x].info) /\ GeometryKey(list[x].info) = x
           /\ x[1] \in 1..n
           /\ x[1] \in DOMAIN G => list[x].info.producer = G[x[1]].producer
      /\ \A x \in Marked(list) : x[1] \notin DOMAIN G
  BY DEF GeometriesFollow
<1>2. ASSUME NEW x \in Live(list), ~HaveKey(Y, x)
      PROVE  \E i \in DOMAIN rest : GeometryGone(rest[i], x, list[x].info.producer)
  <2>1. PICK i \in DOMAIN log : GeometryGone(log[i], x, list[x].info.producer)
    BY <1>2 DEF GeometriesFollow, HaveKey
  <2>2. i # m
    BY <2>1 DEF GeometryGone, GeometryTold, OwnerGone, Of
  <2> QED
    BY <1>0, <2>1, <2>2
<1>3. ASSUME NEW x \in Live(list), NEW y \in Y, GeometryKey(y) = x, list[x].info.status # y.status,
             x # k
      PROVE  \E i \in DOMAIN rest : StatusSettled(rest[i], y)
  <2>1. PICK i \in DOMAIN log : StatusSettled(log[i], y)
    BY <1>3 DEF GeometriesFollow
  <2>2. i # m
    BY <1>3, <2>1 DEF StatusSettled, GeometryGone, GeometryTold, OwnerGone, Of
  <2> QED
    BY <1>0, <2>1, <2>2
<1>4. ASSUME NEW y \in Y, GeometryKey(y) \notin Live(list),
             log[m].type = "GEOMETRY_ADDED" => GeometryKey(y) # k
      PROVE  \E i \in DOMAIN rest : GeometryTold(rest[i], "GEOMETRY_ADDED", GeometryKey(y))
  <2>1. PICK i \in DOMAIN log : GeometryTold(log[i], "GEOMETRY_ADDED", GeometryKey(y))
    BY <1>4 DEF GeometriesFollow
  <2>2. i # m
    BY <1>4, <2>1 DEF GeometryTold
  <2> QED
    BY <1>0, <2>1, <2>2
<1>5. ASSUME NEW y \in Y, GeometryKey(y) = k,
             log[m].type = "GEOMETRY_STATUS_CHANGED", log[m].flags # y.status
      PROVE  \E i \in DOMAIN rest : StatusSettled(rest[i], y)
  <2>1. GeometryTold(log[m], "GEOMETRY_STATUS_CHANGED", GeometryKey(y))
    BY <1>5 DEF GeometryTold
  <2>2. PICK j \in DOMAIN log : j >= m /\ StatusSettled(log[j], y)
    BY <1>0, <2>1 DEF GeometriesTold
  <2>3. j # m
    BY <1>5, <2>2 DEF StatusSettled, GeometryGone, GeometryTold, OwnerGone, Of
  <2> QED
    BY <1>0, <2>2, <2>3
<1>6. CASE /\ new = list
           /\ \/ log[m].type = "GEOMETRY_ADDED" /\ k \in DOMAIN list
              \/ log[m].type # "GEOMETRY_ADDED" /\ k \notin Live(list)
              \/ ~HaveKey(Y, k)
  <2>1. ASSUME NEW x \in Live(list), NEW y \in Y, GeometryKey(y) = x, list[x].info.status # y.status
        PROVE  \E i \in DOMAIN rest : StatusSettled(rest[i], y)
    <3>1. CASE x # k
      BY <1>3, <2>1, <3>1
    <3>2. CASE x = k
      <4>1. log[m].type = "GEOMETRY_ADDED"
        BY <1>6, <2>1, <3>2 DEF HaveKey
      <4>2. PICK i \in DOMAIN log : StatusSettled(log[i], y)
        BY <2>1 DEF GeometriesFollow
      <4>3. i # m
        BY <4>1, <4>2 DEF StatusSettled, GeometryGone, GeometryTold, OwnerGone, Of
      <4> QED
        BY <1>0, <4>2, <4>3
    <3> QED
      BY <3>1, <3>2
  <2>2. ASSUME NEW y \in Y, GeometryKey(y) \notin Live(list)
        PROVE  \E i \in DOMAIN rest : GeometryTold(rest[i], "GEOMETRY_ADDED", GeometryKey(y))
    <3>1. log[m].type = "GEOMETRY_ADDED" => GeometryKey(y) # k
      BY <1>6, <2>2, GeometryListed DEF HaveKey
    <3> QED
      BY <1>4, <2>2, <3>1
  <2>3. GeometriesFollow(list, Y, G, n, rest)
    BY <1>1, <1>2, <2>1, <2>2 DEF GeometriesFollow, HaveKey
  <2> QED
    BY <1>6, <2>3
<1>7. ASSUME NEW y \in Y, GeometryKey(y) = k, new = Put(list, k, Unmarked(y))
      PROVE  GeometriesFollow(new, Y, G, n, rest)
  <2>1. /\ DOMAIN new = DOMAIN list \cup {k} /\ new[k] = [info |-> y, deleted |-> FALSE]
        /\ \A x \in DOMAIN list : x # k => new[x] = list[x]
    BY <1>7 DEF Put, Unmarked
  <2>2. Flagged(new) /\ Live(new) = Live(list) \cup {k} /\ Marked(new) = Marked(list) \ {k}
    BY ONLY <1>1, <1>7, PutLive
  <2>3. /\ IsGeometry(y) /\ k[1] \in 1..n /\ k[1] \in DOMAIN G /\ y.producer = G[k[1]].producer
    BY <1>7, GeometryKeyIs DEF GeometriesOwned
  <2>4. \A x \in DOMAIN new :
          /\ IsGeometry(new[x].info) /\ GeometryKey(new[x].info) = x
          /\ x[1] \in 1..n
          /\ x[1] \in DOMAIN G => new[x].info.producer = G[x[1]].producer
    BY <1>1, <1>7, <2>1, <2>3
  <2>5. \A x \in Marked(new) : x[1] \notin DOMAIN G
    BY <1>1, <2>2
  <2>6. ASSUME NEW x \in Live(new), ~HaveKey(Y, x)
        PROVE  \E i \in DOMAIN rest : GeometryGone(rest[i], x, new[x].info.producer)
    <3>1. x # k
      BY <1>7, <2>6 DEF HaveKey
    <3> QED
      BY <1>2, <2>1, <2>2, <2>6, <3>1
  <2>7. ASSUME NEW x \in Live(new), NEW z \in Y, GeometryKey(z) = x, new[x].info.status # z.status
        PROVE  \E i \in DOMAIN rest : StatusSettled(rest[i], z)
    <3>1. x # k
      BY <1>7, <2>1, <2>7 DEF GeometriesOwned
    <3> QED
      BY <1>3, <2>1, <2>2, <2>7, <3>1
  <2>8. ASSUME NEW z \in Y, GeometryKey(z) \notin Live(new)
        PROVE  \E i \in DOMAIN rest : GeometryTold(rest[i], "GEOMETRY_ADDED", GeometryKey(z))
    BY <1>4, <2>2, <2>8
  <2> QED
    BY <2>2, <2>4, <2>5, <2>6, <2>7, <2>8 DEF GeometriesFollow, HaveKey
<1>8. CASE /\ log[m].type = "GEOMETRY_STATUS_CHANGED" /\ k \in Live(list)
           /\ StatusSet(new, list, k, log[m].flags)
  <2>1. IsGeometry(list[k].info) /\ k \in DOMAIN list
    BY <1>1, <1>8
  <2>2. /\ IsGeometry(new[k].info) /\ new[k].info.producer = list[k].info.producer
        /\ GeometryKey(new[k].info) = GeometryKey(list[k].info)
        /\ new[k].info.status = log[m].flags
    BY <1>8, <2>1 DEF StatusSet, IsGeometry, GeometryKey
  <2>3. /\ Flagged(new) /\ Live(new) = Live(list) /\ Marked(new) = Marked(list)
        /\ DOMAIN new = DOMAIN list
        /\ \A x \in DOMAIN list : x # k => new[x] = list[x]
    BY <1>8 DEF StatusSet
  <2>4. \A x \in DOMAIN new :
          /\ IsGeometry(new[x].info) /\ GeometryKey(new[x].info) = x
          /\ x[1] \in 1..n
          /\ x[1] \in DOMAIN G => new[x].info.producer = G[x[1]].producer
    BY <1>1, <2>1, <2>2, <2>3
  <2>5. \A x \in Marked(new) : x[1] \notin DOMAIN G
    BY <1>1, <2>3
  <2>6. ASSUME NEW x \in Live(new), ~HaveKey(Y, x)
        PROVE  \E i \in DOMAIN rest : GeometryGone(rest[i], x, new[x].info.producer)
    <3>1. new[x].info.producer = list[x].info.producer
      BY <2>2, <2>3, <2>6
    <3> QED
      BY <1>2, <2>3, <2>6, <3>1
  <2>7. ASSUME NEW x \in Live(new), NEW z \in Y, GeometryKey(z) = x, new[x].info.status # z.status
        PROVE  \E i \in DOMAIN rest : StatusSettled(rest[i], z)
    <3>1. CASE x = k
      BY <1>5, <1>8, <2>2, <2>7, <3>1
    <3>2. CASE x # k
      BY <1>3, <2>3, <2>7, <3>2
    <3> QED
      BY <3>1, <3>2
  <2>8. ASSUME NEW z \in Y, GeometryKey(z) \notin Live(new)
        PROVE  \E i \in DOMAIN rest : GeometryTold(rest[i], "GEOMETRY_ADDED", GeometryKey(z))
    BY <1>4, <1>8, <2>3, <2>8
  <2> QED
    BY <2>3, <2>4, <2>5, <2>6, <2>7, <2>8 DEF GeometriesFollow, HaveKey
<1> QED
  BY <1>6, <1>7, <1>8

-----------------------------------------------------------------------------
(* Files.                                                                   *)

FilesCall(F, F2, E) ==
  /\ \A f \in DOMAIN F : IF f \in DOMAIN F2 THEN F2[f] = F[f]
                                           ELSE \E e \in E : FileGone(e, f, F[f])
  /\ \A f \in DOMAIN F2 \ DOMAIN F : \E e \in E : Of(e, "FILE_ADDED", f)
  /\ \A e \in E : /\ e.type = "FILE_ADDED" => e.id1 \notin DOMAIN F
                  /\ \A f \in DOMAIN F2 : ~FileGone(e, f, F2[f])

\* What is in the log stays, and what is announced comes after it.
LEMMA GrownIs ==
  ASSUME NEW log, NEW new, NEW E, Grown(log, new, E)
  PROVE  /\ \A i \in DOMAIN log : i \in DOMAIN new /\ new[i] = log[i] /\ i \in Int
         /\ \A e \in E : \E j \in DOMAIN new \ DOMAIN log :
              new[j] = e /\ j >= j /\ \A i \in DOMAIN log : j > i /\ j >= i
<1>1. \A i \in DOMAIN log : i \in DOMAIN new /\ new[i] = log[i] /\ i \in Int
  BY DEF Grown
<1>2. ASSUME NEW e \in E
      PROVE  \E j \in DOMAIN new \ DOMAIN log :
               new[j] = e /\ j >= j /\ \A i \in DOMAIN log : j > i /\ j >= i
  <2>1. PICK j \in DOMAIN new \ DOMAIN log : new[j] = e
    BY DEF Grown
  <2>2. j \in Int /\ \A i \in DOMAIN log : i < j /\ i \in Int
    BY <1>1 DEF Grown
  <2>3. j >= j /\ \A i \in DOMAIN log : j > i /\ j >= i
    BY <2>2
  <2> QED
    BY <2>1, <2>3
<1> QED
  BY <1>1, <1>2

LEMMA FilesToldStep ==
  ASSUME NEW F, NEW F2, NEW E, NEW log, NEW new,
         FilesCall(F, F2, E), Grown(log, new, E), FilesTold(F, log)
  PROVE  FilesTold(F2, new)
<1> SUFFICES ASSUME NEW i \in DOMAIN new, NEW f \in DOMAIN F2, FileGone(new[i], f, F2[f])
             PROVE  \E j \in DOMAIN new : j > i /\ Of(new[j], "FILE_ADDED", f)
  BY DEF FilesTold
<1> USE GrownIs
<1>1. i \in DOMAIN log
  BY DEF Grown, FilesCall
<1>2. CASE f \in DOMAIN F
  <2>1. FileGone(log[i], f, F[f])
    BY <1>1, <1>2 DEF FilesCall
  <2> QED
    BY <1>1, <1>2, <2>1 DEF FilesTold
<1>3. CASE f \notin DOMAIN F
  BY <1>1, <1>3 DEF FilesCall
<1> QED
  BY <1>2, <1>3

LEMMA FileFollowsStep ==
  ASSUME NEW F, NEW F2, NEW E, NEW log, NEW new, FilesCall(F, F2, E), Grown(log, new, E),
         NEW f, NEW r, FileFollows(f, r, F, log)
  PROVE  FileFollows(f, r, F2, new)
<1> USE GrownIs
<1>1. CASE f \in DOMAIN F /\ r = F[f]
  <2>1. CASE f \in DOMAIN F2
    BY <1>1, <2>1 DEF FilesCall, FileFollows
  <2>2. CASE f \notin DOMAIN F2
    <3>1. \E e \in E : FileGone(e, f, r)
      BY <1>1, <2>2 DEF FilesCall
    <3> QED
      BY <2>2, <3>1 DEF FileFollows
  <2> QED
    BY <2>1, <2>2
<1>2. ASSUME NEW i \in DOMAIN log, FileGone(log[i], f, r),
             f \in DOMAIN F => \E j \in DOMAIN log : j > i /\ Of(log[j], "FILE_ADDED", f)
      PROVE  FileFollows(f, r, F2, new)
  <2>1. f \in DOMAIN F2 => \E j \in DOMAIN new : j > i /\ Of(new[j], "FILE_ADDED", f)
    <3>1. CASE f \in DOMAIN F
      BY <1>2, <3>1
    <3>2. CASE f \notin DOMAIN F
      BY <3>2 DEF FilesCall
    <3> QED
      BY <3>1, <3>2
  <2> QED
    BY <1>2, <2>1 DEF FileFollows
<1> QED
  BY <1>1, <1>2 DEF FileFollows

LEMMA FilesFollowStep ==
  ASSUME NEW F, NEW F2, NEW E, NEW log, NEW new, FilesCall(F, F2, E), Grown(log, new, E),
         NEW list, FilesFollow(list, F, log)
  PROVE  FilesFollow(list, F2, new)
<1>1. Flagged(list) /\ \A f \in Live(list) : FileFollows(f, list[f].info, F2, new)
  BY FileFollowsStep DEF FilesFollow
<1>2. ASSUME NEW f \in DOMAIN F2, f \notin Live(list)
      PROVE  \E i \in DOMAIN new : Of(new[i], "FILE_ADDED", f)
  <2>1. CASE f \in DOMAIN F
    BY <1>2, <2>1, GrownIs DEF FilesFollow
  <2>2. CASE f \notin DOMAIN F
    BY <2>2, GrownIs DEF FilesCall
  <2> QED
    BY <2>1, <2>2
<1> QED
  BY <1>1, <1>2 DEF FilesFollow

LEMMA CutIs ==
  ASSUME NEW log, NEW m, NEW rest, Cut(log, m, rest)
  PROVE  /\ m \in DOMAIN log /\ m >= m
         /\ \A i \in DOMAIN log : i = m \/ (i > m /\ i \in DOMAIN rest /\ rest[i] = log[i])
         /\ \A i \in DOMAIN rest : i \in DOMAIN log /\ rest[i] = log[i] /\ i > m /\ i # m
         /\ \A i, j \in DOMAIN log : i # m /\ j >= i => j \in DOMAIN rest /\ rest[j] = log[j]
         /\ \A i, j \in DOMAIN log : j > i => j >= i /\ j \in DOMAIN rest /\ rest[j] = log[j]
BY DEF Cut

LEMMA FileFollowsCut ==
  ASSUME NEW log, NEW m, NEW rest, Cut(log, m, rest), NEW F, NEW f, NEW r,
         FileFollows(f, r, F, log), ~FileGone(log[m], f, r)
  PROVE  FileFollows(f, r, F, rest)
<1> USE CutIs
<1>1. CASE f \in DOMAIN F /\ r = F[f]
  BY <1>1 DEF FileFollows
<1>2. ASSUME NEW i \in DOMAIN log, FileGone(log[i], f, r),
             f \in DOMAIN F => \E j \in DOMAIN log : j > i /\ Of(log[j], "FILE_ADDED", f)
      PROVE  FileFollows(f, r, F, rest)
  <2>1. i \in DOMAIN rest /\ rest[i] = log[i]
    BY <1>2
  <2>2. f \in DOMAIN F => \E j \in DOMAIN rest : j > i /\ Of(rest[j], "FILE_ADDED", f)
    BY <1>2
  <2> QED
    BY <1>2, <2>1, <2>2 DEF FileFollows
<1> QED
  BY <1>1, <1>2 DEF FileFollows

LEMMA FilesLost ==
  ASSUME NEW list, NEW lost, NEW F, NEW log, NEW m, NEW rest, NEW K, NEW M,
         Cut(log, m, rest), FilesTold(F, log), FilesFollow(list, F, log),
         log[m].type # "FILE_ADDED",
         Loses(lost, list, K, M),
         \A f \in DOMAIN list : f \in K <=> FileGone(log[m], f, list[f].info)
  PROVE  FilesFollow(lost, F, rest)
<1> USE LiveIs, CutIs
<1>1. \A f \in Live(lost) : f \in Live(list) /\ f \notin K /\ lost[f].info = list[f].info
  BY DEF Loses
<1>2. \A f \in Live(lost) : FileFollows(f, lost[f].info, F, rest)
  BY <1>1, FileFollowsCut DEF FilesFollow
<1>3. ASSUME NEW f \in DOMAIN F, f \notin Live(lost)
      PROVE  \E i \in DOMAIN rest : Of(rest[i], "FILE_ADDED", f)
  <2>1. CASE f \in Live(list)
    <3>1. FileGone(log[m], f, list[f].info)
      BY <1>3, <2>1 DEF Loses
    <3>2. CASE list[f].info = F[f]
      <4>1. \E j \in DOMAIN log : j > m /\ Of(log[j], "FILE_ADDED", f)
        BY <3>1, <3>2 DEF FilesTold
      <4> QED
        BY <4>1
    <3>3. CASE list[f].info # F[f]
      <4>1. \E i, j \in DOMAIN log : j > i /\ Of(log[j], "FILE_ADDED", f)
        BY <2>1, <3>3 DEF FilesFollow, FileFollows
      <4> QED
        BY <4>1
    <3> QED
      BY <3>2, <3>3
  <2>2. CASE f \notin Live(list)
    <3>1. PICK i \in DOMAIN log : Of(log[i], "FILE_ADDED", f)
      BY <2>2 DEF FilesFollow
    <3>2. i # m
      BY <3>1 DEF Of
    <3> QED
      BY <3>1, <3>2
  <2> QED
    BY <2>1, <2>2
<1>4. Flagged(lost)
  BY DEF Loses
<1> QED
  BY <1>2, <1>3, <1>4 DEF FilesFollow

\* The handlers that add a file, or bring it up to date.
LEMMA FileRead ==
  ASSUME NEW list, NEW new, NEW F, NEW log, NEW m, NEW rest, NEW f,
         Cut(log, m, rest), FilesFollow(list, F, log),
         log[m].type \in {"FILE_ADDED", "FILE_UPDATED"}, log[m].id1 = f,
         \/ new = list /\ (f \in Live(list) \/ f \notin DOMAIN F)
         \/ \E r : FileFollows(f, r, F, rest) /\ new = Put(list, f, Unmarked(r))
  PROVE  FilesFollow(new, F, rest)
<1> USE LiveIs, CutIs
<1>1. \A x \in Live(list) : FileFollows(x, list[x].info, F, rest)
  <2>1. \A x, r : ~FileGone(log[m], x, r)
    BY DEF FileGone, OwnerGone, Of
  <2> QED
    BY <2>1, FileFollowsCut DEF FilesFollow
<1>2. ASSUME NEW x \in DOMAIN F, x \notin Live(list), x # f
      PROVE  \E i \in DOMAIN rest : Of(rest[i], "FILE_ADDED", x)
  <2>1. PICK i \in DOMAIN log : Of(log[i], "FILE_ADDED", x)
    BY <1>2 DEF FilesFollow
  <2>2. i # m
    BY <1>2, <2>1 DEF Of
  <2> QED
    BY <2>1, <2>2
<1>3. Flagged(list)
  BY DEF FilesFollow
<1>4. CASE new = list /\ (f \in Live(list) \/ f \notin DOMAIN F)
  <2>1. FilesFollow(list, F, rest)
    BY <1>1, <1>2, <1>3, <1>4 DEF FilesFollow
  <2> QED
    BY <1>4, <2>1
<1>5. ASSUME NEW r, FileFollows(f, r, F, rest), new = Put(list, f, Unmarked(r))
      PROVE  FilesFollow(new, F, rest)
  <2>1. /\ DOMAIN new = DOMAIN list \cup {f} /\ new[f] = [info |-> r, deleted |-> FALSE]
        /\ \A x \in DOMAIN list : x # f => new[x] = list[x]
    BY <1>5 DEF Put, Unmarked
  <2>2. Flagged(new) /\ Live(new) = Live(list) \cup {f}
    BY ONLY <1>3, <1>5, PutLive
  <2>3. \A x \in Live(new) : FileFollows(x, new[x].info, F, rest)
    BY <1>1, <1>5, <2>1, <2>2
  <2> QED
    BY <1>2, <2>2, <2>3 DEF FilesFollow
<1> QED
  BY <1>4, <1>5

-----------------------------------------------------------------------------
(* Content.                                                                 *)

\* The content belongs to files, and no two records have a key.
ContentsOwned(C, F) ==
  /\ \A r \in C : /\ r.file \in DOMAIN F
                  /\ r.producer = F[r.file].producer /\ r.generation = F[r.file].generation
  /\ \A r, s \in C : Key(r) = Key(s) => r = s

HasContent(C, k) == \E s \in C : Key(s) = k

ContentsCall(C, F, D, F2, E) ==
  /\ FilesCall(F, F2, E) /\ ContentsOwned(C, F) /\ ContentsOwned(D, F2)
  /\ \A r \in C \ D :
       \/ \E e \in E : ContentGone(e, r) /\ (HasContent(D, Key(r)) => ContentAdded(e, Key(r)))
       \/ /\ r.file \in DOMAIN F2
          /\ \E e \in E : Of(e, "FILE_UPDATED", r.file)
          /\ \A e \in E : ~Of(e, "FILE_ADDED", r.file)
  /\ \A r \in D \ C : \E e \in E : ContentAdded(e, Key(r))
  /\ \A e \in E, r \in D : ContentGone(e, r) => ContentAdded(e, Key(r))

LEMMA KeyIs == ASSUME NEW r, NEW k, Key(r) = k PROVE k[1] = r.file
BY DEF Key

LEMMA ContentsToldStep ==
  ASSUME NEW C, NEW F, NEW D, NEW F2, NEW E, NEW log, NEW new,
         ContentsCall(C, F, D, F2, E), Grown(log, new, E), ContentsTold(C, log)
  PROVE  ContentsTold(D, new)
<1> SUFFICES ASSUME NEW i \in DOMAIN new, NEW r \in D, ContentGone(new[i], r)
             PROVE  \E j \in DOMAIN new : j >= i /\ ContentAdded(new[j], Key(r))
  BY DEF ContentsTold
<1> USE GrownIs
<1>1. CASE i \notin DOMAIN log
  <2>1. new[i] \in E /\ i \in Int
    BY <1>1 DEF Grown
  <2>2. ContentAdded(new[i], Key(r)) /\ i >= i
    BY <2>1 DEF ContentsCall
  <2> QED
    BY <2>2
<1>2. CASE i \in DOMAIN log /\ r \in C
  <2>1. PICK j \in DOMAIN log : j >= i /\ ContentAdded(log[j], Key(r))
    BY <1>2 DEF ContentsTold
  <2> QED
    BY <2>1
<1>3. CASE i \in DOMAIN log /\ r \notin C
  <2>1. \E e \in E : ContentAdded(e, Key(r))
    BY <1>3 DEF ContentsCall
  <2> QED
    BY <1>3, <2>1
<1> QED
  BY <1>1, <1>2, <1>3

LEMMA ContentFollowsStep ==
  ASSUME NEW C, NEW F, NEW D, NEW F2, NEW E, NEW log, NEW new,
         ContentsCall(C, F, D, F2, E), Grown(log, new, E),
         NEW r, ContentFollows(r, C, F, log)
  PROVE  ContentFollows(r, D, F2, new)
<1> USE GrownIs
<1>0. \A f \in DOMAIN F : f \in DOMAIN F2 => F2[f] = F[f]
  BY DEF ContentsCall, FilesCall
<1>1. CASE r \in C
  <2>1. CASE r \in D
    BY <2>1 DEF ContentFollows
  <2>2. ASSUME NEW e \in E, ContentGone(e, r), HasContent(D, Key(r)) => ContentAdded(e, Key(r))
        PROVE  ContentFollows(r, D, F2, new)
    <3>1. PICK i \in DOMAIN new : new[i] = e /\ i >= i
      OBVIOUS
    <3> QED
      BY <2>2, <3>1 DEF ContentFollows, HasContent
  <2>3. CASE /\ r.file \in DOMAIN F2
             /\ \E e \in E : Of(e, "FILE_UPDATED", r.file)
             /\ \A e \in E : ~Of(e, "FILE_ADDED", r.file)
    <3>1. PICK i \in DOMAIN new \ DOMAIN log : Of(new[i], "FILE_UPDATED", r.file)
      BY <2>3
    <3>2. \A j \in DOMAIN new : Of(new[j], "FILE_ADDED", r.file) => j < i
      BY <2>3, <3>1 DEF Grown
    <3>3. r.producer = F2[r.file].producer /\ r.generation = F2[r.file].generation
      BY <1>0, <1>1, <2>3 DEF ContentsCall, ContentsOwned
    <3> QED
      BY <2>3, <3>1, <3>2, <3>3 DEF ContentFollows, FileReplaced
  <2> QED
    BY <1>1, <2>1, <2>2, <2>3 DEF ContentsCall
<1>2. ASSUME NEW i \in DOMAIN log, ContentGone(log[i], r),
             HasContent(C, Key(r)) => \E j \in DOMAIN log : j >= i /\ ContentAdded(log[j], Key(r))
      PROVE  ContentFollows(r, D, F2, new)
  <2>1. HasContent(D, Key(r)) => \E j \in DOMAIN new : j >= i /\ ContentAdded(new[j], Key(r))
    <3>1. CASE HasContent(C, Key(r))
      BY <1>2, <3>1
    <3>2. CASE ~HasContent(C, Key(r))
      <4> SUFFICES ASSUME NEW s \in D, Key(s) = Key(r)
                   PROVE  \E j \in DOMAIN new : j >= i /\ ContentAdded(new[j], Key(r))
        BY DEF HasContent
      <4>1. s \notin C
        BY <3>2 DEF HasContent
      <4>2. \E e \in E : ContentAdded(e, Key(r))
        BY <4>1 DEF ContentsCall
      <4> QED
        BY <4>2
    <3> QED
      BY <3>1, <3>2
  <2> QED
    BY <1>2, <2>1 DEF ContentFollows, HasContent
<1>3. CASE FileReplaced(r, F, log)
  <2>1. PICK i \in DOMAIN log :
          /\ Of(log[i], "FILE_UPDATED", r.file)
          /\ \A j \in DOMAIN log : Of(log[j], "FILE_ADDED", r.file) => j < i
    BY <1>3 DEF FileReplaced
  <2>2. /\ r.file \in DOMAIN F
        /\ r.producer = F[r.file].producer /\ r.generation = F[r.file].generation
    BY <1>3 DEF FileReplaced
  <2>3. CASE r.file \in DOMAIN F2
    <3>1. F2[r.file] = F[r.file]
      BY <1>0, <2>2, <2>3
    <3>2. \A e \in E : ~Of(e, "FILE_ADDED", r.file)
      BY <2>2 DEF ContentsCall, FilesCall, Of
    <3>3. \A j \in DOMAIN new : Of(new[j], "FILE_ADDED", r.file) => j \in DOMAIN log
      BY <3>2 DEF Grown
    <3> QED
      BY <2>1, <2>2, <2>3, <3>1, <3>3 DEF ContentFollows, FileReplaced
  <2>4. CASE r.file \notin DOMAIN F2
    <3>1. PICK e \in E : FileGone(e, r.file, F[r.file])
      BY <2>2, <2>4 DEF ContentsCall, FilesCall
    <3>2. ContentGone(e, r)
      BY <2>2, <3>1 DEF FileGone, ContentGone
    <3>3. ~HasContent(D, Key(r))
      <4> SUFFICES ASSUME NEW s \in D, Key(s) = Key(r) PROVE FALSE
        BY DEF HasContent
      <4>1. s.file = r.file
        BY KeyIs
      <4> QED
        BY <2>4, <4>1 DEF ContentsCall, ContentsOwned
    <3> QED
      BY <3>2, <3>3 DEF ContentFollows, HasContent
  <2> QED
    BY <2>3, <2>4
<1> QED
  BY <1>1, <1>2, <1>3 DEF ContentFollows, HasContent

\* The page is a part of the log, and its last event the youngest of it.
PageInLog(fetched, log) ==
  \A n \in 1..Len(fetched) :
    fetched[n].id \in DOMAIN log /\ ~(fetched[n].id > fetched[Len(fetched)].id)

LEMMA ContentsFollowStep ==
  ASSUME NEW C, NEW F, NEW D, NEW F2, NEW E, NEW log, NEW new, NEW fetched,
         ContentsCall(C, F, D, F2, E), Grown(log, new, E), PageInLog(fetched, log),
         NEW list, ContentsFollow(list, C, F, fetched, log)
  PROVE  ContentsFollow(list, D, F2, fetched, new)
<1> USE GrownIs
<1>1. /\ Flagged(list) /\ \A k \in DOMAIN list : Key(list[k].info) = k
      /\ \A k \in Live(list) : ContentFollows(list[k].info, D, F2, new)
  BY ContentFollowsStep DEF ContentsFollow
<1>2. ASSUME NEW r \in D, Key(r) \notin Live(list)
      PROVE  \E i \in DOMAIN new : Brings(i, Key(r), fetched, new)
  <2>1. CASE r \in C
    <3>1. PICK i \in DOMAIN log : Brings(i, Key(r), fetched, log)
      BY <1>2, <2>1 DEF ContentsFollow
    <3> QED
      BY <3>1 DEF Brings
  <2>2. CASE r \notin C
    <3>1. PICK i \in DOMAIN new \ DOMAIN log : ContentAdded(new[i], Key(r))
      BY <2>2 DEF ContentsCall
    <3>2. Brings(i, Key(r), fetched, new)
      BY <3>1 DEF Brings, PageInLog
    <3> QED
      BY <3>2
  <2> QED
    BY <2>1, <2>2
<1> QED
  BY <1>1, <1>2 DEF ContentsFollow

\* An event that adds content brings it, or a younger one does: the data that has
\* been fetched with the event is missing only what has been added after the page.
LEMMA AdderBrings ==
  ASSUME NEW C, NEW F, NEW fetched, NEW log, NEW j \in DOMAIN log, NEW r \in C,
         PageInLog(fetched, log), PageMatches(fetched, log), PageFollows(fetched, C, F, log),
         DOMAIN log \subseteq Int, Len(fetched) \in Nat,
         ContentAdded(log[j], Key(r))
  PROVE  \E i \in DOMAIN log : i >= j /\ Brings(i, Key(r), fetched, log)
<1>1. CASE Brings(j, Key(r), fetched, log)
  BY <1>1
<1>2. ASSUME NEW n \in 1..Len(fetched), fetched[n].id = j, fetched[n].type = "FILE_ADDED",
             NEW x \in fetched[n].data, ~\E s \in x.contents : Key(s) = Key(r)
      PROVE  \E i \in DOMAIN log : i >= j /\ Brings(i, Key(r), fetched, log)
  <2> DEFINE h == fetched[n]
             last == fetched[Len(fetched)].id
  <2>1. h.id1 = log[j].id1 /\ h.id3 = log[j].id3 /\ log[j].type = "FILE_ADDED"
    BY <1>2 DEF PageMatches, Matches
  <2>2. Of(log[j], "FILE_ADDED", Key(r)[1]) /\ log[j].id3 > 0
    BY <2>1 DEF ContentAdded, ContentTold, Of
  <2>3. r.file = h.id1 /\ h.id3 > 0
    BY <2>1, <2>2, KeyIs DEF Of
  <2>4. DataFollows(h, x, last, C, F, log)
    BY <1>2 DEF PageFollows
  <2>5. PICK i \in DOMAIN log : i > last /\ ContentAdded(log[i], Key(r))
    BY <1>2, <2>3, <2>4 DEF DataFollows
  <2>6. last \in Int /\ ~(j > last) /\ i \in Int /\ j \in Int
    <3>1. Len(fetched) \in 1..Len(fetched)
      OBVIOUS
    <3> QED
      BY <1>2, <3>1 DEF PageInLog
  <2>7. \A k \in 1..Len(fetched) : fetched[k].id # i
    BY <2>5, <2>6 DEF PageInLog
  <2>8. Brings(i, Key(r), fetched, log)
    BY <2>5, <2>7 DEF Brings
  <2>9. i >= j
    BY <2>5, <2>6
  <2> QED
    BY <2>8, <2>9
<1> QED
  BY <1>1, <1>2 DEF Brings

\* The rest of a page.
Shorter(short, fetched) == \A n \in 1..Len(short) : \E k \in 1..Len(fetched) : short[n] = fetched[k]

LEMMA BringsLater ==
  ASSUME NEW fetched, NEW short, Shorter(short, fetched), NEW log, NEW m, NEW rest,
         Cut(log, m, rest), NEW k, NEW i \in DOMAIN log, i # m, Brings(i, k, fetched, log)
  PROVE  i \in DOMAIN rest /\ Brings(i, k, short, rest)
<1>1. i \in DOMAIN rest /\ rest[i] = log[i]
  BY CutIs
<1>2. ASSUME NEW n \in 1..Len(short), short[n].id = i, short[n].type = "FILE_ADDED"
      PROVE  \A x \in short[n].data : \E r \in x.contents : Key(r) = k
  <2>1. PICK l \in 1..Len(fetched) : short[n] = fetched[l]
    BY DEF Shorter
  <2> QED
    BY <1>2, <2>1 DEF Brings
<1>3. ContentAdded(rest[i], k)
  BY <1>1 DEF Brings
<1> QED
  BY <1>1, <1>2, <1>3 DEF Brings

\* An event that is no reason for a record to go is not missed.
LEMMA ContentFollowsCut ==
  ASSUME NEW log, NEW m, NEW rest, Cut(log, m, rest), NEW C, NEW F, NEW r,
         ContentFollows(r, C, F, log), ~ContentGone(log[m], r),
         Of(log[m], "FILE_UPDATED", r.file) /\ r.file \in DOMAIN F =>
           \E j \in DOMAIN log : Of(log[j], "FILE_ADDED", r.file)
  PROVE  ContentFollows(r, C, F, rest)
<1> USE CutIs
<1>1. CASE r \in C
  BY <1>1 DEF ContentFollows
<1>2. ASSUME NEW i \in DOMAIN log, ContentGone(log[i], r),
             HasContent(C, Key(r)) => \E j \in DOMAIN log : j >= i /\ ContentAdded(log[j], Key(r))
      PROVE  ContentFollows(r, C, F, rest)
  <2>1. i # m /\ i \in DOMAIN rest /\ rest[i] = log[i]
    BY <1>2
  <2>2. HasContent(C, Key(r)) => \E j \in DOMAIN rest : j >= i /\ ContentAdded(rest[j], Key(r))
    BY <1>2, <2>1
  <2> QED
    BY <1>2, <2>1, <2>2 DEF ContentFollows, HasContent
<1>3. CASE FileReplaced(r, F, log)
  <2>1. PICK i \in DOMAIN log :
          /\ Of(log[i], "FILE_UPDATED", r.file)
          /\ \A j \in DOMAIN log : Of(log[j], "FILE_ADDED", r.file) => j < i
    BY <1>3 DEF FileReplaced
  <2>2. i # m
    <3> SUFFICES ASSUME i = m PROVE FALSE
      OBVIOUS
    <3>1. PICK j \in DOMAIN log : Of(log[j], "FILE_ADDED", r.file)
      BY <1>3, <2>1 DEF FileReplaced
    <3>2. j < m
      BY <2>1, <3>1
    <3> QED
      BY <3>2 DEF Cut
  <2>3. \A j \in DOMAIN rest : Of(rest[j], "FILE_ADDED", r.file) => j < i
    BY <2>1
  <2>4. i \in DOMAIN rest /\ Of(rest[i], "FILE_UPDATED", r.file)
    BY <2>1, <2>2
  <2> QED
    BY <1>3, <2>3, <2>4 DEF ContentFollows, FileReplaced
<1> QED
  BY <1>1, <1>2, <1>3 DEF ContentFollows, HasContent

LEMMA ContentsLost ==
  ASSUME NEW list, NEW lost, NEW C, NEW F, NEW fetched, NEW short, NEW log, NEW m, NEW rest,
         NEW K, NEW M,
         Cut(log, m, rest), ContentsOwned(C, F), ContentsTold(C, log),
         PageInLog(fetched, log), PageMatches(fetched, log), PageFollows(fetched, C, F, log),
         DOMAIN log \subseteq Int, Len(fetched) \in Nat, Shorter(short, fetched),
         ContentsFollow(list, C, F, fetched, log),
         log[m].type \notin {"FILE_ADDED", "FILE_UPDATED", "CONTENT_UPDATED"},
         Loses(lost, list, K, M),
         \A k \in DOMAIN list : k \in K <=> ContentGone(log[m], list[k].info)
  PROVE  ContentsFollow(lost, C, F, short, rest)
<1> USE LiveIs, CutIs
<1>1. /\ Flagged(lost) /\ \A k \in DOMAIN lost : Key(lost[k].info) = k
      /\ \A k \in Live(lost) : k \in Live(list) /\ k \notin K /\ lost[k].info = list[k].info
  BY DEF Loses, ContentsFollow
<1>2. \A k \in Live(lost) : ContentFollows(lost[k].info, C, F, rest)
  <2> SUFFICES ASSUME NEW k \in Live(lost) PROVE ContentFollows(list[k].info, C, F, rest)
    BY <1>1
  <2>1. ContentFollows(list[k].info, C, F, log) /\ ~ContentGone(log[m], list[k].info)
    BY <1>1 DEF ContentsFollow
  <2>2. ~Of(log[m], "FILE_UPDATED", list[k].info.file)
    BY DEF Of
  <2> QED
    BY <2>1, <2>2, ContentFollowsCut
<1>3. \A k : ~ContentAdded(log[m], k)
  BY DEF ContentAdded, ContentTold, Of
<1>4. ASSUME NEW r \in C, Key(r) \notin Live(lost)
      PROVE  \E i \in DOMAIN rest : Brings(i, Key(r), short, rest)
  <2>1. ASSUME NEW j \in DOMAIN log, ContentAdded(log[j], Key(r))
        PROVE  \E i \in DOMAIN rest : Brings(i, Key(r), short, rest)
    <3>1. PICK i \in DOMAIN log : i >= j /\ Brings(i, Key(r), fetched, log)
      BY <2>1, AdderBrings
    <3>2. i # m
      BY <1>3, <3>1 DEF Brings
    <3> QED
      BY <3>1, <3>2, BringsLater
  <2>2. CASE Key(r) \in Live(list)
    <3> DEFINE info == list[Key(r)].info
    <3>1. ContentGone(log[m], info) /\ Key(info) = Key(r) /\ ContentFollows(info, C, F, log)
      BY <1>4, <2>2 DEF Loses, ContentsFollow
    <3> HIDE DEF info
    <3>2. CASE info \in C
      <4>1. \E j \in DOMAIN log : ContentAdded(log[j], Key(info))
        BY <3>1, <3>2 DEF ContentsTold
      <4> QED
        BY <2>1, <3>1, <4>1
    <3>3. ASSUME NEW i \in DOMAIN log,
                 (\E s \in C : Key(s) = Key(info))
                   => \E j \in DOMAIN log : j >= i /\ ContentAdded(log[j], Key(info))
          PROVE  \E n \in DOMAIN rest : Brings(n, Key(r), short, rest)
      <4>1. \E j \in DOMAIN log : ContentAdded(log[j], Key(info))
        BY <3>1, <3>3
      <4> QED
        BY <2>1, <3>1, <4>1
    <3>4. CASE FileReplaced(info, F, log)
      <4>1. PICK i \in DOMAIN log : Of(log[i], "FILE_UPDATED", info.file)
        BY <3>4 DEF FileReplaced
      <4>2. ContentAdded(log[i], Key(r))
        BY <3>1, <4>1, KeyIs DEF ContentAdded
      <4> QED
        BY <2>1, <4>2
    <3> QED
      BY <3>1, <3>2, <3>3, <3>4 DEF ContentFollows
  <2>3. CASE Key(r) \notin Live(list)
    <3>1. \E i \in DOMAIN log : Brings(i, Key(r), fetched, log)
      BY <2>3 DEF ContentsFollow
    <3> QED
      BY <2>1, <3>1 DEF Brings
  <2> QED
    BY <2>2, <2>3
<1> QED
  BY <1>1, <1>2, <1>4 DEF ContentsFollow

\* addCachedContent() for some records: a record that is live stays, and there is one
\* of the new ones under every other key of theirs.
Filled(new, list, S) ==
  /\ Flagged(new)
  /\ \A k \in DOMAIN new : (k \in DOMAIN list /\ new[k] = list[k]) \/ Key(new[k].info) = k
  /\ \A k \in Live(list) : k \in Live(new) /\ new[k] = list[k]
  /\ \A k \in Live(new) \ Live(list) : new[k].info \in S
  /\ \A r \in S : Key(r) \in Live(new)

LEMMA ContentsFilled ==
  ASSUME NEW list, NEW base, NEW new, NEW C, NEW F, NEW fetched, NEW short, NEW log, NEW m,
         NEW rest, NEW S,
         Cut(log, m, rest), Shorter(short, fetched), ContentsFollow(list, C, F, fetched, log),
         log[m].type \in {"FILE_ADDED", "FILE_UPDATED"},
         \A k \in DOMAIN base : k \in DOMAIN list /\ base[k].info = list[k].info,
         \A k \in Live(base) : k \in Live(list) /\
           (Of(log[m], "FILE_UPDATED", list[k].info.file) /\ list[k].info.file \in DOMAIN F =>
              \E j \in DOMAIN log : Of(log[j], "FILE_ADDED", list[k].info.file)),
         \A r \in C : Key(r) \in Live(list) => Key(r) \in Live(base) \/ r \in S,
         Filled(new, base, S),
         \A r \in S : ContentFollows(r, C, F, rest),
         \A r \in C : Brings(m, Key(r), fetched, log) => \E s \in S : Key(s) = Key(r)
  PROVE  ContentsFollow(new, C, F, short, rest)
<1> USE LiveIs, CutIs
<1>1. Flagged(new) /\ \A k \in DOMAIN new : Key(new[k].info) = k
  BY DEF Filled, ContentsFollow
<1>2. ASSUME NEW k \in Live(new) PROVE ContentFollows(new[k].info, C, F, rest)
  <2>1. CASE k \in Live(base)
    <3>1. k \in Live(list) /\ new[k].info = list[k].info
      BY <2>1 DEF Filled
    <3>2. ~ContentGone(log[m], list[k].info)
      BY DEF ContentGone, FileGone, OwnerGone, ContentTold, Of
    <3>3. ContentFollows(list[k].info, C, F, log)
      BY <3>1 DEF ContentsFollow
    <3>4. Of(log[m], "FILE_UPDATED", list[k].info.file) /\ list[k].info.file \in DOMAIN F =>
            \E j \in DOMAIN log : Of(log[j], "FILE_ADDED", list[k].info.file)
      BY <2>1
    <3>5. ContentFollows(list[k].info, C, F, rest)
      BY ONLY Cut(log, m, rest), <3>2, <3>3, <3>4, ContentFollowsCut
    <3> QED
      BY <3>1, <3>5
  <2>2. CASE k \notin Live(base)
    BY <2>2 DEF Filled
  <2> QED
    BY <2>1, <2>2
<1>3. ASSUME NEW r \in C, Key(r) \notin Live(new)
      PROVE  \E i \in DOMAIN rest : Brings(i, Key(r), short, rest)
  <2>1. Key(r) \notin Live(list)
    BY <1>3 DEF Filled
  <2>2. PICK i \in DOMAIN log : Brings(i, Key(r), fetched, log)
    BY <2>1 DEF ContentsFollow
  <2>3. i # m
    BY <1>3, <2>2 DEF Filled
  <2> QED
    BY <2>2, <2>3, BringsLater
<1> QED
  BY <1>1, <1>2, <1>3 DEF ContentsFollow

\* The handler of an update of a record, which reads the record again.
LEMMA ContentRead ==
  ASSUME NEW list, NEW new, NEW C, NEW F, NEW fetched, NEW short, NEW log, NEW m, NEW rest, NEW k,
         Cut(log, m, rest), Shorter(short, fetched), ContentsOwned(C, F),
         ContentsFollow(list, C, F, fetched, log),
         log[m].type = "CONTENT_UPDATED", <<log[m].id1, log[m].id2>> = k,
         Flagged(new),
         \A x \in DOMAIN new :
           /\ x = k => new[x].info \in C /\ Key(new[x].info) = k
           /\ x # k => x \in DOMAIN list /\ new[x] = list[x],
         \A x \in Live(list) : x # k => x \in Live(new),
         \A r \in C : Key(r) = k => k \in Live(new)
  PROVE  ContentsFollow(new, C, F, short, rest)
<1> USE LiveIs, CutIs
<1>1. \A x \in DOMAIN new : Key(new[x].info) = x
  BY DEF ContentsFollow
<1>2. ASSUME NEW x \in Live(new) PROVE ContentFollows(new[x].info, C, F, rest)
  <2>1. CASE x = k
    BY <2>1 DEF ContentFollows
  <2>2. CASE x # k
    <3>1. x \in Live(list) /\ new[x].info = list[x].info /\ Key(list[x].info) = x
      BY <2>2 DEF ContentsFollow
    <3>2. ~ContentGone(log[m], list[x].info)
      BY <2>2, <3>1 DEF ContentGone, FileGone, OwnerGone, ContentTold, Of
    <3>3. ContentFollows(list[x].info, C, F, log)
      BY <3>1 DEF ContentsFollow
    <3>4. ~Of(log[m], "FILE_UPDATED", list[x].info.file)
      BY DEF Of
    <3>5. ContentFollows(list[x].info, C, F, rest)
      BY ONLY Cut(log, m, rest), <3>2, <3>3, <3>4, ContentFollowsCut
    <3> QED
      BY <3>1, <3>5
  <2> QED
    BY <2>1, <2>2
<1>3. ASSUME NEW r \in C, Key(r) \notin Live(new)
      PROVE  \E i \in DOMAIN rest : Brings(i, Key(r), short, rest)
  <2>1. Key(r) # k /\ Key(r) \notin Live(list)
    BY <1>3
  <2>2. PICK i \in DOMAIN log : Brings(i, Key(r), fetched, log)
    BY <2>1 DEF ContentsFollow
  <2>3. i # m
    BY <2>1, <2>2 DEF Brings, ContentAdded, ContentTold, Of
  <2> QED
    BY <2>2, <2>3, BringsLater
<1> QED
  BY <1>1, <1>2, <1>3 DEF ContentsFollow

-----------------------------------------------------------------------------
(* The data of the fetched events.                                          *)

LEMMA PageFollowsStep ==
  ASSUME NEW C, NEW F, NEW D, NEW F2, NEW E, NEW log, NEW new, NEW fetched,
         ContentsCall(C, F, D, F2, E), Grown(log, new, E),
         PageInLog(fetched, log), Len(fetched) \in Nat, PageFollows(fetched, C, F, log)
  PROVE  PageFollows(fetched, D, F2, new)
<1> SUFFICES ASSUME NEW n \in 1..Len(fetched), fetched[n].type = "FILE_ADDED",
                    NEW x \in fetched[n].data
             PROVE  DataFollows(fetched[n], x, fetched[Len(fetched)].id, D, F2, new)
  BY DEF PageFollows
<1> DEFINE h == fetched[n]
           last == fetched[Len(fetched)].id
<1>1. h.id \in DOMAIN log /\ last \in DOMAIN log
  <2>1. Len(fetched) \in 1..Len(fetched)
    OBVIOUS
  <2> QED
    BY <2>1 DEF PageInLog
<1>2. DataFollows(h, x, last, C, F, log)
  BY DEF PageFollows
<1> HIDE DEF h, last
<1>3. Grown(After(log, h.id), After(new, h.id), E)
  BY <1>1, GrownAfter
<1>4. FileFollows(h.id1, x.file, F2, After(new, h.id))
  <2>1. FileFollows(h.id1, x.file, F, After(log, h.id)) /\ FilesCall(F, F2, E)
    BY <1>2 DEF DataFollows, ContentsCall
  <2> QED
    BY ONLY <1>3, <2>1, FileFollowsStep
<1>5. \A r \in x.contents : r.file = h.id1 /\ ContentFollows(r, D, F2, After(new, h.id))
  <2> SUFFICES ASSUME NEW r \in x.contents
               PROVE  r.file = h.id1 /\ ContentFollows(r, D, F2, After(new, h.id))
    OBVIOUS
  <2>1. r.file = h.id1 /\ ContentFollows(r, C, F, After(log, h.id))
    BY <1>2 DEF DataFollows
  <2>2. ContentFollows(r, D, F2, After(new, h.id))
    BY ONLY ContentsCall(C, F, D, F2, E), <1>3, <2>1, ContentFollowsStep
  <2> QED
    BY <2>1, <2>2
<1>6. ASSUME h.id3 > 0, NEW r \in D, r.file = h.id1, ~\E s \in x.contents : Key(s) = Key(r)
      PROVE  \E i \in DOMAIN new : i > last /\ ContentAdded(new[i], Key(r))
  <2>1. CASE r \in C
    <3>1. \E i \in DOMAIN log : i > last /\ ContentAdded(log[i], Key(r))
      BY <1>2, <1>6, <2>1 DEF DataFollows
    <3> QED
      BY <3>1, GrownIs
  <2>2. CASE r \notin C
    <3>1. PICK e \in E : ContentAdded(e, Key(r))
      BY <2>2 DEF ContentsCall
    <3> QED
      BY <1>1, <3>1, GrownIs
  <2> QED
    BY <2>1, <2>2
<1>7. DataFollows(h, x, last, D, F2, new)
  BY <1>4, <1>5, <1>6 DEF DataFollows
<1> QED
  BY <1>7 DEF h, last

\* The page goes on with the events after the first one.
Shortened(short, fetched, m) ==
  /\ Len(short) \in Nat /\ Len(fetched) \in Nat
  /\ \A n \in 1..Len(short) :
       /\ \E k \in 1..Len(fetched) : short[n] = fetched[k] /\ fetched[k].id > m
       /\ short[Len(short)] = fetched[Len(fetched)]

LEMMA PageFollowsCut ==
  ASSUME NEW C, NEW F, NEW log, NEW m, NEW rest, NEW fetched, NEW short,
         Cut(log, m, rest), PageInLog(fetched, log), PageFollows(fetched, C, F, log),
         PageMatches(fetched, log), Shortened(short, fetched, m)
  PROVE  PageFollows(short, C, F, rest) /\ PageMatches(short, rest)
<1>1. ASSUME NEW n \in 1..Len(short)
      PROVE  /\ short[n].id \in DOMAIN rest /\ Matches(short[n], rest[short[n].id])
             /\ short[n].type # "CLEAR"
             /\ short[n].type = "CONTENT_UPDATED" => short[n].data = {}
  <2>1. PICK k \in 1..Len(fetched) : short[n] = fetched[k] /\ fetched[k].id > m
    BY DEF Shortened
  <2>2. /\ fetched[k].id \in DOMAIN log /\ Matches(fetched[k], log[fetched[k].id])
        /\ fetched[k].type # "CLEAR"
        /\ fetched[k].type = "CONTENT_UPDATED" => fetched[k].data = {}
    BY DEF PageMatches
  <2>3. fetched[k].id \in DOMAIN rest /\ rest[fetched[k].id] = log[fetched[k].id]
    BY <2>1, <2>2 DEF Cut
  <2> QED
    BY <2>1, <2>2, <2>3
<1>2. ASSUME NEW n \in 1..Len(short), short[n].type = "FILE_ADDED", NEW x \in short[n].data
      PROVE  DataFollows(short[n], x, short[Len(short)].id, C, F, rest)
  <2>1. PICK k \in 1..Len(fetched) : short[n] = fetched[k] /\ fetched[k].id > m
    BY DEF Shortened
  <2> DEFINE h == fetched[k]
             last == fetched[Len(fetched)].id
  <2>2. short[Len(short)].id = last
    BY DEF Shortened
  <2>3. DataFollows(h, x, last, C, F, log)
    BY <1>2, <2>1 DEF PageFollows
  <2>4. h.id \in DOMAIN log /\ h.id > m /\ ~(h.id > last)
    BY <2>1 DEF PageInLog
  <2>5. last \in DOMAIN log
    <3>1. Len(fetched) \in 1..Len(fetched)
      BY DEF Shortened
    <3> QED
      BY <3>1 DEF PageInLog
  <2>6. After(rest, h.id) = After(log, h.id)
    <3>1. h.id \in DOMAIN log
      BY <2>4
    <3>2. {i \in DOMAIN rest : i > h.id} = {i \in DOMAIN log : i > h.id}
      BY <2>4 DEF Cut
    <3>3. \A i \in {y \in DOMAIN rest : y > h.id} : rest[i] = log[i]
      BY DEF Cut
    <3> QED
      BY <3>2, <3>3 DEF After
  <2> HIDE DEF h, last
  <2>7. \A i \in DOMAIN log : i > last => i \in DOMAIN rest /\ rest[i] = log[i]
    BY <2>4, <2>5 DEF Cut
  <2>8. DataFollows(h, x, last, C, F, rest)
    BY <2>3, <2>6, <2>7 DEF DataFollows
  <2> QED
    BY <2>1, <2>2, <2>8 DEF h
<1> QED
  BY <1>1, <1>2 DEF PageFollows, PageMatches

-----------------------------------------------------------------------------
(* The handlers of the events that remove records.                          *)

Sound(c) == ListsOK(c) /\ \A t \in Tables : Flagged(c.lists[t])

\* The other lists stay.
Only(t, d, c) == \A u \in Tables : u # t => d.lists[u] = c.lists[u]

LEMMA MarkLoses ==
  ASSUME NEW c, Sound(c), NEW t \in Tables, NEW K, IsFiniteSet(K)
  PROVE  LET d == Mark(c, t, K)
         IN Sound(d) /\ Only(t, d, c) /\ Loses(d.lists[t], c.lists[t], K, K)
<1> DEFINE d == Mark(c, t, K)
           old == c.lists[t]
           new == d.lists[t]
<1>0. /\ c = [lists |-> c.lists, counters |-> c.counters]
      /\ DOMAIN c.lists = Tables /\ DOMAIN c.counters = Tables /\ Flagged(old)
  BY DEF Sound, ListsOK
<1>1. /\ \A u \in Tables : u # t => d.lists[u] = c.lists[u]
      /\ DOMAIN new = DOMAIN old
      /\ \A k \in DOMAIN old : k \notin K => new[k] = old[k]
      /\ \A k \in DOMAIN old \cap K : new[k] = [old[k] EXCEPT !.deleted = TRUE]
  BY <1>0, MarkUpdates
<1>2. ListsOK(d)
  BY MarkIs DEF Sound
<1> HIDE DEF d, old, new
<1>3. \A k \in DOMAIN old : k \in K => new[k] = [info |-> old[k].info, deleted |-> TRUE]
  <2> SUFFICES ASSUME NEW k \in DOMAIN old, k \in K
               PROVE  new[k] = [info |-> old[k].info, deleted |-> TRUE]
    OBVIOUS
  <2>1. old[k] = [info |-> old[k].info, deleted |-> old[k].deleted]
    BY <1>0 DEF Flagged
  <2>2. new[k] = [old[k] EXCEPT !.deleted = TRUE]
    BY <1>1
  <2> QED
    BY <2>1, <2>2
<1>4. \A k \in DOMAIN old : k \notin K => new[k] = old[k]
  BY <1>1
<1>5. Flagged(new)
  BY <1>0, <1>1, <1>3, <1>4 DEF Flagged
<1>6. /\ \A k \in DOMAIN new : new[k].info = old[k].info
      /\ Live(new) = Live(old) \ K /\ Marked(new) \subseteq Marked(old) \cup K
  BY <1>1, <1>3, <1>4, LiveIs
<1>7. Loses(new, old, K, K)
  BY <1>1, <1>5, <1>6 DEF Loses
<1>8. \A u \in Tables : Flagged(d.lists[u])
  BY <1>1, <1>5 DEF Sound, new
<1> QED
  BY <1>1, <1>2, <1>7, <1>8 DEF Sound, Only, d, new, old

LEMMA EraseLoses ==
  ASSUME NEW c, Sound(c), NEW t \in Tables, NEW K, IsFiniteSet(K)
  PROVE  LET d == Erase(c, t, K)
         IN Sound(d) /\ Only(t, d, c) /\ Loses(d.lists[t], c.lists[t], K, {})
<1> DEFINE d == Erase(c, t, K)
           old == c.lists[t]
           new == d.lists[t]
<1>0. /\ c = [lists |-> c.lists, counters |-> c.counters]
      /\ DOMAIN c.lists = Tables /\ DOMAIN c.counters = Tables /\ Flagged(old)
  BY DEF Sound, ListsOK
<1>1. /\ \A u \in Tables : u # t => d.lists[u] = c.lists[u]
      /\ DOMAIN new = DOMAIN old \ K
      /\ \A k \in DOMAIN new : new[k] = old[k]
  BY <1>0, EraseUpdates
<1>2. ListsOK(d)
  BY EraseIs DEF Sound
<1> HIDE DEF d, old, new
<1>3. Flagged(new)
  BY <1>0, <1>1 DEF Flagged
<1>4. Live(new) = Live(old) \ K /\ Marked(new) \subseteq Marked(old)
  BY <1>1, LiveIs
<1>5. Loses(new, old, K, {})
  BY <1>1, <1>3, <1>4 DEF Loses
<1>6. \A u \in Tables : Flagged(d.lists[u])
  BY <1>1, <1>3 DEF Sound, new
<1> QED
  BY <1>1, <1>2, <1>5, <1>6 DEF Sound, Only, d, new, old

LEMMA MarkByLoses ==
  ASSUME NEW c, Sound(c), NEW t \in Tables, NEW field, NEW id
  PROVE  LET d == MarkBy(c, t, field, id)
             K == Where(c.lists[t], field, id)
         IN Sound(d) /\ Only(t, d, c) /\ Loses(d.lists[t], c.lists[t], K, K)
<1> DEFINE K == Where(c.lists[t], field, id)
<1>1. IsFiniteSet(K)
  BY SomeRecords DEF Sound
<1>2. MarkBy(c, t, field, id) = Mark(c, t, K)
  BY DEF MarkBy
<1> HIDE DEF K
<1>3. LET d == Mark(c, t, K)
      IN Sound(d) /\ Only(t, d, c) /\ Loses(d.lists[t], c.lists[t], K, K)
  BY <1>1, MarkLoses
<1> QED
  BY <1>2, <1>3 DEF K

LEMMA MarkOneLoses ==
  ASSUME NEW c, Sound(c), NEW t \in Tables, NEW k
  PROVE  LET d == MarkOne(c, t, k)
             K == {k} \cap Live(c.lists[t])
         IN Sound(d) /\ Only(t, d, c) /\ Loses(d.lists[t], c.lists[t], K, K)
<1> DEFINE K == {k} \cap Live(c.lists[t])
<1>1. IsFiniteSet(K)
  <2>1. K \subseteq DOMAIN c.lists[t]
    BY DEF Live
  <2> QED
    BY <2>1, SomeRecords DEF Sound
<1>2. MarkOne(c, t, k) = Mark(c, t, K)
  BY DEF MarkOne
<1> HIDE DEF K
<1>3. LET d == Mark(c, t, K)
      IN Sound(d) /\ Only(t, d, c) /\ Loses(d.lists[t], c.lists[t], K, K)
  BY <1>1, MarkLoses
<1> QED
  BY <1>2, <1>3 DEF K

\* The same loss, by other sets.
LEMMA LosesSame ==
  ASSUME NEW new, NEW old, NEW K, NEW M, Loses(new, old, K, M), NEW K2, NEW M2,
         \A k \in Live(old) : k \in K <=> k \in K2,
         \A k \in M : k \in DOMAIN old => k \in M2
  PROVE  Loses(new, old, K2, M2)
<1>1. Live(new) = Live(old) \ K2
  BY DEF Loses
<1>2. Marked(new) \subseteq Marked(old) \cup M2
  BY LiveIs DEF Loses
<1> QED
  BY <1>1, <1>2 DEF Loses

LEMMA LosesNone ==
  ASSUME NEW list, Flagged(list), NEW K, NEW M, \A k \in Live(list) : k \notin K
  PROVE  Loses(list, list, K, M)
BY DEF Loses

\* What an event removes of the lists, and where it may leave marks.
LostProducers(list, e) == {q \in DOMAIN list : Of(e, "PRODUCER_DELETED", q)}
LostGenerations(list, e) == {g \in DOMAIN list : OwnerGone(e, list[g].info.producer, g)}
GenerationMarks(list, e) ==
  {g \in DOMAIN list : Of(e, "PRODUCER_DELETED", list[g].info.producer)}
LostGeometries(list, e) ==
  {k \in DOMAIN list : GeometryGone(e, k, list[k].info.producer)}
GeometryMarks(list, e) ==
  {k \in DOMAIN list : \/ Of(e, "PRODUCER_DELETED", list[k].info.producer)
                       \/ Of(e, "GENERATION_DELETED", k[1])}
LostFiles(list, e) == {f \in DOMAIN list : FileGone(e, f, list[f].info)}
LostContents(list, e) == {k \in DOMAIN list : ContentGone(e, list[k].info)}

LoseProducers(d, c, e) ==
  LET list == c.lists["producers"]
  IN Loses(d.lists["producers"], list, LostProducers(list, e), LostProducers(list, e))
LoseGenerations(d, c, e) ==
  LET list == c.lists["generations"]
  IN Loses(d.lists["generations"], list, LostGenerations(list, e), GenerationMarks(list, e))
LoseGeometries(d, c, e) ==
  LET list == c.lists["geometries"]
  IN Loses(d.lists["geometries"], list, LostGeometries(list, e), GeometryMarks(list, e))
LoseFiles(d, c, e) ==
  LET list == c.lists["files"]
  IN Loses(d.lists["files"], list, LostFiles(list, e), DOMAIN list)
LoseContents(d, c, e) ==
  LET list == c.lists["contents"]
  IN Loses(d.lists["contents"], list, LostContents(list, e), DOMAIN list)

Removed(d, c, e) ==
  /\ LoseProducers(d, c, e) /\ LoseGenerations(d, c, e) /\ LoseGeometries(d, c, e)
  /\ LoseFiles(d, c, e) /\ LoseContents(d, c, e)

\* The keys are those of the records.
KeysFit(c) ==
  /\ \A k \in DOMAIN c.lists["geometries"] : GeometryKey(c.lists["geometries"][k].info) = k
  /\ \A k \in DOMAIN c.lists["contents"] : Key(c.lists["contents"][k].info) = k

Removers ==
  {"PRODUCER_DELETED", "GENERATION_DELETED", "GENERATION_LIST_DELETED_BY_PRODUCER_ID",
   "FILE_DELETED", "FILE_LIST_DELETED_BY_PRODUCER_ID", "FILE_LIST_DELETED_BY_GENERATION_ID",
   "CONTENT_LIST_DELETED_BY_FILE_ID", "CONTENT_LIST_DELETED_BY_PRODUCER_ID",
   "CONTENT_LIST_DELETED_BY_GENERATION_ID", "CONTENT_DELETED", "GEOMETRY_DELETED",
   "GEOMETRY_LIST_DELETED_BY_GENERATION_ID", "GEOMETRY_LIST_DELETED_BY_PRODUCER_ID"}

\* A list that the event does not concern.
LEMMA Unconcerned ==
  ASSUME NEW c, Sound(c), NEW d, NEW e, NEW t \in Tables, d.lists[t] = c.lists[t]
  PROVE  /\ t = "producers" /\ e.type # "PRODUCER_DELETED" => LoseProducers(d, c, e)
         /\ t = "generations" /\ e.type \notin {"PRODUCER_DELETED", "GENERATION_DELETED",
                  "GENERATION_LIST_DELETED_BY_PRODUCER_ID"} => LoseGenerations(d, c, e)
         /\ t = "geometries" /\ e.type \notin {"PRODUCER_DELETED", "GENERATION_DELETED",
                  "GENERATION_LIST_DELETED_BY_PRODUCER_ID", "GEOMETRY_DELETED",
                  "GEOMETRY_LIST_DELETED_BY_GENERATION_ID",
                  "GEOMETRY_LIST_DELETED_BY_PRODUCER_ID"} => LoseGeometries(d, c, e)
         /\ t = "files" /\ e.type \notin {"PRODUCER_DELETED", "GENERATION_DELETED",
                  "GENERATION_LIST_DELETED_BY_PRODUCER_ID", "FILE_DELETED",
                  "FILE_LIST_DELETED_BY_PRODUCER_ID", "FILE_LIST_DELETED_BY_GENERATION_ID"}
              => LoseFiles(d, c, e)
         /\ t = "contents" /\ e.type \notin (Removers \ {"GEOMETRY_LIST_DELETED_BY_GENERATION_ID",
                  "GEOMETRY_LIST_DELETED_BY_PRODUCER_ID"}) \cup {"CONTENT_UPDATED"}
              => LoseContents(d, c, e)
<1>1. Flagged(c.lists[t])
  BY DEF Sound
<1>2. t = "producers" /\ e.type # "PRODUCER_DELETED" => LoseProducers(d, c, e)
  BY <1>1, LosesNone DEF LoseProducers, LostProducers, Of
<1>3. t = "generations" /\ e.type \notin {"PRODUCER_DELETED", "GENERATION_DELETED",
         "GENERATION_LIST_DELETED_BY_PRODUCER_ID"} => LoseGenerations(d, c, e)
  BY <1>1, LosesNone DEF LoseGenerations, LostGenerations, OwnerGone, Of
<1>4. t = "geometries" /\ e.type \notin {"PRODUCER_DELETED", "GENERATION_DELETED",
         "GENERATION_LIST_DELETED_BY_PRODUCER_ID", "GEOMETRY_DELETED",
         "GEOMETRY_LIST_DELETED_BY_GENERATION_ID",
         "GEOMETRY_LIST_DELETED_BY_PRODUCER_ID"} => LoseGeometries(d, c, e)
  BY <1>1, LosesNone DEF LoseGeometries, LostGeometries, GeometryGone, GeometryTold, OwnerGone, Of
<1>5. t = "files" /\ e.type \notin {"PRODUCER_DELETED", "GENERATION_DELETED",
         "GENERATION_LIST_DELETED_BY_PRODUCER_ID", "FILE_DELETED",
         "FILE_LIST_DELETED_BY_PRODUCER_ID", "FILE_LIST_DELETED_BY_GENERATION_ID"}
        => LoseFiles(d, c, e)
  BY <1>1, LosesNone DEF LoseFiles, LostFiles, FileGone, OwnerGone, Of
<1>6. t = "contents" /\ e.type \notin (Removers \ {"GEOMETRY_LIST_DELETED_BY_GENERATION_ID",
         "GEOMETRY_LIST_DELETED_BY_PRODUCER_ID"}) \cup {"CONTENT_UPDATED"}
        => LoseContents(d, c, e)
  BY <1>1, LosesNone DEF LoseContents, LostContents, ContentGone, ContentTold, FileGone, OwnerGone,
                         Of, Removers
<1> QED
  BY <1>2, <1>3, <1>4, <1>5, <1>6

LEMMA ProducerDeletedRemoves ==
  ASSUME NEW c, Sound(c), KeysFit(c), NEW e, e.type = "PRODUCER_DELETED"
  PROVE  LET d == event_producerDeleted(c, e.id1) IN Sound(d) /\ Removed(d, c, e)
<1> DEFINE Kcontents == Where(c.lists["contents"], "producer", e.id1)
           c1 == MarkBy(c, "contents", "producer", e.id1)
           Kfiles == Where(c.lists["files"], "producer", e.id1)
           c2 == MarkBy(c1, "files", "producer", e.id1)
           Kgeometries == Where(c.lists["geometries"], "producer", e.id1)
           c3 == MarkBy(c2, "geometries", "producer", e.id1)
           Kgenerations == Where(c.lists["generations"], "producer", e.id1)
           c4 == MarkBy(c3, "generations", "producer", e.id1)
           Kproducers == {e.id1} \cap Live(c.lists["producers"])
           d == MarkOne(c4, "producers", e.id1)
<1>1. d = event_producerDeleted(c, e.id1)
  BY DEF event_producerDeleted
<1>2. Sound(c1) /\ Only("contents", c1, c)
      /\ Loses(c1.lists["contents"], c.lists["contents"],
               Where(c.lists["contents"], "producer", e.id1),
               Where(c.lists["contents"], "producer", e.id1))
  BY TablesAre, MarkByLoses
<1> HIDE DEF c1
<1>3. Sound(c2) /\ Only("files", c2, c1)
      /\ Loses(c2.lists["files"], c1.lists["files"], Where(c1.lists["files"], "producer", e.id1),
               Where(c1.lists["files"], "producer", e.id1))
  BY <1>2, TablesAre, MarkByLoses
<1> HIDE DEF c2
<1>4. Sound(c3) /\ Only("geometries", c3, c2)
      /\ Loses(c3.lists["geometries"], c2.lists["geometries"],
               Where(c2.lists["geometries"], "producer", e.id1),
               Where(c2.lists["geometries"], "producer", e.id1))
  BY <1>3, TablesAre, MarkByLoses
<1> HIDE DEF c3
<1>5. Sound(c4) /\ Only("generations", c4, c3)
      /\ Loses(c4.lists["generations"], c3.lists["generations"],
               Where(c3.lists["generations"], "producer", e.id1),
               Where(c3.lists["generations"], "producer", e.id1))
  BY <1>4, TablesAre, MarkByLoses
<1> HIDE DEF c4
<1>6. Sound(d) /\ Only("producers", d, c4)
      /\ Loses(d.lists["producers"], c4.lists["producers"],
               {e.id1} \cap Live(c4.lists["producers"]), {e.id1} \cap Live(c4.lists["producers"]))
  BY <1>5, TablesAre, MarkOneLoses
<1> HIDE DEF d
<1>7. /\ c4.lists["producers"] = c.lists["producers"]
      /\ d.lists["generations"] = c4.lists["generations"]
      /\ c3.lists["generations"] = c.lists["generations"]
      /\ d.lists["geometries"] = c3.lists["geometries"]
      /\ c2.lists["geometries"] = c.lists["geometries"]
      /\ d.lists["files"] = c2.lists["files"]
      /\ c1.lists["files"] = c.lists["files"]
      /\ d.lists["contents"] = c1.lists["contents"]
  BY <1>2, <1>3, <1>4, <1>5, <1>6, TablesAre DEF Only
<1>8. LoseProducers(d, c, e)
  <2>1. Loses(d.lists["producers"], c.lists["producers"], Kproducers, Kproducers)
    BY <1>6, <1>7 DEF Kproducers
  <2> QED
    BY <2>1, LosesSame, LiveIs DEF LoseProducers, LostProducers, Of, Kproducers, Where, KeysFit
<1>9. LoseGenerations(d, c, e)
  <2>1. Loses(d.lists["generations"], c.lists["generations"], Kgenerations, Kgenerations)
    BY <1>5, <1>7 DEF Kgenerations
  <2> QED
    BY <2>1, LosesSame, LiveIs
       DEF LoseGenerations, LostGenerations, GenerationMarks, OwnerGone, Of, Kgenerations, Where,
           KeysFit
<1>10. LoseGeometries(d, c, e)
  <2>1. Loses(d.lists["geometries"], c.lists["geometries"], Kgeometries, Kgeometries)
    BY <1>4, <1>7 DEF Kgeometries
  <2> QED
    BY <2>1, LosesSame, LiveIs
       DEF LoseGeometries, LostGeometries, GeometryMarks, GeometryGone, GeometryTold, GeometryKey,
           OwnerGone, Of, Kgeometries, Where, KeysFit
<1>11. LoseFiles(d, c, e)
  <2>1. Loses(d.lists["files"], c.lists["files"], Kfiles, Kfiles)
    BY <1>3, <1>7 DEF Kfiles
  <2> QED
    BY <2>1, LosesSame, LiveIs
       DEF LoseFiles, LostFiles, FileGone, OwnerGone, Of, Kfiles, Where, KeysFit
<1>12. LoseContents(d, c, e)
  <2>1. Loses(d.lists["contents"], c.lists["contents"], Kcontents, Kcontents)
    BY <1>2, <1>7 DEF Kcontents
  <2> QED
    BY <2>1, LosesSame, LiveIs
       DEF LoseContents, LostContents, ContentGone, ContentTold, FileGone, OwnerGone, Of,
           Kcontents, Where, KeysFit
<1> QED
  BY <1>1, <1>6, <1>8, <1>9, <1>10, <1>11, <1>12 DEF Removed

LEMMA GenerationDeletedRemoves ==
  ASSUME NEW c, Sound(c), KeysFit(c), NEW e, e.type = "GENERATION_DELETED"
  PROVE  LET d == event_generationDeleted(c, e.id1) IN Sound(d) /\ Removed(d, c, e)
<1> DEFINE Kcontents == Where(c.lists["contents"], "generation", e.id1)
           c1 == MarkBy(c, "contents", "generation", e.id1)
           Kfiles == Where(c.lists["files"], "generation", e.id1)
           c2 == MarkBy(c1, "files", "generation", e.id1)
           Kgeometries == Where(c.lists["geometries"], "generation", e.id1)
           c3 == MarkBy(c2, "geometries", "generation", e.id1)
           Kgenerations == {e.id1} \cap DOMAIN c.lists["generations"]
           d == Erase(c3, "generations", Kgenerations)
<1>1. d = event_generationDeleted(c, e.id1)
  BY DEF event_generationDeleted
<1>2. Sound(c1) /\ Only("contents", c1, c)
      /\ Loses(c1.lists["contents"], c.lists["contents"],
               Where(c.lists["contents"], "generation", e.id1),
               Where(c.lists["contents"], "generation", e.id1))
  BY TablesAre, MarkByLoses
<1> HIDE DEF c1
<1>3. Sound(c2) /\ Only("files", c2, c1)
      /\ Loses(c2.lists["files"], c1.lists["files"],
               Where(c1.lists["files"], "generation", e.id1),
               Where(c1.lists["files"], "generation", e.id1))
  BY <1>2, TablesAre, MarkByLoses
<1> HIDE DEF c2
<1>4. Sound(c3) /\ Only("geometries", c3, c2)
      /\ Loses(c3.lists["geometries"], c2.lists["geometries"],
               Where(c2.lists["geometries"], "generation", e.id1),
               Where(c2.lists["geometries"], "generation", e.id1))
  BY <1>3, TablesAre, MarkByLoses
<1> HIDE DEF c3
<1>5. IsFiniteSet(Kgenerations)
  <2>1. Kgenerations \subseteq DOMAIN c.lists["generations"]
    BY DEF Where, Marked
  <2> HIDE DEF Kgenerations
  <2> QED
    BY <2>1, TablesAre, SomeRecords DEF Sound
<1> HIDE DEF Kgenerations
<1>6. Sound(d) /\ Only("generations", d, c3) /\ Loses(d.lists["generations"],
                                                      c3.lists["generations"], Kgenerations, {})
  BY <1>4, <1>5, TablesAre, EraseLoses
<1> HIDE DEF d
<1>7. /\ d.lists["producers"] = c.lists["producers"]
      /\ c3.lists["generations"] = c.lists["generations"]
      /\ d.lists["geometries"] = c3.lists["geometries"]
      /\ c2.lists["geometries"] = c.lists["geometries"]
      /\ d.lists["files"] = c2.lists["files"]
      /\ c1.lists["files"] = c.lists["files"]
      /\ d.lists["contents"] = c1.lists["contents"]
  BY <1>2, <1>3, <1>4, <1>6, TablesAre DEF Only
<1>8. LoseProducers(d, c, e)
  BY <1>7, Unconcerned, TablesAre DEF Removers
<1>9. LoseGenerations(d, c, e)
  <2>1. Loses(d.lists["generations"], c.lists["generations"], Kgenerations, {})
    BY <1>6, <1>7
  <2> QED
    BY <2>1, LosesSame, LiveIs
       DEF LoseGenerations, LostGenerations, GenerationMarks, OwnerGone, Of, Kgenerations, Where,
           KeysFit
<1>10. LoseGeometries(d, c, e)
  <2>1. Loses(d.lists["geometries"], c.lists["geometries"], Kgeometries, Kgeometries)
    BY <1>4, <1>7 DEF Kgeometries
  <2> QED
    BY <2>1, LosesSame, LiveIs
       DEF LoseGeometries, LostGeometries, GeometryMarks, GeometryGone, GeometryTold, GeometryKey,
           OwnerGone, Of, Kgeometries, Where, KeysFit
<1>11. LoseFiles(d, c, e)
  <2>1. Loses(d.lists["files"], c.lists["files"], Kfiles, Kfiles)
    BY <1>3, <1>7 DEF Kfiles
  <2> QED
    BY <2>1, LosesSame, LiveIs
       DEF LoseFiles, LostFiles, FileGone, OwnerGone, Of, Kfiles, Where, KeysFit
<1>12. LoseContents(d, c, e)
  <2>1. Loses(d.lists["contents"], c.lists["contents"], Kcontents, Kcontents)
    BY <1>2, <1>7 DEF Kcontents
  <2> QED
    BY <2>1, LosesSame, LiveIs
       DEF LoseContents, LostContents, ContentGone, ContentTold, FileGone, OwnerGone, Of,
           Kcontents, Where, KeysFit
<1> QED
  BY <1>1, <1>6, <1>8, <1>9, <1>10, <1>11, <1>12 DEF Removed

LEMMA GenerationListDeletedRemoves ==
  ASSUME NEW c, Sound(c), KeysFit(c), NEW e, e.type = "GENERATION_LIST_DELETED_BY_PRODUCER_ID"
  PROVE  LET d == event_generationListDeletedByProducerId(c, e.id1) IN Sound(d) /\ Removed(d, c, e)
<1> DEFINE Kcontents == Where(c.lists["contents"], "producer", e.id1) \cup Marked(c.lists["contents"])
           c1 == Erase(c, "contents", Kcontents)
           Kfiles == Where(c.lists["files"], "producer", e.id1) \cup Marked(c.lists["files"])
           c2 == Erase(c1, "files", Kfiles)
           Kgeometries == Where(c.lists["geometries"], "producer", e.id1)
           c3 == Erase(c2, "geometries", Kgeometries)
           Kgenerations == Where(c.lists["generations"], "producer", e.id1)
           d == Erase(c3, "generations", Kgenerations)
<1>1. d = event_generationListDeletedByProducerId(c, e.id1)
  BY DEF event_generationListDeletedByProducerId
<1>2. IsFiniteSet(Kcontents)
  <2>1. Kcontents \subseteq DOMAIN c.lists["contents"]
    BY DEF Where, Marked
  <2> HIDE DEF Kcontents
  <2> QED
    BY <2>1, TablesAre, SomeRecords DEF Sound
<1> HIDE DEF Kcontents
<1>3. Sound(c1) /\ Only("contents", c1, c) /\ Loses(c1.lists["contents"], c.lists["contents"],
                                                    Kcontents, {})
  BY <1>2, TablesAre, EraseLoses
<1> HIDE DEF c1
<1>4. IsFiniteSet(Kfiles)
  <2>1. Kfiles \subseteq DOMAIN c.lists["files"]
    BY DEF Where, Marked
  <2> HIDE DEF Kfiles
  <2> QED
    BY <2>1, TablesAre, SomeRecords DEF Sound
<1> HIDE DEF Kfiles
<1>5. Sound(c2) /\ Only("files", c2, c1) /\ Loses(c2.lists["files"], c1.lists["files"], Kfiles, {})
  BY <1>3, <1>4, TablesAre, EraseLoses
<1> HIDE DEF c2
<1>6. IsFiniteSet(Kgeometries)
  <2>1. Kgeometries \subseteq DOMAIN c.lists["geometries"]
    BY DEF Where, Marked
  <2> HIDE DEF Kgeometries
  <2> QED
    BY <2>1, TablesAre, SomeRecords DEF Sound
<1> HIDE DEF Kgeometries
<1>7. Sound(c3) /\ Only("geometries", c3, c2) /\ Loses(c3.lists["geometries"],
                                                       c2.lists["geometries"], Kgeometries, {})
  BY <1>5, <1>6, TablesAre, EraseLoses
<1> HIDE DEF c3
<1>8. IsFiniteSet(Kgenerations)
  <2>1. Kgenerations \subseteq DOMAIN c.lists["generations"]
    BY DEF Where, Marked
  <2> HIDE DEF Kgenerations
  <2> QED
    BY <2>1, TablesAre, SomeRecords DEF Sound
<1> HIDE DEF Kgenerations
<1>9. Sound(d) /\ Only("generations", d, c3) /\ Loses(d.lists["generations"],
                                                      c3.lists["generations"], Kgenerations, {})
  BY <1>7, <1>8, TablesAre, EraseLoses
<1> HIDE DEF d
<1>10. /\ d.lists["producers"] = c.lists["producers"]
      /\ c3.lists["generations"] = c.lists["generations"]
      /\ d.lists["geometries"] = c3.lists["geometries"]
      /\ c2.lists["geometries"] = c.lists["geometries"]
      /\ d.lists["files"] = c2.lists["files"]
      /\ c1.lists["files"] = c.lists["files"]
      /\ d.lists["contents"] = c1.lists["contents"]
  BY <1>3, <1>5, <1>7, <1>9, TablesAre DEF Only
<1>11. LoseProducers(d, c, e)
  BY <1>10, Unconcerned, TablesAre DEF Removers
<1>12. LoseGenerations(d, c, e)
  <2>1. Loses(d.lists["generations"], c.lists["generations"], Kgenerations, {})
    BY <1>9, <1>10
  <2> QED
    BY <2>1, LosesSame, LiveIs
       DEF LoseGenerations, LostGenerations, GenerationMarks, OwnerGone, Of, Kgenerations, Where,
           KeysFit
<1>13. LoseGeometries(d, c, e)
  <2>1. Loses(d.lists["geometries"], c.lists["geometries"], Kgeometries, {})
    BY <1>7, <1>10
  <2> QED
    BY <2>1, LosesSame, LiveIs
       DEF LoseGeometries, LostGeometries, GeometryMarks, GeometryGone, GeometryTold, GeometryKey,
           OwnerGone, Of, Kgeometries, Where, KeysFit
<1>14. LoseFiles(d, c, e)
  <2>1. Loses(d.lists["files"], c.lists["files"], Kfiles, {})
    BY <1>5, <1>10
  <2> QED
    BY <2>1, LosesSame, LiveIs
       DEF LoseFiles, LostFiles, FileGone, OwnerGone, Of, Kfiles, Where, KeysFit
<1>15. LoseContents(d, c, e)
  <2>1. Loses(d.lists["contents"], c.lists["contents"], Kcontents, {})
    BY <1>3, <1>10
  <2> QED
    BY <2>1, LosesSame, LiveIs
       DEF LoseContents, LostContents, ContentGone, ContentTold, FileGone, OwnerGone, Of,
           Kcontents, Where, KeysFit
<1> QED
  BY <1>1, <1>9, <1>11, <1>12, <1>13, <1>14, <1>15 DEF Removed

LEMMA FileDeletedRemoves ==
  ASSUME NEW c, Sound(c), KeysFit(c), NEW e, e.type = "FILE_DELETED"
  PROVE  LET d == event_fileDeleted(c, e.id1) IN Sound(d) /\ Removed(d, c, e)
<1> DEFINE Kcontents == Where(c.lists["contents"], "file", e.id1)
           c1 == MarkBy(c, "contents", "file", e.id1)
           Kfiles == {e.id1} \cap Live(c.lists["files"])
           d == MarkOne(c1, "files", e.id1)
<1>1. d = event_fileDeleted(c, e.id1)
  BY DEF event_fileDeleted
<1>2. Sound(c1) /\ Only("contents", c1, c)
      /\ Loses(c1.lists["contents"], c.lists["contents"],
               Where(c.lists["contents"], "file", e.id1),
               Where(c.lists["contents"], "file", e.id1))
  BY TablesAre, MarkByLoses
<1> HIDE DEF c1
<1>3. Sound(d) /\ Only("files", d, c1)
      /\ Loses(d.lists["files"], c1.lists["files"], {e.id1} \cap Live(c1.lists["files"]),
               {e.id1} \cap Live(c1.lists["files"]))
  BY <1>2, TablesAre, MarkOneLoses
<1> HIDE DEF d
<1>4. /\ d.lists["producers"] = c.lists["producers"]
      /\ d.lists["generations"] = c.lists["generations"]
      /\ d.lists["geometries"] = c.lists["geometries"]
      /\ c1.lists["files"] = c.lists["files"]
      /\ d.lists["contents"] = c1.lists["contents"]
  BY <1>2, <1>3, TablesAre DEF Only
<1>5. LoseProducers(d, c, e)
  BY <1>4, Unconcerned, TablesAre DEF Removers
<1>6. LoseGenerations(d, c, e)
  BY <1>4, Unconcerned, TablesAre DEF Removers
<1>7. LoseGeometries(d, c, e)
  BY <1>4, Unconcerned, TablesAre DEF Removers
<1>8. LoseFiles(d, c, e)
  <2>1. Loses(d.lists["files"], c.lists["files"], Kfiles, Kfiles)
    BY <1>3, <1>4 DEF Kfiles
  <2> QED
    BY <2>1, LosesSame, LiveIs
       DEF LoseFiles, LostFiles, FileGone, OwnerGone, Of, Kfiles, Where, KeysFit
<1>9. LoseContents(d, c, e)
  <2>1. Loses(d.lists["contents"], c.lists["contents"], Kcontents, Kcontents)
    BY <1>2, <1>4 DEF Kcontents
  <2> QED
    BY <2>1, LosesSame, LiveIs
       DEF LoseContents, LostContents, ContentGone, ContentTold, FileGone, OwnerGone, Of,
           Kcontents, Where, KeysFit
<1> QED
  BY <1>1, <1>3, <1>5, <1>6, <1>7, <1>8, <1>9 DEF Removed

LEMMA FilesOfProducerRemoves ==
  ASSUME NEW c, Sound(c), KeysFit(c), NEW e, e.type = "FILE_LIST_DELETED_BY_PRODUCER_ID"
  PROVE  LET d == event_fileListDeletedByProducerId(c, e.id1) IN Sound(d) /\ Removed(d, c, e)
<1> DEFINE Kcontents == Where(c.lists["contents"], "producer", e.id1)
           c1 == MarkBy(c, "contents", "producer", e.id1)
           Kfiles == Where(c.lists["files"], "producer", e.id1)
           d == MarkBy(c1, "files", "producer", e.id1)
<1>1. d = event_fileListDeletedByProducerId(c, e.id1)
  BY DEF event_fileListDeletedByProducerId
<1>2. Sound(c1) /\ Only("contents", c1, c)
      /\ Loses(c1.lists["contents"], c.lists["contents"],
               Where(c.lists["contents"], "producer", e.id1),
               Where(c.lists["contents"], "producer", e.id1))
  BY TablesAre, MarkByLoses
<1> HIDE DEF c1
<1>3. Sound(d) /\ Only("files", d, c1)
      /\ Loses(d.lists["files"], c1.lists["files"], Where(c1.lists["files"], "producer", e.id1),
               Where(c1.lists["files"], "producer", e.id1))
  BY <1>2, TablesAre, MarkByLoses
<1> HIDE DEF d
<1>4. /\ d.lists["producers"] = c.lists["producers"]
      /\ d.lists["generations"] = c.lists["generations"]
      /\ d.lists["geometries"] = c.lists["geometries"]
      /\ c1.lists["files"] = c.lists["files"]
      /\ d.lists["contents"] = c1.lists["contents"]
  BY <1>2, <1>3, TablesAre DEF Only
<1>5. LoseProducers(d, c, e)
  BY <1>4, Unconcerned, TablesAre DEF Removers
<1>6. LoseGenerations(d, c, e)
  BY <1>4, Unconcerned, TablesAre DEF Removers
<1>7. LoseGeometries(d, c, e)
  BY <1>4, Unconcerned, TablesAre DEF Removers
<1>8. LoseFiles(d, c, e)
  <2>1. Loses(d.lists["files"], c.lists["files"], Kfiles, Kfiles)
    BY <1>3, <1>4 DEF Kfiles
  <2> QED
    BY <2>1, LosesSame, LiveIs
       DEF LoseFiles, LostFiles, FileGone, OwnerGone, Of, Kfiles, Where, KeysFit
<1>9. LoseContents(d, c, e)
  <2>1. Loses(d.lists["contents"], c.lists["contents"], Kcontents, Kcontents)
    BY <1>2, <1>4 DEF Kcontents
  <2> QED
    BY <2>1, LosesSame, LiveIs
       DEF LoseContents, LostContents, ContentGone, ContentTold, FileGone, OwnerGone, Of,
           Kcontents, Where, KeysFit
<1> QED
  BY <1>1, <1>3, <1>5, <1>6, <1>7, <1>8, <1>9 DEF Removed

LEMMA FilesOfGenerationRemoves ==
  ASSUME NEW c, Sound(c), KeysFit(c), NEW e, e.type = "FILE_LIST_DELETED_BY_GENERATION_ID"
  PROVE  LET d == event_fileListDeletedByGenerationId(c, e.id1) IN Sound(d) /\ Removed(d, c, e)
<1> DEFINE Kcontents == Where(c.lists["contents"], "generation", e.id1)
           c1 == MarkBy(c, "contents", "generation", e.id1)
           Kfiles == Where(c.lists["files"], "generation", e.id1)
           d == MarkBy(c1, "files", "generation", e.id1)
<1>1. d = event_fileListDeletedByGenerationId(c, e.id1)
  BY DEF event_fileListDeletedByGenerationId
<1>2. Sound(c1) /\ Only("contents", c1, c)
      /\ Loses(c1.lists["contents"], c.lists["contents"],
               Where(c.lists["contents"], "generation", e.id1),
               Where(c.lists["contents"], "generation", e.id1))
  BY TablesAre, MarkByLoses
<1> HIDE DEF c1
<1>3. Sound(d) /\ Only("files", d, c1)
      /\ Loses(d.lists["files"], c1.lists["files"], Where(c1.lists["files"], "generation", e.id1),
               Where(c1.lists["files"], "generation", e.id1))
  BY <1>2, TablesAre, MarkByLoses
<1> HIDE DEF d
<1>4. /\ d.lists["producers"] = c.lists["producers"]
      /\ d.lists["generations"] = c.lists["generations"]
      /\ d.lists["geometries"] = c.lists["geometries"]
      /\ c1.lists["files"] = c.lists["files"]
      /\ d.lists["contents"] = c1.lists["contents"]
  BY <1>2, <1>3, TablesAre DEF Only
<1>5. LoseProducers(d, c, e)
  BY <1>4, Unconcerned, TablesAre DEF Removers
<1>6. LoseGenerations(d, c, e)
  BY <1>4, Unconcerned, TablesAre DEF Removers
<1>7. LoseGeometries(d, c, e)
  BY <1>4, Unconcerned, TablesAre DEF Removers
<1>8. LoseFiles(d, c, e)
  <2>1. Loses(d.lists["files"], c.lists["files"], Kfiles, Kfiles)
    BY <1>3, <1>4 DEF Kfiles
  <2> QED
    BY <2>1, LosesSame, LiveIs
       DEF LoseFiles, LostFiles, FileGone, OwnerGone, Of, Kfiles, Where, KeysFit
<1>9. LoseContents(d, c, e)
  <2>1. Loses(d.lists["contents"], c.lists["contents"], Kcontents, Kcontents)
    BY <1>2, <1>4 DEF Kcontents
  <2> QED
    BY <2>1, LosesSame, LiveIs
       DEF LoseContents, LostContents, ContentGone, ContentTold, FileGone, OwnerGone, Of,
           Kcontents, Where, KeysFit
<1> QED
  BY <1>1, <1>3, <1>5, <1>6, <1>7, <1>8, <1>9 DEF Removed

LEMMA ContentOfFileRemoves ==
  ASSUME NEW c, Sound(c), KeysFit(c), NEW e, e.type = "CONTENT_LIST_DELETED_BY_FILE_ID"
  PROVE  LET d == event_contentListDeletedByFileId(c, e.id1) IN Sound(d) /\ Removed(d, c, e)
<1> DEFINE Kcontents == Where(c.lists["contents"], "file", e.id1)
           d == MarkBy(c, "contents", "file", e.id1)
<1>1. d = event_contentListDeletedByFileId(c, e.id1)
  BY DEF event_contentListDeletedByFileId
<1>2. Sound(d) /\ Only("contents", d, c)
      /\ Loses(d.lists["contents"], c.lists["contents"],
               Where(c.lists["contents"], "file", e.id1),
               Where(c.lists["contents"], "file", e.id1))
  BY TablesAre, MarkByLoses
<1> HIDE DEF d
<1>3. /\ d.lists["producers"] = c.lists["producers"]
      /\ d.lists["generations"] = c.lists["generations"]
      /\ d.lists["geometries"] = c.lists["geometries"]
      /\ d.lists["files"] = c.lists["files"]
  BY <1>2, TablesAre DEF Only
<1>4. LoseProducers(d, c, e)
  BY <1>3, Unconcerned, TablesAre DEF Removers
<1>5. LoseGenerations(d, c, e)
  BY <1>3, Unconcerned, TablesAre DEF Removers
<1>6. LoseGeometries(d, c, e)
  BY <1>3, Unconcerned, TablesAre DEF Removers
<1>7. LoseFiles(d, c, e)
  BY <1>3, Unconcerned, TablesAre DEF Removers
<1>8. LoseContents(d, c, e)
  <2>1. Loses(d.lists["contents"], c.lists["contents"], Kcontents, Kcontents)
    BY <1>2, <1>3 DEF Kcontents
  <2> QED
    BY <2>1, LosesSame, LiveIs
       DEF LoseContents, LostContents, ContentGone, ContentTold, FileGone, OwnerGone, Of,
           Kcontents, Where, KeysFit
<1> QED
  BY <1>1, <1>2, <1>4, <1>5, <1>6, <1>7, <1>8 DEF Removed

LEMMA ContentOfProducerRemoves ==
  ASSUME NEW c, Sound(c), KeysFit(c), NEW e, e.type = "CONTENT_LIST_DELETED_BY_PRODUCER_ID"
  PROVE  LET d == event_contentListDeletedByProducerId(c, e.id1) IN Sound(d) /\ Removed(d, c, e)
<1> DEFINE Kcontents == Where(c.lists["contents"], "producer", e.id1)
           d == MarkBy(c, "contents", "producer", e.id1)
<1>1. d = event_contentListDeletedByProducerId(c, e.id1)
  BY DEF event_contentListDeletedByProducerId
<1>2. Sound(d) /\ Only("contents", d, c)
      /\ Loses(d.lists["contents"], c.lists["contents"],
               Where(c.lists["contents"], "producer", e.id1),
               Where(c.lists["contents"], "producer", e.id1))
  BY TablesAre, MarkByLoses
<1> HIDE DEF d
<1>3. /\ d.lists["producers"] = c.lists["producers"]
      /\ d.lists["generations"] = c.lists["generations"]
      /\ d.lists["geometries"] = c.lists["geometries"]
      /\ d.lists["files"] = c.lists["files"]
  BY <1>2, TablesAre DEF Only
<1>4. LoseProducers(d, c, e)
  BY <1>3, Unconcerned, TablesAre DEF Removers
<1>5. LoseGenerations(d, c, e)
  BY <1>3, Unconcerned, TablesAre DEF Removers
<1>6. LoseGeometries(d, c, e)
  BY <1>3, Unconcerned, TablesAre DEF Removers
<1>7. LoseFiles(d, c, e)
  BY <1>3, Unconcerned, TablesAre DEF Removers
<1>8. LoseContents(d, c, e)
  <2>1. Loses(d.lists["contents"], c.lists["contents"], Kcontents, Kcontents)
    BY <1>2, <1>3 DEF Kcontents
  <2> QED
    BY <2>1, LosesSame, LiveIs
       DEF LoseContents, LostContents, ContentGone, ContentTold, FileGone, OwnerGone, Of,
           Kcontents, Where, KeysFit
<1> QED
  BY <1>1, <1>2, <1>4, <1>5, <1>6, <1>7, <1>8 DEF Removed

LEMMA ContentOfGenerationRemoves ==
  ASSUME NEW c, Sound(c), KeysFit(c), NEW e, e.type = "CONTENT_LIST_DELETED_BY_GENERATION_ID"
  PROVE  LET d == event_contentListDeletedByGenerationId(c, e.id1) IN Sound(d) /\ Removed(d, c, e)
<1> DEFINE Kcontents == Where(c.lists["contents"], "generation", e.id1)
           d == MarkBy(c, "contents", "generation", e.id1)
<1>1. d = event_contentListDeletedByGenerationId(c, e.id1)
  BY DEF event_contentListDeletedByGenerationId
<1>2. Sound(d) /\ Only("contents", d, c)
      /\ Loses(d.lists["contents"], c.lists["contents"],
               Where(c.lists["contents"], "generation", e.id1),
               Where(c.lists["contents"], "generation", e.id1))
  BY TablesAre, MarkByLoses
<1> HIDE DEF d
<1>3. /\ d.lists["producers"] = c.lists["producers"]
      /\ d.lists["generations"] = c.lists["generations"]
      /\ d.lists["geometries"] = c.lists["geometries"]
      /\ d.lists["files"] = c.lists["files"]
  BY <1>2, TablesAre DEF Only
<1>4. LoseProducers(d, c, e)
  BY <1>3, Unconcerned, TablesAre DEF Removers
<1>5. LoseGenerations(d, c, e)
  BY <1>3, Unconcerned, TablesAre DEF Removers
<1>6. LoseGeometries(d, c, e)
  BY <1>3, Unconcerned, TablesAre DEF Removers
<1>7. LoseFiles(d, c, e)
  BY <1>3, Unconcerned, TablesAre DEF Removers
<1>8. LoseContents(d, c, e)
  <2>1. Loses(d.lists["contents"], c.lists["contents"], Kcontents, Kcontents)
    BY <1>2, <1>3 DEF Kcontents
  <2> QED
    BY <2>1, LosesSame, LiveIs
       DEF LoseContents, LostContents, ContentGone, ContentTold, FileGone, OwnerGone, Of,
           Kcontents, Where, KeysFit
<1> QED
  BY <1>1, <1>2, <1>4, <1>5, <1>6, <1>7, <1>8 DEF Removed

LEMMA ContentDeletedRemoves ==
  ASSUME NEW c, Sound(c), KeysFit(c), NEW e, e.type = "CONTENT_DELETED"
  PROVE  LET d == event_contentDeleted(c, <<e.id1, e.id2>>) IN Sound(d) /\ Removed(d, c, e)
<1> DEFINE Kcontents == {<<e.id1, e.id2>>} \cap Live(c.lists["contents"])
           d == MarkOne(c, "contents", <<e.id1, e.id2>>)
<1>1. d = event_contentDeleted(c, <<e.id1, e.id2>>)
  BY DEF event_contentDeleted
<1>2. Sound(d) /\ Only("contents", d, c)
      /\ Loses(d.lists["contents"], c.lists["contents"],
               {<<e.id1, e.id2>>} \cap Live(c.lists["contents"]),
               {<<e.id1, e.id2>>} \cap Live(c.lists["contents"]))
  BY TablesAre, MarkOneLoses
<1> HIDE DEF d
<1>3. /\ d.lists["producers"] = c.lists["producers"]
      /\ d.lists["generations"] = c.lists["generations"]
      /\ d.lists["geometries"] = c.lists["geometries"]
      /\ d.lists["files"] = c.lists["files"]
  BY <1>2, TablesAre DEF Only
<1>4. LoseProducers(d, c, e)
  BY <1>3, Unconcerned, TablesAre DEF Removers
<1>5. LoseGenerations(d, c, e)
  BY <1>3, Unconcerned, TablesAre DEF Removers
<1>6. LoseGeometries(d, c, e)
  BY <1>3, Unconcerned, TablesAre DEF Removers
<1>7. LoseFiles(d, c, e)
  BY <1>3, Unconcerned, TablesAre DEF Removers
<1>8. LoseContents(d, c, e)
  <2>1. Loses(d.lists["contents"], c.lists["contents"], Kcontents, Kcontents)
    BY <1>2, <1>3 DEF Kcontents
  <2> QED
    BY <2>1, LosesSame, LiveIs
       DEF LoseContents, LostContents, ContentGone, ContentTold, FileGone, OwnerGone, Of,
           Kcontents, Where, KeysFit
<1> QED
  BY <1>1, <1>2, <1>4, <1>5, <1>6, <1>7, <1>8 DEF Removed

LEMMA GeometryDeletedRemoves ==
  ASSUME NEW c, Sound(c), KeysFit(c), NEW e, e.type = "GEOMETRY_DELETED"
  PROVE  LET d == event_geometryDeleted(c, e.id1, e.id2, e.id3) IN Sound(d) /\ Removed(d, c, e)
<1> DEFINE Kcontents == {k \in Where(c.lists["contents"], "generation", e.id1) :
               GeometryOf[c.lists["contents"][k].info.message][1] = e.id2}
           c1 == Mark(c, "contents", Kcontents)
           Kgeometries == {EventGeometry(e)} \cap DOMAIN c.lists["geometries"]
           d == Erase(c1, "geometries", Kgeometries)
<1>1. d = event_geometryDeleted(c, e.id1, e.id2, e.id3)
  BY DEF event_geometryDeleted, EventGeometry
<1>2. IsFiniteSet(Kcontents)
  <2>1. Kcontents \subseteq DOMAIN c.lists["contents"]
    BY DEF Where, Marked
  <2> HIDE DEF Kcontents
  <2> QED
    BY <2>1, TablesAre, SomeRecords DEF Sound
<1> HIDE DEF Kcontents
<1>3. Sound(c1) /\ Only("contents", c1, c) /\ Loses(c1.lists["contents"], c.lists["contents"],
                                                    Kcontents, Kcontents)
  BY <1>2, TablesAre, MarkLoses
<1> HIDE DEF c1
<1>4. IsFiniteSet(Kgeometries)
  <2>1. Kgeometries \subseteq DOMAIN c.lists["geometries"]
    BY DEF Where, Marked
  <2> HIDE DEF Kgeometries
  <2> QED
    BY <2>1, TablesAre, SomeRecords DEF Sound
<1> HIDE DEF Kgeometries
<1>5. Sound(d) /\ Only("geometries", d, c1) /\ Loses(d.lists["geometries"],
                                                     c1.lists["geometries"], Kgeometries, {})
  BY <1>3, <1>4, TablesAre, EraseLoses
<1> HIDE DEF d
<1>6. /\ d.lists["producers"] = c.lists["producers"]
      /\ d.lists["generations"] = c.lists["generations"]
      /\ c1.lists["geometries"] = c.lists["geometries"]
      /\ d.lists["files"] = c.lists["files"]
      /\ d.lists["contents"] = c1.lists["contents"]
  BY <1>3, <1>5, TablesAre DEF Only
<1>7. LoseProducers(d, c, e)
  BY <1>6, Unconcerned, TablesAre DEF Removers
<1>8. LoseGenerations(d, c, e)
  BY <1>6, Unconcerned, TablesAre DEF Removers
<1>9. LoseGeometries(d, c, e)
  <2>1. Loses(d.lists["geometries"], c.lists["geometries"], Kgeometries, {})
    BY <1>5, <1>6
  <2> QED
    BY <2>1, LosesSame, LiveIs
       DEF LoseGeometries, LostGeometries, GeometryMarks, GeometryGone, GeometryTold, GeometryKey,
           OwnerGone, Of, Kgeometries, Where, KeysFit
<1>10. LoseFiles(d, c, e)
  BY <1>6, Unconcerned, TablesAre DEF Removers
<1>11. LoseContents(d, c, e)
  <2>1. Loses(d.lists["contents"], c.lists["contents"], Kcontents, Kcontents)
    BY <1>3, <1>6
  <2>2. \A k \in Live(c.lists["contents"]) : k \in Kcontents <=> k \in LostContents(c.lists["contents"], e)
    BY LiveIs
       DEF LoseContents, LostContents, ContentGone, ContentTold, FileGone, OwnerGone, Of,
           Kcontents, Where
  <2> QED
    BY <2>1, <2>2, LosesSame DEF LoseContents
<1> QED
  BY <1>1, <1>5, <1>7, <1>8, <1>9, <1>10, <1>11 DEF Removed

LEMMA GeometriesOfGenerationRemoves ==
  ASSUME NEW c, Sound(c), KeysFit(c), NEW e, e.type = "GEOMETRY_LIST_DELETED_BY_GENERATION_ID"
  PROVE  LET d == event_geometryListDeletedByGenerationId(c, e.id1) IN Sound(d) /\ Removed(d, c, e)
<1> DEFINE Kgeometries == Where(c.lists["geometries"], "generation", e.id1)
           d == Erase(c, "geometries", Kgeometries)
<1>1. d = event_geometryListDeletedByGenerationId(c, e.id1)
  BY DEF event_geometryListDeletedByGenerationId
<1>2. IsFiniteSet(Kgeometries)
  <2>1. Kgeometries \subseteq DOMAIN c.lists["geometries"]
    BY DEF Where, Marked
  <2> HIDE DEF Kgeometries
  <2> QED
    BY <2>1, TablesAre, SomeRecords DEF Sound
<1> HIDE DEF Kgeometries
<1>3. Sound(d) /\ Only("geometries", d, c) /\ Loses(d.lists["geometries"], c.lists["geometries"],
                                                    Kgeometries, {})
  BY <1>2, TablesAre, EraseLoses
<1> HIDE DEF d
<1>4. /\ d.lists["producers"] = c.lists["producers"]
      /\ d.lists["generations"] = c.lists["generations"]
      /\ d.lists["files"] = c.lists["files"]
      /\ d.lists["contents"] = c.lists["contents"]
  BY <1>3, TablesAre DEF Only
<1>5. LoseProducers(d, c, e)
  BY <1>4, Unconcerned, TablesAre DEF Removers
<1>6. LoseGenerations(d, c, e)
  BY <1>4, Unconcerned, TablesAre DEF Removers
<1>7. LoseGeometries(d, c, e)
  <2>1. Loses(d.lists["geometries"], c.lists["geometries"], Kgeometries, {})
    BY <1>3, <1>4
  <2> QED
    BY <2>1, LosesSame, LiveIs
       DEF LoseGeometries, LostGeometries, GeometryMarks, GeometryGone, GeometryTold, GeometryKey,
           OwnerGone, Of, Kgeometries, Where, KeysFit
<1>8. LoseFiles(d, c, e)
  BY <1>4, Unconcerned, TablesAre DEF Removers
<1>9. LoseContents(d, c, e)
  BY <1>4, Unconcerned, TablesAre DEF Removers
<1> QED
  BY <1>1, <1>3, <1>5, <1>6, <1>7, <1>8, <1>9 DEF Removed

LEMMA GeometriesOfProducerRemoves ==
  ASSUME NEW c, Sound(c), KeysFit(c), NEW e, e.type = "GEOMETRY_LIST_DELETED_BY_PRODUCER_ID"
  PROVE  LET d == event_geometryListDeletedByProducerId(c, e.id1) IN Sound(d) /\ Removed(d, c, e)
<1> DEFINE Kgeometries == Where(c.lists["geometries"], "producer", e.id1)
           d == Erase(c, "geometries", Kgeometries)
<1>1. d = event_geometryListDeletedByProducerId(c, e.id1)
  BY DEF event_geometryListDeletedByProducerId
<1>2. IsFiniteSet(Kgeometries)
  <2>1. Kgeometries \subseteq DOMAIN c.lists["geometries"]
    BY DEF Where, Marked
  <2> HIDE DEF Kgeometries
  <2> QED
    BY <2>1, TablesAre, SomeRecords DEF Sound
<1> HIDE DEF Kgeometries
<1>3. Sound(d) /\ Only("geometries", d, c) /\ Loses(d.lists["geometries"], c.lists["geometries"],
                                                    Kgeometries, {})
  BY <1>2, TablesAre, EraseLoses
<1> HIDE DEF d
<1>4. /\ d.lists["producers"] = c.lists["producers"]
      /\ d.lists["generations"] = c.lists["generations"]
      /\ d.lists["files"] = c.lists["files"]
      /\ d.lists["contents"] = c.lists["contents"]
  BY <1>3, TablesAre DEF Only
<1>5. LoseProducers(d, c, e)
  BY <1>4, Unconcerned, TablesAre DEF Removers
<1>6. LoseGenerations(d, c, e)
  BY <1>4, Unconcerned, TablesAre DEF Removers
<1>7. LoseGeometries(d, c, e)
  <2>1. Loses(d.lists["geometries"], c.lists["geometries"], Kgeometries, {})
    BY <1>3, <1>4
  <2> QED
    BY <2>1, LosesSame, LiveIs
       DEF LoseGeometries, LostGeometries, GeometryMarks, GeometryGone, GeometryTold, GeometryKey,
           OwnerGone, Of, Kgeometries, Where, KeysFit
<1>8. LoseFiles(d, c, e)
  BY <1>4, Unconcerned, TablesAre DEF Removers
<1>9. LoseContents(d, c, e)
  BY <1>4, Unconcerned, TablesAre DEF Removers
<1> QED
  BY <1>1, <1>3, <1>5, <1>6, <1>7, <1>8, <1>9 DEF Removed

-----------------------------------------------------------------------------
(* The handlers of the events that add records and bring them up to date.    *)

LEMMA StoreSound ==
  ASSUME NEW c, Sound(c), NEW t \in Tables, NEW k, NEW info
  PROVE  LET d == Store(c, t, k, info)
         IN Sound(d) /\ Only(t, d, c) /\ d.lists[t] = Put(c.lists[t], k, Unmarked(info))
<1> DEFINE d == Store(c, t, k, info)
           new == Put(c.lists[t], k, Unmarked(info))
<1>1. /\ ListsOK(d) /\ DOMAIN c.lists = Tables
      /\ d = [lists |-> [c.lists EXCEPT ![t] = new], counters |-> c.counters]
  BY StoreIs DEF Sound, ListsOK
<1>2. Flagged(new)
  <2>1. Flagged(c.lists[t])
    BY DEF Sound
  <2> HIDE DEF new
  <2> QED
    BY <2>1, PutLive DEF new
<1> HIDE DEF d, new
<1>3. d.lists[t] = new /\ \A u \in Tables : u # t => d.lists[u] = c.lists[u]
  BY <1>1
<1>4. \A u \in Tables : Flagged(d.lists[u])
  BY <1>2, <1>3 DEF Sound
<1> QED
  BY <1>1, <1>3, <1>4 DEF Sound, Only, d, new

LEMMA ProducerAddedHandled ==
  ASSUME NEW c, Sound(c), NEW p
  PROVE  LET d == event_producerAdded(c, p)
         IN /\ Only("producers", d, c)
            /\ d.lists["producers"] = ProducerAddedTo(c.lists["producers"], producers, p)
<1> DEFINE list == c.lists["producers"]
           s == Store(c, "producers", p, producers[p])
<1>1. Only("producers", s, c) /\ s.lists["producers"] = Put(list, p, Unmarked(producers[p]))
  BY TablesAre, StoreSound
<1> HIDE DEF s
<1>2. CASE \/ p \in Live(list)
           \/ p \notin DOMAIN producers
           \/ \E q \in Live(list) : list[q].info = producers[p]
  BY <1>2 DEF event_producerAdded, ProducerAddedTo, Only
<1>3. CASE ~(\/ p \in Live(list)
             \/ p \notin DOMAIN producers
             \/ \E q \in Live(list) : list[q].info = producers[p])
  <2>1. event_producerAdded(c, p) = s
    BY <1>3 DEF event_producerAdded, s
  <2>2. ProducerAddedTo(list, producers, p) = Put(list, p, Unmarked(producers[p]))
    BY <1>3 DEF ProducerAddedTo
  <2> QED
    BY <1>1, <2>1, <2>2
<1> QED
  BY <1>2, <1>3

LEMMA StatusSetIs ==
  ASSUME NEW list, Flagged(list), NEW k \in DOMAIN list, NEW status
  PROVE  StatusSet([list EXCEPT ![k].info.status = status], list, k, status)
<1> DEFINE new == [list EXCEPT ![k].info.status = status]
           r == [list[k] EXCEPT !.info.status = status]
<1>1. DOMAIN new = DOMAIN list /\ new[k] = r /\ \A x \in DOMAIN list : x # k => new[x] = list[x]
  OBVIOUS
<1>2. list[k] = [info |-> list[k].info, deleted |-> list[k].deleted]
  BY DEF Flagged
<1>3. PICK i, f : list[k] = [info |-> i, deleted |-> f]
  BY <1>2
<1>4. r = [info |-> [i EXCEPT !.status = status], deleted |-> f]
  BY <1>3
<1> HIDE DEF new, r
<1>5. new[k].info = [list[k].info EXCEPT !.status = status] /\ new[k].deleted = list[k].deleted
  BY <1>1, <1>3, <1>4
<1>6. Flagged(new)
  <2>1. new[k] = [info |-> new[k].info, deleted |-> new[k].deleted]
    BY <1>1, <1>4
  <2>2. \A x \in DOMAIN list : list[x] = [info |-> list[x].info, deleted |-> list[x].deleted]
    BY DEF Flagged
  <2>3. \A x \in DOMAIN new : new[x] = [info |-> new[x].info, deleted |-> new[x].deleted]
    BY ONLY <1>1, <2>1, <2>2
  <2> QED
    BY ONLY <2>3 DEF Flagged
<1>7. Live(new) = Live(list)
  <2>1. \A x \in DOMAIN list : new[x].deleted = list[x].deleted
    BY <1>1, <1>5
  <2> QED
    BY <1>1, <2>1 DEF Live
<1> QED
  BY <1>1, <1>5, <1>6, <1>7 DEF StatusSet, new

\* What reading a generation leaves of the list, if it succeeds.
LEMMA GenerationHandled ==
  ASSUME NEW c, Sound(c), NEW e, NEW ok \in BOOLEAN,
         e.type \in {"GENERATION_ADDED", "GENERATION_STATUS_CHANGED"},
         \A g \in DOMAIN generations : IsGeneration(generations[g]),
         \A g \in Marked(c.lists["generations"]) : g \notin DOMAIN generations
  PROVE  LET d == processEvent(c, e, ok)
             g == e.id1
             list == c.lists["generations"]
             new == d.lists["generations"]
         IN /\ Only("generations", d, c)
            /\ \/ /\ new = list
                  /\ \/ e.type = "GENERATION_ADDED" /\ g \in Live(list)
                     \/ g \notin Live(list) /\ (g \notin DOMAIN generations \/ ~ok)
               \/ /\ g \in DOMAIN generations /\ g \notin Live(list)
                  /\ \E info : /\ IsGeneration(info)
                               /\ info.producer = generations[g].producer
                               /\ info.name = generations[g].name
                               /\ \/ info.status = generations[g].status
                                  \/ e.type = "GENERATION_STATUS_CHANGED" /\ info.status = e.id2
                               /\ new = Put(list, g, Unmarked(info))
               \/ /\ e.type = "GENERATION_STATUS_CHANGED" /\ g \in Live(list)
                  /\ StatusSet(new, list, g, e.id2)
<1> DEFINE g == e.id1
           list == c.lists["generations"]
           changed == [generations[g] EXCEPT !.status = e.id2]
<1>0. Only("generations", c, c) /\ Flagged(list) /\ list = c.lists.generations
  BY TablesAre DEF Only, Sound
<1>1. ASSUME NEW info
      PROVE  LET s == Store(c, "generations", g, info)
             IN Only("generations", s, c) /\ s.lists["generations"] = Put(list, g, Unmarked(info))
  BY TablesAre, StoreSound
<1>2. ASSUME NEW info, g \notin Live(list), g \in DOMAIN generations
      PROVE  addGenerationToList(c, g, info) = Store(c, "generations", g, info)
  BY <1>2, LiveIs DEF addGenerationToList
<1>3. CASE e.type = "GENERATION_ADDED"
  <2>1. processEvent(c, e, ok) = event_generationAdded(c, g, ok)
    BY <1>3 DEF processEvent
  <2>2. CASE ok /\ g \in DOMAIN generations /\ g \notin Live(list)
    <3>1. processEvent(c, e, ok) = Store(c, "generations", g, generations[g])
      BY <1>0, <1>2, <2>1, <2>2 DEF event_generationAdded
    <3> QED
      BY <1>1, <2>2, <3>1
  <2>3. CASE ~(ok /\ g \in DOMAIN generations /\ g \notin Live(list))
    <3>1. processEvent(c, e, ok) = c
      BY <1>0, <2>1, <2>3 DEF event_generationAdded
    <3> QED
      BY <1>0, <1>3, <2>3, <3>1
  <2> QED
    BY <2>2, <2>3
<1>4. CASE e.type = "GENERATION_STATUS_CHANGED"
  <2>1. processEvent(c, e, ok) = event_generationStatusChanged(c, g, e.id2, ok)
    BY <1>4 DEF processEvent
  <2>2. CASE g \in Live(list)
    <3> DEFINE d == [c EXCEPT !.lists.generations[g].info.status = e.id2]
               l == [list EXCEPT ![g].info.status = e.id2]
    <3>1. processEvent(c, e, ok) = d
      BY <1>0, <2>1, <2>2 DEF event_generationStatusChanged
    <3>2. PICK L, C : c = [lists |-> L, counters |-> C] /\ DOMAIN L = Tables
      BY DEF Sound, ListsOK
    <3>3. d = [lists |-> [L EXCEPT !["generations"] = l], counters |-> C]
      BY <3>2
    <3>4. StatusSet(l, list, g, e.id2)
      BY <1>0, <2>2, LiveIs, StatusSetIs
    <3> HIDE DEF d, l
    <3>5. d.lists["generations"] = l /\ \A u \in Tables : u # "generations" => d.lists[u] = c.lists[u]
      BY <3>2, <3>3, TablesAre
    <3> QED
      BY <1>4, <2>2, <3>1, <3>4, <3>5 DEF Only
  <2>3. CASE g \notin Live(list) /\ ok /\ g \in DOMAIN generations
    <3>1. processEvent(c, e, ok) = Store(c, "generations", g, changed)
      BY <1>0, <1>2, <2>1, <2>3 DEF event_generationStatusChanged
    <3>2. /\ IsGeneration(changed) /\ changed.status = e.id2
          /\ changed.producer = generations[g].producer /\ changed.name = generations[g].name
      BY <2>3 DEF IsGeneration
    <3> HIDE DEF changed
    <3> QED
      BY <1>1, <1>4, <2>3, <3>1, <3>2
  <2>4. CASE g \notin Live(list) /\ ~(ok /\ g \in DOMAIN generations)
    <3>1. processEvent(c, e, ok) = c
      BY <1>0, <2>1, <2>4 DEF event_generationStatusChanged
    <3> QED
      BY <1>0, <2>4, <3>1
  <2> QED
    BY <2>2, <2>3, <2>4
<1> QED
  BY <1>3, <1>4

LEMMA GeometryAtIs ==
  ASSUME NEW k
  PROVE  /\ k \in GeometryKeys <=> HaveKey(geometries, k)
         /\ k \in GeometryKeys => GeometryAt(k) \in geometries /\ GeometryKey(GeometryAt(k)) = k
<1>1. k \in GeometryKeys <=> \E y \in geometries : GeometryKey(y) = k
  BY DEF GeometryKeys
<1>2. ASSUME NEW y \in geometries, GeometryKey(y) = k
      PROVE  GeometryAt(k) \in geometries /\ GeometryKey(GeometryAt(k)) = k
  BY <1>2 DEF GeometryAt
<1> QED
  BY <1>1, <1>2 DEF HaveKey

LEMMA GeometryHandled ==
  ASSUME NEW c, Sound(c), NEW e, NEW ok,
         e.type \in {"GEOMETRY_ADDED", "GEOMETRY_UPDATED", "GEOMETRY_STATUS_CHANGED"}
  PROVE  LET d == processEvent(c, e, ok)
             k == EventGeometry(e)
             list == c.lists["geometries"]
             new == d.lists["geometries"]
         IN /\ Only("geometries", d, c)
            /\ \/ /\ new = list
                  /\ \/ e.type = "GEOMETRY_ADDED" /\ k \in DOMAIN list
                     \/ e.type # "GEOMETRY_ADDED" /\ k \notin Live(list)
                     \/ ~HaveKey(geometries, k)
               \/ \E y \in geometries : GeometryKey(y) = k /\ new = Put(list, k, Unmarked(y))
               \/ /\ e.type = "GEOMETRY_STATUS_CHANGED" /\ k \in Live(list)
                  /\ StatusSet(new, list, k, e.flags)
<1> DEFINE k == EventGeometry(e)
           list == c.lists["geometries"]
           s == Store(c, "geometries", k, GeometryAt(k))
<1>0. Only("geometries", c, c) /\ Flagged(list) /\ list = c.lists.geometries
  BY TablesAre DEF Only, Sound
<1>1. Only("geometries", s, c) /\ s.lists["geometries"] = Put(list, k, Unmarked(GeometryAt(k)))
  BY TablesAre, StoreSound
<1>2. k \in GeometryKeys =>
        \E y \in geometries : GeometryKey(y) = k /\ s.lists["geometries"] = Put(list, k, Unmarked(y))
  BY <1>1, GeometryAtIs
<1>3. k \notin GeometryKeys => ~HaveKey(geometries, k)
  BY GeometryAtIs
<1>4. CASE e.type = "GEOMETRY_ADDED"
  <2>1. processEvent(c, e, ok) = event_geometryAdded(c, k)
    BY <1>4 DEF processEvent, processGeometryEvent
  <2>2. processEvent(c, e, ok) = IF k \in GeometryKeys \ DOMAIN list THEN s ELSE c
    BY <1>0, <2>1 DEF event_geometryAdded
  <2> HIDE DEF s, k, list
  <2>3. CASE k \in GeometryKeys \ DOMAIN list
    BY <1>1, <1>2, <2>2, <2>3 DEF k, list
  <2>4. CASE k \notin GeometryKeys \ DOMAIN list
    BY <1>0, <1>3, <1>4, <2>2, <2>4 DEF k, list
  <2> QED
    BY <2>3, <2>4
<1>5. CASE e.type = "GEOMETRY_UPDATED"
  <2>1. processEvent(c, e, ok) = event_geometryUpdated(c, k)
    BY <1>5 DEF processEvent, processGeometryEvent
  <2>2. processEvent(c, e, ok) = IF k \in GeometryKeys \cap Live(list) THEN s ELSE c
    BY <1>0, <2>1 DEF event_geometryUpdated
  <2> HIDE DEF s, k, list
  <2>3. CASE k \in GeometryKeys \cap Live(list)
    BY <1>1, <1>2, <2>2, <2>3 DEF k, list
  <2>4. CASE k \notin GeometryKeys \cap Live(list)
    BY <1>0, <1>3, <1>5, <2>2, <2>4 DEF k, list
  <2> QED
    BY <2>3, <2>4
<1>6. CASE e.type = "GEOMETRY_STATUS_CHANGED"
  <2>1. processEvent(c, e, ok) = event_geometryStatusChanged(c, k, e.flags)
    BY <1>6 DEF processEvent, processGeometryEvent
  <2>2. CASE k \in Live(list)
    <3> DEFINE d == [c EXCEPT !.lists.geometries[k].info.status = e.flags]
               l == [list EXCEPT ![k].info.status = e.flags]
    <3>1. processEvent(c, e, ok) = d
      BY <1>0, <2>1, <2>2 DEF event_geometryStatusChanged
    <3> HIDE DEF k
    <3>2. PICK L, C : c = [lists |-> L, counters |-> C] /\ DOMAIN L = Tables
      BY DEF Sound, ListsOK
    <3>3. d = [lists |-> [L EXCEPT !["geometries"] = l], counters |-> C]
      BY <3>2
    <3>4. StatusSet(l, list, k, e.flags)
      BY <1>0, <2>2, LiveIs, StatusSetIs
    <3> HIDE DEF d, l
    <3>5. d.lists["geometries"] = l /\ \A u \in Tables : u # "geometries" => d.lists[u] = c.lists[u]
      BY <3>2, <3>3, TablesAre
    <3> QED
      BY <1>6, <2>2, <3>1, <3>4, <3>5 DEF Only, k
  <2>3. CASE k \notin Live(list)
    <3>1. processEvent(c, e, ok) = c
      BY <1>0, <2>1, <2>3 DEF event_geometryStatusChanged
    <3> QED
      BY <1>0, <1>6, <2>3, <3>1
  <2> QED
    BY <2>2, <2>3
<1> QED
  BY <1>4, <1>5, <1>6

-----------------------------------------------------------------------------
\* A record of the content, and then some of them.
LEMMA FilledMore ==
  ASSUME NEW list, NEW mid, NEW new, NEW S, NEW x, Filled(mid, list, S \ {x}), x \in S,
         new = IF Key(x) \in Live(mid) THEN mid ELSE Put(mid, Key(x), Unmarked(x))
  PROVE  Filled(new, list, S)
<1>1. CASE Key(x) \in Live(mid)
  <2>1. new = mid
    BY <1>1
  <2> QED
    BY <1>1, <2>1 DEF Filled
<1>2. CASE Key(x) \notin Live(mid)
  <2>1. new = Put(mid, Key(x), Unmarked(x)) /\ Flagged(mid)
    BY <1>2 DEF Filled
  <2>2. /\ DOMAIN new = DOMAIN mid \cup {Key(x)}
        /\ new[Key(x)] = [info |-> x, deleted |-> FALSE]
        /\ \A k \in DOMAIN mid : k # Key(x) => new[k] = mid[k]
    BY <2>1 DEF Put, Unmarked
  <2>3. Flagged(new) /\ Live(new) = Live(mid) \cup {Key(x)}
    BY ONLY <2>1, PutLive
  <2>4. \A k \in DOMAIN new : (k \in DOMAIN list /\ new[k] = list[k]) \/ Key(new[k].info) = k
    BY <2>2 DEF Filled
  <2>5. \A k \in Live(list) : k \in Live(new) /\ new[k] = list[k]
    BY <1>2, <2>2, <2>3, LiveIs DEF Filled
  <2>6. \A k \in Live(new) \ Live(list) : new[k].info \in S
    BY <2>2, <2>3, LiveIs DEF Filled
  <2>7. \A r \in S : Key(r) \in Live(new)
    BY <2>3 DEF Filled
  <2> QED
    BY <2>3, <2>4, <2>5, <2>6, <2>7 DEF Filled
<1> QED
  BY <1>1, <1>2

LEMMA ReviveLists ==
  ASSUME NEW c, ListsOK(c), NEW r
  PROVE  LET d == addOrReplaceContent(r, c)
             list == c.lists["contents"]
         IN /\ Only("contents", d, c)
            /\ d.lists["contents"] = IF Key(r) \in Live(list) THEN list
                                                             ELSE Put(list, Key(r), Unmarked(r))
<1> DEFINE list == c.lists["contents"]
           s == Store(c, "contents", Key(r), r)
           d == addOrReplaceContent(r, c)
<1>1. CASE Key(r) \in Live(list)
  BY <1>1 DEF addOrReplaceContent, Only
<1>2. CASE Key(r) \notin Live(list)
  <2>1. /\ s = [lists |-> [c.lists EXCEPT !["contents"] = Put(list, Key(r), Unmarked(r))],
                counters |-> c.counters]
        /\ DOMAIN c.lists = Tables
    BY TablesAre, StoreIs DEF ListsOK
  <2>2. d = [s EXCEPT !.counters.contents =
                       IF Key(r) \in DOMAIN c.lists.contents /\ @ > 0 THEN @ - 1 ELSE @]
    BY <1>2 DEF addOrReplaceContent
  <2> HIDE DEF d
  <2>3. d.lists = [c.lists EXCEPT !["contents"] = Put(list, Key(r), Unmarked(r))]
    BY <2>1, <2>2
  <2>4. /\ \A u \in Tables : u # "contents" => d.lists[u] = c.lists[u]
        /\ d.lists["contents"] = Put(list, Key(r), Unmarked(r))
    BY <2>1, <2>3, TablesAre
  <2> QED
    BY <1>2, <2>4 DEF Only, d
<1> QED
  BY <1>1, <1>2

LEMMA FoldFills ==
  ASSUME NEW c, Sound(c), NEW S, IsFiniteSet(S)
  PROVE  LET d == FoldSet(addOrReplaceContent, c, S)
         IN Only("contents", d, c) /\ Filled(d.lists["contents"], c.lists["contents"], S)
<1> DEFINE Good(d, s) == /\ ListsOK(d) /\ Only("contents", d, c)
                         /\ Filled(d.lists["contents"], c.lists["contents"], s)
<1>1. PICK run : /\ run[{}] = c
                 /\ \A s \in SUBSET S : s # {} =>
                      \E x \in s : run[s] = addOrReplaceContent(x, run[s \ {x}])
                 /\ run[S] = FoldSet(addOrReplaceContent, c, S)
  BY FoldRuns
<1>2. Good(c, {})
  BY TablesAre DEF Sound, Only, Filled
<1>3. ASSUME NEW d, NEW s, NEW x \in s, Good(d, s \ {x})
      PROVE  Good(addOrReplaceContent(x, d), s)
  <2> DEFINE new == addOrReplaceContent(x, d)
  <2>1. ListsOK(new)
    BY <1>3, ReviveIs
  <2>2. /\ Only("contents", new, d)
        /\ new.lists["contents"] =
             IF Key(x) \in Live(d.lists["contents"]) THEN d.lists["contents"]
             ELSE Put(d.lists["contents"], Key(x), Unmarked(x))
    BY <1>3, ReviveLists
  <2> HIDE DEF new
  <2>3. Filled(new.lists["contents"], c.lists["contents"], s)
    BY <1>3, <2>2, FilledMore
  <2>4. Only("contents", new, c)
    BY <1>3, <2>2 DEF Only
  <2> QED
    BY <2>1, <2>3, <2>4 DEF new
<1> HIDE DEF Good
<1> DEFINE I == {n \in Nat : \A s \in SUBSET S : Cardinality(s) = n => Good(run[s], s)}
<1>4. 0 \in I
  <2>1. ASSUME NEW s \in SUBSET S, Cardinality(s) = 0 PROVE Good(run[s], s)
    <3>1. s = {}
      BY <2>1, FS_Subset, FS_EmptySet
    <3> QED
      BY <1>1, <1>2, <3>1
  <2> QED
    BY <2>1
<1>5. ASSUME NEW n \in Nat, n \in I PROVE n + 1 \in I
  <2>1. ASSUME NEW s \in SUBSET S, Cardinality(s) = n + 1 PROVE Good(run[s], s)
    <3>1. s # {} /\ IsFiniteSet(s)
      BY <2>1, FS_Subset, FS_EmptySet
    <3>2. PICK x \in s : run[s] = addOrReplaceContent(x, run[s \ {x}])
      BY <1>1, <3>1
    <3>3. Cardinality(s \ {x}) = n /\ s \ {x} \in SUBSET S
      <4>1. Cardinality(s \ {x}) = Cardinality(s) - 1
        BY <3>1, FS_RemoveElement
      <4> QED
        BY <2>1, <4>1
    <3>4. Good(run[s \ {x}], s \ {x})
      BY <1>5, <3>3
    <3> QED
      BY <1>3, <3>2, <3>4
  <2> QED
    BY <2>1
<1>6. Cardinality(S) \in I
  <2>1. Cardinality(S) \in Nat
    BY FS_CardinalityType
  <2> HIDE DEF I
  <2> QED
    BY <1>4, <1>5, <2>1, NatSetInduction
<1>7. Good(run[S], S)
  BY <1>6
<1> QED
  BY <1>1, <1>7 DEF Good

\* A new file, and the content that comes with it.
LEMMA FileAddedHandled ==
  ASSUME Typed, NEW c, Sound(c), NEW e, e.type = "FILE_ADDED", FileData(e.data), NEW ok
  PROVE  LET d == processEvent(c, e, ok)
             found == IF e.data # {} THEN e.data ELSE StoredFile(e.id1, e.id3)
             list == c.lists["files"]
         IN /\ \A u \in Tables : u \notin {"files", "contents"} => d.lists[u] = c.lists[u]
            /\ \/ found = {} /\ d = c
               \/ \E x \in found :
                    /\ d.lists["files"] = IF e.id1 \in Live(list) THEN list
                                          ELSE Put(list, e.id1, Unmarked(x.file))
                    /\ Filled(d.lists["contents"], c.lists["contents"], x.contents)
<1> DEFINE d == processEvent(c, e, ok)
           found == IF e.data # {} THEN e.data ELSE StoredFile(e.id1, e.id3)
           list == c.lists["files"]
           x == CHOOSE y \in found : TRUE
           s == Store(c, "files", e.id1, x.file)
           c1 == IF e.id1 \in Live(list) THEN c ELSE s
<1>1. d = IF found = {} THEN c ELSE addFile(x, e.id1, c)
  BY DEF processEvent, event_fileAdded
<1>2. FileData(found)
  BY StoredFileIs
<1> HIDE DEF found, d
<1>3. CASE found = {}
  BY <1>1, <1>3 DEF d, found
<1>4. CASE found # {}
  <2>1. x \in found
    BY <1>4
  <2>2. IsFiniteSet(x.contents)
    BY <1>2, <2>1 DEF FileData
  <2> HIDE DEF x
  <2>3. Sound(s) /\ Only("files", s, c) /\ s.lists["files"] = Put(list, e.id1, Unmarked(x.file))
    BY TablesAre, StoreSound
  <2> HIDE DEF s
  <2>4. d = FoldSet(addOrReplaceContent, c1, x.contents)
    BY <1>1, <1>4 DEF addFile, s
  <2>5. Sound(c1) /\ Only("files", c1, c)
        /\ c1.lists["files"] = IF e.id1 \in Live(list) THEN list
                               ELSE Put(list, e.id1, Unmarked(x.file))
    BY <2>3 DEF Only
  <2> HIDE DEF c1
  <2>6. Only("contents", d, c1) /\ Filled(d.lists["contents"], c1.lists["contents"], x.contents)
    BY <2>2, <2>4, <2>5, FoldFills
  <2>7. /\ \A u \in Tables : u \notin {"files", "contents"} => d.lists[u] = c.lists[u]
        /\ d.lists["files"] = c1.lists["files"] /\ c1.lists["contents"] = c.lists["contents"]
    BY <2>5, <2>6, TablesAre DEF Only
  <2> QED
    BY <2>1, <2>5, <2>6, <2>7 DEF d, found
<1> QED
  BY <1>3, <1>4

\* The record of a file and its content are read again.
LEMMA FileUpdatedHandled ==
  ASSUME Typed, NEW c, Sound(c), NEW e, e.type = "FILE_UPDATED", NEW ok
  PROVE  LET d == processEvent(c, e, ok)
             f == e.id1
             list == c.lists["files"]
             contents == c.lists["contents"]
             K == Where(contents, "file", f)
         IN /\ \A u \in Tables : u \notin {"files", "contents"} => d.lists[u] = c.lists[u]
            /\ \/ f \notin DOMAIN files /\ d = c
               \/ /\ f \in DOMAIN files
                  /\ d.lists["files"] = Put(list, f, Unmarked(files[f]))
                  /\ \E base : /\ IF f \in Live(list) THEN Loses(base, contents, K, K)
                                                      ELSE base = contents
                               /\ Filled(d.lists["contents"], base, ByFile(f))
<1> DEFINE d == processEvent(c, e, ok)
           f == e.id1
           list == c.lists["files"]
           contents == c.lists["contents"]
           K == Where(contents, "file", f)
           marked == MarkBy(c, "contents", "file", f)
           c1 == IF f \in Live(list) THEN marked ELSE c
           s == Store(c1, "files", f, files[f])
<1>1. d = IF f \notin DOMAIN files THEN c ELSE FoldSet(addOrReplaceContent, s, ByFile(f))
  BY DEF processEvent, event_fileUpdated
<1> HIDE DEF d
<1>2. CASE f \notin DOMAIN files
  BY <1>1, <1>2 DEF d
<1>3. CASE f \in DOMAIN files
  <2>1. Sound(marked) /\ Only("contents", marked, c) /\ Loses(marked.lists["contents"], contents,
                                                              K, K)
    BY TablesAre, MarkByLoses
  <2> HIDE DEF marked
  <2>2. /\ Sound(c1) /\ Only("contents", c1, c)
        /\ IF f \in Live(list) THEN Loses(c1.lists["contents"], contents, K, K)
                               ELSE c1.lists["contents"] = contents
    BY <2>1 DEF Only
  <2> HIDE DEF c1
  <2>3. /\ Sound(s) /\ Only("files", s, c1)
        /\ s.lists["files"] = Put(c1.lists["files"], f, Unmarked(files[f]))
    BY <2>2, TablesAre, StoreSound
  <2> HIDE DEF s
  <2>4. /\ Only("contents", d, s)
        /\ Filled(d.lists["contents"], s.lists["contents"], ByFile(f))
    BY <1>1, <1>3, <2>3, StoredFileIs, FoldFills
  <2>5. /\ \A u \in Tables : u \notin {"files", "contents"} => d.lists[u] = c.lists[u]
        /\ d.lists["files"] = s.lists["files"] /\ c1.lists["files"] = list
        /\ s.lists["contents"] = c1.lists["contents"]
    BY <2>2, <2>3, <2>4, TablesAre DEF Only
  <2> HIDE DEF list, contents, K
  <2>6. Filled(d.lists["contents"], c1.lists["contents"], ByFile(f))
    BY <2>4, <2>5
  <2> QED
    BY <1>3, <2>2, <2>3, <2>5, <2>6 DEF d, list, contents, K
<1> QED
  BY <1>2, <1>3

LEMMA ContentAtIs ==
  ASSUME NEW k
  PROVE  /\ k \in ContentKeys <=> HasContent(content, k)
         /\ k \in ContentKeys => ContentAt(k) \in content /\ Key(ContentAt(k)) = k
<1>1. k \in ContentKeys <=> \E r \in content : Key(r) = k
  BY DEF ContentKeys
<1>2. ASSUME NEW r \in content, Key(r) = k
      PROVE  ContentAt(k) \in content /\ Key(ContentAt(k)) = k
  BY <1>2 DEF ContentAt
<1> QED
  BY <1>1, <1>2 DEF HasContent

\* The record of a content is read again, and the marked ones go.
LEMMA ContentUpdatedHandled ==
  ASSUME NEW c, Sound(c), NEW e, e.type = "CONTENT_UPDATED", e.data = {}, NEW ok
  PROVE  LET d == processEvent(c, e, ok)
             k == <<e.id1, e.id2>>
             list == c.lists["contents"]
             new == d.lists["contents"]
         IN /\ Only("contents", d, c)
            /\ Flagged(new)
            /\ \A x \in DOMAIN new : IF x = k THEN new[x].info \in content /\ Key(new[x].info) = k
                                              ELSE x \in DOMAIN list /\ new[x] = list[x]
            /\ \A x \in Live(list) : x # k => x \in Live(new)
            /\ \A r \in content : Key(r) = k => k \in Live(new)
<1> DEFINE d == processEvent(c, e, ok)
           k == <<e.id1, e.id2>>
           list == c.lists["contents"]
           gone == {k} \cup Marked(list)
           left == Without(list, gone)
           c1 == [c EXCEPT !.lists.contents = Without(@, gone)]
           s == Store(c1, "contents", k, ContentAt(k))
<1>1. d = event_contentAdded(c1, e)
  <2>1. c.lists.contents = list
    OBVIOUS
  <2> QED
    BY <2>1 DEF processEvent, event_contentUpdated
<1>2. /\ ListsOK(c1) /\ c1.lists["contents"] = left
      /\ \A u \in Tables : u # "contents" => c1.lists[u] = c.lists[u]
  <2> HIDE DEF gone
  <2>1. ListsOK(c1)
    BY ContentWithout DEF Sound
  <2>2. PICK L, C : c = [lists |-> L, counters |-> C] /\ DOMAIN L = Tables
    BY DEF Sound, ListsOK
  <2>3. c1 = [lists |-> [L EXCEPT !["contents"] = Without(L["contents"], gone)], counters |-> C]
    BY <2>2
  <2> HIDE DEF c1
  <2> QED
    BY <2>1, <2>2, <2>3, TablesAre
<1>3. Flagged(list)
  BY TablesAre DEF Sound
<1>4. /\ \A x : x \in DOMAIN left <=> x \in Live(list) /\ x # k
      /\ \A x \in DOMAIN left : left[x] = list[x]
  BY LiveIs DEF Without
<1> HIDE DEF left, c1, gone, list
<1>5. Flagged(left) /\ \A x : x \in Live(left) <=> x \in Live(list) /\ x # k
  BY <1>3, <1>4, LiveIs DEF Flagged
<1>6. Sound(c1) /\ Only("contents", c1, c)
  BY <1>2, <1>5 DEF Sound, Only
<1>7. Sound(s) /\ Only("contents", s, c1) /\ s.lists["contents"] = Put(left, k, Unmarked(ContentAt(k)))
  BY <1>2, <1>6, TablesAre, StoreSound
<1>8. d = IF StoredContent(k) = {} THEN c1
          ELSE Store(c1, "contents", k, CHOOSE r \in StoredContent(k) : TRUE)
  <2>1. k \notin DOMAIN c1.lists.contents
    BY <1>2, <1>4
  <2> QED
    BY <1>1, <2>1 DEF event_contentAdded
<1> HIDE DEF d
<1>9. CASE k \notin ContentKeys
  <2>1. d = c1
    BY <1>8, <1>9 DEF StoredContent
  <2>2. \A r \in content : Key(r) # k
    BY <1>9, ContentAtIs DEF HasContent
  <2> QED
    BY <1>2, <1>4, <1>5, <1>6, <2>1, <2>2, LiveIs DEF d, list
<1>10. CASE k \in ContentKeys
  <2>1. StoredContent(k) = {ContentAt(k)}
    BY <1>10 DEF StoredContent
  <2>2. d = s
    BY <1>8, <2>1
  <2> DEFINE new == d.lists["contents"]
  <2>3. new = Put(left, k, Unmarked(ContentAt(k)))
    BY <1>7, <2>2
  <2>4. /\ DOMAIN new = DOMAIN left \cup {k}
        /\ new[k] = [info |-> ContentAt(k), deleted |-> FALSE]
        /\ \A x \in DOMAIN left : x # k => new[x] = left[x]
    BY <2>3 DEF Put, Unmarked
  <2> HIDE DEF new
  <2>5. Flagged(new) /\ Live(new) = Live(left) \cup {k}
    BY ONLY <1>5, <2>3, PutLive
  <2>6. Only("contents", d, c)
    BY <1>6, <1>7, <2>2 DEF Only
  <2>7. \A x \in DOMAIN new : IF x = k THEN new[x].info \in content /\ Key(new[x].info) = k
                                       ELSE x \in DOMAIN list /\ new[x] = list[x]
    BY <1>4, <1>10, <2>4, ContentAtIs, LiveIs
  <2>8. /\ \A x \in Live(list) : x # k => x \in Live(new)
        /\ k \in Live(new)
    BY <1>5, <2>5
  <2> QED
    BY <2>5, <2>6, <2>7, <2>8 DEF d, list, new
<1> QED
  BY <1>9, <1>10

-----------------------------------------------------------------------------
(* What every event does to the lists that it does not bring up to date.      *)

Unfollowed == {"CLEAR", "PRODUCER_UPDATED", "GENERATION_UPDATED", "CONTENT_ADDED"}

LEMMA RemoversRemove ==
  ASSUME NEW c, Sound(c), KeysFit(c), NEW e, e.type \in Removers, NEW ok
  PROVE  Removed(processEvent(c, e, ok), c, e)
<1>1. CASE e.type = "PRODUCER_DELETED"
  BY <1>1, ProducerDeletedRemoves DEF processEvent
<1>2. CASE e.type = "GENERATION_DELETED"
  BY <1>2, GenerationDeletedRemoves DEF processEvent
<1>3. CASE e.type = "GENERATION_LIST_DELETED_BY_PRODUCER_ID"
  BY <1>3, GenerationListDeletedRemoves DEF processEvent
<1>4. CASE e.type = "FILE_DELETED"
  BY <1>4, FileDeletedRemoves DEF processEvent
<1>5. CASE e.type = "FILE_LIST_DELETED_BY_PRODUCER_ID"
  BY <1>5, FilesOfProducerRemoves DEF processEvent
<1>6. CASE e.type = "FILE_LIST_DELETED_BY_GENERATION_ID"
  BY <1>6, FilesOfGenerationRemoves DEF processEvent
<1>7. CASE e.type = "CONTENT_LIST_DELETED_BY_FILE_ID"
  BY <1>7, ContentOfFileRemoves DEF processEvent
<1>8. CASE e.type = "CONTENT_LIST_DELETED_BY_PRODUCER_ID"
  BY <1>8, ContentOfProducerRemoves DEF processEvent
<1>9. CASE e.type = "CONTENT_LIST_DELETED_BY_GENERATION_ID"
  BY <1>9, ContentOfGenerationRemoves DEF processEvent
<1>10. CASE e.type = "CONTENT_DELETED"
  BY <1>10, ContentDeletedRemoves DEF processEvent
<1>11. CASE e.type = "GEOMETRY_DELETED"
  BY <1>11, GeometryDeletedRemoves DEF processEvent, processGeometryEvent
<1>12. CASE e.type = "GEOMETRY_LIST_DELETED_BY_GENERATION_ID"
  BY <1>12, GeometriesOfGenerationRemoves DEF processEvent, processGeometryEvent
<1>13. CASE e.type = "GEOMETRY_LIST_DELETED_BY_PRODUCER_ID"
  BY <1>13, GeometriesOfProducerRemoves DEF processEvent, processGeometryEvent
<1> QED
  BY <1>1, <1>2, <1>3, <1>4, <1>5, <1>6, <1>7, <1>8, <1>9, <1>10, <1>11, <1>12, <1>13
     DEF Removers

LEMMA ListsLose ==
  ASSUME Typed, NEW c, Sound(c), KeysFit(c), NEW e, e.type \notin Unfollowed,
         e.type = "FILE_ADDED" => FileData(e.data),
         e.type = "CONTENT_UPDATED" => e.data = {}, NEW ok \in BOOLEAN,
         \A g \in DOMAIN generations : IsGeneration(generations[g]),
         \A g \in Marked(c.lists["generations"]) : g \notin DOMAIN generations
  PROVE  LET d == processEvent(c, e, ok)
         IN /\ e.type # "PRODUCER_ADDED" => LoseProducers(d, c, e)
            /\ e.type \notin {"GENERATION_ADDED", "GENERATION_STATUS_CHANGED"}
                 => LoseGenerations(d, c, e)
            /\ e.type \notin {"GEOMETRY_ADDED", "GEOMETRY_UPDATED", "GEOMETRY_STATUS_CHANGED"}
                 => LoseGeometries(d, c, e)
            /\ e.type \notin {"FILE_ADDED", "FILE_UPDATED"} => LoseFiles(d, c, e)
            /\ e.type \notin {"FILE_ADDED", "FILE_UPDATED", "CONTENT_UPDATED"}
                 => LoseContents(d, c, e)
<1> DEFINE d == processEvent(c, e, ok)
<1>1. CASE e.type \in Removers
  BY <1>1, RemoversRemove DEF Removed
<1>2. CASE e.type = "PRODUCER_ADDED"
  <2>1. d = event_producerAdded(c, e.id1)
    BY <1>2 DEF processEvent
  <2>2. Only("producers", d, c)
    BY <2>1, ProducerAddedHandled
  <2> HIDE DEF d
  <2>3. \A u \in Tables : u # "producers" => d.lists[u] = c.lists[u]
    BY <2>2 DEF Only
  <2> QED
    BY <1>2, <2>3, Unconcerned, TablesAre DEF Removers, d
<1>3. CASE e.type \in {"GENERATION_ADDED", "GENERATION_STATUS_CHANGED"}
  <2>1. Only("generations", d, c)
    BY <1>3, GenerationHandled
  <2> HIDE DEF d
  <2>2. \A u \in Tables : u # "generations" => d.lists[u] = c.lists[u]
    BY <2>1 DEF Only
  <2> QED
    BY <1>3, <2>2, Unconcerned, TablesAre DEF Removers, d
<1>4. CASE e.type \in {"GEOMETRY_ADDED", "GEOMETRY_UPDATED", "GEOMETRY_STATUS_CHANGED"}
  <2>1. Only("geometries", d, c)
    BY <1>4, GeometryHandled
  <2> HIDE DEF d
  <2>2. \A u \in Tables : u # "geometries" => d.lists[u] = c.lists[u]
    BY <2>1 DEF Only
  <2> QED
    BY <1>4, <2>2, Unconcerned, TablesAre DEF Removers, d
<1>5. CASE e.type \in {"FILE_ADDED", "FILE_UPDATED"}
  <2>1. \A u \in Tables : u \notin {"files", "contents"} => d.lists[u] = c.lists[u]
    BY <1>5, FileAddedHandled, FileUpdatedHandled
  <2> HIDE DEF d
  <2> QED
    BY <1>5, <2>1, Unconcerned, TablesAre DEF Removers, d
<1>6. CASE e.type = "CONTENT_UPDATED"
  <2>1. Only("contents", d, c)
    BY <1>6, ContentUpdatedHandled
  <2> HIDE DEF d
  <2>2. \A u \in Tables : u # "contents" => d.lists[u] = c.lists[u]
    BY <2>1 DEF Only
  <2> QED
    BY <1>6, <2>2, Unconcerned, TablesAre DEF Removers, d
<1>7. CASE e.type \notin Removers \cup {"PRODUCER_ADDED", "GENERATION_ADDED",
             "GENERATION_STATUS_CHANGED", "GEOMETRY_ADDED", "GEOMETRY_UPDATED",
             "GEOMETRY_STATUS_CHANGED", "FILE_ADDED", "FILE_UPDATED", "CONTENT_UPDATED"}
  <2>1. d = c
    BY <1>7 DEF processEvent, processGeometryEvent, Removers, Unfollowed
  <2> HIDE DEF d
  <2>2. \A u \in Tables : d.lists[u] = c.lists[u]
    BY <2>1
  <2> QED
    BY <1>7, <2>2, Unconcerned, TablesAre DEF Removers, d
<1> QED
  BY <1>1, <1>2, <1>3, <1>4, <1>5, <1>6, <1>7

-----------------------------------------------------------------------------
(* The cache takes the first pending event: its lists follow the storage by  *)
(* the events after it.                                                     *)

LEMMA MatchesSame ==
  ASSUME NEW h, NEW e, Matches(h, e)
  PROVE  /\ h.type = e.type /\ h.id1 = e.id1 /\ h.id2 = e.id2 /\ h.flags = e.flags
         /\ EventGeometry(h) = EventGeometry(e)
         /\ \A t, i : Of(h, t, i) <=> Of(e, t, i)
         /\ \A p, g : OwnerGone(h, p, g) <=> OwnerGone(e, p, g)
         /\ \A k, p : GeometryGone(h, k, p) <=> GeometryGone(e, k, p)
         /\ \A f, r : FileGone(h, f, r) <=> FileGone(e, f, r)
         /\ \A r : ContentGone(h, r) <=> ContentGone(e, r)
<1>1. /\ h.type = e.type /\ h.id1 = e.id1 /\ h.id2 = e.id2 /\ h.flags = e.flags
      /\ EventGeometry(h) = EventGeometry(e)
  BY DEF Matches, EventGeometry
<1>2. \A t, i : Of(h, t, i) <=> Of(e, t, i)
  BY <1>1 DEF Of
<1>3. \A p, g : OwnerGone(h, p, g) <=> OwnerGone(e, p, g)
  BY <1>2 DEF OwnerGone
<1>4. \A k, p : GeometryGone(h, k, p) <=> GeometryGone(e, k, p)
  BY <1>1, <1>2, <1>3 DEF GeometryGone, GeometryTold
<1>5. \A f, r : FileGone(h, f, r) <=> FileGone(e, f, r)
  BY <1>2, <1>3 DEF FileGone
<1>6. \A r : ContentGone(h, r) <=> ContentGone(e, r)
  BY <1>1, <1>2, <1>5 DEF ContentGone, ContentTold
<1> QED
  BY <1>1, <1>2, <1>3, <1>4, <1>5, <1>6

\* What the storage keeps true of its own tables.
StorageFits ==
  /\ Typed
  /\ \A p, q \in DOMAIN producers : producers[p] = producers[q] => p = q
  /\ HaveProducers(generations, producers)
  /\ DOMAIN generations \subseteq 1..generationCounter
  /\ \A g \in DOMAIN generations : IsGeneration(generations[g])
  /\ GeometriesOwned(geometries, generations)
  /\ ContentsOwned(content, files)

\* The lists follow the tables.
Tracked(c, except, fetched, log) ==
  /\ ProducersFollow(c.lists["producers"], producers, producerCounter, log)
  /\ GenerationsFollow(c.lists["generations"], generations, generationCounter, except, log)
  /\ GeometriesFollow(c.lists["geometries"], geometries, generations, generationCounter, log)
  /\ FilesFollow(c.lists["files"], files, log)
  /\ ContentsFollow(c.lists["contents"], content, files, fetched, log)

LEMMA TrackedIs ==
  ASSUME NEW c, ListsOK(c), NEW except, NEW fetched, NEW log, Tracked(c, except, fetched, log)
  PROVE  /\ Sound(c) /\ KeysFit(c)
         /\ \A g \in Marked(c.lists["generations"]) : g \notin DOMAIN generations
<1>1. \A t \in Tables : Flagged(c.lists[t])
  BY DEF Tracked, ProducersFollow, GenerationsFollow, GeometriesFollow, FilesFollow, ContentsFollow,
         Tables
<1>2. KeysFit(c)
  BY DEF Tracked, GeometriesFollow, ContentsFollow, KeysFit
<1>3. \A g \in Marked(c.lists["generations"]) : g \notin DOMAIN generations
  BY DEF Tracked, GenerationsFollow
<1> QED
  BY <1>1, <1>2, <1>3 DEF Sound

\* The event that is taken: it is the first of the page and of the log.
Taken(c, except, fetched, log, m, rest, short, e) ==
  /\ StorageFits /\ ListsOK(c) /\ Tracked(c, except, fetched, log) /\ StorageTold(log)
  /\ DOMAIN log \subseteq Int /\ Cut(log, m, rest) /\ rest = After(log, m)
  /\ Len(fetched) \in Nat /\ 1 \in 1..Len(fetched) /\ e = fetched[1] /\ e.id = m
  /\ e.type = "FILE_ADDED" => FileData(e.data)
  /\ PageInLog(fetched, log) /\ PageMatches(fetched, log) /\ PageFollows(fetched, content, files, log)
  /\ Shorter(short, fetched)

LEMMA TakenIs ==
  ASSUME NEW c, NEW except, NEW fetched, NEW log, NEW m, NEW rest, NEW short, NEW e,
         Taken(c, except, fetched, log, m, rest, short, e)
  PROVE  /\ Typed /\ Sound(c) /\ KeysFit(c) /\ Matches(e, log[m]) /\ m \in DOMAIN log
         /\ log[m].type \notin Unfollowed /\ e.type \notin Unfollowed
         /\ e.type = "CONTENT_UPDATED" => e.data = {}
         /\ e.type = "FILE_ADDED" => FileData(e.data)
         /\ \A g \in DOMAIN generations : IsGeneration(generations[g])
         /\ \A g \in Marked(c.lists["generations"]) : g \notin DOMAIN generations
<1>1. m \in DOMAIN log /\ Matches(e, log[m]) /\ e.type # "CLEAR"
      /\ (e.type = "CONTENT_UPDATED" => e.data = {})
  BY DEF Taken, PageMatches
<1>2. log[m].type \notin Unfollowed /\ e.type = log[m].type
  BY <1>1 DEF Taken, StorageTold, TypesTold, Unfollowed, Matches
<1>3. /\ Typed /\ (e.type = "FILE_ADDED" => FileData(e.data))
      /\ \A g \in DOMAIN generations : IsGeneration(generations[g])
  BY DEF Taken, StorageFits
<1>4. /\ Sound(c) /\ KeysFit(c)
      /\ \A g \in Marked(c.lists["generations"]) : g \notin DOMAIN generations
  BY TrackedIs DEF Taken
<1> QED
  BY <1>1, <1>2, <1>3, <1>4

LEMMA TakenLoses ==
  ASSUME NEW c, NEW except, NEW fetched, NEW log, NEW m, NEW rest, NEW short, NEW e,
         Taken(c, except, fetched, log, m, rest, short, e), NEW ok \in BOOLEAN
  PROVE  LET d == processEvent(c, e, ok)
         IN /\ e.type # "PRODUCER_ADDED" => LoseProducers(d, c, e)
            /\ e.type \notin {"GENERATION_ADDED", "GENERATION_STATUS_CHANGED"}
                 => LoseGenerations(d, c, e)
            /\ e.type \notin {"GEOMETRY_ADDED", "GEOMETRY_UPDATED", "GEOMETRY_STATUS_CHANGED"}
                 => LoseGeometries(d, c, e)
            /\ e.type \notin {"FILE_ADDED", "FILE_UPDATED"} => LoseFiles(d, c, e)
            /\ e.type \notin {"FILE_ADDED", "FILE_UPDATED", "CONTENT_UPDATED"}
                 => LoseContents(d, c, e)
BY TakenIs, ListsLose

LEMMA ProducersHandled ==
  ASSUME NEW c, NEW except, NEW fetched, NEW log, NEW m, NEW rest, NEW short, NEW e,
         Taken(c, except, fetched, log, m, rest, short, e), NEW ok \in BOOLEAN
  PROVE  ProducersFollow(processEvent(c, e, ok).lists["producers"], producers, producerCounter, rest)
<1> DEFINE d == processEvent(c, e, ok)
           list == c.lists["producers"]
           new == d.lists["producers"]
<1>1. /\ Sound(c) /\ Matches(e, log[m])
      /\ e.type # "PRODUCER_ADDED" => LoseProducers(d, c, e)
  BY TakenIs, TakenLoses
<1>2. e.type = log[m].type /\ e.id1 = log[m].id1 /\ \A t, i : Of(e, t, i) <=> Of(log[m], t, i)
  BY <1>1, MatchesSame
<1>3. /\ Cut(log, m, rest) /\ ProducersTold(producers, producerCounter, log)
      /\ ProducersFollow(list, producers, producerCounter, log)
      /\ \A p, q \in DOMAIN producers : producers[p] = producers[q] => p = q
  BY DEF Taken, StorageTold, StorageFits, Tracked
<1>4. CASE e.type = "PRODUCER_ADDED"
  <2>1. d = event_producerAdded(c, e.id1)
    BY <1>4 DEF processEvent
  <2>2. new = ProducerAddedTo(list, producers, log[m].id1)
    BY <1>1, <1>2, <2>1, ProducerAddedHandled
  <2> HIDE DEF d, list, new
  <2>3. log[m].type = "PRODUCER_ADDED"
    BY <1>2, <1>4
  <2>4. ProducersFollow(ProducerAddedTo(list, producers, log[m].id1), producers, producerCounter, rest)
    BY ONLY <1>3, <2>3, ProducerAddedIs
  <2> QED
    BY <2>2, <2>4 DEF new, d
<1>5. CASE e.type # "PRODUCER_ADDED"
  <2> DEFINE K == LostProducers(list, e)
  <2>1. Loses(new, list, K, K)
    BY <1>1, <1>5 DEF LoseProducers
  <2>2. /\ \A q : q \in DOMAIN list => (q \in K <=> Of(log[m], "PRODUCER_DELETED", q))
        /\ \A q \in K : q \in DOMAIN list /\ Of(log[m], "PRODUCER_DELETED", q)
        /\ log[m].type # "PRODUCER_ADDED"
    BY <1>2, <1>5 DEF LostProducers
  <2> HIDE DEF d, list, new, K
  <2>3. ProducersFollow(new, producers, producerCounter, rest)
    BY ONLY <1>3, <2>1, <2>2, ProducersLost
  <2> QED
    BY <2>3 DEF new, d
<1> QED
  BY <1>4, <1>5

\* The generations that could not be read, after an event.
ReadsAgain(e, ok, except, unable) ==
  \/ ok /\ unable \in {except, except \ {e.id1}}
        /\ (unable # except => e.type \in {"GENERATION_ADDED", "GENERATION_STATUS_CHANGED"})
  \/ /\ ~ok /\ unable = except \cup {e.id1}
     /\ e.type \in {"GENERATION_ADDED", "GENERATION_STATUS_CHANGED"}

LEMMA GenerationsHandled ==
  ASSUME NEW c, NEW except, NEW fetched, NEW log, NEW m, NEW rest, NEW short, NEW e,
         Taken(c, except, fetched, log, m, rest, short, e), NEW ok \in BOOLEAN,
         NEW unable, ReadsAgain(e, ok, except, unable)
  PROVE  GenerationsFollow(processEvent(c, e, ok).lists["generations"], generations,
                           generationCounter, unable, rest)
<1> DEFINE d == processEvent(c, e, ok)
           list == c.lists["generations"]
           new == d.lists["generations"]
<1>1. /\ Sound(c) /\ Matches(e, log[m])
      /\ e.type \notin {"GENERATION_ADDED", "GENERATION_STATUS_CHANGED"} => LoseGenerations(d, c, e)
  BY TakenIs, TakenLoses
<1>2. /\ e.type = log[m].type /\ e.id1 = log[m].id1 /\ e.id2 = log[m].id2
      /\ \A t, i : Of(e, t, i) <=> Of(log[m], t, i)
      /\ \A p, g : OwnerGone(e, p, g) <=> OwnerGone(log[m], p, g)
  BY <1>1, MatchesSame
<1>3. /\ Cut(log, m, rest) /\ ProducersTold(producers, producerCounter, log)
      /\ GenerationsTold(generations, generationCounter, log)
      /\ HaveProducers(generations, producers)
      /\ GenerationsFollow(list, generations, generationCounter, except, log)
      /\ DOMAIN generations \subseteq 1..generationCounter
  BY DEF Taken, StorageTold, StorageFits, Tracked
<1>4. CASE e.type \in {"GENERATION_ADDED", "GENERATION_STATUS_CHANGED"}
  <2> DEFINE g == e.id1
  <2>1. \/ /\ new = list
           /\ \/ e.type = "GENERATION_ADDED" /\ g \in Live(list)
              \/ g \notin Live(list) /\ (g \notin DOMAIN generations \/ ~ok)
        \/ /\ g \in DOMAIN generations /\ g \notin Live(list)
           /\ \E info : /\ IsGeneration(info)
                        /\ info.producer = generations[g].producer
                        /\ info.name = generations[g].name
                        /\ \/ info.status = generations[g].status
                           \/ e.type = "GENERATION_STATUS_CHANGED" /\ info.status = e.id2
                        /\ new = Put(list, g, Unmarked(info))
        \/ /\ e.type = "GENERATION_STATUS_CHANGED" /\ g \in Live(list)
           /\ StatusSet(new, list, g, e.id2)
    BY <1>4, TakenIs, GenerationHandled
  <2>2. except \ {g} \subseteq unable /\ (~ok => g \in unable)
    BY DEF ReadsAgain
  <2> HIDE DEF d, list, new
  <2>3. /\ log[m].type \in {"GENERATION_ADDED", "GENERATION_STATUS_CHANGED"} /\ log[m].id1 = g
        /\ \/ /\ new = list
              /\ \/ log[m].type = "GENERATION_ADDED" /\ g \in Live(list)
                 \/ g \notin Live(list) /\ (g \notin DOMAIN generations \/ g \in unable)
           \/ /\ g \in DOMAIN generations /\ g \notin Live(list)
              /\ \E info : /\ IsGeneration(info)
                           /\ info.producer = generations[g].producer
                           /\ info.name = generations[g].name
                           /\ \/ info.status = generations[g].status
                              \/ log[m].type = "GENERATION_STATUS_CHANGED" /\ info.status = log[m].id2
                           /\ new = Put(list, g, Unmarked(info))
           \/ /\ log[m].type = "GENERATION_STATUS_CHANGED" /\ g \in Live(list)
              /\ StatusSet(new, list, g, log[m].id2)
    BY <1>2, <1>4, <2>1, <2>2
  <2> HIDE DEF g
  <2>4. GenerationsFollow(new, generations, generationCounter, unable, rest)
    BY ONLY <1>3, <2>2, <2>3, GenerationRead
  <2> QED
    BY <2>4 DEF new, d
<1>5. CASE e.type \notin {"GENERATION_ADDED", "GENERATION_STATUS_CHANGED"}
  <2> DEFINE K == LostGenerations(list, e)
             M == GenerationMarks(list, e)
  <2>1. Loses(new, list, K, M)
    BY <1>1, <1>5 DEF LoseGenerations
  <2>2. /\ \A g \in DOMAIN list : g \in K <=> OwnerGone(log[m], list[g].info.producer, g)
        /\ \A g \in M : g \in DOMAIN list /\ Of(log[m], "PRODUCER_DELETED", list[g].info.producer)
        /\ log[m].type \notin {"GENERATION_ADDED", "GENERATION_STATUS_CHANGED"}
    BY <1>2, <1>5 DEF LostGenerations, GenerationMarks
  <2>3. unable = except
    BY <1>5 DEF ReadsAgain
  <2> HIDE DEF d, list, new, K, M
  <2>4. GenerationsFollow(new, generations, generationCounter, except, rest)
    BY ONLY <1>3, <2>1, <2>2, GenerationsLost
  <2> QED
    BY <2>3, <2>4 DEF new, d
<1> QED
  BY <1>4, <1>5

LEMMA GeometriesHandled ==
  ASSUME NEW c, NEW except, NEW fetched, NEW log, NEW m, NEW rest, NEW short, NEW e,
         Taken(c, except, fetched, log, m, rest, short, e), NEW ok \in BOOLEAN
  PROVE  GeometriesFollow(processEvent(c, e, ok).lists["geometries"], geometries, generations,
                          generationCounter, rest)
<1> DEFINE d == processEvent(c, e, ok)
           list == c.lists["geometries"]
           new == d.lists["geometries"]
           k == EventGeometry(e)
<1>1. /\ Sound(c) /\ Matches(e, log[m])
      /\ e.type \notin {"GEOMETRY_ADDED", "GEOMETRY_UPDATED", "GEOMETRY_STATUS_CHANGED"}
           => LoseGeometries(d, c, e)
  BY TakenIs, TakenLoses
<1>2. /\ e.type = log[m].type /\ e.flags = log[m].flags /\ EventGeometry(log[m]) = k
      /\ \A t, i : Of(e, t, i) <=> Of(log[m], t, i)
      /\ \A x, p : GeometryGone(e, x, p) <=> GeometryGone(log[m], x, p)
  BY <1>1, MatchesSame
<1>3. /\ Cut(log, m, rest) /\ ProducersTold(producers, producerCounter, log)
      /\ GenerationsTold(generations, generationCounter, log)
      /\ GeometriesTold(geometries, generations, generationCounter, log)
      /\ HaveProducers(generations, producers) /\ GeometriesOwned(geometries, generations)
      /\ GeometriesFollow(list, geometries, generations, generationCounter, log)
      /\ DOMAIN generations \subseteq 1..generationCounter
  BY DEF Taken, StorageTold, StorageFits, Tracked
<1>4. CASE e.type \in {"GEOMETRY_ADDED", "GEOMETRY_UPDATED", "GEOMETRY_STATUS_CHANGED"}
  <2>1. \/ /\ new = list
           /\ \/ e.type = "GEOMETRY_ADDED" /\ k \in DOMAIN list
              \/ e.type # "GEOMETRY_ADDED" /\ k \notin Live(list)
              \/ ~HaveKey(geometries, k)
        \/ \E y \in geometries : GeometryKey(y) = k /\ new = Put(list, k, Unmarked(y))
        \/ /\ e.type = "GEOMETRY_STATUS_CHANGED" /\ k \in Live(list)
           /\ StatusSet(new, list, k, e.flags)
    BY <1>1, <1>4, GeometryHandled
  <2> HIDE DEF d, list, new, k
  <2>2. /\ log[m].type \in {"GEOMETRY_ADDED", "GEOMETRY_UPDATED", "GEOMETRY_STATUS_CHANGED"}
        /\ \/ /\ new = list
              /\ \/ log[m].type = "GEOMETRY_ADDED" /\ k \in DOMAIN list
                 \/ log[m].type # "GEOMETRY_ADDED" /\ k \notin Live(list)
                 \/ ~HaveKey(geometries, k)
           \/ \E y \in geometries : GeometryKey(y) = k /\ new = Put(list, k, Unmarked(y))
           \/ /\ log[m].type = "GEOMETRY_STATUS_CHANGED" /\ k \in Live(list)
              /\ StatusSet(new, list, k, log[m].flags)
    BY <1>2, <1>4, <2>1
  <2>3. GeometriesFollow(new, geometries, generations, generationCounter, rest)
    BY ONLY <1>2, <1>3, <2>2, GeometryRead
  <2> QED
    BY <2>3 DEF new, d
<1>5. CASE e.type \notin {"GEOMETRY_ADDED", "GEOMETRY_UPDATED", "GEOMETRY_STATUS_CHANGED"}
  <2> DEFINE K == LostGeometries(list, e)
             M == GeometryMarks(list, e)
  <2>1. Loses(new, list, K, M)
    BY <1>1, <1>5 DEF LoseGeometries
  <2>2. /\ \A x \in DOMAIN list : x \in K <=> GeometryGone(log[m], x, list[x].info.producer)
        /\ \A x \in M : /\ x \in DOMAIN list
                        /\ \/ Of(log[m], "PRODUCER_DELETED", list[x].info.producer)
                           \/ Of(log[m], "GENERATION_DELETED", x[1])
        /\ log[m].type \notin {"GEOMETRY_ADDED", "GEOMETRY_UPDATED", "GEOMETRY_STATUS_CHANGED"}
    BY <1>2, <1>5 DEF LostGeometries, GeometryMarks
  <2> HIDE DEF d, list, new, K, M
  <2>3. GeometriesFollow(new, geometries, generations, generationCounter, rest)
    BY ONLY <1>3, <2>1, <2>2, GeometriesLost
  <2> QED
    BY <2>3 DEF new, d
<1> QED
  BY <1>4, <1>5

\* What comes with the event of a new file, or is read for it.
LEMMA FoundFollows ==
  ASSUME NEW c, NEW except, NEW fetched, NEW log, NEW m, NEW rest, NEW short, NEW e,
         Taken(c, except, fetched, log, m, rest, short, e), e.type = "FILE_ADDED",
         NEW found, found = IF e.data # {} THEN e.data ELSE StoredFile(e.id1, e.id3)
  PROVE  /\ found = {} => e.id1 \notin DOMAIN files
         /\ \A x \in found :
              /\ FileFollows(e.id1, x.file, files, rest)
              /\ \A r \in x.contents : ContentFollows(r, content, files, rest)
              /\ \A r \in content : Brings(m, Key(r), fetched, log) =>
                   \E s \in x.contents : Key(s) = Key(r)
<1>1. /\ 1 \in 1..Len(fetched) /\ e = fetched[1] /\ e.id = m /\ rest = After(log, m)
      /\ PageFollows(fetched, content, files, log)
  BY DEF Taken
<1>2. log[m].type = "FILE_ADDED" /\ log[m].id1 = e.id1 /\ log[m].id3 = e.id3
  BY TakenIs DEF Matches
<1>3. CASE e.data # {}
  <2>1. ASSUME NEW x \in found
        PROVE  /\ FileFollows(e.id1, x.file, files, rest)
               /\ \A r \in x.contents : ContentFollows(r, content, files, rest)
               /\ \A r \in content : Brings(m, Key(r), fetched, log) =>
                    \E s \in x.contents : Key(s) = Key(r)
    <3>1. x \in fetched[1].data /\ fetched[1].type = "FILE_ADDED"
      BY <1>1, <1>3
    <3>2. DataFollows(fetched[1], x, fetched[Len(fetched)].id, content, files, log)
      BY <1>1, <3>1 DEF PageFollows
    <3>3. /\ FileFollows(e.id1, x.file, files, rest)
          /\ \A r \in x.contents : ContentFollows(r, content, files, rest)
      BY <1>1, <3>2 DEF DataFollows
    <3>4. \A r \in content : Brings(m, Key(r), fetched, log) =>
            \E s \in x.contents : Key(s) = Key(r)
      BY <1>1, <3>1 DEF Brings
    <3> QED
      BY <3>3, <3>4
  <2> QED
    BY <1>3, <2>1
<1>4. CASE e.data = {}
  <2>1. found = {[file |-> files[y], contents |-> IF e.id3 > 0 THEN ByFile(y) ELSE {}]
                   : y \in {e.id1} \cap DOMAIN files}
    BY <1>4 DEF StoredFile
  <2>2. ASSUME NEW x \in found
        PROVE  /\ FileFollows(e.id1, x.file, files, rest)
               /\ \A r \in x.contents : ContentFollows(r, content, files, rest)
               /\ \A r \in content : Brings(m, Key(r), fetched, log) =>
                    \E s \in x.contents : Key(s) = Key(r)
    <3>1. /\ e.id1 \in DOMAIN files /\ x.file = files[e.id1]
          /\ x.contents = IF e.id3 > 0 THEN ByFile(e.id1) ELSE {}
      BY <2>1
    <3>2. FileFollows(e.id1, x.file, files, rest)
      BY <3>1 DEF FileFollows
    <3>3. \A r \in x.contents : ContentFollows(r, content, files, rest)
      BY <3>1 DEF ByFile, ContentFollows
    <3>4. ASSUME NEW r \in content, Brings(m, Key(r), fetched, log)
          PROVE  \E s \in x.contents : Key(s) = Key(r)
      <4>1. Key(r)[1] = e.id1 /\ e.id3 > 0
        BY <1>2, <3>4 DEF Brings, ContentAdded, Of, ContentTold
      <4>2. r \in ByFile(e.id1)
        BY <4>1 DEF Key, ByFile
      <4> QED
        BY <3>1, <4>1, <4>2
    <3> QED
      BY <3>2, <3>3, <3>4
  <2>3. found = {} => e.id1 \notin DOMAIN files
    BY <2>1
  <2> QED
    BY <2>2, <2>3
<1> QED
  BY <1>3, <1>4

LEMMA FoundBrings ==
  ASSUME NEW c, NEW except, NEW fetched, NEW log, NEW m, NEW rest, NEW short, NEW e,
         Taken(c, except, fetched, log, m, rest, short, e), e.type = "FILE_ADDED",
         NEW found, found = IF e.data # {} THEN e.data ELSE StoredFile(e.id1, e.id3),
         NEW x \in found, NEW r \in content, Brings(m, Key(r), fetched, log)
  PROVE  \E s \in x.contents : Key(s) = Key(r)
BY FoundFollows

LEMMA FilesHandled ==
  ASSUME NEW c, NEW except, NEW fetched, NEW log, NEW m, NEW rest, NEW short, NEW e,
         Taken(c, except, fetched, log, m, rest, short, e), NEW ok \in BOOLEAN
  PROVE  FilesFollow(processEvent(c, e, ok).lists["files"], files, rest)
<1> DEFINE d == processEvent(c, e, ok)
           list == c.lists["files"]
           new == d.lists["files"]
           found == IF e.data # {} THEN e.data ELSE StoredFile(e.id1, e.id3)
<1>1. /\ Typed /\ Sound(c) /\ Matches(e, log[m])
      /\ e.type = "FILE_ADDED" => FileData(e.data)
      /\ e.type \notin {"FILE_ADDED", "FILE_UPDATED"} => LoseFiles(d, c, e)
  BY TakenIs, TakenLoses
<1>2. /\ e.type = log[m].type /\ log[m].id1 = e.id1
      /\ \A f, r : FileGone(e, f, r) <=> FileGone(log[m], f, r)
  BY <1>1, MatchesSame
<1>3. Cut(log, m, rest) /\ FilesTold(files, log) /\ FilesFollow(list, files, log)
  BY DEF Taken, StorageTold, Tracked
<1>4. CASE e.type \in {"FILE_ADDED", "FILE_UPDATED"}
  <2>1. \/ new = list /\ (e.id1 \in Live(list) \/ e.id1 \notin DOMAIN files)
        \/ \E r : FileFollows(e.id1, r, files, rest) /\ new = Put(list, e.id1, Unmarked(r))
    <3>1. CASE e.type = "FILE_ADDED"
      <4>1. /\ found = {} => e.id1 \notin DOMAIN files
            /\ \A x \in found : FileFollows(e.id1, x.file, files, rest)
        BY <3>1, FoundFollows
      <4>2. \/ found = {} /\ d = c
            \/ \E x \in found : d.lists["files"] = IF e.id1 \in Live(list) THEN list
                                                  ELSE Put(list, e.id1, Unmarked(x.file))
        BY <1>1, <3>1, FileAddedHandled
      <4> HIDE DEF d, found, list
      <4> QED
        BY <4>1, <4>2 DEF list
    <3>2. CASE e.type = "FILE_UPDATED"
      <4>1. \/ e.id1 \notin DOMAIN files /\ d = c
            \/ /\ e.id1 \in DOMAIN files
               /\ d.lists["files"] = Put(list, e.id1, Unmarked(files[e.id1]))
        BY <1>1, <3>2, FileUpdatedHandled
      <4>2. e.id1 \in DOMAIN files => FileFollows(e.id1, files[e.id1], files, rest)
        BY DEF FileFollows
      <4> HIDE DEF d, list
      <4> QED
        BY <4>1, <4>2 DEF list
    <3> QED
      BY <1>4, <3>1, <3>2
  <2> HIDE DEF d, list, new
  <2>2. log[m].type \in {"FILE_ADDED", "FILE_UPDATED"}
    BY <1>2, <1>4
  <2>3. FilesFollow(new, files, rest)
    BY ONLY <1>2, <1>3, <2>1, <2>2, FileRead
  <2> QED
    BY <2>3 DEF new, d
<1>5. CASE e.type \notin {"FILE_ADDED", "FILE_UPDATED"}
  <2> DEFINE K == LostFiles(list, e)
  <2>1. Loses(new, list, K, DOMAIN list)
    BY <1>1, <1>5 DEF LoseFiles
  <2>2. /\ \A f \in DOMAIN list : f \in K <=> FileGone(log[m], f, list[f].info)
        /\ log[m].type # "FILE_ADDED"
    BY <1>2, <1>5 DEF LostFiles
  <2> HIDE DEF d, list, new, K
  <2>3. FilesFollow(new, files, rest)
    BY ONLY <1>3, <2>1, <2>2, FilesLost
  <2> QED
    BY <2>3 DEF new, d
<1> QED
  BY <1>4, <1>5

LEMMA ContentsHandled ==
  ASSUME NEW c, NEW except, NEW fetched, NEW log, NEW m, NEW rest, NEW short, NEW e,
         Taken(c, except, fetched, log, m, rest, short, e), NEW ok \in BOOLEAN
  PROVE  ContentsFollow(processEvent(c, e, ok).lists["contents"], content, files, short, rest)
<1> DEFINE d == processEvent(c, e, ok)
           list == c.lists["contents"]
           new == d.lists["contents"]
           found == IF e.data # {} THEN e.data ELSE StoredFile(e.id1, e.id3)
           f == e.id1
<1>1. /\ Typed /\ Sound(c) /\ Matches(e, log[m])
      /\ e.type = "FILE_ADDED" => FileData(e.data)
      /\ e.type = "CONTENT_UPDATED" => e.data = {}
      /\ e.type \notin {"FILE_ADDED", "FILE_UPDATED", "CONTENT_UPDATED"} => LoseContents(d, c, e)
  BY TakenIs, TakenLoses
<1>2. /\ e.type = log[m].type /\ log[m].id1 = e.id1 /\ log[m].id2 = e.id2
      /\ \A r : ContentGone(e, r) <=> ContentGone(log[m], r)
  BY <1>1, MatchesSame
<1>3. /\ Cut(log, m, rest) /\ ContentsTold(content, log) /\ ContentsOwned(content, files)
      /\ PageInLog(fetched, log) /\ PageMatches(fetched, log)
      /\ PageFollows(fetched, content, files, log)
      /\ DOMAIN log \subseteq Int /\ Len(fetched) \in Nat /\ Shorter(short, fetched)
      /\ ContentsFollow(list, content, files, fetched, log)
  BY DEF Taken, StorageTold, StorageFits, Tracked
<1>4. Flagged(list) /\ \A k \in DOMAIN list : Key(list[k].info) = k
  BY <1>3 DEF ContentsFollow
<1>5. ASSUME \A k \in Live(list) :
               ~(Of(log[m], "FILE_UPDATED", list[k].info.file) /\ list[k].info.file \in DOMAIN files),
             new = list, log[m].type \in {"FILE_ADDED", "FILE_UPDATED"}, f \notin DOMAIN files
      PROVE  ContentsFollow(new, content, files, short, rest)
  <2> DEFINE S == {}
  <2>1. Filled(list, list, S)
    BY <1>4, LiveIs DEF Filled
  <2>2. \A r \in content : ~Brings(m, Key(r), fetched, log)
    <3>1. \A r \in content : Key(r)[1] \in DOMAIN files
      BY <1>3, KeyIs DEF ContentsOwned
    <3> QED
      BY <1>2, <1>5, <3>1 DEF Brings, ContentAdded, Of, ContentTold
  <2>3. /\ \A k \in DOMAIN list : k \in DOMAIN list /\ list[k].info = list[k].info
        /\ \A k \in Live(list) : k \in Live(list) /\
             (Of(log[m], "FILE_UPDATED", list[k].info.file) /\ list[k].info.file \in DOMAIN files =>
                \E j \in DOMAIN log : Of(log[j], "FILE_ADDED", list[k].info.file))
        /\ \A r \in content : Key(r) \in Live(list) => Key(r) \in Live(list) \/ r \in S
        /\ \A r \in S : ContentFollows(r, content, files, rest)
        /\ \A r \in content : Brings(m, Key(r), fetched, log) => \E s \in S : Key(s) = Key(r)
    BY <1>5, <2>2
  <2> HIDE DEF d, list, new, S, f
  <2>4. log[m].type \in {"FILE_ADDED", "FILE_UPDATED"}
    BY <1>5
  <2>5. ContentsFollow(list, content, files, short, rest)
    BY ONLY <1>3, <2>1, <2>3, <2>4, ContentsFilled
  <2> QED
    BY <1>5, <2>5
<1>6. CASE e.type = "FILE_ADDED"
  <2>1. /\ found = {} => f \notin DOMAIN files
        /\ \A x \in found :
             /\ \A r \in x.contents : ContentFollows(r, content, files, rest)
             /\ \A r \in content : Brings(m, Key(r), fetched, log) =>
                  \E s \in x.contents : Key(s) = Key(r)
    <3>1. found = {} => f \notin DOMAIN files
      BY <1>6, FoundFollows
    <3>2. \A x \in found : \A r \in x.contents : ContentFollows(r, content, files, rest)
      BY <1>6, FoundFollows
    <3>3. ASSUME NEW x \in found, NEW r \in content, Brings(m, Key(r), fetched, log)
          PROVE  \E s \in x.contents : Key(s) = Key(r)
      BY <1>6, <3>3, FoundBrings
    <3> QED
      BY <3>1, <3>2, <3>3
  <2>2. \/ found = {} /\ d = c
        \/ \E x \in found : Filled(new, list, x.contents)
    BY <1>1, <1>6, FileAddedHandled
  <2>3. log[m].type = "FILE_ADDED"
    BY <1>2, <1>6
  <2>4. \A k : ~Of(log[m], "FILE_UPDATED", list[k].info.file)
    BY <2>3 DEF Of
  <2>5. CASE found = {} /\ d = c
    BY <1>5, <2>1, <2>3, <2>4, <2>5
  <2>6. ASSUME NEW x \in found, Filled(new, list, x.contents)
        PROVE  ContentsFollow(new, content, files, short, rest)
    <3> DEFINE S == x.contents
    <3>1. /\ Filled(new, list, S)
          /\ \A k \in DOMAIN list : k \in DOMAIN list /\ list[k].info = list[k].info
          /\ \A k \in Live(list) : k \in Live(list) /\
               (Of(log[m], "FILE_UPDATED", list[k].info.file) /\ list[k].info.file \in DOMAIN files =>
                  \E j \in DOMAIN log : Of(log[j], "FILE_ADDED", list[k].info.file))
          /\ \A r \in content : Key(r) \in Live(list) => Key(r) \in Live(list) \/ r \in S
          /\ \A r \in S : ContentFollows(r, content, files, rest)
          /\ \A r \in content : Brings(m, Key(r), fetched, log) => \E s \in S : Key(s) = Key(r)
          /\ log[m].type \in {"FILE_ADDED", "FILE_UPDATED"}
      BY <2>1, <2>3, <2>4, <2>6
    <3> HIDE DEF d, list, new, S, found, f
    <3> QED
      BY ONLY <1>3, <3>1, ContentsFilled
  <2> QED
    BY <2>2, <2>5, <2>6
<1>7. CASE e.type = "FILE_UPDATED"
  <2> DEFINE K == Where(list, "file", f)
             S == ByFile(f)
  <2>1. \/ f \notin DOMAIN files /\ d = c
        \/ /\ f \in DOMAIN files
           /\ \E base : /\ IF f \in Live(c.lists["files"]) THEN Loses(base, list, K, K)
                                                          ELSE base = list
                        /\ Filled(new, base, S)
    BY <1>1, <1>7, FileUpdatedHandled
  <2>2. log[m].type = "FILE_UPDATED" /\ \A x : Of(log[m], "FILE_UPDATED", x) <=> x = f
    BY <1>2, <1>7 DEF Of
  <2>3. CASE f \notin DOMAIN files /\ d = c
    BY <1>5, <2>2, <2>3
  <2>4. ASSUME f \in DOMAIN files, NEW base,
               IF f \in Live(c.lists["files"]) THEN Loses(base, list, K, K) ELSE base = list,
               Filled(new, base, S)
        PROVE  ContentsFollow(new, content, files, short, rest)
    <3>1. \A k \in DOMAIN base : k \in DOMAIN list /\ base[k].info = list[k].info
      BY <2>4 DEF Loses
    <3>2. ASSUME NEW k \in Live(base)
          PROVE  k \in Live(list) /\
                 (Of(log[m], "FILE_UPDATED", list[k].info.file) /\ list[k].info.file \in DOMAIN files =>
                    \E j \in DOMAIN log : Of(log[j], "FILE_ADDED", list[k].info.file))
      <4>1. CASE f \in Live(c.lists["files"])
        <5>1. k \in Live(list) /\ k \notin K /\ k \in DOMAIN list
          BY <2>4, <3>2, <4>1, LiveIs DEF Loses
        <5>2. list[k].info.file # f
          BY <5>1 DEF Where
        <5> QED
          BY <2>2, <5>1, <5>2
      <4>2. CASE f \notin Live(c.lists["files"])
        <5>1. \E j \in DOMAIN log : Of(log[j], "FILE_ADDED", f)
          BY <2>4, <4>2 DEF Taken, Tracked, FilesFollow
        <5> QED
          BY <2>2, <2>4, <3>2, <4>2, <5>1
      <4> QED
        BY <4>1, <4>2
    <3>3. ASSUME NEW r \in content, Key(r) \in Live(list)
          PROVE  Key(r) \in Live(base) \/ r \in S
      <4>1. Key(r) \in Live(base) \/ (Key(r) \in K /\ Key(r) \in DOMAIN list)
        BY <2>4, <3>3, LiveIs DEF Loses
      <4>2. CASE Key(r) \in K /\ Key(r) \in DOMAIN list
        <5>1. list[Key(r)].info.file = f /\ Key(list[Key(r)].info) = Key(r)
          BY <1>4, <4>2 DEF Where
        <5>2. r.file = f
          BY <5>1 DEF Key
        <5> QED
          BY <5>2 DEF ByFile
      <4> QED
        BY <4>1, <4>2
    <3>4. \A r \in S : ContentFollows(r, content, files, rest)
      BY DEF ByFile, ContentFollows
    <3>5. ASSUME NEW r \in content, Brings(m, Key(r), fetched, log)
          PROVE  \E s \in S : Key(s) = Key(r)
      <4>1. Key(r)[1] = f
        BY <2>2, <3>5 DEF Brings, ContentAdded, Of, ContentTold
      <4>2. r \in ByFile(f)
        BY <4>1 DEF Key, ByFile
      <4> QED
        BY <4>2
    <3>6. /\ log[m].type \in {"FILE_ADDED", "FILE_UPDATED"} /\ Filled(new, base, S)
      BY <2>2, <2>4
    <3> HIDE DEF d, list, new, S, K, f
    <3> QED
      BY ONLY <1>3, <3>1, <3>2, <3>3, <3>4, <3>5, <3>6, ContentsFilled
  <2> QED
    BY <2>1, <2>3, <2>4
<1>8. CASE e.type = "CONTENT_UPDATED"
  <2> DEFINE k == <<e.id1, e.id2>>
  <2>1. /\ Flagged(new)
        /\ \A x \in DOMAIN new :
             /\ x = k => new[x].info \in content /\ Key(new[x].info) = k
             /\ x # k => x \in DOMAIN list /\ new[x] = list[x]
        /\ \A x \in Live(list) : x # k => x \in Live(new)
        /\ \A r \in content : Key(r) = k => k \in Live(new)
    BY <1>1, <1>8, ContentUpdatedHandled
  <2>2. log[m].type = "CONTENT_UPDATED" /\ <<log[m].id1, log[m].id2>> = k
    BY <1>2, <1>8
  <2> HIDE DEF d, list, new, k
  <2>3. ContentsFollow(new, content, files, short, rest)
    <3>1. /\ Cut(log, m, rest) /\ Shorter(short, fetched) /\ ContentsOwned(content, files)
          /\ ContentsFollow(list, content, files, fetched, log)
      BY <1>3
    <3> QED
      BY ONLY <2>1, <2>2, <3>1, ContentRead
  <2> QED
    BY <2>3 DEF new, d
<1>9. CASE e.type \notin {"FILE_ADDED", "FILE_UPDATED", "CONTENT_UPDATED"}
  <2> DEFINE K == LostContents(list, e)
  <2>1. Loses(new, list, K, DOMAIN list)
    BY <1>1, <1>9 DEF LoseContents
  <2>2. /\ \A k \in DOMAIN list : k \in K <=> ContentGone(log[m], list[k].info)
        /\ log[m].type \notin {"FILE_ADDED", "FILE_UPDATED", "CONTENT_UPDATED"}
    BY <1>2, <1>9 DEF LostContents
  <2> HIDE DEF d, list, new, K
  <2>3. ContentsFollow(new, content, files, short, rest)
    BY ONLY <1>3, <2>1, <2>2, ContentsLost
  <2> QED
    BY <2>3 DEF new, d
<1> QED
  BY <1>6, <1>7, <1>8, <1>9

\* The event is taken by all the lists.
LEMMA EventHandled ==
  ASSUME NEW c, NEW except, NEW fetched, NEW log, NEW m, NEW rest, NEW short, NEW e,
         Taken(c, except, fetched, log, m, rest, short, e), NEW ok \in BOOLEAN,
         NEW unable, ReadsAgain(e, ok, except, unable)
  PROVE  Tracked(processEvent(c, e, ok), unable, short, rest)
BY ProducersHandled, GenerationsHandled, GeometriesHandled, FilesHandled, ContentsHandled
   DEF Tracked

\* What the events tell of the storage holds of those after the first one.
LEMMA ToldCut ==
  ASSUME NEW log, NEW m, NEW rest, Cut(log, m, rest), StorageTold(log)
  PROVE  StorageTold(rest)
<1>1. /\ \A i \in DOMAIN rest : i \in DOMAIN log /\ rest[i] = log[i] /\ i # m
      /\ \A i, j \in DOMAIN log : i # m /\ j >= i => j \in DOMAIN rest /\ rest[j] = log[j]
      /\ \A i, j \in DOMAIN log : j > i => j \in DOMAIN rest /\ rest[j] = log[j]
  BY CutIs
<1>2. ProducersTold(producers, producerCounter, rest)
  BY <1>1 DEF StorageTold, ProducersTold
<1>3. GenerationsTold(generations, generationCounter, rest)
  <2>1. GenerationsTold(generations, generationCounter, log)
    BY DEF StorageTold
  <2> QED
    BY <1>1, <2>1 DEF GenerationsTold
<1>4. GeometriesTold(geometries, generations, generationCounter, rest)
  <2>1. GeometriesTold(geometries, generations, generationCounter, log)
    BY DEF StorageTold
  <2> SUFFICES ASSUME NEW i \in DOMAIN rest
      PROVE  /\ \A y \in geometries :
                  /\ GeometryGone(rest[i], GeometryKey(y), y.producer)
                       => \E j \in DOMAIN rest : j > i /\ GeometryTold(rest[j], "GEOMETRY_ADDED", GeometryKey(y))
                  /\ GeometryTold(rest[i], "GEOMETRY_STATUS_CHANGED", GeometryKey(y))
                       => \E j \in DOMAIN rest : j >= i /\ StatusSettled(rest[j], y)
             /\ rest[i].type = "GEOMETRY_STATUS_CHANGED" =>
                  LET k == EventGeometry(rest[i])
                  IN /\ k[1] \in 1..generationCounter
                     /\ k[1] \in DOMAIN generations /\ (\A y \in geometries : GeometryKey(y) # k)
                          => \E j \in DOMAIN rest : j > i /\ GeometryGone(rest[j], k, generations[k[1]].producer)
    BY DEF GeometriesTold
  <2>2. i \in DOMAIN log /\ rest[i] = log[i]
    BY <1>1
  <2>3. \A y \in geometries :
          /\ GeometryGone(log[i], GeometryKey(y), y.producer)
               => \E j \in DOMAIN log : j > i /\ GeometryTold(log[j], "GEOMETRY_ADDED", GeometryKey(y))
          /\ GeometryTold(log[i], "GEOMETRY_STATUS_CHANGED", GeometryKey(y))
               => \E j \in DOMAIN log : j >= i /\ StatusSettled(log[j], y)
    BY <2>1, <2>2 DEF GeometriesTold
  <2>4. log[i].type = "GEOMETRY_STATUS_CHANGED" =>
          LET k == EventGeometry(log[i])
          IN /\ k[1] \in 1..generationCounter
             /\ k[1] \in DOMAIN generations /\ (\A y \in geometries : GeometryKey(y) # k)
                  => \E j \in DOMAIN log : j > i /\ GeometryGone(log[j], k, generations[k[1]].producer)
    BY <2>1, <2>2 DEF GeometriesTold
  <2> QED
    BY <1>1, <2>2, <2>3, <2>4
<1>5. FilesTold(files, rest)
  BY <1>1 DEF StorageTold, FilesTold
<1>6. ContentsTold(content, rest)
  BY <1>1 DEF StorageTold, ContentsTold
<1>7. TypesTold(rest)
  BY <1>1 DEF StorageTold, TypesTold
<1> QED
  BY <1>2, <1>3, <1>4, <1>5, <1>6, <1>7 DEF StorageTold

-----------------------------------------------------------------------------
(* A call of the storage lets the pending events grow, and the cache follows *)
(* the tables by them as before.                                            *)

\* The events that a call announces.
Announced(E) ==
  \E N, seq : /\ N \in Nat /\ DOMAIN seq = 1..N
              /\ Announce(seq) /\ E = {seq[i] : i \in 1..N}

\* Announce() gives its events the numbers after the counter, in their order.
LEMMA AnnounceNumbers ==
  ASSUME NEW log, LogOK(log), NEW N \in Nat, NEW seq, DOMAIN seq = 1..N
  PROVE  LET new == FoldLeft(addEvent, log, seq)
         IN \A i \in 1..N : log.counter + i \in DOMAIN new.events =>
              new.events[log.counter + i] = seq[i]
<1>0. log.counter \in Nat
  BY DEF LogOK
<1>1. PICK run : /\ run[0] = log
                 /\ \A n \in 1..N : run[n] = addEvent(run[n-1], seq[n])
                 /\ run[N] = FoldLeft(addEvent, log, seq)
  BY AnnounceRuns
<1> DEFINE P(n) ==
             /\ LogOK(run[n])
             /\ run[n].counter = log.counter + n
             /\ \A i \in 1..n : log.counter + i \in DOMAIN run[n].events =>
                  run[n].events[log.counter + i] = seq[i]
           S == {n \in Nat : n <= N => P(n)}
<1>2. 0 \in S
  BY <1>0, <1>1
<1>3. ASSUME NEW n \in Nat, n \in S PROVE n + 1 \in S
  <2> SUFFICES ASSUME n + 1 <= N PROVE P(n + 1)
    OBVIOUS
  <2> DEFINE old == run[n]
             new == run[n + 1]
  <2>1. P(n)
    BY <1>3
  <2>2. new = addEvent(old, seq[n + 1])
    <3>1. n + 1 \in 1..N /\ (n + 1) - 1 = n
      OBVIOUS
    <3> QED
      BY <1>1, <3>1
  <2>3. /\ LogOK(old) /\ old.counter = log.counter + n
        /\ \A i \in 1..n : log.counter + i \in DOMAIN old.events =>
             old.events[log.counter + i] = seq[i]
    BY <2>1
  <2> HIDE DEF old, new
  <2>4. /\ LogOK(new) /\ new.counter = old.counter + 1
        /\ \A k \in DOMAIN new.events :
             \/ k \in DOMAIN old.events /\ new.events[k] = old.events[k]
             \/ k = old.counter + 1 /\ new.events[k] = seq[n + 1]
    BY <2>2, <2>3, AddEventIs
  <2>5. \A k \in DOMAIN old.events : k \in Nat /\ k <= old.counter
    BY <2>3 DEF LogOK
  <2>6. ASSUME NEW i \in 1..(n + 1), log.counter + i \in DOMAIN new.events
        PROVE  new.events[log.counter + i] = seq[i]
    <3>1. CASE i = n + 1
      BY <1>0, <2>3, <2>4, <2>5, <2>6, <3>1
    <3>2. CASE i # n + 1
      <4>1. i \in 1..n /\ log.counter + i # old.counter + 1
        BY <1>0, <2>3, <3>2
      <4> QED
        BY <2>3, <2>4, <2>6, <4>1
    <3> QED
      BY <3>1, <3>2
  <2>7. new.counter = log.counter + (n + 1)
    <3>1. old.counter = log.counter + n /\ new.counter = old.counter + 1 /\ n \in Nat
      BY <1>3, <2>3, <2>4
    <3> QED
      BY ONLY <1>0, <3>1
  <2>8. \A i \in 1..(n + 1) : log.counter + i \in DOMAIN new.events =>
          new.events[log.counter + i] = seq[i]
    BY ONLY <2>6
  <2> QED
    BY ONLY <2>4, <2>7, <2>8 DEF new, P
<1> HIDE DEF S
<1>4. N \in S
  BY <1>2, <1>3, NatSetInduction
<1> QED
  BY <1>1, <1>4 DEF S

\* The log of the pending events grows by what is announced, if the log keeps it.
LEMMA PendingGrows ==
  ASSUME LogOK(eventLog), mLastProcessedEventId \in 0..eventLog.counter,
         UNCHANGED mLastProcessedEventId, NEW E, Announced(E),
         \A k \in NewEvents \cup (eventLog.counter + 1)..eventLog'.counter :
           k \in DOMAIN eventLog'.events
  PROVE  Grown(Pending, Pending', E)
<1>1. PICK N, seq : /\ N \in Nat /\ DOMAIN seq = 1..N
                    /\ Announce(seq) /\ E = {seq[i] : i \in 1..N}
  BY DEF Announced
<1>2. eventLog' = FoldLeft(addEvent, eventLog, seq)
  BY <1>1 DEF Announce
<1>3. /\ LogOK(eventLog') /\ eventLog'.counter = eventLog.counter + N
      /\ \A k \in DOMAIN eventLog'.events :
           \/ k \in DOMAIN eventLog.events /\ eventLog'.events[k] = eventLog.events[k]
           \/ k > eventLog.counter /\ \E i \in 1..N : eventLog'.events[k] = seq[i]
  BY <1>1, <1>2, AnnounceIs
<1>4. \A i \in 1..N : eventLog.counter + i \in DOMAIN eventLog'.events =>
        eventLog'.events[eventLog.counter + i] = seq[i]
  BY <1>1, <1>2, AnnounceNumbers
<1>5. /\ eventLog.counter \in Nat
      /\ \A k \in DOMAIN eventLog.events : k \in Nat /\ k <= eventLog.counter
      /\ \A k \in DOMAIN eventLog'.events : k \in Nat
  BY <1>3 DEF LogOK
<1> DEFINE last == mLastProcessedEventId
           old == eventLog.events
           new == eventLog'.events
           count == eventLog.counter
<1>6. /\ DOMAIN Pending = {k \in DOMAIN old : k > last}
      /\ DOMAIN Pending' = {k \in DOMAIN new : k > last}
      /\ \A k \in DOMAIN Pending : Pending[k] = old[k]
      /\ \A k \in DOMAIN Pending' : Pending'[k] = new[k]
  BY DEF Pending, NewEvents
<1>7. \A k \in DOMAIN Pending : k \in DOMAIN Pending' /\ Pending'[k] = Pending[k]
  BY <1>3, <1>5, <1>6 DEF NewEvents
<1>8. \A k \in DOMAIN Pending' : k \in DOMAIN Pending \/ Pending'[k] \in E
  BY <1>1, <1>3, <1>6
<1>9. \A k \in DOMAIN Pending' \ DOMAIN Pending, j \in DOMAIN Pending : j < k
  BY <1>3, <1>5, <1>6
<1>10. ASSUME NEW e \in E PROVE \E k \in DOMAIN Pending' \ DOMAIN Pending : Pending'[k] = e
  <2>1. PICK i \in 1..N : e = seq[i]
    BY <1>1
  <2>2. count + i \in (count + 1)..(count + N) /\ count + i > last /\ count + i > count
    BY <1>1, <1>5
  <2>3. count + i \in DOMAIN new /\ new[count + i] = seq[i]
    <3>1. count + i \in (eventLog.counter + 1)..eventLog'.counter
      BY <1>3, <2>2
    <3>2. count + i \in DOMAIN new
      BY <3>1
    <3> QED
      BY <1>4, <3>2
  <2>4. count + i \in DOMAIN Pending' /\ count + i \notin DOMAIN Pending
    BY <1>5, <1>6, <2>2, <2>3
  <2> QED
    BY <1>6, <2>1, <2>3, <2>4
<1> QED
  BY <1>5, <1>6, <1>7, <1>8, <1>9, <1>10 DEF Grown

LEMMA OneAnnounced == ASSUME NEW e, Announce(<<e>>) PROVE Announced({e})
<1>1. DOMAIN <<e>> = 1..1 /\ {e} = {<<e>>[i] : i \in 1..1} /\ 1 \in Nat
  OBVIOUS
<1> QED
  BY <1>1 DEF Announced

\* An injection of as many numbers as a set has elements meets all of them.
LEMMA SomeAnnounced ==
  ASSUME NEW S, IsFiniteSet(S), Announce(SetToSeq(S))
  PROVE  Announced(S)
<1> DEFINE n == Cardinality(S)
           seq == SetToSeq(S)
<1>1. n \in Nat /\ DOMAIN seq = 1..n
  BY SetToSeqIs
<1>2. \E f \in [1..n -> S] : IsInjective(f)
  BY FS_CardinalityType DEF ExistsBijection, Bijection, Injection
<1>3. seq \in [1..n -> S] /\ IsInjective(seq)
  BY <1>2 DEF SetToSeq
<1> HIDE DEF seq
<1>4. seq \in Injection(1..n, S)
  BY <1>3 DEF Injection
<1>5. IsFiniteSet(1..n) /\ Cardinality(1..n) = n
  <2>1. 1 \in Int /\ n \in Int
    BY <1>1
  <2> HIDE DEF n
  <2>2. IsFiniteSet(1..n) /\ Cardinality(1..n) = IF 1 > n THEN 0 ELSE n - 1 + 1
    BY ONLY <2>1, FS_Interval
  <2> QED
    BY <1>1, <2>2
<1>6. seq \in Surjection(1..n, S)
  BY <1>4, <1>5, FS_Injection
<1>7. S = {seq[i] : i \in 1..n}
  BY <1>3, <1>6 DEF Surjection
<1> QED
  BY <1>1, <1>7 DEF Announced, seq

LEMMA NoneAnnounced == ASSUME LogOK(eventLog), UNCHANGED eventLog PROVE Announced({})
<1> DEFINE seq == [i \in 1..0 |-> i]
<1>1. DOMAIN seq = 1..0 /\ 0 \in Nat /\ {} = {seq[i] : i \in 1..0}
  OBVIOUS
<1> HIDE DEF seq
<1>2. ASSUME NEW N \in Nat, N = 0 PROVE Announce(seq)
  <2>1. DOMAIN seq = 1..N
    BY <1>1, <1>2
  <2>2. PICK run : /\ run[0] = eventLog
                   /\ \A n \in 1..N : run[n] = addEvent(run[n-1], seq[n])
                   /\ run[N] = FoldLeft(addEvent, eventLog, seq)
    BY <2>1, AnnounceRuns
  <2> QED
    BY <1>2, <2>2 DEF Announce
<1>3. Announce(seq)
  BY <1>2
<1> QED
  BY <1>1, <1>3 DEF Announced

\* What a call does to the tables, and tells of it.
TablesTold(E) ==
  /\ ProducersCall(producers, producerCounter, producers', producerCounter', E)
  /\ GenerationsCall(generations, generationCounter, generations', generationCounter', E)
  /\ GeometriesCall(geometries, generations, geometries', generations', E)
  /\ ContentsCall(content, files, content', files', E)
  /\ \A e \in E : /\ e.type \notin {"PRODUCER_UPDATED", "GENERATION_UPDATED", "CONTENT_ADDED"}
                  /\ e.type = "CLEAR" => clearing'

\* The fetched events are pending.
LEMMA PagePending ==
  ASSUME CacheInv, PageInOrder, PageMatches(page, Pending)
  PROVE  PageInLog(page, Pending) /\ Len(page) \in Nat
<1>1. /\ Len(page) \in Nat
      /\ \A i \in 1..Len(page) : page[i].id \in Nat /\ page[i].id = page[1].id + (i - 1)
  <2>1. /\ Len(page) \in Nat /\ eventLog.counter \in Nat
        /\ \A i \in 1..Len(page) : page[i].id \in 0..eventLog.counter
    BY PageIds
  <2> QED
    BY <2>1 DEF PageInOrder
<1>2. ASSUME NEW i \in 1..Len(page) PROVE ~(page[i].id > page[Len(page)].id)
  <2>1. 1 \in 1..Len(page) /\ Len(page) \in 1..Len(page)
    BY <1>1
  <2>2. page[1].id \in Nat
    BY <1>1, <2>1
  <2>3. page[i].id = page[1].id + (i - 1) /\ page[Len(page)].id = page[1].id + (Len(page) - 1)
    BY <1>1, <2>1
  <2> QED
    BY <1>1, <2>2, <2>3
<1> QED
  BY <1>1, <1>2 DEF PageInLog, PageMatches

LEMMA CalledFollows ==
  ASSUME CacheInv, PageInOrder, Follows, UNCHANGED <<cacheVars, mStartTime>>,
         NEW E, TablesTold(E), Grown(Pending, Pending', E), clearing => clearing'
  PROVE  Follows'
<1> SUFFICES ASSUME Synced'
             PROVE  /\ StorageTold(Pending)'
                    /\ PageMatches(page, Pending)' /\ PageFollows(page, content, files, Pending)'
                    /\ ListsFollow'
  BY DEF Follows
<1>1. Synced
  BY DEF Synced, Following, cacheVars
<1>2. /\ StorageTold(Pending) /\ ListsFollow
      /\ PageMatches(page, Pending) /\ PageFollows(page, content, files, Pending)
  BY <1>1 DEF Follows
<1>3. PageInLog(page, Pending) /\ Len(page) \in Nat
  BY <1>2, PagePending
<1>4. /\ primary' = primary /\ page' = page /\ unread' = unread /\ kept' = kept
      /\ reload' = reload
  BY DEF cacheVars
<1>5. \A t : HasRead(t)' = HasRead(t)
  BY <1>4 DEF HasRead, Following
<1> DEFINE log == Pending
           new == Pending'
<1>6. /\ Grown(log, new, E)
      /\ ProducersCall(producers, producerCounter, producers', producerCounter', E)
      /\ GenerationsCall(generations, generationCounter, generations', generationCounter', E)
      /\ GeometriesCall(geometries, generations, geometries', generations', E)
      /\ ContentsCall(content, files, content', files', E)
      /\ FilesCall(files, files', E)
  BY DEF TablesTold, ContentsCall
<1>7. /\ ProducersTold(producers, producerCounter, log)
      /\ GenerationsTold(generations, generationCounter, log)
      /\ GeometriesTold(geometries, generations, generationCounter, log)
      /\ FilesTold(files, log) /\ ContentsTold(content, log) /\ TypesTold(log)
  BY <1>2 DEF StorageTold
<1>8. /\ PageMatches(page, log) /\ PageFollows(page, content, files, log)
      /\ PageInLog(page, log)
  BY <1>2, <1>3
<1>9. TypesTold(Pending)'
  <2>1. ASSUME NEW i \in DOMAIN new
        PROVE  /\ new[i].type \notin {"PRODUCER_UPDATED", "GENERATION_UPDATED", "CONTENT_ADDED"}
               /\ new[i].type = "CLEAR" => clearing'
    <3>1. (i \in DOMAIN log /\ new[i] = log[i]) \/ new[i] \in E
      BY <1>6 DEF Grown
    <3> QED
      BY <1>7, <3>1 DEF TypesTold, TablesTold
  <2> QED
    BY <2>1 DEF TypesTold
<1>10. PageMatches(page, Pending)'
  <2>1. \A i \in DOMAIN log : i \in DOMAIN new /\ new[i] = log[i]
    BY <1>6 DEF Grown
  <2> QED
    BY <1>4, <1>8, <2>1 DEF PageMatches
<1> HIDE DEF log, new
<1>11. StorageTold(Pending)'
  <2>1. ProducersTold(producers', producerCounter', new)
    BY <1>6, <1>7, ProducersToldStep
  <2>2. GenerationsTold(generations', generationCounter', new)
    BY <1>6, <1>7, GenerationsToldStep
  <2>3. GeometriesTold(geometries', generations', generationCounter', new)
    BY <1>6, <1>7, GeometriesToldStep
  <2>4. FilesTold(files', new)
    BY <1>6, <1>7, FilesToldStep
  <2>5. ContentsTold(content', new)
    BY <1>6, <1>7, ContentsToldStep
  <2> QED
    BY <1>9, <2>1, <2>2, <2>3, <2>4, <2>5 DEF StorageTold, new
<1>12. PageFollows(page, content, files, Pending)'
  <2>1. PageFollows(page, content', files', new)
    BY <1>3, <1>6, <1>8, PageFollowsStep
  <2> QED
    BY <1>4, <2>1 DEF new
<1>13. ListsFollow'
  <2>1. HasRead("producers")' =>
          ProducersFollow(primary.lists["producers"], producers, producerCounter, Pending)'
    <3>1. HasRead("producers") =>
            ProducersFollow(primary.lists["producers"], producers', producerCounter', new)
      BY <1>2, <1>6, <1>7, ProducersFollowStep DEF ListsFollow, log
    <3> QED
      BY <1>4, <1>5, <3>1 DEF new
  <2>2. HasRead("generations")' =>
          GenerationsFollow(primary.lists["generations"], generations, generationCounter, unread,
                            Pending)'
    <3>1. HasRead("generations") =>
            GenerationsFollow(primary.lists["generations"], generations', generationCounter',
                              unread, new)
      BY <1>2, <1>6, GenerationsFollowStep DEF ListsFollow, log
    <3> QED
      BY <1>4, <1>5, <3>1 DEF new
  <2>3. HasRead("geometries")' =>
          /\ kept' = {}
          /\ GeometriesFollow(primary.lists["geometries"], geometries, generations,
                              generationCounter, Pending)'
    <3>1. HasRead("geometries") =>
            /\ kept = {}
            /\ GeometriesFollow(primary.lists["geometries"], geometries', generations',
                                generationCounter', new)
      BY <1>2, <1>6, GeometriesFollowStep DEF ListsFollow, log
    <3> QED
      BY <1>4, <1>5, <3>1 DEF new
  <2>4. HasRead("files")' => FilesFollow(primary.lists["files"], files, Pending)'
    <3>1. HasRead("files") => FilesFollow(primary.lists["files"], files', new)
      BY <1>2, <1>6, FilesFollowStep DEF ListsFollow, log
    <3> QED
      BY <1>4, <1>5, <3>1 DEF new
  <2>5. HasRead("contents")' =>
          ContentsFollow(primary.lists["contents"], content, files, page, Pending)'
    <3>1. HasRead("contents") =>
            ContentsFollow(primary.lists["contents"], content', files', page, new)
      BY <1>2, <1>6, <1>8, ContentsFollowStep DEF ListsFollow, log
    <3> QED
      BY <1>4, <1>5, <3>1 DEF new
  <2> QED
    BY <2>1, <2>2, <2>3, <2>4, <2>5 DEF ListsFollow
<1> QED
  BY <1>10, <1>11, <1>12, <1>13

-----------------------------------------------------------------------------
(* What the calls tell.  First what the storage keeps true of its tables.    *)

StorageInv == Typed /\ NamesInv /\ Integrity /\ GeometriesOnce

LEMMA StorageInvFits == ASSUME StorageInv PROVE StorageFits
<1>1. /\ Typed /\ DOMAIN generations \subseteq 1..generationCounter
      /\ \A p, q \in DOMAIN producers : producers[p] = producers[q] => p = q
  BY DEF StorageInv, Typed, GenerationsTyped, NamesInv, NamesUnique
<1>2. HaveProducers(generations, producers)
  BY DEF StorageInv, Integrity, GenerationsFit, HaveProducers
<1>3. \A g \in DOMAIN generations : IsGeneration(generations[g])
  BY <1>1 DEF Typed, GenerationsTyped, IsGeneration
<1>4. GeometriesOwned(geometries, generations)
  <2>1. \A y \in geometries : IsGeometry(y)
    BY <1>1 DEF Typed, GeometriesTyped, IsGeometry
  <2> QED
    BY <2>1 DEF StorageInv, Integrity, GeometriesFit, GeometriesOnce, GeometriesOwned
<1>5. ContentsOwned(content, files)
  BY DEF StorageInv, Integrity, ContentFits, ContentsOwned
<1> QED
  BY <1>1, <1>2, <1>3, <1>4, <1>5 DEF StorageFits

\* The steady clients add a geometry whose key is not there.
LEMMA GeometriesOnceStep ==
  ASSUME RegisterOnce, Typed, GeometriesOnce, [StorageNext]_storageVars
  PROVE  GeometriesOnce'
<1>1. ASSUME geometries' \subseteq geometries PROVE GeometriesOnce'
  BY <1>1 DEF GeometriesOnce
<1>2. CASE StorageCall
  <2>1. CASE ProducerCalls
    <3>1. ASSUME NEW name, addProducerInfo(name) PROVE GeometriesOnce'
      BY <1>1, <3>1 DEF addProducerInfo
    <3>2. ASSUME NEW p, NEW name, setProducerInfo(p, name) PROVE GeometriesOnce'
      BY <1>1, <3>2 DEF setProducerInfo
    <3>3. ASSUME NEW p, deleteProducer(p) PROVE GeometriesOnce'
      BY <1>1, <3>3 DEF deleteProducer, DeleteAllOfProducer
    <3> QED
      BY <2>1, <3>1, <3>2, <3>3
         DEF ProducerCalls, deleteProducerInfoById, deleteProducerInfoByName
  <2>2. CASE GenerationCalls
    <3>1. ASSUME UNCHANGED geometries PROVE GeometriesOnce'
      BY <1>1, <3>1
    <3>2. ASSUME NEW G, deleteGenerationList(G) PROVE GeometriesOnce'
      BY <1>1, <3>2 DEF deleteGenerationList
    <3>3. ASSUME NEW p, deleteGenerationsOfProducer(p) PROVE GeometriesOnce'
      BY <1>1, <3>3 DEF deleteGenerationsOfProducer, DeleteAllOfProducer
    <3> QED
      BY <2>2, <3>1, <3>2, <3>3
         DEF GenerationCalls, addGenerationInfo, setGenerationInfo, setGenerationInfoStatusById,
             setGenerationInfoStatusByName, setGenerationStatus, deleteGenerationInfoById,
             deleteGenerationInfoByName, deleteGenerationInfoListByIdList,
             deleteGenerationInfoListByProducerId, deleteGenerationInfoListByProducerName
  <2>3. CASE GeometryCalls
    <3>1. ASSUME NEW g, NEW k, NEW status, addGeometryInfo(g, k, status) PROVE GeometriesOnce'
      <4>1. /\ geometries' = geometries \cup {GeometryRecord(g, k, status)}
            /\ \A x \in geometries : GeometryKey(x) # <<g, k>>
        BY <3>1 DEF addGeometryInfo, GeometriesAt
      <4>2. GeometryKey(GeometryRecord(g, k, status)) = <<g, k>>
        BY DEF GeometryKey, GeometryRecord
      <4> QED
        BY <4>1, <4>2 DEF GeometriesOnce
    <3>2. ASSUME NEW g, NEW k, NEW x, GeometryKey(x) = <<g, k>>,
                 geometries' = (geometries \ GeometriesAt(g, k)) \cup {x}
          PROVE  GeometriesOnce'
      BY <3>2 DEF GeometriesOnce, GeometriesAt
    <3>3. ASSUME NEW g, NEW k, NEW status, setGeometryInfo(g, k, status) PROVE GeometriesOnce'
      <4>1. GeometryKey(GeometryRecord(g, k, status)) = <<g, k>>
        BY DEF GeometryKey, GeometryRecord
      <4> QED
        BY <3>2, <3>3, <4>1 DEF setGeometryInfo
    <3>4. ASSUME NEW g, NEW k, NEW status, setGeometryInfoStatusById(g, k, status)
          PROVE  GeometriesOnce'
      <4>1. PICK x \in GeometriesAt(g, k) :
              geometries' = (geometries \ GeometriesAt(g, k)) \cup {[x EXCEPT !.status = status]}
        BY <3>4 DEF setGeometryInfoStatusById
      <4>2. x \in [producer : Nat, generation : Nat, geometry : Geometries,
                   status : GeometryStatuses] /\ GeometryKey(x) = <<g, k>>
        BY <4>1 DEF GeometriesAt, Typed, GeometriesTyped
      <4>3. GeometryKey([x EXCEPT !.status = status]) = <<g, k>>
        BY <4>2 DEF GeometryKey
      <4> QED
        BY <3>2, <4>1, <4>3
    <3>5. ASSUME NEW g, NEW k, deleteGeometryInfoById(g, k) PROVE GeometriesOnce'
      BY <1>1, <3>5 DEF deleteGeometryInfoById
    <3>6. ASSUME NEW g, deleteGeometryInfoListByGenerationId(g) PROVE GeometriesOnce'
      BY <1>1, <3>6 DEF deleteGeometryInfoListByGenerationId
    <3>7. ASSUME NEW p, deleteGeometryInfoListByProducerId(p) PROVE GeometriesOnce'
      BY <1>1, <3>7 DEF deleteGeometryInfoListByProducerId
    <3> QED
      BY <2>3, <3>1, <3>3, <3>4, <3>5, <3>6, <3>7 DEF GeometryCalls
  <2>4. CASE FileCalls
    BY <1>1, <2>4, FileCallsKeep DEF parents
  <2>5. CASE ContentCalls
    BY <1>1, <2>5, ContentCallsKeep DEF parents
  <2> QED
    BY <1>2, <2>1, <2>2, <2>3, <2>4, <2>5 DEF StorageCall
<1>3. ASSUME NEW own, ClearDelete(own) PROVE GeometriesOnce'
  BY <1>1, <1>3 DEF ClearDelete
<1>4. CASE ClearAnnounce \/ Restart \/ UNCHANGED storageVars
  <2>1. geometries' = geometries
    BY <1>4 DEF ClearAnnounce, Restart, records, parents, storageVars
  <2> QED
    BY <1>1, <2>1
<1> QED
  BY <1>2, <1>3, <1>4 DEF StorageNext

LEMMA GeometriesOnceInit == StorageInit => GeometriesOnce
<1> SUFFICES ASSUME StorageInit PROVE GeometriesOnce
  OBVIOUS
<1>1. \/ geometries = {}
      \/ \E gs : geometries = {[producer |-> 1, generation |-> 1, geometry |-> k, status |-> gs]
                              : k \in Geometries}
  <2>1. CASE Loaded
    <3>1. OneFile
      BY <2>1 DEF StorageInit
    <3> QED
      BY <3>1 DEF OneFile
  <2>2. CASE ~Loaded
    BY <2>2 DEF StorageInit, NoFiles
  <2> QED
    BY <2>1, <2>2
<1> QED
  BY <1>1 DEF GeometriesOnce, GeometryKey

\* The steady clients keep to what keeps the records together.
LEMMA StorageInvStep ==
  ASSUME SteadyClients, StorageInv, [StorageNext]_storageVars
  PROVE  StorageInv'
<1>1. CarefulClients /\ RegisterOnce
  BY DEF SteadyClients, CarefulClients
<1> QED
  BY <1>1, TypedStep, NamesStep, IntegrityStep, GeometriesOnceStep DEF StorageInv

LEMMA StorageInvInit == StorageInit => StorageInv
  BY TypedInit, NamesInit, IntegrityInit, GeometriesOnceInit DEF StorageInv

-----------------------------------------------------------------------------
(* The tables that a call leaves alone.                                     *)

Adders ==
  {"PRODUCER_ADDED", "GENERATION_ADDED", "GENERATION_STATUS_CHANGED", "GEOMETRY_ADDED",
   "GEOMETRY_UPDATED", "GEOMETRY_STATUS_CHANGED", "FILE_ADDED", "FILE_UPDATED",
   "CONTENT_UPDATED", "CLEAR"}

LEMMA ProducersSame ==
  ASSUME StorageFits, UNCHANGED <<producers, producerCounter>>, NEW E,
         \A e \in E : e.type \in Adders \ {"PRODUCER_ADDED"}
  PROVE  ProducersCall(producers, producerCounter, producers', producerCounter', E)
BY DEF ProducersCall, StorageFits, Typed, ProducersTyped, Adders

LEMMA GenerationsSame ==
  ASSUME StorageFits, UNCHANGED <<generations, generationCounter>>, NEW E,
         \A e \in E : e.type \in Adders \ {"GENERATION_STATUS_CHANGED"}
  PROVE  GenerationsCall(generations, generationCounter, generations', generationCounter', E)
BY DEF GenerationsCall, StorageFits, Typed, GenerationsTyped, Adders, Of

LEMMA GeometriesSame ==
  ASSUME StorageFits, StorageFits', UNCHANGED geometries, NEW E,
         \A e \in E : e.type \in Adders \ {"GEOMETRY_STATUS_CHANGED"}
  PROVE  GeometriesCall(geometries, generations, geometries', generations', E)
<1>1. GeometriesOwned(geometries, generations) /\ GeometriesOwned(geometries', generations')
  BY DEF StorageFits
<1>2. \A e \in E : \A k, p : ~GeometryGone(e, k, p)
  BY DEF GeometryGone, OwnerGone, Of, GeometryTold, Adders
<1>3. \A y, z \in geometries : GeometryKey(y) = GeometryKey(z) => y.status = z.status
  BY <1>1 DEF GeometriesOwned
<1> QED
  BY <1>1, <1>2, <1>3 DEF GeometriesCall, HaveKey, Adders

LEMMA ContentsSame ==
  ASSUME StorageFits, StorageFits', UNCHANGED <<content, files>>, NEW E,
         \A e \in E : e.type \in Adders \ {"CONTENT_UPDATED", "FILE_ADDED"}
  PROVE  ContentsCall(content, files, content', files', E)
<1>1. ContentsOwned(content, files) /\ ContentsOwned(content', files')
  BY DEF StorageFits
<1>2. \A e \in E : \A f, r : ~FileGone(e, f, r)
  BY DEF FileGone, OwnerGone, Of, Adders
<1>3. \A e \in E : \A r : ~ContentGone(e, r)
  BY <1>2 DEF ContentGone, Of, ContentTold, Adders
<1> QED
  BY <1>1, <1>2, <1>3 DEF ContentsCall, FilesCall, Adders

\* No other table is concerned.
LEMMA OthersSame ==
  ASSUME StorageFits, StorageFits', NEW E,
         \A e \in E : e.type \in Adders /\ (e.type = "CLEAR" => clearing'),
         \/ ProducersCall(producers, producerCounter, producers', producerCounter', E)
         \/ UNCHANGED <<producers, producerCounter>> /\ \A e \in E : e.type # "PRODUCER_ADDED",
         \/ GenerationsCall(generations, generationCounter, generations', generationCounter', E)
         \/ UNCHANGED <<generations, generationCounter>>
              /\ \A e \in E : e.type # "GENERATION_STATUS_CHANGED",
         \/ GeometriesCall(geometries, generations, geometries', generations', E)
         \/ UNCHANGED geometries /\ \A e \in E : e.type # "GEOMETRY_STATUS_CHANGED",
         \/ ContentsCall(content, files, content', files', E)
         \/ UNCHANGED <<content, files>>
              /\ \A e \in E : e.type \notin {"CONTENT_UPDATED", "FILE_ADDED"}
  PROVE  TablesTold(E)
<1>1. ProducersCall(producers, producerCounter, producers', producerCounter', E)
  BY ProducersSame
<1>2. GenerationsCall(generations, generationCounter, generations', generationCounter', E)
  BY GenerationsSame
<1>3. GeometriesCall(geometries, generations, geometries', generations', E)
  BY GeometriesSame
<1>4. ContentsCall(content, files, content', files', E)
  BY ContentsSame
<1>5. \A e \in E : e.type \notin {"PRODUCER_UPDATED", "GENERATION_UPDATED", "CONTENT_ADDED"}
  BY DEF Adders
<1> QED
  BY <1>1, <1>2, <1>3, <1>4, <1>5 DEF TablesTold

-----------------------------------------------------------------------------
(* The calls that add records and bring them up to date.                     *)

\* A call announces what it does to the tables.
Called == \E E : Announced(E) /\ TablesTold(E)

LEMMA ProducerComes ==
  ASSUME StorageFits, StorageFits', NEW name, addProducerInfo(name)
  PROVE  Called
<1> DEFINE e == Event("PRODUCER_ADDED", producerCounter + 1, 0, 0)
           E == {e}
<1>1. /\ producerCounter' = producerCounter + 1
      /\ producers' = Put(producers, producerCounter + 1, name)
      /\ UNCHANGED <<generations, geometries, files, content, generationCounter>>
      /\ Announced(E)
  BY OneAnnounced DEF addProducerInfo
<1>2. /\ e.type = "PRODUCER_ADDED" /\ e.id1 = producerCounter + 1
      /\ \A x \in E : x.type = "PRODUCER_ADDED" /\ x.id1 = producerCounter + 1
      /\ e \in E
  BY DEF Event
<1> HIDE DEF e, E
<1>3. ProducersCall(producers, producerCounter, producers', producerCounter', E)
  <2>1. /\ producerCounter \in Nat /\ producerCounter' \in Nat
        /\ DOMAIN producers \subseteq 1..producerCounter
        /\ DOMAIN producers' \subseteq 1..producerCounter'
        /\ \A p, q \in DOMAIN producers' : producers'[p] = producers'[q] => p = q
    BY DEF StorageFits, Typed, ProducersTyped
  <2>2. /\ DOMAIN producers' = DOMAIN producers \cup {producerCounter + 1}
        /\ \A p \in DOMAIN producers : p # producerCounter + 1 => producers'[p] = producers[p]
    BY <1>1 DEF Put
  <2>3. \A p \in DOMAIN producers : p # producerCounter + 1
    BY <2>1
  <2>4. \A p \in DOMAIN producers' \ DOMAIN producers :
          p > producerCounter /\ \E x \in E : Of(x, "PRODUCER_ADDED", p)
    BY <1>2, <2>1, <2>2 DEF Of
  <2> QED
    BY <1>1, <1>2, <2>1, <2>2, <2>3, <2>4 DEF ProducersCall
<1>4. \A x \in E : x.type \in Adders /\ x.type = "PRODUCER_ADDED"
  BY <1>2 DEF Adders
<1> QED
  BY <1>1, <1>3, <1>4, OthersSame DEF Called

LEMMA GenerationComes ==
  ASSUME StorageFits, StorageFits', NEW p, NEW name, NEW status,
         addGenerationInfo(p, name, status)
  PROVE  Called
<1> DEFINE n == generationCounter + 1
           e == Event("GENERATION_ADDED", n, 0, 0)
           E == {e}
           r == [producer |-> p, name |-> name, status |-> status]
<1>1. /\ generationCounter' = n
      /\ generations' = Put(generations, n, r)
      /\ UNCHANGED <<producers, geometries, files, content, producerCounter>>
      /\ Announced(E)
  BY OneAnnounced DEF addGenerationInfo
<1>2. /\ \A x \in E : x.type = "GENERATION_ADDED" /\ x.id1 = n
      /\ e \in E
  BY DEF Event
<1> HIDE DEF e, E, r
<1>3. GenerationsCall(generations, generationCounter, generations', generationCounter', E)
  <2>1. /\ generationCounter \in Nat /\ generationCounter' \in Nat
        /\ DOMAIN generations \subseteq 1..generationCounter
        /\ DOMAIN generations' \subseteq 1..generationCounter'
    BY DEF StorageFits, Typed, GenerationsTyped
  <2>2. /\ DOMAIN generations' = DOMAIN generations \cup {n}
        /\ \A g \in DOMAIN generations : g # n => generations'[g] = generations[g]
    BY <1>1 DEF Put
  <2>3. \A g \in DOMAIN generations : g # n
    BY <2>1
  <2>4. \A g \in DOMAIN generations' \ DOMAIN generations :
          g > generationCounter /\ \E x \in E : Of(x, "GENERATION_ADDED", g)
    BY <1>2, <2>1, <2>2 DEF Of
  <2> QED
    BY <1>1, <1>2, <2>1, <2>2, <2>3, <2>4 DEF GenerationsCall, Of
<1>4. \A x \in E : x.type \in Adders /\ x.type = "GENERATION_ADDED"
  BY <1>2 DEF Adders
<1> QED
  BY <1>1, <1>3, <1>4, OthersSame DEF Called

LEMMA GenerationStatusSet ==
  ASSUME StorageFits, StorageFits', NEW g \in DOMAIN generations, NEW status,
         setGenerationStatus(g, status)
  PROVE  Called
<1> DEFINE e == Event("GENERATION_STATUS_CHANGED", g, status, 0)
           E == {e}
<1>1. /\ generations' = [generations EXCEPT ![g].status = status]
      /\ UNCHANGED <<producers, geometries, files, content, producerCounter, generationCounter>>
      /\ Announced(E)
  BY OneAnnounced DEF setGenerationStatus, counters
<1>2. /\ \A x \in E : x.type = "GENERATION_STATUS_CHANGED" /\ x.id1 = g /\ x.id2 = status
      /\ e \in E
  BY DEF Event
<1> HIDE DEF e, E
<1>3. GenerationsCall(generations, generationCounter, generations', generationCounter', E)
  <2>1. /\ generationCounter \in Nat /\ generationCounter' = generationCounter
        /\ DOMAIN generations \subseteq 1..generationCounter
        /\ \A x \in DOMAIN generations : IsGeneration(generations[x])
    BY <1>1 DEF StorageFits, Typed, GenerationsTyped
  <2>2. /\ DOMAIN generations' = DOMAIN generations
        /\ \A x \in DOMAIN generations : x # g => generations'[x] = generations[x]
        /\ generations'[g] = [generations[g] EXCEPT !.status = status]
    BY <1>1
  <2>3. /\ generations'[g].status = status
        /\ generations'[g].producer = generations[g].producer
        /\ generations'[g].name = generations[g].name
    BY <2>1, <2>2 DEF IsGeneration
  <2>4. StatusChanged(e, g, generations'[g].status)
    BY <1>2, <2>3 DEF StatusChanged, Of
  <2>5. \A x \in DOMAIN generations :
          /\ x \in DOMAIN generations'
          /\ generations'[x].producer = generations[x].producer
          /\ generations'[x].name = generations[x].name
          /\ \/ generations'[x].status = generations[x].status
             \/ \E y \in E : StatusChanged(y, x, generations'[x].status)
    BY <1>2, <2>2, <2>3, <2>4
  <2> QED
    BY <1>1, <1>2, <2>1, <2>2, <2>3, <2>5 DEF GenerationsCall, Of
<1>4. \A x \in E : x.type \in Adders /\ x.type = "GENERATION_STATUS_CHANGED"
  BY <1>2 DEF Adders
<1> QED
  BY <1>1, <1>3, <1>4, OthersSame DEF Called

\* One geometry is written, and only under a key that the clients have looked for.
LEMMA GeometryWritten ==
  ASSUME StorageFits, StorageFits', NEW g, NEW k \in Geometries, NEW x, NEW e,
         GeometryKey(x) = <<g, k>>, geometries' = (geometries \ GeometriesAt(g, k)) \cup {x},
         EventGeometry(e) = <<g, k>>,
         \/ e.type = "GEOMETRY_ADDED" /\ GeometriesAt(g, k) = {}
         \/ e.type = "GEOMETRY_UPDATED" /\ GeometriesAt(g, k) # {}
         \/ e.type = "GEOMETRY_STATUS_CHANGED" /\ e.flags = x.status /\ GeometriesAt(g, k) # {},
         UNCHANGED <<producers, generations, files, content, producerCounter, generationCounter>>
  PROVE  TablesTold({e})
<1> DEFINE E == {e}
<1>1. e \in E /\ \A y \in E : y = e
  OBVIOUS
<1> HIDE DEF E
<1>2. GeometriesOwned(geometries, generations) /\ GeometriesOwned(geometries', generations')
  BY DEF StorageFits
<1>3. \A y \in E : \A j, p : ~GeometryGone(y, j, p)
  BY <1>1 DEF GeometryGone, OwnerGone, Of, GeometryTold
<1>4. /\ x \in geometries'
      /\ \A y \in geometries : GeometryKey(y) # <<g, k>> => y \in geometries'
      /\ \A y \in geometries' : y = x \/ (y \in geometries /\ GeometryKey(y) # <<g, k>>)
      /\ GeometriesAt(g, k) # {} => \E y \in geometries : GeometryKey(y) = <<g, k>>
      /\ GeometriesAt(g, k) = {} => \A y \in geometries : GeometryKey(y) # <<g, k>>
  BY DEF GeometriesAt
<1>5. \A y \in geometries : HaveKey(geometries', GeometryKey(y))
  BY <1>4 DEF HaveKey
<1>6. ASSUME NEW z \in geometries', ~HaveKey(geometries, GeometryKey(z))
      PROVE  \E y \in E : GeometryTold(y, "GEOMETRY_ADDED", GeometryKey(z))
  BY <1>1, <1>4, <1>6 DEF HaveKey, GeometryTold
<1>7. ASSUME NEW y \in geometries, NEW z \in geometries', GeometryKey(y) = GeometryKey(z)
      PROVE  y.status = z.status \/ \E j \in E : StatusSettled(j, z)
  <2>1. CASE GeometryKey(z) # <<g, k>>
    <3>1. z \in geometries
      BY <1>4, <2>1
    <3> QED
      BY <1>2, <1>7, <3>1 DEF GeometriesOwned
  <2>2. CASE GeometryKey(z) = <<g, k>>
    <3>1. z = x /\ GeometriesAt(g, k) # {}
      BY <1>4, <1>7, <2>2
    <3>2. StatusSettled(e, z)
      BY <2>2, <3>1 DEF StatusSettled, GeometryTold
    <3> QED
      BY <1>1, <3>2
  <2> QED
    BY <2>1, <2>2
<1>8. \A y \in E : y.type = "GEOMETRY_STATUS_CHANGED" =>
        \E z \in geometries' : GeometryKey(z) = EventGeometry(y) /\ y.flags = z.status
  BY <1>1, <1>4
<1>9. GeometriesCall(geometries, generations, geometries', generations', E)
  BY <1>2, <1>3, <1>5, <1>6, <1>7, <1>8 DEF GeometriesCall
<1>10. \A y \in E : y.type \in Adders /\ y.type \in {"GEOMETRY_ADDED", "GEOMETRY_UPDATED",
                                                    "GEOMETRY_STATUS_CHANGED"}
  BY <1>1 DEF Adders
<1> QED
  BY <1>9, <1>10, OthersSame DEF E

LEMMA GeometryEventIs ==
  ASSUME NEW g, NEW k \in Geometries, NEW type
  PROVE  /\ GeometryEvent(type, g, k).type = type
         /\ EventGeometry(GeometryEvent(type, g, k)) = <<g, k>>
<1>1. k = <<k[1], k[2]>>
  BY StorageAssumption
<1> QED
  BY <1>1 DEF GeometryEvent, Event, EventGeometry

LEMMA GeometryAddedOrSet ==
  ASSUME StorageFits, StorageFits', RegisterOnce, NEW g, NEW k \in Geometries, NEW status,
         addGeometryInfo(g, k, status) \/ setGeometryInfo(g, k, status)
  PROVE  Called
<1> DEFINE x == GeometryRecord(g, k, status)
<1>1. GeometryKey(x) = <<g, k>>
  BY DEF GeometryKey, GeometryRecord
<1> HIDE DEF x
<1>2. CASE addGeometryInfo(g, k, status)
  <2> DEFINE e == GeometryEvent("GEOMETRY_ADDED", g, k)
  <2>1. /\ GeometriesAt(g, k) = {} /\ geometries' = geometries \cup {x} /\ Announce(<<e>>)
        /\ UNCHANGED <<producers, generations, files, content, producerCounter, generationCounter>>
    BY <1>2 DEF addGeometryInfo, counters, x
  <2>2. e.type = "GEOMETRY_ADDED" /\ EventGeometry(e) = <<g, k>>
    BY GeometryEventIs
  <2> HIDE DEF e
  <2>3. geometries' = (geometries \ GeometriesAt(g, k)) \cup {x}
    BY <2>1
  <2>4. TablesTold({e})
    BY <1>1, <2>1, <2>2, <2>3, GeometryWritten
  <2> QED
    BY <2>1, <2>4, OneAnnounced DEF Called
<1>3. CASE setGeometryInfo(g, k, status)
  <2> DEFINE e == GeometryEvent("GEOMETRY_UPDATED", g, k)
  <2>1. /\ GeometriesAt(g, k) # {} /\ Announce(<<e>>)
        /\ geometries' = (geometries \ GeometriesAt(g, k)) \cup {x}
        /\ UNCHANGED <<producers, generations, files, content, producerCounter, generationCounter>>
    BY <1>3 DEF setGeometryInfo, counters, x
  <2>2. e.type = "GEOMETRY_UPDATED" /\ EventGeometry(e) = <<g, k>>
    BY GeometryEventIs
  <2> HIDE DEF e
  <2>3. TablesTold({e})
    BY <1>1, <2>1, <2>2, GeometryWritten
  <2> QED
    BY <2>1, <2>3, OneAnnounced DEF Called
<1> QED
  BY <1>2, <1>3

LEMMA GeometryStatusChanged ==
  ASSUME StorageFits, StorageFits', NEW g, NEW k \in Geometries, NEW status,
         setGeometryInfoStatusById(g, k, status)
  PROVE  Called
<1> DEFINE e == [GeometryEvent("GEOMETRY_STATUS_CHANGED", g, k) EXCEPT !.flags = status]
<1>1. PICK old \in GeometriesAt(g, k) :
        geometries' = (geometries \ GeometriesAt(g, k)) \cup {[old EXCEPT !.status = status]}
  BY DEF setGeometryInfoStatusById
<1> DEFINE x == [old EXCEPT !.status = status]
<1>2. IsGeometry(old) /\ GeometryKey(old) = <<g, k>>
  BY <1>1 DEF StorageFits, GeometriesOwned, GeometriesAt
<1>3. GeometryKey(x) = <<g, k>> /\ x.status = status
  BY <1>2 DEF GeometryKey, IsGeometry
<1>4. /\ Announce(<<e>>)
      /\ UNCHANGED <<producers, generations, files, content, producerCounter, generationCounter>>
  BY DEF setGeometryInfoStatusById, counters
<1>5. e.type = "GEOMETRY_STATUS_CHANGED" /\ EventGeometry(e) = <<g, k>> /\ e.flags = status
  <2>1. k = <<k[1], k[2]>>
    BY StorageAssumption
  <2> QED
    BY <2>1 DEF GeometryEvent, Event, EventGeometry
<1> HIDE DEF x, e
<1>6. geometries' = (geometries \ GeometriesAt(g, k)) \cup {x} /\ GeometriesAt(g, k) # {}
  BY <1>1 DEF x
<1>7. TablesTold({e})
  BY <1>3, <1>4, <1>5, <1>6, GeometryWritten
<1> QED
  BY <1>4, <1>7, OneAnnounced DEF Called

\* Content of a known file is replaced.
LEMMA KnownFileTold ==
  ASSUME StorageFits, StorageFits', NEW e, e.type = "FILE_UPDATED", e.id1 \in DOMAIN files,
         UNCHANGED <<producers, generations, geometries, files, producerCounter, generationCounter>>,
         \A r \in content \ content' : r.file = e.id1,
         \A r \in content' \ content : r.file = e.id1
  PROVE  TablesTold({e})
<1> DEFINE E == {e}
<1>1. e \in E /\ \A y \in E : y = e
  OBVIOUS
<1> HIDE DEF E
<1>2. ContentsOwned(content, files) /\ ContentsOwned(content', files')
  BY DEF StorageFits
<1>3. \A y \in E : \A f, r : ~FileGone(y, f, r)
  BY <1>1 DEF FileGone, OwnerGone, Of
<1>4. \A y \in E : \A r : ~ContentGone(y, r)
  BY <1>1, <1>3 DEF ContentGone, Of, ContentTold
<1>5. FilesCall(files, files', E)
  BY <1>1, <1>3 DEF FilesCall
<1>6. \A r \in content \ content' : /\ r.file \in DOMAIN files'
                                    /\ \E y \in E : Of(y, "FILE_UPDATED", r.file)
                                    /\ \A y \in E : ~Of(y, "FILE_ADDED", r.file)
  BY <1>1 DEF Of
<1>7. \A r \in content' \ content : \E y \in E : ContentAdded(y, Key(r))
  BY <1>1 DEF ContentAdded, Of, Key
<1>8. ContentsCall(content, files, content', files', E)
  BY <1>2, <1>4, <1>5, <1>6, <1>7 DEF ContentsCall
<1>9. \A y \in E : y.type \in Adders /\ y.type = "FILE_UPDATED"
  BY <1>1 DEF Adders
<1> QED
  BY <1>8, <1>9, OthersSame DEF E

\* A file comes, with content or without.
LEMMA NewFileTold ==
  ASSUME StorageFits, StorageFits', NEW e, e.type = "FILE_ADDED", e.id1 \notin DOMAIN files,
         UNCHANGED <<producers, generations, geometries, producerCounter, generationCounter>>,
         \A f \in DOMAIN files : f \in DOMAIN files' /\ files'[f] = files[f],
         \A f \in DOMAIN files' : f \in DOMAIN files \/ f = e.id1,
         content \subseteq content',
         \A r \in content' \ content : r.file = e.id1 /\ e.id3 > 0
  PROVE  TablesTold({e})
<1> DEFINE E == {e}
<1>1. e \in E /\ \A y \in E : y = e
  OBVIOUS
<1> HIDE DEF E
<1>2. ContentsOwned(content, files) /\ ContentsOwned(content', files')
  BY DEF StorageFits
<1>3. \A y \in E : \A f, r : ~FileGone(y, f, r)
  BY <1>1 DEF FileGone, OwnerGone, Of
<1>4. \A y \in E : \A r : ~ContentGone(y, r)
  BY <1>1, <1>3 DEF ContentGone, Of, ContentTold
<1>5. FilesCall(files, files', E)
  BY <1>1, <1>3 DEF FilesCall, Of
<1>6. \A r \in content' \ content : \E y \in E : ContentAdded(y, Key(r))
  BY <1>1 DEF ContentAdded, Of, Key
<1>7. ContentsCall(content, files, content', files', E)
  BY <1>2, <1>4, <1>5, <1>6 DEF ContentsCall
<1>8. \A y \in E : y.type \in Adders /\ y.type = "FILE_ADDED"
  BY <1>1 DEF Adders
<1> QED
  BY <1>7, <1>8, OthersSame DEF E

\* A content list that has something has a size.
LEMMA SomeContent ==
  ASSUME NEW f, NEW g, NEW list \in ContentLists
  PROVE  ContentsOf(f, g, list) # {} => Cardinality(DOMAIN list) > 0
<1>1. DOMAIN list \subseteq Messages
  BY DEF ContentLists
<1>2. IsFiniteSet(DOMAIN list)
  BY <1>1, FS_Subset, StorageAssumption
<1>3. Cardinality(DOMAIN list) \in Nat /\ (Cardinality(DOMAIN list) = 0 <=> DOMAIN list = {})
  BY <1>2, FS_CardinalityType, FS_EmptySet
<1>4. ContentsOf(f, g, list) # {} => DOMAIN list # {}
  BY DEF ContentsOf
<1> QED
  BY <1>3, <1>4

\* A file is registered for the first time.
LEMMA FileRegistered ==
  ASSUME StorageFits, StorageFits', NEW g \in DOMAIN generations, NEW name \in FileNames,
         NEW n \in (fileCounter + 1)..(fileCounter + FileIdModulus), NewFile(n, name, g),
         NEW count, Announce(<<Event("FILE_ADDED", n % FileIdModulus, 0, count)>>),
         UNCHANGED <<parents, producerCounter, generationCounter>>,
         NEW S, content' = content \cup S,
         \A r \in S : r.file = n % FileIdModulus /\ count > 0
  PROVE  Called
<1> DEFINE f == n % FileIdModulus
           e == Event("FILE_ADDED", f, 0, count)
<1>1. f \notin DOMAIN files
  BY FileComes DEF StorageFits, Typed
<1>2. /\ \A x \in DOMAIN files : x \in DOMAIN files' /\ files'[x] = files[x]
      /\ \A x \in DOMAIN files' : x \in DOMAIN files \/ x = f
  BY <1>1 DEF NewFile, Put
<1>3. e.type = "FILE_ADDED" /\ e.id1 = f /\ e.id3 = count
  BY DEF Event
<1>4. /\ content \subseteq content'
      /\ \A r \in content' \ content : r.file = f /\ count > 0
  OBVIOUS
<1>5. Announced({e})
  BY OneAnnounced
<1> HIDE DEF e, f
<1>6. TablesTold({e})
  BY <1>1, <1>2, <1>3, <1>4, NewFileTold DEF parents
<1> QED
  BY <1>5, <1>6 DEF Called

\* The content of a known file is brought up to date.
LEMMA FileWritten ==
  ASSUME StorageFits, StorageFits', NEW f \in DOMAIN files, NEW count,
         Announce(<<Event("FILE_UPDATED", f, 0, count)>>),
         UNCHANGED <<parents, files, producerCounter, generationCounter>>,
         \A r \in content \ content' : r.file = f,
         \A r \in content' \ content : r.file = f
  PROVE  Called
<1> DEFINE e == Event("FILE_UPDATED", f, 0, count)
<1>1. e.type = "FILE_UPDATED" /\ e.id1 = f
  BY DEF Event
<1>2. Announced({e})
  BY OneAnnounced
<1> HIDE DEF e
<1>3. TablesTold({e})
  BY <1>1, KnownFileTold DEF parents
<1> QED
  BY <1>2, <1>3 DEF Called

LEMMA FileAddedTold ==
  ASSUME StorageFits, StorageFits', RegisterOnce,
         NEW g \in DOMAIN generations, NEW name \in FileNames, addFileInfo(name, g)
  PROVE  Called
<1> DEFINE f == FileIdOf(name)
<1>1. CASE f # 0
  <2>1. f \in DOMAIN files
    BY <1>1, KnownFile DEF addFileInfo
  <2> QED
    BY <1>1, <2>1, FileWritten DEF addFileInfo
<1>2. CASE f = 0
  <2>1. PICK n \in (fileCounter + 1)..(fileCounter + FileIdModulus) :
          /\ NewFile(n, name, g)
          /\ Announce(<<Event("FILE_ADDED", n % FileIdModulus, 0, 0)>>)
    BY <1>2 DEF addFileInfo
  <2>2. /\ UNCHANGED <<parents, producerCounter, generationCounter>>
        /\ content' = content
    BY DEF addFileInfo
  <2>3. PICK S : S = {}
    OBVIOUS
  <2>4. content' = content \cup S /\ \A r \in S : FALSE
    BY <2>2, <2>3
  <2> QED
    BY <2>1, <2>2, <2>4, FileRegistered
<1> QED
  BY <1>1, <1>2

LEMMA FileWithContentTold ==
  ASSUME StorageFits, StorageFits', RegisterOnce,
         NEW g \in DOMAIN generations, NEW name \in FileNames, NEW list \in ContentLists,
         addFileInfoWithContentList(name, g, list)
  PROVE  Called
<1> DEFINE f == FileIdOf(name)
<1>1. CASE f # 0
  <2>1. f \in DOMAIN files
    BY <1>1, KnownFile DEF addFileInfoWithContentList
  <2>2. /\ content' = (content \ ByFile(f)) \cup ContentsOf(f, g, list)
        /\ Announce(<<Event("FILE_UPDATED", f, 0, Cardinality(DOMAIN list))>>)
        /\ UNCHANGED <<parents, files, producerCounter, generationCounter>>
    BY <1>1 DEF addFileInfoWithContentList
  <2>3. /\ \A r \in content \ content' : r.file = f
        /\ \A r \in content' \ content : r.file = f
    BY <2>2, OwnersOfContents DEF ByFile
  <2> HIDE DEF f
  <2> QED
    BY <2>1, <2>2, <2>3, FileWritten
<1>2. CASE f = 0
  <2>1. PICK n \in (fileCounter + 1)..(fileCounter + FileIdModulus) :
          /\ NewFile(n, name, g)
          /\ content' = content \cup ContentsOf(n % FileIdModulus, g, list)
          /\ Announce(<<Event("FILE_ADDED", n % FileIdModulus, 0, Cardinality(DOMAIN list))>>)
    BY <1>2 DEF addFileInfoWithContentList
  <2>2. UNCHANGED <<parents, producerCounter, generationCounter>>
    BY DEF addFileInfoWithContentList
  <2>3. \A r \in ContentsOf(n % FileIdModulus, g, list) :
          r.file = n % FileIdModulus /\ Cardinality(DOMAIN list) > 0
    BY OwnersOfContents, SomeContent
  <2> QED
    BY <2>1, <2>2, <2>3, FileRegistered
<1> QED
  BY <1>1, <1>2

\* The steady clients have the batch call replace the content of a known file.
LEMMA FileListTold ==
  ASSUME StorageFits, StorageFits', RegisterOnce,
         NEW g \in DOMAIN generations, NEW name \in FileNames, NEW list \in ContentLists,
         addFileInfoListWithContent(name, g, list, TRUE)
  PROVE  Called
<1> DEFINE f == FileIdOf(name)
           old == content \ ByFile(f)
           new == Missing(old, ContentsOf(f, g, list))
<1>1. CASE f # 0
  <2>1. f \in DOMAIN files
    BY <1>1, KnownFile DEF addFileInfoListWithContent
  <2>2. /\ content' = old \cup new
        /\ Announce(<<Event("FILE_UPDATED", f, 0, 0)>>)
        /\ UNCHANGED <<parents, files, producerCounter, generationCounter>>
    BY <1>1 DEF addFileInfoListWithContent
  <2>3. /\ \A r \in content \ content' : r.file = f
        /\ \A r \in content' \ content : r.file = f
    BY <2>2, OwnersOfContents DEF ByFile, Missing
  <2> HIDE DEF f
  <2> QED
    BY <2>1, <2>2, <2>3, FileWritten
<1>2. CASE f = 0
  <2>1. PICK n \in (fileCounter + 1)..(fileCounter + FileIdModulus) :
          /\ NewFile(n, name, g)
          /\ content' = content \cup Missing(content, ContentsOf(n % FileIdModulus, g, list))
          /\ Announce(<<Event("FILE_ADDED", n % FileIdModulus, 0, Cardinality(DOMAIN list))>>)
    BY <1>2 DEF addFileInfoListWithContent
  <2>2. UNCHANGED <<parents, producerCounter, generationCounter>>
    BY DEF addFileInfoListWithContent
  <2>3. \A r \in Missing(content, ContentsOf(n % FileIdModulus, g, list)) :
          r.file = n % FileIdModulus /\ Cardinality(DOMAIN list) > 0
    BY OwnersOfContents, SomeContent DEF Missing
  <2> QED
    BY <2>1, <2>2, <2>3, FileRegistered
<1> QED
  BY <1>1, <1>2

LEMMA ContentSet ==
  ASSUME StorageFits, StorageFits', NEW f, NEW m, NEW d, setContentInfo(f, m, d)
  PROVE  Called
<1> DEFINE new == ContentOf(f, m, files[f].generation, d)
           e == Event("CONTENT_UPDATED", f, m, 0)
           E == {e}
<1>1. /\ content' = {r \in content : Key(r) # Key(new)} \cup {new}
      /\ UNCHANGED <<producers, generations, geometries, files, producerCounter, generationCounter>>
      /\ Announced(E)
  BY OneAnnounced DEF setContentInfo, parents, counters
<1>2. Key(new) = <<f, m>>
  BY DEF Key, ContentOf
<1>3. e \in E /\ \A y \in E : y = e
  OBVIOUS
<1>4. e.type = "CONTENT_UPDATED" /\ <<e.id1, e.id2>> = <<f, m>>
  BY DEF Event
<1> HIDE DEF new, e, E
<1>5. ContentsOwned(content, files) /\ ContentsOwned(content', files')
  BY DEF StorageFits
<1>6. \A x, r : ~FileGone(e, x, r)
  BY <1>4 DEF FileGone, OwnerGone, Of
<1>7. \A r : /\ ContentGone(e, r) => Key(r) = <<f, m>>
             /\ Key(r) = <<f, m>> => ContentGone(e, r) /\ ContentAdded(e, Key(r))
  BY <1>4, <1>6 DEF ContentGone, Of, ContentTold, ContentAdded
<1>8. FilesCall(files, files', E)
  BY <1>1, <1>3, <1>4, <1>6 DEF FilesCall
<1>9. /\ \A r \in content \ content' : Key(r) = <<f, m>>
      /\ \A r \in content' \ content : Key(r) = <<f, m>>
  BY <1>1, <1>2
<1>10. ContentsCall(content, files, content', files', E)
  BY <1>3, <1>5, <1>7, <1>8, <1>9 DEF ContentsCall
<1>11. \A y \in E : y.type \in Adders /\ y.type = "CONTENT_UPDATED"
  BY <1>3, <1>4 DEF Adders
<1> QED
  BY <1>1, <1>10, <1>11, OthersSame DEF Called

\* Nothing is said of what does not change.
LEMMA NothingTold ==
  ASSUME StorageFits, StorageFits', LogOK(eventLog), UNCHANGED eventLog,
         UNCHANGED <<producers, generations, geometries, files, content,
                     producerCounter, generationCounter>>
  PROVE  Called
<1>1. TablesTold({})
  BY OthersSame
<1> QED
  BY <1>1, NoneAnnounced DEF Called

\* clear() tells that it will delete, and deletes later.
LEMMA ClearTold ==
  ASSUME StorageFits, StorageFits', ClearAnnounce
  PROVE  Called
<1> DEFINE e == Event("CLEAR", 0, 0, 0)
           E == {e}
<1>1. /\ UNCHANGED <<producers, generations, geometries, files, content,
                     producerCounter, generationCounter>>
      /\ Announced(E) /\ clearing'
  BY OneAnnounced DEF ClearAnnounce, records, parents, counters
<1>2. \A y \in E : y.type \in Adders /\ y.type = "CLEAR"
  BY DEF Event, Adders
<1> HIDE DEF e, E
<1>3. TablesTold(E)
  BY <1>1, <1>2, OthersSame
<1> QED
  BY <1>1, <1>3 DEF Called

-----------------------------------------------------------------------------
(* The calls that delete.  What goes is exactly what their events tell of.    *)

Kept(new, old) == \A x \in DOMAIN new : x \in DOMAIN old /\ new[x] = old[x]

SweptParents(E) ==
  /\ Kept(producers', producers)
  /\ \A p \in DOMAIN producers :
       p \notin DOMAIN producers' <=> \E e \in E : Of(e, "PRODUCER_DELETED", p)
  /\ Kept(generations', generations)
  /\ \A g \in DOMAIN generations :
       g \notin DOMAIN generations' <=> \E e \in E : OwnerGone(e, generations[g].producer, g)
  /\ geometries' \subseteq geometries
  /\ \A y \in geometries :
       y \notin geometries' <=> \E e \in E : GeometryGone(e, GeometryKey(y), y.producer)

SweptFiles(E) ==
  /\ Kept(files', files)
  /\ \A f \in DOMAIN files :
       f \notin DOMAIN files' <=> \E e \in E : FileGone(e, f, files[f])
  /\ content' \subseteq content
  /\ \A r \in content : r \notin content' <=> \E e \in E : ContentGone(e, r)

Swept(E) ==
  /\ UNCHANGED <<producerCounter, generationCounter>>
  /\ \A e \in E : /\ e.type \in Removers
                  /\ e.type = "PRODUCER_DELETED" => e.id1 \in 1..producerCounter
                  /\ e.type = "GENERATION_DELETED" => e.id1 \in 1..generationCounter
  /\ SweptParents(E) /\ SweptFiles(E)

LEMMA SweptTold ==
  ASSUME StorageFits, StorageFits', NEW E, Swept(E)
  PROVE  TablesTold(E)
<1>0. \A e \in E : e.type \in Removers
  BY DEF Swept
<1>1. ProducersCall(producers, producerCounter, producers', producerCounter', E)
  <2>1. /\ producerCounter \in Nat /\ producerCounter' = producerCounter
        /\ DOMAIN producers \subseteq 1..producerCounter
        /\ DOMAIN producers' \subseteq 1..producerCounter
        /\ \A p, q \in DOMAIN producers' : producers'[p] = producers'[q] => p = q
    BY DEF StorageFits, Typed, ProducersTyped, Swept
  <2>2. Kept(producers', producers)
    BY DEF Swept, SweptParents
  <2>3. \A p \in DOMAIN producers :
          p \notin DOMAIN producers' <=> \E e \in E : Of(e, "PRODUCER_DELETED", p)
    BY DEF Swept, SweptParents
  <2>4. ASSUME NEW e \in E
        PROVE  /\ e.type = "PRODUCER_DELETED" => e.id1 \in 1..producerCounter \ DOMAIN producers'
               /\ e.type # "PRODUCER_ADDED"
    <3>1. e.type # "PRODUCER_ADDED"
      BY <1>0 DEF Removers
    <3>2. e.type = "PRODUCER_DELETED" => e.id1 \in 1..producerCounter
      BY DEF Swept
    <3>3. e.type = "PRODUCER_DELETED" => e.id1 \notin DOMAIN producers'
      BY <2>2, <2>3 DEF Kept, Of
    <3> QED
      BY <3>1, <3>2, <3>3
  <2> QED
    BY <2>1, <2>2, <2>3, <2>4 DEF ProducersCall, Kept
<1>2. GenerationsCall(generations, generationCounter, generations', generationCounter', E)
  <2>1. /\ generationCounter \in Nat /\ generationCounter' = generationCounter
        /\ DOMAIN generations \subseteq 1..generationCounter
        /\ DOMAIN generations' \subseteq 1..generationCounter
    BY DEF StorageFits, Typed, GenerationsTyped, Swept
  <2>2. Kept(generations', generations)
    BY DEF Swept, SweptParents
  <2>3. \A g \in DOMAIN generations :
          g \notin DOMAIN generations' <=> \E e \in E : OwnerGone(e, generations[g].producer, g)
    BY DEF Swept, SweptParents
  <2>4. ASSUME NEW e \in E
        PROVE  /\ e.type = "GENERATION_DELETED" => e.id1 \in 1..generationCounter \ DOMAIN generations'
               /\ e.type # "GENERATION_STATUS_CHANGED"
               /\ \A g \in DOMAIN generations' :
                    ~Of(e, "GENERATION_LIST_DELETED_BY_PRODUCER_ID", generations'[g].producer)
    <3>1. e.type # "GENERATION_STATUS_CHANGED"
      BY <1>0 DEF Removers
    <3>2. e.type = "GENERATION_DELETED" => e.id1 \in 1..generationCounter
      BY DEF Swept
    <3>3. e.type = "GENERATION_DELETED" => e.id1 \notin DOMAIN generations'
      BY <2>2, <2>3 DEF Kept, Of, OwnerGone
    <3>4. \A g \in DOMAIN generations' :
            ~Of(e, "GENERATION_LIST_DELETED_BY_PRODUCER_ID", generations'[g].producer)
      BY <2>2, <2>3 DEF Kept, OwnerGone
    <3> QED
      BY <3>1, <3>2, <3>3, <3>4
  <2> QED
    BY <2>1, <2>2, <2>3, <2>4 DEF GenerationsCall, Kept
<1>3. GeometriesCall(geometries, generations, geometries', generations', E)
  <2>1. GeometriesOwned(geometries, generations) /\ GeometriesOwned(geometries', generations')
    BY DEF StorageFits
  <2>2. /\ geometries' \subseteq geometries
        /\ \A y \in geometries :
             y \notin geometries' <=> \E e \in E : GeometryGone(e, GeometryKey(y), y.producer)
    BY DEF Swept, SweptParents
  <2>3. \A y \in geometries : ~HaveKey(geometries', GeometryKey(y)) => y \notin geometries'
    BY DEF HaveKey
  <2>4. \A z \in geometries' : HaveKey(geometries, GeometryKey(z))
    BY <2>2 DEF HaveKey
  <2>5. \A y \in geometries, z \in geometries' : GeometryKey(y) = GeometryKey(z) => y = z
    BY <2>1, <2>2 DEF GeometriesOwned
  <2>6. \A e \in E : e.type # "GEOMETRY_STATUS_CHANGED"
    BY <1>0 DEF Removers
  <2> QED
    BY <2>1, <2>2, <2>3, <2>4, <2>5, <2>6 DEF GeometriesCall
<1>4. \A e \in E : e.type \notin {"FILE_ADDED", "CLEAR", "PRODUCER_UPDATED", "GENERATION_UPDATED",
                                  "CONTENT_ADDED"}
  BY <1>0 DEF Removers
<1>5. FilesCall(files, files', E)
  <2>1. /\ Kept(files', files)
        /\ \A f \in DOMAIN files :
             f \notin DOMAIN files' <=> \E e \in E : FileGone(e, f, files[f])
    BY DEF Swept, SweptFiles
  <2> QED
    BY <1>4, <2>1 DEF FilesCall, Kept
<1>6. ContentsCall(content, files, content', files', E)
  <2>1. ContentsOwned(content, files) /\ ContentsOwned(content', files')
    BY DEF StorageFits
  <2>2. /\ content' \subseteq content
        /\ \A r \in content : r \notin content' <=> \E e \in E : ContentGone(e, r)
    BY DEF Swept, SweptFiles
  <2>3. \A r \in content \ content' : ~HasContent(content', Key(r))
    BY <2>1, <2>2 DEF ContentsOwned, HasContent
  <2> QED
    BY <1>5, <2>1, <2>2, <2>3 DEF ContentsCall
<1> QED
  BY <1>1, <1>2, <1>3, <1>4, <1>6 DEF TablesTold

LEMMA OneSwept ==
  ASSUME NEW e, UNCHANGED <<producerCounter, generationCounter>>, e.type \in Removers,
         e.type = "PRODUCER_DELETED" => e.id1 \in 1..producerCounter,
         e.type # "GENERATION_DELETED",
         Kept(producers', producers),
         \A p \in DOMAIN producers : p \notin DOMAIN producers' <=> Of(e, "PRODUCER_DELETED", p),
         Kept(generations', generations),
         \A g \in DOMAIN generations :
           g \notin DOMAIN generations' <=> OwnerGone(e, generations[g].producer, g),
         geometries' \subseteq geometries,
         \A y \in geometries : y \notin geometries' <=> GeometryGone(e, GeometryKey(y), y.producer),
         Kept(files', files),
         \A f \in DOMAIN files : f \notin DOMAIN files' <=> FileGone(e, f, files[f]),
         content' \subseteq content,
         \A r \in content : r \notin content' <=> ContentGone(e, r)
  PROVE  Swept({e})
<1> DEFINE E == {e}
<1>1. e \in E /\ \A y \in E : y = e
  OBVIOUS
<1> HIDE DEF E
<1>2. SweptParents(E)
  BY <1>1 DEF SweptParents
<1>3. SweptFiles(E)
  BY <1>1 DEF SweptFiles
<1>4. Swept(E)
  BY <1>1, <1>2, <1>3 DEF Swept
<1> QED
  BY <1>4 DEF E

\* What goes with a list of content, and with some files or generations.
LEMMA ContentGoes ==
  ASSUME StorageInv, NEW list \in SUBSET content, DeleteContent(list)
  PROVE  content' = content \ list
BY DEF DeleteContent, StorageInv, Integrity, ContentFits

LEMMA WithoutGoes ==
  ASSUME NEW old, NEW K, NEW new, new = Without(old, K)
  PROVE  Kept(new, old) /\ \A x \in DOMAIN old : x \notin DOMAIN new <=> x \in K
BY DEF Kept, Without

LEMMA SameKept ==
  ASSUME NEW old, NEW new, new = old
  PROVE  Kept(new, old) /\ \A x \in DOMAIN old : x \in DOMAIN new
BY DEF Kept

\* Everything of a producer goes.
LEMMA ProducersRecordsGo ==
  ASSUME StorageInv, NEW p, DeleteAllOfProducer(p)
  PROVE  /\ Kept(generations', generations)
         /\ \A g \in DOMAIN generations :
              g \notin DOMAIN generations' <=> generations[g].producer = p
         /\ geometries' \subseteq geometries
         /\ \A y \in geometries : y \notin geometries' <=> y.producer = p
         /\ Kept(files', files)
         /\ \A f \in DOMAIN files : f \notin DOMAIN files' <=> files[f].producer = p
         /\ content' \subseteq content
         /\ \A r \in content : r \notin content' <=> r.producer = p
<1>1. content' = content \ ByProducer(p)
  BY ContentGoes DEF DeleteAllOfProducer, ByProducer
<1>2. /\ generations' = Without(generations, GenerationsOf(p))
      /\ geometries' = geometries \ GeometriesOf("producer", p)
      /\ files' = Without(files, FilesOfProducer(p))
  BY DEF DeleteAllOfProducer, DeleteFiles
<1>3. /\ Kept(generations', generations)
      /\ \A g \in DOMAIN generations :
           g \notin DOMAIN generations' <=> generations[g].producer = p
  BY <1>2, WithoutGoes DEF GenerationsOf
<1>4. /\ Kept(files', files)
      /\ \A f \in DOMAIN files : f \notin DOMAIN files' <=> files[f].producer = p
  BY <1>2, WithoutGoes DEF FilesOfProducer
<1> QED
  BY <1>1, <1>2, <1>3, <1>4 DEF GeometriesOf, ByProducer

LEMMA ProducerSwept ==
  ASSUME StorageInv, StorageFits, StorageFits', NEW p \in DOMAIN producers, deleteProducer(p)
  PROVE  Called
<1> DEFINE e == Event("PRODUCER_DELETED", p, 0, 0)
<1>1. e.type = "PRODUCER_DELETED" /\ e.id1 = p
  BY DEF Event
<1>2. /\ DeleteAllOfProducer(p)
      /\ producers' = Without(producers, {p})
      /\ Announced({e})
      /\ UNCHANGED <<producerCounter, generationCounter>>
  BY OneAnnounced DEF deleteProducer, counters
<1>3. p \in 1..producerCounter
  BY DEF StorageFits, Typed, ProducersTyped
<1> HIDE DEF e
<1>4. /\ \A q : Of(e, "PRODUCER_DELETED", q) <=> q = p
      /\ \A q, g : OwnerGone(e, q, g) <=> q = p
      /\ \A k, q : GeometryGone(e, k, q) <=> q = p
      /\ \A f, r : FileGone(e, f, r) <=> r.producer = p
      /\ \A r : ContentGone(e, r) <=> r.producer = p
  BY <1>1 DEF Of, OwnerGone, GeometryGone, GeometryTold, FileGone, ContentGone, ContentTold
<1>5. Kept(producers', producers)
      /\ \A x \in DOMAIN producers : x \notin DOMAIN producers' <=> x = p
  BY <1>2, WithoutGoes
<1>6. e.type \in Removers
  BY <1>1 DEF Removers
<1>7. Swept({e})
  BY <1>1, <1>2, <1>3, <1>4, <1>5, <1>6, ProducersRecordsGo, OneSwept
<1> QED
  BY <1>2, <1>7, SweptTold DEF Called

LEMMA GenerationsOfProducerSwept ==
  ASSUME StorageInv, StorageFits, StorageFits', NEW p, deleteGenerationsOfProducer(p)
  PROVE  Called
<1> DEFINE e == Event("GENERATION_LIST_DELETED_BY_PRODUCER_ID", p, 0, 0)
<1>1. e.type = "GENERATION_LIST_DELETED_BY_PRODUCER_ID" /\ e.id1 = p
  BY DEF Event
<1>2. /\ DeleteAllOfProducer(p)
      /\ producers' = producers
      /\ Announced({e})
      /\ UNCHANGED <<producerCounter, generationCounter>>
  BY OneAnnounced DEF deleteGenerationsOfProducer, counters
<1> HIDE DEF e
<1>4. /\ \A q : ~Of(e, "PRODUCER_DELETED", q)
      /\ \A q, g : OwnerGone(e, q, g) <=> q = p
      /\ \A k, q : GeometryGone(e, k, q) <=> q = p
      /\ \A f, r : FileGone(e, f, r) <=> r.producer = p
      /\ \A r : ContentGone(e, r) <=> r.producer = p
  BY <1>1 DEF Of, OwnerGone, GeometryGone, GeometryTold, FileGone, ContentGone, ContentTold
<1>5. Kept(producers', producers) /\ \A x \in DOMAIN producers : x \in DOMAIN producers'
  BY <1>2, SameKept
<1>6. e.type \in Removers
  BY <1>1 DEF Removers
<1>7. Swept({e})
  BY <1>1, <1>2, <1>4, <1>5, <1>6, ProducersRecordsGo, OneSwept
<1> QED
  BY <1>2, <1>7, SweptTold DEF Called

\* The records of some generations go.
LEMMA GenerationsSwept ==
  ASSUME StorageInv, StorageFits, StorageFits',
         NEW G \in SUBSET (1..generationCounter), deleteGenerationList(G)
  PROVE  Called
<1> DEFINE h == [g \in G |-> Event("GENERATION_DELETED", g, 0, 0)]
           E == {h[g] : g \in G}
<1>1. E = {Event("GENERATION_DELETED", g, 0, 0) : g \in G}
  OBVIOUS
<1>2. IsFiniteSet(G)
  <2>1. IsFiniteSet(1..generationCounter)
    BY FS_Interval DEF StorageFits, Typed, GenerationsTyped
  <2> QED
    BY <2>1, FS_Subset
<1>3. \A g \in G : h[g].type = "GENERATION_DELETED" /\ h[g].id1 = g
  BY DEF Event
<1>11. DOMAIN h = G
  OBVIOUS
<1> HIDE DEF h
<1>4. IsFiniteSet(E)
  BY <1>2, <1>11, ImageFinite
<1>5. Announced(E)
  BY <1>1, <1>4, SomeAnnounced DEF deleteGenerationList
<1>6. /\ \A e \in E : e.type = "GENERATION_DELETED" /\ e.id1 \in G
      /\ \A g \in G : \E e \in E : e.type = "GENERATION_DELETED" /\ e.id1 = g
  BY <1>3
<1> HIDE DEF E
<1>7. /\ \A q : ~\E e \in E : Of(e, "PRODUCER_DELETED", q)
      /\ \A q, g : (\E e \in E : OwnerGone(e, q, g)) <=> g \in G
      /\ \A k, q : (\E e \in E : GeometryGone(e, k, q)) <=> k[1] \in G
      /\ \A f, r : (\E e \in E : FileGone(e, f, r)) <=> r.generation \in G
      /\ \A r : (\E e \in E : ContentGone(e, r)) <=> r.generation \in G
  <2>1. ASSUME NEW e, e.type = "GENERATION_DELETED"
        PROVE  /\ \A q : ~Of(e, "PRODUCER_DELETED", q)
               /\ \A q, g : OwnerGone(e, q, g) <=> e.id1 = g
               /\ \A k, q : GeometryGone(e, k, q) <=> e.id1 = k[1]
               /\ \A f, r : FileGone(e, f, r) <=> e.id1 = r.generation
               /\ \A r : ContentGone(e, r) <=> e.id1 = r.generation
    BY <2>1 DEF Of, OwnerGone, GeometryGone, GeometryTold, FileGone, ContentGone, ContentTold
  <2>2. \A q : ~\E e \in E : Of(e, "PRODUCER_DELETED", q)
    BY <1>6, <2>1
  <2>7. /\ \A e \in E : \A q, g : OwnerGone(e, q, g) <=> e.id1 = g
        /\ \A e \in E : \A k, q : GeometryGone(e, k, q) <=> e.id1 = k[1]
    BY <1>6, <2>1
  <2>9. /\ \A e \in E : \A f, r : FileGone(e, f, r) <=> e.id1 = r.generation
        /\ \A e \in E : \A r : ContentGone(e, r) <=> e.id1 = r.generation
    BY <1>6, <2>1
  <2>8. (\A e \in E : e.id1 \in G) /\ (\A g \in G : \E e \in E : e.id1 = g)
    BY <1>6
  <2>3. \A q, g : (\E e \in E : OwnerGone(e, q, g)) <=> g \in G
    BY <2>7, <2>8
  <2>4. \A k, q : (\E e \in E : GeometryGone(e, k, q)) <=> k[1] \in G
    BY <2>7, <2>8
  <2>5. \A f, r : (\E e \in E : FileGone(e, f, r)) <=> r.generation \in G
    BY <2>8, <2>9
  <2>6. \A r : (\E e \in E : ContentGone(e, r)) <=> r.generation \in G
    BY <2>8, <2>9
  <2> QED
    BY <2>2, <2>3, <2>4, <2>5, <2>6
<1>8. SweptParents(E)
  <2>1. producers' = producers /\ Kept(producers', producers)
    BY SameKept DEF deleteGenerationList
  <2>2. /\ generations' = Without(generations, G)
        /\ geometries' = geometries \ UNION {GeometriesOf("generation", g) : g \in G}
    BY DEF deleteGenerationList
  <2>3. /\ Kept(generations', generations)
        /\ \A g \in DOMAIN generations : g \notin DOMAIN generations' <=> g \in G
    BY <2>2, WithoutGoes
  <2>4. \A y \in geometries : y \notin geometries' <=> GeometryKey(y)[1] \in G
    BY <2>2 DEF GeometriesOf, GeometryKey
  <2> QED
    BY <1>7, <2>1, <2>2, <2>3, <2>4 DEF SweptParents
<1>9. SweptFiles(E)
  <2> DEFINE F == UNION {FilesOfGeneration(g) : g \in G}
  <2>1. files' = Without(files, F)
    BY DEF deleteGenerationList, DeleteFiles
  <2>5. \A f \in DOMAIN files : f \in F <=> files[f].generation \in G
    <3>1. \A f : f \in F <=> \E g \in G : f \in FilesOfGeneration(g)
      OBVIOUS
    <3> HIDE DEF F
    <3> QED
      BY <3>1 DEF FilesOfGeneration
  <2> HIDE DEF F
  <2>6. Kept(files', files) /\ \A f \in DOMAIN files : f \notin DOMAIN files' <=> f \in F
    BY <2>1, WithoutGoes
  <2>2. /\ Kept(files', files)
        /\ \A f \in DOMAIN files : f \notin DOMAIN files' <=> files[f].generation \in G
    BY <2>5, <2>6
  <2>3. content' = content \ UNION {ByGeneration(g) : g \in G}
    BY ContentGoes DEF deleteGenerationList, ByGeneration
  <2>4. /\ content' \subseteq content
        /\ \A r \in content : r \notin content' <=> r.generation \in G
    BY <2>3 DEF ByGeneration
  <2> QED
    BY <1>7, <2>2, <2>4 DEF SweptFiles
<1>10. Swept(E)
  <2>1. UNCHANGED <<producerCounter, generationCounter>>
    BY DEF deleteGenerationList, counters
  <2>2. \A e \in E : e.type \in Removers /\ e.type = "GENERATION_DELETED" /\ e.id1 \in 1..generationCounter
    BY <1>6 DEF Removers
  <2> QED
    BY <1>8, <1>9, <2>1, <2>2 DEF Swept
<1> QED
  BY <1>5, <1>10, SweptTold DEF Called

\* A geometry goes, and its content.
LEMMA GeometrySwept ==
  ASSUME StorageInv, StorageFits, StorageFits', NEW g, NEW k \in Geometries, k[2] = 0,
         deleteGeometryInfoById(g, k)
  PROVE  Called
<1> DEFINE e == GeometryEvent("GEOMETRY_DELETED", g, k)
<1>1. e.type = "GEOMETRY_DELETED" /\ e.id1 = g /\ e.id2 = k[1] /\ EventGeometry(e) = <<g, k>>
  <2>1. k = <<k[1], k[2]>>
    BY StorageAssumption
  <2> QED
    BY <2>1 DEF GeometryEvent, Event, EventGeometry
<1>2. /\ DeleteContent(ByGeometry(g, k))
      /\ geometries' = geometries \ GeometriesAt(g, k)
      /\ Announced({e})
      /\ UNCHANGED <<producers, generations, files, producerCounter, generationCounter>>
  BY OneAnnounced DEF deleteGeometryInfoById, counters
<1>3. content' = content \ ByGeometry(g, k)
  BY <1>2, ContentGoes DEF ByGeometry, ByGeneration
<1> HIDE DEF e
<1>4. /\ \A q : ~Of(e, "PRODUCER_DELETED", q)
      /\ \A q, h : ~OwnerGone(e, q, h)
      /\ \A j, q : GeometryGone(e, j, q) <=> j = <<g, k>>
      /\ \A f, r : ~FileGone(e, f, r)
      /\ \A r : ContentGone(e, r) <=> r.generation = g /\ GeometryOf[r.message][1] = k[1]
  BY <1>1 DEF Of, OwnerGone, GeometryGone, GeometryTold, FileGone, ContentGone, ContentTold
<1>5. /\ Kept(producers', producers) /\ \A x \in DOMAIN producers : x \in DOMAIN producers'
      /\ Kept(generations', generations) /\ \A x \in DOMAIN generations : x \in DOMAIN generations'
      /\ Kept(files', files) /\ \A x \in DOMAIN files : x \in DOMAIN files'
  BY <1>2, SameKept
<1>6. \A y \in geometries : y \notin geometries' <=> GeometryKey(y) = <<g, k>>
  BY <1>2 DEF GeometriesAt
<1>7. \A r \in content : r \notin content' <=> r.generation = g /\ GeometryOf[r.message][1] = k[1]
  BY <1>3 DEF ByGeometry, ByGeneration
<1>8. e.type \in Removers /\ geometries' \subseteq geometries /\ content' \subseteq content
  BY <1>1, <1>2, <1>3 DEF Removers
<1>9. Swept({e})
  BY <1>1, <1>2, <1>4, <1>5, <1>6, <1>7, <1>8, OneSwept
<1> QED
  BY <1>2, <1>9, SweptTold DEF Called

\* The geometries of a generation or of a producer go.
LEMMA GeometriesSwept ==
  ASSUME StorageFits, StorageFits', NEW x, NEW type, NEW field,
         \/ type = "GEOMETRY_LIST_DELETED_BY_GENERATION_ID" /\ field = "generation"
         \/ type = "GEOMETRY_LIST_DELETED_BY_PRODUCER_ID" /\ field = "producer",
         geometries' = geometries \ GeometriesOf(field, x),
         Announce(<<Event(type, x, 0, 0)>>),
         UNCHANGED <<producers, generations, files, content, producerCounter, generationCounter>>
  PROVE  Called
<1> DEFINE e == Event(type, x, 0, 0)
<1>1. e.type = type /\ e.id1 = x
  BY DEF Event
<1>2. Announced({e})
  BY OneAnnounced
<1> HIDE DEF e
<1>3. /\ \A q : ~Of(e, "PRODUCER_DELETED", q)
      /\ \A q, h : ~OwnerGone(e, q, h)
      /\ \A f, r : ~FileGone(e, f, r)
      /\ \A r : ~ContentGone(e, r)
  BY <1>1 DEF Of, OwnerGone, FileGone, ContentGone, ContentTold
<1>4. \A y \in geometries : y \notin geometries' <=> GeometryGone(e, GeometryKey(y), y.producer)
  <2>1. \A y \in geometries : y \notin geometries' <=> y[field] = x
    BY DEF GeometriesOf
  <2>2. ASSUME NEW y \in geometries
        PROVE  GeometryGone(e, GeometryKey(y), y.producer) <=> y[field] = x
    BY <1>1, <1>3 DEF GeometryGone, GeometryTold, Of, GeometryKey
  <2> QED
    BY <2>1, <2>2
<1>5. /\ Kept(producers', producers) /\ \A z \in DOMAIN producers : z \in DOMAIN producers'
      /\ Kept(generations', generations) /\ \A z \in DOMAIN generations : z \in DOMAIN generations'
      /\ Kept(files', files) /\ \A z \in DOMAIN files : z \in DOMAIN files'
  BY SameKept
<1>6. e.type \in Removers /\ geometries' \subseteq geometries
  BY <1>1 DEF Removers
<1>7. Swept({e})
  BY <1>1, <1>3, <1>4, <1>5, <1>6, OneSwept
<1> QED
  BY <1>2, <1>7, SweptTold DEF Called

\* Files and content go, and nothing else.
FileRemovers ==
  {"FILE_DELETED", "FILE_LIST_DELETED_BY_PRODUCER_ID", "FILE_LIST_DELETED_BY_GENERATION_ID",
   "CONTENT_LIST_DELETED_BY_FILE_ID", "CONTENT_LIST_DELETED_BY_PRODUCER_ID",
   "CONTENT_LIST_DELETED_BY_GENERATION_ID", "CONTENT_DELETED"}

LEMMA FilesSwept ==
  ASSUME StorageFits, StorageFits', NEW E, Announced(E),
         UNCHANGED <<parents, producerCounter, generationCounter>>,
         \A e \in E : e.type \in FileRemovers, SweptFiles(E)
  PROVE  Called
<1>1. ASSUME NEW e \in E
      PROVE  /\ \A q : ~Of(e, "PRODUCER_DELETED", q)
             /\ \A q, h : ~OwnerGone(e, q, h)
             /\ \A k, q : ~GeometryGone(e, k, q)
             /\ e.type \in Removers /\ e.type \notin {"PRODUCER_DELETED", "GENERATION_DELETED"}
  BY DEF FileRemovers, Of, OwnerGone, GeometryGone, GeometryTold, Removers
<1>2. /\ Kept(producers', producers) /\ \A z \in DOMAIN producers : z \in DOMAIN producers'
      /\ Kept(generations', generations) /\ \A z \in DOMAIN generations : z \in DOMAIN generations'
      /\ geometries' = geometries
  BY SameKept DEF parents
<1>3. SweptParents(E)
  BY <1>1, <1>2 DEF SweptParents
<1>4. Swept(E)
  BY <1>1, <1>3 DEF Swept
<1> QED
  BY <1>4, SweptTold DEF Called

LEMMA OneFilesSwept ==
  ASSUME StorageInv, StorageFits, StorageFits', NEW e, Announce(<<e>>),
         UNCHANGED <<parents, producerCounter, generationCounter>>,
         e.type \in FileRemovers,
         NEW F, files' = Without(files, F) \/ (UNCHANGED files /\ F = {}),
         \A f \in DOMAIN files : FileGone(e, f, files[f]) <=> f \in F,
         NEW list \in SUBSET content, DeleteContent(list),
         \A r \in content : ContentGone(e, r) <=> r \in list
  PROVE  Called
<1>1. Announced({e})
  BY OneAnnounced
<1>2. content' = content \ list
  BY ContentGoes
<1>3. /\ Kept(files', files)
      /\ \A f \in DOMAIN files : f \notin DOMAIN files' <=> f \in F
  <2>1. CASE files' = Without(files, F)
    BY <2>1, WithoutGoes
  <2>2. CASE UNCHANGED files /\ F = {}
    BY <2>2, SameKept
  <2> QED
    BY <2>1, <2>2
<1>4. SweptFiles({e})
  BY <1>2, <1>3 DEF SweptFiles
<1> QED
  BY <1>1, <1>4, FilesSwept

LEMMA FileSwept ==
  ASSUME StorageInv, StorageFits, StorageFits', NEW f \in DOMAIN files, DeleteContent(ByFile(f)),
         files' = Without(files, {f}), Announce(<<Event("FILE_DELETED", f, 0, 0)>>),
         UNCHANGED <<parents, producerCounter, generationCounter>>
  PROVE  Called
<1> DEFINE e == Event("FILE_DELETED", f, 0, 0)
           F == {f}
           list == ByFile(f)
<1>1. e.type = "FILE_DELETED" /\ e.id1 = f
  BY DEF Event
<1>4. /\ DeleteContent(list) /\ files' = Without(files, F) /\ Announce(<<e>>)
      /\ \A x : x \in F <=> x = f
  OBVIOUS
<1> HIDE DEF e, F
<1>2. /\ \A x, r : FileGone(e, x, r) <=> x = f
      /\ \A r : ContentGone(e, r) <=> r.file = f
      /\ e.type \in FileRemovers
  BY <1>1 DEF Of, OwnerGone, FileGone, ContentGone, ContentTold, FileRemovers
<1>3. list \in SUBSET content /\ \A r \in content : r \in list <=> r.file = f
  BY DEF ByFile
<1> HIDE DEF list
<1> QED
  BY <1>2, <1>3, <1>4, OneFilesSwept

LEMMA FilesOfOwnerSwept ==
  ASSUME StorageInv, StorageFits, StorageFits', NEW x,
         deleteFilesOfProducer(x) \/ deleteFilesOfGeneration(x)
  PROVE  Called
<1>1. CASE deleteFilesOfProducer(x)
  <2> DEFINE e == Event("FILE_LIST_DELETED_BY_PRODUCER_ID", x, 0, 0)
             F == FilesOfProducer(x)
             list == ByProducer(x)
  <2>1. e.type = "FILE_LIST_DELETED_BY_PRODUCER_ID" /\ e.id1 = x
    BY DEF Event
  <2>2. /\ DeleteContent(list) /\ files' = Without(files, F) /\ Announce(<<e>>)
        /\ UNCHANGED <<parents, producerCounter, generationCounter>>
    BY <1>1 DEF deleteFilesOfProducer, DeleteFiles, counters
  <2> HIDE DEF e
  <2>3. /\ \A f, r : FileGone(e, f, r) <=> r.producer = x
        /\ \A r : ContentGone(e, r) <=> r.producer = x
        /\ e.type \in FileRemovers
    BY <2>1 DEF Of, OwnerGone, FileGone, ContentGone, ContentTold, FileRemovers
  <2>4. /\ list \in SUBSET content /\ \A r \in content : r \in list <=> r.producer = x
        /\ \A f \in DOMAIN files : f \in F <=> files[f].producer = x
    BY DEF ByProducer, FilesOfProducer
  <2> HIDE DEF F, list
  <2> QED
    BY <2>2, <2>3, <2>4, OneFilesSwept
<1>2. CASE deleteFilesOfGeneration(x)
  <2> DEFINE e == Event("FILE_LIST_DELETED_BY_GENERATION_ID", x, 0, 0)
             F == FilesOfGeneration(x)
             list == ByGeneration(x)
  <2>1. e.type = "FILE_LIST_DELETED_BY_GENERATION_ID" /\ e.id1 = x
    BY DEF Event
  <2>2. /\ DeleteContent(list) /\ files' = Without(files, F) /\ Announce(<<e>>)
        /\ UNCHANGED <<parents, producerCounter, generationCounter>>
    BY <1>2 DEF deleteFilesOfGeneration, DeleteFiles, counters
  <2> HIDE DEF e
  <2>3. /\ \A f, r : FileGone(e, f, r) <=> r.generation = x
        /\ \A r : ContentGone(e, r) <=> r.generation = x
        /\ e.type \in FileRemovers
    BY <2>1 DEF Of, OwnerGone, FileGone, ContentGone, ContentTold, FileRemovers
  <2>4. /\ list \in SUBSET content /\ \A r \in content : r \in list <=> r.generation = x
        /\ \A f \in DOMAIN files : f \in F <=> files[f].generation = x
    BY DEF ByGeneration, FilesOfGeneration
  <2> HIDE DEF F, list
  <2> QED
    BY <2>2, <2>3, <2>4, OneFilesSwept
<1> QED
  BY <1>1, <1>2

LEMMA FileListSwept ==
  ASSUME StorageInv, StorageFits, StorageFits', NEW F, deleteFileInfoListByFileIdList(F)
  PROVE  Called
<1> DEFINE h == [f \in F |-> Event("FILE_DELETED", f, 0, 0)]
           E == {h[f] : f \in F}
<1>1. E = {Event("FILE_DELETED", f, 0, 0) : f \in F}
  OBVIOUS
<1>2. IsFiniteSet(F)
  BY FilesFinite DEF deleteFileInfoListByFileIdList, StorageFits, Typed
<1>3. \A f \in F : h[f].type = "FILE_DELETED" /\ h[f].id1 = f
  BY DEF Event
<1>11. DOMAIN h = F
  OBVIOUS
<1> HIDE DEF h
<1>4. IsFiniteSet(E)
  BY <1>2, <1>11, ImageFinite
<1>5. Announced(E)
  BY <1>1, <1>4, SomeAnnounced DEF deleteFileInfoListByFileIdList
<1>6. /\ \A e \in E : e.type = "FILE_DELETED" /\ e.id1 \in F
      /\ \A f \in F : \E e \in E : e.type = "FILE_DELETED" /\ e.id1 = f
  BY <1>3
<1> HIDE DEF E
<1>7. /\ \A f, r : (\E e \in E : FileGone(e, f, r)) <=> f \in F
      /\ \A r : (\E e \in E : ContentGone(e, r)) <=> r.file \in F
  <2>1. ASSUME NEW e, e.type = "FILE_DELETED"
        PROVE  /\ \A f, r : FileGone(e, f, r) <=> e.id1 = f
               /\ \A r : ContentGone(e, r) <=> e.id1 = r.file
    BY <2>1 DEF Of, OwnerGone, FileGone, ContentGone, ContentTold
  <2> QED
    BY <1>6, <2>1
<1>8. SweptFiles(E)
  <2>1. files' = Without(files, F)
    BY DEF deleteFileInfoListByFileIdList, DeleteFiles
  <2>2. /\ Kept(files', files)
        /\ \A f \in DOMAIN files : f \notin DOMAIN files' <=> f \in F
    BY <2>1, WithoutGoes
  <2>3. content' = content \ UNION {ByFile(f) : f \in F}
    BY ContentGoes DEF deleteFileInfoListByFileIdList, ByFile
  <2>4. /\ content' \subseteq content
        /\ \A r \in content : r \notin content' <=> r.file \in F
    BY <2>3 DEF ByFile
  <2> QED
    BY <1>7, <2>2, <2>4 DEF SweptFiles
<1>9. UNCHANGED <<parents, producerCounter, generationCounter>>
  BY DEF deleteFileInfoListByFileIdList, counters
<1>10. \A e \in E : e.type \in FileRemovers
  BY <1>6 DEF FileRemovers
<1> QED
  BY <1>5, <1>8, <1>9, <1>10, FilesSwept

LEMMA ContentSwept ==
  ASSUME StorageInv, StorageFits, StorageFits', NEW e, Announce(<<e>>),
         UNCHANGED <<parents, files, producerCounter, generationCounter>>,
         e.type \in FileRemovers, \A x, r : ~FileGone(e, x, r),
         NEW list \in SUBSET content, DeleteContent(list),
         \A r \in content : ContentGone(e, r) <=> r \in list
  PROVE  Called
<1>1. PICK F : F = {}
  OBVIOUS
<1>2. F = {} /\ \A f : f \notin F
  BY <1>1
<1>3. \A f \in DOMAIN files : FileGone(e, f, files[f]) <=> f \in F
  BY <1>2
<1> QED
  BY <1>2, <1>3, OneFilesSwept

LEMMA ContentDeleted ==
  ASSUME StorageInv, StorageFits, StorageFits', NEW f, NEW m, deleteContentInfo(f, m)
  PROVE  Called
<1> DEFINE e == Event("CONTENT_DELETED", f, m, 0)
           list == {r \in content : Key(r) = <<f, m>>}
<1>1. e.type = "CONTENT_DELETED" /\ <<e.id1, e.id2>> = <<f, m>>
  BY DEF Event
<1>2. /\ content' = {r \in content : Key(r) # <<f, m>>} /\ Announce(<<e>>)
      /\ UNCHANGED <<parents, files, producerCounter, generationCounter>>
  BY DEF deleteContentInfo, counters
<1>3. DeleteContent(list)
  BY <1>2 DEF DeleteContent
<1> HIDE DEF e
<1>4. /\ \A x, r : ~FileGone(e, x, r)
      /\ \A r : ContentGone(e, r) <=> Key(r) = <<f, m>>
      /\ e.type \in FileRemovers
  BY <1>1 DEF Of, OwnerGone, FileGone, ContentGone, ContentTold, FileRemovers
<1>5. list \in SUBSET content /\ \A r \in content : r \in list <=> Key(r) = <<f, m>>
  OBVIOUS
<1> HIDE DEF list
<1> QED
  BY <1>2, <1>3, <1>4, <1>5, ContentSwept

\* The content of a file, a producer or a generation goes.
LEMMA ContentListDeleted ==
  ASSUME StorageInv, StorageFits, StorageFits', NEW x, NEW type, NEW field, NEW list,
         \/ type = "CONTENT_LIST_DELETED_BY_FILE_ID" /\ field = "file"
         \/ type = "CONTENT_LIST_DELETED_BY_PRODUCER_ID" /\ field = "producer"
         \/ type = "CONTENT_LIST_DELETED_BY_GENERATION_ID" /\ field = "generation",
         list = {r \in content : r[field] = x},
         DeleteContent(list), Announce(<<Event(type, x, 0, 0)>>),
         UNCHANGED <<parents, files, producerCounter, generationCounter>>
  PROVE  Called
<1> DEFINE e == Event(type, x, 0, 0)
<1>1. e.type = type /\ e.id1 = x
  BY DEF Event
<1>2. Announce(<<e>>)
  OBVIOUS
<1> HIDE DEF e
<1>3. /\ \A f, r : ~FileGone(e, f, r)
      /\ \A r : ContentGone(e, r) <=> r[field] = x
      /\ e.type \in FileRemovers
  BY <1>1 DEF Of, OwnerGone, FileGone, ContentGone, ContentTold, FileRemovers
<1>4. list \in SUBSET content /\ \A r \in content : r \in list <=> r[field] = x
  OBVIOUS
<1> QED
  BY <1>2, <1>3, <1>4, ContentSwept

\* Every call of the steady clients announces all that it does to the tables.
LEMMA CallsTold ==
  ASSUME SteadyClients, StorageInv, StorageInv', LogOK(eventLog), StorageCall
  PROVE  Called
<1>0. /\ RegisterOnce
      /\ StorageFits /\ StorageFits'
      /\ Operations \cap
           {"setProducerInfo", "setGenerationInfo", "setFileInfo",
            "addContentInfo", "addContentList", "addFileInfoListWithContent",
            "deleteFileInfoListByGenerationIdAndForecastTime",
            "deleteFileInfoListByForecastTimeList"} = {}
      /\ "deleteGeometryInfoById" \in Operations => \A k \in Geometries : k[2] = 0
  <2>1. StorageFits
    BY StorageInvFits
  <2>2. StorageFits'
    BY StorageInvFits, PTL
  <2> QED
    BY <2>1, <2>2 DEF SteadyClients
<1>1. CASE ProducerCalls
  <2>1. ASSUME NEW name, addProducerInfo(name) PROVE Called
    BY <1>0, <2>1, ProducerComes
  <2>2. ASSUME NEW p, NEW name, setProducerInfo(p, name) PROVE Called
    BY <1>0, <2>2 DEF setProducerInfo, Call
  <2>3. ASSUME NEW p, deleteProducerInfoById(p) PROVE Called
    BY <1>0, <2>3, ProducerSwept DEF deleteProducerInfoById
  <2>4. ASSUME NEW name, deleteProducerInfoByName(name) PROVE Called
    BY <1>0, <2>4, ProducerSwept DEF deleteProducerInfoByName, ProducersNamed
  <2> QED
    BY <1>1, <2>1, <2>2, <2>3, <2>4 DEF ProducerCalls
<1>2. CASE GenerationCalls
  <2>1. ASSUME NEW p, NEW name, NEW status, addGenerationInfo(p, name, status) PROVE Called
    BY <1>0, <2>1, GenerationComes
  <2>2. ASSUME NEW g, NEW p, NEW name, NEW status, setGenerationInfo(g, p, name, status)
        PROVE  Called
    BY <1>0, <2>2 DEF setGenerationInfo, Call
  <2>3. ASSUME NEW g, NEW status, setGenerationInfoStatusById(g, status) PROVE Called
    BY <1>0, <2>3, GenerationStatusSet DEF setGenerationInfoStatusById
  <2>4. ASSUME NEW name, NEW status, setGenerationInfoStatusByName(name, status) PROVE Called
    BY <1>0, <2>4, GenerationStatusSet DEF setGenerationInfoStatusByName, GenerationsNamed
  <2>5. DOMAIN generations \subseteq 1..generationCounter
    BY <1>0 DEF StorageFits
  <2>6. ASSUME NEW g \in DOMAIN generations, deleteGenerationList({g}) PROVE Called
    BY <1>0, <2>5, <2>6, GenerationsSwept
  <2>7. ASSUME NEW G \in SUBSET (1..generationCounter), deleteGenerationInfoListByIdList(G)
        PROVE  Called
    BY <1>0, <2>7, GenerationsSwept DEF deleteGenerationInfoListByIdList
  <2>8. ASSUME NEW p, deleteGenerationsOfProducer(p) PROVE Called
    BY <1>0, <2>8, GenerationsOfProducerSwept
  <2> QED
    BY <1>2, <2>1, <2>2, <2>3, <2>4, <2>6, <2>7, <2>8
       DEF GenerationCalls, deleteGenerationInfoById, deleteGenerationInfoByName,
           GenerationsNamed, deleteGenerationInfoListByProducerId,
           deleteGenerationInfoListByProducerName
<1>3. CASE GeometryCalls
  <2>1. ASSUME NEW g, NEW k \in Geometries, NEW status,
               addGeometryInfo(g, k, status) \/ setGeometryInfo(g, k, status)
        PROVE  Called
    BY <1>0, <2>1, GeometryAddedOrSet
  <2>2. ASSUME NEW g, NEW k \in Geometries, NEW status, setGeometryInfoStatusById(g, k, status)
        PROVE  Called
    BY <1>0, <2>2, GeometryStatusChanged
  <2>3. ASSUME NEW g, NEW k \in Geometries, deleteGeometryInfoById(g, k) PROVE Called
    <3>1. k[2] = 0
      BY <1>0, <2>3 DEF deleteGeometryInfoById, Call
    <3> QED
      BY <1>0, <2>3, <3>1, GeometrySwept
  <2>4. ASSUME NEW g, deleteGeometryInfoListByGenerationId(g) PROVE Called
    <3>1. /\ geometries' = geometries \ GeometriesOf("generation", g)
          /\ Announce(<<Event("GEOMETRY_LIST_DELETED_BY_GENERATION_ID", g, 0, 0)>>)
          /\ UNCHANGED <<producers, generations, files, content, producerCounter,
                         generationCounter>>
      BY <2>4 DEF deleteGeometryInfoListByGenerationId, counters
    <3> QED
      BY <1>0, <3>1, GeometriesSwept
  <2>5. ASSUME NEW p, deleteGeometryInfoListByProducerId(p) PROVE Called
    <3>1. /\ geometries' = geometries \ GeometriesOf("producer", p)
          /\ Announce(<<Event("GEOMETRY_LIST_DELETED_BY_PRODUCER_ID", p, 0, 0)>>)
          /\ UNCHANGED <<producers, generations, files, content, producerCounter,
                         generationCounter>>
      BY <2>5 DEF deleteGeometryInfoListByProducerId, counters
    <3> QED
      BY <1>0, <3>1, GeometriesSwept
  <2> QED
    BY <1>3, <2>1, <2>2, <2>3, <2>4, <2>5 DEF GeometryCalls
<1>4. CASE FileCalls
  <2>1. ASSUME NEW name \in FileNames, NEW g \in DOMAIN generations, addFileInfo(name, g)
        PROVE  Called
    BY <1>0, <2>1, FileAddedTold
  <2>2. ASSUME NEW f, NEW name, NEW g, setFileInfo(f, name, g) PROVE Called
    BY <1>0, <2>2 DEF setFileInfo, Call
  <2>3. ASSUME NEW name \in FileNames, NEW g \in DOMAIN generations, NEW list \in ContentLists,
               addFileInfoWithContentList(name, g, list)
        PROVE  Called
    BY <1>0, <2>3, FileWithContentTold
  <2>4. ASSUME NEW name \in FileNames, NEW g \in DOMAIN generations, NEW list \in ContentLists,
               NEW replace \in BOOLEAN, addFileInfoListWithContent(name, g, list, replace)
        PROVE  Called
    <3>1. replace = TRUE
      BY <1>0, <2>4 DEF addFileInfoListWithContent, Call
    <3> QED
      BY <1>0, <2>4, <3>1, FileListTold
  <2>5. ASSUME NEW f, deleteFileInfoById(f) PROVE Called
    <3>1. /\ f \in DOMAIN files /\ DeleteContent(ByFile(f)) /\ files' = Without(files, {f})
          /\ Announce(<<Event("FILE_DELETED", f, 0, 0)>>)
          /\ UNCHANGED <<parents, producerCounter, generationCounter>>
      BY <2>5 DEF deleteFileInfoById, DeleteFiles, counters
    <3> QED
      BY <1>0, <3>1, FileSwept
  <2>6. ASSUME NEW name, deleteFileInfoByName(name) PROVE Called
    <3> DEFINE f == filenames[name]
    <3>1. UNCHANGED <<parents, producerCounter, generationCounter>>
      BY <2>6 DEF deleteFileInfoByName, counters
    <3>2. \/ UNCHANGED <<files, content, eventLog>>
          \/ /\ f \in DOMAIN files /\ DeleteContent(ByFile(f)) /\ files' = Without(files, {f})
             /\ Announce(<<Event("FILE_DELETED", f, 0, 0)>>)
      BY <2>6 DEF deleteFileInfoByName
    <3> HIDE DEF f
    <3>3. CASE UNCHANGED <<files, content, eventLog>>
      BY <1>0, <3>1, <3>3, NothingTold DEF parents
    <3> QED
      BY <1>0, <3>1, <3>2, <3>3, FileSwept
  <2>7. ASSUME NEW F, deleteFileInfoListByFileIdList(F) PROVE Called
    BY <1>0, <2>7, FileListSwept
  <2>8. ASSUME NEW x, deleteFilesOfProducer(x) \/ deleteFilesOfGeneration(x) PROVE Called
    BY <1>0, <2>8, FilesOfOwnerSwept
  <2>9. ASSUME NEW g, NEW d,
               \/ deleteFileInfoListByGenerationIdAndForecastTime(g, d)
               \/ deleteFileInfoListByForecastTimeList(g, d)
        PROVE  Called
    BY <1>0, <2>9
       DEF deleteFileInfoListByGenerationIdAndForecastTime,
           deleteFileInfoListByForecastTimeList, Call
  <2> QED
    BY <1>4, <2>1, <2>2, <2>3, <2>4, <2>5, <2>6, <2>7, <2>8, <2>9
       DEF FileCalls, deleteFileInfoListByProducerId, deleteFileInfoListByProducerName,
           deleteFileInfoListByGenerationId, deleteFileInfoListByGenerationName
<1>5. CASE ContentCalls
  <2>1. ASSUME NEW f, NEW m, NEW d, addContentInfo(f, m, d) PROVE Called
    BY <1>0, <2>1 DEF addContentInfo, Call
  <2>2. ASSUME NEW f, NEW m, NEW d, setContentInfo(f, m, d) PROVE Called
    BY <1>0, <2>2, ContentSet
  <2>3. ASSUME NEW f, NEW list, addContentList(f, list) PROVE Called
    BY <1>0, <2>3 DEF addContentList, Call
  <2>4. ASSUME NEW f, NEW m, deleteContentInfo(f, m) PROVE Called
    BY <1>0, <2>4, ContentDeleted
  <2>5. ASSUME NEW f, deleteContentOfFile(f) PROVE Called
    <3>1. /\ DeleteContent(ByFile(f)) /\ ByFile(f) = {r \in content : r["file"] = f}
          /\ Announce(<<Event("CONTENT_LIST_DELETED_BY_FILE_ID", f, 0, 0)>>)
          /\ UNCHANGED <<parents, files, producerCounter, generationCounter>>
      BY <2>5 DEF deleteContentOfFile, counters, ByFile
    <3> QED
      BY <1>0, <3>1, ContentListDeleted
  <2>6. ASSUME NEW p, deleteContentOfProducer(p) PROVE Called
    <3>1. /\ DeleteContent(ByProducer(p)) /\ ByProducer(p) = {r \in content : r["producer"] = p}
          /\ Announce(<<Event("CONTENT_LIST_DELETED_BY_PRODUCER_ID", p, 0, 0)>>)
          /\ UNCHANGED <<parents, files, producerCounter, generationCounter>>
      BY <2>6 DEF deleteContentOfProducer, counters, ByProducer
    <3> QED
      BY <1>0, <3>1, ContentListDeleted
  <2>7. ASSUME NEW g, deleteContentOfGeneration(g) PROVE Called
    <3>1. /\ DeleteContent(ByGeneration(g))
          /\ ByGeneration(g) = {r \in content : r["generation"] = g}
          /\ Announce(<<Event("CONTENT_LIST_DELETED_BY_GENERATION_ID", g, 0, 0)>>)
          /\ UNCHANGED <<parents, files, producerCounter, generationCounter>>
      BY <2>7 DEF deleteContentOfGeneration, counters, ByGeneration
    <3> QED
      BY <1>0, <3>1, ContentListDeleted
  <2> QED
    BY <1>5, <2>1, <2>2, <2>3, <2>4, <2>5, <2>6, <2>7
       DEF ContentCalls, deleteContentListByFileId, deleteContentListByFileName,
           deleteContentListByProducerId, deleteContentListByProducerName,
           deleteContentListByGenerationId, deleteContentListByGenerationName
<1> QED
  BY <1>1, <1>2, <1>3, <1>4, <1>5 DEF StorageCall

-----------------------------------------------------------------------------
(* A step of the storage.                                                   *)

LEMMA CallsWait == StorageCall => ~clearing /\ UNCHANGED clearing
<1>1. ProducerCalls => ~clearing /\ UNCHANGED clearing
  BY DEF ProducerCalls, Call,
         addProducerInfo, setProducerInfo, deleteProducerInfoById,
         deleteProducerInfoByName
<1>2. GenerationCalls => ~clearing /\ UNCHANGED clearing
  BY DEF GenerationCalls, Call,
         addGenerationInfo, setGenerationInfo, setGenerationInfoStatusById,
         setGenerationInfoStatusByName, deleteGenerationInfoById,
         deleteGenerationInfoByName, deleteGenerationInfoListByIdList,
         deleteGenerationInfoListByProducerId, deleteGenerationInfoListByProducerName
<1>3. GeometryCalls => ~clearing /\ UNCHANGED clearing
  BY DEF GeometryCalls, Call,
         addGeometryInfo, setGeometryInfo, setGeometryInfoStatusById,
         deleteGeometryInfoById, deleteGeometryInfoListByGenerationId,
         deleteGeometryInfoListByProducerId
<1>4. FileCalls => ~clearing /\ UNCHANGED clearing
  <2>0. \A operation : Call(operation) => ~clearing /\ UNCHANGED clearing
    BY DEF Call
  <2>1. ASSUME NEW name, NEW g, NEW f, NEW list,
               addFileInfo(name, g) \/ setFileInfo(f, name, g) \/ addFileInfoWithContentList(name, g, list)
        PROVE  ~clearing /\ UNCHANGED clearing
    BY <2>0, <2>1 DEF addFileInfo, setFileInfo, addFileInfoWithContentList
  <2>2. ASSUME NEW name, NEW g, NEW list, NEW replace,
               addFileInfoListWithContent(name, g, list, replace)
        PROVE  ~clearing /\ UNCHANGED clearing
    BY <2>0, <2>2 DEF addFileInfoListWithContent
  <2>3. ASSUME NEW f, NEW name, NEW F, NEW g, NEW d, NEW p,
               \/ deleteFileInfoById(f) \/ deleteFileInfoByName(name)
               \/ deleteFileInfoListByFileIdList(F)
               \/ deleteFileInfoListByProducerId(p) \/ deleteFileInfoListByProducerName(name)
               \/ deleteFileInfoListByGenerationName(name) \/ deleteFileInfoListByGenerationId(g)
        PROVE  ~clearing /\ UNCHANGED clearing
    BY <2>0, <2>3
    DEF deleteFileInfoById, deleteFileInfoByName, deleteFileInfoListByFileIdList,
        deleteFileInfoListByProducerId, deleteFileInfoListByProducerName,
        deleteFileInfoListByGenerationName, deleteFileInfoListByGenerationId
  <2>4. ASSUME NEW g, NEW d,
               \/ deleteFileInfoListByGenerationIdAndForecastTime(g, d)
               \/ deleteFileInfoListByForecastTimeList(g, d)
        PROVE  ~clearing /\ UNCHANGED clearing
    BY <2>0, <2>4
    DEF deleteFileInfoListByGenerationIdAndForecastTime, deleteFileInfoListByForecastTimeList
  <2> QED
    BY <2>1, <2>2, <2>3, <2>4 DEF FileCalls
<1>5. ContentCalls => ~clearing /\ UNCHANGED clearing
  BY DEF ContentCalls, Call,
         addContentInfo, setContentInfo, addContentList, deleteContentInfo,
         deleteContentListByFileId, deleteContentListByFileName,
         deleteContentListByProducerId, deleteContentListByProducerName,
         deleteContentListByGenerationId, deleteContentListByGenerationName
<1> QED
  BY <1>1, <1>2, <1>3, <1>4, <1>5 DEF StorageCall

\* Only the object that the cache asks clears, and only then there is a clear().
ClearingOK == clearing => "clear" \in Operations

LEMMA ClearingStep == ASSUME ClearingOK, [Next]_vars PROVE ClearingOK'
<1>1. CASE StorageCall
  BY <1>1, CallsWait DEF ClearingOK
<1>2. CASE ClearAnnounce \/ Restart
  BY <1>2 DEF ClearingOK, ClearAnnounce, Restart
<1>3. CASE FinishClear
  BY <1>3 DEF ClearingOK, FinishClear, ClearDelete
<1>4. CASE UNCHANGED storageVars
  BY <1>4 DEF ClearingOK, storageVars
<1> QED
  BY <1>1, <1>2, <1>3, <1>4 DEF Next, StorageStep, CacheStep, vars

\* What the log keeps by the hypothesis, in one step.
LogKept ==
  ~clearing => \A k \in NewEvents \cup (eventLog.counter + 1)..eventLog'.counter :
                 k \in DOMAIN eventLog'.events

LEMMA ToldStep ==
  ASSUME CacheInv, PageInOrder, Follows, UNCHANGED <<cacheVars, mStartTime>>,
         ~clearing, LogKept, Called
  PROVE  Follows'
<1>1. PICK E : Announced(E) /\ TablesTold(E)
  BY DEF Called
<1>2. UNCHANGED mLastProcessedEventId
  BY DEF cacheVars
<1>3. LogOK(eventLog) /\ mLastProcessedEventId \in 0..eventLog.counter
  BY DEF CacheInv, LogInv
<1>4. Grown(Pending, Pending', E)
  BY <1>1, <1>2, <1>3, PendingGrows DEF LogKept
<1> QED
  BY <1>1, <1>4, CalledFollows

\* A new start time leaves nothing to follow until the reload.
LEMMA RestartFollows ==
  ASSUME CacheInv, UNCHANGED cacheVars, mStartTime' = mStartTime + 1
  PROVE  Follows'
<1>1. /\ mStartTime \in Nat /\ mContentStorageStartTime \in 1..mStartTime
      /\ reload.time \in 1..mStartTime
  BY DEF CacheInv, TimesOK
<1>2. UNCHANGED <<mContentStorageStartTime, reload>>
  BY DEF cacheVars
<1>3. ~Synced'
  BY <1>1, <1>2 DEF Synced, Following
<1> QED
  BY <1>3 DEF Follows

LEMMA UntouchedFollows ==
  ASSUME UNCHANGED vars, Follows PROVE Follows'
<1>1. /\ UNCHANGED <<producers, generations, geometries, files, content, producerCounter,
                     generationCounter, eventLog, mStartTime, clearing>>
      /\ UNCHANGED cacheVars
  <2>1. UNCHANGED storageVars /\ UNCHANGED cacheVars
    BY DEF vars
  <2>2. UNCHANGED records /\ UNCHANGED counters /\ UNCHANGED <<eventLog, mStartTime, clearing>>
    BY <2>1 DEF storageVars
  <2> QED
    BY <2>1, <2>2 DEF records, parents, counters
<1>2. UNCHANGED <<primary, page, mLastProcessedEventId, mContentStorageStartTime, reload,
                  unread, kept>>
  BY <1>1 DEF cacheVars
<1>3. Synced' = Synced /\ Pending' = Pending
  BY <1>1, <1>2 DEF Synced, Following, Pending, NewEvents
<1>4. StorageTold(Pending)' <=> StorageTold(Pending)
  BY <1>1, <1>3 DEF StorageTold, TypesTold
<1>5. ListsFollow' <=> ListsFollow
  <2>1. \A t : HasRead(t)' <=> HasRead(t)
    BY <1>2 DEF HasRead, Following
  <2> QED
    BY <1>1, <1>2, <1>3, <2>1 DEF ListsFollow
<1> QED
  BY <1>1, <1>2, <1>3, <1>4, <1>5 DEF Follows

LEMMA StorageFollows ==
  ASSUME SteadyClients, CacheInv, PageInOrder, StorageInv, StorageInv', ClearingOK, Follows,
         StorageStep, LogKept
  PROVE  Follows'
<1>0. UNCHANGED cacheVars
  BY DEF StorageStep
<1>1. CASE StorageCall
  <2>1. ~clearing /\ UNCHANGED mStartTime
    BY <1>1, CallsWait, CallsKeepTime
  <2>2. Called
    BY <1>1, CallsTold DEF CacheInv, LogInv
  <2> QED
    BY <1>0, <2>1, <2>2, ToldStep
<1>2. CASE ClearAnnounce
  <2>1. ~clearing /\ UNCHANGED mStartTime
    BY <1>2 DEF ClearAnnounce
  <2>2. StorageFits /\ StorageFits'
    BY StorageInvFits, PTL
  <2>3. Called
    BY <1>2, <2>2, ClearTold
  <2> QED
    BY <1>0, <2>1, <2>3, ToldStep
<1>3. CASE FinishClear \/ Restart
  <2>1. mStartTime' = mStartTime + 1
    BY <1>3 DEF SteadyClients, ClearingOK, FinishClear, ClearDelete, Restart
  <2> QED
    BY <1>0, <2>1, RestartFollows
<1> QED
  BY <1>1, <1>2, <1>3 DEF StorageStep

-----------------------------------------------------------------------------
(* A reload starts, and everything has to be read.                          *)

LEMMA NothingPending ==
  ASSUME NEW log, DOMAIN log = {}
  PROVE  StorageTold(log)
BY DEF StorageTold, ProducersTold, GenerationsTold, GeometriesTold, FilesTold, ContentsTold,
       TypesTold

LEMMA NothingRead ==
  reload.phase = "producers" /\ DOMAIN Pending = {} /\ page = <<>> => Follows
<1> SUFFICES ASSUME reload.phase = "producers", DOMAIN Pending = {}, page = <<>>
             PROVE  Follows
  OBVIOUS
<1>1. StorageTold(Pending)
  BY NothingPending
<1>2. 1..Len(page) = {}
  OBVIOUS
<1>3. PageMatches(page, Pending) /\ PageFollows(page, content, files, Pending)
  BY <1>2 DEF PageMatches, PageFollows
<1>4. DOMAIN Phases = 1..5 /\ Phases[1] = "producers" /\ \A n \in 2..5 : Phases[n] # "producers"
  BY DEF Phases
<1>5. \A t : ~HasRead(t)
  <2> SUFFICES ASSUME NEW t, HasRead(t) PROVE FALSE
    OBVIOUS
  <2>1. PICK i, j \in DOMAIN Phases : Phases[j] = reload.phase /\ i < j
    BY DEF HasRead, Following
  <2>2. j \in 2..5
    BY <1>4, <2>1
  <2> QED
    BY <1>4, <2>1, <2>2
<1> QED
  BY <1>1, <1>3, <1>5 DEF Follows, ListsFollow

LEMMA FollowsInit == Init => Follows
<1> SUFFICES ASSUME Init PROVE Follows
  OBVIOUS
<1>1. reload.phase = "producers" /\ page = <<>> /\ mLastProcessedEventId = eventLog.counter
  BY DEF Init
<1>2. LogOK(eventLog)
  BY CacheInit DEF CacheInv, LogInv
<1>3. DOMAIN Pending = {}
  BY <1>1, <1>2 DEF LogOK, Pending, NewEvents
<1> QED
  BY <1>1, <1>3, NothingRead

LEMMA StartFollows ==
  ASSUME CacheInv, StartReload, UNCHANGED storageVars
  PROVE  Follows'
<1>1. reload.phase' = "producers" /\ page' = <<>> /\ mLastProcessedEventId' = LastEventId
      /\ UNCHANGED eventLog
  BY DEF StartReload, storageVars
<1>2. PICK lo \in 0..eventLog.counter :
        eventLog.counter \in Nat /\ DOMAIN eventLog.events = (lo + 1)..eventLog.counter
  BY DEF CacheInv, LogInv, LogOK
<1>3. \A k \in DOMAIN eventLog.events : ~(k > LastEventId)
  <2>1. CASE eventLog.counter \in DOMAIN eventLog.events
    BY <1>2, <2>1 DEF LastEventId, LastEventKnown
  <2>2. CASE eventLog.counter \notin DOMAIN eventLog.events
    BY <1>2, <2>2
  <2> QED
    BY <2>1, <2>2
<1>4. DOMAIN Pending' = {}
  BY <1>1, <1>3 DEF Pending, NewEvents
<1>5. (reload.phase = "producers" /\ DOMAIN Pending = {} /\ page = <<>>)'
  BY <1>1, <1>4
<1> QED
  BY <1>5, NothingRead, PTL

-----------------------------------------------------------------------------
(* updateContent() removes marked records, and leaves the live ones.         *)

Pruned(new, list) ==
  /\ Live(new) = Live(list)
  /\ \A k \in DOMAIN new : k \in DOMAIN list /\ new[k] = list[k]
  /\ \A k \in Marked(new) : k \in Marked(list)

LEMMA PrunedIs ==
  ASSUME NEW list
  PROVE  Pruned(list, list) /\ Pruned(Without(list, Marked(list)), list)
<1> DEFINE new == Without(list, Marked(list))
<1>1. DOMAIN new = DOMAIN list \ Marked(list) /\ \A k \in DOMAIN new : new[k] = list[k]
  BY DEF Without
<1> HIDE DEF new
<1>2. \A k : k \in Live(new) <=> k \in Live(list)
  BY <1>1, LiveIs
<1>3. Live(new) = Live(list)
  BY <1>2
<1>4. Pruned(new, list)
  BY <1>1, <1>3, LiveIs DEF Pruned
<1> QED
  BY <1>4 DEF new, Pruned

LEMMA PrunedFlagged == ASSUME NEW new, NEW list, Pruned(new, list), Flagged(list) PROVE Flagged(new)
BY DEF Pruned, Flagged

LEMMA ProducersPruned ==
  ASSUME NEW new, NEW list, Pruned(new, list), NEW P, NEW n, NEW log,
         ProducersFollow(list, P, n, log)
  PROVE  ProducersFollow(new, P, n, log)
<1>1. \A k \in Live(new) : k \in Live(list) /\ new[k] = list[k]
  BY LiveIs DEF Pruned
<1>2. Flagged(new)
  BY PrunedFlagged DEF ProducersFollow
<1> QED
  BY <1>1, <1>2 DEF Pruned, ProducersFollow

LEMMA GenerationsPruned ==
  ASSUME NEW new, NEW list, Pruned(new, list), NEW G, NEW n, NEW except, NEW log,
         GenerationsFollow(list, G, n, except, log)
  PROVE  GenerationsFollow(new, G, n, except, log)
<1>1. \A k \in Live(new) : k \in Live(list) /\ new[k] = list[k]
  BY LiveIs DEF Pruned
<1>2. Flagged(new)
  BY PrunedFlagged DEF GenerationsFollow
<1> QED
  BY <1>1, <1>2 DEF Pruned, GenerationsFollow

LEMMA GeometriesPruned ==
  ASSUME NEW new, NEW list, Pruned(new, list), NEW Y, NEW G, NEW n, NEW log,
         GeometriesFollow(list, Y, G, n, log)
  PROVE  GeometriesFollow(new, Y, G, n, log)
<1>1. \A k \in Live(new) : k \in Live(list) /\ new[k] = list[k]
  BY LiveIs DEF Pruned
<1>2. Flagged(new)
  BY PrunedFlagged DEF GeometriesFollow
<1> QED
  BY <1>1, <1>2 DEF Pruned, GeometriesFollow

LEMMA FilesPruned ==
  ASSUME NEW new, NEW list, Pruned(new, list), NEW F, NEW log, FilesFollow(list, F, log)
  PROVE  FilesFollow(new, F, log)
<1>1. \A k \in Live(new) : k \in Live(list) /\ new[k] = list[k]
  BY LiveIs DEF Pruned
<1>2. Flagged(new)
  BY PrunedFlagged DEF FilesFollow
<1> QED
  BY <1>1, <1>2 DEF Pruned, FilesFollow

LEMMA ContentsPruned ==
  ASSUME NEW new, NEW list, Pruned(new, list), NEW C, NEW F, NEW fetched, NEW log,
         ContentsFollow(list, C, F, fetched, log)
  PROVE  ContentsFollow(new, C, F, fetched, log)
<1>1. \A k \in Live(new) : k \in Live(list) /\ new[k] = list[k]
  BY LiveIs DEF Pruned
<1>2. Flagged(new)
  BY PrunedFlagged DEF ContentsFollow
<1> QED
  BY <1>1, <1>2 DEF Pruned, ContentsFollow

LEMMA UpdateFollows ==
  ASSUME CacheInv, Follows, UpdateContent, UNCHANGED storageVars
  PROVE  Follows'
<1>1. UNCHANGED <<producers, generations, geometries, files, content, producerCounter,
                  generationCounter, eventLog, mStartTime, clearing>>
  <2>1. UNCHANGED records /\ UNCHANGED counters /\ UNCHANGED <<eventLog, mStartTime, clearing>>
    BY DEF storageVars
  <2> QED
    BY <2>1 DEF records, parents, counters
<1>2. UNCHANGED <<page, mLastProcessedEventId, mContentStorageStartTime, reload, unread, kept>>
  BY DEF UpdateContent
<1>3. Synced' = Synced /\ Pending' = Pending
  BY <1>1, <1>2 DEF Synced, Following, Pending, NewEvents
<1>4. StorageTold(Pending)' <=> StorageTold(Pending)
  BY <1>1, <1>3 DEF StorageTold, TypesTold
<1>5. \A t : HasRead(t)' <=> HasRead(t)
  BY <1>2 DEF HasRead, Following
<1>6. \A t \in Tables : Pruned(primary'.lists[t], primary.lists[t])
  <2> DEFINE d == deleteMarkedRecords(primary)
  <2>1. \A t \in Tables : d.lists[t] \in {primary.lists[t],
                                         Without(primary.lists[t], Marked(primary.lists[t]))}
    BY DEF deleteMarkedRecords
  <2>2. primary' = d
    BY DEF UpdateContent
  <2> QED
    BY <2>1, <2>2, PrunedIs
<1>7. ASSUME Synced PROVE ListsFollow'
  <2>0. ListsFollow
    BY <1>7 DEF Follows
  <2>1. HasRead("producers")' =>
          ProducersFollow(primary'.lists["producers"], producers', producerCounter', Pending')
    BY <1>1, <1>3, <1>5, <1>6, <2>0, TablesAre, ProducersPruned DEF ListsFollow
  <2>2. HasRead("generations")' =>
          GenerationsFollow(primary'.lists["generations"], generations', generationCounter',
                            unread', Pending')
    BY <1>1, <1>2, <1>3, <1>5, <1>6, <2>0, TablesAre, GenerationsPruned DEF ListsFollow
  <2>3. HasRead("geometries")' =>
          /\ kept' = {}
          /\ GeometriesFollow(primary'.lists["geometries"], geometries', generations',
                              generationCounter', Pending')
    BY <1>1, <1>2, <1>3, <1>5, <1>6, <2>0, TablesAre, GeometriesPruned DEF ListsFollow
  <2>4. HasRead("files")' => FilesFollow(primary'.lists["files"], files', Pending')
    BY <1>1, <1>3, <1>5, <1>6, <2>0, TablesAre, FilesPruned DEF ListsFollow
  <2>5. HasRead("contents")' =>
          ContentsFollow(primary'.lists["contents"], content', files', page', Pending')
    BY <1>1, <1>2, <1>3, <1>5, <1>6, <2>0, TablesAre, ContentsPruned DEF ListsFollow
  <2> QED
    BY <2>1, <2>2, <2>3, <2>4, <2>5 DEF ListsFollow
<1> QED
  BY <1>1, <1>2, <1>3, <1>4, <1>7 DEF Follows

-----------------------------------------------------------------------------
(* A reload reads a list: it is the table.                                  *)

AsRead(T) == [k \in DOMAIN T |-> Unmarked(T[k])]

LEMMA AsReadIs ==
  ASSUME NEW T
  PROVE  LET list == AsRead(T)
         IN /\ Flagged(list) /\ DOMAIN list = DOMAIN T
            /\ \A k \in DOMAIN list : list[k].info = T[k]
            /\ \A k : k \in Live(list) <=> k \in DOMAIN T
            /\ \A k : k \notin Marked(list)
<1> DEFINE list == AsRead(T)
<1>1. DOMAIN list = DOMAIN T /\ \A k \in DOMAIN list : list[k] = [info |-> T[k], deleted |-> FALSE]
  BY DEF AsRead, Unmarked
<1> HIDE DEF list
<1>2. Flagged(list) /\ \A k \in DOMAIN list : list[k].info = T[k]
  BY <1>1 DEF Flagged
<1>3. \A k : (k \in Live(list) <=> k \in DOMAIN T) /\ k \notin Marked(list)
  BY <1>1, LiveIs
<1> QED
  BY <1>1, <1>2, <1>3 DEF list

LEMMA ProducersRead ==
  ASSUME StorageFits, NEW log
  PROVE  ProducersFollow(AsRead(producers), producers, producerCounter, log)
<1> DEFINE list == AsRead(producers)
<1>1. /\ Flagged(list) /\ DOMAIN list = DOMAIN producers
      /\ \A k \in DOMAIN list : list[k].info = producers[k]
      /\ \A k : k \in Live(list) <=> k \in DOMAIN producers
      /\ \A k : k \notin Marked(list)
  BY AsReadIs
<1> HIDE DEF list
<1>2. DOMAIN producers \subseteq 1..producerCounter
  BY DEF StorageFits, Typed, ProducersTyped
<1>3. ProducersFollow(list, producers, producerCounter, log)
  BY <1>1, <1>2 DEF StorageFits, ProducersFollow
<1> QED
  BY <1>3 DEF list

LEMMA GenerationsRead ==
  ASSUME StorageFits, NEW log
  PROVE  GenerationsFollow(AsRead(generations), generations, generationCounter, {}, log)
<1> DEFINE list == AsRead(generations)
<1>1. /\ Flagged(list) /\ DOMAIN list = DOMAIN generations
      /\ \A k \in DOMAIN list : list[k].info = generations[k]
      /\ \A k : k \in Live(list) <=> k \in DOMAIN generations
      /\ \A k : k \notin Marked(list)
  BY AsReadIs
<1> HIDE DEF list
<1>2. GenerationsFollow(list, generations, generationCounter, {}, log)
  BY <1>1 DEF StorageFits, GenerationsFollow
<1> QED
  BY <1>2 DEF list

LEMMA GeometriesRead ==
  ASSUME StorageFits, NEW log
  PROVE  GeometriesFollow(AsRead([k \in GeometryKeys |-> GeometryAt(k)]), geometries, generations,
                          generationCounter, log)
<1> DEFINE T == [k \in GeometryKeys |-> GeometryAt(k)]
           list == AsRead(T)
<1>1. DOMAIN T = GeometryKeys /\ \A k \in GeometryKeys : T[k] = GeometryAt(k)
  OBVIOUS
<1> HIDE DEF T
<1>2. /\ Flagged(list) /\ DOMAIN list = DOMAIN T
      /\ \A k \in DOMAIN list : list[k].info = T[k]
      /\ \A k : k \in Live(list) <=> k \in DOMAIN T
      /\ \A k : k \notin Marked(list)
  BY AsReadIs
<1> HIDE DEF list
<1>3. \A k \in DOMAIN list : list[k].info \in geometries /\ GeometryKey(list[k].info) = k
  BY <1>1, <1>2, GeometryAtIs
<1>4. ASSUME NEW y \in geometries
      PROVE  /\ GeometryKey(y) \in Live(list)
             /\ \A k \in DOMAIN list : GeometryKey(y) = k => list[k].info = y
  BY <1>1, <1>2, <1>3, GeometryAtIs DEF HaveKey, StorageFits, GeometriesOwned
<1>5. ASSUME NEW k \in DOMAIN list
      PROVE  /\ IsGeometry(list[k].info) /\ k[1] \in DOMAIN generations /\ k[1] \in 1..generationCounter
             /\ list[k].info.producer = generations[k[1]].producer
  <2>1. k[1] = list[k].info.generation
    BY <1>3, GeometryKeyIs
  <2> QED
    BY <1>3, <2>1 DEF StorageFits, GeometriesOwned
<1>6. \A k \in Live(list) : k \in DOMAIN list /\ HaveKey(geometries, k)
  BY <1>2, <1>3 DEF HaveKey
<1>7. GeometriesFollow(list, geometries, generations, generationCounter, log)
  BY <1>2, <1>3, <1>4, <1>5, <1>6 DEF GeometriesFollow, HaveKey
<1> QED
  BY <1>7 DEF list, T

LEMMA FilesRead == ASSUME NEW log PROVE FilesFollow(AsRead(files), files, log)
<1> DEFINE list == AsRead(files)
<1>1. /\ Flagged(list) /\ DOMAIN list = DOMAIN files
      /\ \A k \in DOMAIN list : list[k].info = files[k]
      /\ \A k : k \in Live(list) <=> k \in DOMAIN files
  BY AsReadIs
<1> HIDE DEF list
<1>2. FilesFollow(list, files, log)
  BY <1>1 DEF FilesFollow, FileFollows
<1> QED
  BY <1>2 DEF list

LEMMA ContentsRead ==
  ASSUME StorageFits, NEW log, NEW fetched
  PROVE  ContentsFollow(AsRead([k \in ContentKeys |-> ContentAt(k)]), content, files, fetched, log)
<1> DEFINE T == [k \in ContentKeys |-> ContentAt(k)]
           list == AsRead(T)
<1>1. DOMAIN T = ContentKeys /\ \A k \in ContentKeys : T[k] = ContentAt(k)
  OBVIOUS
<1> HIDE DEF T
<1>2. /\ Flagged(list) /\ DOMAIN list = DOMAIN T
      /\ \A k \in DOMAIN list : list[k].info = T[k]
      /\ \A k : k \in Live(list) <=> k \in DOMAIN T
  BY AsReadIs
<1> HIDE DEF list
<1>3. \A k \in DOMAIN list : list[k].info \in content /\ Key(list[k].info) = k
  BY <1>1, <1>2, ContentAtIs
<1>4. \A r \in content : Key(r) \in Live(list)
  BY <1>1, <1>2, ContentAtIs DEF HasContent
<1>5. ContentsFollow(list, content, files, fetched, log)
  BY <1>2, <1>3, <1>4 DEF ContentsFollow, ContentFollows
<1> QED
  BY <1>5 DEF list, T

\* What has been read by now.
LEMMA ReadPhases ==
  ASSUME CacheInv, NEW i \in DOMAIN Phases, ReadList(i), UNCHANGED mStartTime
  PROVE  /\ Synced' = Synced
         /\ \A u \in Tables : HasRead(u)' => HasRead(u) \/ u = Phases[i]
<1>1. /\ DOMAIN Phases = 1..5 /\ Len(Phases) = 5
      /\ \A n \in 1..5 : Phases[n] \in Tables /\ Phases[n] # "none"
      /\ \A u \in Tables : \E n \in 1..5 : Phases[n] = u
      /\ \A n, m \in 1..5 : Phases[n] = Phases[m] => n = m
  BY DEF Phases, Tables
<1> DEFINE next == IF i = 5 THEN "none" ELSE Phases[i + 1]
<1>2. reload.phase = Phases[i] /\ reload' = [reload EXCEPT !.phase = next]
  BY <1>1 DEF ReadList
<1>3. reload = [phase |-> reload.phase, time |-> reload.time]
  BY DEF CacheInv, TimesOK
<1> HIDE DEF next
<1>4. reload'.phase = next /\ reload'.time = reload.time
  BY <1>2, <1>3
<1>5. mContentStorageStartTime' = IF i = 5 THEN reload.time ELSE mContentStorageStartTime
  BY <1>1 DEF ReadList
<1>6. i \in 1..5 /\ (i = 5 => next = "none") /\ (i # 5 => i + 1 \in 1..5 /\ next = Phases[i + 1])
  BY <1>1 DEF next
<1>7. Synced' = Synced
  <2>1. ~Following
    BY <1>1, <1>2, <1>6 DEF Following
  <2>2. Following' <=> i = 5
    BY <1>1, <1>4, <1>6 DEF Following
  <2> QED
    BY <1>4, <1>5, <2>1, <2>2 DEF Synced
<1>8. ASSUME NEW u \in Tables, HasRead(u)', u # Phases[i] PROVE HasRead(u)
  <2>1. PICK n \in 1..5 : Phases[n] = u
    BY <1>1
  <2>2. n # i
    BY <1>8, <2>1
  <2>3. CASE i = 5
    BY <1>1, <1>2, <2>1, <2>2, <2>3 DEF HasRead
  <2>4. CASE i # 5
    <3>1. ~Following'
      BY <1>1, <1>4, <1>6, <2>4 DEF Following
    <3>2. PICK a, b \in 1..5 : Phases[a] = u /\ Phases[b] = Phases[i + 1] /\ a < b
      BY <1>1, <1>4, <1>6, <1>8, <2>4, <3>1 DEF HasRead
    <3>3. a = n /\ b = i + 1
      BY <1>1, <1>6, <2>1, <2>4, <3>2
    <3>4. n < i
      BY <1>6, <2>2, <3>2, <3>3
    <3> QED
      BY <1>1, <1>2, <1>6, <2>1, <3>4 DEF HasRead
  <2> QED
    BY <2>3, <2>4
<1> QED
  BY <1>7, <1>8

LEMMA ReadFollows ==
  ASSUME CacheInv, StorageInv, Follows, ReadLists, UNCHANGED storageVars
  PROVE  Follows'
<1>1. UNCHANGED <<producers, generations, geometries, files, content, producerCounter,
                  generationCounter, eventLog, mStartTime, clearing>>
  <2>1. UNCHANGED records /\ UNCHANGED counters /\ UNCHANGED <<eventLog, mStartTime, clearing>>
    BY DEF storageVars
  <2> QED
    BY <2>1 DEF records, parents, counters
<1>2. PICK i \in DOMAIN Phases : ReadList(i)
  BY DEF ReadLists
<1> DEFINE t == Phases[i]
<1>3. UNCHANGED <<page, mLastProcessedEventId>>
  BY <1>2 DEF ReadList
<1>4. /\ t = "generations" => unread' = {}
      /\ t # "generations" => unread' = unread
      /\ t = "geometries" => kept' = {}
      /\ t # "geometries" => kept' = kept
  BY <1>2 DEF ReadList
<1>5. Pending' = Pending
  BY <1>1, <1>3 DEF Pending, NewEvents
<1>6. Synced' = Synced /\ \A u \in Tables : HasRead(u)' => HasRead(u) \/ u = t
  BY <1>1, <1>2, ReadPhases
<1>7. t \in Tables
  BY DEF Phases, Tables
<1>8. /\ primary'.lists[t] = AsRead(Stored[t])
      /\ \A u \in Tables : u # t => primary'.lists[u] = primary.lists[u]
  <2>1. primary' = [primary EXCEPT !.lists[t] = AsRead(Stored[t])]
    BY <1>2 DEF ReadList, AsRead
  <2>2. PICK L, C : primary = [lists |-> L, counters |-> C] /\ DOMAIN L = Tables
    BY DEF CacheInv, ListsOK
  <2> QED
    BY <1>7, <2>1, <2>2
<1> HIDE DEF t
<1>9. StorageTold(Pending)' <=> StorageTold(Pending)
  BY <1>1, <1>5 DEF StorageTold, TypesTold
<1>10. StorageFits
  BY StorageInvFits
<1>11. ASSUME Synced PROVE ListsFollow'
  <2>0. ListsFollow
    BY <1>11 DEF Follows
  <2>1. HasRead("producers")' =>
          ProducersFollow(primary'.lists["producers"], producers', producerCounter', Pending')
    <3>1. CASE t = "producers"
      BY <1>1, <1>5, <1>8, <1>10, <3>1, ProducersRead DEF Stored
    <3>2. CASE t # "producers"
      BY <1>1, <1>5, <1>6, <1>8, <2>0, <3>2, TablesAre DEF ListsFollow
    <3> QED
      BY <3>1, <3>2
  <2>2. HasRead("generations")' =>
          GenerationsFollow(primary'.lists["generations"], generations', generationCounter',
                            unread', Pending')
    <3>1. CASE t = "generations"
      BY <1>1, <1>4, <1>5, <1>8, <1>10, <3>1, GenerationsRead DEF Stored
    <3>2. CASE t # "generations"
      BY <1>1, <1>4, <1>5, <1>6, <1>8, <2>0, <3>2, TablesAre DEF ListsFollow
    <3> QED
      BY <3>1, <3>2
  <2>3. HasRead("geometries")' =>
          /\ kept' = {}
          /\ GeometriesFollow(primary'.lists["geometries"], geometries', generations',
                              generationCounter', Pending')
    <3>1. CASE t = "geometries"
      BY <1>1, <1>4, <1>5, <1>8, <1>10, <3>1, GeometriesRead DEF Stored
    <3>2. CASE t # "geometries"
      BY <1>1, <1>4, <1>5, <1>6, <1>8, <2>0, <3>2, TablesAre DEF ListsFollow
    <3> QED
      BY <3>1, <3>2
  <2>4. HasRead("files")' => FilesFollow(primary'.lists["files"], files', Pending')
    <3>1. CASE t = "files"
      BY <1>1, <1>5, <1>8, <3>1, FilesRead DEF Stored
    <3>2. CASE t # "files"
      BY <1>1, <1>5, <1>6, <1>8, <2>0, <3>2, TablesAre DEF ListsFollow
    <3> QED
      BY <3>1, <3>2
  <2>5. HasRead("contents")' =>
          ContentsFollow(primary'.lists["contents"], content', files', page', Pending')
    <3>1. CASE t = "contents"
      BY <1>1, <1>3, <1>5, <1>8, <1>10, <3>1, ContentsRead DEF Stored
    <3>2. CASE t # "contents"
      BY <1>1, <1>3, <1>5, <1>6, <1>8, <2>0, <3>2, TablesAre DEF ListsFollow
    <3> QED
      BY <3>1, <3>2
  <2> QED
    BY <2>1, <2>2, <2>3, <2>4, <2>5 DEF ListsFollow
<1> QED
  BY <1>1, <1>3, <1>5, <1>6, <1>9, <1>11 DEF Follows

-----------------------------------------------------------------------------
(* The next page is fetched, with data that the storage has now.             *)

LEMMA FetchedPage ==
  ASSUME CacheInv, FetchEvents, NEW n \in 1..Len(page')
  PROVE  LET h == page'[n]
             e == eventLog.events[h.id]
         IN /\ h.id \in NewEvents
            /\ h.type = e.type /\ h.flags = e.flags
            /\ h.id1 = e.id1 /\ h.id2 = e.id2 /\ h.id3 = e.id3
            /\ h.data = setEventData(e)
<1> DEFINE S == {Fetched(k) : k \in NewEvents}
<1>1. PICK T : T = S
  OBVIOUS
<1>2. page' \in Seq(T)
  BY <1>1, FetchedIs
<1>3. page'[n] \in T
  BY <1>2
<1>4. PICK k \in NewEvents : page'[n] = Fetched(k)
  BY <1>1, <1>3
<1> QED
  BY <1>4 DEF Fetched

LEMMA StoredFileHas ==
  ASSUME NEW f, NEW n, NEW x \in StoredFile(f, n)
  PROVE  /\ f \in DOMAIN files /\ x.file = files[f]
         /\ x.contents = IF n > 0 THEN ByFile(f) ELSE {}
BY DEF StoredFile

LEMMA ByFileIs ==
  ASSUME NEW f
  PROVE  \A r : r \in ByFile(f) <=> r \in content /\ r.file = f
BY DEF ByFile

LEMMA FetchFollows ==
  ASSUME SteadyClients, CacheInv, ClearingOK, Follows, FetchEvents, UNCHANGED storageVars
  PROVE  Follows'
<1>1. UNCHANGED <<producers, generations, geometries, files, content, producerCounter,
                  generationCounter, eventLog, mStartTime, clearing>>
  <2>1. UNCHANGED records /\ UNCHANGED counters /\ UNCHANGED <<eventLog, mStartTime, clearing>>
    BY DEF storageVars
  <2> QED
    BY <2>1 DEF records, parents, counters
<1>2. UNCHANGED <<primary, mLastProcessedEventId, mContentStorageStartTime, reload, unread, kept>>
  BY DEF FetchEvents
<1>3. Synced' = Synced /\ Pending' = Pending
  BY <1>1, <1>2 DEF Synced, Following, Pending, NewEvents
<1>4. StorageTold(Pending)' <=> StorageTold(Pending)
  BY <1>1, <1>3 DEF StorageTold, TypesTold
<1>5. \A t : HasRead(t)' <=> HasRead(t)
  BY <1>2 DEF HasRead, Following
<1>6. ~clearing
  BY DEF FetchEvents, Reachable, SteadyClients, ClearingOK
<1> DEFINE log == Pending
           fetched == page'
<1>7. DOMAIN log = NewEvents /\ \A k \in NewEvents : log[k] = eventLog.events[k]
  BY DEF Pending
<1> SUFFICES ASSUME Synced PROVE Follows'
  BY <1>3 DEF Follows
<1>8. StorageTold(log) /\ ListsFollow
  BY DEF Follows
<1> HIDE DEF log
<1>9. ASSUME NEW n \in 1..Len(fetched)
      PROVE  LET h == fetched[n]
             IN /\ h.id \in DOMAIN log /\ Matches(h, log[h.id])
                /\ h.data = setEventData(log[h.id])
                /\ h.type # "CLEAR"
                /\ h.type = "CONTENT_UPDATED" => h.data = {}
                /\ h.type = "FILE_ADDED" => h.data = StoredFile(h.id1, h.id3)
  <2> DEFINE h == fetched[n]
  <2>1. /\ h.id \in DOMAIN log /\ Matches(h, log[h.id])
        /\ h.data = setEventData(log[h.id])
    BY <1>7, <1>9, FetchedPage DEF Matches
  <2>2. h.type # "CLEAR"
    BY <1>6, <1>8, <2>1 DEF StorageTold, TypesTold, Matches
  <2>3. /\ h.type = "CONTENT_UPDATED" => h.data = {}
        /\ h.type = "FILE_ADDED" => h.data = StoredFile(h.id1, h.id3)
    BY <2>1 DEF Matches, setEventData
  <2> QED
    BY <2>1, <2>2, <2>3
<1>10. PageMatches(fetched, log)
  BY <1>9 DEF PageMatches
<1>11. PageFollows(fetched, content, files, log)
  <2> SUFFICES ASSUME NEW n \in 1..Len(fetched), fetched[n].type = "FILE_ADDED",
                      NEW x \in fetched[n].data
               PROVE  DataFollows(fetched[n], x, fetched[Len(fetched)].id, content, files, log)
    BY DEF PageFollows
  <2> DEFINE h == fetched[n]
             last == fetched[Len(fetched)].id
  <2>1. x \in StoredFile(h.id1, h.id3)
    BY <1>9
  <2> HIDE DEF h, fetched, last
  <2>2. /\ h.id1 \in DOMAIN files /\ x.file = files[h.id1]
        /\ x.contents = IF h.id3 > 0 THEN ByFile(h.id1) ELSE {}
    BY <2>1, StoredFileHas
  <2>3. \A r \in x.contents : r \in content /\ r.file = h.id1
    BY <2>2, ByFileIs
  <2>4. h.id3 > 0 => \A r \in content : r.file = h.id1 => r \in x.contents
    BY <2>2, ByFileIs
  <2>5. FileFollows(h.id1, x.file, files, After(log, h.id))
    BY <2>2 DEF FileFollows
  <2>6. \A r \in x.contents : ContentFollows(r, content, files, After(log, h.id))
    BY <2>3 DEF ContentFollows
  <2>7. DataFollows(h, x, last, content, files, log)
    BY <2>3, <2>4, <2>5, <2>6 DEF DataFollows
  <2> QED
    BY <2>7 DEF h, last
<1>12. ASSUME NEW list, ContentsFollow(list, content, files, page, log)
       PROVE  ContentsFollow(list, content, files, fetched, log)
  <2>1. ASSUME NEW r \in content, NEW i \in DOMAIN log, Brings(i, Key(r), page, log)
        PROVE  Brings(i, Key(r), fetched, log)
    <3>1. ContentAdded(log[i], Key(r))
      BY <2>1 DEF Brings
    <3> SUFFICES ASSUME NEW n \in 1..Len(fetched), fetched[n].id = i,
                        fetched[n].type = "FILE_ADDED", NEW x \in fetched[n].data
                 PROVE  \E s \in x.contents : Key(s) = Key(r)
      BY <3>1 DEF Brings
    <3> DEFINE h == fetched[n]
    <3>2. Matches(h, log[i]) /\ h.data = StoredFile(h.id1, h.id3) /\ h.type = "FILE_ADDED"
      BY <1>9
    <3> HIDE DEF h
    <3>3. h.id1 = Key(r)[1] /\ h.id3 > 0
      BY <3>1, <3>2 DEF Matches, ContentAdded, ContentTold, Of
    <3>4. h.id1 = r.file
      BY <3>3, KeyIs
    <3>5. x \in h.data
      BY DEF h
    <3>6. x.contents = ByFile(r.file)
      BY <3>2, <3>3, <3>4, <3>5, StoredFileHas
    <3> QED
      BY <3>6, ByFileIs
  <2> QED
    BY <1>12, <2>1 DEF ContentsFollow
<1>13. StorageTold(Pending)' /\ PageMatches(page, Pending)' /\ PageFollows(page, content, files, Pending)'
  BY <1>1, <1>3, <1>4, <1>8, <1>10, <1>11 DEF log
<1>14. ListsFollow'
  BY <1>1, <1>2, <1>3, <1>5, <1>8, <1>12 DEF ListsFollow, log
<1> QED
  BY <1>13, <1>14 DEF Follows

-----------------------------------------------------------------------------
(* The first event of the page is processed.                                *)

LEMMA PendingCut ==
  ASSUME CacheInv, PageInOrder, ProcessEvent, UNCHANGED eventLog,
         PageMatches(page, Pending)
  PROVE  /\ Pending' = After(Pending, page[1].id)
         /\ Cut(Pending, page[1].id, After(Pending, page[1].id))
<1> DEFINE m == page[1].id
           log == Pending
           old == eventLog.events
           last == mLastProcessedEventId
<1>1. page # <<>> /\ mLastProcessedEventId' = m
  BY DEF ProcessEvent
<1>2. 1 \in 1..Len(page) /\ m \in Nat /\ last \in Nat /\ DOMAIN old \subseteq Nat
  BY <1>1, PageIds
<1>3. last < m /\ \A k \in DOMAIN old : k <= last \/ k >= m
  BY <1>1 DEF PageInOrder
<1>4. Pending = [i \in {k \in DOMAIN old : k > last} |-> old[i]]
  BY DEF Pending, NewEvents
<1>5. Pending' = [i \in {k \in DOMAIN old : k > m} |-> old[i]]
  BY <1>1 DEF Pending, NewEvents
<1>6. DOMAIN log = {k \in DOMAIN old : k > last} /\ \A i \in DOMAIN log : log[i] = old[i]
  BY <1>4
<1>7. m \in DOMAIN log
  BY <1>2 DEF PageMatches
<1> HIDE DEF m, log, old, last
<1>8. DOMAIN log \subseteq Int /\ \A i \in DOMAIN log : i >= m
  BY <1>2, <1>3, <1>6
<1>9. {k \in DOMAIN old : k > m} = {x \in DOMAIN log : x > m}
  BY <1>2, <1>3, <1>6
<1>10. [i \in {k \in DOMAIN old : k > m} |-> old[i]] = After(log, m)
  BY <1>6, <1>9 DEF After
<1>11. Cut(log, m, After(log, m))
  BY <1>7, <1>8, CutAfter
<1> QED
  BY <1>5, <1>10, <1>11 DEF m, log

LEMMA EventTaken ==
  ASSUME CacheInv, PageInOrder, StorageInv, Follows, Synced, ProcessEvent, UNCHANGED eventLog
  PROVE  /\ Taken(primary, unread, page, Pending, page[1].id, After(Pending, page[1].id),
                  Tail(page), Head(page))
         /\ kept = {} /\ Shortened(Tail(page), page, page[1].id)
<1> DEFINE m == page[1].id
           log == Pending
           rest == After(log, m)
           short == Tail(page)
           e == Head(page)
<1>1. page # <<>> /\ \A t : HasRead(t)
  BY DEF ProcessEvent, HasRead
<1>2. StorageFits /\ ListsOK(primary)
  BY StorageInvFits DEF CacheInv
<1>3. /\ StorageTold(log) /\ PageMatches(page, log) /\ PageFollows(page, content, files, log)
      /\ ListsFollow
  BY DEF Follows
<1>4. Tracked(primary, unread, page, log) /\ kept = {}
  BY <1>1, <1>3 DEF ListsFollow, Tracked
<1>5. Cut(log, m, rest)
  BY <1>3, PendingCut
<1>6. PICK S : page \in Seq(S) /\ PageRecords(S)
  BY DEF CacheInv, PageOK
<1>7. /\ Len(page) \in Nat /\ 1 \in 1..Len(page) /\ e = page[1] /\ e \in S
      /\ Len(short) \in Nat
      /\ Len(short) = Len(page) - 1
      /\ \A n \in 1..Len(short) : short[n] = page[n + 1] /\ n + 1 \in 1..Len(page)
  BY <1>1, <1>6
<1>8. e.type = "FILE_ADDED" => FileData(e.data)
  BY <1>6, <1>7 DEF PageRecords
<1>9. PageInLog(page, log)
  BY <1>3, PagePending
<1>10. \A n \in 1..Len(page) : page[n].id = m + (n - 1)
  BY DEF PageInOrder
<1>11. m \in Nat
  BY <1>7, PageIds
<1>12. ASSUME NEW n \in 1..Len(short)
       PROVE  /\ short[n] = page[n + 1] /\ n + 1 \in 1..Len(page) /\ page[n + 1].id > m
              /\ short[Len(short)] = page[Len(page)]
  <2>1. short[n] = page[n + 1] /\ n + 1 \in 1..Len(page)
    BY <1>7
  <2>2. page[n + 1].id = m + ((n + 1) - 1)
    BY <1>10, <2>1
  <2>3. Len(short) \in 1..Len(short) /\ Len(short) + 1 = Len(page)
    BY <1>7
  <2>4. short[Len(short)] = page[Len(page)]
    BY <1>7, <2>3
  <2> QED
    BY <1>11, <2>1, <2>2, <2>4
<1> HIDE DEF m, log, short, e
<1>13. Shortened(short, page, m)
  BY <1>7, <1>12 DEF Shortened
<1>14. Shorter(short, page)
  BY <1>7, <1>12 DEF Shorter
<1>15. DOMAIN log \subseteq Int
  BY <1>5 DEF Cut
<1>16. Taken(primary, unread, page, log, m, rest, short, e)
  BY <1>2, <1>3, <1>4, <1>5, <1>7, <1>8, <1>9, <1>14, <1>15 DEF Taken, m
<1> QED
  BY <1>4, <1>13, <1>16 DEF m, log, short, e

LEMMA ProcessFollows ==
  ASSUME CacheInv, PageInOrder, StorageInv, Follows, ProcessEvent, UNCHANGED storageVars
  PROVE  Follows'
<1>1. UNCHANGED <<producers, generations, geometries, files, content, producerCounter,
                  generationCounter, eventLog, mStartTime, clearing>>
  <2>1. UNCHANGED records /\ UNCHANGED counters /\ UNCHANGED <<eventLog, mStartTime, clearing>>
    BY DEF storageVars
  <2> QED
    BY <2>1 DEF records, parents, counters
<1>2. page' = Tail(page) /\ UNCHANGED <<mContentStorageStartTime, reload>>
  BY DEF ProcessEvent
<1>3. Synced' = Synced
  BY <1>1, <1>2 DEF Synced, Following
<1> SUFFICES ASSUME Synced PROVE Follows'
  BY <1>3 DEF Follows
<1> DEFINE m == page[1].id
           log == Pending
           rest == After(log, m)
           short == Tail(page)
           e == Head(page)
<1>4. /\ Taken(primary, unread, page, log, m, rest, short, e)
      /\ kept = {} /\ Shortened(short, page, m)
  BY <1>1, EventTaken
<1>5. Pending' = rest
  BY <1>1, PendingCut DEF Follows
<1>6. e.type \notin Unfollowed
  BY <1>4, TakenIs
<1>7. PICK ok \in BOOLEAN : primary' = processEvent(primary, e, ok) /\ ReadsAgain(e, ok, unread, unread')
  BY <1>6 DEF ProcessEvent, ReadsGeneration, ReadsAgain, Unfollowed
<1>8. kept' = {}
  BY <1>4, <1>6 DEF ProcessEvent, Unfollowed
<1> HIDE DEF m, rest, short, e
<1>9. Tracked(primary', unread', short, rest)
  <2>1. Tracked(processEvent(primary, e, ok), unread', short, rest)
    BY <1>4, <1>7, EventHandled
  <2> QED
    BY <1>7, <2>1
<1>10. /\ Cut(log, m, rest) /\ PageInLog(page, log) /\ PageFollows(page, content, files, log)
       /\ PageMatches(page, log) /\ StorageTold(log)
  BY <1>4 DEF Taken
<1>11. StorageTold(rest)
  BY <1>10, ToldCut
<1>12. PageFollows(short, content, files, rest) /\ PageMatches(short, rest)
  BY <1>4, <1>10, PageFollowsCut
<1>13. StorageTold(Pending)'
  BY <1>1, <1>5, <1>11 DEF StorageTold, TypesTold
<1>14. PageMatches(page, Pending)' /\ PageFollows(page, content, files, Pending)'
  BY <1>1, <1>2, <1>5, <1>12 DEF short
<1>15. ListsFollow'
  BY <1>1, <1>2, <1>5, <1>8, <1>9 DEF ListsFollow, Tracked, short
<1> QED
  BY <1>13, <1>14, <1>15 DEF Follows

-----------------------------------------------------------------------------
(* When no event is pending, the lists are the tables.                       *)

LEMMA SameTable ==
  ASSUME NEW f, NEW g, IsTable(f), IsTable(g), \A x : x \in DOMAIN f <=> x \in DOMAIN g,
         \A x \in DOMAIN f : f[x] = g[x]
  PROVE  f = g
<1>1. DOMAIN f = DOMAIN g
  OBVIOUS
<1>2. [x \in DOMAIN f |-> f[x]] = [x \in DOMAIN g |-> g[x]]
  BY <1>1
<1> QED
  BY <1>2 DEF IsTable

LEMMA InfosIs ==
  ASSUME NEW list
  PROVE  /\ IsTable(Infos(list)) /\ DOMAIN Infos(list) = Live(list)
         /\ \A k \in Live(list) : Infos(list)[k] = list[k].info
BY DEF Infos, IsTable

LEMMA ProducersAgree ==
  ASSUME NEW list, NEW P, NEW n, NEW log, DOMAIN log = {}, IsTable(P),
         ProducersFollow(list, P, n, log)
  PROVE  Infos(list) = P
<1>1. \A q \in Live(list) : q \in DOMAIN P /\ list[q].info = P[q]
  BY DEF ProducersFollow
<1>2. \A p \in DOMAIN P : p \in Live(list)
  BY DEF ProducersFollow
<1> QED
  BY <1>1, <1>2, InfosIs, SameTable

LEMMA GenerationsAgree ==
  ASSUME NEW list, NEW G, NEW n, NEW except, NEW log, DOMAIN log = {},
         \A g \in DOMAIN G : IsGeneration(G[g]),
         GenerationsFollow(list, G, n, except, log)
  PROVE  Without(Infos(list), except) = Without(G, except)
<1>1. \A g \in Live(list) : g \in DOMAIN G /\ IsGeneration(list[g].info)
                            /\ list[g].info.producer = G[g].producer
                            /\ list[g].info.name = G[g].name
                            /\ list[g].info.status = G[g].status
  BY LiveIs DEF GenerationsFollow
<1>2. \A g \in Live(list) : g \in DOMAIN G /\ list[g].info = G[g]
  BY <1>1 DEF IsGeneration
<1>3. \A g \in DOMAIN G \ except : g \in Live(list)
  BY DEF GenerationsFollow
<1> PICK f, h : f = Without(Infos(list), except) /\ h = Without(G, except)
  OBVIOUS
<1>4. /\ IsTable(f) /\ DOMAIN f = Live(list) \ except
      /\ \A g \in DOMAIN f : f[g] = list[g].info
  <2>1. /\ DOMAIN Infos(list) = Live(list)
        /\ \A k \in Live(list) : Infos(list)[k] = list[k].info
    BY InfosIs
  <2> QED
    BY <2>1 DEF Without, IsTable
<1>5. /\ IsTable(h) /\ DOMAIN h = DOMAIN G \ except
      /\ \A g \in DOMAIN h : h[g] = G[g]
  BY DEF Without, IsTable
<1>6. f = h
  BY <1>2, <1>3, <1>4, <1>5, SameTable
<1> QED
  BY <1>6

LEMMA GeometriesAgree ==
  ASSUME StorageFits, NEW list, NEW log, DOMAIN log = {},
         GeometriesFollow(list, geometries, generations, generationCounter, log)
  PROVE  Infos(list) = [k \in GeometryKeys |-> GeometryAt(k)]
<1>1. ASSUME NEW k \in Live(list) PROVE k \in GeometryKeys /\ list[k].info = GeometryAt(k)
  <2>1. /\ IsGeometry(list[k].info) /\ GeometryKey(list[k].info) = k
        /\ k[1] \in DOMAIN generations => list[k].info.producer = generations[k[1]].producer
    BY <1>1, LiveIs DEF GeometriesFollow
  <2>2. k \in GeometryKeys
    BY <1>1, GeometryAtIs DEF GeometriesFollow, HaveKey
  <2>3. GeometryAt(k) \in geometries /\ GeometryKey(GeometryAt(k)) = k
    BY <2>2, GeometryAtIs
  <2> DEFINE y == GeometryAt(k)
             x == list[k].info
  <2> HIDE DEF y
  <2>4. x.status = y.status
    BY <1>1, <2>3 DEF GeometriesFollow, y
  <2>5. IsGeometry(y) /\ y.generation \in DOMAIN generations /\ y.producer = generations[y.generation].producer
    BY <2>3 DEF StorageFits, GeometriesOwned, y
  <2> HIDE DEF x
  <2>6. x.generation = y.generation /\ x.geometry = y.geometry /\ k[1] = y.generation
    BY <2>1, <2>3 DEF GeometryKey, x, y
  <2>7. x = y
    BY <2>1, <2>4, <2>5, <2>6 DEF IsGeometry, x
  <2> QED
    BY <2>2, <2>7 DEF x, y
<1>2. \A k \in GeometryKeys : k \in Live(list)
  BY GeometryAtIs DEF GeometriesFollow, HaveKey
<1> DEFINE T == [k \in GeometryKeys |-> GeometryAt(k)]
<1>3. IsTable(T) /\ DOMAIN T = GeometryKeys /\ \A k \in GeometryKeys : T[k] = GeometryAt(k)
  BY DEF IsTable
<1> HIDE DEF T
<1>4. Infos(list) = T
  BY <1>1, <1>2, <1>3, InfosIs, SameTable
<1> QED
  BY <1>4 DEF T

LEMMA FilesAgree ==
  ASSUME NEW list, NEW F, NEW log, DOMAIN log = {}, IsTable(F), FilesFollow(list, F, log)
  PROVE  Infos(list) = F
<1>1. \A f \in Live(list) : f \in DOMAIN F /\ list[f].info = F[f]
  BY DEF FilesFollow, FileFollows
<1>2. \A f \in DOMAIN F : f \in Live(list)
  BY DEF FilesFollow
<1> QED
  BY <1>1, <1>2, InfosIs, SameTable

LEMMA ContentsAgree ==
  ASSUME StorageFits, NEW list, NEW fetched, NEW log, DOMAIN log = {},
         ContentsFollow(list, content, files, fetched, log)
  PROVE  Infos(list) = [k \in ContentKeys |-> ContentAt(k)]
<1>1. ASSUME NEW k \in Live(list) PROVE k \in ContentKeys /\ list[k].info = ContentAt(k)
  <2>1. Key(list[k].info) = k
    BY <1>1, LiveIs DEF ContentsFollow
  <2>2. ContentFollows(list[k].info, content, files, log)
    BY <1>1 DEF ContentsFollow
  <2>3. list[k].info \in content
    BY <2>2 DEF ContentFollows, FileReplaced
  <2>4. k \in ContentKeys /\ ContentAt(k) \in content /\ Key(ContentAt(k)) = k
    BY <2>1, <2>3, ContentAtIs DEF HasContent
  <2> QED
    BY <2>1, <2>3, <2>4 DEF StorageFits, ContentsOwned
<1>2. ASSUME NEW k \in ContentKeys PROVE k \in Live(list)
  <2>1. PICK r \in content : Key(r) = k
    BY ContentAtIs DEF HasContent
  <2> QED
    BY <2>1 DEF ContentsFollow
<1> DEFINE T == [k \in ContentKeys |-> ContentAt(k)]
<1>3. IsTable(T) /\ DOMAIN T = ContentKeys /\ \A k \in ContentKeys : T[k] = ContentAt(k)
  BY DEF IsTable
<1> HIDE DEF T
<1>4. Infos(list) = T
  BY <1>1, <1>2, <1>3, InfosIs, SameTable
<1> QED
  BY <1>4 DEF T

SeenBut(lists, g, k) ==
  [lists EXCEPT !.generations = Without(@, g), !.geometries = Without(@, k)]

LEMMA SeenSame ==
  ASSUME NEW X, NEW Y, X = [t \in Tables |-> X[t]], Y = [t \in Tables |-> Y[t]], NEW a, NEW b,
         X["producers"] = Y["producers"], X["files"] = Y["files"], X["contents"] = Y["contents"],
         X["geometries"] = Y["geometries"],
         Without(X["generations"], a) = Without(Y["generations"], a)
  PROVE  SeenBut(X, a, b) = SeenBut(Y, a, b)
<1>1. ASSUME NEW Z, Z = [t \in Tables |-> Z[t]]
      PROVE  LET W == [Z EXCEPT !.generations = Without(@, a), !.geometries = Without(@, b)]
             IN /\ IsTable(W) /\ DOMAIN W = Tables
                /\ W["generations"] = Without(Z["generations"], a)
                /\ W["geometries"] = Without(Z["geometries"], b)
                /\ \A t \in Tables \ {"generations", "geometries"} : W[t] = Z[t]
  BY <1>1 DEF Tables, IsTable
<1> DEFINE V == [X EXCEPT !.generations = Without(@, a), !.geometries = Without(@, b)]
           W == [Y EXCEPT !.generations = Without(@, a), !.geometries = Without(@, b)]
<1>2. /\ IsTable(V) /\ DOMAIN V = Tables
      /\ V["generations"] = Without(X["generations"], a)
      /\ V["geometries"] = Without(X["geometries"], b)
      /\ \A t \in Tables \ {"generations", "geometries"} : V[t] = X[t]
  BY <1>1
<1>3. /\ IsTable(W) /\ DOMAIN W = Tables
      /\ W["generations"] = Without(Y["generations"], a)
      /\ W["geometries"] = Without(Y["geometries"], b)
      /\ \A t \in Tables \ {"generations", "geometries"} : W[t] = Y[t]
  BY <1>1
<1> HIDE DEF V, W
<1>4. \A t \in Tables : V[t] = W[t]
  BY <1>2, <1>3 DEF Tables
<1>5. V = W
  BY <1>2, <1>3, <1>4, SameTable
<1> QED
  BY <1>5 DEF V, W, SeenBut

LEMMA FollowsAgrees ==
  ASSUME CacheInv, StorageInv, IsTable(producers), Follows
  PROVE  PrimaryAgrees
<1> SUFFICES ASSUME Quiet
             PROVE  SeenBut(LiveLists(primary), unread, kept) = SeenBut(Stored, unread, kept)
  BY DEF PrimaryAgrees, SeenBut
<1>1. Synced
  <2>1. mStartTime \in Nat /\ mContentStorageStartTime \in 1..mStartTime
    BY DEF CacheInv, TimesOK
  <2>2. ~(mContentStorageStartTime < mStartTime) /\ Following
    BY DEF Quiet, RestartDetected
  <2> QED
    BY <2>1, <2>2 DEF Synced
<1>2. DOMAIN Pending = {}
  BY DEF Quiet, Pending
<1>3. \A t : HasRead(t)
  BY DEF Quiet, HasRead
<1>4. /\ ProducersFollow(primary.lists["producers"], producers, producerCounter, Pending)
      /\ GenerationsFollow(primary.lists["generations"], generations, generationCounter, unread,
                           Pending)
      /\ GeometriesFollow(primary.lists["geometries"], geometries, generations,
                          generationCounter, Pending)
      /\ FilesFollow(primary.lists["files"], files, Pending)
      /\ ContentsFollow(primary.lists["contents"], content, files, page, Pending)
  BY <1>1, <1>3 DEF Follows, ListsFollow
<1>5. /\ StorageFits /\ IsTable(files)
      /\ \A g \in DOMAIN generations : IsGeneration(generations[g])
  BY StorageInvFits DEF StorageFits, Typed, FilesTyped
<1> DEFINE X == LiveLists(primary)
           Y == Stored
<1>6. X = [t \in Tables |-> X[t]] /\ \A t \in Tables : X[t] = Infos(primary.lists[t])
  BY DEF LiveLists
<1>7. /\ Y = [t \in Tables |-> Y[t]]
      /\ Y["producers"] = producers /\ Y["generations"] = generations
      /\ Y["geometries"] = [k \in GeometryKeys |-> GeometryAt(k)]
      /\ Y["files"] = files
      /\ Y["contents"] = [k \in ContentKeys |-> ContentAt(k)]
  BY DEF Stored, Tables
<1> HIDE DEF X, Y
<1>8. X["producers"] = Y["producers"]
  BY <1>2, <1>4, <1>6, <1>7, TablesAre, ProducersAgree
<1>9. Without(X["generations"], unread) = Without(Y["generations"], unread)
  <2>1. Without(Infos(primary.lists["generations"]), unread) = Without(generations, unread)
    BY <1>2, <1>4, <1>5, GenerationsAgree
  <2>2. X["generations"] = Infos(primary.lists["generations"])
    BY <1>6, TablesAre
  <2> QED
    BY <1>7, <2>1, <2>2
<1>10. X["geometries"] = Y["geometries"]
  BY <1>2, <1>4, <1>5, <1>6, <1>7, TablesAre, GeometriesAgree
<1>11. X["files"] = Y["files"]
  BY <1>2, <1>4, <1>5, <1>6, <1>7, TablesAre, FilesAgree
<1>12. X["contents"] = Y["contents"]
  BY <1>2, <1>4, <1>5, <1>6, <1>7, TablesAre, ContentsAgree
<1>13. SeenBut(X, unread, kept) = SeenBut(Y, unread, kept)
  BY <1>6, <1>7, <1>8, <1>9, <1>10, <1>11, <1>12, SeenSame
<1> QED
  BY <1>13 DEF X, Y

-----------------------------------------------------------------------------
(* The cache agrees with the storage.                                       *)

ProducersTable == IsTable(producers)

LEMMA ProducersTableStep ==
  ASSUME ProducersTable, [StorageNext]_storageVars
  PROVE  ProducersTable'
<1>1. ASSUME UNCHANGED producers PROVE ProducersTable'
  BY <1>1 DEF ProducersTable, IsTable
<1>2. CASE StorageCall
  <2>1. CASE ProducerCalls
    <3>1. ASSUME NEW name, NEW p, addProducerInfo(name) \/ setProducerInfo(p, name)
          PROVE  ProducersTable'
      <4>1. PICK n, v : producers' = Put(producers, n, v)
        BY <3>1 DEF addProducerInfo, setProducerInfo
      <4>2. IsTable(Put(producers, n, v))
        BY PutIs
      <4>3. IsTable(producers')
        BY <4>1, <4>2
      <4> QED
        BY <4>3 DEF ProducersTable, IsTable
    <3>2. ASSUME NEW p, deleteProducer(p) PROVE ProducersTable'
      BY <3>2, WithoutIs DEF deleteProducer, ProducersTable
    <3> QED
      BY <2>1, <3>1, <3>2 DEF ProducerCalls, deleteProducerInfoById, deleteProducerInfoByName
  <2>2. CASE GenerationCalls \/ GeometryCalls
    BY <1>1, <2>2, GenerationCallsKeep, GeometryCallsKeep
  <2>3. CASE FileCalls \/ ContentCalls
    BY <1>1, <2>3, FileCallsKeep, ContentCallsKeep DEF parents
  <2> QED
    BY <1>2, <2>1, <2>2, <2>3 DEF StorageCall
<1>3. ASSUME NEW own, ClearDelete(own) PROVE ProducersTable'
  BY <1>3, NothingIs DEF ClearDelete, ProducersTable
<1>4. CASE ClearAnnounce \/ Restart \/ UNCHANGED storageVars
  <2>1. UNCHANGED producers
    BY <1>4 DEF ClearAnnounce, Restart, records, parents, storageVars
  <2> QED
    BY <1>1, <2>1
<1> QED
  BY <1>2, <1>3, <1>4 DEF StorageNext

\* The inductive invariant.
AgreeInv ==
  CacheInv /\ PageInOrder /\ StorageInv /\ ClearingOK /\ ProducersTable /\ Follows

LEMMA AgreeInit == Init => AgreeInv
<1> SUFFICES ASSUME Init PROVE AgreeInv
  OBVIOUS
<1>1. StorageInit
  BY DEF Init
<1>2. CacheInv /\ Follows
  BY CacheInit, FollowsInit
<1>3. PageInOrder
  BY DEF Init, PageInOrder
<1>4. StorageInv
  BY <1>1, StorageInvInit
<1>5. ClearingOK /\ ProducersTable
  <2>1. PICK p : producers = Put(Nothing, 1, p)
    BY <1>1 DEF StorageInit
  <2>2. IsTable(Put(Nothing, 1, p))
    BY PutIs
  <2>3. ProducersTable
    BY <2>1, <2>2 DEF ProducersTable
  <2> QED
    BY <1>1, <2>3 DEF StorageInit, ClearingOK
<1> QED
  BY <1>2, <1>3, <1>4, <1>5 DEF AgreeInv

LEMMA OrderStep == ASSUME CacheInv, PageInOrder, [Next]_vars PROVE PageInOrder'
<1>1. CASE StorageStep \/ UNCHANGED vars
  <2>1. UNCHANGED <<page, mLastProcessedEventId>>
    BY <1>1 DEF StorageStep, vars, cacheVars
  <2> QED
    BY <2>1, StorageSteps, StorageKeepsOrder
<1>2. CASE FetchEvents /\ UNCHANGED storageVars
  BY <1>2, FetchInOrder
<1>3. CASE ProcessEvent /\ UNCHANGED storageVars
  BY <1>3, ProcessInOrder
<1>4. CASE (UpdateContent \/ ReadLists) /\ UNCHANGED storageVars
  <2>1. UNCHANGED <<page, mLastProcessedEventId, eventLog>>
    BY <1>4 DEF UpdateContent, ReadLists, ReadList, storageVars
  <2> QED
    BY <2>1 DEF PageInOrder
<1>5. CASE StartReload /\ UNCHANGED storageVars
  <2>1. page' = <<>>
    BY <1>5 DEF StartReload
  <2> QED
    BY <2>1 DEF PageInOrder
<1> QED
  BY <1>1, <1>2, <1>3, <1>4, <1>5 DEF Next, CacheStep

LEMMA AgreeStep ==
  ASSUME SteadyClients, AgreeInv, [Next]_vars, LogKept
  PROVE  AgreeInv'
<1>0. CacheInv /\ PageInOrder /\ StorageInv /\ ClearingOK /\ ProducersTable /\ Follows
  BY DEF AgreeInv
<1>1. [StorageNext]_storageVars
  BY StorageSteps
<1>2. CacheInv' /\ PageInOrder' /\ StorageInv' /\ ClearingOK' /\ ProducersTable'
  BY <1>0, <1>1, CacheInvStep, OrderStep, StorageInvStep, ClearingStep, ProducersTableStep
<1>3. CASE StorageStep
  BY <1>0, <1>2, <1>3, StorageFollows DEF AgreeInv
<1>4. CASE UNCHANGED vars
  BY <1>0, <1>2, <1>4, UntouchedFollows DEF AgreeInv
<1>5. CASE CacheStep
  BY <1>0, <1>2, <1>5, FetchFollows, ProcessFollows, UpdateFollows, StartFollows, ReadFollows
     DEF CacheStep, AgreeInv
<1> QED
  BY <1>3, <1>4, <1>5 DEF Next

\* The cache answers like the storage when it has processed every event: for clients that
\* keep to the calls the cache follows, and a log that is never truncated ahead of it, the
\* live records of the primary lists are those of the storage, except for generations
\* that could not be read.  The pages may have been fetched at any time, with any data that
\* the storage had then, the handlers read records that are younger than their events, and a
\* reload, a clear() of the same process or a restart may come between any two of the steps.
THEOREM PrimaryAgreesHolds == SteadyClients => (Spec /\ KeepsUp => []PrimaryAgrees)
<1> SUFFICES ASSUME SteadyClients PROVE Spec /\ KeepsUp => []PrimaryAgrees
  OBVIOUS
<1>1. AgreeInv /\ [Next]_vars /\ [LogKept]_vars => AgreeInv'
  <2> SUFFICES ASSUME AgreeInv, [Next]_vars, [LogKept]_vars PROVE AgreeInv'
    OBVIOUS
  <2>1. CASE LogKept
    BY <2>1, AgreeStep
  <2>2. CASE UNCHANGED vars
    <3>1. LogKept
      <4>1. UNCHANGED eventLog
        BY <2>2 DEF vars, storageVars
      <4>2. eventLog.counter \in Nat
        BY DEF AgreeInv, CacheInv, LogInv, LogOK
      <4> QED
        BY <4>1, <4>2 DEF LogKept, NewEvents
    <3> QED
      BY <3>1, AgreeStep
  <2> QED
    BY <2>1, <2>2
<1>2. AgreeInv => PrimaryAgrees
  BY FollowsAgrees DEF AgreeInv, ProducersTable
<1>3. KeepsUp => [][LogKept]_vars
  BY DEF KeepsUp, LogKept
<1> QED
  BY AgreeInit, <1>1, <1>2, <1>3, PTL DEF Spec
=============================================================================
