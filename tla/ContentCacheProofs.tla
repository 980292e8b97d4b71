------------------------ MODULE ContentCacheProofs ------------------------
(***************************************************************************)
(* Proofs about ContentCache for every set of names, messages, data and     *)
(* calls, every bound, every page size and every way in which clear() is    *)
(* called: that the delete counters cover the marked records, whatever      *)
(* events come in whatever order, and that the cache is never ahead of the  *)
(* storage.                                                                 *)
(***************************************************************************)
EXTENDS ContentCache, EventLogProofs

\* A list has finitely many records, which have their flags, and its delete
\* counter covers the marked ones.
ListOK(list, n) ==
  /\ IsFiniteSet(DOMAIN list)
  /\ n \in Nat
  /\ \A k \in DOMAIN list : "deleted" \in DOMAIN list[k]
  /\ Cardinality(Marked(list)) <= n

ListsOK(c) ==
  /\ c = [lists |-> c.lists, counters |-> c.counters]
  /\ DOMAIN c.lists = Tables /\ DOMAIN c.counters = Tables
  /\ \A t \in Tables : ListOK(c.lists[t], c.counters[t])

-----------------------------------------------------------------------------
(* The operations of the primary lists.                                     *)

LEMMA TablesAre ==
  /\ "producers" \in Tables /\ "generations" \in Tables /\ "geometries" \in Tables
  /\ "files" \in Tables /\ "contents" \in Tables
BY DEF Tables

LEMMA MarkedIs ==
  ASSUME NEW list, IsFiniteSet(DOMAIN list)
  PROVE  /\ \A k : k \in Marked(list) <=> k \in DOMAIN list /\ list[k].deleted
         /\ IsFiniteSet(Marked(list)) /\ Cardinality(Marked(list)) \in Nat
<1>1. \A k : k \in Marked(list) <=> k \in DOMAIN list /\ list[k].deleted
  BY DEF Marked, Live
<1>2. Marked(list) \subseteq DOMAIN list
  BY <1>1
<1>3. IsFiniteSet(Marked(list))
  BY <1>2, FS_Subset
<1> QED
  BY <1>1, <1>3, FS_CardinalityType

\* A list with some of the marks of another.
LEMMA FewerMarks ==
  ASSUME NEW list, NEW n, ListOK(list, n), NEW new, NEW m \in Nat, n <= m,
         IsFiniteSet(DOMAIN new), \A k \in DOMAIN new : "deleted" \in DOMAIN new[k],
         \A k \in DOMAIN new : new[k].deleted => k \in DOMAIN list /\ list[k].deleted
  PROVE  ListOK(new, m)
<1>1. IsFiniteSet(Marked(list)) /\ Cardinality(Marked(list)) \in Nat
  BY MarkedIs DEF ListOK
<1>2. Marked(new) \subseteq Marked(list) /\ Cardinality(Marked(new)) \in Nat
  BY MarkedIs DEF ListOK
<1>3. Cardinality(Marked(new)) <= Cardinality(Marked(list))
  BY <1>1, <1>2, FS_Subset
<1> QED
  BY <1>1, <1>2, <1>3 DEF ListOK

\* One list and its counter change.
LEMMA ListsChange ==
  ASSUME NEW c, ListsOK(c), NEW t \in Tables, NEW d,
         d = [lists |-> d.lists, counters |-> d.counters],
         DOMAIN d.lists = Tables, DOMAIN d.counters = Tables,
         \A u \in Tables : u # t => d.lists[u] = c.lists[u] /\ d.counters[u] = c.counters[u],
         ListOK(d.lists[t], d.counters[t])
  PROVE  ListsOK(d)
BY DEF ListsOK

LEMMA StoreIs ==
  ASSUME NEW c, ListsOK(c), NEW t \in Tables, NEW k, NEW info
  PROVE  /\ ListsOK(Store(c, t, k, info))
         /\ Store(c, t, k, info).lists[t] = Put(c.lists[t], k, Unmarked(info))
         /\ Store(c, t, k, info).counters = c.counters
         /\ Store(c, t, k, info) =
              [lists |-> [c.lists EXCEPT ![t] = Put(c.lists[t], k, Unmarked(info))],
               counters |-> c.counters]
<1> DEFINE old == c.lists[t]
           new == Put(old, k, Unmarked(info))
           d == Store(c, t, k, info)
<1>1. d = [lists |-> [c.lists EXCEPT ![t] = new], counters |-> c.counters]
  BY DEF Store, ListsOK
<1>2. ListOK(old, c.counters[t])
  BY DEF ListsOK
<1>3. /\ DOMAIN new = DOMAIN old \cup {k}
      /\ new[k] = [info |-> info, deleted |-> FALSE]
      /\ \A x \in DOMAIN old : x # k => new[x] = old[x]
  BY DEF Put, Unmarked
<1> HIDE DEF old, new
<1>4. IsFiniteSet(DOMAIN new)
  BY <1>2, <1>3, FS_AddElement DEF ListOK
<1>5. /\ \A x \in DOMAIN new : "deleted" \in DOMAIN new[x]
      /\ \A x \in DOMAIN new : new[x].deleted => x \in DOMAIN old /\ old[x].deleted
  BY <1>2, <1>3 DEF ListOK
<1>6. ListOK(new, c.counters[t])
  BY <1>2, <1>4, <1>5, FewerMarks DEF ListOK
<1>7. ListsOK(d)
  BY <1>1, <1>6, ListsChange DEF ListsOK
<1> QED
  BY <1>1, <1>7 DEF new, old, ListsOK

\* What Mark() and Erase() do to a list and its counter.
LEMMA MarkUpdates ==
  ASSUME NEW c, NEW L, NEW C, c = [lists |-> L, counters |-> C],
         NEW t, t \in DOMAIN L, t \in DOMAIN C, NEW K
  PROVE  LET d == Mark(c, t, K)
         IN /\ d = [lists |-> d.lists, counters |-> d.counters]
            /\ DOMAIN d.lists = DOMAIN L /\ DOMAIN d.counters = DOMAIN C
            /\ \A u \in DOMAIN L : u # t => d.lists[u] = L[u]
            /\ \A u \in DOMAIN C : u # t => d.counters[u] = C[u]
            /\ d.counters[t] = C[t] + Cardinality(K)
            /\ DOMAIN d.lists[t] = DOMAIN L[t]
            /\ \A k \in DOMAIN L[t] : /\ k \notin K => d.lists[t][k] = L[t][k]
                                      /\ DOMAIN d.lists[t][k] = DOMAIN L[t][k]
            /\ \A k \in DOMAIN L[t] \cap K : d.lists[t][k] = [L[t][k] EXCEPT !.deleted = TRUE]
<1> DEFINE new == [k \in DOMAIN L[t] |->
                     IF k \in K THEN [L[t][k] EXCEPT !.deleted = TRUE] ELSE L[t][k]]
<1>1. Mark(c, t, K) = [[c EXCEPT !.lists[t] = new] EXCEPT !.counters[t] = C[t] + Cardinality(K)]
  BY DEF Mark
<1>2. /\ DOMAIN new = DOMAIN L[t]
      /\ \A k \in DOMAIN L[t] : /\ k \notin K => new[k] = L[t][k]
                                /\ DOMAIN new[k] = DOMAIN L[t][k]
      /\ \A k \in DOMAIN L[t] \cap K : new[k] = [L[t][k] EXCEPT !.deleted = TRUE]
  OBVIOUS
<1> HIDE DEF new
<1> DEFINE e == [c EXCEPT !.lists[t] = new]
<1>3. e = [lists |-> [L EXCEPT ![t] = new], counters |-> C]
  OBVIOUS
<1> DEFINE M == [L EXCEPT ![t] = new]
<1>4. DOMAIN M = DOMAIN L /\ M[t] = new /\ \A u \in DOMAIN L : u # t => M[u] = L[u]
  OBVIOUS
<1> HIDE DEF M
<1> DEFINE d == Mark(c, t, K)
           N == [C EXCEPT ![t] = C[t] + Cardinality(K)]
<1>5. d = [lists |-> M, counters |-> N]
  BY <1>1, <1>3 DEF M
<1>6. DOMAIN N = DOMAIN C /\ N[t] = C[t] + Cardinality(K) /\ \A u \in DOMAIN C : u # t => N[u] = C[u]
  OBVIOUS
<1> HIDE DEF d, N
<1>7. d.lists = M /\ d.counters = N /\ d = [lists |-> d.lists, counters |-> d.counters]
  BY <1>5
<1> QED
  BY <1>2, <1>4, <1>6, <1>7 DEF d

LEMMA EraseUpdates ==
  ASSUME NEW c, NEW L, NEW C, c = [lists |-> L, counters |-> C],
         NEW t, t \in DOMAIN L, t \in DOMAIN C, NEW K
  PROVE  LET d == Erase(c, t, K)
         IN /\ d = [lists |-> d.lists, counters |-> d.counters]
            /\ DOMAIN d.lists = DOMAIN L /\ DOMAIN d.counters = DOMAIN C
            /\ \A u \in DOMAIN L : u # t => d.lists[u] = L[u]
            /\ \A u \in DOMAIN C : u # t => d.counters[u] = C[u]
            /\ d.counters[t] = C[t] + Cardinality(K)
            /\ DOMAIN d.lists[t] = DOMAIN L[t] \ K
            /\ \A k \in DOMAIN d.lists[t] : d.lists[t][k] = L[t][k]
<1> DEFINE new == Without(L[t], K)
<1>1. Erase(c, t, K) = [[c EXCEPT !.lists[t] = new] EXCEPT !.counters[t] = C[t] + Cardinality(K)]
  BY DEF Erase
<1>2. DOMAIN new = DOMAIN L[t] \ K /\ \A k \in DOMAIN new : new[k] = L[t][k]
  BY DEF Without
<1> HIDE DEF new
<1> DEFINE e == [c EXCEPT !.lists[t] = new]
<1>3. e = [lists |-> [L EXCEPT ![t] = new], counters |-> C]
  OBVIOUS
<1> DEFINE M == [L EXCEPT ![t] = new]
<1>4. DOMAIN M = DOMAIN L /\ M[t] = new /\ \A u \in DOMAIN L : u # t => M[u] = L[u]
  OBVIOUS
<1> HIDE DEF M
<1>5. Erase(c, t, K) = [lists |-> M, counters |-> [C EXCEPT ![t] = C[t] + Cardinality(K)]]
  BY <1>1, <1>3 DEF M
<1> QED
  BY <1>2, <1>4, <1>5

LEMMA MarkIs ==
  ASSUME NEW c, ListsOK(c), NEW t \in Tables, NEW K, IsFiniteSet(K)
  PROVE  ListsOK(Mark(c, t, K)) /\ DOMAIN Mark(c, t, K).lists[t] = DOMAIN c.lists[t]
<1> DEFINE old == c.lists[t]
           n == c.counters[t]
           d == Mark(c, t, K)
           new == d.lists[t]
           m == d.counters[t]
<1>0. /\ c = [lists |-> c.lists, counters |-> c.counters]
      /\ DOMAIN c.lists = Tables /\ DOMAIN c.counters = Tables
  BY DEF ListsOK
<1>1. /\ d = [lists |-> d.lists, counters |-> d.counters]
      /\ DOMAIN d.lists = Tables /\ DOMAIN d.counters = Tables
      /\ \A u \in Tables : u # t => d.lists[u] = c.lists[u] /\ d.counters[u] = c.counters[u]
      /\ m = n + Cardinality(K)
      /\ DOMAIN new = DOMAIN old
      /\ \A k \in DOMAIN old : k \notin K => new[k] = old[k]
      /\ \A k \in DOMAIN old : DOMAIN new[k] = DOMAIN old[k]
  BY <1>0, MarkUpdates
<1>2. ListOK(old, n)
  BY DEF ListsOK
<1> HIDE DEF old, n, d, new, m
<1>4. \A k \in DOMAIN new : "deleted" \in DOMAIN new[k]
  BY <1>1, <1>2 DEF ListOK
<1>5. Marked(new) \subseteq Marked(old) \cup K
  BY <1>1, <1>2, MarkedIs DEF ListOK
<1>6. /\ IsFiniteSet(Marked(old)) /\ Cardinality(Marked(old)) \in Nat
      /\ Cardinality(Marked(new)) \in Nat /\ Cardinality(K) \in Nat
  BY <1>1, <1>2, MarkedIs, FS_CardinalityType DEF ListOK
<1>7. /\ IsFiniteSet(Marked(old) \cup K)
      /\ Cardinality(Marked(old) \cup K) \in Nat
      /\ Cardinality(Marked(old) \cup K) <= Cardinality(Marked(old)) + Cardinality(K)
  <2>1. IsFiniteSet(Marked(old) \cap K)
    BY <1>6, FS_Subset
  <2>2. Cardinality(Marked(old) \cap K) \in Nat
    BY <2>1, FS_CardinalityType
  <2>3. /\ IsFiniteSet(Marked(old) \cup K)
        /\ Cardinality(Marked(old) \cup K)
             = Cardinality(Marked(old)) + Cardinality(K) - Cardinality(Marked(old) \cap K)
    BY <1>6, FS_Union
  <2>4. Cardinality(Marked(old) \cup K) \in Nat
    BY <2>3, FS_CardinalityType
  <2> QED
    BY <1>6, <2>2, <2>3, <2>4
<1>8. Cardinality(Marked(new)) <= Cardinality(Marked(old) \cup K)
  BY <1>5, <1>7, FS_Subset
<1>9. ListOK(new, m)
  BY <1>1, <1>2, <1>4, <1>6, <1>7, <1>8 DEF ListOK
<1>10. ListsOK(d)
  BY <1>1, <1>9, ListsChange DEF new, m
<1> QED
  BY <1>1, <1>10 DEF old, new, d

LEMMA EraseIs ==
  ASSUME NEW c, ListsOK(c), NEW t \in Tables, NEW K, IsFiniteSet(K)
  PROVE  ListsOK(Erase(c, t, K))
<1> DEFINE old == c.lists[t]
           n == c.counters[t]
           d == Erase(c, t, K)
           new == d.lists[t]
           m == d.counters[t]
<1>0. /\ c = [lists |-> c.lists, counters |-> c.counters]
      /\ DOMAIN c.lists = Tables /\ DOMAIN c.counters = Tables
  BY DEF ListsOK
<1>1. /\ d = [lists |-> d.lists, counters |-> d.counters]
      /\ DOMAIN d.lists = Tables /\ DOMAIN d.counters = Tables
      /\ \A u \in Tables : u # t => d.lists[u] = c.lists[u] /\ d.counters[u] = c.counters[u]
      /\ m = n + Cardinality(K)
      /\ DOMAIN new \subseteq DOMAIN old /\ \A k \in DOMAIN new : new[k] = old[k]
  BY <1>0, EraseUpdates
<1>2. ListOK(old, n)
  BY DEF ListsOK
<1> HIDE DEF old, n, d, new, m
<1>4. m \in Nat /\ n <= m
  BY <1>1, <1>2, FS_CardinalityType DEF ListOK
<1>5. IsFiniteSet(DOMAIN new)
  BY <1>1, <1>2, FS_Subset DEF ListOK
<1>6. \A k \in DOMAIN new : "deleted" \in DOMAIN new[k]
  BY <1>1, <1>2 DEF ListOK
<1>7. \A k \in DOMAIN new : new[k].deleted => k \in DOMAIN old /\ old[k].deleted
  BY <1>1
<1>8. ListOK(new, m)
  BY <1>2, <1>4, <1>5, <1>6, <1>7, FewerMarks
<1>9. ListsOK(d)
  BY <1>1, <1>8, ListsChange DEF new, m
<1> QED
  BY <1>9 DEF d

\* The sets of records that are marked and erased are finite.
LEMMA SomeRecords ==
  ASSUME NEW c, ListsOK(c), NEW t \in Tables
  PROVE  /\ \A field, id : IsFiniteSet(Where(c.lists[t], field, id))
         /\ \A K : IsFiniteSet(K \cap DOMAIN c.lists[t])
         /\ IsFiniteSet(Marked(c.lists[t]))
         /\ \A K : K \subseteq DOMAIN c.lists[t] => IsFiniteSet(K)
<1>1. IsFiniteSet(DOMAIN c.lists[t])
  BY DEF ListsOK, ListOK
<1>2. \A K : K \subseteq DOMAIN c.lists[t] => IsFiniteSet(K)
  BY <1>1, FS_Subset
<1> QED
  BY <1>1, <1>2, MarkedIs DEF Where

LEMMA MarkByIs ==
  ASSUME NEW c, ListsOK(c), NEW t \in Tables, NEW field, NEW id
  PROVE  ListsOK(MarkBy(c, t, field, id))
BY MarkIs, SomeRecords DEF MarkBy

LEMMA MarkOneIs ==
  ASSUME NEW c, ListsOK(c), NEW t \in Tables, NEW k
  PROVE  ListsOK(MarkOne(c, t, k))
<1>1. {k} \cap Live(c.lists[t]) \subseteq DOMAIN c.lists[t]
  BY DEF Live
<1>2. IsFiniteSet({k} \cap Live(c.lists[t]))
  BY <1>1, SomeRecords
<1> QED
  BY <1>2, MarkIs DEF MarkOne

\* A record takes the place of a marked one, which is taken off the counter.
LEMMA ReviveIs ==
  ASSUME NEW c, ListsOK(c), NEW r
  PROVE  ListsOK(addOrReplaceContent(r, c))
<1> DEFINE k == Key(r)
           s == Store(c, "contents", k, r)
           d == addOrReplaceContent(r, c)
           old == c.lists["contents"]
           n == c.counters["contents"]
           new == Put(old, k, Unmarked(r))
           m == IF k \in DOMAIN old /\ n > 0 THEN n - 1 ELSE n
<1>1. CASE k \in Live(old)
  <2>1. d = c
    BY <1>1 DEF addOrReplaceContent
  <2> QED
    BY <2>1
<1>2. CASE k \notin Live(old)
  <2>0. "contents" \in Tables
    BY TablesAre
  <2>1. /\ s.lists["contents"] = new /\ s.counters = c.counters /\ ListsOK(s)
        /\ s = [lists |-> s.lists, counters |-> s.counters]
        /\ \A u \in Tables : u # "contents" => s.lists[u] = c.lists[u]
    BY <2>0, StoreIs DEF ListsOK
  <2>2. d = [s EXCEPT !.counters.contents = m]
    BY <1>2, <2>1 DEF addOrReplaceContent
  <2> HIDE DEF s, m, d
  <2>3. /\ d = [lists |-> d.lists, counters |-> d.counters]
        /\ d.lists = s.lists /\ DOMAIN d.counters = DOMAIN s.counters
        /\ \A u \in Tables : u # "contents" => d.counters[u] = c.counters[u]
        /\ "contents" \in DOMAIN s.counters => d.counters["contents"] = m
    <3>1. PICK L, C : s = [lists |-> L, counters |-> C]
      BY <2>1
    <3>2. d = [lists |-> L, counters |-> [C EXCEPT !["contents"] = m]]
      BY <2>2, <3>1
    <3> QED
      BY <2>1, <3>1, <3>2
  <2>4. /\ DOMAIN d.lists = Tables /\ DOMAIN d.counters = Tables
        /\ d.lists["contents"] = new /\ d.counters["contents"] = m
    BY <2>0, <2>1, <2>3 DEF ListsOK
  <2>5. ListOK(old, n) /\ ListOK(new, n)
    BY <2>0, <2>1 DEF ListsOK
  <2>6. ListOK(new, m)
    <3>1. CASE k \notin DOMAIN old
      BY <2>5, <3>1 DEF m
    <3>2. CASE k \in DOMAIN old
      <4>1. /\ new[k].deleted = FALSE /\ DOMAIN new = DOMAIN old
            /\ \A x \in DOMAIN old : x # k => new[x] = old[x]
        BY <3>2 DEF Put, Unmarked
      <4> HIDE DEF new, old, n, k
      <4>2. k \in Marked(old)
        BY <1>2, <3>2 DEF Marked
      <4>3. Marked(new) \subseteq Marked(old) \ {k}
        BY <2>5, <4>1, MarkedIs DEF ListOK
      <4>4. /\ IsFiniteSet(Marked(old)) /\ Cardinality(Marked(old)) \in Nat
            /\ Cardinality(Marked(new)) \in Nat
        BY <2>5, MarkedIs DEF ListOK
      <4>5. /\ IsFiniteSet(Marked(old) \ {k})
            /\ Cardinality(Marked(old) \ {k}) = Cardinality(Marked(old)) - 1
        BY <4>2, <4>4, FS_RemoveElement
      <4>6. Cardinality(Marked(new)) <= Cardinality(Marked(old)) - 1
        BY <4>3, <4>5, FS_Subset
      <4>7. n \in Nat /\ Cardinality(Marked(old)) <= n
        BY <2>5 DEF ListOK
      <4>8. m = n - 1 /\ m \in Nat /\ Cardinality(Marked(new)) <= m
        BY <3>2, <4>4, <4>6, <4>7 DEF m
      <4> QED
        BY <2>5, <4>8 DEF ListOK
    <3> QED
      BY <3>1, <3>2
  <2>7. \A u \in Tables : u # "contents" => d.lists[u] = c.lists[u] /\ d.counters[u] = c.counters[u]
    BY <2>1, <2>3
  <2>8. ListsOK(d)
    BY <2>0, <2>3, <2>4, <2>6, <2>7, ListsChange
  <2> QED
    BY <2>8 DEF d
<1> QED
  BY <1>1, <1>2 DEF d

\* The records are added one after the other.
LEMMA FoldRuns ==
  ASSUME NEW c, NEW S, IsFiniteSet(S)
  PROVE  \E run : /\ run[{}] = c
                  /\ \A s \in SUBSET S : s # {} =>
                       \E x \in s : run[s] = addOrReplaceContent(x, run[s \ {x}])
                  /\ run[S] = FoldSet(addOrReplaceContent, c, S)
<1> DEFINE pick(s) == CHOOSE x \in s : TRUE
           B(g, s) == IF s = {} THEN c ELSE addOrReplaceContent(pick(s), g[s \ {pick(s)}])
           f == CHOOSE g : g = [s \in SUBSET S |-> B(g, s)]
           D(n) == {s \in SUBSET S : Cardinality(s) <= n}
           E == {n \in Nat : \E g : g = [s \in D(n) |-> B(g, s)]}
<1>1. FoldSet(addOrReplaceContent, c, S) = f[S]
  BY DEF FoldSet, MapThenFoldSet
<1>2. Cardinality(S) \in E
  <2>0. \A s \in SUBSET S : IsFiniteSet(s) /\ Cardinality(s) \in Nat
    BY FS_Subset, FS_CardinalityType
  <2>1. 0 \in E
    <3> DEFINE g == [s \in D(0) |-> c]
    <3>1. \A s \in D(0) : s = {}
      BY <2>0, FS_EmptySet
    <3>2. g = [s \in D(0) |-> B(g, s)]
      BY <3>1
    <3> QED
      BY <3>2
  <2>2. ASSUME NEW n \in Nat, n \in E PROVE n + 1 \in E
    <3>1. PICK g : g = [s \in D(n) |-> B(g, s)]
      BY <2>2
    <3> DEFINE h == [s \in D(n + 1) |-> IF Cardinality(s) = n + 1 THEN B(g, s) ELSE g[s]]
    <3>2. ASSUME NEW s \in D(n + 1) PROVE h[s] = B(h, s)
      <4>1. CASE s = {}
        <5>1. Cardinality(s) = 0 /\ s \in D(n)
          BY <4>1, FS_EmptySet
        <5>2. h[s] = g[s] /\ g[s] = c
          BY <3>1, <4>1, <5>1
        <5> QED
          BY <4>1, <5>2
      <4>2. CASE s # {}
        <5>1. pick(s) \in s
          BY <4>2
        <5> DEFINE x == pick(s)
        <5> HIDE DEF pick
        <5>2. /\ IsFiniteSet(s) /\ Cardinality(s) \in Nat /\ Cardinality(s) <= n + 1
              /\ Cardinality(s \ {x}) = Cardinality(s) - 1 /\ s \ {x} \in SUBSET S
          BY <2>0, <5>1, FS_RemoveElement
        <5>3. s \ {x} \in D(n) /\ s \ {x} \in D(n + 1) /\ Cardinality(s \ {x}) # n + 1
          BY <5>2
        <5>4. h[s \ {x}] = g[s \ {x}]
          BY <5>3
        <5>5. h[s] = B(g, s)
          <6>1. CASE Cardinality(s) = n + 1
            BY <6>1
          <6>2. CASE Cardinality(s) # n + 1
            <7>1. s \in D(n)
              BY <5>2, <6>2
            <7> QED
              BY <3>1, <6>2, <7>1
          <6> QED
            BY <6>1, <6>2
        <5> HIDE DEF h
        <5> QED
          BY <4>2, <5>4, <5>5
      <4> QED
        BY <4>1, <4>2
    <3>3. h = [s \in D(n + 1) |-> h[s]]
      OBVIOUS
    <3> HIDE DEF h
    <3>4. h = [s \in D(n + 1) |-> B(h, s)]
      BY <3>2, <3>3
    <3>5. \E gg : gg = [s \in D(n + 1) |-> B(gg, s)]
      BY <3>4
    <3>6. n + 1 \in Nat
      OBVIOUS
    <3> HIDE DEF B, D
    <3> QED
      BY <3>5, <3>6
  <2>3. Cardinality(S) \in Nat
    BY FS_CardinalityType
  <2> HIDE DEF E
  <2> QED
    BY <2>1, <2>2, <2>3, NatSetInduction
<1>3. D(Cardinality(S)) = SUBSET S
  BY FS_Subset
<1>4. \E g : g = [s \in SUBSET S |-> B(g, s)]
  <2> HIDE DEF B, D
  <2> QED
    BY <1>2, <1>3
<1>5. f = [s \in SUBSET S |-> B(f, s)]
  BY <1>4
<1> HIDE DEF f
<1>6. f[{}] = c
  BY <1>5
<1>7. ASSUME NEW s \in SUBSET S, s # {}
      PROVE  \E x \in s : f[s] = addOrReplaceContent(x, f[s \ {x}])
  <2>1. pick(s) \in s
    BY <1>7
  <2> HIDE DEF pick
  <2>2. f[s] = B(f, s)
    BY <1>5
  <2>3. f[s] = addOrReplaceContent(pick(s), f[s \ {pick(s)}])
    BY <1>7, <2>2
  <2> QED
    BY <2>1, <2>3
<1> QED
  BY <1>1, <1>6, <1>7

LEMMA FoldIs ==
  ASSUME NEW c, ListsOK(c), NEW S, IsFiniteSet(S)
  PROVE  ListsOK(FoldSet(addOrReplaceContent, c, S))
<1>1. PICK run : /\ run[{}] = c
                 /\ \A s \in SUBSET S : s # {} =>
                      \E x \in s : run[s] = addOrReplaceContent(x, run[s \ {x}])
                 /\ run[S] = FoldSet(addOrReplaceContent, c, S)
  BY FoldRuns
<1> DEFINE I == {n \in Nat : \A s \in SUBSET S : Cardinality(s) = n => ListsOK(run[s])}
<1>2. 0 \in I
  <2>1. ASSUME NEW s \in SUBSET S, Cardinality(s) = 0 PROVE ListsOK(run[s])
    <3>1. s = {}
      BY <2>1, FS_Subset, FS_EmptySet
    <3> QED
      BY <1>1, <3>1
  <2> QED
    BY <2>1
<1>3. ASSUME NEW n \in Nat, n \in I PROVE n + 1 \in I
  <2>1. ASSUME NEW s \in SUBSET S, Cardinality(s) = n + 1 PROVE ListsOK(run[s])
    <3>1. s # {} /\ IsFiniteSet(s)
      BY <2>1, FS_Subset, FS_EmptySet
    <3>2. PICK x \in s : run[s] = addOrReplaceContent(x, run[s \ {x}])
      BY <1>1, <3>1
    <3>3. Cardinality(s \ {x}) = n /\ s \ {x} \in SUBSET S
      <4>1. Cardinality(s \ {x}) = Cardinality(s) - 1
        BY <3>1, FS_RemoveElement
      <4> QED
        BY <2>1, <4>1
    <3>4. ListsOK(run[s \ {x}])
      BY <1>3, <3>3
    <3> QED
      BY <3>2, <3>4, ReviveIs
  <2> QED
    BY <2>1
<1>4. Cardinality(S) \in I
  <2>1. Cardinality(S) \in Nat
    BY FS_CardinalityType
  <2> HIDE DEF I
  <2> QED
    BY <1>2, <1>3, <2>1, NatSetInduction
<1>5. ListsOK(run[S])
  BY <1>4
<1> QED
  BY <1>1, <1>5

-----------------------------------------------------------------------------
(* The handlers of the events.                                              *)

LEMMA NothingOK == ASSUME NEW list, NEW n, ListOK(list, n) PROVE ListOK(Nothing, n)
BY NothingIs, FewerMarks, FS_EmptySet DEF ListOK

LEMMA ClearIs == ASSUME NEW c, ListsOK(c) PROVE ListsOK(event_clear(c))
<1> DEFINE d == event_clear(c)
<1>1. PICK L, C : c = [lists |-> L, counters |-> C]
  BY DEF ListsOK
<1>2. d = [lists |-> [t \in Tables |-> IF t = "geometries" THEN L[t] ELSE Nothing],
           counters |-> C]
  BY <1>1 DEF event_clear
<1>3. \A t \in Tables : ListOK(L[t], C[t]) /\ ListOK(Nothing, C[t])
  BY <1>1, NothingOK DEF ListsOK
<1> QED
  BY <1>1, <1>2, <1>3 DEF ListsOK

\* The status of a record changes, and its mark does not.
LEMMA GenerationStatusIs ==
  ASSUME NEW c, ListsOK(c), NEW g, g \in DOMAIN c.lists.generations, NEW status
  PROVE  ListsOK([c EXCEPT !.lists.generations[g].info.status = status])
<1> DEFINE d == [c EXCEPT !.lists.generations[g].info.status = status]
           new == d.lists["generations"]
           old == c.lists["generations"]
<1>0. "generations" \in Tables
  BY TablesAre
<1>1. PICK L, C : c = [lists |-> L, counters |-> C]
  BY DEF ListsOK
<1> DEFINE l == [L["generations"] EXCEPT ![g].info.status = status]
<1>2. /\ DOMAIN l = DOMAIN old
      /\ \A k \in DOMAIN old : k # g => l[k] = old[k]
      /\ DOMAIN l[g] = DOMAIN old[g]
      /\ "deleted" \in DOMAIN old[g] => l[g].deleted = old[g].deleted
  BY <1>1
<1>3. d = [lists |-> [L EXCEPT !["generations"] = l], counters |-> C]
  BY <1>1
<1> HIDE DEF l
<1>4. /\ d = [lists |-> d.lists, counters |-> d.counters]
      /\ DOMAIN d.lists = Tables /\ DOMAIN d.counters = Tables
      /\ \A u \in Tables : u # "generations" => d.lists[u] = c.lists[u] /\ d.counters[u] = c.counters[u]
      /\ new = l /\ d.counters["generations"] = c.counters["generations"]
  BY <1>0, <1>1, <1>3 DEF ListsOK
<1>5. ListOK(old, c.counters["generations"])
  BY <1>0 DEF ListsOK
<1> HIDE DEF d, old
<1>6. ListOK(new, d.counters["generations"])
  BY <1>2, <1>4, <1>5, FewerMarks DEF ListOK
<1>7. ListsOK(d)
  BY <1>0, <1>4, <1>6, ListsChange
<1> QED
  BY <1>7 DEF d

LEMMA GeometryStatusIs ==
  ASSUME NEW c, ListsOK(c), NEW k, k \in DOMAIN c.lists.geometries, NEW status
  PROVE  ListsOK([c EXCEPT !.lists.geometries[k].info.status = status])
<1> DEFINE d == [c EXCEPT !.lists.geometries[k].info.status = status]
           new == d.lists["geometries"]
           old == c.lists["geometries"]
<1>0. "geometries" \in Tables
  BY TablesAre
<1>1. PICK L, C : c = [lists |-> L, counters |-> C]
  BY DEF ListsOK
<1> DEFINE l == [L["geometries"] EXCEPT ![k].info.status = status]
<1>2. /\ DOMAIN l = DOMAIN old
      /\ \A x \in DOMAIN old : x # k => l[x] = old[x]
      /\ DOMAIN l[k] = DOMAIN old[k]
      /\ "deleted" \in DOMAIN old[k] => l[k].deleted = old[k].deleted
  BY <1>1
<1>3. d = [lists |-> [L EXCEPT !["geometries"] = l], counters |-> C]
  BY <1>1
<1> HIDE DEF l
<1>4. /\ d = [lists |-> d.lists, counters |-> d.counters]
      /\ DOMAIN d.lists = Tables /\ DOMAIN d.counters = Tables
      /\ \A u \in Tables : u # "geometries" => d.lists[u] = c.lists[u] /\ d.counters[u] = c.counters[u]
      /\ new = l /\ d.counters["geometries"] = c.counters["geometries"]
  BY <1>0, <1>1, <1>3 DEF ListsOK
<1>5. ListOK(old, c.counters["geometries"])
  BY <1>0 DEF ListsOK
<1> HIDE DEF d, old
<1>6. ListOK(new, d.counters["geometries"])
  BY <1>2, <1>4, <1>5, FewerMarks DEF ListOK
<1>7. ListsOK(d)
  BY <1>0, <1>4, <1>6, ListsChange
<1> QED
  BY <1>7 DEF d

\* Records of the content go without a count.
LEMMA ContentWithout ==
  ASSUME NEW c, ListsOK(c), NEW K
  PROVE  ListsOK([c EXCEPT !.lists.contents = Without(@, K)])
<1> DEFINE d == [c EXCEPT !.lists.contents = Without(@, K)]
           new == d.lists["contents"]
           old == c.lists["contents"]
<1>0. "contents" \in Tables
  BY TablesAre
<1>1. PICK L, C : c = [lists |-> L, counters |-> C]
  BY DEF ListsOK
<1> DEFINE l == Without(L["contents"], K)
<1>2. DOMAIN l \subseteq DOMAIN old /\ \A k \in DOMAIN l : l[k] = old[k]
  BY <1>1 DEF Without
<1>3. d = [lists |-> [L EXCEPT !["contents"] = l], counters |-> C]
  BY <1>1
<1> HIDE DEF l
<1>4. /\ d = [lists |-> d.lists, counters |-> d.counters]
      /\ DOMAIN d.lists = Tables /\ DOMAIN d.counters = Tables
      /\ \A u \in Tables : u # "contents" => d.lists[u] = c.lists[u] /\ d.counters[u] = c.counters[u]
      /\ new = l /\ d.counters["contents"] = c.counters["contents"]
  BY <1>0, <1>1, <1>3 DEF ListsOK
<1>5. ListOK(old, c.counters["contents"])
  BY <1>0 DEF ListsOK
<1> HIDE DEF d, old
<1>6. IsFiniteSet(DOMAIN new)
  BY <1>2, <1>4, <1>5, FS_Subset DEF ListOK
<1>7. ListOK(new, d.counters["contents"])
  BY <1>2, <1>4, <1>5, <1>6, FewerMarks DEF ListOK
<1>8. ListsOK(d)
  BY <1>0, <1>4, <1>7, ListsChange
<1> QED
  BY <1>8 DEF d

LEMMA StoreOK ==
  ASSUME NEW c, ListsOK(c), NEW t \in Tables, NEW k, NEW info
  PROVE  ListsOK(Store(c, t, k, info))
BY StoreIs

LEMMA ProducerHandlers ==
  ASSUME NEW c, ListsOK(c), NEW p
  PROVE  /\ ListsOK(event_producerAdded(c, p))
         /\ ListsOK(event_producerUpdated(c, p))
         /\ ListsOK(event_producerDeleted(c, p))
<1>1. ListsOK(event_producerAdded(c, p))
  BY TablesAre, StoreOK DEF event_producerAdded
<1>2. ListsOK(event_producerUpdated(c, p))
  BY TablesAre, StoreOK DEF event_producerUpdated
<1>3. ListsOK(event_producerDeleted(c, p))
  <2> DEFINE c1 == MarkBy(c, "contents", "producer", p)
             c2 == MarkBy(c1, "files", "producer", p)
             c3 == MarkBy(c2, "geometries", "producer", p)
             c4 == MarkBy(c3, "generations", "producer", p)
  <2>1. ListsOK(c1)
    BY TablesAre, MarkByIs
  <2> HIDE DEF c1
  <2>2. ListsOK(c2)
    BY <2>1, TablesAre, MarkByIs
  <2> HIDE DEF c2
  <2>3. ListsOK(c3)
    BY <2>2, TablesAre, MarkByIs
  <2> HIDE DEF c3
  <2>4. ListsOK(c4)
    BY <2>3, TablesAre, MarkByIs
  <2> HIDE DEF c4
  <2>5. ListsOK(MarkOne(c4, "producers", p))
    BY <2>4, TablesAre, MarkOneIs
  <2> QED
    BY <2>5 DEF c1, c2, c3, c4, event_producerDeleted
<1> QED
  BY <1>1, <1>2, <1>3

LEMMA GenerationHandlers ==
  ASSUME NEW c, ListsOK(c), NEW g, NEW status, NEW ok
  PROVE  /\ ListsOK(event_generationAdded(c, g, ok))
         /\ ListsOK(event_generationUpdated(c, g, ok))
         /\ ListsOK(event_generationStatusChanged(c, g, status, ok))
         /\ ListsOK(event_generationDeleted(c, g))
         /\ ListsOK(event_generationListDeletedByProducerId(c, g))
<1>0. \A info : ListsOK(addGenerationToList(c, g, info))
  BY TablesAre, StoreOK DEF addGenerationToList
<1>1. ListsOK(event_generationAdded(c, g, ok))
  BY <1>0 DEF event_generationAdded
<1>2. ListsOK(event_generationUpdated(c, g, ok))
  BY <1>0, TablesAre, StoreOK DEF event_generationUpdated
<1>3. ListsOK(event_generationStatusChanged(c, g, status, ok))
  <2>1. CASE g \in Live(c.lists.generations)
    <3>1. ListsOK([c EXCEPT !.lists.generations[g].info.status = status])
      BY <2>1, GenerationStatusIs DEF Live
    <3> QED
      BY <2>1, <3>1 DEF event_generationStatusChanged
  <2>2. CASE g \notin Live(c.lists.generations)
    BY <1>0, <2>2 DEF event_generationStatusChanged
  <2> QED
    BY <2>1, <2>2
<1>4. ListsOK(event_generationDeleted(c, g))
  <2> DEFINE c1 == MarkBy(c, "contents", "generation", g)
             c2 == MarkBy(c1, "files", "generation", g)
             c3 == MarkBy(c2, "geometries", "generation", g)
             K == {g} \cap DOMAIN c.lists.generations
  <2>0. IsFiniteSet(K)
    BY TablesAre, SomeRecords
  <2>1. ListsOK(c1)
    BY TablesAre, MarkByIs
  <2> HIDE DEF c1, K
  <2>2. ListsOK(c2)
    BY <2>1, TablesAre, MarkByIs
  <2> HIDE DEF c2
  <2>3. ListsOK(c3)
    BY <2>2, TablesAre, MarkByIs
  <2> HIDE DEF c3
  <2>4. ListsOK(Erase(c3, "generations", K))
    BY <2>0, <2>3, TablesAre, EraseIs
  <2> QED
    BY <2>4 DEF c1, c2, c3, K, event_generationDeleted
<1>5. ListsOK(event_generationListDeletedByProducerId(c, g))
  <2> DEFINE gone(t) == Where(c.lists[t], "producer", g)
             K1 == gone("contents") \cup Marked(c.lists.contents)
             K2 == gone("files") \cup Marked(c.lists.files)
             K3 == gone("geometries")
             K4 == gone("generations")
             c1 == Erase(c, "contents", K1)
             c2 == Erase(c1, "files", K2)
             c3 == Erase(c2, "geometries", K3)
  <2>1. IsFiniteSet(K1) /\ IsFiniteSet(K2) /\ IsFiniteSet(K3) /\ IsFiniteSet(K4)
    <3>1. \A t \in Tables : IsFiniteSet(gone(t)) /\ IsFiniteSet(Marked(c.lists[t]))
      BY SomeRecords
    <3>2. \A t \in Tables : IsFiniteSet(gone(t) \cup Marked(c.lists[t]))
      BY <3>1, FS_Union
    <3> QED
      BY <3>1, <3>2, TablesAre
  <2> HIDE DEF K1, K2, K3, K4
  <2>2. ListsOK(c1)
    BY <2>1, TablesAre, EraseIs
  <2> HIDE DEF c1
  <2>3. ListsOK(c2)
    BY <2>1, <2>2, TablesAre, EraseIs
  <2> HIDE DEF c2
  <2>4. ListsOK(c3)
    BY <2>1, <2>3, TablesAre, EraseIs
  <2> HIDE DEF c3
  <2>5. ListsOK(Erase(c3, "generations", K4))
    BY <2>1, <2>4, TablesAre, EraseIs
  <2> QED
    BY <2>5 DEF c1, c2, c3, K1, K2, K3, K4, event_generationListDeletedByProducerId
<1> QED
  BY <1>1, <1>2, <1>3, <1>4, <1>5

LEMMA GeometryHandlers ==
  ASSUME NEW c, ListsOK(c), NEW e
  PROVE  ListsOK(processGeometryEvent(c, e))
<1> DEFINE k == EventGeometry(e)
<1>1. ListsOK(event_geometryAdded(c, k))
  BY TablesAre, StoreOK DEF event_geometryAdded
<1>2. ListsOK(event_geometryUpdated(c, k))
  BY TablesAre, StoreOK DEF event_geometryUpdated
<1>3. ListsOK(event_geometryStatusChanged(c, k, e.flags))
  <2>1. CASE k \in Live(c.lists.geometries)
    <3>1. ListsOK([c EXCEPT !.lists.geometries[k].info.status = e.flags])
      BY <2>1, GeometryStatusIs DEF Live
    <3> QED
      BY <2>1, <3>1 DEF event_geometryStatusChanged
  <2>2. CASE k \notin Live(c.lists.geometries)
    BY <2>2 DEF event_geometryStatusChanged
  <2> QED
    BY <2>1, <2>2
<1>4. ListsOK(event_geometryDeleted(c, e.id1, e.id2, e.id3))
  <2> DEFINE list == c.lists.contents
             gone == {x \in Where(list, "generation", e.id1) :
                        GeometryOf[list[x].info.message][1] = e.id2}
             K == {<<e.id1, <<e.id2, e.id3>>>>} \cap DOMAIN c.lists.geometries
             d == Mark(c, "contents", gone)
  <2>1. IsFiniteSet(gone)
    <3>1. gone \subseteq DOMAIN list
      BY DEF Where
    <3> QED
      BY <3>1, TablesAre, SomeRecords
  <2>2. IsFiniteSet(K)
    BY TablesAre, SomeRecords
  <2> HIDE DEF gone, K
  <2>3. ListsOK(d)
    BY <2>1, TablesAre, MarkIs
  <2> HIDE DEF d
  <2>4. ListsOK(Erase(d, "geometries", K))
    BY <2>2, <2>3, TablesAre, EraseIs
  <2> QED
    BY <2>4 DEF d, gone, K, event_geometryDeleted
<1>5. ListsOK(event_geometryListDeletedByGenerationId(c, e.id1))
  BY TablesAre, SomeRecords, EraseIs DEF event_geometryListDeletedByGenerationId
<1>6. ListsOK(event_geometryListDeletedByProducerId(c, e.id1))
  BY TablesAre, SomeRecords, EraseIs DEF event_geometryListDeletedByProducerId
<1> HIDE DEF k
<1> QED
  BY <1>1, <1>2, <1>3, <1>4, <1>5, <1>6 DEF k, processGeometryEvent

\* What a page holds of a file: finitely many content records.
FileData(data) == \A x \in data : IsFiniteSet(x.contents)

LEMMA StoredFileIs ==
  ASSUME Typed, NEW f, NEW n
  PROVE  FileData(StoredFile(f, n)) /\ IsFiniteSet(ByFile(f))
<1>1. IsFiniteSet(ByFile(f))
  BY FS_Subset DEF Typed, ContentTyped, ByFile
<1>2. \A x : IsFiniteSet(ByFile(x))
  BY FS_Subset DEF Typed, ContentTyped, ByFile
<1> QED
  BY <1>1, <1>2, FS_EmptySet DEF FileData, StoredFile

LEMMA FileHandlers ==
  ASSUME Typed, NEW c, ListsOK(c), NEW e, e.type = "FILE_ADDED" => FileData(e.data), NEW id
  PROVE  /\ e.type = "FILE_ADDED" => ListsOK(event_fileAdded(c, e))
         /\ ListsOK(event_fileUpdated(c, id))
         /\ ListsOK(event_fileDeleted(c, id))
         /\ ListsOK(event_fileListDeletedByProducerId(c, id))
         /\ ListsOK(event_fileListDeletedByGenerationId(c, id))
<1>1. ASSUME e.type = "FILE_ADDED" PROVE ListsOK(event_fileAdded(c, e))
  <2> DEFINE found == IF e.data # {} THEN e.data ELSE StoredFile(e.id1, e.id3)
             x == CHOOSE y \in found : TRUE
             c1 == IF e.id1 \in Live(c.lists.files) THEN c ELSE Store(c, "files", e.id1, x.file)
  <2>1. FileData(found)
    BY <1>1, StoredFileIs
  <2>2. CASE found = {}
    BY <2>2 DEF event_fileAdded
  <2>3. CASE found # {}
    <3>1. x \in found
      BY <2>3
    <3>2. IsFiniteSet(x.contents)
      BY <2>1, <3>1 DEF FileData
    <3>3. event_fileAdded(c, e) = addFile(x, e.id1, c)
      BY <2>3 DEF event_fileAdded
    <3> HIDE DEF x
    <3>4. ListsOK(c1)
      BY TablesAre, StoreOK
    <3>5. addFile(x, e.id1, c) = FoldSet(addOrReplaceContent, c1, x.contents)
      BY DEF addFile
    <3> HIDE DEF c1
    <3>6. ListsOK(FoldSet(addOrReplaceContent, c1, x.contents))
      BY <3>2, <3>4, FoldIs
    <3> QED
      BY <3>3, <3>5, <3>6
  <2> QED
    BY <2>2, <2>3
<1>2. ListsOK(event_fileUpdated(c, id))
  <2> DEFINE c1 == IF id \in Live(c.lists.files) THEN MarkBy(c, "contents", "file", id) ELSE c
             c2 == Store(c1, "files", id, files[id])
  <2>1. ListsOK(c1)
    BY TablesAre, MarkByIs
  <2> HIDE DEF c1
  <2>2. ListsOK(c2)
    BY <2>1, TablesAre, StoreOK
  <2> HIDE DEF c2
  <2>3. ListsOK(FoldSet(addOrReplaceContent, c2, ByFile(id)))
    BY <2>2, StoredFileIs, FoldIs
  <2> QED
    BY <2>3 DEF event_fileUpdated, c1, c2
<1> DEFINE marked(t, field) == MarkBy(c, t, field, id)
<1>3. \A t \in Tables : \A field : ListsOK(marked(t, field))
  BY MarkByIs
<1> HIDE DEF marked
<1>4. ListsOK(event_fileDeleted(c, id))
  <2>1. ListsOK(MarkOne(marked("contents", "file"), "files", id))
    BY <1>3, TablesAre, MarkOneIs
  <2> QED
    BY <2>1 DEF event_fileDeleted, marked
<1>5. ListsOK(event_fileListDeletedByProducerId(c, id))
  <2>1. ListsOK(MarkBy(marked("contents", "producer"), "files", "producer", id))
    BY <1>3, TablesAre, MarkByIs
  <2> QED
    BY <2>1 DEF event_fileListDeletedByProducerId, marked
<1>6. ListsOK(event_fileListDeletedByGenerationId(c, id))
  <2>1. ListsOK(MarkBy(marked("contents", "generation"), "files", "generation", id))
    BY <1>3, TablesAre, MarkByIs
  <2> QED
    BY <2>1 DEF event_fileListDeletedByGenerationId, marked
<1> QED
  BY <1>1, <1>2, <1>4, <1>5, <1>6

LEMMA ContentHandlers ==
  ASSUME NEW c, ListsOK(c), NEW e, NEW id, NEW k
  PROVE  /\ ListsOK(event_contentListDeletedByFileId(c, id))
         /\ ListsOK(event_contentListDeletedByProducerId(c, id))
         /\ ListsOK(event_contentListDeletedByGenerationId(c, id))
         /\ ListsOK(event_contentAdded(c, e))
         /\ ListsOK(event_contentUpdated(c, e))
         /\ ListsOK(event_contentDeleted(c, k))
<1>1. \A field : ListsOK(MarkBy(c, "contents", field, id))
  BY TablesAre, MarkByIs
<1>2. ListsOK(MarkOne(c, "contents", k))
  BY TablesAre, MarkOneIs
<1>3. ASSUME NEW d, ListsOK(d) PROVE ListsOK(event_contentAdded(d, e))
  BY <1>3, TablesAre, StoreOK DEF event_contentAdded
<1>4. ListsOK(event_contentUpdated(c, e))
  <2> DEFINE gone == {<<e.id1, e.id2>>} \cup Marked(c.lists.contents)
             d == [c EXCEPT !.lists.contents = Without(@, gone)]
  <2>1. event_contentUpdated(c, e) = event_contentAdded(d, e)
    BY DEF event_contentUpdated
  <2> HIDE DEF gone
  <2>2. ListsOK(d)
    BY ContentWithout
  <2> HIDE DEF d
  <2> QED
    BY <1>3, <2>1, <2>2
<1> QED
  BY <1>1, <1>2, <1>3, <1>4
     DEF event_contentListDeletedByFileId, event_contentListDeletedByProducerId,
         event_contentListDeletedByGenerationId, event_contentDeleted

\* No event and no order of events takes the counters below the marks.
LEMMA ProcessEventIs ==
  ASSUME Typed, NEW c, ListsOK(c), NEW e, e.type = "FILE_ADDED" => FileData(e.data), NEW ok
  PROVE  ListsOK(processEvent(c, e, ok))
<1> USE ProducerHandlers, GenerationHandlers, FileHandlers, ContentHandlers
<1>1. /\ ListsOK(event_clear(c)) /\ ListsOK(processGeometryEvent(c, e))
      /\ ListsOK(event_producerAdded(c, e.id1))
      /\ ListsOK(event_producerUpdated(c, e.id1))
      /\ ListsOK(event_producerDeleted(c, e.id1))
  BY ClearIs, GeometryHandlers
<1>2. /\ ListsOK(event_generationAdded(c, e.id1, ok))
      /\ ListsOK(event_generationUpdated(c, e.id1, ok))
      /\ ListsOK(event_generationStatusChanged(c, e.id1, e.id2, ok))
      /\ ListsOK(event_generationDeleted(c, e.id1))
      /\ ListsOK(event_generationListDeletedByProducerId(c, e.id1))
  OBVIOUS
<1>3. /\ e.type = "FILE_ADDED" => ListsOK(event_fileAdded(c, e))
      /\ ListsOK(event_fileUpdated(c, e.id1)) /\ ListsOK(event_fileDeleted(c, e.id1))
      /\ ListsOK(event_fileListDeletedByProducerId(c, e.id1))
      /\ ListsOK(event_fileListDeletedByGenerationId(c, e.id1))
  OBVIOUS
<1>4. /\ ListsOK(event_contentListDeletedByFileId(c, e.id1))
      /\ ListsOK(event_contentListDeletedByProducerId(c, e.id1))
      /\ ListsOK(event_contentListDeletedByGenerationId(c, e.id1))
      /\ ListsOK(event_contentAdded(c, e)) /\ ListsOK(event_contentUpdated(c, e))
      /\ ListsOK(event_contentDeleted(c, <<e.id1, e.id2>>))
  OBVIOUS
<1> QED
  BY ONLY <1>1, <1>2, <1>3, <1>4 DEF processEvent

-----------------------------------------------------------------------------
(* updateContent(), and the lists that a reload reads.                      *)

LEMMA DeleteMarkedIs == ASSUME NEW c, ListsOK(c) PROVE ListsOK(deleteMarkedRecords(c))
<1> DEFINE d == deleteMarkedRecords(c)
<1>1. /\ d = [lists |-> d.lists, counters |-> d.counters]
      /\ DOMAIN d.lists = Tables /\ DOMAIN d.counters = Tables
      /\ \A t \in Tables :
           /\ d.counters[t] = 0
           /\ c.counters[t] > 0 => d.lists[t] = Without(c.lists[t], Marked(c.lists[t]))
           /\ ~(c.counters[t] > 0) => d.lists[t] = c.lists[t]
  BY DEF deleteMarkedRecords
<1> HIDE DEF d
<1>2. ASSUME NEW t \in Tables PROVE ListOK(d.lists[t], d.counters[t])
  <2> DEFINE old == c.lists[t]
             n == c.counters[t]
             new == Without(old, Marked(old))
  <2>1. ListOK(old, n)
    BY DEF ListsOK
  <2>2. CASE n > 0
    <3>1. DOMAIN new = DOMAIN old \ Marked(old) /\ \A k \in DOMAIN new : new[k] = old[k]
      BY DEF Without
    <3> HIDE DEF new, old, n
    <3>2. IsFiniteSet(DOMAIN new)
      BY <2>1, <3>1, FS_Subset DEF ListOK
    <3>3. \A k \in DOMAIN new : "deleted" \in DOMAIN new[k]
      BY <2>1, <3>1 DEF ListOK
    <3>4. Marked(new) = {}
      BY <3>1 DEF Marked, Live
    <3>5. Cardinality(Marked(new)) = 0
      BY <3>4, FS_EmptySet
    <3>6. ListOK(new, 0)
      BY <3>2, <3>3, <3>5 DEF ListOK
    <3> QED
      BY <1>1, <2>2, <3>6 DEF new, old, n
  <2>3. CASE ~(n > 0)
    <3>1. n = 0
      BY <2>1, <2>3 DEF ListOK
    <3> QED
      BY <1>1, <2>1, <2>3, <3>1
  <2> QED
    BY <2>2, <2>3
<1>3. ListsOK(d)
  BY <1>1, <1>2 DEF ListsOK
<1> QED
  BY <1>3 DEF d

\* What the storage has of each kind is finite.
LEMMA StoredFinite == ASSUME Typed, NEW t \in Tables PROVE IsFiniteSet(DOMAIN Stored[t])
<1>1. IsFiniteSet(DOMAIN producers)
  <2>1. IsFiniteSet(1..producerCounter) /\ DOMAIN producers \subseteq 1..producerCounter
    BY FS_Interval DEF Typed, ProducersTyped
  <2> QED
    BY <2>1, FS_Subset
<1>2. IsFiniteSet(DOMAIN generations)
  <2>1. IsFiniteSet(1..generationCounter) /\ DOMAIN generations \subseteq 1..generationCounter
    BY FS_Interval DEF Typed, GenerationsTyped
  <2> QED
    BY <2>1, FS_Subset
<1>3. IsFiniteSet(DOMAIN files)
  BY FilesFinite DEF Typed
<1>4. IsFiniteSet(GeometryKeys)
  <2> DEFINE f == [x \in geometries |-> GeometryKey(x)]
  <2>1. IsFiniteSet(geometries) /\ IsFiniteSet({f[x] : x \in geometries})
    BY ImageFinite DEF Typed, GeometriesTyped
  <2>2. GeometryKeys = {f[x] : x \in geometries}
    BY DEF GeometryKeys
  <2> QED
    BY <2>1, <2>2
<1>5. IsFiniteSet(ContentKeys)
  <2> DEFINE f == [r \in content |-> Key(r)]
  <2>1. IsFiniteSet({f[r] : r \in content})
    BY ImageFinite DEF Typed, ContentTyped
  <2>2. ContentKeys = {f[r] : r \in content}
    BY DEF ContentKeys
  <2> QED
    BY <2>1, <2>2
<1> QED
  BY <1>1, <1>2, <1>3, <1>4, <1>5 DEF Stored, Tables

\* A list that has been read has no marks; its counter stays.
LEMMA ListRead ==
  ASSUME Typed, NEW c, ListsOK(c), NEW t \in Tables
  PROVE  ListsOK([c EXCEPT !.lists[t] = [k \in DOMAIN Stored[t] |-> Unmarked(Stored[t][k])]])
<1> DEFINE l == [k \in DOMAIN Stored[t] |-> Unmarked(Stored[t][k])]
           d == [c EXCEPT !.lists[t] = l]
<1>1. PICK L, C : c = [lists |-> L, counters |-> C]
  BY DEF ListsOK
<1>2. /\ DOMAIN l = DOMAIN Stored[t]
      /\ \A k \in DOMAIN l : "deleted" \in DOMAIN l[k] /\ l[k].deleted = FALSE
  BY DEF Unmarked
<1> HIDE DEF l
<1>3. d = [lists |-> [L EXCEPT ![t] = l], counters |-> C]
  BY <1>1
<1>4. /\ d = [lists |-> d.lists, counters |-> d.counters]
      /\ DOMAIN d.lists = Tables /\ DOMAIN d.counters = Tables
      /\ \A u \in Tables : u # t => d.lists[u] = c.lists[u] /\ d.counters[u] = c.counters[u]
      /\ d.lists[t] = l /\ d.counters[t] = c.counters[t]
  BY <1>1, <1>3 DEF ListsOK
<1> HIDE DEF d
<1>5. ListOK(c.lists[t], c.counters[t])
  BY DEF ListsOK
<1>6. IsFiniteSet(DOMAIN l)
  BY <1>2, StoredFinite
<1>7. ListOK(l, c.counters[t])
  BY <1>2, <1>5, <1>6, FewerMarks DEF ListOK
<1>8. ListsOK(d)
  BY <1>4, <1>7, ListsChange
<1> QED
  BY <1>8 DEF d, l

-----------------------------------------------------------------------------
(* The invariant.                                                           *)

\* The page is a list of events, none of them younger than the event counter.
PageRecords(S) ==
  \A r \in S : /\ r.id \in 0..eventLog.counter
               /\ r.type = "FILE_ADDED" => FileData(r.data)

PageOK == \E S : page \in Seq(S) /\ PageRecords(S)

TimesOK ==
  /\ mStartTime \in Nat /\ mContentStorageStartTime \in 1..mStartTime
  /\ reload = [phase |-> reload.phase, time |-> reload.time]
  /\ reload.phase \in {"none"} \cup Tables /\ reload.time \in 1..mStartTime

CacheInv ==
  /\ LogInv
  /\ ListsOK(primary) /\ DOMAIN served = Tables
  /\ PageOK /\ mLastProcessedEventId \in 0..eventLog.counter
  /\ TimesOK

LEMMA CacheInit == Init => CacheInv
<1> SUFFICES ASSUME Init PROVE CacheInv
  OBVIOUS
<1>1. LogInv /\ mStartTime = 1
  BY LogInvInit DEF Init, StorageInit
<1>2. ListsOK(primary) /\ DOMAIN served = Tables
  <2>1. ListOK(Nothing, 0)
    <3>1. DOMAIN Nothing = {} /\ Marked(Nothing) = {}
      BY NothingIs DEF Marked
    <3>2. IsFiniteSet({}) /\ Cardinality({}) = 0
      BY FS_EmptySet
    <3> QED
      BY <3>1, <3>2 DEF ListOK
  <2>2. /\ primary = [lists |-> primary.lists, counters |-> primary.counters]
        /\ primary.lists = NoLists /\ primary.counters = [t \in Tables |-> 0]
    BY DEF Init
  <2> QED
    BY <2>1, <2>2 DEF Init, NoLists, ListsOK
<1>3. PageOK
  <2>1. page \in Seq({}) /\ PageRecords({})
    BY DEF Init, PageRecords
  <2> QED
    BY <2>1 DEF PageOK
<1>4. eventLog.counter \in Nat /\ mLastProcessedEventId = eventLog.counter
  BY <1>1 DEF Init, LogInv, LogOK
<1>5. TimesOK
  BY <1>1, TablesAre DEF Init, TimesOK
<1> QED
  BY <1>1, <1>2, <1>3, <1>4, <1>5 DEF CacheInv

\* A step of the cache is no step of the storage, and the event counter never
\* goes back, not even in clear().
LEMMA StorageSteps == [Next]_vars => [StorageNext]_storageVars
BY DEF Next, StorageStep, CacheStep, FinishClear, StorageNext, vars

LEMMA CounterGrows ==
  LogInv /\ [StorageNext]_storageVars =>
    eventLog.counter \in Nat /\ eventLog'.counter \in Nat /\ eventLog.counter <= eventLog'.counter
<1> SUFFICES ASSUME LogInv, [StorageNext]_storageVars
             PROVE  /\ eventLog.counter \in Nat /\ eventLog'.counter \in Nat
                    /\ eventLog.counter <= eventLog'.counter
  OBVIOUS
<1>1. eventLog.counter \in Nat /\ eventLog'.counter \in Nat
  BY LogStep DEF LogInv, LogOK
<1>2. CASE Heard \/ PartlyHeard
  <2>1. PICK N, seq : Announces(N, seq)
    BY <1>2 DEF Heard, PartlyHeard
  <2>2. N \in Nat /\ eventLog'.counter = eventLog.counter + N
    BY <2>1, AnnouncedIs DEF LogInv, Announces
  <2> QED
    BY <1>1, <2>2
<1>3. CASE UNCHANGED eventLog
  BY <1>1, <1>3
<1>4. CASE eventLog' = [eventLog EXCEPT !.events = Nothing]
  <2>1. eventLog = [counter |-> eventLog.counter, events |-> eventLog.events]
    BY DEF LogInv, LogOK
  <2>2. eventLog'.counter = eventLog.counter
    BY <1>4, <2>1
  <2> QED
    BY <1>1, <2>2
<1> QED
  BY <1>2, <1>3, <1>4, StepsAnnounce DEF LogInv, NameForgotten

LEMMA CallsKeepTime == StorageCall => UNCHANGED mStartTime
<1>1. ProducerCalls => UNCHANGED mStartTime
  BY DEF ProducerCalls, Call,
         addProducerInfo, setProducerInfo, deleteProducerInfoById,
         deleteProducerInfoByName
<1>2. GenerationCalls => UNCHANGED mStartTime
  BY DEF GenerationCalls, Call,
         addGenerationInfo, setGenerationInfo, setGenerationInfoStatusById,
         setGenerationInfoStatusByName, deleteGenerationInfoById,
         deleteGenerationInfoByName, deleteGenerationInfoListByIdList,
         deleteGenerationInfoListByProducerId, deleteGenerationInfoListByProducerName
<1>3. GeometryCalls => UNCHANGED mStartTime
  BY DEF GeometryCalls, Call,
         addGeometryInfo, setGeometryInfo, setGeometryInfoStatusById,
         deleteGeometryInfoById, deleteGeometryInfoListByGenerationId,
         deleteGeometryInfoListByProducerId
<1>4. FileCalls => UNCHANGED mStartTime
  <2>0. \A operation : Call(operation) => UNCHANGED mStartTime
    BY DEF Call
  <2>1. ASSUME NEW name, NEW g, NEW f, NEW list,
               addFileInfo(name, g) \/ setFileInfo(f, name, g) \/ addFileInfoWithContentList(name, g, list)
        PROVE  UNCHANGED mStartTime
    BY <2>0, <2>1 DEF addFileInfo, setFileInfo, addFileInfoWithContentList
  <2>2. ASSUME NEW name, NEW g, NEW list, NEW replace,
               addFileInfoListWithContent(name, g, list, replace)
        PROVE  UNCHANGED mStartTime
    BY <2>0, <2>2 DEF addFileInfoListWithContent
  <2>3. ASSUME NEW f, NEW name, NEW F, NEW g, NEW d, NEW p,
               \/ deleteFileInfoById(f) \/ deleteFileInfoByName(name)
               \/ deleteFileInfoListByFileIdList(F)
               \/ deleteFileInfoListByProducerId(p) \/ deleteFileInfoListByProducerName(name)
               \/ deleteFileInfoListByGenerationName(name) \/ deleteFileInfoListByGenerationId(g)
        PROVE  UNCHANGED mStartTime
    BY <2>0, <2>3
    DEF deleteFileInfoById, deleteFileInfoByName, deleteFileInfoListByFileIdList,
        deleteFileInfoListByProducerId, deleteFileInfoListByProducerName,
        deleteFileInfoListByGenerationName, deleteFileInfoListByGenerationId
  <2>4. ASSUME NEW g, NEW d,
               \/ deleteFileInfoListByGenerationIdAndForecastTime(g, d)
               \/ deleteFileInfoListByForecastTimeList(g, d)
        PROVE  UNCHANGED mStartTime
    BY <2>0, <2>4
    DEF deleteFileInfoListByGenerationIdAndForecastTime, deleteFileInfoListByForecastTimeList
  <2> QED
    BY <2>1, <2>2, <2>3, <2>4 DEF FileCalls
<1>5. ContentCalls => UNCHANGED mStartTime
  BY DEF ContentCalls, Call,
         addContentInfo, setContentInfo, addContentList, deleteContentInfo,
         deleteContentListByFileId, deleteContentListByFileName,
         deleteContentListByProducerId, deleteContentListByProducerName,
         deleteContentListByGenerationId, deleteContentListByGenerationName
<1> QED
  BY <1>1, <1>2, <1>3, <1>4, <1>5 DEF StorageCall

LEMMA TimeGrows ==
  ASSUME mStartTime \in Nat, [StorageNext]_storageVars
  PROVE  mStartTime' \in Nat /\ mStartTime <= mStartTime'
<1>1. CASE StorageCall
  BY <1>1, CallsKeepTime
<1>2. CASE ClearAnnounce \/ Restart \/ UNCHANGED storageVars
  BY <1>2 DEF ClearAnnounce, Restart, storageVars
<1>3. ASSUME NEW own, ClearDelete(own) PROVE mStartTime' \in Nat /\ mStartTime <= mStartTime'
  BY <1>3 DEF ClearDelete
<1> QED
  BY <1>1, <1>2, <1>3 DEF StorageNext

\* The events that are not processed yet are an interval, so that the n-th of
\* them exists.
LEMMA NewEventsAre ==
  ASSUME LogOK(eventLog), mLastProcessedEventId \in 0..eventLog.counter
  PROVE  \E a, b \in Nat : a <= b /\ b = eventLog.counter /\ NewEvents = (a + 1)..b
<1>1. PICK lo \in 0..eventLog.counter : DOMAIN eventLog.events = (lo + 1)..eventLog.counter
  BY DEF LogOK
<1> DEFINE last == mLastProcessedEventId
           a == IF lo < last THEN last ELSE lo
<1>2. eventLog.counter \in Nat
  BY DEF LogOK
<1>3. a \in Nat /\ a <= eventLog.counter
  BY <1>1, <1>2
<1>4. NewEvents = (a + 1)..eventLog.counter
  BY <1>1, <1>2 DEF NewEvents
<1> HIDE DEF a
<1> QED
  BY <1>2, <1>3, <1>4

LEMMA FetchedIs ==
  ASSUME CacheInv, FetchEvents
  PROVE  /\ page' \in Seq({Fetched(k) : k \in NewEvents}) /\ PageRecords({Fetched(k) : k \in NewEvents})
         /\ \E a, b \in Nat : /\ NewEvents = (a + 1)..b
                             /\ \A i \in 1..Len(page') : page'[i].id = a + i
<1> DEFINE count == Cardinality(NewEvents)
           next(i) == CHOOSE k \in NewEvents : Cardinality({n \in NewEvents : n <= k}) = i
           m == IF count < PageSize THEN count ELSE PageSize
           S == {Fetched(k) : k \in NewEvents}
<1>1. PICK a \in Nat, b \in Nat : a <= b /\ b = eventLog.counter /\ NewEvents = (a + 1)..b
  BY NewEventsAre DEF CacheInv, LogInv
<1>2. count = b - a
  BY <1>1, FS_Interval
<1>3. m \in Nat /\ m <= count
  BY <1>1, <1>2, CacheAssumption
<1>4. ASSUME NEW i \in 1..count PROVE next(i) = a + i /\ next(i) \in NewEvents
  <2>1. ASSUME NEW k \in NewEvents PROVE Cardinality({n \in NewEvents : n <= k}) = k - a
    <3>1. {n \in NewEvents : n <= k} = (a + 1)..k
      BY <1>1
    <3>2. a + 1 \in Int /\ k \in Int /\ ~(a + 1 > k) /\ k - (a + 1) + 1 = k - a
      BY <1>1
    <3>3. Cardinality((a + 1)..k) = k - (a + 1) + 1
      BY <3>2, FS_Interval
    <3> QED
      BY <3>1, <3>2, <3>3
  <2>2. a + i \in NewEvents /\ (a + i) - a = i
    BY <1>1, <1>2
  <2>3. \E x \in NewEvents : Cardinality({n \in NewEvents : n <= x}) = i
    BY <2>1, <2>2
  <2>4. next(i) \in NewEvents /\ Cardinality({n \in NewEvents : n <= next(i)}) = i
    BY <2>3
  <2> HIDE DEF next
  <2>5. next(i) - a = i
    BY <2>1, <2>4
  <2> QED
    BY <1>1, <2>4, <2>5
<1>5. page' = [i \in 1..m |-> Fetched(next(i))]
  BY DEF FetchEvents
<1> HIDE DEF count, next, m
<1>6. \A i \in 1..m : Fetched(next(i)) \in S
  <2>1. \A i \in 1..m : i \in 1..count
    BY <1>1, <1>2, <1>3
  <2> QED
    BY <1>4, <2>1
<1>7. page' \in [1..m -> S]
  BY <1>5, <1>6
<1>8. page' \in Seq(S)
  BY <1>3, <1>7
<1>9. ASSUME NEW k \in NewEvents
      PROVE  /\ Fetched(k).id \in 0..eventLog.counter
             /\ Fetched(k).type = "FILE_ADDED" => FileData(Fetched(k).data)
  <2>1. k \in 0..eventLog.counter
    BY <1>1
  <2>2. /\ Fetched(k).id = k /\ Fetched(k).type = eventLog.events[k].type
        /\ Fetched(k).data = setEventData(eventLog.events[k])
    BY DEF Fetched
  <2>3. ASSUME eventLog.events[k].type = "FILE_ADDED"
        PROVE  FileData(setEventData(eventLog.events[k]))
    BY <2>3, StoredFileIs DEF CacheInv, LogInv, setEventData
  <2> QED
    BY <2>1, <2>2, <2>3
<1>10. \A i \in 1..Len(page') : page'[i].id = a + i
  <2> SUFFICES ASSUME NEW i \in 1..Len(page') PROVE page'[i].id = a + i
    OBVIOUS
  <2>1. i \in 1..m /\ i \in 1..count
    BY <1>1, <1>2, <1>3, <1>5
  <2>2. page'[i] = Fetched(next(i)) /\ next(i) = a + i
    BY <1>4, <1>5, <2>1
  <2> QED
    BY <2>2 DEF Fetched
<1> QED
  BY <1>1, <1>8, <1>9, <1>10 DEF PageRecords

\* A step of the storage leaves the cache alone, which it can only put behind.
LEMMA StorageStepKeeps ==
  ASSUME CacheInv, [StorageNext]_storageVars, UNCHANGED cacheVars
  PROVE  CacheInv'
<1>1. LogInv'
  BY LogStep DEF CacheInv
<1>2. /\ eventLog.counter \in Nat /\ eventLog'.counter \in Nat
      /\ eventLog.counter <= eventLog'.counter
  BY CounterGrows DEF CacheInv
<1>3. mStartTime \in Nat /\ mStartTime' \in Nat /\ mStartTime <= mStartTime'
  BY TimeGrows DEF CacheInv, TimesOK
<1>4. UNCHANGED <<primary, served, page, mLastProcessedEventId, mContentStorageStartTime, reload>>
  BY DEF cacheVars
<1>5. ListsOK(primary)' /\ DOMAIN served' = Tables
  BY <1>4 DEF CacheInv
<1>6. PageOK'
  <2>1. PICK S : page \in Seq(S) /\ PageRecords(S)
    BY DEF CacheInv, PageOK
  <2>2. PageRecords(S)'
    BY <1>2, <2>1 DEF PageRecords, FileData
  <2>3. page' \in Seq(S)
    BY <1>4, <2>1
  <2> QED
    BY <2>2, <2>3 DEF PageOK
<1>7. mLastProcessedEventId' \in 0..eventLog'.counter
  BY <1>2, <1>4 DEF CacheInv
<1>8. TimesOK'
  BY <1>3, <1>4 DEF CacheInv, TimesOK
<1> QED
  BY <1>1, <1>5, <1>6, <1>7, <1>8 DEF CacheInv

LEMMA FetchKeeps == ASSUME CacheInv, FetchEvents, UNCHANGED storageVars PROVE CacheInv'
<1>1. LogInv'
  BY LogStep DEF CacheInv
<1>2. UNCHANGED <<eventLog, mStartTime, primary, served, mLastProcessedEventId,
                  mContentStorageStartTime, reload>>
  BY DEF FetchEvents, storageVars
<1>3. PageOK'
  <2> DEFINE S == {Fetched(k) : k \in NewEvents}
  <2>1. PICK T : T = S
    OBVIOUS
  <2>2. page' \in Seq(T) /\ PageRecords(T)
    BY <2>1, FetchedIs
  <2>3. PageRecords(T)'
    BY <1>2, <2>2 DEF PageRecords, FileData
  <2> QED
    BY <2>2, <2>3 DEF PageOK
<1> QED
  BY <1>1, <1>2, <1>3 DEF CacheInv, TimesOK

LEMMA ProcessKeeps == ASSUME CacheInv, ProcessEvent, UNCHANGED storageVars PROVE CacheInv'
<1>1. LogInv'
  BY LogStep DEF CacheInv
<1>2. UNCHANGED <<eventLog, mStartTime, served, mContentStorageStartTime, reload>>
  BY DEF ProcessEvent, storageVars
<1>3. PICK S : page \in Seq(S) /\ PageRecords(S)
  BY DEF CacheInv, PageOK
<1> DEFINE e == Head(page)
<1>4. page # <<>> /\ page' = Tail(page) /\ mLastProcessedEventId' = e.id
  BY DEF ProcessEvent
<1>5. e \in S /\ page' \in Seq(S)
  BY <1>3, <1>4
<1>6. PICK ok : primary' = processEvent(primary, e, ok)
  BY DEF ProcessEvent
<1> HIDE DEF e
<1>7. e.id \in 0..eventLog.counter /\ (e.type = "FILE_ADDED" => FileData(e.data))
  BY <1>3, <1>5 DEF PageRecords
<1>8. ListsOK(primary')
  BY <1>6, <1>7, ProcessEventIs DEF CacheInv, LogInv
<1>9. ListsOK(primary)'
  BY <1>8
<1>10. PageOK'
  <2>1. PageRecords(S)'
    BY <1>2, <1>3 DEF PageRecords, FileData
  <2> QED
    BY <1>5, <2>1 DEF PageOK
<1> QED
  BY <1>1, <1>2, <1>4, <1>7, <1>9, <1>10 DEF CacheInv, TimesOK

LEMMA UpdateKeeps == ASSUME CacheInv, UpdateContent, UNCHANGED storageVars PROVE CacheInv'
<1>1. LogInv'
  BY LogStep DEF CacheInv
<1>2. UNCHANGED <<eventLog, mStartTime, page, mLastProcessedEventId, mContentStorageStartTime,
                  reload>>
  BY DEF UpdateContent, storageVars
<1>3. ListsOK(primary)'
  BY DeleteMarkedIs DEF CacheInv, UpdateContent
<1>4. DOMAIN served' = Tables
  BY DEF CacheInv, UpdateContent, LiveLists
<1>5. PageOK'
  BY <1>2 DEF CacheInv, PageOK, PageRecords, FileData
<1> QED
  BY <1>1, <1>2, <1>3, <1>4, <1>5 DEF CacheInv, TimesOK

LEMMA StartKeeps == ASSUME CacheInv, StartReload, UNCHANGED storageVars PROVE CacheInv'
<1>1. LogInv'
  BY LogStep DEF CacheInv
<1>2. UNCHANGED <<eventLog, mStartTime, primary, served, page, mContentStorageStartTime>>
  BY DEF StartReload, storageVars
<1>3. eventLog.counter \in Nat
  BY DEF CacheInv, LogInv, LogOK
<1>4. mLastProcessedEventId' \in 0..eventLog'.counter
  BY <1>2, <1>3 DEF StartReload, LastEventId
<1>5. TimesOK'
  BY <1>2, TablesAre DEF CacheInv, TimesOK, StartReload
<1>6. PageOK'
  BY <1>2 DEF CacheInv, PageOK, PageRecords, FileData
<1> QED
  BY <1>1, <1>2, <1>4, <1>5, <1>6 DEF CacheInv

LEMMA ReadKeeps == ASSUME CacheInv, ReadLists, UNCHANGED storageVars PROVE CacheInv'
<1>1. LogInv'
  BY LogStep DEF CacheInv
<1>2. PICK i \in DOMAIN Phases : ReadList(i)
  BY DEF ReadLists
<1>3. DOMAIN Phases = 1..5 /\ Len(Phases) = 5 /\ \A n \in 1..5 : Phases[n] \in Tables
  BY DEF Phases, Tables
<1>4. UNCHANGED <<eventLog, mStartTime, served, page, mLastProcessedEventId>>
  BY <1>2 DEF ReadList, storageVars
<1>5. ListsOK(primary)'
  <2> DEFINE t == Phases[i]
  <2>1. primary' = [primary EXCEPT !.lists[t] =
                      [k \in DOMAIN Stored[t] |-> Unmarked(Stored[t][k])]]
    BY <1>2 DEF ReadList
  <2>2. t \in Tables
    BY <1>2, <1>3
  <2> HIDE DEF t
  <2>3. ListsOK([primary EXCEPT !.lists[t] = [k \in DOMAIN Stored[t] |-> Unmarked(Stored[t][k])]])
    BY <2>2, ListRead DEF CacheInv, LogInv
  <2> QED
    BY <2>1, <2>3
<1>6. TimesOK'
  <2> DEFINE next == IF i = 5 THEN "none" ELSE Phases[i + 1]
  <2>1. next \in {"none"} \cup Tables
    BY <1>2, <1>3
  <2>2. reload' = [reload EXCEPT !.phase = next]
    BY <1>2, <1>3 DEF ReadList
  <2>3. mContentStorageStartTime' \in {reload.time, mContentStorageStartTime}
    BY <1>2 DEF ReadList
  <2> HIDE DEF next
  <2> QED
    BY <1>4, <2>1, <2>2, <2>3 DEF CacheInv, TimesOK
<1>7. PageOK'
  BY <1>4 DEF CacheInv, PageOK, PageRecords, FileData
<1> QED
  BY <1>1, <1>4, <1>5, <1>6, <1>7 DEF CacheInv

LEMMA CacheInvStep == CacheInv /\ [Next]_vars => CacheInv'
<1> SUFFICES ASSUME CacheInv, [Next]_vars PROVE CacheInv'
  OBVIOUS
<1>1. CASE CacheStep
  BY <1>1, FetchKeeps, ProcessKeeps, UpdateKeeps, StartKeeps, ReadKeeps DEF CacheStep
<1>2. CASE StorageStep \/ UNCHANGED vars
  BY <1>2, StorageSteps, StorageStepKeeps DEF StorageStep, vars
<1> QED
  BY <1>1, <1>2 DEF Next

\* The delete counters cover the marked records, in whatever order the events
\* come and however much the storage has changed behind them: updateContent()
\* misses no list with a marked record.  The counters count records that were
\* marked before, and those that are removed; addCachedContent() takes one off
\* for the one mark that it removes, and a reload leaves them.
THEOREM CountersCoverMarksHolds == Spec => []CountersCoverMarks
<1>1. CacheInv => CountersCoverMarks
  BY DEF CacheInv, ListsOK, ListOK, CountersCoverMarks
<1> QED
  BY CacheInit, CacheInvStep, <1>1, PTL DEF Spec

\* The cache and the storage have their types: the last processed event is not
\* ahead of the event counter, which survives clear(), and the start time that
\* has been read is not ahead of the storage.
THEOREM CacheTypeOKHolds == Spec => []TypeOK
<1>1. CacheInv => TypeOK
  <2>1. LogInv => StorageTypeOK
    BY DEF LogInv, LogOK, Typed, ProducersTyped, GenerationsTyped, GeometriesTyped, FilesTyped,
           ContentTyped, StorageTypeOK, ContentRecords
  <2> QED
    BY <2>1 DEF CacheInv, TimesOK, ListsOK, ListOK, TypeOK
<1> QED
  BY CacheInit, CacheInvStep, <1>1, PTL DEF Spec

\* The cache runs beside the storage and adds nothing to what the storage does:
\* every behaviour of the two is one of the storage alone, so that its theorems
\* hold with a cache, too.
THEOREM CacheRefinesStorage == Spec => StorageSpec
<1>1. Init => StorageInit
  BY DEF Init
<1> QED
  BY <1>1, StorageSteps, PTL DEF Spec, StorageSpec

-----------------------------------------------------------------------------
(* The order of the events.                                                 *)

\* The page is a run of events, and no event of the log is between the last one
\* that has been processed and the first one of the page.
PageInOrder ==
  /\ \A i \in 1..Len(page) : page[i].id = page[1].id + (i - 1)
  /\ page # <<>> =>
       /\ mLastProcessedEventId < page[1].id
       /\ \A k \in DOMAIN eventLog.events : k <= mLastProcessedEventId \/ k >= page[1].id

\* What a step of the storage leaves in the log was there, or is new.
LEMMA LogShrinksOrGrows ==
  ASSUME LogInv, [StorageNext]_storageVars, NEW k \in DOMAIN eventLog'.events
  PROVE  k \in DOMAIN eventLog.events \/ k > eventLog.counter
<1>1. CASE Heard \/ PartlyHeard
  <2>1. PICK N, seq : Announces(N, seq)
    BY <1>1 DEF Heard, PartlyHeard
  <2>2. N \in Nat /\ DOMAIN seq = 1..N /\ eventLog' = FoldLeft(addEvent, eventLog, seq)
    BY <2>1 DEF Announces, Announce
  <2> QED
    BY <2>2, AnnounceIs DEF LogInv
<1>2. CASE UNCHANGED eventLog
  BY <1>2
<1>3. CASE eventLog' = [eventLog EXCEPT !.events = Nothing]
  <2>1. eventLog = [counter |-> eventLog.counter, events |-> eventLog.events]
    BY DEF LogInv, LogOK
  <2>2. DOMAIN eventLog'.events = {}
    BY <1>3, <2>1, NothingIs
  <2> QED
    BY <2>2
<1> QED
  BY <1>1, <1>2, <1>3, StepsAnnounce DEF LogInv, NameForgotten

LEMMA PageIds ==
  ASSUME CacheInv
  PROVE  /\ Len(page) \in Nat /\ (page # <<>> => Len(page) > 0)
         /\ \A i \in 1..Len(page) : page[i].id \in 0..eventLog.counter
         /\ eventLog.counter \in Nat /\ mLastProcessedEventId \in 0..eventLog.counter
         /\ DOMAIN eventLog.events \subseteq Nat
<1>1. PICK S : page \in Seq(S) /\ PageRecords(S)
  BY DEF CacheInv, PageOK
<1>2. eventLog.counter \in Nat /\ DOMAIN eventLog.events \subseteq Nat
  BY DEF CacheInv, LogInv, LogOK
<1>3. ASSUME NEW i \in 1..Len(page) PROVE page[i].id \in 0..eventLog.counter
  <2>1. page[i] \in S
    BY <1>1
  <2> QED
    BY <1>1, <2>1 DEF PageRecords
<1> QED
  BY <1>1, <1>2, <1>3 DEF CacheInv

LEMMA StorageKeepsOrder ==
  ASSUME CacheInv, PageInOrder, [StorageNext]_storageVars,
         UNCHANGED <<page, mLastProcessedEventId>>
  PROVE  PageInOrder'
<1> SUFFICES ASSUME page # <<>>, NEW k \in DOMAIN eventLog'.events
             PROVE  k <= mLastProcessedEventId \/ k >= page[1].id
  BY DEF PageInOrder
<1>1. CASE k \in DOMAIN eventLog.events
  BY <1>1 DEF PageInOrder
<1>2. CASE k > eventLog.counter
  <2>1. page[1].id \in 0..eventLog.counter /\ eventLog.counter \in Nat
    BY PageIds
  <2>2. k \in Nat
    BY LogStep DEF CacheInv, LogInv, LogOK
  <2> QED
    BY <1>2, <2>1, <2>2
<1> QED
  BY <1>1, <1>2, LogShrinksOrGrows DEF CacheInv

LEMMA FetchInOrder ==
  ASSUME CacheInv, FetchEvents, UNCHANGED storageVars
  PROVE  PageInOrder'
<1>1. PICK a \in Nat, b \in Nat : /\ NewEvents = (a + 1)..b
                                 /\ \A i \in 1..Len(page') : page'[i].id = a + i
  BY FetchedIs
<1>2. UNCHANGED <<eventLog, mLastProcessedEventId>> /\ NewEvents # {}
  BY DEF FetchEvents, storageVars
<1>3. Len(page') \in Nat /\ (page' # <<>> => Len(page') > 0)
  <2>1. PICK T : T = {Fetched(k) : k \in NewEvents}
    OBVIOUS
  <2>2. page' \in Seq(T)
    BY <2>1, FetchedIs
  <2> QED
    BY <2>2
<1>4. \A i \in 1..Len(page') : page'[i].id = page'[1].id + (i - 1)
  <2> SUFFICES ASSUME NEW i \in 1..Len(page') PROVE page'[i].id = page'[1].id + (i - 1)
    OBVIOUS
  <2>1. 1 \in 1..Len(page')
    BY <1>3
  <2>2. page'[i].id = a + i /\ page'[1].id = a + 1
    BY <1>1, <2>1
  <2> QED
    BY <2>2
<1>5. ASSUME page' # <<>>
      PROVE  /\ mLastProcessedEventId < page'[1].id
             /\ \A k \in DOMAIN eventLog.events : k <= mLastProcessedEventId \/ k >= page'[1].id
  <2>1. page'[1].id = a + 1
    BY <1>1, <1>3, <1>5
  <2>2. a + 1 \in NewEvents
    BY <1>1, <1>2
  <2>3. \A k \in DOMAIN eventLog.events : k <= mLastProcessedEventId \/ k >= a + 1
    <3> SUFFICES ASSUME NEW k \in DOMAIN eventLog.events, ~(k <= mLastProcessedEventId)
                 PROVE  k >= a + 1
      OBVIOUS
    <3>1. k \in Nat /\ mLastProcessedEventId \in Nat
      BY PageIds
    <3>2. k \in NewEvents
      BY <3>1 DEF NewEvents
    <3> QED
      BY <1>1, <3>2
  <2>4. a + 1 > mLastProcessedEventId
    BY <2>2 DEF NewEvents
  <2>5. mLastProcessedEventId \in Nat
    BY PageIds
  <2> QED
    BY <2>1, <2>3, <2>4, <2>5
<1> QED
  BY <1>2, <1>4, <1>5 DEF PageInOrder

LEMMA ProcessInOrder ==
  ASSUME CacheInv, PageInOrder, ProcessEvent, UNCHANGED storageVars
  PROVE  /\ PageInOrder'
         /\ mLastProcessedEventId' > mLastProcessedEventId
         /\ \A k \in DOMAIN eventLog.events :
              k <= mLastProcessedEventId \/ k >= mLastProcessedEventId'
<1>1. page # <<>> /\ page' = Tail(page) /\ mLastProcessedEventId' = page[1].id
  BY DEF ProcessEvent
<1>2. UNCHANGED eventLog
  BY DEF storageVars
<1>3. PICK S : page \in Seq(S)
  BY DEF CacheInv, PageOK
<1>4. /\ Len(page) \in Nat /\ Len(page) > 0 /\ Len(page') = Len(page) - 1
      /\ \A i \in 1..Len(page') : page'[i] = page[i + 1] /\ i + 1 \in 1..Len(page)
      /\ page' # <<>> => Len(page') > 0
  BY <1>1, <1>3
<1>5. page[1].id \in Nat /\ mLastProcessedEventId \in Nat /\ DOMAIN eventLog.events \subseteq Nat
  BY <1>4, PageIds
<1>6. \A i \in 1..Len(page') : page'[i].id = page[1].id + i
  <2> SUFFICES ASSUME NEW i \in 1..Len(page') PROVE page'[i].id = page[1].id + i
    OBVIOUS
  <2>1. page'[i] = page[i + 1] /\ i + 1 \in 1..Len(page)
    BY <1>4
  <2>2. page[i + 1].id = page[1].id + ((i + 1) - 1)
    BY <2>1 DEF PageInOrder
  <2> QED
    BY <1>5, <2>1, <2>2
<1>7. \A i \in 1..Len(page') : page'[i].id = page'[1].id + (i - 1)
  <2> SUFFICES ASSUME NEW i \in 1..Len(page') PROVE page'[i].id = page'[1].id + (i - 1)
    OBVIOUS
  <2>1. 1 \in 1..Len(page')
    BY <1>4
  <2>2. page'[i].id = page[1].id + i /\ page'[1].id = page[1].id + 1
    BY <1>6, <2>1
  <2> QED
    BY <1>5, <2>2
<1>8. ASSUME page' # <<>>
      PROVE  /\ mLastProcessedEventId' < page'[1].id
             /\ \A k \in DOMAIN eventLog'.events :
                  k <= mLastProcessedEventId' \/ k >= page'[1].id
  <2>1. 1 \in 1..Len(page')
    BY <1>4, <1>8
  <2>2. page'[1].id = page[1].id + 1
    BY <1>6, <2>1
  <2>3. \A k \in Nat : k <= page[1].id \/ k >= page[1].id + 1
    BY <1>5
  <2>4. DOMAIN eventLog'.events \subseteq Nat
    BY <1>2, <1>5
  <2>5. PICK n \in Nat : n = page[1].id
    BY <1>5
  <2>6. mLastProcessedEventId' = n /\ page'[1].id = n + 1
    BY <1>1, <2>2, <2>5
  <2>7. n < n + 1 /\ \A k \in DOMAIN eventLog'.events : k <= n \/ k >= n + 1
    BY <2>3, <2>4, <2>5
  <2> QED
    BY <2>6, <2>7
<1>9. PageInOrder'
  BY <1>7, <1>8 DEF PageInOrder
<1> QED
  BY <1>1, <1>5, <1>9 DEF PageInOrder

\* The cache processes the events in their order, none of them twice, and passes over
\* none that is in the log, for every page size, however the log is truncated, cleared
\* and announced to between the fetch of a page and its last event.
THEOREM EventsInOrderHolds == Spec => EventsInOrder
<1> DEFINE A == reload' = reload /\ mLastProcessedEventId' # mLastProcessedEventId =>
                  /\ mLastProcessedEventId' > mLastProcessedEventId
                  /\ \A k \in DOMAIN eventLog.events :
                       k <= mLastProcessedEventId \/ k >= mLastProcessedEventId'
<1>1. Init => PageInOrder
  BY DEF Init, PageInOrder
<1>2. CacheInv /\ PageInOrder /\ [Next]_vars => PageInOrder' /\ A
  <2> SUFFICES ASSUME CacheInv, PageInOrder, [Next]_vars PROVE PageInOrder' /\ A
    OBVIOUS
  <2>1. CASE StorageStep \/ UNCHANGED vars
    <3>1. UNCHANGED <<page, mLastProcessedEventId>>
      BY <2>1 DEF StorageStep, vars, cacheVars
    <3> QED
      BY <3>1, StorageSteps, StorageKeepsOrder
  <2>2. CASE FetchEvents /\ UNCHANGED storageVars
    <3>1. UNCHANGED mLastProcessedEventId
      BY <2>2 DEF FetchEvents
    <3> QED
      BY <2>2, <3>1, FetchInOrder
  <2>3. CASE ProcessEvent /\ UNCHANGED storageVars
    BY <2>3, ProcessInOrder
  <2>4. CASE (UpdateContent \/ ReadLists) /\ UNCHANGED storageVars
    <3>1. UNCHANGED <<page, mLastProcessedEventId, eventLog>>
      BY <2>4 DEF UpdateContent, ReadLists, ReadList, storageVars
    <3> QED
      BY <3>1 DEF PageInOrder
  <2>5. CASE StartReload /\ UNCHANGED storageVars
    <3>1. page' = <<>> /\ reload'.phase = "producers" /\ reload.phase = "none"
      BY <2>5 DEF StartReload, Following
    <3> QED
      BY <3>1 DEF PageInOrder
  <2> QED
    BY <2>1, <2>2, <2>3, <2>4, <2>5 DEF Next, CacheStep
<1> HIDE DEF A
<1>3. Spec => [][A]_vars
  BY CacheInit, CacheInvStep, <1>1, <1>2, PTL DEF Spec
<1> QED
  BY <1>3 DEF EventsInOrder, A
=============================================================================
