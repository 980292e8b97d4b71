-------------------------- MODULE EventLogProofs --------------------------
(***************************************************************************)
(* Proofs about the event log of ContentStorage, and that the records have *)
(* their types, for every set of names, messages, data and calls, every    *)
(* bound, every width of the file ids and every length of the log.         *)
(*                                                                         *)
(* A call may announce a list of events, which a fold adds to the log one  *)
(* by one.  The fold is unfolded into a run of logs by an induction over   *)
(* its length, for which least elements of sets of naturals are enough.    *)
(***************************************************************************)
EXTENDS ContentStorageProofs, FiniteSetTheorems, FunctionTheorems, NaturalsInduction, WellFoundedInduction

\* A table is a function.
IsTable(f) == f = [x \in DOMAIN f |-> f[x]]

\* The log holds the newest events, without a gap up to the counter, and not
\* more than the truncation leaves and what has been added since the last test.
LogOK(log) ==
  /\ log = [counter |-> log.counter, events |-> log.events]
  /\ log.counter \in Nat
  /\ IsTable(log.events)
  /\ \E lo \in 0..log.counter :
       /\ DOMAIN log.events = (lo + 1)..log.counter
       /\ log.counter - lo <= MaxEvents + (log.counter % TruncateStep)

-----------------------------------------------------------------------------
(* Folds over sequences.                                                    *)

\* Induction over the natural numbers, for a set instead of a predicate.
LEMMA NatSetInduction ==
  ASSUME NEW S, 0 \in S, \A n \in Nat : n \in S => n + 1 \in S
  PROVE  Nat \subseteq S
<1> DEFINE R == OpToRel(<, Nat)
<1>1. IsWellFoundedOn(R, Nat)
  BY NatLessThanWellFounded
<1>2. \A n \in Nat : <<n, n + 1>> \in R
  BY DEF OpToRel
<1> HIDE DEF R
<1> SUFFICES ASSUME Nat \ S # {} PROVE FALSE
  OBVIOUS
<1>3. PICK n \in Nat \ S : \A m \in Nat \ S : ~(<<m, n>> \in R)
  BY <1>1, WFMin
<1>4. n - 1 \in Nat /\ <<n - 1, n>> \in R
  BY <1>2
<1> QED
  BY <1>3, <1>4

\* The last of the first n naturals.
LEMMA MaxIs ==
  ASSUME NEW n \in Nat, NEW s \in SUBSET (1..n), n \in s
  PROVE  Max(s) = n
<1>1. n \in s /\ \A y \in s : n >= y
  OBVIOUS
<1>2. \A x : x \in s /\ (\A y \in s : x >= y) => x = n
  BY <1>1
<1> QED
  BY <1>1, <1>2 DEF Max

\* Announce() runs through the events from the first to the last.
LEMMA AnnounceRuns ==
  ASSUME NEW log, NEW N \in Nat, NEW seq, DOMAIN seq = 1..N
  PROVE \E run : /\ run[0] = log
                 /\ \A n \in 1..N : run[n] = addEvent(run[n-1], seq[n])
                 /\ run[N] = FoldLeft(addEvent, log, seq)
<1> DEFINE B(g, s) == IF s = {} THEN log ELSE addEvent(g[s \ {Max(s)}], seq[Max(s)])
           f == CHOOSE g : g = [s \in SUBSET (1..N) |-> B(g, s)]
           E == {n \in Nat : \E g : g = [s \in SUBSET (1..n) |-> B(g, s)]}
<1>1. FoldLeft(addEvent, log, seq) = f[1..N]
  BY DEF FoldLeft, MapThenFoldSet
<1>2. N \in E
  <2>1. 0 \in E
    <3> DEFINE g == [s \in SUBSET (1..0) |-> log]
    <3>1. g = [s \in SUBSET (1..0) |-> B(g, s)]
      OBVIOUS
    <3> QED
      BY <3>1
  <2>2. ASSUME NEW n \in Nat, n \in E PROVE n + 1 \in E
    <3>1. PICK g : g = [s \in SUBSET (1..n) |-> B(g, s)]
      BY <2>2
    <3> DEFINE h == [s \in SUBSET (1..(n + 1)) |->
                       IF n + 1 \in s THEN addEvent(g[s \ {n + 1}], seq[n + 1]) ELSE g[s]]
    <3>2. ASSUME NEW s \in SUBSET (1..(n + 1)) PROVE h[s] = B(h, s)
      <4>1. CASE n + 1 \in s
        <5>1. Max(s) = n + 1 /\ s \ {n + 1} \in SUBSET (1..n)
          BY <4>1, MaxIs
        <5>2. s \ {n + 1} \in SUBSET (1..(n + 1)) /\ n + 1 \notin s \ {n + 1}
          OBVIOUS
        <5>3. h[s \ {n + 1}] = g[s \ {n + 1}]
          BY <5>2
        <5>4. h[s] = addEvent(g[s \ {n + 1}], seq[n + 1])
          BY <4>1
        <5> HIDE DEF h
        <5> QED
          BY <4>1, <5>1, <5>3, <5>4
      <4>2. CASE n + 1 \notin s
        <5>1. s \in SUBSET (1..n)
          BY <4>2
        <5>2. h[s] = g[s] /\ g[s] = B(g, s)
          BY <3>1, <4>2, <5>1
        <5>3. CASE s = {}
          BY <5>2, <5>3
        <5>4. CASE s # {}
          <6>0. \A x : s \ {x} \in SUBSET (1..n) /\ n + 1 \notin s \ {x}
            BY <4>2, <5>1
          <6>1. s \ {Max(s)} \in SUBSET (1..n) /\ n + 1 \notin s \ {Max(s)}
            BY <6>0
          <6>2. h[s \ {Max(s)}] = g[s \ {Max(s)}]
            BY <6>1
          <6> HIDE DEF h
          <6> QED
            BY <5>2, <5>4, <6>2
        <5> QED
          BY <5>3, <5>4
      <4> QED
        BY <4>1, <4>2
    <3>3. h = [s \in SUBSET (1..(n + 1)) |-> h[s]]
      OBVIOUS
    <3> HIDE DEF h
    <3>4. h = [s \in SUBSET (1..(n + 1)) |-> B(h, s)]
      BY <3>2, <3>3
    <3>5. \E gg : gg = [s \in SUBSET (1..(n + 1)) |-> B(gg, s)]
      BY <3>4
    <3>6. n + 1 \in Nat
      OBVIOUS
    <3> HIDE DEF B
    <3> QED
      BY <3>5, <3>6
  <2> HIDE DEF E
  <2> QED
    BY <2>1, <2>2, NatSetInduction
<1>3. f = [s \in SUBSET (1..N) |-> B(f, s)]
  BY <1>2
<1> HIDE DEF f
<1> DEFINE run == [n \in 0..N |-> f[1..n]]
<1>4. run[0] = log
  <2>1. f[{}] = log
    BY <1>3
  <2> QED
    BY <2>1
<1>5. ASSUME NEW n \in 1..N PROVE run[n] = addEvent(run[n-1], seq[n])
  <2>0. n \in Nat /\ n \in 1..n
    OBVIOUS
  <2>1. 1..n \in SUBSET (1..N) /\ 1..n # {} /\ n \in 1..n
    BY <2>0
  <2>2. Max(1..n) = n /\ (1..n) \ {n} = 1..(n - 1)
    BY <2>1, MaxIs
  <2>3. f[1..n] = B(f, 1..n)
    BY <1>3, <2>1
  <2>4. f[1..n] = addEvent(f[1..(n - 1)], seq[n])
    BY <2>1, <2>2, <2>3
  <2> QED
    BY <2>4
<1>6. run[N] = f[1..N]
  OBVIOUS
<1> HIDE DEF run
<1> QED
  BY <1>1, <1>4, <1>5, <1>6

\* The remainder of a quotient and a remainder.
LEMMA RemainderIs ==
  ASSUME NEW t \in Nat \ {0}, NEW q \in Nat, NEW r \in 0..(t - 1)
  PROVE  (t * q + r) % t = r
OBVIOUS

\* Counting on from a number, the remainder grows until it is 0 again.
LEMMA RemainderStep ==
  ASSUME NEW a \in Nat, NEW t \in Nat \ {0}, (a + 1) % t # 0
  PROVE  (a + 1) % t = (a % t) + 1
<1> DEFINE q == a \div t
           r == a % t
<1>1. q \in Nat /\ r \in 0..(t - 1) /\ a = t * q + r
  OBVIOUS
<1> HIDE DEF q, r
<1>2. CASE r + 1 < t
  <2>1. a + 1 = t * q + (r + 1) /\ r + 1 \in 0..(t - 1)
    BY <1>1, <1>2
  <2>2. (t * q + (r + 1)) % t = r + 1
    BY <1>1, <2>1, RemainderIs
  <2> QED
    BY <2>1, <2>2 DEF r
<1>3. CASE r + 1 = t
  <2>1. a + 1 = t * (q + 1)
    BY <1>1, <1>3
  <2>2. (t * (q + 1) + 0) % t = 0
    BY <1>1, RemainderIs
  <2> QED
    BY <1>1, <2>1, <2>2
<1> QED
  BY <1>1, <1>2, <1>3

\* How many numbers follow a up to b.
LEMMA IntervalSize ==
  ASSUME NEW a \in Nat, NEW b \in Nat, a <= b
  PROVE  Cardinality((a + 1)..b) = b - a
<1>1. PICK x \in Int : x = a + 1
  OBVIOUS
<1>2. Cardinality(x..b) = IF x > b THEN 0 ELSE b - x + 1
  <2>1. b \in Int
    OBVIOUS
  <2> QED
    BY <1>1, <2>1, FS_Interval
<1>3. (IF x > b THEN 0 ELSE b - x + 1) = b - a
  BY <1>1
<1> QED
  BY <1>1, <1>2, <1>3

-----------------------------------------------------------------------------
(* One event, and then the events of an announcement.                       *)

\* truncateEvents() cuts the old end off the log, and nothing of what is younger
\* than the surplus and the step.
LEMMA TruncateIs ==
  ASSUME NEW events, NEW lo \in Nat, NEW c \in Nat, lo <= c,
         IsTable(events), DOMAIN events = (lo + 1)..c
  PROVE  \E l \in lo..c :
           /\ IsTable(truncateEvents(events))
           /\ DOMAIN truncateEvents(events) = (l + 1)..c
           /\ \A k \in (l + 1)..c : truncateEvents(events)[k] = events[k]
           /\ c - l <= MaxEvents
           /\ \A k \in (lo + 1)..c : k > c - (MaxEvents - TruncateStep - 1) => k > l
<1> DEFINE count == Cardinality(DOMAIN events)
           rank(n) == Cardinality({k \in DOMAIN events : k < n})
           old == {n \in DOMAIN events : rank(n) <= count - MaxEvents + TruncateStep}
           cut == c - MaxEvents + TruncateStep + 1
<1> USE StorageAssumption
<1>1. count = c - lo
  BY IntervalSize
<1>2. ASSUME NEW n \in (lo + 1)..c PROVE rank(n) = n - lo - 1
  <2>1. {k \in DOMAIN events : k < n} = (lo + 1)..(n - 1)
    OBVIOUS
  <2>2. n - 1 \in Nat /\ lo <= n - 1
    OBVIOUS
  <2> HIDE DEF rank
  <2>3. Cardinality((lo + 1)..(n - 1)) = (n - 1) - lo
    BY <2>2, IntervalSize
  <2>4. rank(n) = Cardinality((lo + 1)..(n - 1))
    BY <2>1 DEF rank
  <2>5. (n - 1) - lo = n - lo - 1
    OBVIOUS
  <2> QED
    BY <2>3, <2>4, <2>5
<1>3. old = {n \in (lo + 1)..c : n <= cut}
  <2> HIDE DEF rank, count
  <2>1. ASSUME NEW n \in (lo + 1)..c
        PROVE  rank(n) <= count - MaxEvents + TruncateStep <=> n <= cut
    BY <1>1, <1>2
  <2> QED
    BY <2>1
<1>4. CASE count > MaxEvents
  <2> DEFINE l == IF cut <= c THEN cut ELSE c
  <2>1. truncateEvents(events) = [k \in DOMAIN events \ old |-> events[k]]
    BY <1>4 DEF truncateEvents, Without
  <2>2. DOMAIN events \ old = (l + 1)..c /\ l \in lo..c
    <3>0. cut \in Int /\ cut > lo
      BY <1>1, <1>4
    <3> HIDE DEF old, cut, count
    <3> QED
      BY <1>3, <3>0
  <2>3. c - l <= MaxEvents /\ \A k \in (lo + 1)..c : k > c - (MaxEvents - TruncateStep - 1) => k > l
    BY <2>2
  <2>4. truncateEvents(events) = [k \in (l + 1)..c |-> events[k]]
    BY <2>1, <2>2
  <2> HIDE DEF l
  <2> QED
    BY <2>2, <2>3, <2>4 DEF IsTable
<1>5. CASE ~(count > MaxEvents)
  <2>1. truncateEvents(events) = events
    BY <1>5 DEF truncateEvents
  <2> QED
    BY <1>1, <1>5, <2>1
<1>6. QED
  BY <1>4, <1>5

\* addEvent() keeps the log well-formed: the new event is the last, and what it
\* drops is at the old end.
LEMMA AddEventIs ==
  ASSUME NEW log, NEW e, LogOK(log)
  PROVE  LET new == addEvent(log, e)
         IN /\ LogOK(new)
            /\ new.counter = log.counter + 1
            /\ \A k \in DOMAIN new.events :
                 \/ k \in DOMAIN log.events /\ new.events[k] = log.events[k]
                 \/ k = log.counter + 1 /\ new.events[k] = e
            /\ \A k \in DOMAIN log.events :
                 k > new.counter - (MaxEvents - TruncateStep - 1) => k \in DOMAIN new.events
<1>0. MaxEvents \in Nat /\ TruncateStep \in Nat \ {0} /\ log.counter \in Nat
  BY StorageAssumption DEF LogOK
<1>1. PICK c \in Nat : c = log.counter + 1
  BY <1>0
<1> DEFINE new == addEvent(log, e)
           all == Put(log.events, c, e)
<1>2. PICK lo \in Nat : /\ lo <= log.counter /\ DOMAIN log.events = (lo + 1)..log.counter
                        /\ log.counter - lo <= MaxEvents + (log.counter % TruncateStep)
  BY <1>0 DEF LogOK
<1>3. /\ IsTable(all) /\ DOMAIN all = (lo + 1)..c /\ all[c] = e
      /\ \A k \in (lo + 1)..log.counter : all[k] = log.events[k]
  BY <1>0, <1>1, <1>2 DEF Put, IsTable
<1>4. /\ new = [counter |-> new.counter, events |-> new.events]
      /\ new.counter = c
      /\ new.events = IF c % TruncateStep = 0 THEN truncateEvents(all) ELSE all
  BY <1>1 DEF addEvent
<1> HIDE DEF new, all
<1>5. \E l \in lo..c :
        /\ IsTable(new.events)
        /\ DOMAIN new.events = (l + 1)..c
        /\ \A k \in (l + 1)..c : new.events[k] = all[k]
        /\ c - l <= MaxEvents + (c % TruncateStep)
        /\ \A k \in (lo + 1)..c : k > c - (MaxEvents - TruncateStep - 1) => k > l
  <2>1. CASE c % TruncateStep = 0
    <3>1. lo <= c /\ IsTable(all) /\ DOMAIN all = (lo + 1)..c
      BY <1>0, <1>1, <1>2, <1>3
    <3>2. PICK l \in lo..c :
            /\ IsTable(truncateEvents(all))
            /\ DOMAIN truncateEvents(all) = (l + 1)..c
            /\ \A k \in (l + 1)..c : truncateEvents(all)[k] = all[k]
            /\ c - l <= MaxEvents
            /\ \A k \in (lo + 1)..c : k > c - (MaxEvents - TruncateStep - 1) => k > l
      BY <3>1, TruncateIs
    <3>3. new.events = truncateEvents(all)
      BY <1>4, <2>1
    <3>4. c - l <= MaxEvents + (c % TruncateStep)
      BY <1>0, <1>2, <2>1, <3>2
    <3> QED
      BY <3>2, <3>3, <3>4
  <2>2. CASE c % TruncateStep # 0
    <3>1. c % TruncateStep = (log.counter % TruncateStep) + 1
      BY <1>0, <1>1, <2>2, RemainderStep
    <3>2. lo \in lo..c /\ c - lo <= MaxEvents + (c % TruncateStep)
      BY <1>0, <1>1, <1>2, <3>1
    <3> QED
      BY <1>3, <1>4, <2>2, <3>2
  <2> QED
    BY <2>1, <2>2
<1>6. PICK l \in lo..c :
        /\ IsTable(new.events)
        /\ DOMAIN new.events = (l + 1)..c
        /\ \A k \in (l + 1)..c : new.events[k] = all[k]
        /\ c - l <= MaxEvents + (c % TruncateStep)
        /\ \A k \in (lo + 1)..c : k > c - (MaxEvents - TruncateStep - 1) => k > l
  BY <1>5
<1>7. LogOK(new)
  BY <1>0, <1>1, <1>2, <1>4, <1>6 DEF LogOK
<1>8. \A k \in DOMAIN new.events :
        \/ k \in DOMAIN log.events /\ new.events[k] = log.events[k]
        \/ k = log.counter + 1 /\ new.events[k] = e
  <2> SUFFICES ASSUME NEW k \in DOMAIN new.events
               PROVE  \/ k \in DOMAIN log.events /\ new.events[k] = log.events[k]
                      \/ k = log.counter + 1 /\ new.events[k] = e
    OBVIOUS
  <2>1. k \in (l + 1)..c /\ new.events[k] = all[k] /\ l \in lo..c /\ lo \in Nat
    BY <1>0, <1>1, <1>6
  <2>2. CASE k = c
    BY <1>1, <1>3, <2>1, <2>2
  <2>3. CASE k # c
    <3>1. k \in (lo + 1)..log.counter
      BY <1>0, <1>1, <2>1, <2>3
    <3> QED
      BY <1>0, <1>2, <1>3, <2>1, <3>1
  <2> QED
    BY <2>2, <2>3
<1>9. \A k \in DOMAIN log.events :
        k > new.counter - (MaxEvents - TruncateStep - 1) => k \in DOMAIN new.events
  <2> SUFFICES ASSUME NEW k \in DOMAIN log.events,
                      k > new.counter - (MaxEvents - TruncateStep - 1)
               PROVE  k \in DOMAIN new.events
    OBVIOUS
  <2>1. k \in (lo + 1)..c
    BY <1>0, <1>1, <1>2
  <2>2. k > l
    BY <1>4, <1>6, <2>1
  <2> QED
    BY <1>0, <1>1, <1>6, <2>1, <2>2
<1> QED
  BY <1>0, <1>1, <1>4, <1>7, <1>8, <1>9 DEF new

\* Announce() adds its events in their order: the counter counts them, the log
\* has the old events and these, and only old events are cut off.
LEMMA AnnounceIs ==
  ASSUME NEW log, LogOK(log), NEW N \in Nat, NEW seq, DOMAIN seq = 1..N
  PROVE  LET new == FoldLeft(addEvent, log, seq)
         IN /\ LogOK(new)
            /\ new.counter = log.counter + N
            /\ \A k \in DOMAIN new.events :
                 \/ k \in DOMAIN log.events /\ new.events[k] = log.events[k]
                 \/ k > log.counter /\ \E i \in 1..N : new.events[k] = seq[i]
            /\ \A k \in DOMAIN log.events :
                 k > new.counter - (MaxEvents - TruncateStep - 1) => k \in DOMAIN new.events
<1>0. MaxEvents \in Nat /\ TruncateStep \in Nat /\ log.counter \in Nat
  BY StorageAssumption DEF LogOK
<1>1. PICK run : /\ run[0] = log
                 /\ \A n \in 1..N : run[n] = addEvent(run[n-1], seq[n])
                 /\ run[N] = FoldLeft(addEvent, log, seq)
  BY AnnounceRuns
<1> DEFINE P(n) ==
             /\ LogOK(run[n])
             /\ run[n].counter = log.counter + n
             /\ \A k \in DOMAIN run[n].events :
                  \/ k \in DOMAIN log.events /\ run[n].events[k] = log.events[k]
                  \/ k > log.counter /\ \E i \in 1..n : run[n].events[k] = seq[i]
             /\ \A k \in DOMAIN log.events :
                  k > run[n].counter - (MaxEvents - TruncateStep - 1) => k \in DOMAIN run[n].events
           S == {n \in Nat : n <= N => P(n)}
<1>2. 0 \in S
  BY <1>0, <1>1
<1>3. ASSUME NEW n \in Nat, n \in S PROVE n + 1 \in S
  <2> SUFFICES ASSUME n + 1 <= N PROVE P(n + 1)
    OBVIOUS
  <2> DEFINE old == run[n]
             new == run[n + 1]
  <2>1. P(n)
    BY <1>3
  <2>2. new = addEvent(old, seq[n + 1])
    <3>1. n + 1 \in 1..N /\ (n + 1) - 1 = n
      OBVIOUS
    <3> QED
      BY <1>1, <3>1
  <2>3. /\ LogOK(old) /\ old.counter = log.counter + n
        /\ \A k \in DOMAIN old.events :
             \/ k \in DOMAIN log.events /\ old.events[k] = log.events[k]
             \/ k > log.counter /\ \E i \in 1..n : old.events[k] = seq[i]
        /\ \A k \in DOMAIN log.events :
             k > old.counter - (MaxEvents - TruncateStep - 1) => k \in DOMAIN old.events
    BY <2>1
  <2> HIDE DEF old, new
  <2>4. /\ LogOK(new) /\ new.counter = old.counter + 1
        /\ \A k \in DOMAIN new.events :
             \/ k \in DOMAIN old.events /\ new.events[k] = old.events[k]
             \/ k = old.counter + 1 /\ new.events[k] = seq[n + 1]
        /\ \A k \in DOMAIN old.events :
             k > new.counter - (MaxEvents - TruncateStep - 1) => k \in DOMAIN new.events
    BY <2>2, <2>3, AddEventIs
  <2>5. new.counter = log.counter + (n + 1)
    BY <1>0, <2>3, <2>4
  <2>6. ASSUME NEW k \in DOMAIN new.events
        PROVE  \/ k \in DOMAIN log.events /\ new.events[k] = log.events[k]
               \/ k > log.counter /\ \E i \in 1..(n + 1) : new.events[k] = seq[i]
    <3>1. CASE k \in DOMAIN old.events /\ new.events[k] = old.events[k]
      BY <2>3, <3>1
    <3>2. CASE k = old.counter + 1 /\ new.events[k] = seq[n + 1]
      <4>1. n + 1 \in 1..(n + 1) /\ k > log.counter
        BY <1>0, <2>3, <3>2
      <4> QED
        BY <3>2, <4>1
    <3> QED
      BY <2>4, <3>1, <3>2
  <2>7. ASSUME NEW k \in DOMAIN log.events,
               k > new.counter - (MaxEvents - TruncateStep - 1)
        PROVE  k \in DOMAIN new.events
    <3>1. k \in Int
      BY DEF LogOK
    <3>2. k > old.counter - (MaxEvents - TruncateStep - 1)
      BY <1>0, <2>3, <2>4, <2>7, <3>1
    <3> QED
      BY <2>3, <2>4, <2>7, <3>2
  <2> QED
    BY <2>4, <2>5, <2>6, <2>7 DEF new
<1>4. N \in S
  <2> HIDE DEF S
  <2> QED
    BY <1>2, <1>3, NatSetInduction
<1>5. P(N)
  BY <1>4
<1> QED
  BY <1>1, <1>5

\* The events of a set, in some order.
LEMMA SetToSeqIs ==
  ASSUME NEW S, IsFiniteSet(S)
  PROVE  /\ Cardinality(S) \in Nat
         /\ DOMAIN SetToSeq(S) = 1..Cardinality(S)
         /\ SetToSeq(S) \in Seq(S)
         /\ \A i \in 1..Cardinality(S) : SetToSeq(S)[i] \in S
         /\ Cardinality(S) = 0 => S = {}
<1> DEFINE n == Cardinality(S)
<1>1. n \in Nat /\ ExistsBijection(1..n, S)
  BY FS_CardinalityType
<1>2. \E f \in [1..n -> S] : IsInjective(f)
  BY <1>1 DEF ExistsBijection, Bijection, Injection
<1>3. SetToSeq(S) \in [1..n -> S]
  BY <1>2 DEF SetToSeq
<1>4. n = 0 => S = {}
  BY FS_EmptySet
<1> HIDE DEF n
<1>5. SetToSeq(S) \in Seq(S)
  BY <1>1, <1>3
<1> QED
  BY <1>1, <1>3, <1>4, <1>5 DEF n

\* What a table holds is finite if its keys are.
LEMMA ImageFinite ==
  ASSUME NEW S, IsFiniteSet(S), NEW f, DOMAIN f = S
  PROVE  IsFiniteSet({f[x] : x \in S})
<1> DEFINE T == {f[x] : x \in S}
           F == [x \in S |-> f[x]]
<1>1. F \in [S -> T] /\ \A y \in T : \E x \in S : F[x] = y
  OBVIOUS
<1>2. F \in Surjection(S, T)
  BY <1>1, Fun_IsSurj
<1> QED
  BY <1>2, FS_Surjection

-----------------------------------------------------------------------------
(* The types of the records.                                                *)

ProducersTyped ==
  /\ producerCounter \in Nat
  /\ DOMAIN producers \subseteq 1..producerCounter
  /\ \A p \in DOMAIN producers : producers[p] \in Producers

GenerationsTyped ==
  /\ generationCounter \in Nat
  /\ IsTable(generations)
  /\ DOMAIN generations \subseteq 1..generationCounter
  /\ \A g \in DOMAIN generations :
       generations[g] \in [producer : Nat, name : GenerationNames, status : Statuses]

GeometriesTyped ==
  /\ geometries \subseteq
       [producer : Nat, generation : Nat, geometry : Geometries, status : GeometryStatuses]
  /\ IsFiniteSet(geometries)

FilesTyped ==
  /\ fileCounter \in Nat
  /\ IsTable(files) /\ IsTable(filenames)
  /\ DOMAIN files \subseteq 1..(FileIdModulus - 1)
  /\ \A f \in DOMAIN files :
       files[f] \in [producer : Nat, generation : Nat, name : FileNames]
  /\ DOMAIN filenames \subseteq FileNames

\* A content record belongs to a file id, and there are finitely many records.
ContentTyped ==
  /\ content \subseteq [file : 1..(FileIdModulus - 1), message : Messages, producer : Nat,
                        generation : Nat, data : Data]
  /\ IsFiniteSet(content)

Typed == ProducersTyped /\ GenerationsTyped /\ GeometriesTyped /\ FilesTyped /\ ContentTyped

LEMMA PutIs ==
  ASSUME NEW f, NEW k, NEW v
  PROVE  /\ IsTable(Put(f, k, v))
         /\ DOMAIN Put(f, k, v) = DOMAIN f \cup {k}
         /\ Put(f, k, v)[k] = v
         /\ \A x : x \in DOMAIN f /\ x # k => Put(f, k, v)[x] = f[x]
BY DEF Put, IsTable

LEMMA WithoutIs ==
  ASSUME NEW f, NEW K
  PROVE  /\ IsTable(Without(f, K))
         /\ DOMAIN Without(f, K) = DOMAIN f \ K
         /\ \A x \in DOMAIN f \ K : Without(f, K)[x] = f[x]
BY DEF Without, IsTable

LEMMA NothingIs == IsTable(Nothing) /\ DOMAIN Nothing = {}
BY DEF Nothing, IsTable

\* What the calls of each kind leave alone.
LEMMA ProducerCallsKeep == ProducerCalls => UNCHANGED <<generationCounter, fileCounter>>
BY DEF ProducerCalls, addProducerInfo, setProducerInfo, deleteProducerInfoById,
       deleteProducerInfoByName, deleteProducer, counters

LEMMA GenerationCallsKeep ==
  GenerationCalls => UNCHANGED <<producers, producerCounter, fileCounter>>
<1>1. ASSUME NEW g, NEW p, NEW name, NEW status,
             \/ addGenerationInfo(p, name, status) \/ setGenerationInfo(g, p, name, status)
             \/ setGenerationStatus(g, status)
      PROVE  UNCHANGED <<producers, producerCounter, fileCounter>>
  BY <1>1 DEF addGenerationInfo, setGenerationInfo, setGenerationStatus, counters
<1>2. ASSUME NEW G, deleteGenerationList(G)
      PROVE  UNCHANGED <<producers, producerCounter, fileCounter>>
  BY <1>2 DEF deleteGenerationList, counters
<1>3. ASSUME NEW p, deleteGenerationsOfProducer(p)
      PROVE  UNCHANGED <<producers, producerCounter, fileCounter>>
  BY <1>3 DEF deleteGenerationsOfProducer, counters
<1> QED
  BY <1>1, <1>2, <1>3
  DEF GenerationCalls, setGenerationInfoStatusById, setGenerationInfoStatusByName,
      deleteGenerationInfoById, deleteGenerationInfoByName, deleteGenerationInfoListByIdList,
      deleteGenerationInfoListByProducerId, deleteGenerationInfoListByProducerName

LEMMA GeometryCallsKeep ==
  GeometryCalls => UNCHANGED <<producers, generations, files, filenames, counters>>
BY DEF GeometryCalls, addGeometryInfo, setGeometryInfo, setGeometryInfoStatusById,
       deleteGeometryInfoById, deleteGeometryInfoListByGenerationId,
       deleteGeometryInfoListByProducerId

LEMMA FileCallsKeep == FileCalls => UNCHANGED <<parents, producerCounter, generationCounter>>
<1> DEFINE Kept == UNCHANGED <<parents, producerCounter, generationCounter>>
<1>1. ASSUME NEW name, NEW g, NEW f, addFileInfo(name, g) \/ setFileInfo(f, name, g)
      PROVE  Kept
  BY <1>1 DEF addFileInfo, setFileInfo, counters
<1>2. ASSUME NEW name, NEW g, NEW list, addFileInfoWithContentList(name, g, list)
      PROVE  Kept
  BY <1>2 DEF addFileInfoWithContentList
<1>3. ASSUME NEW name, NEW g, NEW list, NEW replace,
             addFileInfoListWithContent(name, g, list, replace)
      PROVE  Kept
  BY <1>3 DEF addFileInfoListWithContent
<1>4. ASSUME NEW f, NEW name, deleteFileInfoById(f) \/ deleteFileInfoByName(name)
      PROVE  Kept
  BY <1>4 DEF deleteFileInfoById, deleteFileInfoByName, counters
<1>5. ASSUME NEW F, NEW p, NEW g,
             \/ deleteFileInfoListByFileIdList(F)
             \/ deleteFilesOfProducer(p) \/ deleteFilesOfGeneration(g)
      PROVE  Kept
  BY <1>5 DEF deleteFileInfoListByFileIdList, deleteFilesOfProducer, deleteFilesOfGeneration,
              counters
<1>6. ASSUME NEW g, NEW d, deleteFileInfoListByGenerationIdAndForecastTime(g, d)
                             \/ deleteFileInfoListByForecastTimeList(g, d)
      PROVE  Kept
  BY <1>6 DEF deleteFileInfoListByGenerationIdAndForecastTime,
              deleteFileInfoListByForecastTimeList, counters
<1> QED
  BY <1>1, <1>2, <1>3, <1>4, <1>5, <1>6
  DEF FileCalls, deleteFileInfoListByProducerId, deleteFileInfoListByProducerName,
      deleteFileInfoListByGenerationId, deleteFileInfoListByGenerationName

LEMMA ContentCallsKeep == ContentCalls => UNCHANGED <<parents, files, filenames, counters>>
<1> DEFINE Kept == UNCHANGED <<parents, files, filenames, counters>>
<1>1. ASSUME NEW f, NEW m, NEW d, \/ addContentInfo(f, m, d) \/ setContentInfo(f, m, d)
                                  \/ deleteContentInfo(f, m)
      PROVE  Kept
  BY <1>1 DEF addContentInfo, setContentInfo, deleteContentInfo
<1>2. ASSUME NEW f, NEW list, addContentList(f, list) PROVE Kept
  BY <1>2 DEF addContentList
<1>3. ASSUME NEW f, \/ deleteContentOfFile(f) \/ deleteContentOfProducer(f)
                    \/ deleteContentOfGeneration(f)
      PROVE  Kept
  BY <1>3 DEF deleteContentOfFile, deleteContentOfProducer, deleteContentOfGeneration
<1> QED
  BY <1>1, <1>2, <1>3
  DEF ContentCalls, deleteContentListByFileId, deleteContentListByFileName,
      deleteContentListByProducerId, deleteContentListByProducerName,
      deleteContentListByGenerationId, deleteContentListByGenerationName

LEMMA ProducersTypedStep == Typed /\ StorageCall => ProducersTyped'
<1> SUFFICES ASSUME Typed, StorageCall PROVE ProducersTyped'
  OBVIOUS
<1> USE DEF Typed, ProducersTyped
<1>0. ASSUME NEW p \in Nat, NEW name \in Producers, producers' = Put(producers, p, name),
             p \in 1..producerCounter', producerCounter' \in Nat,
             producerCounter <= producerCounter'
      PROVE  ProducersTyped'
  <2>1. /\ DOMAIN producers' = DOMAIN producers \cup {p} /\ producers'[p] = name
        /\ \A x \in DOMAIN producers : x # p => producers'[x] = producers[x]
    BY <1>0 DEF Put
  <2>2. 1..producerCounter \subseteq 1..producerCounter'
    BY <1>0
  <2> QED
    BY <1>0, <2>1, <2>2
<1>1. ASSUME NEW name \in Producers, addProducerInfo(name) PROVE ProducersTyped'
  BY <1>0, <1>1 DEF addProducerInfo
<1>2. ASSUME NEW p \in 1..(producerCounter + 1), NEW name \in Producers,
             p <= producerCounter, setProducerInfo(p, name)
      PROVE  ProducersTyped'
  BY <1>0, <1>2 DEF setProducerInfo, counters
<1>3. ASSUME NEW p, deleteProducer(p) PROVE ProducersTyped'
  BY <1>3 DEF deleteProducer, counters, Without
<1>4. CASE ProducerCalls
  BY <1>1, <1>2, <1>3, <1>4
  DEF ProducerCalls, deleteProducerInfoById, deleteProducerInfoByName
<1>5. ASSUME UNCHANGED <<producers, producerCounter>> PROVE ProducersTyped'
  BY <1>5
<1> QED
  BY <1>4, <1>5, GenerationCallsKeep, GeometryCallsKeep, FileCallsKeep, ContentCallsKeep
  DEF StorageCall, parents, counters

\* The generations of a deletion are those that were there before.
LEMMA GenerationsShrink ==
  ASSUME GenerationsTyped, NEW G, generations' = Without(generations, G),
         UNCHANGED generationCounter
  PROVE  GenerationsTyped'
BY DEF GenerationsTyped, Without, IsTable

\* A generation is stored under an id that has been given out.
LEMMA GenerationStored ==
  ASSUME GenerationsTyped, NEW g \in Nat, NEW p \in Nat, NEW name \in GenerationNames,
         NEW status \in Statuses,
         generations' = Put(generations, g, [producer |-> p, name |-> name, status |-> status]),
         g \in 1..generationCounter', generationCounter' \in Nat,
         generationCounter <= generationCounter'
  PROVE  GenerationsTyped'
<1> DEFINE new == [producer |-> p, name |-> name, status |-> status]
           R == [producer : Nat, name : GenerationNames, status : Statuses]
<1>1. new \in R
  OBVIOUS
<1>2. generations' = Put(generations, g, new)
  OBVIOUS
<1> HIDE DEF new
<1>3. /\ IsTable(generations') /\ DOMAIN generations' = DOMAIN generations \cup {g}
      /\ generations'[g] = new
      /\ \A x \in DOMAIN generations : x # g => generations'[x] = generations[x]
  BY <1>2 DEF Put, IsTable
<1>4. 1..generationCounter \subseteq 1..generationCounter'
  BY DEF GenerationsTyped
<1>5. \A x \in DOMAIN generations : generations[x] \in R
  BY DEF GenerationsTyped
<1> HIDE DEF R
<1>6. \A x \in DOMAIN generations' : generations'[x] \in R
  BY <1>1, <1>3, <1>5
<1>7. DOMAIN generations' \subseteq 1..generationCounter'
  BY <1>3, <1>4 DEF GenerationsTyped
<1> QED
  BY <1>3, <1>6, <1>7 DEF GenerationsTyped, R

LEMMA GenerationsTypedStep == Typed /\ StorageCall => GenerationsTyped'
<1> SUFFICES ASSUME Typed, StorageCall PROVE GenerationsTyped'
  OBVIOUS
<1> USE DEF Typed
<1>0. \A p \in DOMAIN producers : p \in Nat
  BY DEF ProducersTyped
<1>1. ASSUME NEW p, DeleteAllOfProducer(p), UNCHANGED generationCounter PROVE GenerationsTyped'
  BY <1>1, GenerationsShrink DEF DeleteAllOfProducer
<1>2. CASE ProducerCalls
  <2>1. ASSUME NEW name, addProducerInfo(name) PROVE GenerationsTyped'
    BY <2>1 DEF addProducerInfo, GenerationsTyped
  <2>2. ASSUME NEW p, NEW name, setProducerInfo(p, name) PROVE GenerationsTyped'
    BY <2>2 DEF setProducerInfo, counters, GenerationsTyped
  <2> QED
    BY <1>1, <1>2, <2>1, <2>2
    DEF ProducerCalls, deleteProducerInfoById, deleteProducerInfoByName, deleteProducer, counters
<1>3. CASE GenerationCalls
  <2>1. ASSUME NEW p \in DOMAIN producers, NEW name \in GenerationNames,
               NEW status \in Statuses, addGenerationInfo(p, name, status)
        PROVE  GenerationsTyped'
    <3>1. p \in Nat /\ generationCounter + 1 \in Nat
      BY <1>0 DEF GenerationsTyped
    <3> QED
      BY <2>1, <3>1, GenerationStored DEF addGenerationInfo, GenerationsTyped
  <2>2. ASSUME NEW p \in DOMAIN producers, NEW name \in GenerationNames,
               NEW status \in Statuses, NEW g \in 1..generationCounter,
               setGenerationInfo(g, p, name, status)
        PROVE  GenerationsTyped'
    <3>1. p \in Nat /\ g \in Nat
      BY <1>0 DEF GenerationsTyped
    <3> QED
      BY <2>2, <3>1, GenerationStored DEF setGenerationInfo, GenerationsTyped, counters
  <2>3. ASSUME NEW g \in DOMAIN generations, NEW status \in Statuses,
               setGenerationStatus(g, status)
        PROVE  GenerationsTyped'
    <3>1. generations' = [generations EXCEPT ![g].status = status] /\ UNCHANGED generationCounter
      BY <2>3 DEF setGenerationStatus, counters
    <3>2. [generations[g] EXCEPT !.status = status]
            \in [producer : Nat, name : GenerationNames, status : Statuses]
      BY DEF GenerationsTyped
    <3>3. /\ IsTable(generations') /\ DOMAIN generations' = DOMAIN generations
          /\ \A h \in DOMAIN generations :
               generations'[h] \in [producer : Nat, name : GenerationNames, status : Statuses]
      BY <3>1, <3>2 DEF GenerationsTyped, IsTable
    <3> QED
      BY <3>1, <3>3 DEF GenerationsTyped
  <2>4. ASSUME NEW G, deleteGenerationList(G) PROVE GenerationsTyped'
    BY <2>4, GenerationsShrink DEF deleteGenerationList, counters
  <2>5. ASSUME NEW p, deleteGenerationsOfProducer(p) PROVE GenerationsTyped'
    BY <1>1, <2>5 DEF deleteGenerationsOfProducer, counters
  <2> QED
    BY <1>3, <2>1, <2>2, <2>3, <2>4, <2>5
    DEF GenerationCalls, setGenerationInfoStatusById, setGenerationInfoStatusByName,
        GenerationsNamed,
        deleteGenerationInfoById, deleteGenerationInfoByName, deleteGenerationInfoListByIdList,
        deleteGenerationInfoListByProducerId, deleteGenerationInfoListByProducerName
<1>4. ASSUME UNCHANGED <<generations, generationCounter>> PROVE GenerationsTyped'
  BY <1>4 DEF GenerationsTyped
<1> QED
  BY <1>2, <1>3, <1>4, GeometryCallsKeep, FileCallsKeep, ContentCallsKeep
  DEF StorageCall, parents, counters

LEMMA GeometriesTypedStep == Typed /\ StorageCall => GeometriesTyped'
<1> SUFFICES ASSUME Typed, StorageCall PROVE GeometriesTyped'
  OBVIOUS
<1> USE DEF Typed
<1>0. ASSUME geometries' \subseteq geometries PROVE GeometriesTyped'
  BY <1>0, FS_Subset DEF GeometriesTyped
<1>9. ASSUME NEW x \in [producer : Nat, generation : Nat, geometry : Geometries,
                        status : GeometryStatuses],
             geometries' \subseteq geometries \cup {x}
      PROVE  GeometriesTyped'
  <2>1. IsFiniteSet(geometries \cup {x})
    BY FS_AddElement DEF GeometriesTyped
  <2>2. IsFiniteSet(geometries')
    BY <1>9, <2>1, FS_Subset
  <2> QED
    BY <1>9, <2>2 DEF GeometriesTyped
<1>1. ASSUME NEW p, DeleteAllOfProducer(p) PROVE GeometriesTyped'
  BY <1>0, <1>1 DEF DeleteAllOfProducer
<1>2. CASE ProducerCalls
  BY <1>0, <1>1, <1>2
  DEF ProducerCalls, addProducerInfo, setProducerInfo, deleteProducerInfoById,
      deleteProducerInfoByName, deleteProducer
<1>3. CASE GenerationCalls
  <2>1. ASSUME NEW g, NEW p, NEW name, NEW status,
               \/ addGenerationInfo(p, name, status) \/ setGenerationInfo(g, p, name, status)
               \/ setGenerationStatus(g, status)
        PROVE  GeometriesTyped'
    BY <1>0, <2>1 DEF addGenerationInfo, setGenerationInfo, setGenerationStatus
  <2>2. ASSUME NEW G, deleteGenerationList(G) PROVE GeometriesTyped'
    BY <1>0, <2>2 DEF deleteGenerationList
  <2>3. ASSUME NEW p, deleteGenerationsOfProducer(p) PROVE GeometriesTyped'
    BY <1>1, <2>3 DEF deleteGenerationsOfProducer
  <2> QED
    BY <1>3, <2>1, <2>2, <2>3
    DEF GenerationCalls, setGenerationInfoStatusById, setGenerationInfoStatusByName,
        deleteGenerationInfoById, deleteGenerationInfoByName, deleteGenerationInfoListByIdList,
        deleteGenerationInfoListByProducerId, deleteGenerationInfoListByProducerName
<1>4. CASE GeometryCalls
  <2>1. ASSUME NEW g \in 1..generationCounter, NEW k \in Geometries,
               NEW status \in GeometryStatuses,
               addGeometryInfo(g, k, status) \/ setGeometryInfo(g, k, status)
        PROVE  GeometriesTyped'
    <3>1. generations[g].producer \in Nat /\ g \in Nat
      BY <2>1 DEF addGeometryInfo, setGeometryInfo, HasProducer, GenerationsTyped
    <3>2. geometries' \subseteq geometries \cup {GeometryRecord(g, k, status)}
      BY <2>1 DEF addGeometryInfo, setGeometryInfo
    <3>3. GeometryRecord(g, k, status) \in [producer : Nat, generation : Nat,
                                            geometry : Geometries, status : GeometryStatuses]
      BY <3>1 DEF GeometryRecord
    <3> QED
      BY <1>9, <3>2, <3>3
  <2>2. ASSUME NEW g, NEW k, NEW status \in GeometryStatuses,
               setGeometryInfoStatusById(g, k, status)
        PROVE  GeometriesTyped'
    <3>1. PICK x \in geometries :
            geometries' \subseteq geometries \cup {[x EXCEPT !.status = status]}
      BY <2>2 DEF setGeometryInfoStatusById, GeometriesAt
    <3>2. [x EXCEPT !.status = status] \in [producer : Nat, generation : Nat,
                                            geometry : Geometries, status : GeometryStatuses]
      BY DEF GeometriesTyped
    <3> QED
      BY <1>9, <3>1, <3>2
  <2>3. ASSUME NEW g, NEW k, \/ deleteGeometryInfoById(g, k)
                             \/ deleteGeometryInfoListByGenerationId(g)
                             \/ deleteGeometryInfoListByProducerId(g)
        PROVE  GeometriesTyped'
    BY <1>0, <2>3 DEF deleteGeometryInfoById, deleteGeometryInfoListByGenerationId,
                      deleteGeometryInfoListByProducerId
  <2> QED
    BY <1>4, <2>1, <2>2, <2>3 DEF GeometryCalls
<1> QED
  BY <1>0, <1>2, <1>3, <1>4, FileCallsKeep, ContentCallsKeep DEF StorageCall, parents

-----------------------------------------------------------------------------
(* The files and the content.                                               *)

\* The files of a deletion are those that were there before.
LEMMA FilesGo ==
  ASSUME FilesTyped, NEW F, DeleteFiles(F), UNCHANGED fileCounter
  PROVE  FilesTyped'
BY DEF FilesTyped, DeleteFiles, deleteFilenames, Without, IsTable

\* A new file has an id of the range and a registered name.
LEMMA FileComes ==
  ASSUME FilesTyped, GenerationsTyped, NEW g \in DOMAIN generations, NEW name \in FileNames,
         NEW n \in (fileCounter + 1)..(fileCounter + FileIdModulus), NewFile(n, name, g)
  PROVE  /\ FilesTyped'
         /\ n % FileIdModulus \in 1..(FileIdModulus - 1)
         /\ n % FileIdModulus \notin DOMAIN files
<1> USE StorageAssumption
<1> DEFINE new == [producer |-> generations[g].producer, generation |-> g, name |-> name]
           id == n % FileIdModulus
           R == [producer : Nat, generation : Nat, name : FileNames]
<1>1. n \in Nat /\ id \in 0..(FileIdModulus - 1)
  BY DEF FilesTyped
<1>2. id # 0 /\ id \notin DOMAIN files
  BY DEF NewFile, allocateFileId
<1>3. new \in R
  BY DEF GenerationsTyped
<1>4. files' = Put(files, id, new) /\ filenames' = Put(filenames, name, id) /\ fileCounter' = n
  BY DEF NewFile
<1>5. id \in 1..(FileIdModulus - 1)
  BY <1>1, <1>2
<1>6. \A f \in DOMAIN files : files[f] \in R
  BY DEF FilesTyped
<1> HIDE DEF new, R, id
<1>7. /\ IsTable(files') /\ DOMAIN files' = DOMAIN files \cup {id} /\ files'[id] = new
      /\ \A x \in DOMAIN files : x # id => files'[x] = files[x]
  BY <1>4 DEF Put, IsTable
<1>8. IsTable(filenames') /\ DOMAIN filenames' = DOMAIN filenames \cup {name}
  BY <1>4 DEF Put, IsTable
<1>9. \A f \in DOMAIN files' : files'[f] \in R
  BY <1>3, <1>6, <1>7
<1>10. fileCounter' \in Nat /\ DOMAIN files' \subseteq 1..(FileIdModulus - 1)
  BY <1>1, <1>4, <1>5, <1>7 DEF FilesTyped
<1>11. DOMAIN filenames' \subseteq FileNames
  BY <1>8 DEF FilesTyped
<1>12. FilesTyped'
  BY <1>7, <1>8, <1>9, <1>10, <1>11 DEF FilesTyped, R
<1> QED
  BY <1>2, <1>5, <1>12 DEF id

LEMMA FilesTypedStep == Typed /\ StorageCall => FilesTyped'
<1> SUFFICES ASSUME Typed, StorageCall PROVE FilesTyped'
  OBVIOUS
<1> USE DEF Typed
<1>1. ASSUME UNCHANGED <<files, filenames, fileCounter>> PROVE FilesTyped'
  BY <1>1 DEF FilesTyped
<1>2. ASSUME NEW F, DeleteFiles(F), UNCHANGED counters PROVE FilesTyped'
  BY <1>2, FilesGo DEF counters
<1>3. CASE ProducerCalls
  BY <1>1, <1>2, <1>3, ProducerCallsKeep
  DEF ProducerCalls, addProducerInfo, setProducerInfo, deleteProducerInfoById,
      deleteProducerInfoByName, deleteProducer, DeleteAllOfProducer
<1>4. CASE GenerationCalls
  <2>1. ASSUME NEW g, NEW p, NEW name, NEW status,
               \/ addGenerationInfo(p, name, status) \/ setGenerationInfo(g, p, name, status)
               \/ setGenerationStatus(g, status)
        PROVE  UNCHANGED <<files, filenames>>
    BY <2>1 DEF addGenerationInfo, setGenerationInfo, setGenerationStatus
  <2>2. ASSUME NEW G, deleteGenerationList(G) PROVE FilesTyped'
    BY <1>2, <2>2 DEF deleteGenerationList
  <2>3. ASSUME NEW p, deleteGenerationsOfProducer(p) PROVE FilesTyped'
    BY <1>2, <2>3 DEF deleteGenerationsOfProducer, DeleteAllOfProducer
  <2> QED
    BY <1>1, <1>4, <2>1, <2>2, <2>3, GenerationCallsKeep
    DEF GenerationCalls, setGenerationInfoStatusById, setGenerationInfoStatusByName,
        deleteGenerationInfoById, deleteGenerationInfoByName, deleteGenerationInfoListByIdList,
        deleteGenerationInfoListByProducerId, deleteGenerationInfoListByProducerName
<1>5. CASE FileCalls
  <2>1. ASSUME NEW name \in FileNames, NEW g \in DOMAIN generations, addFileInfo(name, g)
        PROVE  FilesTyped'
    BY <1>1, <2>1, FileComes DEF addFileInfo
  <2>2. ASSUME NEW name \in FileNames, NEW g \in DOMAIN generations, NEW f \in DOMAIN files,
               setFileInfo(f, name, g)
        PROVE  FilesTyped'
    <3> DEFINE new == [producer |-> generations[g].producer, generation |-> g, name |-> name]
               R == [producer : Nat, generation : Nat, name : FileNames]
    <3>1. new \in R
      BY DEF GenerationsTyped
    <3>2. files' = Put(files, f, new)
      BY <2>2 DEF setFileInfo
    <3>3. \A x \in DOMAIN files : files[x] \in R
      BY DEF FilesTyped
    <3> HIDE DEF new, R
    <3>4. IsTable(files') /\ DOMAIN files' = DOMAIN files /\ \A x \in DOMAIN files' : files'[x] \in R
      BY <3>1, <3>2, <3>3 DEF Put, IsTable
    <3>5. IsTable(filenames') /\ DOMAIN filenames' \subseteq DOMAIN filenames \cup {name}
      BY <2>2 DEF setFileInfo, Put, Without, IsTable, FilesTyped
    <3>6. UNCHANGED fileCounter
      BY <2>2 DEF setFileInfo, counters
    <3> QED
      BY <3>4, <3>5, <3>6 DEF FilesTyped, R
  <2>3. ASSUME NEW name \in FileNames, NEW g \in DOMAIN generations, NEW list,
               addFileInfoWithContentList(name, g, list)
        PROVE  FilesTyped'
    BY <1>1, <2>3, FileComes DEF addFileInfoWithContentList
  <2>4. ASSUME NEW name \in FileNames, NEW g \in DOMAIN generations, NEW list, NEW replace,
               addFileInfoListWithContent(name, g, list, replace)
        PROVE  FilesTyped'
    BY <1>1, <2>4, FileComes DEF addFileInfoListWithContent
  <2>5. ASSUME NEW f, deleteFileInfoById(f) PROVE FilesTyped'
    BY <1>2, <2>5 DEF deleteFileInfoById
  <2>6. ASSUME NEW name, deleteFileInfoByName(name) PROVE FilesTyped'
    BY <2>6 DEF deleteFileInfoByName, deleteFilenames, Without, IsTable, FilesTyped, counters
  <2>7. ASSUME NEW F, deleteFileInfoListByFileIdList(F) PROVE FilesTyped'
    BY <1>2, <2>7 DEF deleteFileInfoListByFileIdList
  <2>8. ASSUME NEW p, NEW g, deleteFilesOfProducer(p) \/ deleteFilesOfGeneration(g)
        PROVE  FilesTyped'
    BY <1>2, <2>8 DEF deleteFilesOfProducer, deleteFilesOfGeneration
  <2>9. ASSUME NEW g, NEW d, \/ deleteFileInfoListByGenerationIdAndForecastTime(g, d)
                             \/ deleteFileInfoListByForecastTimeList(g, d)
        PROVE  FilesTyped'
    BY <1>2, <2>9 DEF deleteFileInfoListByGenerationIdAndForecastTime,
                      deleteFileInfoListByForecastTimeList
  <2> QED
    BY <1>5, <2>1, <2>2, <2>3, <2>4, <2>5, <2>6, <2>7, <2>8, <2>9
    DEF FileCalls, deleteFileInfoListByProducerId, deleteFileInfoListByProducerName,
        deleteFileInfoListByGenerationId, deleteFileInfoListByGenerationName
<1> QED
  BY <1>1, <1>3, <1>4, <1>5, GeometryCallsKeep, ContentCallsKeep
  DEF StorageCall, counters

\* Finitely many records come, or some go.
LEMMA ContentComes ==
  ASSUME ContentTyped, NEW S, IsFiniteSet(S),
         S \subseteq [file : 1..(FileIdModulus - 1), message : Messages, producer : Nat,
                      generation : Nat, data : Data],
         content' \subseteq content \cup S
  PROVE  ContentTyped'
<1>1. IsFiniteSet(content \cup S)
  BY FS_Union DEF ContentTyped
<1>2. IsFiniteSet(content')
  BY <1>1, FS_Subset
<1> QED
  BY <1>2 DEF ContentTyped

\* A content list of a file is finite, and its records are well-formed.
LEMMA ContentsOfIs ==
  ASSUME GenerationsTyped, NEW f \in 1..(FileIdModulus - 1), NEW g \in DOMAIN generations,
         NEW list \in ContentLists
  PROVE  /\ IsFiniteSet(ContentsOf(f, g, list))
         /\ ContentsOf(f, g, list) \subseteq
              [file : 1..(FileIdModulus - 1), message : Messages, producer : Nat,
               generation : Nat, data : Data]
<1>1. PICK M \in SUBSET Messages : list \in [M -> Data]
  BY DEF ContentLists
<1>2. IsFiniteSet(DOMAIN list)
  BY <1>1, FS_Subset, StorageAssumption
<1> DEFINE R == [m \in DOMAIN list |-> ContentOf(f, m, g, list[m])]
<1>3. ContentsOf(f, g, list) = {R[m] : m \in DOMAIN list}
  BY DEF ContentsOf
<1>4. DOMAIN R = DOMAIN list
  OBVIOUS
<1> HIDE DEF R
<1>5. IsFiniteSet({R[m] : m \in DOMAIN list})
  BY <1>2, <1>4, ImageFinite
<1>6. generations[g].producer \in Nat /\ g \in Nat
  BY DEF GenerationsTyped
<1> QED
  BY <1>1, <1>3, <1>5, <1>6 DEF ContentsOf, ContentOf

LEMMA ContentTypedStep == Typed /\ StorageCall => ContentTyped'
<1> SUFFICES ASSUME Typed, StorageCall PROVE ContentTyped'
  OBVIOUS
<1> USE DEF Typed
<1> DEFINE R == [file : 1..(FileIdModulus - 1), message : Messages, producer : Nat,
                 generation : Nat, data : Data]
<1>0. ASSUME content' \subseteq content PROVE ContentTyped'
  BY <1>0, FS_Subset DEF ContentTyped
<1>1. ASSUME NEW list, DeleteContent(list) PROVE content' \subseteq content
  BY <1>1 DEF DeleteContent
<1>2. ASSUME NEW f \in 1..(FileIdModulus - 1), NEW g \in DOMAIN generations,
             NEW list \in ContentLists, content' \subseteq content \cup ContentsOf(f, g, list)
      PROVE  ContentTyped'
  <2> DEFINE S == ContentsOf(f, g, list)
  <2>1. IsFiniteSet(S) /\ S \subseteq R /\ content' \subseteq content \cup S
    BY <1>2, ContentsOfIs
  <2> HIDE DEF S
  <2> QED
    BY <2>1, ContentComes
<1>3. \A f \in DOMAIN files : f \in 1..(FileIdModulus - 1)
  BY DEF FilesTyped
<1>4. CASE ProducerCalls
  BY <1>0, <1>1, <1>4
  DEF ProducerCalls, addProducerInfo, setProducerInfo, deleteProducerInfoById,
      deleteProducerInfoByName, deleteProducer, DeleteAllOfProducer
<1>5. CASE GenerationCalls
  <2>1. ASSUME NEW g, NEW p, NEW name, NEW status,
               \/ addGenerationInfo(p, name, status) \/ setGenerationInfo(g, p, name, status)
               \/ setGenerationStatus(g, status)
        PROVE  UNCHANGED content
    BY <2>1 DEF addGenerationInfo, setGenerationInfo, setGenerationStatus
  <2>2. ASSUME NEW G, deleteGenerationList(G) PROVE ContentTyped'
    BY <1>0, <1>1, <2>2 DEF deleteGenerationList
  <2>3. ASSUME NEW p, deleteGenerationsOfProducer(p) PROVE ContentTyped'
    BY <1>0, <1>1, <2>3 DEF deleteGenerationsOfProducer, DeleteAllOfProducer
  <2> QED
    BY <1>0, <1>5, <2>1, <2>2, <2>3
    DEF GenerationCalls, setGenerationInfoStatusById, setGenerationInfoStatusByName,
        deleteGenerationInfoById, deleteGenerationInfoByName, deleteGenerationInfoListByIdList,
        deleteGenerationInfoListByProducerId, deleteGenerationInfoListByProducerName
<1>6. CASE GeometryCalls
  BY <1>0, <1>1, <1>6
  DEF GeometryCalls, addGeometryInfo, setGeometryInfo, setGeometryInfoStatusById,
      deleteGeometryInfoById, deleteGeometryInfoListByGenerationId,
      deleteGeometryInfoListByProducerId
<1>7. CASE FileCalls
  <2>0. ASSUME NEW name, FileIdOf(name) # 0 PROVE FileIdOf(name) \in 1..(FileIdModulus - 1)
    BY <1>3, <2>0 DEF FileIdOf
  <2>1. ASSUME NEW name, NEW g, NEW f, addFileInfo(name, g) \/ setFileInfo(f, name, g)
        PROVE  ContentTyped'
    BY <1>0, <2>1 DEF addFileInfo, setFileInfo
  <2>2. ASSUME NEW name \in FileNames, NEW g \in DOMAIN generations, NEW list \in ContentLists,
               addFileInfoWithContentList(name, g, list)
        PROVE  ContentTyped'
    <3>1. \E f \in 1..(FileIdModulus - 1) : content' \subseteq content \cup ContentsOf(f, g, list)
      BY <2>0, <2>2, FileComes DEF addFileInfoWithContentList
    <3> QED
      BY <1>2, <3>1
  <2>3. ASSUME NEW name \in FileNames, NEW g \in DOMAIN generations, NEW list \in ContentLists,
               NEW replace, addFileInfoListWithContent(name, g, list, replace)
        PROVE  ContentTyped'
    <3>1. \E f \in 1..(FileIdModulus - 1) : content' \subseteq content \cup ContentsOf(f, g, list)
      BY <2>0, <2>3, FileComes DEF addFileInfoListWithContent, Missing
    <3> QED
      BY <1>2, <3>1
  <2>4. ASSUME NEW f, NEW name, deleteFileInfoById(f) \/ deleteFileInfoByName(name)
        PROVE  ContentTyped'
    BY <1>0, <1>1, <2>4 DEF deleteFileInfoById, deleteFileInfoByName
  <2>5. ASSUME NEW F, NEW p, NEW g,
               \/ deleteFileInfoListByFileIdList(F)
               \/ deleteFilesOfProducer(p) \/ deleteFilesOfGeneration(g)
        PROVE  ContentTyped'
    BY <1>0, <1>1, <2>5
    DEF deleteFileInfoListByFileIdList, deleteFilesOfProducer, deleteFilesOfGeneration
  <2>6. ASSUME NEW g, NEW d, \/ deleteFileInfoListByGenerationIdAndForecastTime(g, d)
                             \/ deleteFileInfoListByForecastTimeList(g, d)
        PROVE  ContentTyped'
    BY <1>0, <1>1, <2>6
    DEF deleteFileInfoListByGenerationIdAndForecastTime, deleteFileInfoListByForecastTimeList
  <2> QED
    BY <1>7, <2>1, <2>2, <2>3, <2>4, <2>5, <2>6
    DEF FileCalls, deleteFileInfoListByProducerId, deleteFileInfoListByProducerName,
        deleteFileInfoListByGenerationId, deleteFileInfoListByGenerationName
<1>8. CASE ContentCalls
  <2>1. ASSUME NEW f \in DOMAIN files, NEW m \in Messages, NEW d \in Data,
               addContentInfo(f, m, d) \/ setContentInfo(f, m, d)
        PROVE  ContentTyped'
    <3> DEFINE r == ContentOf(f, m, files[f].generation, d)
               S == {r}
    <3>1. content' \subseteq content \cup S
      BY <2>1 DEF addContentInfo, setContentInfo
    <3>2. r \in R
      <4>1. files[f].generation \in DOMAIN generations
        BY <2>1 DEF addContentInfo, setContentInfo, Referable
      <4> QED
        BY <1>3, <4>1 DEF ContentOf, GenerationsTyped
    <3> HIDE DEF r, R
    <3>3. IsFiniteSet(S) /\ S \subseteq R
      BY <3>2, FS_Singleton
    <3> HIDE DEF S
    <3> USE DEF R
    <3> QED
      BY <3>1, <3>3, ContentComes
  <2>2. ASSUME NEW f \in DOMAIN files, NEW list \in ContentLists, addContentList(f, list)
        PROVE  ContentTyped'
    <3>1. files[f].generation \in DOMAIN generations
      BY <2>2 DEF addContentList, Referable
    <3>2. content' \subseteq content \cup ContentsOf(f, files[f].generation, list)
      BY <2>2 DEF addContentList, Missing
    <3> QED
      BY <1>2, <1>3, <3>1, <3>2
  <2>3. ASSUME NEW f, NEW m, deleteContentInfo(f, m) PROVE ContentTyped'
    BY <1>0, <2>3 DEF deleteContentInfo
  <2>4. ASSUME NEW f, \/ deleteContentOfFile(f) \/ deleteContentOfProducer(f)
                      \/ deleteContentOfGeneration(f)
        PROVE  ContentTyped'
    BY <1>0, <1>1, <2>4
    DEF deleteContentOfFile, deleteContentOfProducer, deleteContentOfGeneration
  <2> QED
    BY <1>8, <2>1, <2>2, <2>3, <2>4
    DEF ContentCalls, deleteContentListByFileId, deleteContentListByFileName,
        deleteContentListByProducerId, deleteContentListByProducerName,
        deleteContentListByGenerationId, deleteContentListByGenerationName
<1> QED
  BY <1>4, <1>5, <1>6, <1>7, <1>8 DEF StorageCall

\* Every step keeps the types of the records.
LEMMA TypedStep == Typed /\ [StorageNext]_storageVars => Typed'
<1> SUFFICES ASSUME Typed, [StorageNext]_storageVars PROVE Typed'
  OBVIOUS
<1>1. CASE StorageCall
  BY <1>1, ProducersTypedStep, GenerationsTypedStep, GeometriesTypedStep, FilesTypedStep,
     ContentTypedStep DEF Typed
<1>2. ASSUME UNCHANGED <<records, counters>> PROVE Typed'
  BY <1>2 DEF records, parents, counters, Typed, ProducersTyped, GenerationsTyped,
              GeometriesTyped, FilesTyped, ContentTyped
<1>3. ASSUME NEW own, ClearDelete(own) PROVE Typed'
  BY <1>3, NothingIs, FS_EmptySet
  DEF ClearDelete, Typed, ProducersTyped, GenerationsTyped, GeometriesTyped, FilesTyped,
      ContentTyped
<1> QED
  BY <1>1, <1>2, <1>3 DEF StorageNext, ClearAnnounce, Restart, storageVars

\* The empty database and the loaded one are well-formed.
LEMMA TypedInit == StorageInit => Typed
<1> SUFFICES ASSUME StorageInit PROVE Typed
  OBVIOUS
<1> USE StorageAssumption
<1>1. ProducersTyped
  BY DEF StorageInit, Put, Nothing, ProducersTyped
<1>2. CASE NoFiles
  BY <1>1, <1>2, NothingIs, FS_EmptySet
  DEF NoFiles, Typed, GenerationsTyped, GeometriesTyped, FilesTyped, ContentTyped
<1>3. CASE OneFile
  <2>1. PICK g \in GenerationNames, s \in Statuses, gs \in GeometryStatuses, n \in FileNames,
             list \in ContentLists :
          /\ generations = Put(Nothing, 1, [producer |-> 1, name |-> g, status |-> s])
          /\ geometries = {[producer |-> 1, generation |-> 1, geometry |-> k, status |-> gs]
                             : k \in Geometries}
          /\ files = Put(Nothing, 1, [producer |-> 1, generation |-> 1, name |-> n])
          /\ filenames = Put(Nothing, n, 1)
          /\ content = {[file |-> 1, message |-> m, producer |-> 1, generation |-> 1,
                         data |-> list[m]] : m \in DOMAIN list}
          /\ generationCounter = 1 /\ fileCounter = 1 + GoneFiles
    BY <1>3 DEF OneFile
  <2>2. GenerationsTyped
    BY <2>1 DEF GenerationsTyped, Put, Nothing, IsTable
  <2>3. GeometriesTyped
    <3> DEFINE G == [k \in Geometries |-> [producer |-> 1, generation |-> 1, geometry |-> k,
                                           status |-> gs]]
    <3>1. DOMAIN G = Geometries /\ geometries = {G[k] : k \in Geometries}
      BY <2>1
    <3> HIDE DEF G
    <3>2. IsFiniteSet(geometries)
      BY <3>1, ImageFinite
    <3> QED
      BY <2>1, <3>2 DEF GeometriesTyped
  <2>4. FilesTyped
    BY <2>1 DEF FilesTyped, Put, Nothing, IsTable
  <2>5. ContentTyped
    <3>1. generations[1].producer = 1 /\ 1 \in DOMAIN generations
      BY <2>1 DEF Put
    <3>2. content = ContentsOf(1, 1, list)
      BY <2>1, <3>1 DEF ContentsOf, ContentOf
    <3>3. 1 \in 1..(FileIdModulus - 1)
      OBVIOUS
    <3> QED
      BY <2>2, <3>1, <3>2, <3>3, ContentsOfIs DEF ContentTyped
  <2> QED
    BY <1>1, <2>2, <2>3, <2>4, <2>5 DEF Typed
<1> QED
  BY <1>2, <1>3 DEF StorageInit

-----------------------------------------------------------------------------
(* The log.                                                                 *)

\* The log of an empty database, and the log of a loaded one.
LEMMA LogInit == StorageInit => LogOK(eventLog)
<1> SUFFICES ASSUME StorageInit PROVE LogOK(eventLog)
  OBVIOUS
<1> DEFINE empty == [counter |-> 0, events |-> Nothing]
<1> USE StorageAssumption
<1>1. LogOK(empty)
  <2>1. empty.counter = 0 /\ empty.events = Nothing
    OBVIOUS
  <2>2. DOMAIN empty.events = (0 + 1)..0 /\ 0 \in 0..empty.counter
    BY <2>1, NothingIs
  <2>3. empty.counter - 0 <= MaxEvents + (empty.counter % TruncateStep)
    BY <2>1
  <2> QED
    BY <2>1, <2>2, <2>3, NothingIs DEF LogOK
<1> HIDE DEF empty
<1>2. CASE NoFiles
  <2>1. eventLog = addEvent(empty, Event("PRODUCER_ADDED", 1, 0, 0))
    BY <1>2 DEF NoFiles, empty
  <2> QED
    BY <1>1, <2>1, AddEventIs
<1>3. CASE OneFile
  <2> DEFINE S == {GeometryEvent("GEOMETRY_ADDED", 1, k) : k \in Geometries}
             first(l) == <<Event("PRODUCER_ADDED", 1, 0, 0), Event("GENERATION_ADDED", 1, 0, 0),
                           Event("FILE_ADDED", 1, 0, Cardinality(DOMAIN l))>>
             gone == [k \in 1..(2 * GoneFiles) |->
                       Event(IF k % 2 = 1 THEN "FILE_ADDED" ELSE "FILE_DELETED",
                             1 + (k + 1) \div 2, 0, 0)]
  <2>1. PICK list : eventLog = FoldLeft(addEvent, empty, first(list) \o SetToSeq(S) \o gone)
    BY <1>3 DEF OneFile, empty
  <2>2. IsFiniteSet(S)
    <3> DEFINE f == [k \in Geometries |-> GeometryEvent("GEOMETRY_ADDED", 1, k)]
    <3>1. DOMAIN f = Geometries /\ S = {f[k] : k \in Geometries}
      OBVIOUS
    <3> HIDE DEF f, S
    <3> QED
      BY <3>1, ImageFinite
  <2>3. SetToSeq(S) \in Seq(S)
    BY <2>2, SetToSeqIs
  <2> DEFINE T == {first(list)[i] : i \in 1..3} \cup S \cup {gone[k] : k \in 1..(2 * GoneFiles)}
             a == first(list)
             b == SetToSeq(S)
             seq == a \o b \o gone
  <2>4. a \in Seq(T)
    OBVIOUS
  <2>5. b \in Seq(T)
    BY <2>3
  <2>6. gone \in Seq(T)
    <3> DEFINE n == 2 * GoneFiles
    <3>1. n \in Nat /\ gone = [k \in 1..n |-> gone[k]] /\ \A k \in 1..n : gone[k] \in T
      OBVIOUS
    <3> HIDE DEF n, gone, T
    <3>2. gone \in [1..n -> T]
      BY <3>1
    <3> QED
      BY <3>1, <3>2
  <2> HIDE DEF T, a, b, gone
  <2>7. seq \in Seq(T) /\ Len(seq) \in Nat /\ DOMAIN seq = 1..Len(seq)
    BY <2>4, <2>5, <2>6
  <2>8. eventLog = FoldLeft(addEvent, empty, seq)
    BY <2>1 DEF a, b
  <2> HIDE DEF seq
  <2> QED
    BY <1>1, <2>7, <2>8, AnnounceIs
<1> QED
  BY <1>2, <1>3 DEF StorageInit

\* A call announces some events, and a new file under an id that no file has.
Announces(N, seq) ==
  /\ N \in Nat /\ DOMAIN seq = 1..N
  /\ Announce(seq)
  /\ \A i \in 1..N :
       seq[i].type = "FILE_ADDED" => seq[i].id1 # 0 /\ seq[i].id1 \notin DOMAIN files

\* A call announces what it does: it changes no record if it announces nothing.
Heard == \E N, seq : Announces(N, seq) /\ (N = 0 => UNCHANGED records)

LEMMA EventIs ==
  /\ \A type, a, b, c : Event(type, a, b, c).type = type /\ Event(type, a, b, c).id1 = a
  /\ \A g, k, status :
       LET e == [GeometryEvent("GEOMETRY_STATUS_CHANGED", g, k) EXCEPT !.flags = status]
       IN e.type = "GEOMETRY_STATUS_CHANGED"
BY DEF Event, GeometryEvent

LEMMA OneEvent ==
  ASSUME NEW e, Announce(<<e>>),
         e.type = "FILE_ADDED" => e.id1 # 0 /\ e.id1 \notin DOMAIN files
  PROVE  Heard
<1>1. DOMAIN <<e>> = 1..1 /\ <<e>>[1] = e
  OBVIOUS
<1>2. Announces(1, <<e>>)
  BY <1>1 DEF Announces
<1> QED
  BY <1>2 DEF Heard

LEMMA SomeEvents ==
  ASSUME NEW S, IsFiniteSet(S), Announce(SetToSeq(S)), \A e \in S : e.type # "FILE_ADDED"
  PROVE  \E N, seq : Announces(N, seq) /\ (N = 0 => S = {})
<1>1. Announces(Cardinality(S), SetToSeq(S))
  BY SetToSeqIs DEF Announces
<1> QED
  BY <1>1, SetToSeqIs

\* The events that tell of some numbers, one each.
LEMMA NumberedEvents ==
  ASSUME NEW F, IsFiniteSet(F), NEW type, type # "FILE_ADDED",
         Announce(SetToSeq({Event(type, f, 0, 0) : f \in F}))
  PROVE  \E N, seq : Announces(N, seq) /\ (N = 0 => F = {})
<1> DEFINE h == [f \in F |-> Event(type, f, 0, 0)]
           S == {h[f] : f \in F}
<1>1. S = {Event(type, f, 0, 0) : f \in F}
  OBVIOUS
<1>2. DOMAIN h = F
  OBVIOUS
<1>3. \A e \in S : e.type # "FILE_ADDED"
  BY EventIs
<1> HIDE DEF h
<1>4. IsFiniteSet(S)
  BY <1>2, ImageFinite
<1>5. S = {} => F = {}
  OBVIOUS
<1> HIDE DEF S
<1>6. Announce(SetToSeq(S))
  BY <1>1
<1> QED
  BY <1>3, <1>4, <1>5, <1>6, SomeEvents

LEMMA ProducerCallsHeard == ProducerCalls => Heard
<1>1. ASSUME NEW name, addProducerInfo(name) PROVE Heard
  BY <1>1, OneEvent, EventIs DEF addProducerInfo
<1>2. ASSUME NEW p, NEW name, setProducerInfo(p, name) PROVE Heard
  BY <1>2, OneEvent, EventIs DEF setProducerInfo
<1>3. ASSUME NEW p, deleteProducer(p) PROVE Heard
  BY <1>3, OneEvent, EventIs DEF deleteProducer
<1> QED
  BY <1>1, <1>2, <1>3 DEF ProducerCalls, deleteProducerInfoById, deleteProducerInfoByName

\* The table that nothing is taken from.
LEMMA WithoutNone == ASSUME NEW f, IsTable(f) PROVE Without(f, {}) = f
BY DEF Without, IsTable

LEMMA GenerationCallsHeard == Typed /\ GenerationCalls => Heard
<1> SUFFICES ASSUME Typed, GenerationCalls PROVE Heard
  OBVIOUS
<1>1. ASSUME NEW p, NEW name, NEW status, addGenerationInfo(p, name, status) PROVE Heard
  BY <1>1, OneEvent, EventIs DEF addGenerationInfo
<1>2. ASSUME NEW g, NEW p, NEW name, NEW status, setGenerationInfo(g, p, name, status)
      PROVE  Heard
  BY <1>2, OneEvent, EventIs DEF setGenerationInfo
<1>3. ASSUME NEW g, NEW status, setGenerationStatus(g, status) PROVE Heard
  BY <1>3, OneEvent, EventIs DEF setGenerationStatus
<1>4. ASSUME NEW p, deleteGenerationsOfProducer(p) PROVE Heard
  BY <1>4, OneEvent, EventIs DEF deleteGenerationsOfProducer
<1>5. ASSUME NEW G \in SUBSET (1..generationCounter), deleteGenerationList(G) PROVE Heard
  <2>1. IsFiniteSet(G)
    <3>1. IsFiniteSet(1..generationCounter)
      BY FS_Interval DEF Typed, GenerationsTyped
    <3> QED
      BY <3>1, FS_Subset
  <2>2. PICK N, seq : Announces(N, seq) /\ (N = 0 => G = {})
    BY <1>5, <2>1, NumberedEvents DEF deleteGenerationList
  <2>3. G = {} => UNCHANGED records
    <3> SUFFICES ASSUME G = {} PROVE UNCHANGED records
      OBVIOUS
    <3>1. /\ UNION {ByGeneration(g) : g \in G} = {} /\ UNION {FilesOfGeneration(g) : g \in G} = {}
          /\ UNION {GeometriesOf("generation", g) : g \in G} = {}
      OBVIOUS
    <3>2. content' = content /\ geometries' = geometries
      BY <1>5, <3>1 DEF deleteGenerationList, DeleteContent
    <3>3. files' = files /\ filenames' = filenames /\ generations' = generations
      <4>1. NamesOf({}) = {}
        BY DEF NamesOf
      <4> QED
        BY <1>5, <3>1, <4>1, WithoutNone
        DEF deleteGenerationList, DeleteFiles, deleteFilenames, Typed, FilesTyped, GenerationsTyped
    <3> QED
      BY <1>5, <3>2, <3>3 DEF deleteGenerationList, records, parents
  <2> QED
    BY <2>2, <2>3 DEF Heard
<1>6. \A g \in DOMAIN generations : {g} \in SUBSET (1..generationCounter)
  BY DEF Typed, GenerationsTyped
<1> QED
  BY <1>1, <1>2, <1>3, <1>4, <1>5, <1>6
  DEF GenerationCalls, setGenerationInfoStatusById, setGenerationInfoStatusByName,
      GenerationsNamed,
      deleteGenerationInfoById, deleteGenerationInfoByName, deleteGenerationInfoListByIdList,
      deleteGenerationInfoListByProducerId, deleteGenerationInfoListByProducerName

LEMMA GeometryCallsHeard == GeometryCalls => Heard
<1>1. ASSUME NEW g, NEW k, NEW status,
             \/ addGeometryInfo(g, k, status) \/ setGeometryInfo(g, k, status)
             \/ deleteGeometryInfoById(g, k)
      PROVE  Heard
  BY <1>1, OneEvent, EventIs
  DEF addGeometryInfo, setGeometryInfo, deleteGeometryInfoById, GeometryEvent
<1>2. ASSUME NEW g, NEW k, NEW status, setGeometryInfoStatusById(g, k, status) PROVE Heard
  BY <1>2, OneEvent, EventIs DEF setGeometryInfoStatusById
<1>3. ASSUME NEW g, deleteGeometryInfoListByGenerationId(g) PROVE Heard
  BY <1>3, OneEvent, EventIs DEF deleteGeometryInfoListByGenerationId
<1>4. ASSUME NEW p, deleteGeometryInfoListByProducerId(p) PROVE Heard
  BY <1>4, OneEvent, EventIs DEF deleteGeometryInfoListByProducerId
<1> QED
  BY <1>1, <1>2, <1>3, <1>4 DEF GeometryCalls

\* The calls whose events do not tell of all that they do: a deletion by forecast
\* time tells of the files only.
PartlyHeard ==
  /\ \E N, seq : Announces(N, seq)
  /\ \/ "deleteFileInfoListByGenerationIdAndForecastTime" \in Operations
     \/ "deleteFileInfoListByForecastTimeList" \in Operations

\* The deletion of a name that leads to no file changes the hash only.
NameForgotten ==
  /\ \E name \in DOMAIN filenames : filenames[name] \notin DOMAIN files
  /\ UNCHANGED eventLog

LEMMA FilesFinite == ASSUME FilesTyped, NEW F, F \subseteq DOMAIN files PROVE IsFiniteSet(F)
<1>1. IsFiniteSet(1..(FileIdModulus - 1))
  BY FS_Interval, StorageAssumption
<1> QED
  BY <1>1, FS_Subset DEF FilesTyped

LEMMA FileCallsHeard == Typed /\ FileCalls => Heard \/ PartlyHeard \/ NameForgotten
<1> SUFFICES ASSUME Typed, FileCalls PROVE Heard \/ PartlyHeard \/ NameForgotten
  OBVIOUS
<1>0. GenerationsTyped /\ FilesTyped /\ IsTable(files) /\ IsTable(filenames)
  BY DEF Typed, FilesTyped
<1>1. ASSUME NEW name \in FileNames, NEW g \in DOMAIN generations,
             NEW n \in (fileCounter + 1)..(fileCounter + FileIdModulus), NewFile(n, name, g),
             NEW c, Announce(<<Event("FILE_ADDED", n % FileIdModulus, 0, c)>>)
      PROVE  Heard
  <2>1. n % FileIdModulus # 0 /\ n % FileIdModulus \notin DOMAIN files
    BY <1>1 DEF NewFile, allocateFileId
  <2> QED
    BY <1>1, <2>1, OneEvent, EventIs
<1>2. ASSUME NEW name \in FileNames, NEW g \in DOMAIN generations, addFileInfo(name, g)
      PROVE  Heard
  BY <1>1, <1>2, OneEvent, EventIs DEF addFileInfo
<1>3. ASSUME NEW name, NEW g, NEW f, setFileInfo(f, name, g) PROVE Heard
  BY <1>3, OneEvent, EventIs DEF setFileInfo
<1>4. ASSUME NEW name \in FileNames, NEW g \in DOMAIN generations, NEW list,
             addFileInfoWithContentList(name, g, list)
      PROVE  Heard
  BY <1>1, <1>4, OneEvent, EventIs DEF addFileInfoWithContentList
<1>5. ASSUME NEW name \in FileNames, NEW g \in DOMAIN generations, NEW list \in ContentLists,
             NEW replace \in BOOLEAN, addFileInfoListWithContent(name, g, list, replace)
      PROVE  Heard
  <2> DEFINE f == FileIdOf(name)
             old == IF replace THEN content \ ByFile(f) ELSE content
             new == Missing(old, ContentsOf(f, g, list))
  <2>1. CASE f = 0
    BY <1>1, <1>5, <2>1 DEF addFileInfoListWithContent
  <2>2. CASE f # 0 /\ replace
    BY <1>5, <2>2, OneEvent, EventIs DEF addFileInfoListWithContent
  <2>3. CASE f # 0 /\ ~replace
    <3> DEFINE e == [r \in new |-> Event("CONTENT_ADDED", f, r.message, 0)]
               S == {e[r] : r \in new}
    <3>1. /\ content' = content \cup new
          /\ Announce(SetToSeq(S))
          /\ UNCHANGED <<parents, files, filenames>>
      <4>1. S = {Event("CONTENT_ADDED", f, r.message, 0) : r \in new}
        OBVIOUS
      <4> QED
        BY <1>5, <2>3, <4>1 DEF addFileInfoListWithContent
    <3>2. f \in 1..(FileIdModulus - 1)
      BY <1>0, <2>3 DEF FileIdOf, FilesTyped
    <3>3. new \subseteq ContentsOf(f, g, list)
      BY DEF Missing
    <3>4. IsFiniteSet(new)
      BY <1>0, <3>2, <3>3, ContentsOfIs, FS_Subset
    <3>5. \A x \in S : x.type # "FILE_ADDED"
      BY EventIs
    <3>6. DOMAIN e = new /\ (S = {} => new = {})
      OBVIOUS
    <3> HIDE DEF e, new
    <3>7. IsFiniteSet(S)
      BY <3>4, <3>6, ImageFinite
    <3> HIDE DEF S
    <3>8. PICK N, seq : Announces(N, seq) /\ (N = 0 => S = {})
      BY <3>1, <3>5, <3>7, SomeEvents
    <3>9. S = {} => UNCHANGED records
      BY <3>1, <3>6 DEF records
    <3> QED
      BY <3>8, <3>9 DEF Heard
  <2> QED
    BY <2>1, <2>2, <2>3
<1>6. ASSUME NEW f, deleteFileInfoById(f) PROVE Heard
  BY <1>6, OneEvent, EventIs DEF deleteFileInfoById
<1>7. ASSUME NEW name, deleteFileInfoByName(name) PROVE Heard \/ NameForgotten
  BY <1>7, OneEvent, EventIs DEF deleteFileInfoByName, NameForgotten
<1>8. ASSUME NEW F \in SUBSET DOMAIN files, deleteFileInfoListByFileIdList(F) PROVE Heard
  <2>1. IsFiniteSet(F)
    BY <1>0, FilesFinite
  <2>2. PICK N, seq : Announces(N, seq) /\ (N = 0 => F = {})
    BY <1>8, <2>1, NumberedEvents DEF deleteFileInfoListByFileIdList
  <2>3. F = {} => UNCHANGED records
    <3> SUFFICES ASSUME F = {} PROVE UNCHANGED records
      OBVIOUS
    <3>1. UNION {ByFile(f) : f \in F} = {} /\ NamesOf({}) = {}
      BY DEF NamesOf
    <3>2. content' = content
      BY <1>8, <3>1 DEF deleteFileInfoListByFileIdList, DeleteContent
    <3>3. files' = files /\ filenames' = filenames
      BY <1>0, <1>8, <3>1, WithoutNone
      DEF deleteFileInfoListByFileIdList, DeleteFiles, deleteFilenames
    <3> QED
      BY <1>8, <3>2, <3>3 DEF deleteFileInfoListByFileIdList, records
  <2> QED
    BY <2>2, <2>3 DEF Heard
<1>9. ASSUME NEW p, deleteFilesOfProducer(p) PROVE Heard
  BY <1>9, OneEvent, EventIs DEF deleteFilesOfProducer
<1>10. ASSUME NEW g, deleteFilesOfGeneration(g) PROVE Heard
  BY <1>10, OneEvent, EventIs DEF deleteFilesOfGeneration
<1>11. ASSUME NEW g, NEW d, deleteFileInfoListByGenerationIdAndForecastTime(g, d)
       PROVE  PartlyHeard
  <2> DEFINE deleted == AtForecastTime(g, d)
             F == {f \in FilesOf(deleted) \cap DOMAIN files : ByFile(f) \subseteq deleted}
  <2>1. F \subseteq DOMAIN files /\ Announce(SetToSeq({Event("FILE_DELETED", f, 0, 0) : f \in F}))
    BY <1>11 DEF deleteFileInfoListByGenerationIdAndForecastTime
  <2> HIDE DEF F
  <2>2. \E N, seq : Announces(N, seq)
    BY <1>0, <2>1, FilesFinite, NumberedEvents
  <2> QED
    BY <1>11, <2>2 DEF deleteFileInfoListByGenerationIdAndForecastTime, PartlyHeard, Call
<1>12. ASSUME NEW g, NEW d, deleteFileInfoListByForecastTimeList(g, d) PROVE PartlyHeard
  <2> DEFINE F == FilesOf(AtForecastTime(g, d)) \cap DOMAIN files
  <2>1. F \subseteq DOMAIN files /\ Announce(SetToSeq({Event("FILE_DELETED", f, 0, 0) : f \in F}))
    BY <1>12 DEF deleteFileInfoListByForecastTimeList
  <2> HIDE DEF F
  <2>2. \E N, seq : Announces(N, seq)
    BY <1>0, <2>1, FilesFinite, NumberedEvents
  <2> QED
    BY <1>12, <2>2 DEF deleteFileInfoListByForecastTimeList, PartlyHeard, Call
<1> QED
  BY <1>2, <1>3, <1>4, <1>5, <1>6, <1>7, <1>8, <1>9, <1>10, <1>11, <1>12
  DEF FileCalls, deleteFileInfoListByProducerId, deleteFileInfoListByProducerName,
      deleteFileInfoListByGenerationId, deleteFileInfoListByGenerationName

LEMMA ContentCallsHeard == Typed /\ ContentCalls => Heard
<1> SUFFICES ASSUME Typed, ContentCalls PROVE Heard
  OBVIOUS
<1>1. ASSUME NEW f, NEW m, NEW d, addContentInfo(f, m, d) PROVE Heard
  BY <1>1, OneEvent, EventIs DEF addContentInfo
<1>2. ASSUME NEW f, NEW m, NEW d, setContentInfo(f, m, d) PROVE Heard
  BY <1>2, OneEvent, EventIs DEF setContentInfo
<1>3. ASSUME NEW f, NEW m, deleteContentInfo(f, m) PROVE Heard
  BY <1>3, OneEvent, EventIs DEF deleteContentInfo
<1>4. ASSUME NEW f \in DOMAIN files, NEW list \in ContentLists, addContentList(f, list)
      PROVE  Heard
  <2> DEFINE g == files[f].generation
             new == Missing(content, ContentsOf(f, g, list))
             e == [r \in new |-> Event("CONTENT_ADDED", f, r.message, 0)]
             S == {e[r] : r \in new}
  <2>1. /\ content' = content \cup new
        /\ Announce(SetToSeq(S))
        /\ UNCHANGED <<parents, files, filenames>>
    <3>1. S = {Event("CONTENT_ADDED", f, r.message, 0) : r \in new}
      OBVIOUS
    <3> QED
      BY <1>4, <3>1 DEF addContentList
  <2>2. f \in 1..(FileIdModulus - 1) /\ g \in DOMAIN generations
    BY <1>4 DEF Typed, FilesTyped, addContentList, Referable
  <2>3. new \subseteq ContentsOf(f, g, list)
    BY DEF Missing
  <2>4. IsFiniteSet(new)
    <3> HIDE DEF g, new
    <3> QED
      BY <2>2, <2>3, ContentsOfIs, FS_Subset DEF Typed
  <2>5. \A x \in S : x.type # "FILE_ADDED"
    BY EventIs
  <2>6. DOMAIN e = new /\ (S = {} => new = {})
    OBVIOUS
  <2> HIDE DEF e, new
  <2>7. IsFiniteSet(S)
    BY <2>4, <2>6, ImageFinite
  <2> HIDE DEF S
  <2>8. PICK N, seq : Announces(N, seq) /\ (N = 0 => S = {})
    BY <2>1, <2>5, <2>7, SomeEvents
  <2>9. S = {} => UNCHANGED records
    BY <2>1, <2>6 DEF records
  <2> QED
    BY <2>8, <2>9 DEF Heard
<1>5. ASSUME NEW f, deleteContentOfFile(f) PROVE Heard
  BY <1>5, OneEvent, EventIs DEF deleteContentOfFile
<1>6. ASSUME NEW p, deleteContentOfProducer(p) PROVE Heard
  BY <1>6, OneEvent, EventIs DEF deleteContentOfProducer
<1>7. ASSUME NEW g, deleteContentOfGeneration(g) PROVE Heard
  BY <1>7, OneEvent, EventIs DEF deleteContentOfGeneration
<1> QED
  BY <1>1, <1>2, <1>3, <1>4, <1>5, <1>6, <1>7
  DEF ContentCalls, deleteContentListByFileId, deleteContentListByFileName,
      deleteContentListByProducerId, deleteContentListByProducerName,
      deleteContentListByGenerationId, deleteContentListByGenerationName

-----------------------------------------------------------------------------
(* The theorems.                                                            *)

LogInv == Typed /\ LogOK(eventLog)

\* What an announcement does to the log.
LEMMA AnnouncedIs ==
  ASSUME LogOK(eventLog), NEW N, NEW seq, Announces(N, seq)
  PROVE  /\ LogOK(eventLog)'
         /\ eventLog'.counter = eventLog.counter + N
         /\ \A k \in DOMAIN eventLog'.events \ DOMAIN eventLog.events :
              eventLog'.events[k].type = "FILE_ADDED" =>
                /\ eventLog'.events[k].id1 # 0
                /\ eventLog'.events[k].id1 \notin DOMAIN files
         /\ \A k \in DOMAIN eventLog.events :
              k > eventLog'.counter - (MaxEvents - TruncateStep - 1) => k \in DOMAIN eventLog'.events
<1>1. N \in Nat /\ DOMAIN seq = 1..N /\ eventLog' = FoldLeft(addEvent, eventLog, seq)
  BY DEF Announces, Announce
<1>2. /\ LogOK(eventLog')
      /\ eventLog'.counter = eventLog.counter + N
      /\ \A k \in DOMAIN eventLog'.events :
           \/ k \in DOMAIN eventLog.events /\ eventLog'.events[k] = eventLog.events[k]
           \/ k > eventLog.counter /\ \E i \in 1..N : eventLog'.events[k] = seq[i]
      /\ \A k \in DOMAIN eventLog.events :
           k > eventLog'.counter - (MaxEvents - TruncateStep - 1) => k \in DOMAIN eventLog'.events
  BY <1>1, AnnounceIs
<1>3. LogOK(eventLog)'
  BY <1>2 DEF LogOK
<1> QED
  BY <1>2, <1>3 DEF Announces

\* Every step announces what it does, changes nothing that is announced, or is
\* the deletion of clear(), which empties the log.
LEMMA StepsAnnounce ==
  Typed /\ [StorageNext]_storageVars =>
    \/ Heard \/ PartlyHeard \/ NameForgotten
    \/ UNCHANGED <<records, eventLog>>
    \/ clearing /\ eventLog' = [eventLog EXCEPT !.events = Nothing]
<1> SUFFICES ASSUME Typed, [StorageNext]_storageVars
             PROVE  \/ Heard \/ PartlyHeard \/ NameForgotten
                    \/ UNCHANGED <<records, eventLog>>
                    \/ clearing /\ eventLog' = [eventLog EXCEPT !.events = Nothing]
  OBVIOUS
<1>1. CASE StorageCall
  BY <1>1, ProducerCallsHeard, GenerationCallsHeard, GeometryCallsHeard, FileCallsHeard,
     ContentCallsHeard DEF StorageCall
<1>2. CASE ClearAnnounce
  BY <1>2, OneEvent, EventIs DEF ClearAnnounce
<1>3. ASSUME NEW own, ClearDelete(own)
      PROVE  clearing /\ eventLog' = [eventLog EXCEPT !.events = Nothing]
  BY <1>3 DEF ClearDelete
<1>4. CASE Restart \/ UNCHANGED storageVars
  BY <1>4 DEF Restart, storageVars
<1> QED
  BY <1>1, <1>2, <1>3, <1>4 DEF StorageNext

\* Every step keeps the log well-formed.
LEMMA LogStep == LogInv /\ [StorageNext]_storageVars => LogInv'
<1> SUFFICES ASSUME LogInv, [StorageNext]_storageVars PROVE LogOK(eventLog)'
  BY TypedStep DEF LogInv
<1>1. CASE Heard \/ PartlyHeard
  BY <1>1, AnnouncedIs DEF LogInv, Heard, PartlyHeard
<1>2. CASE UNCHANGED eventLog
  BY <1>2 DEF LogInv, LogOK
<1>3. CASE eventLog' = [eventLog EXCEPT !.events = Nothing]
  <2> USE StorageAssumption
  <2>1. PICK c \in Nat : c = eventLog.counter
    BY DEF LogInv, LogOK
  <2>2. /\ eventLog' = [counter |-> eventLog'.counter, events |-> eventLog'.events]
        /\ eventLog'.counter = c /\ eventLog'.events = Nothing
    BY <1>3, <2>1 DEF LogInv, LogOK
  <2>3. /\ IsTable(eventLog'.events)
        /\ c \in 0..c /\ DOMAIN eventLog'.events = (c + 1)..c
        /\ c - c <= MaxEvents + (c % TruncateStep)
    BY <2>2, NothingIs
  <2> QED
    BY <2>2, <2>3 DEF LogOK
<1> QED
  BY <1>1, <1>2, <1>3, StepsAnnounce DEF LogInv, NameForgotten

LEMMA LogInvInit == StorageInit => LogInv
BY TypedInit, LogInit DEF LogInv

\* The records, the ids and the events have the types that the code gives them,
\* whatever is called: the ids of producers and generations have been given out
\* by their counters, those of the files fit the width of an id and are not 0,
\* and no event is numbered above the event counter.
THEOREM StorageTypeOKHolds == StorageSpec => []StorageTypeOK
<1>1. LogInv => StorageTypeOK
  BY DEF LogInv, LogOK, Typed, ProducersTyped, GenerationsTyped, GeometriesTyped, FilesTyped,
         ContentTyped, StorageTypeOK, ContentRecords
<1> QED
  BY LogInvInit, LogStep, <1>1, PTL DEF StorageSpec

\* A new file never gets the id 0 or the id of a file that is there, however
\* often the counter has passed the width of an id: allocateFileId() passes over
\* both, and no other call announces a new file.
THEOREM FreshFileIdsHolds == StorageSpec => FreshFileIds
<1> DEFINE A == \A k \in DOMAIN eventLog'.events \ DOMAIN eventLog.events :
                  LET e == eventLog'.events[k]
                  IN e.type = "FILE_ADDED" => e.id1 # 0 /\ e.id1 \notin DOMAIN files
<1>1. LogInv /\ [StorageNext]_storageVars => A
  <2> SUFFICES ASSUME LogInv, [StorageNext]_storageVars PROVE A
    OBVIOUS
  <2>1. CASE Heard \/ PartlyHeard
    BY <2>1, AnnouncedIs DEF LogInv, Heard, PartlyHeard
  <2>2. CASE UNCHANGED eventLog
    BY <2>2
  <2>3. CASE eventLog' = [eventLog EXCEPT !.events = Nothing]
    <3>1. DOMAIN eventLog'.events = {}
      BY <2>3, NothingIs DEF LogInv, LogOK
    <3> QED
      BY <3>1
  <2> QED
    BY <2>1, <2>2, <2>3, StepsAnnounce DEF LogInv, NameForgotten
<1> QED
  BY LogInvInit, LogStep, <1>1, PTL DEF StorageSpec, FreshFileIds

\* For every length of the log and every step of its truncation, whatever is
\* announced: the log has no gap, it is never longer than the limit and what may
\* come before the next test, and a truncation never takes an event that is
\* within the limit less the step of the newest.
THEOREM LogIsWindowHolds == StorageSpec => LogIsWindow
<1> DEFINE A == \A k, n \in DOMAIN eventLog.events : k..n \subseteq DOMAIN eventLog.events
           B == Cardinality(DOMAIN eventLog.events) <= MaxEvents + TruncateStep - 1
           C == ~clearing =>
                  \A k \in DOMAIN eventLog.events :
                    k > eventLog'.counter - (MaxEvents - TruncateStep - 1)
                      => k \in DOMAIN eventLog'.events
<1>1. LogInv => A /\ B
  <2> SUFFICES ASSUME LogInv PROVE A /\ B
    OBVIOUS
  <2> USE StorageAssumption
  <2>1. PICK c \in Nat : c = eventLog.counter
    BY DEF LogInv, LogOK
  <2>2. PICK lo \in Nat : /\ lo <= c /\ DOMAIN eventLog.events = (lo + 1)..c
                          /\ c - lo <= MaxEvents + (c % TruncateStep)
    BY <2>1 DEF LogInv, LogOK
  <2>3. Cardinality((lo + 1)..c) = c - lo
    BY <2>2, IntervalSize
  <2>4. c % TruncateStep <= TruncateStep - 1
    OBVIOUS
  <2>5. c % TruncateStep \in Nat
    OBVIOUS
  <2>6. A
    BY <2>2
  <2>7. B
    <3> HIDE DEF A
    <3> QED
      BY <2>2, <2>3, <2>4, <2>5
  <2> QED
    BY <2>6, <2>7
<1>2. LogInv /\ [StorageNext]_storageVars => C
  <2> SUFFICES ASSUME LogInv, [StorageNext]_storageVars PROVE C
    OBVIOUS
  <2>1. CASE Heard \/ PartlyHeard
    BY <2>1, AnnouncedIs DEF LogInv, Heard, PartlyHeard
  <2>2. CASE UNCHANGED eventLog
    BY <2>2
  <2> QED
    BY <2>1, <2>2, StepsAnnounce DEF LogInv, NameForgotten
<1> HIDE DEF A, B, C
<1>3. StorageSpec => []A /\ []B /\ [][C]_storageVars
  BY LogInvInit, LogStep, <1>1, <1>2, PTL DEF StorageSpec
<1> QED
  BY <1>3 DEF LogIsWindow, A, B, C

\* As long as nobody calls setFileInfo() or deletes by forecast time, no call
\* changes a record without an event: every call announces at least one, except
\* those that find nothing to change, and a name that is deleted leads to a file.
THEOREM ChangesAnnouncedHolds ==
  Operations \cap {"setFileInfo", "deleteFileInfoListByGenerationIdAndForecastTime",
                   "deleteFileInfoListByForecastTimeList"} = {}
    => (StorageSpec => ChangesAnnounced)
<1> SUFFICES ASSUME /\ "setFileInfo" \notin Operations
                    /\ "deleteFileInfoListByGenerationIdAndForecastTime" \notin Operations
                    /\ "deleteFileInfoListByForecastTimeList" \notin Operations
             PROVE  StorageSpec => ChangesAnnounced
  OBVIOUS
<1> DEFINE A == records' # records /\ ~clearing => eventLog'.counter > eventLog.counter
<1>1. FilesInv /\ [StorageNext]_storageVars => FilesInv'
  BY FilesStep
<1>2. LogInv /\ FilesInv /\ [StorageNext]_storageVars => A
  <2> SUFFICES ASSUME LogInv, FilesInv, [StorageNext]_storageVars, records' # records, ~clearing
               PROVE  eventLog'.counter > eventLog.counter
    OBVIOUS
  <2>1. ~PartlyHeard /\ ~NameForgotten
    BY DEF PartlyHeard, NameForgotten, FilesInv, FileNamesResolve
  <2>2. Heard
    BY <2>1, StepsAnnounce DEF LogInv
  <2>3. PICK N, seq : Announces(N, seq) /\ N # 0
    BY <2>2 DEF Heard
  <2>4. N \in Nat \ {0} /\ eventLog.counter \in Nat /\ eventLog'.counter = eventLog.counter + N
    BY <2>3, AnnouncedIs DEF Announces, LogInv, LogOK
  <2> QED
    BY <2>4
<1> QED
  BY LogInvInit, LogStep, FilesInit, <1>1, <1>2, PTL DEF StorageSpec, ChangesAnnounced
=============================================================================
