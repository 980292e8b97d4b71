-------------------------- MODULE RedisLockProofs --------------------------
(***************************************************************************)
(* Proofs about RedisLock for every set of processes and threads, every    *)
(* bound and every environment (crashes, shutdowns, slow holders).         *)
(***************************************************************************)
EXTENDS RedisLock, TLAPS

\* Thread level mode: there is no ticket queue, and a holder owns the thread
\* lock of its object.
ModeInv ==
  \A t \in Threads \ Ticketed :
    /\ pc[t] \in {"idle", "cs"}
    /\ pc[t] = "cs" => mThreadLock[ObjectOf[t]] = t

\* Every thread inside lock() or unlock() has a ticket of its own.
TicketInv ==
  /\ \A t \in Ticketed : pc[t] # "idle" => key[t] \in 1..lockRequestCounter
  /\ \A t, u \in Ticketed :
       pc[t] # "idle" /\ pc[u] # "idle" /\ key[t] = key[u] => t = u

\* The undisturbed queue: whoever has been told that it is its turn still has
\* it, and all tickets in the queue are ahead of the release counter.
QueueInv ==
  ~Disturbed =>
    /\ lockReleaseCounter <= lockRequestCounter
    /\ \A t \in Ticketed :
         /\ pc[t] # "idle" => lockReleaseCounter < key[t]
         /\ pc[t] \in {"register", "cs", "release"} => key[t] = lockReleaseCounter + 1

IInv == TypeOK /\ ModeInv /\ TicketInv /\ QueueInv

-----------------------------------------------------------------------------
\* The inductive invariant holds in the empty database.
LEMMA InitIInv == Init => IInv
<1> SUFFICES ASSUME Init PROVE IInv
  OBVIOUS
<1>1. TypeOK
  <2>1. lockOwner \in [ticket: 0..MaxTickets, object: Objects, client: Nat]
    BY LockAssumption DEF Init
  <2>2. /\ pc \in [Threads -> Phases]
        /\ key \in [Threads -> 0..MaxTickets]
        /\ seen \in [Threads -> 0..MaxTickets]
        /\ clientId \in [Objects -> Nat]
        /\ mThreadLock \in [Objects -> Threads \cup {NoThread}]
    BY LockAssumption DEF Init, Phases
  <2>3. resets \in BOOLEAN /\ mShutdownRequested \subseteq Objects
    BY DEF Init
  <2>4. 0 \in 0..MaxTickets /\ 0 \in 0..MaxCrashes
    BY LockAssumption
  <2> QED
    BY <2>1, <2>2, <2>3, <2>4 DEF Init, TypeOK
<1>2. ModeInv /\ TicketInv
  BY DEF Init, ModeInv, TicketInv, Ticketed
<1>3. QueueInv
  BY DEF Init, QueueInv, Ticketed
<1> QED
  BY <1>1, <1>2, <1>3 DEF IInv

\* Every step keeps the types: a reset never takes the release counter below
\* zero, because the waiter that resets it has a ticket.
LEMMA NextTypeOK == IInv /\ [Next]_vars => TypeOK'
<1> SUFFICES ASSUME IInv, [Next]_vars PROVE TypeOK'
  OBVIOUS
<1> USE LockAssumption DEF IInv, TypeOK, Phases, environment, redisKeys, Goto,
        TakeThreadLock, DropThreadLock
<1>1. ASSUME NEW t \in Threads, ThreadLock(t) PROVE TypeOK'
  BY <1>1 DEF ThreadLock
<1>2. ASSUME NEW t \in Threads, ThreadUnlock(t) PROVE TypeOK'
  BY <1>2 DEF ThreadUnlock
<1>3. ASSUME NEW t \in Threads, RequestLock(t) PROVE TypeOK'
  BY <1>3 DEF RequestLock
<1>4. ASSUME NEW t \in Threads, PollShutdown(t) PROVE TypeOK'
  BY <1>4 DEF PollShutdown
<1>5. ASSUME NEW t \in Threads, Poll(t) PROVE TypeOK'
  BY <1>5 DEF Poll, PollTurn, PollSkipped, PollTimeout
<1>6. ASSUME NEW t \in Threads, ProbeOwner(t) PROVE TypeOK'
  BY <1>6 DEF ProbeOwner
<1>7. ASSUME NEW t \in Threads, ResetLock(t) PROVE TypeOK'
  <2>1. t \in Ticketed
    BY <1>7 DEF ResetLock, ModeInv
  <2>2. key[t] \in 1..MaxTickets
    BY <1>7, <2>1 DEF ResetLock, TicketInv
  <2> QED
    BY <1>7, <2>2 DEF ResetLock
<1>8. ASSUME NEW t \in Threads, registerLockOwner(t) PROVE TypeOK'
  BY <1>8 DEF registerLockOwner
<1>9. ASSUME NEW t \in Threads, UnlockRead(t) PROVE TypeOK'
  BY <1>9 DEF UnlockRead
<1>10. ASSUME NEW t \in Threads, UnlockWrite(t) PROVE TypeOK'
  BY <1>10 DEF UnlockWrite
<1>11. ASSUME NEW o \in Objects, shutdown(o) PROVE TypeOK'
  BY <1>11 DEF shutdown
<1>12. ASSUME NEW o \in Objects, Crash(o) PROVE TypeOK'
  BY <1>12 DEF Crash
<1>13. CASE UNCHANGED vars
  BY <1>13 DEF vars
<1> QED
  BY <1>1, <1>2, <1>3, <1>4, <1>5, <1>6, <1>7, <1>8, <1>9, <1>10, <1>11, <1>12, <1>13
  DEF Next, Progress

\* Every step keeps the thread level mode: the thread lock passes from one
\* holder to the next only through a free lock.
LEMMA NextModeInv == IInv /\ [Next]_vars => ModeInv'
<1> SUFFICES ASSUME IInv, [Next]_vars, NEW u \in Threads \ Ticketed
             PROVE  /\ pc'[u] \in {"idle", "cs"}
                    /\ pc'[u] = "cs" => mThreadLock'[ObjectOf[u]] = u
  BY DEF ModeInv
<1> USE LockAssumption DEF IInv, TypeOK, ModeInv, Ticketed, Phases, environment, redisKeys, Goto,
        TakeThreadLock, DropThreadLock
<1>1. ASSUME NEW t \in Threads, ThreadLock(t) \/ RequestLock(t) \/ Progress(t)
      PROVE  /\ pc'[u] \in {"idle", "cs"}
             /\ pc'[u] = "cs" => mThreadLock'[ObjectOf[u]] = u
  <2>1. CASE ThreadLock(t)
    BY <2>1 DEF ThreadLock
  <2>2. CASE ThreadUnlock(t)
    BY <2>2 DEF ThreadUnlock
  <2>3. CASE t \notin Ticketed
    BY <1>1, <2>1, <2>2, <2>3 DEF Progress, RequestLock, PollShutdown, Poll, ProbeOwner,
       ResetLock, registerLockOwner, UnlockRead, UnlockWrite
  <2>4. CASE t \in Ticketed /\ ~ThreadLock(t) /\ ~ThreadUnlock(t)
    <3>1. t # u /\ ObjectOf[t] # ObjectOf[u]
      BY <2>4
    <3>2. pc'[u] = pc[u] /\ mThreadLock'[ObjectOf[u]] = mThreadLock[ObjectOf[u]]
      BY <1>1, <2>4, <3>1 DEF Progress, RequestLock, PollShutdown, Poll, PollTurn,
         PollSkipped, PollTimeout, ProbeOwner, ResetLock, registerLockOwner, UnlockRead,
         UnlockWrite
    <3> QED
      BY <3>2
  <2> QED
    BY <2>1, <2>2, <2>3, <2>4
<1>2. ASSUME NEW o \in Objects, shutdown(o)
      PROVE  /\ pc'[u] \in {"idle", "cs"}
             /\ pc'[u] = "cs" => mThreadLock'[ObjectOf[u]] = u
  BY <1>2 DEF shutdown
<1>3. ASSUME NEW o \in Objects, Crash(o)
      PROVE  /\ pc'[u] \in {"idle", "cs"}
             /\ pc'[u] = "cs" => mThreadLock'[ObjectOf[u]] = u
  BY <1>3 DEF Crash
<1>4. CASE UNCHANGED vars
  BY <1>4 DEF vars
<1> QED
  BY <1>1, <1>2, <1>3, <1>4 DEF Next

\* A new ticket is greater than every ticket in use; no other step gives one.
LEMMA NextTicketInv == IInv /\ [Next]_vars => TicketInv'
<1> SUFFICES ASSUME IInv, [Next]_vars PROVE TicketInv'
  OBVIOUS
<1> USE LockAssumption DEF IInv, TypeOK, TicketInv, Ticketed, Phases, environment, redisKeys, Goto,
        TakeThreadLock, DropThreadLock
<1>1. ASSUME NEW t \in Threads, RequestLock(t) PROVE TicketInv'
  BY <1>1 DEF RequestLock
<1>2. ASSUME NEW t \in Threads, ThreadLock(t) \/ Progress(t) PROVE TicketInv'
  <2>1. /\ UNCHANGED <<key, lockRequestCounter>>
        /\ t \notin Ticketed \/ pc[t] # "idle"
        /\ \E phase \in Phases : pc' = [pc EXCEPT ![t] = phase]
    BY <1>2 DEF ThreadLock, Progress, ThreadUnlock, PollShutdown, Poll, PollTurn,
         PollSkipped, PollTimeout, ProbeOwner, ResetLock, registerLockOwner,
         UnlockRead, UnlockWrite
  <2> QED
    BY <2>1
<1>3. ASSUME NEW o \in Objects, shutdown(o) PROVE TicketInv'
  BY <1>3 DEF shutdown
<1>4. ASSUME NEW o \in Objects, Crash(o) PROVE TicketInv'
  BY <1>4 DEF Crash
<1>5. CASE UNCHANGED vars
  BY <1>5 DEF vars
<1> QED
  BY <1>1, <1>2, <1>3, <1>4, <1>5 DEF Next

\* Disturbances are not forgotten.
LEMMA DisturbedForever == IInv /\ [Next]_vars /\ ~Disturbed' => ~Disturbed
<1> SUFFICES ASSUME IInv, [Next]_vars, Disturbed PROVE Disturbed'
  OBVIOUS
<1> USE DEF IInv, TypeOK, Disturbed, environment, redisKeys
<1>1. ASSUME NEW t \in Threads, ThreadLock(t) \/ RequestLock(t) \/ Progress(t)
      PROVE  Disturbed'
  BY <1>1 DEF ThreadLock, RequestLock, Progress, ThreadUnlock, PollShutdown, Poll,
       ProbeOwner, ResetLock, registerLockOwner, UnlockRead, UnlockWrite
<1>2. ASSUME NEW o \in Objects, shutdown(o) PROVE Disturbed'
  BY <1>2 DEF shutdown
<1>3. ASSUME NEW o \in Objects, Crash(o) PROVE Disturbed'
  <2>1. crashes' > 0
    BY <1>3, LockAssumption DEF Crash
  <2> QED
    BY <2>1
<1>4. CASE UNCHANGED vars
  BY <1>4 DEF vars
<1> QED
  BY <1>1, <1>2, <1>3, <1>4 DEF Next

\* Every step keeps the undisturbed queue.  The release counter moves only
\* when the thread that has the turn gives it up, and then to the next ticket.
LEMMA NextQueueInv == IInv /\ [Next]_vars => QueueInv'
<1> SUFFICES ASSUME IInv, [Next]_vars, ~Disturbed' PROVE QueueInv'
  BY DEF QueueInv
<1>0. ~Disturbed
  BY DisturbedForever
<1> USE LockAssumption, <1>0 DEF IInv, TypeOK, TicketInv, QueueInv, Ticketed, Phases, environment,
        redisKeys, Goto, TakeThreadLock, DropThreadLock
<1>1. ASSUME NEW t \in Threads, RequestLock(t) PROVE QueueInv'
  BY <1>1 DEF RequestLock
<1>2. ASSUME NEW t \in Threads, PollShutdown(t) PROVE QueueInv'
  BY <1>2 DEF PollShutdown, Disturbed
<1>3. ASSUME NEW t \in Threads, Poll(t) PROVE QueueInv'
  BY <1>3 DEF Poll, PollTurn, PollSkipped, PollTimeout
<1>4. ASSUME NEW t \in Threads, ProbeOwner(t) PROVE QueueInv'
  BY <1>4 DEF ProbeOwner
<1>5. ASSUME NEW t \in Threads, ResetLock(t) PROVE QueueInv'
  BY <1>5 DEF ResetLock, Disturbed
<1>6. ASSUME NEW t \in Threads, registerLockOwner(t) PROVE QueueInv'
  BY <1>6 DEF registerLockOwner
<1>7. ASSUME NEW t \in Threads, UnlockRead(t) PROVE QueueInv'
  BY <1>7 DEF UnlockRead
<1>8. ASSUME NEW t \in Threads, UnlockWrite(t) PROVE QueueInv'
  <2>0. t \in Ticketed
    BY <1>8 DEF UnlockWrite, ModeInv
  <2>1. /\ lockReleaseCounter' = lockReleaseCounter + 1
        /\ key[t] = lockReleaseCounter + 1
        /\ UNCHANGED <<key, lockRequestCounter>>
        /\ pc' = [pc EXCEPT ![t] = "idle"]
    BY <1>8, <2>0 DEF UnlockWrite
  <2>2. lockReleaseCounter' <= lockRequestCounter'
    BY <1>8, <2>0, <2>1 DEF UnlockWrite
  <2>3. ASSUME NEW u \in Ticketed, pc'[u] # "idle" PROVE lockReleaseCounter' < key'[u]
    <3>1. u # t /\ pc[u] # "idle"
      BY <2>1, <2>3
    <3>2. key[u] # key[t] /\ lockReleaseCounter < key[u]
      BY <3>1, <1>8, <2>0 DEF UnlockWrite
    <3> QED
      BY <2>1, <3>2
  <2>4. ASSUME NEW u \in Ticketed PROVE pc'[u] \notin {"register", "cs", "release"}
    BY <2>0, <2>1, <1>8 DEF UnlockWrite
  <2> QED
    BY <2>2, <2>3, <2>4
<1>9. ASSUME NEW t \in Threads, ThreadLock(t) \/ ThreadUnlock(t) PROVE QueueInv'
  BY <1>9 DEF ThreadLock, ThreadUnlock
<1>10. ASSUME NEW o \in Objects, shutdown(o) PROVE QueueInv'
  BY <1>10 DEF shutdown, Disturbed
<1>11. ASSUME NEW o \in Objects, Crash(o) PROVE QueueInv'
  BY <1>11 DEF Crash, Disturbed
<1>12. CASE UNCHANGED vars
  BY <1>12 DEF vars, Disturbed
<1> QED
  BY <1>1, <1>2, <1>3, <1>4, <1>5, <1>6, <1>7, <1>8, <1>9, <1>10, <1>11, <1>12
  DEF Next, Progress

LEMMA InductiveInvariant == Spec => []IInv
<1>1. IInv /\ [Next]_vars => IInv'
  BY NextTypeOK, NextModeInv, NextTicketInv, NextQueueInv DEF IInv
<1> QED
  BY InitIInv, <1>1, PTL DEF Spec

-----------------------------------------------------------------------------
\* Type correctness of the lock, in every environment.
THEOREM TypeCorrect == Spec => []TypeOK
<1>1. IInv => TypeOK
  BY DEF IInv
<1> QED
  BY InductiveInvariant, <1>1, PTL

\* The ticket lock of lock() and unlock() serialises the storage operations of
\* any number of threads and processes until the first crash, shutdown or
\* reset.
THEOREM UndisturbedExclusionHolds == Spec => []UndisturbedExclusion
<1>1. IInv => UndisturbedExclusion
  BY DEF IInv, TicketInv, QueueInv, UndisturbedExclusion, Holders
<1> QED
  BY InductiveInvariant, <1>1, PTL

\* In the thread level mode the guard object serialises the threads of one
\* object, whatever happens to other processes.
THEOREM ThreadExclusionHolds == Spec => []ThreadExclusion
<1>1. IInv => ThreadExclusion
  BY DEF IInv, ModeInv, ThreadExclusion, Holders
<1> QED
  BY InductiveInvariant, <1>1, PTL

\* lock() serves the tickets in their order until the first disturbance.
THEOREM TicketOrderHolds == Spec => TicketOrder
<1> DEFINE InOrder ==
      ~Disturbed =>
        \A t \in Threads : pc[t] = "register" /\ pc'[t] = "cs"
          => \A u \in Threads : pc[u] \in Queueing => key[t] <= key[u]
<1>1. IInv /\ [Next]_vars => [InOrder]_vars
  <2> SUFFICES ASSUME IInv, Next, ~Disturbed,
                      NEW t \in Threads, pc[t] = "register", pc'[t] = "cs",
                      NEW u \in Threads, pc[u] \in Queueing
               PROVE  key[t] <= key[u]
    BY DEF InOrder
  <2>1. t \in Ticketed /\ u \in Ticketed
    BY DEF IInv, ModeInv, Queueing
  <2> QED
    BY <2>1, LockAssumption DEF IInv, TypeOK, QueueInv, Queueing
<1> QED
  BY InductiveInvariant, <1>1, PTL DEF Spec, TicketOrder

\* unlock() never takes the release counter backwards until the first
\* disturbance, although it reads and writes the counter with two commands.
THEOREM ReleasesAdvanceHolds == Spec => ReleasesAdvance
<1> DEFINE Advances == ~Disturbed' => lockReleaseCounter' >= lockReleaseCounter
<1>1. IInv /\ [Next]_vars => [Advances]_vars
  <2> SUFFICES ASSUME IInv, Next, ~Disturbed', [Next]_vars
               PROVE  lockReleaseCounter' >= lockReleaseCounter
    BY DEF Advances
  <2>1. ~Disturbed
    BY DisturbedForever
  <2>2. lockReleaseCounter \in Nat
    BY LockAssumption DEF IInv, TypeOK
  <2>3. ASSUME NEW t \in Threads, UnlockWrite(t)
        PROVE  lockReleaseCounter' >= lockReleaseCounter
    <3>1. t \in Ticketed
      BY <2>3 DEF IInv, ModeInv, UnlockWrite
    <3> QED
      BY <2>1, <2>2, <2>3, <3>1, LockAssumption DEF IInv, TypeOK, QueueInv, UnlockWrite
  <2>4. ASSUME NEW t \in Threads, ResetLock(t) PROVE FALSE
    BY <2>4 DEF ResetLock, Disturbed
  <2>5. CASE UNCHANGED lockReleaseCounter
    BY <2>2, <2>5
  <2> QED
    BY <2>3, <2>4, <2>5 DEF Next, Progress, ThreadLock, RequestLock, ThreadUnlock,
       PollShutdown, Poll, ProbeOwner, registerLockOwner, UnlockRead, shutdown, Crash,
       redisKeys
<1> QED
  BY InductiveInvariant, <1>1, PTL DEF Spec, ReleasesAdvance

-----------------------------------------------------------------------------
\* The undisturbed queue as the waiters see it that have waited too long.  A
\* thread that has the lock is the registered owner; the ticket that such a
\* waiter asks about is no longer in the queue, and when the waiter has
\* decided to reset the counter, that ticket is not in use at all.
ProbeInv ==
  ~Disturbed =>
    \A t \in Ticketed :
      /\ pc[t] \in {"cs", "release"} =>
           /\ lockOwner.ticket = key[t]
           /\ lockOwner.object = ObjectOf[t]
           /\ lockOwner.client = clientId[ObjectOf[t]]
      /\ pc[t] \in {"probe", "reset"} =>
           /\ seen[t] + 1 < key[t]
           /\ \A u \in Ticketed : pc[u] \in Queueing => key[u] # seen[t] + 1
      /\ pc[t] = "reset" => \A u \in Ticketed : pc[u] = "cs" => key[u] # seen[t] + 1

\* Every step keeps it, if a live thread moves on in the queue within the wait
\* time: then only the holder can have the turn for longer.
LEMMA NextProbeInv ==
  SlowPhases \cap Queueing = {} => (IInv /\ ProbeInv /\ [Next]_vars => ProbeInv')
<1> SUFFICES ASSUME SlowPhases \cap Queueing = {}, IInv, ProbeInv, [Next]_vars, ~Disturbed'
             PROVE  ProbeInv'
  BY DEF ProbeInv
<1>0. ~Disturbed
  BY DisturbedForever
<1> USE LockAssumption, <1>0 DEF IInv, TypeOK, TicketInv, QueueInv, ProbeInv, Ticketed, Phases,
        Queueing, environment, redisKeys, Goto, TakeThreadLock, DropThreadLock
<1>1. ASSUME NEW t \in Threads, RequestLock(t) PROVE ProbeInv'
  <2>1. \A u \in Ticketed : pc[u] \in {"probe", "reset"} => seen[u] + 1 # key'[t]
    BY <1>1 DEF RequestLock
  <2> QED
    BY <1>1, <2>1 DEF RequestLock
<1>2. ASSUME NEW t \in Threads, PollShutdown(t) PROVE ProbeInv'
  BY <1>2 DEF PollShutdown, Disturbed
<1>3. ASSUME NEW t \in Threads, Poll(t) PROVE ProbeInv'
  <2>0. t \in Ticketed /\ ~PollSkipped(t)
    BY <1>3 DEF Poll, PollSkipped, ModeInv
  <2>1. CASE PollTurn(t)
    BY <1>3, <2>1 DEF Poll, PollTurn
  <2>2. CASE PollTimeout(t)
    <3>1. \A u \in Ticketed : pc[u] \in Queueing => key[u] # lockReleaseCounter + 1
      BY <2>2 DEF PollTimeout, WaitTimeOver, TurnOf
    <3> QED
      BY <1>3, <2>0, <2>2, <3>1 DEF Poll, PollTimeout
  <2> QED
    BY <1>3, <2>0, <2>1, <2>2 DEF Poll
<1>4. ASSUME NEW t \in Threads, ProbeOwner(t) PROVE ProbeInv'
  <2>0. t \in Ticketed
    BY <1>4 DEF ProbeOwner, ModeInv
  <2>1. CASE isLockOwnerAlive(seen[t])
    BY <1>4, <2>0, <2>1 DEF ProbeOwner
  <2>2. CASE ~isLockOwnerAlive(seen[t])
    <3>1. \A u \in Ticketed : pc[u] = "cs" => key[u] # seen[t] + 1
      BY <2>2 DEF isLockOwnerAlive
    <3> QED
      BY <1>4, <2>0, <2>2, <3>1 DEF ProbeOwner
  <2> QED
    BY <2>1, <2>2
<1>5. ASSUME NEW t \in Threads, ResetLock(t) PROVE ProbeInv'
  BY <1>5 DEF ResetLock, Disturbed
<1>6. ASSUME NEW t \in Threads, registerLockOwner(t) PROVE ProbeInv'
  <2>0. t \in Ticketed
    BY <1>6 DEF registerLockOwner, ModeInv
  <2>1. \A u \in Ticketed : u # t => pc[u] \notin {"cs", "release"}
    BY <1>6, <2>0 DEF registerLockOwner
  <2> QED
    BY <1>6, <2>0, <2>1 DEF registerLockOwner
<1>7. ASSUME NEW t \in Threads, UnlockRead(t) PROVE ProbeInv'
  BY <1>7 DEF UnlockRead
<1>8. ASSUME NEW t \in Threads, UnlockWrite(t) PROVE ProbeInv'
  BY <1>8 DEF UnlockWrite
<1>9. ASSUME NEW t \in Threads, ThreadLock(t) \/ ThreadUnlock(t) PROVE ProbeInv'
  BY <1>9 DEF ThreadLock, ThreadUnlock
<1>10. ASSUME NEW o \in Objects, shutdown(o) PROVE ProbeInv'
  BY <1>10 DEF shutdown, Disturbed
<1>11. ASSUME NEW o \in Objects, Crash(o) PROVE ProbeInv'
  BY <1>11 DEF Crash, Disturbed
<1>12. CASE UNCHANGED vars
  BY <1>12 DEF vars, Disturbed
<1> QED
  BY <1>1, <1>2, <1>3, <1>4, <1>5, <1>6, <1>7, <1>8, <1>9, <1>10, <1>11, <1>12
  DEF Next, Progress

\* lock() never takes the lock from the slow holder that it has waited for,
\* before the first crash, shutdown or reset.
THEOREM SlowHolderKeepsLockHolds ==
  SlowPhases \cap Queueing = {} => (Spec => []SlowHolderKeepsLock)
<1> SUFFICES ASSUME SlowPhases \cap Queueing = {} PROVE Spec => []SlowHolderKeepsLock
  OBVIOUS
<1>1. Init => ProbeInv
  BY DEF Init, ProbeInv, Ticketed
<1>2. IInv /\ ProbeInv /\ [Next]_vars => ProbeInv'
  BY NextProbeInv
<1>3. ProbeInv => SlowHolderKeepsLock
  BY DEF ProbeInv, SlowHolderKeepsLock, Holders, Ticketed
<1> QED
  BY InductiveInvariant, <1>1, <1>2, <1>3, PTL DEF Spec

-----------------------------------------------------------------------------
(* The queue of writers: RedisLock implements the safety part of            *)
(* WriterQueue for every number of processes, threads and tickets, as long  *)
(* as nothing disturbs the lock from outside.                               *)

\* The environment of the theorem: the database lock, and no crashes,
\* shutdowns or operations that outlast the wait time of a waiter.
Calm ==
  /\ mDatabaseLockEnabled = Objects
  /\ MaxCrashes = 0 /\ Stoppers = {} /\ SlowPhases = {}

\* Every ticket that has been given out and not been released has an owner in
\* the queue, so that no waiter ever suspects a holder and resets the lock.
CalmInv ==
  /\ ~Disturbed
  /\ \A n \in (lockReleaseCounter + 1)..lockRequestCounter :
       \E t \in Threads : pc[t] # "idle" /\ key[t] = n
  /\ \A t \in Threads : pc[t] \notin {"probe", "reset"}

LEMMA CalmInit == Init => CalmInv
BY DEF Init, CalmInv, Disturbed

\* The wait time of a waiter never ends: the next ticket has an owner.
LEMMA NoSuspicion ==
  ASSUME Calm, IInv, CalmInv, NEW t \in Threads, Poll(t)
  PROVE  PollTurn(t)
<1> USE LockAssumption DEF Calm, IInv, TypeOK, CalmInv, Ticketed
<1>1. /\ lockReleaseCounter \in Nat /\ lockRequestCounter \in Nat
      /\ key[t] \in 1..lockRequestCounter /\ lockReleaseCounter < key[t]
  <2>1. t \in Ticketed /\ lockReleaseCounter \in Nat /\ lockRequestCounter \in Nat
    OBVIOUS
  <2> QED
    BY <2>1 DEF Poll, TicketInv, QueueInv
<1>2. ASSUME PollTimeout(t) PROVE FALSE
  <2>1. lockReleaseCounter + 1 \in (lockReleaseCounter + 1)..lockRequestCounter
    BY <1>1, <1>2 DEF PollTimeout
  <2>2. PICK u \in Threads : pc[u] # "idle" /\ key[u] = lockReleaseCounter + 1
    BY <2>1
  <2> QED
    BY <1>2, <2>2 DEF PollTimeout, WaitTimeOver, TurnOf
<1>3. ~PollSkipped(t)
  BY <1>1 DEF PollSkipped
<1> QED
  BY <1>2, <1>3 DEF Poll

\* Every step keeps the calm queue.
LEMMA CalmStep ==
  ASSUME Calm, IInv, CalmInv, [Next]_vars
  PROVE  CalmInv'
<1> USE LockAssumption DEF Calm, IInv, TypeOK, CalmInv, Ticketed, Disturbed, Phases, environment,
        redisKeys, Goto, TakeThreadLock, DropThreadLock
<1>1. ASSUME NEW t \in Threads, RequestLock(t) PROVE CalmInv'
  <2>1. /\ lockRequestCounter' = lockRequestCounter + 1
        /\ key'[t] = lockRequestCounter + 1 /\ pc'[t] = "poll"
        /\ \A u \in Threads \ {t} : key'[u] = key[u] /\ pc'[u] = pc[u]
        /\ pc[t] = "idle" /\ UNCHANGED lockReleaseCounter
    BY <1>1 DEF RequestLock
  <2>2. ASSUME NEW n \in (lockReleaseCounter' + 1)..lockRequestCounter'
        PROVE  \E u \in Threads : pc'[u] # "idle" /\ key'[u] = n
    <3>1. CASE n = lockRequestCounter + 1
      BY <2>1, <3>1
    <3>2. CASE n # lockRequestCounter + 1
      <4>1. n \in (lockReleaseCounter + 1)..lockRequestCounter
        BY <2>1, <2>2, <3>2
      <4>2. PICK u \in Threads : pc[u] # "idle" /\ key[u] = n
        BY <4>1
      <4> QED
        BY <2>1, <4>2
    <3> QED
      BY <3>1, <3>2
  <2> QED
    BY <1>1, <2>1, <2>2 DEF RequestLock
<1>2. ASSUME NEW t \in Threads, PollShutdown(t) PROVE CalmInv'
  BY <1>2 DEF PollShutdown
<1>3. ASSUME NEW t \in Threads, Poll(t) PROVE CalmInv'
  <2>1. pc' = [pc EXCEPT ![t] = "register"] /\ pc[t] = "poll"
    BY <1>3, NoSuspicion DEF PollTurn, Poll
  <2>2. UNCHANGED <<lockReleaseCounter, lockRequestCounter, key, crashes, resets,
                    mShutdownRequested>>
    BY <1>3 DEF Poll
  <2> QED
    BY <2>1, <2>2
<1>4. ASSUME NEW t \in Threads, ProbeOwner(t) \/ ResetLock(t) PROVE FALSE
  BY <1>4 DEF ProbeOwner, ResetLock
<1>5. ASSUME NEW t \in Threads, registerLockOwner(t) PROVE CalmInv'
  BY <1>5 DEF registerLockOwner
<1>6. ASSUME NEW t \in Threads, UnlockRead(t) PROVE CalmInv'
  BY <1>6 DEF UnlockRead, QueueInv
<1>7. ASSUME NEW t \in Threads, UnlockWrite(t) PROVE CalmInv'
  <2>1. /\ lockReleaseCounter' = lockReleaseCounter + 1 /\ key[t] = lockReleaseCounter + 1
        /\ UNCHANGED <<key, lockRequestCounter>> /\ pc' = [pc EXCEPT ![t] = "idle"]
    BY <1>7 DEF UnlockWrite, QueueInv
  <2>2. ASSUME NEW n \in (lockReleaseCounter' + 1)..lockRequestCounter'
        PROVE  \E u \in Threads : pc'[u] # "idle" /\ key'[u] = n
    <3>1. n \in (lockReleaseCounter + 1)..lockRequestCounter /\ n # key[t]
      BY <2>1, <2>2
    <3>2. PICK u \in Threads : pc[u] # "idle" /\ key[u] = n
      BY <3>1
    <3> QED
      BY <2>1, <3>1, <3>2
  <2> QED
    BY <1>7, <2>1, <2>2 DEF UnlockWrite
<1>8. ASSUME NEW t \in Threads, ThreadLock(t) \/ ThreadUnlock(t) PROVE FALSE
  BY <1>8 DEF ThreadLock, ThreadUnlock
<1>9. ASSUME NEW o \in Objects, shutdown(o) \/ Crash(o) PROVE FALSE
  BY <1>9 DEF shutdown, Crash
<1>10. CASE UNCHANGED vars
  BY <1>10 DEF vars
<1> QED
  BY <1>1, <1>2, <1>3, <1>4, <1>5, <1>6, <1>7, <1>8, <1>9, <1>10 DEF Next, Progress

LEMMA QueueInit == Init => Queue!Init
BY DEF Init, Queue!Init, Waiting, Before, Holding, Queueing

\* A step of the lock is a step of the queue, or the queue does not see it.
LEMMA QueueStep ==
  ASSUME Calm, IInv, CalmInv, [Next]_vars
  PROVE  [Queue!Next]_Queue!vars
<1> USE LockAssumption DEF Calm, IInv, TypeOK, CalmInv, Ticketed, Queueing, environment, redisKeys,
        Goto, TakeThreadLock, DropThreadLock
<1>0. ASSUME Waiting' = Waiting, Holding' = Holding, UNCHANGED key PROVE UNCHANGED Queue!vars
  BY <1>0 DEF Queue!vars, Before
<1>1. ASSUME NEW t \in Threads, RequestLock(t) PROVE Queue!Enter(t)
  <2>1. /\ pc[t] = "idle" /\ pc' = [pc EXCEPT ![t] = "poll"]
        /\ key' = [key EXCEPT ![t] = lockRequestCounter + 1]
    BY <1>1 DEF RequestLock
  <2>2. t \notin Waiting \cup Holding
    BY <2>1 DEF Waiting, Holding
  <2>3. Waiting' = Waiting \cup {t} /\ Holding' = Holding
    BY <2>1 DEF Waiting, Holding, Phases
  <2>4. \A u \in Waiting : key'[u] = key[u] /\ key[u] < key'[t] /\ key[u] \in Nat
    BY <2>1, <2>2 DEF Waiting, TicketInv
  <2>5. key'[t] \in Nat
    BY <2>1
  <2>6. Before' = Before \cup (Waiting \X {t})
    BY <2>2, <2>3, <2>4, <2>5 DEF Before
  <2> QED
    BY <2>2, <2>3, <2>6 DEF Queue!Enter
<1>2. ASSUME NEW t \in Threads, registerLockOwner(t) PROVE Queue!Grant(t)
  <2>1. pc[t] = "register" /\ pc' = [pc EXCEPT ![t] = "cs"] /\ UNCHANGED key
    BY <1>2 DEF registerLockOwner
  <2>2. key[t] = lockReleaseCounter + 1 /\ lockReleaseCounter \in Nat
    BY <2>1 DEF QueueInv
  <2>3. t \in Waiting
    BY <2>1 DEF Waiting
  <2>4. Holding = {}
    BY <2>1, <2>2 DEF Holding, QueueInv, TicketInv
  <2>5. \A u \in Waiting : <<u, t>> \notin Before
    BY <2>2 DEF Waiting, Before, QueueInv
  <2>6. Waiting' = Waiting \ {t}
    BY <2>1 DEF Waiting
  <2>7. Holding' = {t}
    BY <2>1, <2>4 DEF Holding
  <2>8. Before' = Before \cap (Waiting' \X Waiting')
    BY <2>1, <2>6 DEF Before
  <2> QED
    BY <2>3, <2>4, <2>5, <2>6, <2>7, <2>8 DEF Queue!Grant
<1>3. ASSUME NEW t \in Threads, UnlockWrite(t) PROVE Queue!Release(t)
  <2>1. pc[t] = "release" /\ pc' = [pc EXCEPT ![t] = "idle"] /\ UNCHANGED key
    BY <1>3 DEF UnlockWrite
  <2>2. t \in Holding /\ Holding' = Holding \ {t} /\ Waiting' = Waiting
    BY <2>1 DEF Holding, Waiting
  <2>3. Before' = Before
    BY <2>1, <2>2 DEF Before
  <2> QED
    BY <2>2, <2>3 DEF Queue!Release
<1>4. ASSUME NEW t \in Threads, Poll(t) PROVE UNCHANGED Queue!vars
  <2>1. pc[t] = "poll" /\ pc' = [pc EXCEPT ![t] = "register"] /\ UNCHANGED key
    BY <1>4, NoSuspicion DEF PollTurn, Poll
  <2>2. Waiting' = Waiting /\ Holding' = Holding
    BY <2>1 DEF Waiting, Holding
  <2> QED
    BY <1>0, <2>1, <2>2
<1>5. ASSUME NEW t \in Threads, UnlockRead(t) PROVE UNCHANGED Queue!vars
  <2>1. pc[t] = "cs" /\ pc' = [pc EXCEPT ![t] = "release"] /\ UNCHANGED key
    BY <1>5 DEF UnlockRead, QueueInv
  <2>2. Waiting' = Waiting /\ Holding' = Holding
    BY <2>1 DEF Waiting, Holding
  <2> QED
    BY <1>0, <2>1, <2>2
<1>6. ASSUME NEW t \in Threads, PollShutdown(t) \/ ProbeOwner(t) \/ ResetLock(t)
                                  \/ ThreadLock(t) \/ ThreadUnlock(t)
      PROVE  FALSE
  BY <1>6 DEF PollShutdown, ProbeOwner, ResetLock, ThreadLock, ThreadUnlock, Disturbed
<1>7. ASSUME NEW o \in Objects, shutdown(o) \/ Crash(o) PROVE FALSE
  BY <1>7 DEF shutdown, Crash
<1>8. CASE UNCHANGED vars
  <2>1. Waiting' = Waiting /\ Holding' = Holding /\ UNCHANGED key
    BY <1>8 DEF vars, Waiting, Holding
  <2> QED
    BY <1>0, <2>1
<1> QED
  BY <1>1, <1>2, <1>3, <1>4, <1>5, <1>6, <1>7, <1>8 DEF Next, Progress, Queue!Next

\* In a calm environment the ticket lock is a queue of writers: one holder at a
\* time, let in in the order of the requests.  (That everybody is let in rests
\* on fairness and is model-checked.)
THEOREM QueueImplemented == Calm => (Spec => Queue!Spec)
<1> SUFFICES ASSUME Calm PROVE Spec => Queue!Spec
  OBVIOUS
<1>1. IInv /\ CalmInv /\ [Next]_vars => CalmInv'
  BY CalmStep
<1>2. IInv /\ CalmInv /\ [Next]_vars => [Queue!Next]_Queue!vars
  BY QueueStep
<1> QED
  BY CalmInit, QueueInit, InductiveInvariant, <1>1, <1>2, PTL DEF Spec, Queue!Spec
=============================================================================
