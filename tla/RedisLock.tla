----------------------------- MODULE RedisLock -----------------------------
(***************************************************************************)
(* The lock that serialises the writers of the Redis content storage       *)
(* (RedisImplementation::lock, unlock, registerLockOwner, isLockOwnerAlive *)
(* and the RedisProcessLock guard object).                                 *)
(*                                                                         *)
(* Every process has one RedisImplementation object with one Redis         *)
(* connection and one thread lock; several threads may use the object.     *)
(* Redis executes each command atomically, so one action is one command    *)
(* that reads or writes shared keys.  A poll that finds nothing to do      *)
(* changes no state and is a stuttering step.                              *)
(***************************************************************************)
EXTENDS Naturals, FiniteSets

CONSTANTS
  Objects,              \* the RedisImplementation objects, one per process
  Threads,              \* the threads that call them
  ObjectOf,             \* the object that a thread uses
  NoThread,             \* the thread lock is free
  mDatabaseLockEnabled, \* the objects that use the ticket lock; the others use
                        \* their thread lock only
  MaxTickets,           \* bound on the lock requests of a behaviour
  MaxCrashes,           \* bound on the process crashes of a behaviour
  Crashers,             \* the objects whose process may crash
  Stoppers,             \* the objects whose shutdown() may be called
  SlowPhases            \* the phases in which a live thread may outlast the
                        \* wait time of the threads queueing behind it

\* The places between two Redis commands of lock() and unlock().  "cs" is the
\* storage operation that the guard object protects.
Phases == {"idle", "poll", "probe", "reset", "register", "cs", "release"}

\* The phases of lock() in which a thread owns a ticket but not the lock.
Queueing == {"poll", "probe", "reset", "register"}

ASSUME LockAssumption ==
  /\ ObjectOf \in [Threads -> Objects]
  /\ NoThread \notin Threads
  /\ mDatabaseLockEnabled \subseteq Objects
  /\ MaxTickets \in Nat
  /\ MaxCrashes \in Nat
  /\ Crashers \subseteq Objects
  /\ Stoppers \subseteq Objects
  /\ SlowPhases \subseteq Phases

VARIABLES
  lockRequestCounter,   \* Redis key: the last ticket given
  lockReleaseCounter,   \* Redis key: the last ticket released
  lockOwner,            \* Redis key: ticket and client id of the last holder
  mThreadLock,          \* per object: the thread that holds its thread lock
  mShutdownRequested,   \* the objects that have been asked to shut down
  clientId,             \* per object: which connection of the object is open
  pc,                   \* per thread: its phase
  key,                  \* per thread: its ticket
  seen,                 \* per thread: the release counter that it last read
  crashes,              \* history: the number of crashes so far
  resets                \* history: some release counter has been reset

redisKeys == <<lockRequestCounter, lockReleaseCounter, lockOwner>>
environment == <<mShutdownRequested, clientId, crashes>>
vars == <<redisKeys, environment, mThreadLock, pc, key, seen, resets>>

TypeOK ==
  /\ lockRequestCounter \in 0..MaxTickets
  /\ lockReleaseCounter \in 0..MaxTickets
  /\ lockOwner \in [ticket: 0..MaxTickets, object: Objects, client: Nat]
  /\ mThreadLock \in [Objects -> Threads \cup {NoThread}]
  /\ mShutdownRequested \subseteq Objects
  /\ clientId \in [Objects -> Nat]
  /\ pc \in [Threads -> Phases]
  /\ key \in [Threads -> 0..MaxTickets]
  /\ seen \in [Threads -> 0..MaxTickets]
  /\ crashes \in 0..MaxCrashes
  /\ resets \in BOOLEAN

\* The counters do not exist in a fresh database: GET answers nil, read as 0,
\* and no owner is registered (ticket 0 never matches releaseCounter + 1).
Init ==
  /\ lockRequestCounter = 0
  /\ lockReleaseCounter = 0
  /\ lockOwner \in [ticket: {0}, object: Objects, client: {0}]
  /\ mThreadLock = [o \in Objects |-> NoThread]
  /\ mShutdownRequested = {}
  /\ clientId = [o \in Objects |-> 1]
  /\ pc = [t \in Threads |-> "idle"]
  /\ key = [t \in Threads |-> 0]
  /\ seen = [t \in Threads |-> 0]
  /\ crashes = 0
  /\ resets = FALSE

-----------------------------------------------------------------------------
(* Helpers. *)

Goto(t, phase) == pc' = [pc EXCEPT ![t] = phase]

\* The threads that queue for the ticket lock.
Ticketed == {t \in Threads : ObjectOf[t] \in mDatabaseLockEnabled}

\* Mutant: goes on although another thread has the thread lock.
ThreadLockIgnored(t) ==
  /\ t \notin Ticketed
  /\ pc[t] = "idle"
  /\ mThreadLock' = [mThreadLock EXCEPT ![ObjectOf[t]] = t]
  /\ Goto(t, "cs")
  /\ UNCHANGED <<redisKeys, environment, key, seen, resets>>

TakeThreadLock(t) ==
  /\ mThreadLock[ObjectOf[t]] = NoThread
  /\ mThreadLock' = [mThreadLock EXCEPT ![ObjectOf[t]] = t]

DropThreadLock(t) == mThreadLock' = [mThreadLock EXCEPT ![ObjectOf[t]] = NoThread]

\* The threads whose turn it is to hold the lock.
TurnOf == {t \in Threads : pc[t] # "idle" /\ key[t] = lockReleaseCounter + 1}

\* The wait time (180 s) of a waiter has passed since the queue last moved.
\* A live thread that has the turn lets it pass only in a slow phase; nobody
\* ends the wait if the thread that has the turn is gone.
WaitTimeOver == \A t \in TurnOf : pc[t] \in SlowPhases

\* Mutant: compares the owner with the released ticket instead of the next one.
isLockOwnerAliveOffByOne(releaseCounter) ==
  /\ lockOwner.ticket = releaseCounter
  /\ clientId[lockOwner.object] = lockOwner.client

\* isLockOwnerAlive(): the registered owner has the ticket after the release
\* counter that the caller has read, and its connection still exists.
isLockOwnerAlive(releaseCounter) ==
  /\ lockOwner.ticket = releaseCounter + 1
  /\ clientId[lockOwner.object] = lockOwner.client

-----------------------------------------------------------------------------
(* lock() and unlock() when only thread level locking is used. *)

ThreadLock(t) ==
  /\ t \notin Ticketed
  /\ pc[t] = "idle"
  /\ TakeThreadLock(t)
  /\ Goto(t, "cs")
  /\ UNCHANGED <<redisKeys, environment, key, seen, resets>>

ThreadUnlock(t) ==
  /\ t \notin Ticketed
  /\ pc[t] = "cs"
  /\ DropThreadLock(t)
  /\ Goto(t, "idle")
  /\ UNCHANGED <<redisKeys, environment, key, seen, resets>>

-----------------------------------------------------------------------------
(* lock() of the ticket lock.  The thread lock is held from the request     *)
(* until lock() returns.                                                    *)

\* INCR lockRequestCounter: take the thread lock and a ticket.
RequestLock(t) ==
  /\ t \in Ticketed
  /\ pc[t] = "idle"
  /\ lockRequestCounter < MaxTickets
  /\ TakeThreadLock(t)
  /\ lockRequestCounter' = lockRequestCounter + 1
  /\ key' = [key EXCEPT ![t] = lockRequestCounter + 1]
  /\ Goto(t, "poll")
  /\ UNCHANGED <<lockReleaseCounter, lockOwner, environment, seen, resets>>

\* A requested shutdown ends the wait: lock() returns the ticket as the key
\* and the caller goes on.
PollShutdown(t) ==
  /\ pc[t] = "poll"
  /\ ObjectOf[t] \in mShutdownRequested
  /\ DropThreadLock(t)
  /\ Goto(t, "cs")
  /\ UNCHANGED <<redisKeys, environment, key, seen, resets>>

\* Mutant: the ticket after the next one is served as well.
PollTurnOffByOne(t) ==
  /\ key[t] \in {lockReleaseCounter + 1, lockReleaseCounter + 2}
  /\ Goto(t, "register")

\* GET lockReleaseCounter, and what the answer means for the waiter: its turn
\* has come; its turn has been skipped; or the wait time is over.
PollTurn(t) ==
  /\ lockReleaseCounter + 1 = key[t]
  /\ Goto(t, "register")

PollSkipped(t) ==
  /\ lockReleaseCounter >= key[t]
  /\ Goto(t, "reset")

PollTimeout(t) ==
  /\ lockReleaseCounter + 1 < key[t]
  /\ WaitTimeOver
  /\ Goto(t, "probe")

Poll(t) ==
  /\ pc[t] = "poll"
  /\ ObjectOf[t] \notin mShutdownRequested
  /\ PollTurn(t) \/ PollSkipped(t) \/ PollTimeout(t)
  /\ seen' = [seen EXCEPT ![t] = lockReleaseCounter]
  /\ UNCHANGED <<redisKeys, environment, mThreadLock, key, resets>>

\* GET lockOwner and CLIENT LIST: go on waiting for a live holder, otherwise
\* reset the lock.
ProbeOwner(t) ==
  /\ pc[t] = "probe"
  /\ Goto(t, IF isLockOwnerAlive(seen[t]) THEN "poll" ELSE "reset")
  /\ UNCHANGED <<redisKeys, environment, mThreadLock, key, seen, resets>>

\* Mutant: resets the counter to one ticket too low.
ResetLockOffByOne(t) ==
  /\ pc[t] = "reset"
  /\ lockReleaseCounter' = key[t] - 2
  /\ resets' = TRUE
  /\ Goto(t, "poll")
  /\ UNCHANGED <<lockRequestCounter, lockOwner, environment, mThreadLock, key, seen>>

\* SET lockReleaseCounter to the number before the waiter's own ticket.
ResetLock(t) ==
  /\ pc[t] = "reset"
  /\ lockReleaseCounter' = key[t] - 1
  /\ resets' = TRUE
  /\ Goto(t, "poll")
  /\ UNCHANGED <<lockRequestCounter, lockOwner, environment, mThreadLock, key, seen>>

\* registerLockOwner(), after which lock() returns with the lock.
registerLockOwner(t) ==
  /\ pc[t] = "register"
  /\ lockOwner' = [ticket |-> key[t], object |-> ObjectOf[t],
                   client |-> clientId[ObjectOf[t]]]
  /\ DropThreadLock(t)
  /\ Goto(t, "cs")
  /\ UNCHANGED <<lockRequestCounter, lockReleaseCounter, environment, key, seen, resets>>

-----------------------------------------------------------------------------
(* unlock() of the ticket lock: GET lockReleaseCounter, and SET it to the   *)
(* key unless it is there already.                                          *)

UnlockRead(t) ==
  /\ t \in Ticketed
  /\ pc[t] = "cs"
  /\ mThreadLock[ObjectOf[t]] = NoThread
  /\ \/ /\ lockReleaseCounter < key[t]
        /\ TakeThreadLock(t)
        /\ Goto(t, "release")
     \/ /\ lockReleaseCounter >= key[t]
        /\ Goto(t, "idle")
        /\ UNCHANGED mThreadLock
  /\ UNCHANGED <<redisKeys, environment, key, seen, resets>>

\* Mutant: writes the ticket before the key.
UnlockWriteOffByOne(t) ==
  /\ pc[t] = "release"
  /\ lockReleaseCounter' = key[t] - 1
  /\ DropThreadLock(t)
  /\ Goto(t, "idle")
  /\ UNCHANGED <<lockRequestCounter, lockOwner, environment, key, seen, resets>>

UnlockWrite(t) ==
  /\ pc[t] = "release"
  /\ lockReleaseCounter' = key[t]
  /\ DropThreadLock(t)
  /\ Goto(t, "idle")
  /\ UNCHANGED <<lockRequestCounter, lockOwner, environment, key, seen, resets>>

-----------------------------------------------------------------------------
(* The environment. *)

shutdown(o) ==
  /\ o \in Stoppers \ mShutdownRequested
  /\ mShutdownRequested' = mShutdownRequested \cup {o}
  /\ UNCHANGED <<redisKeys, clientId, crashes, mThreadLock, pc, key, seen, resets>>

\* The process of an object dies in the middle of lock(), the storage
\* operation or unlock(), and is started again with a new connection.
\* Redis closes the old connection; the keys keep their values.
Crash(o) ==
  /\ o \in Crashers
  /\ crashes < MaxCrashes
  /\ \E t \in Threads : ObjectOf[t] = o /\ pc[t] # "idle"
  /\ crashes' = crashes + 1
  /\ clientId' = [clientId EXCEPT ![o] = @ + 1]
  /\ mShutdownRequested' = mShutdownRequested \ {o}
  /\ mThreadLock' = [mThreadLock EXCEPT ![o] = NoThread]
  /\ pc' = [t \in Threads |-> IF ObjectOf[t] = o THEN "idle" ELSE pc[t]]
  /\ UNCHANGED <<redisKeys, key, seen, resets>>

\* The steps that a thread has to take once it has entered lock().
Progress(t) ==
  \/ ThreadUnlock(t)
  \/ PollShutdown(t) \/ Poll(t) \/ ProbeOwner(t) \/ ResetLock(t) \/ registerLockOwner(t)
  \/ UnlockRead(t) \/ UnlockWrite(t)

Next ==
  \/ \E t \in Threads : ThreadLock(t) \/ RequestLock(t) \/ Progress(t)
  \/ \E o \in Objects : shutdown(o) \/ Crash(o)

Spec == Init /\ [][Next]_vars

\* A thread inside lock(), its storage operation or unlock() goes on as long
\* as its process lives.  No thread has to ask for the lock, and no process
\* has to crash or to be shut down.
FairSpec == Spec /\ \A t \in Threads : WF_vars(Progress(t))

-----------------------------------------------------------------------------
(* Properties. *)

\* The threads that execute a storage operation under the lock.
Holders == {t \in Threads : pc[t] = "cs"}

\* Something has happened that the lock has to recover from.
Disturbed == crashes > 0 \/ resets \/ mShutdownRequested # {}

\* As long as no process has crashed or been shut down and no waiter has given
\* up on a holder, the ticket lock serialises the storage operations of all
\* threads of all processes, although unlock() reads and writes the release
\* counter with two commands.
UndisturbedExclusion ==
  ~Disturbed => \A t, u \in Holders \cap Ticketed : t = u

\* Two threads never execute a storage operation at the same time, whatever
\* has happened: what the ticket lock is for.  (A process that is told to shut
\* down leaves the queue and goes on without the lock.)
MutualExclusion ==
  \A t, u \in Holders \cap Ticketed :
    {ObjectOf[t], ObjectOf[u]} \cap mShutdownRequested = {} => t = u

\* The threads of one object never execute storage operations at the same
\* time in the thread level mode: the guard object holds mThreadLock from
\* lock() to unlock(), across two functions.
ThreadExclusion ==
  \A t, u \in Holders \ Ticketed : ObjectOf[t] = ObjectOf[u] => t = u

\* A waiter whose wait time is over never takes the lock from the holder that
\* it has waited for, however slow that holder is: by the time it decides to
\* reset the release counter, the thread with the ticket after the counter
\* that it has read has released the lock.  (The thread after that one may be
\* in by then, and the reset passes it by.)
SlowHolderKeepsLock ==
  ~Disturbed =>
    \A t, u \in Ticketed : pc[t] = "reset" /\ u \in Holders => key[u] # seen[t] + 1

\* The lock is given in the order of the tickets: nobody enters while an
\* earlier ticket is still in the queue.
TicketOrder ==
  [][ ~Disturbed =>
        \A t \in Threads : pc[t] = "register" /\ pc'[t] = "cs"
          => \A u \in Threads : pc[u] \in Queueing => key[t] <= key[u] ]_vars

\* unlock() never takes the release counter backwards past a later release,
\* as long as nothing has disturbed the queue.
ReleasesAdvance ==
  [][ ~Disturbed' => lockReleaseCounter' >= lockReleaseCounter ]_vars

\* Every thread that has asked for the lock leaves lock(), with the lock or
\* because its process has died.
EveryWaiterLeaves == \A t \in Threads : pc[t] = "poll" ~> pc[t] \in {"cs", "idle"}

-----------------------------------------------------------------------------
(* The refinement: the lock as a queue of writers.  A writer waits from its *)
(* ticket to the registration of its ownership, and is in until it has      *)
(* written the release counter.                                             *)

Waiting == {t \in Threads : pc[t] \in Queueing}
Before == {p \in Waiting \X Waiting : key[p[1]] < key[p[2]]}
Holding == {t \in Threads : pc[t] \in {"cs", "release"}}

Queue == INSTANCE WriterQueue
           WITH Writers <- Threads, waiting <- Waiting, before <- Before, holding <- Holding

\* With the database lock, and without crashes, shutdowns and slow holders,
\* the tickets, the two commands of unlock(), the probes and the resets amount
\* to a fair queue of writers: one at a time, in the order of their requests,
\* and everybody in the end.
ImplementsQueue == Queue!FairSpec
=============================================================================
