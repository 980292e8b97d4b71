------------------------------ MODULE LuaPool ------------------------------
(***************************************************************************)
(* A Lua file (lua/LuaFile): a pool of Lua states, from which every call    *)
(* of a function takes one, and the update of the states when the file has  *)
(* changed.  The threads that call find the function first and execute it   *)
(* afterwards (lua/LuaFileCollection); one thread of the query server looks *)
(* for updates; somebody edits the file.                                    *)
(*                                                                         *)
(* One function stands for all: a content of the file has it or not.        *)
(***************************************************************************)
EXTENDS Naturals

CONSTANTS
  Threads,
  NUM_OF_LUA_HANDLES,
  Updater, Nobody,   \* holders of the state lock, besides the threads
  NoState,           \* nullptr
  MaxCalls,          \* bound on the calls
  MaxEdits           \* bound on the modification times of the file

ASSUME LuaAssumption ==
  /\ NUM_OF_LUA_HANDLES \in Nat \ {0}
  /\ MaxCalls \in Nat /\ MaxEdits \in Nat
  /\ Updater \notin Threads /\ Nobody \notin Threads /\ Updater # Nobody

Handles == 0..(NUM_OF_LUA_HANDLES - 1)

\* With the function, without it (or without a list of functions), with an error.
Contents == {"with", "without", "broken"}
Files == [time : Nat, content : Contents]

VARIABLES
  file,               \* the modification time and the content of the file
  latest,             \* the latest modification time that it has had
  recent,             \* its time is not three seconds ago
  edited,             \* history: the file has changed since the last check, or has
                      \* been put back with the time of the last load
  mLastModified,
  mFunctions,         \* whether the function is known
  mLuaState,
  mStateKey,
  mStateKeyCounter,
  readers, writing,   \* who has mModificationLock
  stateLock,          \* who has mStateModificationLock
  upc, loading,       \* where the update is, and the state that is loaded next
  pc, key, slot,      \* where a thread is, its key, and its state
  calls               \* what has been used of MaxCalls

fileVars == <<file, latest, recent, edited>>
poolVars == <<mStateKey, mStateKeyCounter>>
loadVars == <<mLastModified, mFunctions, mLuaState>>
updateVars == <<upc, loading>>
threadVars == <<pc, key, slot, calls>>
vars == <<fileVars, poolVars, loadVars, updateVars, threadVars, readers, writing, stateLock>>

-----------------------------------------------------------------------------
(* The file.                                                                *)

\* A modification time has seconds: the file may change twice in one.
Edit ==
  /\ \E t \in {latest + 1} \cup (IF recent THEN {file.time} ELSE {}), c \in Contents :
       t <= MaxEdits /\ file' = [time |-> t, content |-> c] /\ latest' = t
  /\ recent' = TRUE
  /\ edited' = (edited \/ upc \notin {"idle", "functions"})
  /\ UNCHANGED <<poolVars, loadVars, updateVars, threadVars, readers, writing, stateLock>>

\* A file that has changed is put back, with the time that it had.  If this is the time of
\* the last load, the file is not loaded, whatever has been loaded in vain since; any other
\* time is a new one to the program, which compares for equality.
PutBack ==
  /\ file.time # mLastModified
  /\ \E c \in Contents : file' = [time |-> mLastModified, content |-> c]
  /\ recent' = FALSE /\ edited' = TRUE
  /\ UNCHANGED <<latest, poolVars, loadVars, updateVars, threadVars, readers, writing,
                 stateLock>>

\* Three seconds go by.
Settle ==
  /\ recent
  /\ recent' = FALSE
  /\ UNCHANGED <<file, latest, edited, poolVars, loadVars, updateVars, threadVars, readers,
                 writing, stateLock>>

-----------------------------------------------------------------------------
(* A call.                                                                  *)

At(t, step) == [pc EXCEPT ![t] = step]

\* LuaFileCollection::executeFunctionCall1() up to the answer of getFunction(), which
\* has the read lock meanwhile.
getFunction(t) ==
  /\ pc[t] = "idle" /\ ~writing /\ calls < MaxCalls
  /\ mFunctions
  /\ pc' = At(t, "execute")
  /\ calls' = calls + 1
  /\ UNCHANGED <<fileVars, poolVars, loadVars, updateVars, key, slot, readers, writing,
                 stateLock>>

executeFunctionCall(t) ==
  /\ pc[t] = "execute" /\ ~writing
  /\ readers' = readers \cup {t}
  /\ pc' = At(t, "get")
  /\ UNCHANGED <<fileVars, poolVars, loadVars, updateVars, key, slot, calls, writing,
                 stateLock>>

getLuaState(t) ==
  /\ pc[t] = "get" /\ stateLock = Nobody
  /\ stateLock' = t
  /\ pc' = At(t, "scan")
  /\ UNCHANGED <<fileVars, poolVars, loadVars, updateVars, key, slot, calls, readers,
                 writing>>

\* The thread goes round until it finds a state, with the state lock.
ScanStates(t) ==
  /\ pc[t] = "scan"
  /\ IF mStateKey[slot[t]] = 0
       THEN pc' = At(t, "take") /\ UNCHANGED slot
       ELSE /\ slot' = [slot EXCEPT ![t] = (@ + 1) % NUM_OF_LUA_HANDLES]
            /\ UNCHANGED pc
  /\ UNCHANGED <<fileVars, poolVars, loadVars, updateVars, key, calls, readers, writing,
                 stateLock>>

\* Mutant: the counter stays where it is.
TakeStateUncounted(t) ==
  /\ pc[t] = "take"
  /\ key' = [key EXCEPT ![t] = mStateKeyCounter]
  /\ mStateKey' = [mStateKey EXCEPT ![slot[t]] = mStateKeyCounter]
  /\ stateLock' = Nobody
  /\ pc' = At(t, "run")
  /\ UNCHANGED <<fileVars, loadVars, updateVars, mStateKeyCounter, slot, calls, readers,
                 writing>>

\* Mutant: two keys for a call.
TakeStateTwice(t) ==
  /\ pc[t] = "take"
  /\ mStateKeyCounter' = mStateKeyCounter + 2
  /\ key' = [key EXCEPT ![t] = mStateKeyCounter']
  /\ mStateKey' = [mStateKey EXCEPT ![slot[t]] = mStateKeyCounter']
  /\ stateLock' = Nobody
  /\ pc' = At(t, "run")
  /\ UNCHANGED <<fileVars, loadVars, updateVars, slot, calls, readers, writing>>

TakeState(t) ==
  /\ pc[t] = "take"
  /\ mStateKeyCounter' = mStateKeyCounter + 1
  /\ key' = [key EXCEPT ![t] = mStateKeyCounter + 1]
  /\ mStateKey' = [mStateKey EXCEPT ![slot[t]] = mStateKeyCounter + 1]
  /\ stateLock' = Nobody
  /\ pc' = At(t, "run")
  /\ UNCHANGED <<fileVars, loadVars, updateVars, slot, calls, readers, writing>>

\* The first state with the key is free again.
WithoutKey(k) ==
  [h \in Handles |-> IF mStateKey[h] = k /\ \A i \in 0..(h - 1) : mStateKey[i] # k
                       THEN 0 ELSE mStateKey[h]]

\* Mutant: under the state lock.
releaseLuaStateLocked(t) ==
  /\ pc[t] = "run" /\ stateLock = Nobody
  /\ mStateKey' = WithoutKey(key[t])
  /\ key' = [key EXCEPT ![t] = 0] /\ slot' = [slot EXCEPT ![t] = 0]
  /\ pc' = At(t, "leave")
  /\ UNCHANGED <<fileVars, loadVars, updateVars, mStateKeyCounter, calls, readers, writing,
                 stateLock>>

\* The function has returned, or has failed, also because it is not known any more:
\* the handle gives the state back, without a lock.
releaseLuaState(t) ==
  /\ pc[t] = "run"
  /\ mStateKey' = WithoutKey(key[t])
  /\ key' = [key EXCEPT ![t] = 0] /\ slot' = [slot EXCEPT ![t] = 0]
  /\ pc' = At(t, "leave")
  /\ UNCHANGED <<fileVars, loadVars, updateVars, mStateKeyCounter, calls, readers, writing,
                 stateLock>>

Leave(t) ==
  /\ pc[t] = "leave"
  /\ readers' = readers \ {t}
  /\ pc' = At(t, "idle")
  /\ UNCHANGED <<fileVars, poolVars, loadVars, updateVars, key, slot, calls, writing,
                 stateLock>>

\* A call that has begun.
Call(t) ==
  \/ executeFunctionCall(t) \/ getLuaState(t) \/ ScanStates(t) \/ TakeState(t)
  \/ releaseLuaState(t) \/ Leave(t)

-----------------------------------------------------------------------------
(* The update.                                                              *)

\* Mutant: without the three seconds.
checkUpdatesAtOnce ==
  /\ upc = "idle" /\ file.time # mLastModified
  /\ upc' = "lock"
  /\ edited' = FALSE
  /\ UNCHANGED <<file, latest, recent, poolVars, loadVars, loading, threadVars, readers,
                 writing, stateLock>>

checkUpdates ==
  /\ upc = "idle" /\ file.time # mLastModified /\ ~recent
  /\ upc' = "lock"
  /\ edited' = FALSE
  /\ UNCHANGED <<file, latest, recent, poolVars, loadVars, loading, threadVars, readers,
                 writing, stateLock>>

LockFile ==
  /\ upc = "lock" /\ readers = {}
  /\ writing' = TRUE
  /\ upc' = "lockStates"
  /\ UNCHANGED <<fileVars, poolVars, loadVars, loading, threadVars, readers, stateLock>>

LockStates ==
  /\ upc = "lockStates" /\ stateLock = Nobody
  /\ stateLock' = Updater
  /\ upc' = "wait"
  /\ UNCHANGED <<fileVars, poolVars, loadVars, loading, threadVars, readers, writing>>

\* All states are free.
CloseStates ==
  /\ upc = "wait"
  /\ \A h \in Handles : mStateKey[h] = 0
  /\ mLuaState' = [h \in Handles |-> NoState]
  /\ upc' = "load"
  /\ UNCHANGED <<fileVars, poolVars, mLastModified, mFunctions, loading, threadVars, readers,
                 writing, stateLock>>

Unlock == writing' = FALSE /\ stateLock' = Nobody /\ upc' = "idle" /\ loading' = 0

\* One state; an error leaves the rest as it is.
loadFile ==
  /\ upc = "load"
  /\ mLuaState' = [mLuaState EXCEPT ![loading] = file]
  /\ IF file.content = "broken"
       THEN Unlock
       ELSE IF loading = NUM_OF_LUA_HANDLES - 1
              THEN upc' = "stamp" /\ UNCHANGED <<loading, writing, stateLock>>
              ELSE loading' = loading + 1 /\ UNCHANGED <<upc, writing, stateLock>>
  /\ UNCHANGED <<fileVars, poolVars, mLastModified, mFunctions, threadVars, readers>>

StampFile ==
  /\ upc = "stamp"
  /\ mLastModified' = file.time
  /\ upc' = "functions"
  /\ UNCHANGED <<fileVars, poolVars, mFunctions, mLuaState, loading, threadVars, readers,
                 writing, stateLock>>

\* The names come from the first state.
loadFunctionList ==
  /\ upc = "functions"
  /\ mFunctions' = (mLuaState[0].content = "with")
  /\ Unlock
  /\ UNCHANGED <<fileVars, poolVars, mLastModified, mLuaState, threadVars, readers>>

Update ==
  \/ checkUpdates \/ LockFile \/ LockStates \/ CloseStates
  \/ loadFile \/ StampFile \/ loadFunctionList

-----------------------------------------------------------------------------
\* The file has been loaded.
Init ==
  /\ file = [time |-> 0, content |-> "with"]
  /\ latest = 0 /\ recent = FALSE /\ edited = FALSE
  /\ mLastModified = 0 /\ mFunctions = TRUE
  /\ mLuaState = [h \in Handles |-> file]
  /\ mStateKey = [h \in Handles |-> 0] /\ mStateKeyCounter = 0
  /\ readers = {} /\ writing = FALSE /\ stateLock = Nobody
  /\ upc = "idle" /\ loading = 0
  /\ pc = [t \in Threads |-> "idle"]
  /\ key = [t \in Threads |-> 0] /\ slot = [t \in Threads |-> 0]
  /\ calls = 0

Next ==
  \/ Edit \/ PutBack \/ Settle \/ Update
  \/ \E t \in Threads : getFunction(t) \/ Call(t)

Spec == Init /\ [][Next]_vars

\* A call goes on when it can, and a function comes to its end.
FairSpec == Spec /\ \A t \in Threads : WF_vars(Call(t))

-----------------------------------------------------------------------------
\* Types of the variables; there is a key for every call at most.
TypeOK ==
  /\ file \in [time : 0..latest, content : Contents] /\ latest \in 0..MaxEdits
  /\ {recent, edited, mFunctions, writing} \subseteq BOOLEAN
  /\ mLastModified \in 0..MaxEdits
  /\ \A h \in Handles : mLuaState[h] = NoState \/ mLuaState[h] \in Files
  /\ mStateKey \in [Handles -> 0..mStateKeyCounter]
  /\ mStateKeyCounter \in 0..calls
  /\ readers \subseteq Threads
  /\ stateLock \in Threads \cup {Updater, Nobody}
  /\ upc \in {"idle", "lock", "lockStates", "wait", "load", "stamp", "functions"}
  /\ loading \in Handles
  /\ pc \in [Threads -> {"idle", "execute", "get", "scan", "take", "run", "leave"}]
  /\ key \in [Threads -> 0..mStateKeyCounter] /\ slot \in [Threads -> Handles]
  /\ calls \in 0..MaxCalls

\* A Lua state is used by one call at a time, although it is given back without a lock
\* while others look for one.
StateUsedByOne ==
  \A t, u \in Threads : t # u /\ pc[t] = "run" /\ pc[u] = "run" => slot[t] # slot[u]

\* A call that looks for a state when all are in use has the state lock, and comes to
\* have one: the calls that have them give them back all the same.
WaiterGetsState == \A t \in Threads : pc[t] = "scan" ~> pc[t] = "run"

\* After an update, also one that was tried again after a file with an error, the states
\* and the functions are those of the file, unless it has changed during the update or
\* has been put back with the time of the last load.  (What has changed meanwhile may be
\* in some of the states only, and has the time that was taken for the time of the load;
\* what has been put back is taken for what was loaded.)
FileLoaded ==
  upc = "idle" /\ ~edited /\ mLastModified = file.time =>
    /\ \A h \in Handles : mLuaState[h] = file
    /\ mFunctions = (file.content = "with")
=============================================================================
