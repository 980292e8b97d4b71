--------------------------- MODULE LuaPoolProofs ---------------------------
(* Proofs about LuaPool for every number of threads and Lua states.         *)
EXTENDS LuaPool, FiniteSetTheorems, TLAPS

\* Keys are numbers, and the state of a thread is one of the pool.
PoolTypes ==
  /\ mStateKey \in [Handles -> Nat] /\ mStateKeyCounter \in Nat
  /\ key \in [Threads -> Nat] /\ slot \in [Threads -> Handles]
  /\ pc \in [Threads -> {"idle", "execute", "get", "scan", "take", "run", "leave"}]

\* No key is ahead of the counter.
KeysCounted == \A h \in Handles : mStateKey[h] <= mStateKeyCounter

\* Who looks for a state has the lock, and what it has found stays free.
LookersLock ==
  \A t \in Threads :
    /\ pc[t] \in {"scan", "take"} => stateLock = t
    /\ pc[t] = "take" => mStateKey[slot[t]] = 0

\* Who has a state has its key, and nobody else has this key.
KeysHeld ==
  \A t \in Threads : pc[t] = "run" =>
    /\ key[t] # 0 /\ mStateKey[slot[t]] = key[t]
    /\ \A u \in Threads : pc[u] = "run" /\ key[u] = key[t] => u = t

\* The update has the lock from when it waits for the states to the end.
UpdateLocks == upc \in {"wait", "load", "stamp", "functions"} => stateLock = Updater

IInv == PoolTypes /\ KeysCounted /\ LookersLock /\ KeysHeld /\ UpdateLocks

LEMMA InitIInv == Init => IInv
<1> SUFFICES ASSUME Init PROVE IInv
  OBVIOUS
<1>1. 0 \in Handles
  BY LuaAssumption DEF Handles
<1> QED
  BY <1>1 DEF Init, IInv, PoolTypes, KeysCounted, LookersLock, KeysHeld, UpdateLocks

\* One step of a thread that goes on without the pool and without having a state.
LEMMA StepOutside ==
  ASSUME IInv, NEW t \in Threads, NEW s \in {"idle", "execute", "get", "leave"},
         pc[t] \in {"idle", "execute", "get", "leave"}, pc' = At(t, s),
         UNCHANGED <<poolVars, key, slot, stateLock, upc>>
  PROVE  IInv'
BY DEF IInv, PoolTypes, KeysCounted, LookersLock, KeysHeld, UpdateLocks, At, poolVars

LEMMA CallKeepsIInv ==
  ASSUME IInv, NEW t \in Threads, Call(t)
  PROVE  IInv'
<1> USE DEF IInv
<1>0. UpdateLocks'
  <2>1. UNCHANGED upc
    BY DEF Call, executeFunctionCall, getLuaState, ScanStates, TakeState, releaseLuaState,
       Leave, updateVars
  <2>2. UNCHANGED stateLock \/ stateLock \in {Nobody, t}
    BY DEF Call, executeFunctionCall, getLuaState, ScanStates, TakeState, releaseLuaState,
       Leave, LookersLock
  <2> QED
    BY <2>1, <2>2, LuaAssumption DEF UpdateLocks
<1>1. CASE executeFunctionCall(t) \/ Leave(t)
  BY <1>1, StepOutside DEF executeFunctionCall, Leave, updateVars
<1>2. CASE getLuaState(t)
  <2>1. \A u \in Threads : pc[u] \notin {"scan", "take"}
    <3> SUFFICES ASSUME NEW u \in Threads, pc[u] \in {"scan", "take"} PROVE FALSE
      OBVIOUS
    <3> QED
      BY <1>2, LuaAssumption DEF getLuaState, LookersLock
  <2> QED
    BY <1>0, <1>2, <2>1 DEF getLuaState, PoolTypes, KeysCounted, LookersLock, KeysHeld, At, poolVars
<1>3. CASE ScanStates(t)
  <2>1. (slot[t] + 1) % NUM_OF_LUA_HANDLES \in Handles
    BY LuaAssumption DEF PoolTypes, Handles
  <2> QED
    BY <1>0, <1>3, <2>1 DEF ScanStates, PoolTypes, KeysCounted, LookersLock, KeysHeld, At, poolVars
<1>4. CASE TakeState(t)
  <2> DEFINE k == mStateKeyCounter + 1
  <2>1. /\ pc[t] = "take" /\ stateLock = t /\ mStateKey[slot[t]] = 0 /\ slot[t] \in Handles
        /\ mStateKeyCounter \in Nat /\ mStateKeyCounter' = k
        /\ pc' = At(t, "run") /\ slot' = slot
        /\ key' = [key EXCEPT ![t] = k]
        /\ mStateKey' = [mStateKey EXCEPT ![slot[t]] = k]
    BY <1>4 DEF TakeState, PoolTypes, LookersLock
  <2>2. PoolTypes' /\ KeysCounted'
    BY <2>1 DEF PoolTypes, KeysCounted, At
  <2>3. \A u \in Threads \ {t} : pc[u] \notin {"scan", "take"}
    BY <2>1 DEF LookersLock
  <2>4. LookersLock'
    BY <2>1, <2>3 DEF LookersLock, PoolTypes, At
  <2>5. \A u \in Threads \ {t} : pc[u] = "run" => slot[u] # slot[t] /\ key[u] < k
    <3> SUFFICES ASSUME NEW u \in Threads \ {t}, pc[u] = "run"
                 PROVE  slot[u] # slot[t] /\ key[u] < k
      OBVIOUS
    <3>1. key[u] # 0 /\ mStateKey[slot[u]] = key[u] /\ slot[u] \in Handles
      BY DEF KeysHeld, PoolTypes
    <3> QED
      BY <2>1, <3>1 DEF KeysCounted, PoolTypes
  <2>6. KeysHeld'
    BY <2>1, <2>5 DEF KeysHeld, PoolTypes, At
  <2> QED
    BY <1>0, <2>2, <2>4, <2>6
<1>5. CASE releaseLuaState(t)
  <2>1. /\ pc[t] = "run" /\ pc' = At(t, "leave") /\ mStateKey' = WithoutKey(key[t])
        /\ key' = [key EXCEPT ![t] = 0] /\ slot' = [slot EXCEPT ![t] = 0]
        /\ UNCHANGED <<mStateKeyCounter, stateLock>>
    BY <1>5 DEF releaseLuaState
  <2>2. 0 \in Handles
    BY LuaAssumption DEF Handles
  <2>3. /\ mStateKey' \in [Handles -> Nat]
        /\ \A h \in Handles : mStateKey'[h] = mStateKey[h] \/ mStateKey'[h] = 0
        /\ \A h \in Handles : mStateKey[h] # key[t] => mStateKey'[h] = mStateKey[h]
    BY <2>1 DEF WithoutKey, PoolTypes
  <2>4. PoolTypes' /\ KeysCounted'
    BY <2>1, <2>2, <2>3 DEF PoolTypes, KeysCounted, At
  <2>5. LookersLock'
    BY <2>1, <2>3 DEF LookersLock, PoolTypes, At
  <2>6. KeysHeld'
    BY <2>1, <2>3 DEF KeysHeld, PoolTypes, At
  <2> QED
    BY <1>0, <2>4, <2>5, <2>6
<1> QED
  BY <1>1, <1>2, <1>3, <1>4, <1>5 DEF Call

\* The update leaves the pool alone, and takes the lock only when it is free.
LEMMA UpdateKeepsIInv == IInv /\ Update => IInv'
<1> SUFFICES ASSUME IInv, Update PROVE IInv'
  OBVIOUS
<1>1. UNCHANGED <<poolVars, threadVars>>
  BY DEF Update, checkUpdates, LockFile, LockStates, CloseStates, loadFile, StampFile,
     loadFunctionList
<1>2. UpdateLocks' /\ (UNCHANGED stateLock \/ stateLock \in {Nobody, Updater})
  BY DEF IInv, UpdateLocks, Update, checkUpdates, LockFile, LockStates, CloseStates, loadFile,
     StampFile, loadFunctionList, Unlock
<1>3. LookersLock'
  BY <1>1, <1>2, LuaAssumption DEF IInv, LookersLock, poolVars, threadVars
<1> QED
  BY <1>1, <1>2, <1>3 DEF IInv, PoolTypes, KeysCounted, KeysHeld, poolVars, threadVars

LEMMA NextIInv == IInv /\ [Next]_vars => IInv'
<1> SUFFICES ASSUME IInv, [Next]_vars PROVE IInv'
  OBVIOUS
<1>1. ASSUME UNCHANGED <<poolVars, pc, key, slot, stateLock, upc>> PROVE IInv'
  BY <1>1 DEF IInv, PoolTypes, KeysCounted, LookersLock, KeysHeld, UpdateLocks, poolVars
<1>2. CASE Edit \/ PutBack \/ Settle \/ UNCHANGED vars
  BY <1>1, <1>2 DEF Edit, PutBack, Settle, vars, threadVars, updateVars
<1>3. ASSUME NEW t \in Threads, getFunction(t) PROVE IInv'
  BY <1>3, StepOutside DEF getFunction, updateVars
<1> QED
  BY <1>2, <1>3, CallKeepsIInv, UpdateKeepsIInv DEF Next

\* A Lua state is used by one call at a time.
THEOREM StateUsedByOneHolds == Spec => []StateUsedByOne
<1>1. IInv => StateUsedByOne
  BY DEF IInv, KeysHeld, StateUsedByOne
<1> QED
  BY InitIInv, NextIInv, <1>1, PTL DEF Spec

-----------------------------------------------------------------------------
(* The update.                                                              *)

LoadTypes ==
  /\ file \in Files /\ latest \in Nat /\ mLastModified \in 0..latest
  /\ file.time <= latest /\ (recent => file.time = latest)
  /\ DOMAIN mLuaState = Handles /\ loading \in Handles
  /\ upc \in {"idle", "lock", "lockStates", "wait", "load", "stamp", "functions"}
  /\ upc \in {"idle", "lock", "lockStates", "wait"} => loading = 0

\* What has been loaded is the file, unless it has been edited since the check; and the
\* time of the file is not recent then, so that the next edit comes with another time.
Loaded ==
  ~edited =>
    /\ upc \in {"idle", "functions"} /\ mLastModified = file.time =>
         ~recent /\ \A h \in Handles : mLuaState[h] = file
    /\ upc = "idle" /\ mLastModified = file.time => mFunctions = (file.content = "with")
    /\ upc \in {"lock", "lockStates", "wait", "load"} => mLastModified # file.time
    /\ upc \in {"lock", "lockStates", "wait", "load", "stamp"} => ~recent
    /\ upc = "load" => \A h \in Handles : h < loading => mLuaState[h] = file
    /\ upc = "stamp" => \A h \in Handles : mLuaState[h] = file

LoadInv == LoadTypes /\ Loaded

LEMMA InitLoadInv == Init => LoadInv
<1> SUFFICES ASSUME Init PROVE LoadInv
  OBVIOUS
<1>1. LoadTypes
  BY LuaAssumption DEF Init, LoadTypes, Files, Contents, Handles
<1>2. /\ file.content = "with" /\ mFunctions /\ upc = "idle" /\ ~recent
      /\ \A h \in Handles : mLuaState[h] = file
  BY DEF Init
<1>3. Loaded
  BY <1>2 DEF Loaded
<1> QED
  BY <1>1, <1>3 DEF LoadInv

LEMMA NextLoadInv == LoadInv /\ [Next]_vars => LoadInv'
<1> SUFFICES ASSUME LoadInv, [Next]_vars PROVE LoadInv'
  OBVIOUS
<1>0. 0 \in Handles
  BY LuaAssumption DEF Handles
<1> USE <1>0 DEF LoadInv, LoadTypes, Loaded, loadVars, updateVars
<1>1. CASE UNCHANGED vars \/ \E t \in Threads : getFunction(t) \/ Call(t)
  <2>1. UNCHANGED <<fileVars, loadVars, updateVars>>
    BY <1>1 DEF vars, getFunction, Call, executeFunctionCall, getLuaState, ScanStates,
       TakeState, releaseLuaState, Leave
  <2> QED
    BY <2>1 DEF fileVars
<1>2. CASE Edit
  <2>1. PICK t \in {latest + 1} \cup (IF recent THEN {file.time} ELSE {}),
             c \in Contents : file' = [time |-> t, content |-> c] /\ latest' = t
    BY <1>2 DEF Edit
  <2>2. t \in Nat /\ t >= latest /\ (~recent => t > latest)
    BY <2>1 DEF Files
  <2>3. LoadTypes'
    BY <1>2, <2>1, <2>2 DEF Edit, Files
  <2>4. ~edited' => upc \in {"idle", "functions"} /\ ~edited
    BY <1>2 DEF Edit
  <2>5. ~edited' => mLastModified # file'.time
    BY <2>1, <2>2, <2>4 DEF Files
  <2>6. UNCHANGED <<loadVars, updateVars>>
    BY <1>2 DEF Edit
  <2> QED
    BY <2>3, <2>4, <2>5, <2>6
<1>3. CASE Settle
  BY <1>3 DEF Settle
<1>9. CASE PutBack
  BY <1>9 DEF PutBack, Files
<1>4. CASE checkUpdates \/ LockFile \/ LockStates
  BY <1>4 DEF checkUpdates, LockFile, LockStates, fileVars
<1>5. CASE CloseStates
  BY <1>5 DEF CloseStates, fileVars, Handles
<1>6. CASE loadFile
  <2>1. /\ upc = "load" /\ mLuaState' = [mLuaState EXCEPT ![loading] = file]
        /\ UNCHANGED <<fileVars, mLastModified, mFunctions>>
    BY <1>6 DEF loadFile
  <2>2. CASE upc' = "idle" /\ loading' = 0
    BY <2>1, <2>2 DEF fileVars
  <2>3. CASE loading = NUM_OF_LUA_HANDLES - 1 /\ upc' = "stamp" /\ UNCHANGED loading
    BY <2>1, <2>3, LuaAssumption DEF fileVars, Handles
  <2>4. CASE loading # NUM_OF_LUA_HANDLES - 1 /\ loading' = loading + 1 /\ UNCHANGED upc
    BY <2>1, <2>4, LuaAssumption DEF fileVars, Handles
  <2> QED
    BY <1>6, <2>2, <2>3, <2>4 DEF loadFile, Unlock
<1>7. CASE StampFile
  BY <1>7 DEF StampFile, fileVars, Files
<1>8. CASE loadFunctionList
  <2>1. /\ upc = "functions" /\ upc' = "idle" /\ loading' = 0
        /\ mFunctions' = (mLuaState[0].content = "with")
        /\ UNCHANGED <<fileVars, mLastModified, mLuaState>>
    BY <1>8 DEF loadFunctionList, Unlock
  <2> QED
    BY <2>1 DEF fileVars
<1> QED
  BY <1>1, <1>2, <1>3, <1>4, <1>5, <1>6, <1>7, <1>8, <1>9 DEF Next, Update

\* After an update the states and the functions are those of the file, unless it has
\* been edited during the update or put back with the time of the last load.
THEOREM FileLoadedHolds == Spec => []FileLoaded
<1>1. LoadInv => FileLoaded
  BY DEF LoadInv, Loaded, FileLoaded
<1> QED
  BY <1>1, InitLoadInv, NextLoadInv, PTL DEF Spec

-----------------------------------------------------------------------------
(* The types.                                                               *)

\* The calls that have begun and have no key yet: each of them will use one.
Begun == {t \in Threads : pc[t] \in {"execute", "get", "scan", "take"}}

KeysLeft ==
  /\ calls \in 0..MaxCalls /\ mStateKeyCounter \in Nat
  /\ pc \in [Threads -> {"idle", "execute", "get", "scan", "take", "run", "leave"}]
  /\ IsFiniteSet(Begun)
  /\ mStateKeyCounter + Cardinality(Begun) <= calls

\* The threads that go on without a call that begins or takes its key.
LEMMA BegunStays ==
  ASSUME KeysLeft, NEW t \in Threads,
         NEW s \in {"idle", "execute", "get", "scan", "take", "run", "leave"},
         pc' = At(t, s), UNCHANGED <<calls, mStateKeyCounter>>,
         s \in {"execute", "get", "scan", "take"} => t \in Begun,
         t \in Begun => s \in {"execute", "get", "scan", "take"}
  PROVE  KeysLeft'
<1>1. pc' \in [Threads -> {"idle", "execute", "get", "scan", "take", "run", "leave"}]
  BY DEF KeysLeft, At
<1>2. Begun' = Begun
  BY DEF KeysLeft, Begun, At
<1> QED
  BY <1>1, <1>2 DEF KeysLeft

LEMMA NextKeysLeft == KeysLeft /\ [Next]_vars => KeysLeft'
<1> SUFFICES ASSUME KeysLeft, [Next]_vars PROVE KeysLeft'
  OBVIOUS
<1>0. Cardinality(Begun) \in Nat /\ MaxCalls \in Nat
  BY FS_CardinalityType, LuaAssumption DEF KeysLeft
<1>1. CASE Edit \/ PutBack \/ Settle \/ Update \/ UNCHANGED vars
  <2>1. UNCHANGED <<pc, calls, mStateKeyCounter>>
    BY <1>1 DEF Edit, PutBack, Settle, Update, checkUpdates, LockFile, LockStates, CloseStates, loadFile,
       StampFile, loadFunctionList, vars, threadVars, poolVars
  <2> QED
    BY <2>1 DEF KeysLeft, Begun
<1>2. ASSUME NEW t \in Threads, getFunction(t) PROVE KeysLeft'
  <2>1. /\ t \notin Begun /\ pc' = At(t, "execute")
        /\ calls' = calls + 1 /\ calls < MaxCalls /\ UNCHANGED mStateKeyCounter
    BY <1>2 DEF getFunction, Begun, poolVars
  <2>2. /\ pc' \in [Threads -> {"idle", "execute", "get", "scan", "take", "run", "leave"}]
        /\ Begun' = Begun \cup {t}
    BY <2>1 DEF KeysLeft, Begun, At
  <2>3. IsFiniteSet(Begun') /\ Cardinality(Begun') = Cardinality(Begun) + 1
    BY <2>1, <2>2, FS_AddElement DEF KeysLeft
  <2>4. calls' \in 0..MaxCalls /\ mStateKeyCounter' + Cardinality(Begun') <= calls'
    BY <1>0, <2>1, <2>3 DEF KeysLeft
  <2> QED
    BY <2>1, <2>2, <2>3, <2>4 DEF KeysLeft
<1>3. ASSUME NEW t \in Threads,
             \/ executeFunctionCall(t) \/ getLuaState(t) \/ ScanStates(t)
             \/ releaseLuaState(t) \/ Leave(t)
      PROVE  KeysLeft'
  <2>1. ASSUME UNCHANGED <<pc, calls, mStateKeyCounter>> PROVE KeysLeft'
    BY <2>1 DEF KeysLeft, Begun
  <2>2. UNCHANGED <<calls, mStateKeyCounter>>
    BY <1>3 DEF executeFunctionCall, getLuaState, ScanStates, releaseLuaState, Leave, poolVars
  <2>3. CASE ScanStates(t)
    BY <2>1, <2>2, <2>3, BegunStays DEF ScanStates, Begun
  <2>4. CASE executeFunctionCall(t) \/ getLuaState(t)
    BY <2>2, <2>4, BegunStays DEF executeFunctionCall, getLuaState, Begun
  <2>5. CASE releaseLuaState(t) \/ Leave(t)
    BY <2>2, <2>5, BegunStays DEF releaseLuaState, Leave, Begun
  <2> QED
    BY <1>3, <2>3, <2>4, <2>5
<1>4. ASSUME NEW t \in Threads, TakeState(t) PROVE KeysLeft'
  <2>1. /\ t \in Begun /\ pc' = At(t, "run")
        /\ mStateKeyCounter' = mStateKeyCounter + 1 /\ UNCHANGED calls
    BY <1>4 DEF TakeState, Begun
  <2>2. /\ pc' \in [Threads -> {"idle", "execute", "get", "scan", "take", "run", "leave"}]
        /\ Begun' = Begun \ {t}
    BY <2>1 DEF KeysLeft, Begun, At
  <2>3. IsFiniteSet(Begun') /\ Cardinality(Begun') = Cardinality(Begun) - 1
    BY <2>1, <2>2, FS_RemoveElement DEF KeysLeft
  <2>4. mStateKeyCounter' \in Nat /\ mStateKeyCounter' + Cardinality(Begun') <= calls'
    BY <1>0, <2>1, <2>3 DEF KeysLeft
  <2> QED
    BY <2>1, <2>2, <2>3, <2>4 DEF KeysLeft
<1> QED
  BY <1>1, <1>2, <1>3, <1>4 DEF Next, Call

\* What the proofs above leave of the types.
OtherTypes ==
  /\ file \in [time : 0..latest, content : Contents] /\ latest \in 0..MaxEdits
  /\ {recent, edited, mFunctions, writing} \subseteq BOOLEAN
  /\ mLastModified \in 0..MaxEdits
  /\ \A h \in Handles : mLuaState[h] = NoState \/ mLuaState[h] \in Files
  /\ readers \subseteq Threads
  /\ stateLock \in Threads \cup {Updater, Nobody}
  /\ key \in [Threads -> 0..mStateKeyCounter]

TypeInv == IInv /\ LoadInv /\ KeysLeft /\ OtherTypes

LEMMA NextOtherTypes == TypeInv /\ [Next]_vars => OtherTypes'
<1> SUFFICES ASSUME TypeInv, [Next]_vars PROVE OtherTypes'
  OBVIOUS
<1> USE DEF OtherTypes
<1>0. MaxEdits \in Nat /\ file \in Files /\ mStateKeyCounter \in Nat /\ loading \in Handles
      /\ DOMAIN mLuaState = Handles
  BY LuaAssumption DEF TypeInv, LoadInv, LoadTypes, KeysLeft
<1>1. CASE Edit
  <2>1. file' \in [time : 0..latest', content : Contents] /\ latest' \in 0..MaxEdits
    BY <1>0, <1>1 DEF Edit, TypeInv, Files
  <2>2. recent' \in BOOLEAN /\ edited' \in BOOLEAN
    BY <1>1 DEF Edit, TypeInv
  <2> QED
    BY <1>1, <2>1, <2>2 DEF Edit, TypeInv, loadVars, threadVars, poolVars
<1>2. CASE Settle \/ UNCHANGED vars
  BY <1>2 DEF Settle, vars, TypeInv, fileVars, loadVars, threadVars, poolVars
<1>3. CASE Update
  <2>1. CASE checkUpdates \/ LockFile \/ LockStates
    BY <2>1 DEF checkUpdates, LockFile, LockStates, TypeInv, fileVars, loadVars, threadVars, poolVars
  <2>2. CASE CloseStates
    BY <2>2 DEF CloseStates, TypeInv, fileVars, threadVars, poolVars
  <2>3. CASE loadFile
    <3>1. \A h \in Handles : mLuaState'[h] = NoState \/ mLuaState'[h] \in Files
      BY <1>0, <2>3 DEF loadFile, TypeInv
    <3>2. UNCHANGED <<writing, stateLock>> \/ (writing' = FALSE /\ stateLock' = Nobody)
      BY <2>3 DEF loadFile, Unlock
    <3> QED
      BY <2>3, <3>1, <3>2 DEF loadFile, TypeInv, fileVars, threadVars, poolVars
  <2>4. CASE StampFile
    <3>1. mLastModified' \in 0..MaxEdits
      BY <1>0, <2>4 DEF StampFile, TypeInv
    <3>2. UNCHANGED <<file, latest, recent, edited, mFunctions, mLuaState, readers, writing,
                      stateLock, key, mStateKeyCounter>>
      BY <2>4 DEF StampFile, fileVars, threadVars, poolVars
    <3>3. OtherTypes
      BY DEF TypeInv
    <3> QED
      BY <3>1, <3>2, <3>3
  <2>5. CASE loadFunctionList
    <3>1. mFunctions' \in BOOLEAN
      BY <2>5, Zenon DEF loadFunctionList
    <3>2. writing' = FALSE /\ stateLock' = Nobody
      BY <2>5 DEF loadFunctionList, Unlock
    <3>3. UNCHANGED <<file, latest, recent, edited, mLastModified, mLuaState, readers, key,
                      mStateKeyCounter>>
      BY <2>5 DEF loadFunctionList, fileVars, threadVars, poolVars
    <3>4. OtherTypes
      BY DEF TypeInv
    <3> QED
      BY <3>1, <3>2, <3>3, <3>4
  <2> QED
    BY <1>3, <2>1, <2>2, <2>3, <2>4, <2>5 DEF Update
<1>4. ASSUME NEW t \in Threads, getFunction(t) \/ Call(t) PROVE OtherTypes'
  <2>1. UNCHANGED <<fileVars, loadVars, writing>>
    BY <1>4 DEF getFunction, Call, executeFunctionCall, getLuaState, ScanStates, TakeState,
       releaseLuaState, Leave
  <2>2. readers' \subseteq Threads /\ stateLock' \in Threads \cup {Updater, Nobody}
    BY <1>4 DEF TypeInv, getFunction, Call, executeFunctionCall, getLuaState, ScanStates,
       TakeState, releaseLuaState, Leave
  <2>3. CASE TakeState(t)
    BY <1>0, <2>1, <2>2, <2>3 DEF TakeState, TypeInv, fileVars, loadVars
  <2>4. CASE releaseLuaState(t)
    <3>1. key' \in [Threads -> 0..mStateKeyCounter'] /\ UNCHANGED mStateKeyCounter
      BY <1>0, <2>4 DEF releaseLuaState, TypeInv
    <3>2. UNCHANGED <<file, latest, recent, edited, mLastModified, mFunctions, mLuaState, writing>>
      BY <2>1 DEF fileVars, loadVars
    <3>3. OtherTypes
      BY DEF TypeInv
    <3> QED
      BY <2>2, <3>1, <3>2, <3>3
  <2>5. CASE ~(TakeState(t) \/ releaseLuaState(t))
    <3>1. UNCHANGED <<key, mStateKeyCounter>>
      BY <1>4, <2>5 DEF getFunction, Call, executeFunctionCall, getLuaState, ScanStates, Leave,
         poolVars
    <3> QED
      BY <2>1, <2>2, <3>1 DEF TypeInv, fileVars, loadVars
  <2> QED
    BY <2>3, <2>4, <2>5
<1>5. CASE PutBack
  <2>1. mLastModified \in 0..latest
    BY DEF TypeInv, LoadInv, LoadTypes
  <2>2. file' \in [time : 0..latest, content : Contents]
    BY <1>5, <2>1 DEF PutBack
  <2>3. recent' \in BOOLEAN /\ edited' \in BOOLEAN
    BY <1>5 DEF PutBack
  <2> QED
    BY <1>5, <2>2, <2>3 DEF PutBack, TypeInv, loadVars, threadVars, poolVars
<1> QED
  BY <1>1, <1>2, <1>3, <1>4, <1>5 DEF Next

\* The variables have their types, and no more keys are given out than calls have
\* begun: every call that has no key yet has one left.
THEOREM LuaTypeOKHolds == Spec => []TypeOK
<1>1. ASSUME Init PROVE TypeInv
  <2>1. KeysLeft
    <3>1. Begun = {}
      BY <1>1 DEF Init, Begun
    <3>2. IsFiniteSet({}) /\ Cardinality({}) = 0
      BY FS_EmptySet
    <3> QED
      BY <1>1, <3>1, <3>2, LuaAssumption DEF Init, KeysLeft
  <2>2. OtherTypes
    <3>1. /\ file = [time |-> 0, content |-> "with"] /\ "with" \in Contents
          /\ mLastModified = 0 /\ 0 \in 0..MaxEdits
          /\ \A h \in Handles : mLuaState[h] = file
      BY <1>1, LuaAssumption DEF Init, Contents
    <3>2. file \in [time : 0..latest, content : Contents] /\ file \in Files /\ latest = 0
      BY <1>1, <3>1 DEF Init, Files
    <3>3. /\ recent = FALSE /\ edited = FALSE /\ mFunctions = TRUE /\ writing = FALSE
          /\ readers = {} /\ stateLock = Nobody
      BY <1>1 DEF Init
    <3>4. {recent, edited, mFunctions, writing} \subseteq BOOLEAN
      BY <3>3
    <3>5. key \in [Threads -> 0..mStateKeyCounter]
      BY <1>1 DEF Init
    <3> QED
      BY <3>1, <3>2, <3>3, <3>4, <3>5 DEF OtherTypes
  <2> QED
    BY <1>1, <2>1, <2>2, InitIInv, InitLoadInv DEF TypeInv
<1>2. TypeInv /\ [Next]_vars => TypeInv'
  BY NextIInv, NextLoadInv, NextKeysLeft, NextOtherTypes DEF TypeInv
<1>3. TypeInv => TypeOK
  <2> SUFFICES ASSUME TypeInv PROVE TypeOK
    OBVIOUS
  <2>1. mStateKeyCounter \in 0..calls
    <3>1. Cardinality(Begun) \in Nat
      BY FS_CardinalityType DEF TypeInv, KeysLeft
    <3> QED
      BY <3>1 DEF TypeInv, KeysLeft
  <2>2. mStateKey \in [Handles -> 0..mStateKeyCounter]
    BY DEF TypeInv, IInv, PoolTypes, KeysCounted
  <2> QED
    BY <2>1, <2>2 DEF TypeInv, IInv, PoolTypes, LoadInv, LoadTypes, KeysLeft, OtherTypes, TypeOK
<1> QED
  BY <1>1, <1>2, <1>3, PTL DEF Spec
=============================================================================
