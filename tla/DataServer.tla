----------------------------- MODULE DataServer -----------------------------
(***************************************************************************)
(* The grid files of a data server (dataServer/implementation).  A file    *)
(* comes into GridFileManager with an event of the content server, with a   *)
(* full update, or when a request asks for it; it leaves it with an event,  *)
(* some time after it was deleted, or when it has not been used for a while.*)
(* Four threads meet: the event thread, the cache thread that copies files  *)
(* into the local directory, the requests, and the content server.          *)
(*                                                                         *)
(* Time goes by in steps of a minute.  A deletion time is the number of     *)
(* minutes that are left until then, an access time the minutes since then. *)
(***************************************************************************)
EXTENDS Integers, FiniteSets, Functions

CONSTANTS
  Files,          \* ids of files
  Messages,       \* message indexes of their content
  Never,          \* no deletion time
  Lifetimes,      \* the deletion times that files are registered with
  DeleteAfter,    \* a file is given so long when it has been deleted (300 s)
  RefuseBefore,   \* and is not accessed in the last part of it (180 s)
  FaultyAfter,    \* a file with errors is given so long (60 s)
  DropAfter,      \* the grid file is dropped so long after its deletion time (60 s)
  CleanupAge,     \* mFileCleanup_age
  IsCache,        \* whether the content server is a cache
  MaxChanges,     \* bound on the changes of the content server
  MaxFailures     \* bound on its restarts and the errors of grid files together

ASSUME DataAssumption ==
  /\ Files # {} /\ Never \notin Int
  /\ Lifetimes \subseteq (Nat \ {0}) \cup {Never}
  /\ {DeleteAfter, RefuseBefore, FaultyAfter, DropAfter, CleanupAge} \subseteq Nat \ {0}
  /\ FaultyAfter < RefuseBefore /\ RefuseBefore < DeleteAfter
  /\ IsCache \in BOOLEAN /\ {MaxChanges, MaxFailures} \subseteq Nat

VARIABLES
  registry,              \* the files of the content server with their messages
  events,                \* its event list
  nextEventId,
  mServerTime,           \* its start time, which comes with every answer
  used,                  \* what has been used of the bounds and of the ids
  gridFiles,             \* mFileList
  mLastProcessedEventId,
  mFullUpdateRequired,
  mContentServerStartTime,
  fullContentList,       \* what a full update has read
  restartTime,           \* the start time that has led to it, or 0
  epc,                   \* where the event thread is
  directory,             \* the local copies
  snapshot, cpc,         \* what the cache thread has collected, and where it is
  request                \* a request that asks for a file

serverVars == <<registry, events, nextEventId, mServerTime, used>>
startVars == <<mContentServerStartTime, restartTime>>
eventVars == <<mLastProcessedEventId, mFullUpdateRequired, fullContentList, startVars, epc>>
copyVars == <<directory, snapshot, cpc>>
vars == <<serverVars, gridFiles, eventVars, copyVars, request>>

-----------------------------------------------------------------------------
(* The content server.                                                      *)

Without(f, S) == Restrict(f, DOMAIN f \ S)
Put(f, k, v) == [x \in DOMAIN f \cup {k} |-> IF x = k THEN v ELSE f[x]]

Announce(type, f) ==
  /\ events' = Put(events, nextEventId,
                   [type |-> type, file |-> f,
                    data |-> {registry'[x] : x \in {f} \cap DOMAIN registry'}])
  /\ nextEventId' = nextEventId + 1

Change ==
  /\ used.changes < MaxChanges
  /\ used' = [used EXCEPT !.changes = @ + 1, !.ids = @ \cup DOMAIN registry']
  /\ UNCHANGED <<mServerTime, gridFiles, eventVars, copyVars, request>>

\* A file is registered with content, and perhaps with LocalCacheRecommended.
RegisterFile(f) ==
  /\ f \notin used.ids
  /\ \E left \in Lifetimes, M \in SUBSET Messages, local \in BOOLEAN :
       registry' = Put(registry, f, [messages |-> M, left |-> left, local |-> local])
  /\ Announce("FILE_ADDED", f)
  /\ Change

\* The content of a known file is replaced.
UpdateFile(f) ==
  /\ f \in DOMAIN registry
  /\ \E M \in SUBSET Messages \ {registry[f].messages} :
       registry' = [registry EXCEPT ![f].messages = M]
  /\ Announce("FILE_UPDATED", f)
  /\ Change

AddContent(f) ==
  /\ f \in DOMAIN registry
  /\ \E m \in Messages \ registry[f].messages :
       registry' = [registry EXCEPT ![f].messages = @ \cup {m}]
  /\ Announce("CONTENT_ADDED", f)
  /\ Change

DeleteFile(f) ==
  /\ f \in DOMAIN registry
  /\ registry' = Without(registry, {f})
  /\ \E type \in {"FILE_DELETED", "FILE_LIST_DELETED_BY_GENERATION_ID"} : Announce(type, f)
  /\ Change

\* The event list starts again with the event of the clear.
ClearServer ==
  /\ registry' = <<>>
  /\ events' = Put(<<>>, nextEventId, [type |-> "CLEAR", file |-> 0, data |-> {}])
  /\ nextEventId' = nextEventId + 1
  /\ Change

\* The event list of a content server does not survive its restart.
RestartServer ==
  /\ used.failures < MaxFailures
  /\ used' = [used EXCEPT !.failures = @ + 1]
  /\ events' = <<>>
  /\ mServerTime' = mServerTime + 1
  /\ UNCHANGED <<registry, nextEventId, gridFiles, eventVars, copyVars, request>>

ContentServer ==
  \/ \E f \in Files : RegisterFile(f) \/ UpdateFile(f) \/ AddContent(f) \/ DeleteFile(f)
  \/ ClearServer \/ RestartServer

-----------------------------------------------------------------------------
(* GridFileManager.                                                         *)

\* The messages of a grid file can only become more; nothing is done to a file that
\* is known and has as many.  A file that is not on the disk does not come in.
addFile(G, f, info, contents, readable) ==
  IF f \notin DOMAIN G
    THEN IF ~readable THEN G
         ELSE Put(G, f, [messages |-> contents, left |-> info.left, age |-> 0,
                         local |-> info.local, ready |-> FALSE, broken |-> FALSE])
    ELSE [G EXCEPT
            ![f].messages = IF Cardinality(@) < Cardinality(contents)
                              THEN @ \cup contents ELSE @,
            ![f].age = IF readable THEN 0 ELSE @]

deleteFilesByAccessTime(G) ==
  Without(G, {f \in DOMAIN G : G[f].age > CleanupAge /\ ~G[f].local /\ ~G[f].ready})

deleteFilesByDeletionTime(G) ==
  Without(G, {f \in DOMAIN G : G[f].left # Never /\ G[f].left < 0 - DropAfter})

Sooner(left) == IF left = Never \/ left < 0 - DropAfter THEN left ELSE left - 1

\* A minute goes by.
Tick ==
  /\ registry' = [f \in DOMAIN registry |-> [registry[f] EXCEPT !.left = Sooner(@)]]
  /\ gridFiles' = [f \in DOMAIN gridFiles |->
                     [gridFiles[f] EXCEPT
                        !.left = Sooner(@), !.age = IF @ > CleanupAge THEN @ ELSE @ + 1]]
  /\ UNCHANGED <<events, nextEventId, mServerTime, used, eventVars, copyVars, request>>

\* The memory mapper cannot read the file any more.
Fault(f) ==
  /\ f \in DOMAIN gridFiles /\ ~gridFiles[f].broken
  /\ used.failures < MaxFailures
  /\ used' = [used EXCEPT !.failures = @ + 1]
  /\ gridFiles' = [gridFiles EXCEPT ![f].broken = TRUE]
  /\ UNCHANGED <<registry, events, nextEventId, mServerTime, eventVars, copyVars, request>>

-----------------------------------------------------------------------------
(* Requests: getGridFile().                                                 *)

NoRequest == [pc |-> "idle"]

Accessible(left) == IF left = Never THEN TRUE ELSE RefuseBefore <= left

\* Mutant: takes the access time of every file.
usableGridFileTouched(file) ==
  IF file.broken
    THEN [file EXCEPT !.left = IF @ # Never /\ FaultyAfter < @ THEN FaultyAfter ELSE @]
  ELSE IF file.left # Never /\ ~Accessible(file.left) THEN file
  ELSE [file EXCEPT !.age = 0]

\* usableGridFile(): the access time is taken only of files that have a deletion
\* time.
usableGridFile(file) ==
  IF file.broken
    THEN [file EXCEPT !.left = IF @ # Never /\ FaultyAfter < @ THEN FaultyAfter ELSE @]
  ELSE IF file.left # Never /\ Accessible(file.left) THEN [file EXCEPT !.age = 0]
  ELSE file

AskKnown(f) ==
  /\ request = NoRequest /\ f \in DOMAIN gridFiles
  /\ gridFiles' = [gridFiles EXCEPT ![f] = usableGridFile(@)]
  /\ UNCHANGED <<serverVars, eventVars, copyVars, request>>

AskUnknown(f) ==
  /\ request = NoRequest /\ f \notin DOMAIN gridFiles
  /\ f \in DOMAIN registry
  /\ Accessible(registry[f].left)
  /\ request' = [pc |-> "content", file |-> f, info |-> registry[f]]
  /\ UNCHANGED <<serverVars, gridFiles, eventVars, copyVars>>

ReadContent ==
  /\ request.pc = "content"
  /\ request' =
       IF request.file \in DOMAIN registry /\ registry[request.file].messages # {}
         THEN [pc |-> "add", file |-> request.file, info |-> request.info,
               contents |-> registry[request.file].messages]
         ELSE NoRequest
  /\ UNCHANGED <<serverVars, gridFiles, eventVars, copyVars>>

\* The deletion time is the one that was read, whatever has happened since then.
AddRequested ==
  /\ request.pc = "add"
  /\ \E readable \in BOOLEAN :
       gridFiles' = addFile(gridFiles, request.file, request.info, request.contents, readable)
  /\ request' = NoRequest
  /\ UNCHANGED <<serverVars, eventVars, copyVars>>

Request ==
  \/ \E f \in Files : AskKnown(f) \/ AskUnknown(f)
  \/ ReadContent \/ AddRequested

-----------------------------------------------------------------------------
(* The event thread.                                                        *)

\* Both cleanups run when it is time for them.
cleanupFiles ==
  /\ epc = "idle"
  /\ gridFiles' = deleteFilesByDeletionTime(deleteFilesByAccessTime(gridFiles))
  /\ epc' = "events"
  /\ UNCHANGED <<serverVars, mLastProcessedEventId, mFullUpdateRequired, fullContentList,
                 startVars, copyVars, request>>

LastEvent == nextEventId - 1

\* What is done about the events: a restart of the content server is seen only while
\* it has no event yet.
processEvents ==
  /\ epc = "events"
  /\ LET restarted == mContentServerStartTime \in 1..(mServerTime - 1)
     IN \/ /\ mFullUpdateRequired
           /\ epc' = "readContent"
           /\ UNCHANGED startVars
        \/ /\ ~mFullUpdateRequired /\ events = <<>>
           /\ epc' = IF restarted THEN "readContent" ELSE "idle"
           /\ restartTime' = IF restarted THEN mServerTime ELSE 0
           /\ mContentServerStartTime' = IF restarted THEN mContentServerStartTime
                                                      ELSE mServerTime
        \/ /\ ~mFullUpdateRequired /\ events # <<>>
           /\ epc' = IF LastEvent = mLastProcessedEventId THEN "idle" ELSE "process"
           /\ UNCHANGED startVars
  /\ UNCHANGED <<serverVars, gridFiles, mLastProcessedEventId, mFullUpdateRequired,
                 fullContentList, copyVars, request>>

NewEvents == {i \in DOMAIN events : i > mLastProcessedEventId}

\* What is known of a file: the data came with the event, or the content server is
\* asked.
EventData(e) == {e.data, {registry[f] : f \in {e.file} \cap DOMAIN registry}}

event_fileAdded(e) ==
  \E data \in EventData(e), readable \in BOOLEAN :
    \/ /\ \A info \in data : info.messages = {}
       /\ UNCHANGED gridFiles
    \/ \E info \in data :
         /\ info.messages # {}
         /\ gridFiles' = addFile(gridFiles, e.file, info, info.messages, readable)

event_fileDeleted(e) ==
  gridFiles' = [f \in DOMAIN gridFiles |->
                  IF f = e.file THEN [gridFiles[f] EXCEPT !.left = DeleteAfter]
                  ELSE gridFiles[f]]

\* The update of a file is not acted upon.
event_fileUpdated(e) == UNCHANGED gridFiles

event_fileListDeletedByGenerationId(e) == gridFiles' = Without(gridFiles, {e.file})

event_contentAdded(e) ==
  gridFiles' = [f \in DOMAIN gridFiles |->
                  IF f = e.file
                    THEN [gridFiles[f] EXCEPT
                            !.messages = @ \cup UNION {d.messages : d \in e.data}]
                    ELSE gridFiles[f]]

event_clear(e) == gridFiles' = <<>>

Handled(e) ==
  \/ e.type = "FILE_ADDED"    /\ event_fileAdded(e)
  \/ e.type = "FILE_DELETED"  /\ event_fileDeleted(e)
  \/ e.type = "FILE_UPDATED"  /\ event_fileUpdated(e)
  \/ e.type = "CONTENT_ADDED" /\ event_contentAdded(e)
  \/ e.type = "CLEAR"         /\ event_clear(e)
  \/ e.type = "FILE_LIST_DELETED_BY_GENERATION_ID" /\ event_fileListDeletedByGenerationId(e)

\* The next of the new events.
processEvent ==
  /\ epc = "process"
  /\ IF NewEvents = {}
       THEN epc' = "idle" /\ UNCHANGED <<gridFiles, mLastProcessedEventId>>
       ELSE LET i == CHOOSE x \in NewEvents : \A y \in NewEvents : x <= y
            IN /\ Handled(events[i])
               /\ mLastProcessedEventId' = i
               /\ UNCHANGED epc
  /\ UNCHANGED <<serverVars, mFullUpdateRequired, fullContentList, startVars, copyVars,
                 request>>

\* fullUpdate() reads all content, and then the last event,
readContentList ==
  /\ epc = "readContent"
  /\ fullContentList' = [f \in DOMAIN registry |-> registry[f].messages]
  /\ epc' = "readLastEvent"
  /\ UNCHANGED <<serverVars, gridFiles, mLastProcessedEventId, mFullUpdateRequired,
                 startVars, copyVars, request>>

\* Mutant: takes the id after the last event.
readLastEventNext ==
  /\ epc = "readLastEvent"
  /\ IF events = <<>> THEN UNCHANGED <<mLastProcessedEventId, mContentServerStartTime>>
     ELSE mLastProcessedEventId' = nextEventId /\ mContentServerStartTime' = mServerTime
  /\ gridFiles' = <<>>
  /\ epc' = "readFiles"
  /\ UNCHANGED <<serverVars, mFullUpdateRequired, fullContentList, restartTime, copyVars,
                 request>>

\* forgets all files,
readLastEvent ==
  /\ epc = "readLastEvent"
  /\ IF events = <<>> THEN UNCHANGED <<mLastProcessedEventId, mContentServerStartTime>>
     ELSE mLastProcessedEventId' = LastEvent /\ mContentServerStartTime' = mServerTime
  /\ gridFiles' = <<>>
  /\ epc' = "readFiles"
  /\ UNCHANGED <<serverVars, mFullUpdateRequired, fullContentList, restartTime, copyVars,
                 request>>

\* and adds the files of the content server with the content that was read, unless a
\* cache had none at all.
FullContent(f) ==
  IF IsCache /\ \A x \in DOMAIN fullContentList : fullContentList[x] = {}
    THEN registry[f].messages
  ELSE UNION {fullContentList[x] : x \in {f} \cap DOMAIN fullContentList}

readFileList ==
  /\ epc = "readFiles"
  /\ \E unreadable \in SUBSET DOMAIN registry :
       gridFiles' =
         [f \in DOMAIN gridFiles \cup {x \in DOMAIN registry \ unreadable : FullContent(x) # {}} |->
            IF f \in DOMAIN registry /\ FullContent(f) # {}
              THEN addFile(gridFiles, f, registry[f], FullContent(f), f \notin unreadable)[f]
              ELSE gridFiles[f]]
  /\ mFullUpdateRequired' = FALSE
  /\ mContentServerStartTime' = IF restartTime > 0 THEN restartTime
                                                   ELSE mContentServerStartTime
  /\ restartTime' = 0
  /\ fullContentList' = <<>>
  /\ epc' = "idle"
  /\ UNCHANGED <<serverVars, mLastProcessedEventId, copyVars, request>>

EventThread ==
  \/ cleanupFiles \/ processEvents \/ processEvent
  \/ readContentList \/ readLastEvent \/ readFileList

-----------------------------------------------------------------------------
(* The cache thread.                                                        *)

\* Files of generations that are ready (any of them here) and stay for a while.
getFilesToBeCached ==
  /\ cpc = "idle"
  /\ \E S \in SUBSET {f \in DOMAIN gridFiles :
                        /\ gridFiles[f].local /\ ~gridFiles[f].ready
                        /\ IF gridFiles[f].left = Never THEN TRUE
                           ELSE gridFiles[f].left > RefuseBefore} :
       snapshot' = S
  /\ cpc' = "copy"
  /\ UNCHANGED <<serverVars, gridFiles, eventVars, directory, request>>

\* The copy is used if the file is still known.
copyToLocalCache(f) ==
  /\ cpc = "copy" /\ f \in snapshot
  /\ snapshot' = snapshot \ {f}
  /\ directory' = directory \cup {f}
  /\ gridFiles' = [g \in DOMAIN gridFiles |->
                     IF g = f THEN [gridFiles[g] EXCEPT !.ready = TRUE] ELSE gridFiles[g]]
  /\ UNCHANGED <<serverVars, eventVars, cpc, request>>

\* Mutant: passes over the files that are going to be deleted.
getFilesInCacheStaying ==
  /\ cpc = "copy" /\ snapshot = {}
  /\ snapshot' = {f \in DOMAIN gridFiles : /\ gridFiles[f].local /\ gridFiles[f].ready
                                           /\ Accessible(gridFiles[f].left)}
  /\ cpc' = "remove"
  /\ UNCHANGED <<serverVars, gridFiles, eventVars, directory, request>>

getFilesInCache ==
  /\ cpc = "copy" /\ snapshot = {}
  /\ snapshot' = {f \in DOMAIN gridFiles : gridFiles[f].local /\ gridFiles[f].ready}
  /\ cpc' = "remove"
  /\ UNCHANGED <<serverVars, gridFiles, eventVars, directory, request>>

removeOldCacheFiles ==
  /\ cpc = "remove"
  /\ directory' = directory \cap snapshot
  /\ snapshot' = {}
  /\ cpc' = "idle"
  /\ UNCHANGED <<serverVars, gridFiles, eventVars, request>>

CacheThread ==
  getFilesToBeCached \/ (\E f \in Files : copyToLocalCache(f)) \/ getFilesInCache
    \/ removeOldCacheFiles

-----------------------------------------------------------------------------
\* The data server starts beside an empty content server.
Init ==
  /\ registry = <<>> /\ events = <<>> /\ nextEventId = 1
  /\ mServerTime = 1
  /\ used = [changes |-> 0, failures |-> 0, ids |-> {}]
  /\ gridFiles = <<>>
  /\ mLastProcessedEventId = 0 /\ mFullUpdateRequired = TRUE
  /\ mContentServerStartTime = 0 /\ restartTime = 0
  /\ fullContentList = <<>> /\ epc = "idle"
  /\ directory = {} /\ snapshot = {} /\ cpc = "idle"
  /\ request = NoRequest

Next ==
  \/ ContentServer \/ Tick \/ (\E f \in Files : Fault(f))
  \/ Request \/ EventThread \/ CacheThread

Spec == Init /\ [][Next]_vars

\* Time goes by, the threads go on, and a request that has begun comes to its end.
FairSpec ==
  /\ Spec
  /\ WF_vars(Tick) /\ WF_vars(EventThread) /\ WF_vars(CacheThread)
  /\ WF_vars(ReadContent) /\ WF_vars(AddRequested)

-----------------------------------------------------------------------------
GridFiles ==
  [messages : SUBSET Messages, left : Int \cup {Never}, age : 0..CleanupAge + 1,
   local : BOOLEAN, ready : BOOLEAN, broken : BOOLEAN]

\* Types of the variables: the event thread never runs ahead of the events.
TypeOK ==
  /\ DOMAIN registry \subseteq Files /\ DOMAIN gridFiles \subseteq Files
  /\ \A f \in DOMAIN gridFiles : gridFiles[f] \in GridFiles
  /\ mLastProcessedEventId \in 0..LastEvent
  /\ mContentServerStartTime \in 0..mServerTime /\ restartTime \in 0..mServerTime
  /\ directory \subseteq used.ids /\ snapshot \subseteq used.ids
  /\ epc \in {"idle", "events", "process", "readContent", "readLastEvent", "readFiles"}
  /\ cpc \in {"idle", "copy", "remove"}
  /\ request.pc \in {"idle", "content", "add"}

\* A grid file without a local copy that the requests would be answered from, but
\* not with what the content server has.
Outdated(f) ==
  /\ f \in DOMAIN gridFiles /\ ~gridFiles[f].local
  /\ \/ f \notin DOMAIN registry
     \/ gridFiles[f].messages # registry[f].messages
     \/ gridFiles[f].broken

\* The grid file of a file that has been deleted or changed, or that cannot be read,
\* goes, whatever became of the events of the change and however often it is asked for.
OutdatedFilesGo == \A f \in Files : Outdated(f) ~> ~Outdated(f)

\* A local copy that is in use is not removed.
CopiesKept == \A f \in DOMAIN gridFiles : gridFiles[f].ready => f \in directory
=============================================================================
