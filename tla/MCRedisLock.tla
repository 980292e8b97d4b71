---------------------------- MODULE MCRedisLock ----------------------------
(* Instances of RedisLock for TLC: which thread uses which object.         *)
EXTENDS RedisLock, TLC

CONSTANTS o1, o2, o3, o4, t1, t2, t3, t4, t5

\* Three processes with one thread each.
ThreeProcesses == t1 :> o1 @@ t2 :> o2 @@ t3 :> o3

\* Two processes with one thread each.
TwoProcesses == t1 :> o1 @@ t2 :> o2

\* Three processes with one thread each, and two threads of a fourth process.
BothModes == ThreeProcesses @@ t4 :> o4 @@ t5 :> o4

\* The storage operation takes longer than the wait time.
SlowOperations == {"cs"}
=============================================================================
