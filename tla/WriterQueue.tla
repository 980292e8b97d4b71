---------------------------- MODULE WriterQueue ----------------------------
(***************************************************************************)
(* What the lock of the content storage promises to the storage operations *)
(* (the guard object RedisProcessLock): a writer that asks for the lock is *)
(* let in after the writers that have asked before it, when no other is in, *)
(* and every writer that asks is let in in the end.  Nothing here says how: *)
(* no tickets, counters, connections or threads of a process.              *)
(***************************************************************************)
CONSTANT Writers

VARIABLES
  waiting,  \* the writers that have asked and are not in yet
  before,   \* who of them has asked before whom
  holding   \* the writers that execute a storage operation

vars == <<waiting, before, holding>>

Init == waiting = {} /\ before = {} /\ holding = {}

Enter(t) ==
  /\ t \notin waiting \cup holding
  /\ waiting' = waiting \cup {t}
  /\ before' = before \cup (waiting \X {t})
  /\ UNCHANGED holding

Grant(t) ==
  /\ t \in waiting /\ holding = {}
  /\ \A u \in waiting : <<u, t>> \notin before
  /\ waiting' = waiting \ {t}
  /\ before' = before \cap (waiting' \X waiting')
  /\ holding' = {t}

Release(t) ==
  /\ t \in holding
  /\ holding' = holding \ {t}
  /\ UNCHANGED <<waiting, before>>

Next == \E t \in Writers : Enter(t) \/ Grant(t) \/ Release(t)

Spec == Init /\ [][Next]_vars

\* Nobody has to ask; whoever is first is let in, and whoever is in leaves.
FairSpec ==
  /\ Spec
  /\ WF_vars(\E t \in Writers : Grant(t))
  /\ WF_vars(\E t \in Writers : Release(t))
=============================================================================
