---------------------------- MODULE AttemptFence ----------------------------
(***************************************************************************)
(* What the job queue promises however its processes interleave: attempts  *)
(* are numbered fences.  A new attempt is granted only when none is open,  *)
(* an open attempt may be revoked at any time, and a result is accepted    *)
(* only for the attempt that is open, which it closes.  So no attempt's    *)
(* result is accepted twice, nor after a later attempt was granted.        *)
(***************************************************************************)
EXTENDS Integers

CONSTANTS Jobs, Workers, NoWorker, MaxAttempts

VARIABLES
    granted,   \* the number of attempts granted so far
    holder,    \* the worker of the open attempt, if there is one
    accepted   \* the attempts whose result was accepted

fvars == <<granted, holder, accepted>>

Init ==
    /\ granted = [j \in Jobs |-> 0]
    /\ holder = [j \in Jobs |-> NoWorker]
    /\ accepted = [j \in Jobs |-> {}]

Grant(j, w) ==
    /\ holder[j] = NoWorker
    /\ granted[j] < MaxAttempts
    /\ granted' = [granted EXCEPT ![j] = @ + 1]
    /\ holder' = [holder EXCEPT ![j] = w]
    /\ UNCHANGED accepted

Accept(j) ==
    /\ holder[j] # NoWorker
    /\ granted[j] \notin accepted[j]
    /\ accepted' = [accepted EXCEPT ![j] = @ \cup {granted[j]}]
    /\ holder' = [holder EXCEPT ![j] = NoWorker]
    /\ UNCHANGED granted

(* One commit may revoke several attempts.                                 *)
Revoke(S) ==
    /\ \A j \in S : holder[j] # NoWorker
    /\ holder' = [j \in Jobs |-> IF j \in S THEN NoWorker ELSE holder[j]]
    /\ UNCHANGED <<granted, accepted>>

Next ==
    \/ \E j \in Jobs : Accept(j) \/ \E w \in Workers : Grant(j, w)
    \/ \E S \in SUBSET Jobs : Revoke(S)

Spec == Init /\ [][Next]_fvars
=============================================================================
