---------------------------- MODULE MCStageCasts ----------------------------
(***************************************************************************)
(* ExecutionStage with a part of its processes: either many requests of    *)
(* users meet one worker, or workers meet each other, a crash and another  *)
(* process that recovers leases.                                           *)
(***************************************************************************)
EXTENDS MCExecutionStage

(* The processes that take part, how many crashes there may be, and how    *)
(* many runs of a stage: with the last cast, as many as the code allows.   *)
VARIABLE cast

Cast(workers, clients, reapers, deaths, number) ==
    [workers |-> workers, clients |-> clients, reapers |-> reapers,
     deaths |-> deaths, number |-> number]

Casts ==
    {Cast({w}, Clients, {}, 0, 1) : w \in Workers}
        \cup {Cast(Workers, {}, Reapers, MaxCrashes, 1)}
        \cup {Cast({w}, {}, Reapers, 0, MaxStageRuns + 1) : w \in Workers}

CastInit == Init /\ cast \in Casts

(* What is done is done by the cast.                                       *)
ByTheCast ==
    /\ \A w \in Workers \ cast.workers : worker'[w] = worker[w]
    /\ \A c \in Clients \ cast.clients : client'[c] = client[c]
    /\ \A r \in Reapers \ cast.reapers : reaper'[r] = reaper[r]
    /\ crashes' <= cast.deaths
    /\ \A k \in DOMAIN runs' : runs'[k].number <= cast.number

CastNext ==
    \/ /\ Next
       /\ ByTheCast
       /\ UNCHANGED <<cast>>

CastSpec == CastInit /\ [][CastNext]_<<vars, cast>>

(* For liveness: a crash, a request and another process while each stage   *)
(* has one run, or a crash and as many runs as the budget allows.          *)
LiveCasts ==
    {Cast({w}, Clients, Reapers, MaxCrashes, 1) : w \in Workers}
        \cup {Cast(Workers, {}, {}, MaxCrashes, MaxStageRuns)}

LiveInit == Init /\ cast \in LiveCasts

(* The fairness of ExecutionStage, for the processes that take part.       *)
LiveSpec ==
    /\ LiveInit
    /\ [][CastNext]_<<vars, cast>>
    /\ \A w \in Workers :
          /\ WF_vars(Protocol(w) /\ ByTheCast /\ UNCHANGED <<cast>>)
          /\ WF_vars(Restart(w) /\ UNCHANGED <<cast>>)
    /\ WF_vars(Tick /\ UNCHANGED <<cast>>)
=============================================================================
