----------------------------- MODULE MCRequests -----------------------------
(***************************************************************************)
(* Instances for TLC of the job queue and of what hands it work: the scans *)
(* that discover issues, the selection of models with the planning and the *)
(* execution of a task, and the coding session.  They share no variable: a *)
(* behaviour of this module is a behaviour of one of them, named by        *)
(* `part'; the others rest.                                                *)
(***************************************************************************)
EXTENDS MCJobLease, Discovery, ModelSelection, CodingChat

CONSTANTS m1, env

(* Pages offer the environment for every stage or the profile for all.     *)
MCOffers == {[plan |-> m, code |-> m] : m \in {m1, env}}

VARIABLE part

requestsVars == <<part, vars, discoveryVars, selectionVars, chatVars>>

RequestsInit ==
    /\ part \in {"queue", "discovery", "models", "chat"}
    /\ Init /\ DiscoveryInit /\ SelectionInit /\ ChatInit
    /\ part # "models" => mode = "planning"

(* The others stop when their bounds are used up; the queue never does.    *)
RequestsNext ==
    \/ /\ part = "queue" /\ Next
       /\ UNCHANGED <<part, discoveryVars, selectionVars, chatVars>>
    \/ /\ part = "discovery" /\ DiscoveryNext
       /\ UNCHANGED <<part, vars, selectionVars, chatVars>>
    \/ /\ part = "models" /\ SelectionNext
       /\ UNCHANGED <<part, vars, discoveryVars, chatVars>>
    \/ /\ part = "chat" /\ ChatNext
       /\ UNCHANGED <<part, vars, discoveryVars, selectionVars>>
    \/ part # "queue" /\ UNCHANGED requestsVars

RequestsSpec == RequestsInit /\ [][RequestsNext]_requestsVars

(* Processes of a kind are interchangeable.  Only one part moves: those of *)
(* all parts are exchanged at once.                                        *)
Moved(p) == \E x \in DOMAIN p : p[x] # x
With(P, S) ==
    {pq[1] @@ pq[2] : pq \in {x \in P \X Permutations(S) : Moved(x[1]) <=> Moved(x[2])}}
RequestSymmetry ==
    {p @@ q : p \in With(Permutations(Workers), ChatWorkers),
              q \in With(With(With(Permutations(Clients), Deciders), Handlers), Chatters)}
=============================================================================
