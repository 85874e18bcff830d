----------------------------- MODULE MCServices -----------------------------
(***************************************************************************)
(* Instances for TLC of the components that write outside the database:    *)
(* the publication of a draft pull request and the later remote writes,    *)
(* the publishing account and its credentials, the model calls of an       *)
(* analysis and the disposal of workspaces.  They share no variable: a     *)
(* behaviour of this module is a behaviour of one of them, chosen in the   *)
(* initial state and named by `component'; the others rest.                *)
(***************************************************************************)
EXTENDS Publication, RemoteWrites, PublisherAccount, WorkspaceDisposal,
        ProviderAnalysis, TLC

CONSTANTS d1, d2, d3, w1, w2

(* Two calls of destroy share a worker ID.                                 *)
MCWorkerOf == d1 :> w1 @@ d2 :> w1 @@ d3 :> w2

VARIABLE component

servicesVars == <<component, publicationVars, remoteVars, accountVars, disposalVars,
                  analysisVars>>

ServicesInit ==
    /\ component \in {"publication", "remote", "account", "disposal", "analysis"}
    /\ PublicationInit /\ RemoteInit /\ AccountInit /\ DisposalInit /\ AnalysisInit

ServicesNext ==
    \/ /\ component = "publication" /\ PublicationNext
       /\ UNCHANGED <<component, remoteVars, accountVars, disposalVars, analysisVars>>
    \/ /\ component = "remote" /\ RemoteNext
       /\ UNCHANGED <<component, publicationVars, accountVars, disposalVars, analysisVars>>
    \/ /\ component = "account" /\ AccountNext
       /\ UNCHANGED <<component, publicationVars, remoteVars, disposalVars, analysisVars>>
    \/ /\ component = "disposal" /\ DisposalNext
       /\ UNCHANGED <<component, publicationVars, remoteVars, accountVars, analysisVars>>
    \/ /\ component = "analysis" /\ AnalysisNext
       /\ UNCHANGED <<component, publicationVars, remoteVars, accountVars, disposalVars>>

ServicesSpec == ServicesInit /\ [][ServicesNext]_servicesVars
=============================================================================
