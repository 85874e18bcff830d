-------------------------- MODULE PublisherAccount --------------------------
(***************************************************************************)
(* The GitHub account that publishes (app/publisher_service.py and         *)
(* app/publisher_accounts.py): one chain of account events in the business *)
(* database, the credentials in a database of their own, the probe that    *)
(* turns a pending account into a connected one, and the publication jobs  *)
(* that are bound to one version of the account.                           *)
(*                                                                         *)
(* `manage' takes a request under BEGIN IMMEDIATE and has no await in it,  *)
(* so requests do not interleave; but the two databases commit apart, and  *)
(* the publisher may die between the two.  The probe and the publications  *)
(* await GitHub and may lose their lease while they do.                    *)
(***************************************************************************)
EXTENDS Naturals, FiniteSets

CONSTANTS
    Keys,         \* idempotency keys of requests that save, test or disconnect
    NoKey,
    Publications, \* publication_write jobs
    MaxProbes     \* max_attempts of a probe

ASSUME AccountAssumption ==
    /\ NoKey \notin Keys
    /\ MaxProbes \in Nat \ {0}

VARIABLES
    account,      \* latest account event; credential_ref and job are keys
    vault,        \* the credentials table: the keys whose save stored one
    probes,       \* publisher_account_probe jobs, one per key
    prober,       \* the account event each probe execution read
    done,         \* keys of recorded disconnects
    answered,     \* keys whose disconnect was answered
    manager,      \* the disconnect that has committed but not yet deleted
    publications  \* publication_write jobs and the account they are bound to

accountVars == <<account, vault, probes, prober, done, answered, manager, publications>>

NoEvent == [state |-> "disconnected", ref |-> NoKey, job |-> NoKey, version |-> 0]
NoProbe == [attempt |-> 0, version |-> 0]

AccountInit ==
    /\ account = NoEvent
    /\ vault = {}
    /\ probes = [k \in Keys |-> [state |-> "none", attempt |-> 0, ref |-> NoKey]]
    /\ prober = [k \in Keys |-> NoProbe]
    /\ done = {} /\ answered = {}
    /\ manager = NoKey
    /\ publications = [p \in Publications |-> [state |-> "none", version |-> 0]]

Fresh(k) == probes[k].state = "none" /\ k \notin done
AppendAccount(state, ref, job) ==
    account' = [state |-> state, ref |-> ref, job |-> job, version |-> account.version + 1]

(* Mutant of AccountChangeable: a failed publication does not block.       *)
ChangeableAfterFailure ==
    /\ \A k \in Keys : probes[k].state \notin {"queued", "running"}
    /\ \A p \in Publications : publications[p].state \notin {"queued", "running"}

(* assert_account_changeable: no probe is under way, and a publication     *)
(* that was ever enqueued has succeeded; failed or cancelled, it may have  *)
(* opened its pull request.                                                *)
AccountChangeable ==
    /\ \A k \in Keys : probes[k].state \notin {"queued", "running"}
    /\ \A p \in Publications : publications[p].state \in {"none", "succeeded"}

-----------------------------------------------------------------------------
(* POST /internal/settings.  A request that shows the current account      *)
(* (expected_hash) and was not seen before.                                *)
PendingProbe(k, ref) ==
    /\ AppendAccount("pending", ref, k)
    /\ probes' = [probes EXCEPT ![k] = [state |-> "queued", attempt |-> 0, ref |-> ref]]

Save(k) ==
    /\ manager = NoKey /\ Fresh(k) /\ AccountChangeable
    /\ vault' = vault \cup {k}
    /\ PendingProbe(k, k)
    /\ UNCHANGED <<prober, done, answered, manager, publications>>

(* vault.save has committed when the token is refused or the publisher     *)
(* dies: the account stays, the credential stays as well.                  *)
SaveHalf(k) ==
    /\ manager = NoKey /\ Fresh(k) /\ AccountChangeable
    /\ vault' = vault \cup {k}
    /\ UNCHANGED <<account, probes, prober, done, answered, manager, publications>>

Test(k) ==
    /\ manager = NoKey /\ Fresh(k) /\ AccountChangeable
    /\ account.ref # NoKey
    /\ PendingProbe(k, account.ref)
    /\ UNCHANGED <<vault, prober, done, answered, manager, publications>>

Disconnect(k) ==
    /\ manager = NoKey /\ Fresh(k) /\ AccountChangeable
    /\ AppendAccount("disconnected", NoKey, NoKey)
    /\ done' = done \cup {k}
    /\ manager' = k
    /\ UNCHANGED <<vault, probes, prober, answered, publications>>

DeleteCredentials ==
    /\ manager # NoKey
    /\ vault' = {}
    /\ answered' = answered \cup {manager}
    /\ manager' = NoKey
    /\ UNCHANGED <<account, probes, prober, done, publications>>

KillManager ==
    /\ manager # NoKey
    /\ manager' = NoKey
    /\ UNCHANGED <<account, vault, probes, prober, done, answered, publications>>

(* The same request again finds the recorded disconnect and says so.       *)
DisconnectAgain(k) ==
    /\ manager = NoKey /\ k \in done
    /\ answered' = answered \cup {k}
    /\ UNCHANGED <<account, vault, probes, prober, done, manager, publications>>

-----------------------------------------------------------------------------
(* AccountProbeWorker: each attempt is an execution of its own, and        *)
(* prober[k] is the newest one that got past the first check.              *)
LeaseProbe(k) ==
    /\ probes[k].state = "queued"
    /\ probes' = [probes EXCEPT ![k].state = "running", ![k].attempt = @ + 1]
    /\ UNCHANGED <<account, vault, prober, done, answered, manager, publications>>

EndProbe(k, outcome) == probes' = [probes EXCEPT ![k].state = outcome]

BeginProbe(k) ==
    /\ manager = NoKey
    /\ probes[k].state = "running" /\ prober[k].attempt < probes[k].attempt
    /\ IF account.state = "pending" /\ account.job = k /\ probes[k].ref \in vault
         THEN /\ prober' = [prober EXCEPT ![k] = [attempt |-> probes[k].attempt,
                                                  version |-> account.version]]
              /\ UNCHANGED probes
         ELSE EndProbe(k, "failed") /\ UNCHANGED prober
    /\ UNCHANGED <<account, vault, done, answered, manager, publications>>

(* After the await: the job must still be running this attempt, and the    *)
(* account must still be the event that was read; then both are written in *)
(* one commit.                                                             *)
Connect(k) ==
    /\ manager = NoKey /\ prober[k] # NoProbe
    /\ prober' = [prober EXCEPT ![k] = NoProbe]
    /\ IF probes[k].state = "running" /\ probes[k].attempt = prober[k].attempt
         THEN IF account.version = prober[k].version
                THEN /\ AppendAccount("connected", probes[k].ref, k)
                     /\ EndProbe(k, "succeeded")
                ELSE EndProbe(k, "failed") /\ UNCHANGED account
         ELSE UNCHANGED <<account, probes>>
    /\ UNCHANGED <<vault, done, answered, manager, publications>>

(* GitHub refuses, the probe times out, or it is cancelled.                *)
FailProbe(k) ==
    /\ probes[k].state \in {"queued", "running"}
    /\ \E outcome \in {"failed", "timed_out", "cancelled"} : EndProbe(k, outcome)
    /\ UNCHANGED <<account, vault, prober, done, answered, manager, publications>>

(* The lease expires while the probe is still awaited, or a failed one is  *)
(* retried through the API (which knows nothing of the account).           *)
RequeueProbe(k) ==
    /\ probes[k].state \in {"running", "failed", "timed_out", "cancelled"}
    /\ probes[k].attempt < MaxProbes
    /\ EndProbe(k, "queued")
    /\ UNCHANGED <<account, vault, prober, done, answered, manager, publications>>

-----------------------------------------------------------------------------
(* Publication, as far as it concerns the account: confirm enqueues under  *)
(* the same lock for a connected account, and every write asks again.      *)
ConfirmPull(p) ==
    /\ publications[p].state = "none" /\ account.state = "connected"
    /\ publications' = [publications EXCEPT ![p] = [state |-> "queued", version |-> account.version]]
    /\ UNCHANGED <<account, vault, probes, prober, done, answered, manager>>

MovePublication(p) ==
    /\ \E move \in {<<"queued", "running">>, <<"running", "succeeded">>, <<"running", "failed">>,
                    <<"queued", "cancelled">>, <<"failed", "queued">>, <<"cancelled", "queued">>} :
          /\ publications[p].state = move[1]
          /\ publications' = [publications EXCEPT ![p].state = move[2]]
    /\ UNCHANGED <<account, vault, probes, prober, done, answered, manager>>

AccountNext ==
    \/ \E k \in Keys :
          \/ Save(k) \/ SaveHalf(k) \/ Test(k) \/ Disconnect(k) \/ DisconnectAgain(k)
          \/ LeaseProbe(k) \/ BeginProbe(k) \/ Connect(k) \/ FailProbe(k) \/ RequeueProbe(k)
    \/ DeleteCredentials \/ KillManager
    \/ \E p \in Publications : ConfirmPull(p) \/ MovePublication(p)

AccountSpec == AccountInit /\ [][AccountNext]_accountVars

-----------------------------------------------------------------------------

(* As long as it is not known to have succeeded, a confirmed publication   *)
(* finds the very account it was confirmed with: no save, test, disconnect *)
(* or late probe replaces it (assert_account_changeable).                  *)
PublicationKeepsAccount ==
    \A p \in Publications :
        publications[p].state \notin {"none", "succeeded"} =>
            account.state = "connected" /\ account.version = publications[p].version

=============================================================================
