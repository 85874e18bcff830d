------------------------------ MODULE Discovery ------------------------------
(***************************************************************************)
(* The scans that look for issues worth a contribution, the leaderboard of *)
(* the day, what a scan notifies, and the decisions and preferences a      *)
(* person records (app/service.py, scoring.py, product_experience.py).     *)
(*                                                                         *)
(* A scan runs in a job of the queue.  It inserts its run, awaits GitHub,  *)
(* writes all its results in one transaction and only then, in a second    *)
(* one, compares itself with the scan before it and notifies.  Nothing     *)
(* stops a scan that lost its lease: two scans may overlap, and each step  *)
(* may be the last one.                                                    *)
(***************************************************************************)
EXTENDS Naturals, FiniteSets, FiniteSetsExt, Sequences

CONSTANTS
    Issues,       \* issues of GitHub, and the opportunities made of them
    Preference,   \* stands for the preferences among what is decided on
    Facts,        \* an issue's text, labels, state, comments and score
    EligibleFacts,\* those that filter_issue accepts
    Decisions,    \* what can be decided on an issue or preferred
    Deciders,     \* concurrent requests that record a decision
    TopN,         \* daily_pick_count
    MaxScans, MaxDays, MaxDecisions,
    MaxEvents     \* scans, later days and decisions together

ASSUME DiscoveryAssumption ==
    /\ IsFiniteSet(Issues) /\ Preference \notin Issues
    /\ EligibleFacts \subseteq Facts
    /\ "shortlisted" \in Decisions
    /\ TopN \in Nat \ {0} /\ MaxScans \in Nat /\ MaxDays \in Nat /\ MaxDecisions \in Nat
    /\ MaxEvents \in Nat

VARIABLES
    today,        \* the local date
    scans,        \* scan_runs with their snapshots, by number
    scanning,     \* where the coroutine of each scan is
    prior,        \* what it read before it notifies
    picks,        \* daily_picks
    notices,      \* in_app_notifications of scans
    decided,      \* versions of decisions on an issue, and of the preferences
    asking        \* requests that record a decision

discoveryVars == <<today, scans, scanning, prior, picks, notices, decided, asking>>

Scans == 1..MaxScans
Subjects == Issues \cup {Preference}

(* What a search finds of each issue it returns, once filtered and scored. *)
Findings == UNION {[S -> Facts] : S \in SUBSET Issues}

NoScan == [status |-> "none", day |-> 0, found |-> <<>>, done |-> 0]
NoPrior == [scan |-> 0, shortlist |-> {}]
NotAsking == [pc |-> "free", subject |-> Preference, to |-> "shortlisted", seen |-> 0]

DiscoveryInit ==
    /\ today = 1
    /\ scans = [s \in Scans |-> NoScan]
    /\ scanning = [s \in Scans |-> "none"]
    /\ prior = [s \in Scans |-> NoPrior]
    /\ picks = {}
    /\ notices = {}
    /\ decided = [x \in Subjects |-> <<>>]
    /\ asking = [c \in Deciders |-> NotAsking]

Found(s) == DOMAIN scans[s].found
Written(s) == scans[s].done > 0
Passing(found) == {i \in DOMAIN found : found[i] \in EligibleFacts}
DoneBefore(r, s) == Written(r) /\ Written(s) /\ scans[r].done < scans[s].done
CurrentOf(x) == IF decided[x] = <<>> THEN "neutral" ELSE decided[x][Len(decided[x])]

ScanTo(s, pc) == scanning' = [scanning EXCEPT ![s] = pc]

(* For the bounds: the versions there are and those being written, and     *)
(* with them the scans and the days.                                       *)
AskedFor == MapThenSumSet(LAMBDA x : Len(decided[x]), Subjects)
            + Cardinality({c \in Deciders : asking[c].pc = "write"})
Events == AskedFor + (today - 1) + Cardinality({s \in Scans : scanning[s] # "none"})

-----------------------------------------------------------------------------
NextDay ==
    /\ today < MaxDays /\ Events < MaxEvents
    /\ today' = today + 1
    /\ UNCHANGED <<scans, scanning, prior, picks, notices, decided, asking>>

(* The run is committed before GitHub is asked.                            *)
StartScan(s) ==
    /\ scanning[s] = "none" /\ \A r \in 1..(s - 1) : scanning[r] # "none"
    /\ Events < MaxEvents
    /\ scans' = [scans EXCEPT ![s].status = "running", ![s].day = today]
    /\ ScanTo(s, "search")
    /\ UNCHANGED <<today, prior, picks, notices, decided, asking>>

(* select_daily_opportunities fills its quotas in turn and then by rank:   *)
(* as many of the eligible ones as there is room for.                      *)
Selections(found) ==
    {S \in SUBSET Passing(found) :
        Cardinality(S) = (IF Cardinality(Passing(found)) < TopN
                            THEN Cardinality(Passing(found)) ELSE TopN)}

DoneBy == Cardinality({s \in Scans : Written(s)})

(* Mutant of WriteScan: the picks this run made are deleted, not those of  *)
(* its day.                                                                *)
WriteOwnPicks(s) ==
    /\ scanning[s] = "search"
    /\ \E found \in Findings :
         /\ scans' = [scans EXCEPT ![s] = [@ EXCEPT !.status = "completed",
                                              !.found = found, !.done = DoneBy + 1]]
         /\ \E chosen \in Selections(found) :
              picks' = {p \in picks : p.scan # s} \cup
                         {[day |-> scans[s].day, issue |-> i, scan |-> s] : i \in chosen}
    /\ ScanTo(s, "compare")
    /\ UNCHANGED <<today, prior, notices, decided, asking>>

(* After the last await: repositories, opportunities, their snapshots and  *)
(* scores, the picks of the run's day in place of those another run left,  *)
(* and the run's completion are one transaction, so that completed_at is   *)
(* in the order of the commits.                                            *)
WriteScan(s) ==
    /\ scanning[s] = "search"
    /\ \E found \in Findings :
         /\ scans' = [scans EXCEPT ![s] = [@ EXCEPT !.status = "completed",
                                              !.found = found, !.done = DoneBy + 1]]
         /\ \E chosen \in Selections(found) :
              picks' = {p \in picks : p.day # scans[s].day} \cup
                         {[day |-> scans[s].day, issue |-> i, scan |-> s] : i \in chosen}
    /\ ScanTo(s, "compare")
    /\ UNCHANGED <<today, prior, notices, decided, asking>>

(* GitHub refuses, the job times out or is cancelled, another scan created *)
(* the same repository or opportunity: _fail_scan_run.                     *)
FailScan(s) ==
    /\ scanning[s] = "search"
    /\ scans' = [scans EXCEPT ![s].status = "failed"]
    /\ ScanTo(s, "over")
    /\ UNCHANGED <<today, prior, picks, notices, decided, asking>>

(* The process dies; the run stays as it is.                               *)
LoseScan(s) ==
    /\ scanning[s] \in {"search", "compare", "notify"}
    /\ ScanTo(s, "over")
    /\ UNCHANGED <<today, scans, prior, picks, notices, decided, asking>>

Earlier(s) == {r \in Scans : DoneBefore(r, s) /\ scans[r].status = "completed"}

(* Mutant of IsPrevious: the scan started before this one.                 *)
IsStartedBefore(r, s) ==
    IF s - 1 \in Earlier(s) THEN r = s - 1 ELSE r = 0

(* The last of the runs completed before this one.                         *)
IsPrevious(r, s) ==
    IF Earlier(s) = {} THEN r = 0
    ELSE r \in Earlier(s) /\ \A q \in Earlier(s) : ~DoneBefore(r, q)

(* create_scan_notifications: the run to compare with, and what is         *)
(* shortlisted.                                                            *)
Compare(s) ==
    /\ scanning[s] = "compare"
    /\ \E r \in 0..MaxScans :
         /\ IsPrevious(r, s)
         /\ prior' = [prior EXCEPT ![s] =
                [scan |-> r, shortlist |-> {i \in Issues : CurrentOf(i) = "shortlisted"}]]
    /\ ScanTo(s, "notify")
    /\ UNCHANGED <<today, scans, picks, notices, decided, asking>>

FoundBefore(s) == IF prior[s].scan = 0 THEN {} ELSE Found(prior[s].scan)
NewlyFound(s) == Found(s) \ FoundBefore(s)

(* _candidate_change_hash covers the facts and the score's output hash,    *)
(* which covers the snapshot's inputs hash and so the number of its run.   *)
ChangeHash(s, i) == <<scans[s].found[i], s>>

(* A shortlisted issue that the scan before did not find and that is not   *)
(* eligible is compared with nothing: the comparison raises.               *)
Raises(s) == \E i \in NewlyFound(s) : /\ i \notin Passing(scans[s].found)
                                     /\ i \in prior[s].shortlist

(* Which of the eligible ones match well is up to the preferences.         *)
HighMatches(s) == SUBSET (NewlyFound(s) \cap Passing(scans[s].found))

Notify(s) ==
    /\ scanning[s] = "notify" /\ ~Raises(s)
    /\ \E high \in HighMatches(s) :
         notices' = notices
            \cup {[kind |-> "new_match", issue |-> i, scan |-> s] : i \in high}
            \cup {[kind |-> "shortlist_updated", issue |-> i, scan |-> s] :
                     i \in {j \in (Found(s) \ NewlyFound(s)) \cap prior[s].shortlist :
                              ChangeHash(prior[s].scan, j) # ChangeHash(s, j)}}
    /\ ScanTo(s, "over")
    /\ UNCHANGED <<today, scans, prior, picks, decided, asking>>

(* The second transaction fails, by Raises or by the database: the run     *)
(* committed as completed is failed, and its picks stay.                   *)
FailNotify(s) ==
    /\ scanning[s] \in {"compare", "notify"}
    /\ scans' = [scans EXCEPT ![s].status = "failed"]
    /\ ScanTo(s, "over")
    /\ UNCHANGED <<today, prior, picks, notices, decided, asking>>

-----------------------------------------------------------------------------
Known == UNION {Found(s) : s \in {r \in Scans : Written(r)}}

(* set_disposition and create_preference read the current version; the     *)
(* same values again are answered with it.                                 *)
AskDecision(c, x, d) ==
    /\ asking[c].pc = "free" /\ x \in Known \cup {Preference}
    /\ AskedFor < MaxDecisions /\ Events < MaxEvents
    /\ decided[x] # <<>> => CurrentOf(x) # d
    /\ asking' = [asking EXCEPT ![c] =
            [pc |-> "write", subject |-> x, to |-> d, seen |-> Len(decided[x])]]
    /\ UNCHANGED <<today, scans, scanning, prior, picks, notices, decided>>

(* The version after the one read; its number is unique, and a request     *)
(* that comes second is told so, unless the values are those it asked for. *)
WriteDecision(c) ==
    LET a == asking[c] IN
    /\ a.pc = "write"
    /\ decided' = IF Len(decided[a.subject]) = a.seen
                    THEN [decided EXCEPT ![a.subject] = Append(@, a.to)]
                    ELSE decided
    /\ asking' = [asking EXCEPT ![c] = NotAsking]
    /\ UNCHANGED <<today, scans, scanning, prior, picks, notices>>

DiscoveryNext ==
    \/ NextDay
    \/ \E s \in Scans :
         \/ StartScan(s) \/ WriteScan(s) \/ FailScan(s) \/ LoseScan(s)
         \/ Compare(s) \/ Notify(s) \/ FailNotify(s)
    \/ \E c \in Deciders, x \in Subjects, d \in Decisions : AskDecision(c, x, d)
    \/ \E c \in Deciders : WriteDecision(c)

DiscoverySpec == DiscoveryInit /\ [][DiscoveryNext]_discoveryVars

-----------------------------------------------------------------------------
TypeDiscovery ==
    /\ today \in Nat
    /\ scans \in [Scans -> [status : {"none", "running", "completed", "failed"},
                            day : Nat, found : Findings, done : Nat]]
    /\ scanning \in [Scans -> {"none", "search", "compare", "notify", "over"}]
    /\ prior \in [Scans -> [scan : 0..MaxScans, shortlist : SUBSET Issues]]
    /\ picks \subseteq [day : Nat, issue : Issues, scan : Scans]
    /\ notices \subseteq [kind : {"new_match", "shortlist_updated"},
                          issue : Issues, scan : Scans]
    /\ decided \in [Subjects -> Seq(Decisions)]
    /\ asking \in [Deciders -> [pc : {"free", "write"}, subject : Subjects,
                                to : Decisions, seen : Nat]]

PickedBy(s) == {i \in Issues : [day |-> scans[s].day, issue |-> i, scan |-> s] \in picks}
LastOfDay(s) == Written(s) /\ \A r \in Scans : DoneBefore(s, r) => scans[r].day # scans[s].day

(* The leaderboard of a day is the whole selection of one scan, the last   *)
(* of that day to write, however scans overlap, fail late or run past      *)
(* midnight (DiscoveryService.scan).                                       *)
LeaderboardIsWhole ==
    /\ \A p \in picks : scans[p.scan].day = p.day /\ LastOfDay(p.scan)
    /\ \A s \in Scans : LastOfDay(s) => PickedBy(s) \in Selections(scans[s].found)

(* An issue is notified as new twice only if a scan written in between did *)
(* not find it, whichever scans overlapped or failed meanwhile             *)
(* (create_scan_notifications).                                            *)
NewMatchesAreNew ==
    \A m, n \in notices :
        m.kind = "new_match" /\ n.kind = "new_match" /\ m.issue = n.issue
            /\ DoneBefore(m.scan, n.scan)
        => \E q \in Scans : /\ DoneBefore(m.scan, q) /\ DoneBefore(q, n.scan)
                            /\ n.issue \notin Found(q)

(* Two versions in a row never say the same: every version was asked for   *)
(* by a request that saw the one before it (set_disposition,               *)
(* create_preference).                                                     *)
DecisionsDiffer ==
    \A x \in Subjects : \A k \in 1..(Len(decided[x]) - 1) : decided[x][k] # decided[x][k + 1]
=============================================================================
