----------------------------- MODULE BulkPricing -----------------------------
(* The sheet pricing jobs of one organization (bulk-pricing-service.ts).      *)
(* Unlike the leased jobs of PricingJobs, a bulk job has no owner: a process  *)
(* knows the jobs it runs itself (activeJobs), a job that was not written for *)
(* thirty minutes counts as interrupted, and every refresh of a job is        *)
(* unconditional.  Workers poll; API processes run the jobs they resume.      *)
(* Prices, counters and the thirty-day deletion are left out, and so is the   *)
(* reset of items that failed with a 429: such an error is thrown on and no   *)
(* item ever records it.                                                      *)
EXTENDS Naturals, FiniteSets

CONSTANTS
    Worker, Api,    \* process lifetimes
    Mortal,         \* the processes that may die
    Job, Item, JobOf, NoItem,
    Scenarios       \* the scenarios to consider, see scenario

Process == Worker \cup Api

Hazards == {"crashes", "rateLimits", "staleResumes", "cancels", "slowItems",
            "slowClaims", "dbErrors"}

ASSUME BulkAssumption ==
    /\ Mortal \subseteq Process
    /\ Worker \cap Api = {}
    /\ JobOf \in [Item -> Job]
    /\ NoItem \notin Item
    /\ Scenarios \subseteq [processes : SUBSET Process, jobs : SUBSET Job,
                           hazards : SUBSET Hazards]

(* What a behaviour meets, fixed from its start: the processes that run, the *)
(* jobs users create, and hazards: processes that die, eBay answering 429,   *)
(* resumes of jobs that are not paused any more, users clearing stuck jobs,  *)
(* items that take more than thirty minutes, claims that hang and run into   *)
(* their timeout, database calls that fail.                                  *)
VARIABLE scenario

Meets(hazard) == hazard \in scenario.hazards

VARIABLES
    alive,          \* the processes that have not died
    jobStatus,      \* BulkPricingJob.status
    started,        \* the jobs with a startedAt
    old,            \* the jobs created more than ten minutes ago
    stale,          \* the jobs not written for thirty minutes
    itemStatus,     \* BulkPricingJobItem.status
    pc, todo, cur, verdict,  \* runBulkPricingJob per process and job
    requested,      \* the creations that have passed their checks
    hung            \* the jobs with a claim that outlives its timeout

jobVars  == <<jobStatus, started, old, stale>>
runVars  == <<pc, todo, cur, verdict>>
vars     == <<scenario, alive, jobVars, itemStatus, runVars, requested, hung>>

Settled  == {"COMPLETED", "NO_MATCHES", "FAILED"}
Finished == {"COMPLETED", "PARTIAL", "FAILED"}
Active   == {"QUEUED", "RUNNING"}
ItemsOf(j) == {i \in Item : JobOf[i] = j}

Init ==
    /\ scenario \in Scenarios
    /\ alive = scenario.processes
    /\ jobStatus = [j \in Job |-> "none"]
    /\ started = {} /\ old = {} /\ stale = {}
    /\ itemStatus = [i \in Item |-> "none"]
    /\ pc = [p \in Process |-> [j \in Job |-> "idle"]]
    /\ todo = [p \in Process |-> [j \in Job |-> {}]]
    /\ cur = [p \in Process |-> [j \in Job |-> NoItem]]
    /\ verdict = [p \in Process |-> [j \in Job |-> "none"]]
    /\ requested = {} /\ hung = {}

(* Any write of a job row renews its updatedAt.                              *)
SetJob(j, status) ==
    /\ jobStatus' = [jobStatus EXCEPT ![j] = status]
    /\ stale' = stale \ {j}

Move(p, j, label) == pc' = [pc EXCEPT ![p][j] = label]

-----------------------------------------------------------------------------
(* createBulkPricingJob: jobs that were queued for ten minutes without being *)
(* started expire, then an active job refuses the request, then the new job  *)
(* is written; two requests may pass the check together.                     *)
Expired == {k \in Job : jobStatus[k] = "QUEUED" /\ k \notin started /\ k \in old}

RequestJob(j) ==
    /\ j \in scenario.jobs \ requested
    /\ jobStatus[j] = "none"
    /\ jobStatus' = [k \in Job |-> IF k \in Expired THEN "FAILED" ELSE jobStatus[k]]
    /\ stale' = stale \ Expired
    /\ requested' = IF \E k \in Job : jobStatus'[k] \in Active
                    THEN requested ELSE requested \cup {j}
    /\ UNCHANGED <<scenario, alive, started, old, itemStatus, runVars, hung>>

CreateBulkPricingJob(j) ==
    /\ j \in requested
    /\ requested' = requested \ {j}
    /\ SetJob(j, "QUEUED")
    /\ itemStatus' = [i \in Item |-> IF JobOf[i] = j THEN "QUEUED" ELSE itemStatus[i]]
    /\ UNCHANGED <<scenario, alive, started, old, runVars, hung>>

TenMinutesPass(j) ==
    /\ jobStatus[j] # "none"
    /\ j \notin old
    /\ old' = old \cup {j}
    /\ UNCHANGED <<scenario, alive, jobStatus, started, stale, itemStatus, runVars,
                   requested, hung>>

(* The user starts over: every active job is failed, whoever runs it.        *)
CancelStuck ==
    /\ Meets("cancels")
    /\ \E j \in Job : jobStatus[j] \in Active
    /\ jobStatus' = [j \in Job |-> IF jobStatus[j] \in Active THEN "FAILED" ELSE jobStatus[j]]
    /\ stale' = {j \in stale : jobStatus[j] \notin Active}
    /\ UNCHANGED <<scenario, alive, started, old, itemStatus, runVars, requested,
                   hung>>

(* resumeBulkPricingJob: offered for a paused job, accepted for any.         *)
ResumeBulkPricingJob(a, j) ==
    /\ a \in alive \cap Api
    /\ jobStatus[j] = "PAUSED" \/ (Meets("staleResumes") /\ jobStatus[j] # "none")
    /\ SetJob(j, "QUEUED")
    /\ IF pc[a][j] = "idle" THEN Move(a, j, "claim") ELSE UNCHANGED pc
    /\ UNCHANGED <<scenario, alive, started, old, itemStatus, todo, cur, verdict,
                   requested, hung>>

-----------------------------------------------------------------------------
(* startQueuedBulkPricingJobs, for a job the process does not run yet.       *)
Dispatch(w, j) ==
    /\ w \in alive \cap Worker
    /\ pc[w][j] = "idle"
    /\ jobStatus[j] = "QUEUED"
    /\ Move(w, j, "claim")
    /\ UNCHANGED <<scenario, alive, jobVars, itemStatus, todo, cur, verdict,
                   requested, hung>>

ClaimableWhenRunning(j) == jobStatus[j] \in {"QUEUED", "RUNNING"}   \* mutant
Claimable(j) == jobStatus[j] \in {"QUEUED", "PAUSED"}

Claimed(j) == SetJob(j, "RUNNING") /\ started' = started \cup {j}

Claim(p, j) ==
    /\ p \in alive
    /\ pc[p][j] = "claim"
    /\ IF Claimable(j)
       THEN Claimed(j) /\ Move(p, j, "load")
       ELSE Move(p, j, "idle") /\ UNCHANGED <<jobStatus, stale, started>>
    /\ UNCHANGED <<scenario, alive, old, itemStatus, todo, cur, verdict, requested,
                   hung>>

(* The claim loses its race against thirty seconds; the statement itself is  *)
(* not cancelled, and commits later, finds nothing to claim, or is lost.     *)
ClaimTimesOut(p, j) ==
    /\ Meets("slowClaims")
    /\ p \in alive
    /\ pc[p][j] = "claim"
    /\ Move(p, j, "catch")
    /\ hung' = hung \cup {j}
    /\ UNCHANGED <<scenario, alive, jobVars, itemStatus, todo, cur, verdict,
                   requested>>

HungClaimEnds(j) ==
    /\ j \in hung
    /\ hung' = hung \ {j}
    /\ \/ Claimable(j) /\ Claimed(j)
       \/ UNCHANGED <<jobStatus, stale, started>>
    /\ UNCHANGED <<scenario, alive, old, itemStatus, runVars, requested>>

UnmatchedToLoad(j) ==   \* mutant: items without a match are searched again
    {i \in ItemsOf(j) : itemStatus[i] \in {"QUEUED", "NO_MATCHES"}}
ItemsToLoad(j) == {i \in ItemsOf(j) : itemStatus[i] = "QUEUED"}

LoadItems(p, j) ==
    /\ p \in alive
    /\ pc[p][j] = "load"
    /\ todo' = [todo EXCEPT ![p][j] = ItemsToLoad(j)]
    /\ Move(p, j, "loop")
    /\ UNCHANGED <<scenario, alive, jobVars, itemStatus, cur, verdict, requested,
                   hung>>

StartItem(p, j) ==
    /\ p \in alive
    /\ pc[p][j] = "loop"
    /\ \E i \in todo[p][j] :
          /\ todo' = [todo EXCEPT ![p][j] = @ \ {i}]
          /\ cur' = [cur EXCEPT ![p][j] = i]
          /\ itemStatus' = [itemStatus EXCEPT ![i] = "RUNNING"]
    /\ Move(p, j, "search")
    /\ UNCHANGED <<scenario, alive, jobVars, verdict, requested, hung>>

(* The search with its retries ends in a result, an error or a rate limit.   *)
SearchAnswered(p, j) ==
    /\ p \in alive
    /\ pc[p][j] = "search"
    /\ \E outcome \in {"found", "nothing", "fail"} : Move(p, j, outcome)
    /\ UNCHANGED <<scenario, alive, jobVars, itemStatus, todo, cur, verdict,
                   requested, hung>>

SearchLimited(p, j) ==
    /\ Meets("rateLimits")
    /\ p \in alive
    /\ pc[p][j] = "search"
    /\ Move(p, j, "requeue")
    /\ UNCHANGED <<scenario, alive, jobVars, itemStatus, todo, cur, verdict,
                   requested, hung>>

ResultOf(label) ==
    CASE label = "found" -> "COMPLETED" [] label = "nothing" -> "NO_MATCHES"
      [] label = "fail" -> "FAILED"

WriteItem(p, j) ==
    /\ p \in alive
    /\ pc[p][j] \in {"found", "nothing", "fail"}
    /\ itemStatus' = [itemStatus EXCEPT ![cur[p][j]] = ResultOf(pc[p][j])]
    /\ cur' = [cur EXCEPT ![p][j] = NoItem]
    /\ Move(p, j, "read")
    /\ UNCHANGED <<scenario, alive, jobVars, todo, verdict, requested, hung>>

(* The status refreshJobProgress computes.                                   *)
StatusOfStarted(j) ==   \* mutant: an item in work does not keep the job running
    LET failed == {i \in ItemsOf(j) : itemStatus[i] = "FAILED"} IN
    IF \E i \in ItemsOf(j) : itemStatus[i] = "RUNNING" THEN "RUNNING"
    ELSE IF failed = ItemsOf(j) THEN "FAILED"
    ELSE IF failed # {} THEN "PARTIAL" ELSE "COMPLETED"

StatusOfJob(j) ==
    LET failed == {i \in ItemsOf(j) : itemStatus[i] = "FAILED"} IN
    IF \E i \in ItemsOf(j) : itemStatus[i] \notin Settled THEN "RUNNING"
    ELSE IF failed = ItemsOf(j) THEN "FAILED"
    ELSE IF failed # {} THEN "PARTIAL" ELSE "COMPLETED"

(* refreshJobProgress, after an item and after a pause: two statements, and  *)
(* the second writes the job whatever it has become.                         *)
ReadItems(p, j) ==
    /\ p \in alive
    /\ \/ pc[p][j] = "read" /\ Move(p, j, "write")
       \/ pc[p][j] = "reread" /\ Move(p, j, "rewrite")
    /\ verdict' = [verdict EXCEPT ![p][j] = StatusOfJob(j)]
    /\ UNCHANGED <<scenario, alive, jobVars, itemStatus, todo, cur, requested, hung>>

Forget(p, j) ==
    /\ todo' = [todo EXCEPT ![p][j] = {}]
    /\ cur' = [cur EXCEPT ![p][j] = NoItem]
    /\ verdict' = [verdict EXCEPT ![p][j] = "none"]

WriteJob(p, j) ==
    /\ p \in alive
    /\ SetJob(j, verdict[p][j])
    /\ \/ /\ pc[p][j] = "write"
          /\ Move(p, j, "loop")
          /\ verdict' = [verdict EXCEPT ![p][j] = "none"]
          /\ UNCHANGED <<todo, cur>>
       \/ /\ pc[p][j] = "rewrite"
          /\ Move(p, j, "idle")
          /\ Forget(p, j)
    /\ UNCHANGED <<scenario, alive, started, old, itemStatus, requested, hung>>

(* The rate-limit branch: the item goes back, the job is paused, and then    *)
(* refreshed like after any other item.                                      *)
RequeueItem(p, j) ==
    LET i == cur[p][j] IN
    /\ p \in alive
    /\ pc[p][j] = "requeue"
    /\ itemStatus' = [itemStatus EXCEPT ![i] = "QUEUED"]
    /\ cur' = [cur EXCEPT ![p][j] = NoItem]
    /\ Move(p, j, "pause")
    /\ UNCHANGED <<scenario, alive, jobVars, todo, verdict, requested, hung>>

PauseJob(p, j) ==
    /\ p \in alive
    /\ pc[p][j] = "pause"
    /\ SetJob(j, "PAUSED")
    /\ Move(p, j, "reread")
    /\ UNCHANGED <<scenario, alive, started, old, itemStatus, todo, cur, verdict,
                   requested, hung>>

EndRun(p, j) ==
    /\ p \in alive
    /\ pc[p][j] = "loop"
    /\ todo[p][j] = {}
    /\ Move(p, j, "idle")
    /\ UNCHANGED <<scenario, alive, jobVars, itemStatus, todo, cur, verdict,
                   requested, hung>>

(* The outer catch fails the job if it is RUNNING, whoever runs it.          *)
FailJob(p, j) ==
    /\ p \in alive
    /\ pc[p][j] = "catch"
    /\ IF jobStatus[j] = "RUNNING" THEN SetJob(j, "FAILED") ELSE UNCHANGED <<jobStatus, stale>>
    /\ Move(p, j, "idle")
    /\ Forget(p, j)
    /\ UNCHANGED <<scenario, alive, started, old, itemStatus, requested, hung>>

(* A failed statement: the loop goes on after one on an item or in a refresh *)
(* (the item may stay as it is), any other ends the run in the outer catch.  *)
DbError(p, j) ==
    /\ Meets("dbErrors")
    /\ p \in alive
    /\ \/ /\ pc[p][j] = "loop"
          /\ \E i \in todo[p][j] : todo' = [todo EXCEPT ![p][j] = @ \ {i}]
          /\ UNCHANGED <<pc, cur>>
       \/ pc[p][j] \in {"found", "nothing"} /\ Move(p, j, "fail") /\ UNCHANGED <<todo, cur>>
       \/ /\ pc[p][j] \in {"fail", "read", "write"}
          /\ Move(p, j, "loop")
          /\ cur' = [cur EXCEPT ![p][j] = NoItem]
          /\ UNCHANGED todo
       \/ /\ pc[p][j] \in {"claim", "load", "requeue", "pause", "reread", "rewrite"}
          /\ Move(p, j, "catch")
          /\ UNCHANGED <<todo, cur>>
    /\ UNCHANGED <<scenario, alive, jobVars, itemStatus, verdict, requested, hung>>

-----------------------------------------------------------------------------
AtWork(p, j) == p \in alive /\ pc[p][j] # "idle"

ThirtyMinutesPass(j) ==
    /\ jobStatus[j] = "RUNNING"
    /\ j \notin stale
    /\ Meets("slowItems") \/ \A p \in Process : ~AtWork(p, j)
    /\ stale' = stale \cup {j}
    /\ old' = old \cup {j}
    /\ UNCHANGED <<scenario, alive, jobStatus, started, itemStatus, runVars,
                   requested, hung>>

Reset(j) == [i \in Item |-> IF JobOf[i] = j /\ itemStatus[i] = "RUNNING"
                            THEN "QUEUED" ELSE itemStatus[i]]

InterruptedInWork(j) ==   \* mutant: only jobs with an item in work count
    jobStatus[j] = "RUNNING" /\ j \in stale /\ \E i \in ItemsOf(j) : itemStatus[i] = "RUNNING"
Interrupted(j) == jobStatus[j] = "RUNNING" /\ j \in stale

(* resumeInterruptedBulkPricingJobs, one transaction per stale job.          *)
Reclaim(w, j) ==
    /\ w \in alive \cap Worker
    /\ pc[w][j] = "idle"
    /\ Interrupted(j)
    /\ SetJob(j, "QUEUED")
    /\ started' = started \ {j}
    /\ itemStatus' = Reset(j)
    /\ UNCHANGED <<scenario, alive, old, runVars, requested, hung>>

Die(p) ==
    /\ Meets("crashes")
    /\ p \in Mortal \cap alive
    /\ alive' = alive \ {p}
    /\ pc' = [pc EXCEPT ![p] = [j \in Job |-> "idle"]]
    /\ todo' = [todo EXCEPT ![p] = [j \in Job |-> {}]]
    /\ cur' = [cur EXCEPT ![p] = [j \in Job |-> NoItem]]
    /\ verdict' = [verdict EXCEPT ![p] = [j \in Job |-> "none"]]
    /\ UNCHANGED <<scenario, jobVars, itemStatus, requested, hung>>

-----------------------------------------------------------------------------
RunStep(p, j) ==
    \/ Claim(p, j)       \/ LoadItems(p, j)  \/ StartItem(p, j) \/ SearchAnswered(p, j)
    \/ WriteItem(p, j)   \/ ReadItems(p, j)  \/ WriteJob(p, j)  \/ RequeueItem(p, j)
    \/ PauseJob(p, j)    \/ EndRun(p, j)     \/ FailJob(p, j)   \/ SearchLimited(p, j)

Next ==
    \/ CancelStuck
    \/ \E j \in Job :
          \/ RequestJob(j)      \/ CreateBulkPricingJob(j) \/ TenMinutesPass(j)
          \/ ThirtyMinutesPass(j) \/ HungClaimEnds(j)
    \/ \E p \in Process, j \in Job :
          \/ RunStep(p, j)      \/ ClaimTimesOut(p, j)     \/ Dispatch(p, j)
          \/ Reclaim(p, j)      \/ ResumeBulkPricingJob(p, j)  \/ DbError(p, j)
    \/ \E p \in Process : Die(p)

Spec == Init /\ [][Next]_vars

(* Processes run and poll, time passes, neither eBay's limits nor a failing  *)
(* database last for ever (what is tried again and again succeeds), and a    *)
(* user resumes a job that stays paused.                                     *)
Fairness ==
    /\ \A p \in Process, j \in Job :
          WF_vars(RunStep(p, j) \/ Dispatch(p, j) \/ Reclaim(p, j))
    /\ \A a \in Api, j \in Job :
          WF_vars(jobStatus[j] = "PAUSED" /\ ResumeBulkPricingJob(a, j))
    /\ \A j \in Job : WF_vars(ThirtyMinutesPass(j))
    /\ SF_vars(\E p \in Process, j \in Job : Claimable(j) /\ Claim(p, j))
    /\ SF_vars(\E p \in Process, j \in Job : LoadItems(p, j))
    /\ SF_vars(\E p \in Process, j \in Job : StartItem(p, j))
    /\ SF_vars(\E p \in Process, j \in Job : SearchAnswered(p, j))
    /\ SF_vars(\E p \in Process, j \in Job : WriteItem(p, j))

FairSpec == Spec /\ Fairness

-----------------------------------------------------------------------------
Orderly == scenario.hazards \subseteq {"crashes", "rateLimits"}

\* No two processes price the same item at once (items faster than thirty minutes,
\* resumes of paused jobs only).
OneRunPerItem ==
    Orderly => \A p, q \in Process : p # q =>
                  \A j \in Job : cur[p][j] = NoItem \/ cur[p][j] # cur[q][j]

\* A priced item is not priced again and a failed one not retried, through rate limits,
\* pauses, resumes and reclaims (same conditions).
ResultsStay ==
    [][Orderly => \A i \in Item : itemStatus[i] \in Settled => itemStatus'[i] = itemStatus[i]]_vars

\* A job that ends as COMPLETED or PARTIAL has a result for every item, and COMPLETED
\* means that none failed (same conditions).
DoneMeansPriced ==
    Orderly => \A j \in Job :
        /\ jobStatus[j] \in {"COMPLETED", "PARTIAL"} =>
              \A i \in ItemsOf(j) : itemStatus[i] \in Settled
        /\ jobStatus[j] = "COMPLETED" => \A i \in ItemsOf(j) : itemStatus[i] # "FAILED"

\* Every item of a sheet gets a result, although a process dies, jobs are paused and the
\* refresh after a pause puts the job back to RUNNING with nobody at work on it; under a
\* single worker the job ends as well.  With a second job, which may expire this one, or
\* with stale runs, resumes, cancellations, hung claims and failed statements, the job
\* may instead end without all results, but nothing waits for ever.
JobsSettle ==
    \A j \in Job : jobStatus[j] \in Active \cup {"PAUSED"} ~>
        \/ /\ \A i \in ItemsOf(j) : itemStatus[i] \in Settled
           /\ Cardinality(scenario.processes) = 1 => jobStatus[j] \in Finished
        \/ jobStatus[j] \in Finished /\ ~(Orderly /\ scenario.jobs = {j})

\* A paused job waits for its user.
PausedWaits ==
    [][\A j \in Job : jobStatus[j] = "PAUSED" => jobStatus'[j] \in {"PAUSED", "QUEUED"}]_vars
=============================================================================
