----------------------------- MODULE FitmentJobs -----------------------------
(* Fitment discovery of one organization: the jobs of fitment-service.ts, the *)
(* reviewers who approve a candidate while a job may be at work, and the      *)
(* replay of its dead letters.  Workers claim, renew and reclaim as in        *)
(* PricingJobs; what differs is that a discovered item waits for a reviewer,  *)
(* and that approving it refreshes the job without owning its lease.          *)
(* The life of a worker is alive or dead; counters, category data and the     *)
(* applications an approval stores (manual-fitment-service.ts) are left out.  *)
EXTENDS Naturals, FiniteSets

CONSTANTS
    Instance,       \* worker process lifetimes
    Unreliable,     \* the instances that may die or renew their leases late
    Job, Item, NoJob,
    Reviewer, Admin,
    NoInstance, NoItem,
    MaxAttempts,    \* WORKER_MAX_ATTEMPTS
    Environments    \* the environments to consider, see env

ASSUME FitmentAssumption ==
    /\ Unreliable \subseteq Instance
    /\ IsFiniteSet(Item)
    /\ NoJob \notin Job
    /\ NoInstance \notin Instance /\ NoItem \notin Item
    /\ MaxAttempts \in Nat \ {0}
    /\ Environments \subseteq SUBSET
          {"moreJobs", "reviews", "replays", "crashes", "dbErrors", "slowHeartbeats"}

(* What a behaviour may meet, fixed from its start: more than one job,        *)
(* reviewers, replays of dead letters, dying workers, database calls that     *)
(* fail, and leases that expire although their owner is running.              *)
VARIABLE env

VARIABLES
    alive,          \* the instances that have not died
    jobStatus, leaseOwner, lease,  \* the FitmentJob rows
    jobOf,          \* FitmentJobItem.fitmentJobId, NoJob before the row exists
    itemStatus,     \* FitmentJobItem.status
    candidates,     \* the items with FitmentCandidate rows
    deadLetter,     \* DeadLetterEntry.status of each item
    pc, todo, cur, attempt, verdict,  \* runFitmentJob per instance and job
    step, under, opinion,  \* each reviewer's approval, its item, the status it computed
    chosen,         \* the reviewers whose candidate row still exists
    checked         \* the item each administrator's request has checked

jobVars    == <<jobStatus, leaseOwner, lease>>
itemVars   == <<itemStatus, candidates, deadLetter>>
runnerVars == <<pc, todo, cur, attempt, verdict>>
reviewVars == <<step, under, opinion, chosen>>
vars       == <<env, jobOf, alive, jobVars, itemVars, runnerVars, reviewVars, checked>>

Active    == {"QUEUED", "RUNNING"}
Settled   == {"REVIEW_REQUIRED", "NO_CANDIDATE", "APPROVED", "FAILED"}   \* discoveryTerminalStatuses
Finished  == {"REVIEW_REQUIRED", "COMPLETED", "PARTIAL", "FAILED"}
ItemsOf(j) == {i \in Item : jobOf[i] = j}

Init ==
    /\ env \in Environments
    /\ alive = Instance
    /\ jobStatus = [j \in Job |-> "none"]
    /\ leaseOwner = [j \in Job |-> NoInstance]
    /\ lease = [j \in Job |-> "none"]
    /\ jobOf = [i \in Item |-> NoJob]
    /\ itemStatus = [i \in Item |-> "none"]
    /\ candidates = {}
    /\ deadLetter = [i \in Item |-> "none"]
    /\ pc = [w \in Instance |-> [j \in Job |-> "idle"]]
    /\ todo = [w \in Instance |-> [j \in Job |-> {}]]
    /\ cur = [w \in Instance |-> [j \in Job |-> NoItem]]
    /\ attempt = [w \in Instance |-> [j \in Job |-> 0]]
    /\ verdict = [w \in Instance |-> [j \in Job |-> "none"]]
    /\ step = [r \in Reviewer |-> "idle"]
    /\ under = [r \in Reviewer |-> NoItem]
    /\ opinion = [r \in Reviewer |-> "none"]
    /\ chosen = {}
    /\ checked = [a \in Admin |-> NoItem]

ActiveElsewhere(j) == \E k \in Job \ {j} : jobStatus[k] \in Active

-----------------------------------------------------------------------------
(* createFitmentJob; the unique index of migration 20260720050000 refuses    *)
(* what its check for an active job refuses.                                 *)
CreateFitmentJob(j) ==
    /\ "moreJobs" \in env \/ jobStatus = [k \in Job |-> "none"]
    /\ jobStatus[j] = "none"
    /\ ~ActiveElsewhere(j)
    /\ jobStatus' = [jobStatus EXCEPT ![j] = "QUEUED"]
    /\ \E parts \in SUBSET ItemsOf(NoJob) \ {{}} :
          /\ jobOf' = [i \in Item |-> IF i \in parts THEN j ELSE jobOf[i]]
          /\ itemStatus' = [i \in Item |-> IF i \in parts THEN "QUEUED" ELSE itemStatus[i]]
    /\ UNCHANGED <<env, alive, leaseOwner, lease, candidates, deadLetter,
                   runnerVars, reviewVars,
                   checked>>

Move(w, j, label) == pc' = [pc EXCEPT ![w][j] = label]

(* startQueuedFitmentJobs, for a job the process is not at work on.          *)
Dispatch(w, j) ==
    /\ w \in alive
    /\ pc[w][j] = "idle"
    /\ jobStatus[j] = "QUEUED"
    /\ Move(w, j, "claim")
    /\ UNCHANGED <<env, jobOf, alive, jobVars, itemVars, todo, cur, attempt,
                   verdict, reviewVars, checked>>

Claimable(j) == jobStatus[j] = "QUEUED"

Claim(w, j) ==
    /\ w \in alive
    /\ pc[w][j] = "claim"
    /\ IF Claimable(j)
       THEN /\ jobStatus' = [jobStatus EXCEPT ![j] = "RUNNING"]
            /\ leaseOwner' = [leaseOwner EXCEPT ![j] = w]
            /\ lease' = [lease EXCEPT ![j] = "live"]
            /\ Move(w, j, "load")
       ELSE Move(w, j, "idle") /\ UNCHANGED jobVars
    /\ UNCHANGED <<env, jobOf, alive, itemVars, todo, cur, attempt, verdict,
                   reviewVars, checked>>

UnapprovedToLoad(j) ==   \* mutant: items in review are discovered again
    {i \in ItemsOf(j) : itemStatus[i] \in {"QUEUED", "APPROVED"}}
ItemsToLoad(j) == {i \in ItemsOf(j) : itemStatus[i] = "QUEUED"}

LoadItems(w, j) ==
    /\ w \in alive
    /\ pc[w][j] = "load"
    /\ todo' = [todo EXCEPT ![w][j] = ItemsToLoad(j)]
    /\ Move(w, j, "loop")
    /\ UNCHANGED <<env, jobOf, alive, jobVars, itemVars, cur, attempt, verdict,
                   reviewVars, checked>>

StartItem(w, j) ==
    /\ w \in alive
    /\ pc[w][j] = "loop"
    /\ \E i \in todo[w][j] :
          /\ todo' = [todo EXCEPT ![w][j] = @ \ {i}]
          /\ cur' = [cur EXCEPT ![w][j] = i]
          /\ itemStatus' = [itemStatus EXCEPT ![i] = "RUNNING"]
    /\ attempt' = [attempt EXCEPT ![w][j] = 1]
    /\ Move(w, j, "discover")
    /\ UNCHANGED <<env, jobOf, alive, jobVars, candidates, deadLetter, verdict,
                   reviewVars, checked>>

MayRetry(w, j) == attempt[w][j] < MaxAttempts

(* A turn of runWithRetry: credible candidates (scoreFitmentCandidate above  *)
(* zero), none, an error to retry, or one that ends the attempts.            *)
Discover(w, j) ==
    /\ w \in alive
    /\ pc[w][j] = "discover"
    /\ \/ \E outcome \in {"found", "nothing", "fail"} : Move(w, j, outcome) /\ UNCHANGED attempt
       \/ /\ MayRetry(w, j)
          /\ attempt' = [attempt EXCEPT ![w][j] = @ + 1]
          /\ UNCHANGED pc
    /\ UNCHANGED <<env, jobOf, alive, jobVars, itemVars, todo, cur, verdict,
                   reviewVars, checked>>

Resolved(i) == IF deadLetter[i] = "REQUEUED" THEN "RESOLVED" ELSE deadLetter[i]

(* The result transaction; candidates that are there already break the       *)
(* unique key on item and ePID, and the handler fails the item.              *)
CommitFound(w, j) ==
    LET i == cur[w][j] IN
    /\ w \in alive
    /\ pc[w][j] = "found"
    /\ \/ /\ i \notin candidates
          /\ candidates' = candidates \cup {i}
          /\ itemStatus' = [itemStatus EXCEPT ![i] = "REVIEW_REQUIRED"]
          /\ deadLetter' = [deadLetter EXCEPT ![i] = Resolved(i)]
          /\ Move(w, j, "renew")
       \/ /\ i \in candidates \/ "dbErrors" \in env
          /\ Move(w, j, "fail")
          /\ UNCHANGED itemVars
    /\ UNCHANGED <<env, jobOf, alive, jobVars, todo, cur, attempt, verdict,
                   reviewVars, checked>>

CommitNothing(w, j) ==
    LET i == cur[w][j] IN
    /\ w \in alive
    /\ pc[w][j] = "nothing"
    /\ itemStatus' = [itemStatus EXCEPT ![i] = "NO_CANDIDATE"]
    /\ deadLetter' = [deadLetter EXCEPT ![i] = Resolved(i)]
    /\ Move(w, j, "renew")
    /\ UNCHANGED <<env, jobOf, alive, jobVars, candidates, todo, cur, attempt,
                   verdict, reviewVars, checked>>

CapturedOnce(i) == IF deadLetter[i] = "none" THEN "OPEN" ELSE deadLetter[i]   \* mutant
Captured(i) == "OPEN"

FailItem(w, j) ==
    LET i == cur[w][j] IN
    /\ w \in alive
    /\ pc[w][j] = "fail"
    /\ itemStatus' = [itemStatus EXCEPT ![i] = "FAILED"]
    /\ deadLetter' = [deadLetter EXCEPT ![i] = Captured(i)]
    /\ Move(w, j, "renew")
    /\ UNCHANGED <<env, jobOf, alive, jobVars, candidates, todo, cur, attempt,
                   verdict, reviewVars, checked>>

Owns(w, j) == jobStatus[j] = "RUNNING" /\ leaseOwner[j] = w

RenewAfterItem(w, j) ==
    /\ w \in alive
    /\ pc[w][j] = "renew"
    /\ lease' = IF Owns(w, j) THEN [lease EXCEPT ![j] = "live"] ELSE lease
    /\ cur' = [cur EXCEPT ![w][j] = NoItem]
    /\ attempt' = [attempt EXCEPT ![w][j] = 0]
    /\ Move(w, j, "read")
    /\ UNCHANGED <<env, jobOf, alive, jobStatus, leaseOwner, itemVars, todo,
                   verdict, reviewVars, checked>>

(* jobStatus over the items as they are.                                     *)
StatusIgnoringReview(j) ==   \* mutant: items in review do not keep the job in review
    LET failed == {i \in ItemsOf(j) : itemStatus[i] = "FAILED"} IN
    IF \E i \in ItemsOf(j) : itemStatus[i] \notin Settled THEN "RUNNING"
    ELSE IF failed = ItemsOf(j) THEN "FAILED"
    ELSE IF failed # {} THEN "PARTIAL" ELSE "COMPLETED"

StatusOfJob(j) ==
    LET failed == {i \in ItemsOf(j) : itemStatus[i] = "FAILED"} IN
    IF \E i \in ItemsOf(j) : itemStatus[i] \notin Settled THEN "RUNNING"
    ELSE IF \E i \in ItemsOf(j) : itemStatus[i] = "REVIEW_REQUIRED" THEN "REVIEW_REQUIRED"
    ELSE IF failed = ItemsOf(j) THEN "FAILED"
    ELSE IF failed # {} THEN "PARTIAL" ELSE "COMPLETED"

(* refreshFitmentJob reads the items in one statement and writes the job in  *)
(* another; a finished verdict also gives the lease up.                      *)
ReadItems(w, j) ==
    /\ w \in alive
    /\ pc[w][j] = "read"
    /\ verdict' = [verdict EXCEPT ![w][j] = StatusOfJob(j)]
    /\ Move(w, j, "write")
    /\ UNCHANGED <<env, jobOf, alive, jobVars, itemVars, todo, cur, attempt,
                   reviewVars, checked>>

SetJob(j, status) ==
    /\ jobStatus' = [jobStatus EXCEPT ![j] = status]
    /\ IF status \in Finished
       THEN /\ leaseOwner' = [leaseOwner EXCEPT ![j] = NoInstance]
            /\ lease' = [lease EXCEPT ![j] = "none"]
       ELSE UNCHANGED <<leaseOwner, lease>>

WriteJob(w, j) ==
    /\ w \in alive
    /\ pc[w][j] = "write"
    /\ IF Owns(w, j) THEN SetJob(j, verdict[w][j]) ELSE UNCHANGED jobVars
    /\ verdict' = [verdict EXCEPT ![w][j] = "none"]
    /\ Move(w, j, "loop")
    /\ UNCHANGED <<env, jobOf, alive, itemVars, todo, cur, attempt, reviewVars,
                   checked>>

EndRun(w, j) ==
    /\ w \in alive
    /\ pc[w][j] = "loop"
    /\ todo[w][j] = {}
    /\ Move(w, j, "idle")
    /\ UNCHANGED <<env, jobOf, alive, jobVars, itemVars, todo, cur, attempt,
                   verdict, reviewVars, checked>>

Forget(w, j) ==
    /\ todo' = [todo EXCEPT ![w][j] = {}]
    /\ cur' = [cur EXCEPT ![w][j] = NoItem]
    /\ attempt' = [attempt EXCEPT ![w][j] = 0]
    /\ verdict' = [verdict EXCEPT ![w][j] = "none"]

(* The catch block of runFitmentJob, whose own update may fail too.          *)
FailJob(w, j) ==
    /\ w \in alive
    /\ pc[w][j] = "catch"
    /\ \/ Owns(w, j) /\ SetJob(j, "FAILED")
       \/ (~Owns(w, j) \/ "dbErrors" \in env) /\ UNCHANGED jobVars
    /\ Move(w, j, "idle")
    /\ Forget(w, j)
    /\ UNCHANGED <<env, jobOf, alive, itemVars, reviewVars, checked>>

DbError(w, j) ==
    /\ "dbErrors" \in env
    /\ w \in alive
    /\ \/ pc[w][j] = "nothing" /\ Move(w, j, "fail")
       \/ /\ pc[w][j] \in {"claim", "load", "loop", "fail", "renew", "read", "write"}
          /\ Move(w, j, "catch")
    /\ UNCHANGED <<env, jobOf, alive, jobVars, itemVars, todo, cur, attempt,
                   verdict, reviewVars, checked>>

-----------------------------------------------------------------------------
(* resumeInterruptedFitmentJobs: a RUNNING job without a live lease, or      *)
(* without any, goes back to the queue with its RUNNING items.               *)
NotReset(j) == itemStatus   \* mutant
Reset(j) == [i \in Item |-> IF jobOf[i] = j /\ itemStatus[i] = "RUNNING"
                            THEN "QUEUED" ELSE itemStatus[i]]

Reclaimable(j) == jobStatus[j] = "RUNNING" /\ lease[j] # "live"

Reclaim(w, j) ==
    /\ w \in alive
    /\ Reclaimable(j)
    /\ jobStatus' = [jobStatus EXCEPT ![j] = "QUEUED"]
    /\ leaseOwner' = [leaseOwner EXCEPT ![j] = NoInstance]
    /\ lease' = [lease EXCEPT ![j] = "none"]
    /\ itemStatus' = Reset(j)
    /\ UNCHANGED <<env, jobOf, alive, candidates, deadLetter, runnerVars,
                   reviewVars, checked>>

Heartbeat(w) ==
    /\ w \in alive
    /\ lease' = [j \in Job |-> IF Owns(w, j) THEN "live" ELSE lease[j]]
    /\ UNCHANGED <<env, jobOf, alive, jobStatus, leaseOwner, itemVars, runnerVars,
                   reviewVars, checked>>

LeaseExpires(j) ==
    /\ lease[j] = "live"
    /\ \/ leaseOwner[j] \notin alive
       \/ "slowHeartbeats" \in env /\ leaseOwner[j] \in Unreliable
    /\ lease' = [lease EXCEPT ![j] = "expired"]
    /\ UNCHANGED <<env, jobOf, alive, jobStatus, leaseOwner, itemVars, runnerVars,
                   reviewVars, checked>>

Die(w) ==
    /\ "crashes" \in env
    /\ w \in Unreliable \cap alive
    /\ alive' = alive \ {w}
    /\ pc' = [pc EXCEPT ![w] = [j \in Job |-> "idle"]]
    /\ todo' = [todo EXCEPT ![w] = [j \in Job |-> {}]]
    /\ cur' = [cur EXCEPT ![w] = [j \in Job |-> NoItem]]
    /\ attempt' = [attempt EXCEPT ![w] = [j \in Job |-> 0]]
    /\ verdict' = [verdict EXCEPT ![w] = [j \in Job |-> "none"]]
    /\ UNCHANGED <<env, jobOf, jobVars, itemVars, reviewVars, checked>>

-----------------------------------------------------------------------------
(* approveFitmentCandidate: the checks, then a call to eBay, which may end   *)
(* the request, then the transaction, which trusts the checks.               *)
Reviewable(i) == itemStatus[i] = "REVIEW_REQUIRED"

CheckApproval(r) ==
    /\ "reviews" \in env
    /\ step[r] = "idle"
    /\ \E i \in Item : Reviewable(i) /\ under' = [under EXCEPT ![r] = i]
    /\ step' = [step EXCEPT ![r] = "commit"]
    /\ chosen' = chosen \cup {r}
    /\ UNCHANGED <<env, jobOf, alive, jobVars, itemVars, runnerVars, opinion,
                   checked>>

Leave(r) ==
    /\ step' = [step EXCEPT ![r] = "idle"]
    /\ under' = [under EXCEPT ![r] = NoItem]
    /\ opinion' = [opinion EXCEPT ![r] = "none"]
    /\ chosen' = chosen \ {r}

(* The lookup fails or finds nothing, or the transaction does: its candidate *)
(* is gone, or its applications are there already.                           *)
ApprovalFails(r) ==
    /\ step[r] = "commit"
    /\ Leave(r)
    /\ UNCHANGED <<env, jobOf, alive, jobVars, itemVars, runnerVars, checked>>

WithoutCandidate(r) == TRUE   \* mutant: nothing ties the approval to its candidate
HasCandidate(r) == r \in chosen

CommitApproval(r) ==
    LET i == under[r] IN
    /\ step[r] = "commit"
    /\ HasCandidate(r)
    /\ itemStatus' = [itemStatus EXCEPT ![i] = "APPROVED"]
    /\ step' = [step EXCEPT ![r] = "read"]
    /\ UNCHANGED <<env, jobOf, alive, jobVars, candidates, deadLetter, runnerVars,
                   under, opinion, chosen, checked>>

ReadForApproval(r) ==
    /\ step[r] = "read"
    /\ opinion' = [opinion EXCEPT ![r] = StatusOfJob(jobOf[under[r]])]
    /\ step' = [step EXCEPT ![r] = "write"]
    /\ UNCHANGED <<env, jobOf, alive, jobVars, itemVars, runnerVars, under, chosen,
                   checked>>

(* Without a leaseOwner the refresh writes whatever the job is by now; the   *)
(* unique index on active jobs may refuse it.                                *)
WriteForApproval(r) ==
    LET j == jobOf[under[r]] IN
    /\ step[r] = "write"
    /\ IF opinion[r] \in Active /\ ActiveElsewhere(j)
       THEN UNCHANGED jobVars ELSE SetJob(j, opinion[r])
    /\ Leave(r)
    /\ UNCHANGED <<env, jobOf, alive, itemVars, runnerVars, checked>>

-----------------------------------------------------------------------------
(* requeueDeadLetter for a fitment item: the checks, then the transaction.   *)
CheckRequeue(a) ==
    /\ "replays" \in env
    /\ checked[a] = NoItem
    /\ \E i \in Item :
          /\ deadLetter[i] = "OPEN"
          /\ itemStatus[i] = "FAILED"
          /\ jobStatus[jobOf[i]] \notin Active
          /\ checked' = [checked EXCEPT ![a] = i]
    /\ UNCHANGED <<env, jobOf, alive, jobVars, itemVars, runnerVars, reviewVars>>

Requeue(a) ==
    LET i == checked[a]
        j == jobOf[i] IN
    /\ i # NoItem
    /\ checked' = [checked EXCEPT ![a] = NoItem]
    /\ IF ActiveElsewhere(j)
       THEN UNCHANGED <<jobVars, itemVars, chosen>>
       ELSE /\ candidates' = candidates \ {i}
            /\ chosen' = {r \in chosen : under[r] # i}
            /\ itemStatus' = [itemStatus EXCEPT ![i] = "QUEUED"]
            /\ jobStatus' = [jobStatus EXCEPT ![j] = "QUEUED"]
            /\ leaseOwner' = [leaseOwner EXCEPT ![j] = NoInstance]
            /\ lease' = [lease EXCEPT ![j] = "none"]
            /\ deadLetter' = [deadLetter EXCEPT ![i] = "REQUEUED"]
    /\ UNCHANGED <<env, jobOf, alive, runnerVars, step, under, opinion>>

-----------------------------------------------------------------------------
RunnerStep(w, j) ==
    \/ Claim(w, j)       \/ LoadItems(w, j)  \/ StartItem(w, j)      \/ Discover(w, j)
    \/ CommitFound(w, j) \/ CommitNothing(w, j) \/ FailItem(w, j)    \/ RenewAfterItem(w, j)
    \/ ReadItems(w, j)   \/ WriteJob(w, j)   \/ EndRun(w, j)         \/ FailJob(w, j)

ReviewStep(r) ==
    \/ CheckApproval(r)   \/ ApprovalFails(r)    \/ CommitApproval(r)
    \/ ReadForApproval(r) \/ WriteForApproval(r)

Next ==
    \/ \E j \in Job : CreateFitmentJob(j) \/ LeaseExpires(j)
    \/ \E w \in Instance, j \in Job :
          Dispatch(w, j) \/ RunnerStep(w, j) \/ DbError(w, j) \/ Reclaim(w, j)
    \/ \E w \in Instance : Heartbeat(w) \/ Die(w)
    \/ \E r \in Reviewer : ReviewStep(r)
    \/ \E a \in Admin : CheckRequeue(a) \/ Requeue(a)

Spec == Init /\ [][Next]_vars

(* Live workers run and poll, time passes, a request that began goes on;     *)
(* nobody has to create, review, replay or kill anything.                    *)
Fairness ==
    /\ \A w \in Instance, j \in Job :
          WF_vars(RunnerStep(w, j)) /\ WF_vars(Dispatch(w, j)) /\ WF_vars(Reclaim(w, j))
    /\ \A j \in Job : WF_vars(LeaseExpires(j))
    /\ \A r \in Reviewer : WF_vars(step[r] # "idle" /\ ReviewStep(r))

FairSpec == Spec /\ Fairness

-----------------------------------------------------------------------------
\* A failed item is on the administrators' list: its entry is open, also when stale
\* runners, reviewers and replays overlap.
FailedItemsAreListed == \A i \in Item : itemStatus[i] = "FAILED" => deadLetter[i] = "OPEN"

\* A reviewer finds candidates for every item in review, and an approved item keeps the
\* candidates it was approved from, although replays delete them.
ReviewsHaveCandidates ==
    \A i \in Item : itemStatus[i] \in {"REVIEW_REQUIRED", "APPROVED"} => i \in candidates

\* An approval is final: no crash, reclaim or restarted run takes it back.  Where a replay
\* meets a review one may (StartItem writes by id alone), see the README.
ApprovalsAreFinal ==
    [][env \subseteq {"reviews", "crashes"} =>
         \A i \in Item : itemStatus[i] = "APPROVED" => itemStatus'[i] = "APPROVED"]_vars

\* A job is not reported as done while an item waits: COMPLETED, PARTIAL and FAILED
\* mean that nothing is queued, running or in review.
DoneMeansReviewed ==
    env \subseteq {"reviews", "crashes"} =>
        \A j \in Job : jobStatus[j] \in {"COMPLETED", "PARTIAL", "FAILED"} =>
            \A i \in ItemsOf(j) : itemStatus[i] \in {"NO_CANDIDATE", "APPROVED", "FAILED"}

\* Every item that is queued or running settles, with reviews or with replays (both
\* together may lose a replayed item, see the README).
ItemsSettle ==
    env \subseteq {"reviews", "crashes"} \/ env \subseteq {"moreJobs", "replays", "crashes"} =>
        \A i \in Item : itemStatus[i] \in Active ~> itemStatus[i] \in Settled
=============================================================================
