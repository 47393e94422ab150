----------------------------- MODULE PricingJobs -----------------------------
(***************************************************************************)
(* The pricing job queue of one organization: pricing-service.ts, the      *)
(* lease upkeep of worker-operations.ts, the process life of worker.ts and *)
(* the replay of dead letters (dead-letter-service.ts).                    *)
(*                                                                         *)
(* A job is a row of PricingJob, an item a row of PricingJobItem, and an   *)
(* instance is one lifetime of a worker process: worker.ts makes a new     *)
(* instance id on every start, so a dead instance never comes back.        *)
(* Every database statement (or transaction) of a runner is a step of its  *)
(* own, so instances, administrators and faults interleave between them.   *)
(* Time is abstracted: a lease is live or expired, and the constants say   *)
(* when it may expire.  Job ids stand for the parts they were created      *)
(* with: JobOf and PartOf fix them, which loses no order of events.  The   *)
(* outbox and audit rows the transactions append are left out: nothing     *)
(* here reads them.                                                        *)
(***************************************************************************)
EXTENDS Naturals, FiniteSets

CONSTANTS
    Instance,       \* worker process lifetimes
    Mortal,         \* the instances that may be shut down or killed
    Job, Item, Part,
    JobOf,          \* the job of each item
    PartOf,         \* the catalog part of each item
    Admin,          \* administrators (requests) replaying dead letters
    NoInstance, NoItem,
    MaxAttempts,    \* WORKER_MAX_ATTEMPTS
    SlowHeartbeats, \* may a lease expire although its owner is running?
    DrainTimeout,   \* may a shutdown give up on work that does not drain?
    DbErrors        \* may a database call of a runner fail?

ASSUME PricingAssumption ==
    /\ Mortal \subseteq Instance
    /\ IsFiniteSet(Item)
    /\ JobOf \in [Item -> Job]
    /\ PartOf \in [Item -> Part]
    /\ NoInstance \notin Instance
    /\ NoItem \notin Item
    /\ MaxAttempts \in Nat \ {0}
    /\ SlowHeartbeats \in BOOLEAN
    /\ DrainTimeout \in BOOLEAN
    /\ DbErrors \in BOOLEAN

VARIABLES
    inst,           \* the life of each worker process
    jobStatus,      \* PricingJob.status, "none" before the row exists
    leaseOwner,     \* PricingJob.leaseOwner
    lease,          \* PricingJob.leaseExpiresAt against the clock
    tally,          \* PricingJob.completedItems, noMatchItems, failedItems
    itemStatus,     \* PricingJobItem.status
    evidence,       \* items with CompetitorListingSnapshot rows
    proposal,       \* the PricingProposal row of each item
    deadLetter,     \* DeadLetterEntry.status of each item
    pc, todo, cur, attempt, seen,  \* runPricingJob per instance and job
    checked         \* the item each administrator's request has checked

runnerVars == <<pc, todo, cur, attempt, seen>>
jobVars    == <<jobStatus, leaseOwner, lease, tally>>
itemVars   == <<itemStatus, evidence, proposal, deadLetter>>
vars       == <<inst, jobVars, itemVars, runnerVars, checked>>

-----------------------------------------------------------------------------
Active   == {"QUEUED", "RUNNING"}
Settled  == {"COMPLETED", "NO_MATCHES", "FAILED"}   \* terminalItemStatuses
Finished == {"COMPLETED", "PARTIAL", "FAILED"}
Running(w) == inst[w] \in {"up", "stopping", "stopped"}
ItemsOf(j) == {i \in Item : JobOf[i] = j}
NoTally == [completed |-> 0, noMatch |-> 0, failed |-> 0]

TypeOK ==
    /\ inst \in [Instance -> {"new", "up", "stopping", "stopped", "dead"}]
    /\ jobStatus \in [Job -> {"none"} \cup Active \cup Finished]
    /\ leaseOwner \in [Job -> Instance \cup {NoInstance}]
    /\ lease \in [Job -> {"none", "live", "expired"}]
    /\ tally \in [Job -> [completed : Nat, noMatch : Nat, failed : Nat]]
    /\ itemStatus \in [Item -> {"none"} \cup Active \cup Settled]
    /\ evidence \in SUBSET Item
    /\ proposal \in [Item -> {"none", "current", "superseded"}]
    /\ deadLetter \in [Item -> {"none", "OPEN", "REQUEUED", "RESOLVED"}]
    /\ pc \in [Instance -> [Job -> {"idle", "claim", "load", "loop", "search", "matched", "unmatched",
                          "fail", "renew", "read", "write", "catch"}]]
    /\ todo \in [Instance -> [Job -> SUBSET Item]]
    /\ cur \in [Instance -> [Job -> Item \cup {NoItem}]]
    /\ attempt \in [Instance -> [Job -> 0..MaxAttempts]]
    /\ seen \in [Instance -> [Job -> [Item -> {"none"} \cup Active \cup Settled]]]
    /\ checked \in [Admin -> Item \cup {NoItem}]

NothingSeen == [i \in Item |-> "none"]

Init ==
    /\ inst = [w \in Instance |-> "new"]
    /\ jobStatus = [j \in Job |-> "none"]
    /\ leaseOwner = [j \in Job |-> NoInstance]
    /\ lease = [j \in Job |-> "none"]
    /\ tally = [j \in Job |-> NoTally]
    /\ itemStatus = [i \in Item |-> "none"]
    /\ evidence = {}
    /\ proposal = [i \in Item |-> "none"]
    /\ deadLetter = [i \in Item |-> "none"]
    /\ pc = [w \in Instance |-> [j \in Job |-> "idle"]]
    /\ todo = [w \in Instance |-> [j \in Job |-> {}]]
    /\ cur = [w \in Instance |-> [j \in Job |-> NoItem]]
    /\ attempt = [w \in Instance |-> [j \in Job |-> 0]]
    /\ seen = [w \in Instance |-> [j \in Job |-> NothingSeen]]
    /\ checked = [a \in Admin |-> NoItem]

-----------------------------------------------------------------------------
(* createPricingJob: the check for an active job and the partial unique    *)
(* index of migration 20260720041000 refuse the same jobs, so the read     *)
(* before the transaction adds nothing.                                    *)
ActiveElsewhere(j) == \E k \in Job \ {j} : jobStatus[k] \in Active

CreatePricingJob(j) ==
    /\ jobStatus[j] = "none"
    /\ ~ActiveElsewhere(j)
    /\ jobStatus' = [jobStatus EXCEPT ![j] = "QUEUED"]
    /\ itemStatus' = [i \in Item |-> IF JobOf[i] = j THEN "QUEUED" ELSE itemStatus[i]]
    /\ UNCHANGED <<inst, leaseOwner, lease, tally, evidence, proposal, deadLetter,
                   runnerVars, checked>>

(* A poll that began before a shutdown may still act during it; a poll the *)
(* shutdown did not outlast counts as work that did not drain.             *)
Polling(w) == inst[w] \in {"up", "stopping"}

Claimable(j) == jobStatus[j] = "QUEUED"

(* startQueuedPricingJobs reads the queued jobs and starts a runner for    *)
(* each the process is not at work on: its activeJobs set is pc # "idle".  *)
Dispatch(w, j) ==
    /\ Polling(w)
    /\ pc[w][j] = "idle"
    /\ jobStatus[j] = "QUEUED"
    /\ pc' = [pc EXCEPT ![w][j] = "claim"]
    /\ UNCHANGED <<inst, jobVars, itemVars, todo, cur, attempt, seen, checked>>

(* The conditional update that begins runPricingJob: of the instances that *)
(* read the same queued job, one finds it still queued.                    *)
Claim(w, j) ==
    /\ Running(w)
    /\ pc[w][j] = "claim"
    /\ Claimable(j)
    /\ jobStatus' = [jobStatus EXCEPT ![j] = "RUNNING"]
    /\ leaseOwner' = [leaseOwner EXCEPT ![j] = w]
    /\ lease' = [lease EXCEPT ![j] = "live"]
    /\ pc' = [pc EXCEPT ![w][j] = "load"]
    /\ UNCHANGED <<inst, tally, itemVars, todo, cur, attempt, seen, checked>>

ClaimLost(w, j) ==
    /\ Running(w)
    /\ pc[w][j] = "claim"
    /\ ~Claimable(j)
    /\ pc' = [pc EXCEPT ![w][j] = "idle"]
    /\ UNCHANGED <<inst, jobVars, itemVars, todo, cur, attempt, seen, checked>>

(* The items still QUEUED are read once; the loop never looks again.       *)
UnfinishedToLoad(j) == {i \in ItemsOf(j) : itemStatus[i] # "NO_MATCHES"}   \* mutant
ItemsToLoad(j) == {i \in ItemsOf(j) : itemStatus[i] = "QUEUED"}

LoadItems(w, j) ==
    /\ Running(w)
    /\ pc[w][j] = "load"
    /\ todo' = [todo EXCEPT ![w][j] = ItemsToLoad(j)]
    /\ pc' = [pc EXCEPT ![w][j] = "loop"]
    /\ UNCHANGED <<inst, jobVars, itemVars, cur, attempt, seen, checked>>

(* processPricingItem begins with an unconditional update of the item.     *)
StartItem(w, j) ==
    /\ Running(w)
    /\ pc[w][j] = "loop"
    /\ \E i \in todo[w][j] :
          /\ todo' = [todo EXCEPT ![w][j] = @ \ {i}]
          /\ cur' = [cur EXCEPT ![w][j] = i]
          /\ itemStatus' = [itemStatus EXCEPT ![i] = "RUNNING"]
    /\ attempt' = [attempt EXCEPT ![w][j] = 1]
    /\ pc' = [pc EXCEPT ![w][j] = "search"]
    /\ UNCHANGED <<inst, jobVars, evidence, proposal, deadLetter, seen, checked>>

(* One turn of runWithRetry around searchEbay: listings, none, an error    *)
(* worth retrying, or one that is permanent or comes on the last attempt.  *)
MayRetryOnceMore(w, j) == attempt[w][j] <= MaxAttempts   \* mutant
MayRetry(w, j) == attempt[w][j] < MaxAttempts

Search(w, j) ==
    /\ Running(w)
    /\ pc[w][j] = "search"
    /\ \/ /\ pc' \in {[pc EXCEPT ![w][j] = s] : s \in {"matched", "unmatched", "fail"}}
          /\ UNCHANGED attempt
       \/ /\ MayRetry(w, j)
          /\ attempt' = [attempt EXCEPT ![w][j] = @ + 1]
          /\ UNCHANGED pc
    /\ UNCHANGED <<inst, jobVars, itemVars, todo, cur, seen, checked>>

NeverResolved(i) == deadLetter[i]   \* mutant
Resolved(i) == IF deadLetter[i] = "REQUEUED" THEN "RESOLVED" ELSE deadLetter[i]

(* A transaction that commits may still be reported as failed when its     *)
(* connection is lost; the runner then takes the path of an error.         *)
After(w, j, ok, err) ==
    pc' \in {[pc EXCEPT ![w][j] = s] : s \in IF DbErrors THEN {ok, err} ELSE {ok}}

(* The result transaction for a search with matches: snapshots, item,      *)
(* proposal (which supersedes the part's earlier ones), dead letter.  The  *)
(* unique keys on the item's snapshots and proposal abort the whole        *)
(* transaction when a proposal is there already, and the handler turns     *)
(* that into a failed item.                                                *)
CommitMatches(w, j) ==
    LET i == cur[w][j] IN
    /\ Running(w)
    /\ pc[w][j] = "matched"
    /\ proposal[i] = "none"
    /\ evidence' = evidence \cup {i}
    /\ itemStatus' = [itemStatus EXCEPT ![i] = "COMPLETED"]
    /\ proposal' = [k \in Item |->
                      IF k = i THEN "current"
                      ELSE IF PartOf[k] = PartOf[i] /\ proposal[k] = "current"
                           THEN "superseded" ELSE proposal[k]]
    /\ deadLetter' = [deadLetter EXCEPT ![i] = Resolved(i)]
    /\ After(w, j, "renew", "fail")
    /\ UNCHANGED <<inst, jobVars, todo, cur, attempt, seen, checked>>

CommitSkipped(w, j) ==   \* mutant: a proposal that exists counts as success
    LET i == cur[w][j] IN
    /\ Running(w)
    /\ pc[w][j] = "matched"
    /\ proposal[i] # "none"
    /\ itemStatus' = [itemStatus EXCEPT ![i] = "COMPLETED"]
    /\ pc' = [pc EXCEPT ![w][j] = "renew"]
    /\ UNCHANGED <<inst, jobVars, evidence, proposal, deadLetter, todo, cur,
                   attempt, seen, checked>>

CommitRefused(w, j) ==
    /\ Running(w)
    /\ pc[w][j] = "matched"
    /\ proposal[cur[w][j]] # "none"
    /\ pc' = [pc EXCEPT ![w][j] = "fail"]
    /\ UNCHANGED <<inst, jobVars, itemVars, todo, cur, attempt, seen, checked>>

(* The same transaction without listings: no snapshot and no proposal.     *)
CommitNoMatches(w, j) ==
    LET i == cur[w][j] IN
    /\ Running(w)
    /\ pc[w][j] = "unmatched"
    /\ itemStatus' = [itemStatus EXCEPT ![i] = "NO_MATCHES"]
    /\ deadLetter' = [deadLetter EXCEPT ![i] = Resolved(i)]
    /\ After(w, j, "renew", "fail")
    /\ UNCHANGED <<inst, jobVars, evidence, proposal, todo, cur, attempt, seen,
                   checked>>

(* captureDeadLetter is an upsert: an entry of an earlier failure reopens. *)
CapturedOnce(i) == IF deadLetter[i] = "none" THEN "OPEN" ELSE deadLetter[i]   \* mutant
Captured(i) == "OPEN"

(* The catch block: item and dead letter fail in one transaction.          *)
FailItem(w, j) ==
    LET i == cur[w][j] IN
    /\ Running(w)
    /\ pc[w][j] = "fail"
    /\ itemStatus' = [itemStatus EXCEPT ![i] = "FAILED"]
    /\ deadLetter' = [deadLetter EXCEPT ![i] = Captured(i)]
    /\ After(w, j, "renew", "catch")
    /\ UNCHANGED <<inst, jobVars, evidence, proposal, todo, cur, attempt, seen,
                   checked>>

Owns(w, j) == jobStatus[j] = "RUNNING" /\ leaseOwner[j] = w

(* The lease extension after every item, conditional on still owning it.   *)
RenewAfterItem(w, j) ==
    /\ Running(w)
    /\ pc[w][j] = "renew"
    /\ lease' = IF Owns(w, j) THEN [lease EXCEPT ![j] = "live"] ELSE lease
    /\ cur' = [cur EXCEPT ![w][j] = NoItem]
    /\ attempt' = [attempt EXCEPT ![w][j] = 0]
    /\ pc' = [pc EXCEPT ![w][j] = "read"]
    /\ UNCHANGED <<inst, jobStatus, leaseOwner, tally, itemVars, todo, seen, checked>>

(* refreshJobProgress reads the statuses in one statement ...              *)
ReadProgress(w, j) ==
    /\ Running(w)
    /\ pc[w][j] = "read"
    /\ seen' = [seen EXCEPT ![w][j] =
                  [i \in Item |-> IF JobOf[i] = j THEN itemStatus[i] ELSE "none"]]
    /\ pc' = [pc EXCEPT ![w][j] = "write"]
    /\ UNCHANGED <<inst, jobVars, itemVars, todo, cur, attempt, checked>>

\* publicJobStatus over the statuses st of the items of j.
PublicIgnoringQueued(j, st) ==   \* mutant: only RUNNING items keep the job running
    LET failed == {i \in ItemsOf(j) : st[i] = "FAILED"} IN
    IF \E i \in ItemsOf(j) : st[i] = "RUNNING" THEN "RUNNING"
    ELSE IF failed = ItemsOf(j) THEN "FAILED"
    ELSE IF failed # {} THEN "PARTIAL" ELSE "COMPLETED"

PublicJobStatus(j, st) ==
    LET failed == {i \in ItemsOf(j) : st[i] = "FAILED"} IN
    IF \E i \in ItemsOf(j) : st[i] \notin Settled THEN "RUNNING"
    ELSE IF failed = ItemsOf(j) THEN "FAILED"
    ELSE IF failed # {} THEN "PARTIAL" ELSE "COMPLETED"

CountOf(j, st, s) == Cardinality({i \in ItemsOf(j) : st[i] = s})

Released(status) == status \in Finished

(* ... and writes the job in another, if it is still the owner's.          *)
WriteProgress(w, j) ==
    LET status == PublicJobStatus(j, seen[w][j]) IN
    /\ Running(w)
    /\ pc[w][j] = "write"
    /\ IF Owns(w, j)
       THEN /\ jobStatus' = [jobStatus EXCEPT ![j] = status]
            /\ tally' = [tally EXCEPT ![j] =
                 [completed |-> CountOf(j, seen[w][j], "COMPLETED"),
                  noMatch   |-> CountOf(j, seen[w][j], "NO_MATCHES"),
                  failed    |-> CountOf(j, seen[w][j], "FAILED")]]
            /\ IF Released(status)
               THEN /\ leaseOwner' = [leaseOwner EXCEPT ![j] = NoInstance]
                    /\ lease' = [lease EXCEPT ![j] = "none"]
               ELSE UNCHANGED <<leaseOwner, lease>>
       ELSE UNCHANGED jobVars
    /\ seen' = [seen EXCEPT ![w][j] = NothingSeen]
    /\ pc' = [pc EXCEPT ![w][j] = "loop"]
    /\ UNCHANGED <<inst, itemVars, todo, cur, attempt, checked>>

(* The loop ran out of items: the finally block leaves activeJobs.  A job  *)
(* whose items were all settled when it was claimed comes here at once.    *)
EndRun(w, j) ==
    /\ Running(w)
    /\ pc[w][j] = "loop"
    /\ todo[w][j] = {}
    /\ pc' = [pc EXCEPT ![w][j] = "idle"]
    /\ UNCHANGED <<inst, jobVars, itemVars, todo, cur, attempt, seen, checked>>

ForgetRun(w, j) ==
    /\ todo' = [todo EXCEPT ![w][j] = {}]
    /\ cur' = [cur EXCEPT ![w][j] = NoItem]
    /\ attempt' = [attempt EXCEPT ![w][j] = 0]
    /\ seen' = [seen EXCEPT ![w][j] = NothingSeen]

(* The catch block of runPricingJob.                                       *)
FailJob(w, j) ==
    /\ Running(w)
    /\ pc[w][j] = "catch"
    /\ IF Owns(w, j)
       THEN /\ jobStatus' = [jobStatus EXCEPT ![j] = "FAILED"]
            /\ leaseOwner' = [leaseOwner EXCEPT ![j] = NoInstance]
            /\ lease' = [lease EXCEPT ![j] = "none"]
            /\ UNCHANGED tally
       ELSE UNCHANGED jobVars
    /\ pc' = [pc EXCEPT ![w][j] = "idle"]
    /\ ForgetRun(w, j)
    /\ UNCHANGED <<inst, itemVars, checked>>

-----------------------------------------------------------------------------
(* Faults of a runner's database calls: in the result transaction they     *)
(* fail the item, elsewhere they leave the loop, and in the last catch     *)
(* block they are swallowed.                                               *)
DbError(w, j) ==
    /\ DbErrors
    /\ Running(w)
    /\ \/ /\ pc[w][j] \in {"matched", "unmatched"}
          /\ pc' = [pc EXCEPT ![w][j] = "fail"]
          /\ UNCHANGED <<todo, cur, attempt, seen>>
       \/ /\ pc[w][j] \in {"claim", "load", "loop", "fail", "renew", "read", "write"}
          /\ pc' = [pc EXCEPT ![w][j] = "catch"]
          /\ UNCHANGED <<todo, cur, attempt, seen>>
       \/ /\ pc[w][j] = "catch"
          /\ pc' = [pc EXCEPT ![w][j] = "idle"]
          /\ ForgetRun(w, j)
    /\ UNCHANGED <<inst, jobVars, itemVars, checked>>

ReclaimableAnyway(j) == jobStatus[j] = "RUNNING"   \* mutant
Reclaimable(j) == jobStatus[j] = "RUNNING" /\ lease[j] # "live"

NotReset(j) == itemStatus   \* mutant
Reset(j) == [i \in Item |-> IF JobOf[i] = j /\ itemStatus[i] = "RUNNING"
                            THEN "QUEUED" ELSE itemStatus[i]]

(* The poll of a live worker: a RUNNING job without a live lease goes back *)
(* to QUEUED with its RUNNING items, in one transaction.                   *)
Reclaim(w, j) ==
    /\ Polling(w)
    /\ Reclaimable(j)
    /\ jobStatus' = [jobStatus EXCEPT ![j] = "QUEUED"]
    /\ leaseOwner' = [leaseOwner EXCEPT ![j] = NoInstance]
    /\ lease' = [lease EXCEPT ![j] = "none"]
    /\ itemStatus' = Reset(j)
    /\ UNCHANGED <<inst, tally, evidence, proposal, deadLetter, runnerVars, checked>>

(* renewWorkerJobLeases, called with every heartbeat until the instance    *)
(* has stopped: it renews whatever RUNNING job carries its id.             *)
Heartbeat(w) ==
    /\ inst[w] \in {"up", "stopping"}
    /\ lease' = [j \in Job |-> IF Owns(w, j) THEN "live" ELSE lease[j]]
    /\ UNCHANGED <<inst, jobStatus, leaseOwner, tally, itemVars, runnerVars, checked>>

(* The clock passes leaseExpiresAt.  A healthy owner renews three times    *)
(* within a lease, so unless SlowHeartbeats only a job whose owner has     *)
(* stopped beating loses it.                                               *)
LeaseExpires(j) ==
    /\ lease[j] = "live"
    /\ SlowHeartbeats \/ inst[leaseOwner[j]] \in {"stopped", "dead"}
    /\ lease' = [lease EXCEPT ![j] = "expired"]
    /\ UNCHANGED <<inst, jobStatus, leaseOwner, tally, itemVars, runnerVars, checked>>

-----------------------------------------------------------------------------
(* The life of a worker process (worker.ts start, shutdown).               *)
StartInstance(w) ==
    /\ inst[w] = "new"
    /\ inst' = [inst EXCEPT ![w] = "up"]
    /\ UNCHANGED <<jobVars, itemVars, runnerVars, checked>>

BeginShutdown(w) ==
    /\ w \in Mortal
    /\ inst[w] = "up"
    /\ inst' = [inst EXCEPT ![w] = "stopping"]
    /\ UNCHANGED <<jobVars, itemVars, runnerVars, checked>>

(* The drain loop ends when no job is active, or at the deadline; then the *)
(* heartbeat stops.  Nothing cancels a runner that is still at work.       *)
EndShutdown(w) ==
    /\ inst[w] = "stopping"
    /\ DrainTimeout \/ \A j \in Job : pc[w][j] = "idle"
    /\ inst' = [inst EXCEPT ![w] = "stopped"]
    /\ UNCHANGED <<jobVars, itemVars, runnerVars, checked>>

Die(w) ==
    /\ w \in Mortal
    /\ Running(w)
    /\ inst' = [inst EXCEPT ![w] = "dead"]
    /\ pc' = [pc EXCEPT ![w] = [j \in Job |-> "idle"]]
    /\ todo' = [todo EXCEPT ![w] = [j \in Job |-> {}]]
    /\ cur' = [cur EXCEPT ![w] = [j \in Job |-> NoItem]]
    /\ attempt' = [attempt EXCEPT ![w] = [j \in Job |-> 0]]
    /\ seen' = [seen EXCEPT ![w] = [j \in Job |-> NothingSeen]]
    /\ UNCHANGED <<jobVars, itemVars, checked>>

-----------------------------------------------------------------------------
(* requeueDeadLetter reads the entry, the item and the job first.  A       *)
(* FAILED item's entry is OPEN (FailedItemsAreListed), so the two reads    *)
(* pass together whenever the second one does.                             *)
CheckRequeue(a) ==
    /\ checked[a] = NoItem
    /\ \E i \in Item :
          /\ deadLetter[i] = "OPEN"
          /\ itemStatus[i] = "FAILED"
          /\ jobStatus[JobOf[i]] \notin Active
          /\ checked' = [checked EXCEPT ![a] = i]
    /\ UNCHANGED <<inst, jobVars, itemVars, runnerVars>>

(* The transaction that follows trusts those reads: its updates are by id. *)
Requeue(a) ==
    LET i == checked[a]
        j == JobOf[checked[a]] IN
    /\ i # NoItem
    /\ ~ActiveElsewhere(j)
    /\ evidence' = evidence \ {i}
    /\ itemStatus' = [itemStatus EXCEPT ![i] = "QUEUED"]
    /\ jobStatus' = [jobStatus EXCEPT ![j] = "QUEUED"]
    /\ leaseOwner' = [leaseOwner EXCEPT ![j] = NoInstance]
    /\ lease' = [lease EXCEPT ![j] = "none"]
    /\ deadLetter' = [deadLetter EXCEPT ![i] = "REQUEUED"]
    /\ checked' = [checked EXCEPT ![a] = NoItem]
    /\ UNCHANGED <<inst, tally, proposal, runnerVars>>

(* The unique index on active jobs refuses it: HTTP 409, nothing changes.  *)
RequeueRefused(a) ==
    /\ checked[a] # NoItem
    /\ ActiveElsewhere(JobOf[checked[a]])
    /\ checked' = [checked EXCEPT ![a] = NoItem]
    /\ UNCHANGED <<inst, jobVars, itemVars, runnerVars>>

-----------------------------------------------------------------------------
RunnerStep(w, j) ==
    \/ Claim(w, j)          \/ ClaimLost(w, j)
    \/ LoadItems(w, j)      \/ StartItem(w, j)      \/ Search(w, j)
    \/ CommitMatches(w, j)  \/ CommitRefused(w, j)  \/ CommitNoMatches(w, j)
    \/ FailItem(w, j)       \/ RenewAfterItem(w, j) \/ ReadProgress(w, j)
    \/ WriteProgress(w, j)  \/ EndRun(w, j)         \/ FailJob(w, j)

Next ==
    \/ \E j \in Job : CreatePricingJob(j) \/ LeaseExpires(j)
    \/ \E w \in Instance, j \in Job :
          Dispatch(w, j) \/ RunnerStep(w, j) \/ DbError(w, j) \/ Reclaim(w, j)
    \/ \E w \in Instance :
          Heartbeat(w) \/ StartInstance(w) \/ BeginShutdown(w) \/ EndShutdown(w) \/ Die(w)
    \/ \E a \in Admin : CheckRequeue(a) \/ Requeue(a) \/ RequeueRefused(a)

Spec == Init /\ [][Next]_vars

(* A running process executes its runners and polls; the clock passes the  *)
(* lease of a silent owner; the platform starts every instance.  Nobody    *)
(* has to create, replay, shut down or kill anything.                      *)
Fairness ==
    /\ \A w \in Instance, j \in Job :
          /\ WF_vars(RunnerStep(w, j))
          /\ WF_vars(inst[w] = "up" /\ Dispatch(w, j))
          /\ WF_vars(inst[w] = "up" /\ Reclaim(w, j))
    /\ \A j \in Job : WF_vars(LeaseExpires(j))
    /\ \A w \in Instance : WF_vars(StartInstance(w))

FairSpec == Spec /\ Fairness

-----------------------------------------------------------------------------
(* Properties that hold whatever fails: leases may expire under a running  *)
(* owner, database calls fail, administrators replay concurrently.         *)

\* An item that failed is on the administrators' list: its dead letter is open
\* (captureDeadLetter in the transaction that fails the item).
FailedItemsAreListed == \A i \in Item : itemStatus[i] = "FAILED" => deadLetter[i] = "OPEN"

\* A dead letter marked REQUEUED has its item in the queue or in work: it is
\* resolved or reopened in the transaction that settles the item.
RequeuedItemsArePending == \A i \in Item : deadLetter[i] = "REQUEUED" => itemStatus[i] \in Active

\* A job has an owner and a lease exactly while it is RUNNING, through claims,
\* reclaims, progress updates, failures and replays.
LeaseMatchesStatus ==
    \A j \in Job : /\ (jobStatus[j] = "RUNNING") <=> (leaseOwner[j] # NoInstance)
                   /\ (jobStatus[j] = "RUNNING") <=> (lease[j] # "none")

\* A completed item shows the listings and the proposal it was completed with,
\* although a replay deletes the listings and a stale runner may come late.
CompletedItemsHaveEvidence ==
    \A i \in Item : itemStatus[i] = "COMPLETED" => i \in evidence /\ proposal[i] # "none"

-----------------------------------------------------------------------------
(* Properties of timely heartbeats (SlowHeartbeats and DrainTimeout FALSE) *)
(* and of replays that do not overlap (one administrator).                 *)

\* Whoever works on an item owns its job, so no two instances price one item.
ExclusiveProcessing ==
    \A w \in Instance, j \in Job :
        pc[w][j] \in {"search", "matched", "unmatched", "fail"} => Owns(w, j)

\* A job reported as COMPLETED or PARTIAL is over: every item is settled, the
\* counters are those of the items, and PARTIAL means that some item failed and
\* some item did not.
FinishedJobsAreSettled ==
    \A j \in Job : jobStatus[j] \in {"COMPLETED", "PARTIAL"} =>
        /\ \A i \in ItemsOf(j) : itemStatus[i] \in {"COMPLETED", "NO_MATCHES", "FAILED"}
        /\ tally[j] = [completed |-> CountOf(j, itemStatus, "COMPLETED"),
                       noMatch   |-> CountOf(j, itemStatus, "NO_MATCHES"),
                       failed    |-> CountOf(j, itemStatus, "FAILED")]
        /\ (jobStatus[j] = "PARTIAL") <=> (tally[j].failed > 0)
        /\ tally[j].failed < Cardinality(ItemsOf(j))

\* A completed item stays completed: a crash, a reclaim of its job or a replay of
\* another item never runs it again.
CompletedItemsPreserved ==
    [][\A i \in Item : itemStatus[i] = "COMPLETED" => itemStatus'[i] = "COMPLETED"]_vars

\* The work runs out: from any queued or running item on a moment comes when every
\* item is settled, whichever mortal instance dies and whatever is replayed.
ItemsSettle ==
    (\E i \in Item : itemStatus[i] \in Active) ~> (\A i \in Item : itemStatus[i] \notin Active)

\* Every queued or running job comes to an end.
JobsFinish == \A j \in Job : jobStatus[j] \in Active ~> jobStatus[j] \in Finished
=============================================================================
