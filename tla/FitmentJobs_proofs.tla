--------------------------- MODULE FitmentJobs_proofs ---------------------------
(* Proofs of the invariants of FitmentJobs, for every set of instances, jobs,    *)
(* items, reviewers and administrators.  What fails and what is reviewed holds   *)
(* in every environment; that done means reviewed, and that approvals stay,      *)
(* rests on an argument about who may touch an item when nothing but reviews     *)
(* and crashes happens.                                                          *)
EXTENDS FitmentJobs, TLAPS

Labels == {"idle", "claim", "load", "loop", "discover", "found", "nothing", "fail", "renew",
           "read", "write", "catch"}
JobState  == {"none"} \cup Active \cup Finished
ItemState == {"none"} \cup Active \cup Settled

RowsTyped ==
    /\ jobStatus \in [Job -> JobState]
    /\ leaseOwner \in [Job -> Instance \cup {NoInstance}]
    /\ lease \in [Job -> {"none", "live", "expired"}]
    /\ jobOf \in [Item -> Job \cup {NoJob}]
    /\ itemStatus \in [Item -> ItemState]
    /\ candidates \subseteq Item
    /\ deadLetter \in [Item -> {"none", "OPEN", "REQUEUED", "RESOLVED"}]

RunnersTyped ==
    /\ alive \subseteq Instance
    /\ pc \in [Instance -> [Job -> Labels]]
    /\ todo \in [Instance -> [Job -> SUBSET Item]]
    /\ cur \in [Instance -> [Job -> Item \cup {NoItem}]]
    /\ attempt \in [Instance -> [Job -> Nat]]
    /\ verdict \in [Instance -> [Job -> JobState]]

RequestsTyped ==
    /\ step \in [Reviewer -> {"idle", "commit", "read", "write"}]
    /\ under \in [Reviewer -> Item \cup {NoItem}]
    /\ opinion \in [Reviewer -> JobState]
    /\ chosen \subseteq Reviewer
    /\ checked \in [Admin -> Item \cup {NoItem}]

\* Whoever is at work on an item is at work on a real one.
AtItems ==
    /\ \A w \in Instance, j \in Job :
          pc[w][j] \in {"discover", "found", "nothing", "fail"} => cur[w][j] \in Item
    /\ \A r \in Reviewer : step[r] # "idle" => under[r] \in Item

\* A verdict is there when it is to be written.
VerdictsReady ==
    /\ \A w \in Instance, j \in Job :
          pc[w][j] = "write" => verdict[w][j] \in {"RUNNING"} \cup Finished
    /\ \A r \in Reviewer : step[r] = "write" => opinion[r] \in {"RUNNING"} \cup Finished

TypeInv == RowsTyped /\ RunnersTyped /\ RequestsTyped /\ AtItems /\ VerdictsReady

\* An item has a status exactly when it belongs to a job, and the job exists; nobody is
\* at work on a job that does not exist, and runners stay with the items of their job.
RowsBelong ==
    /\ \A i \in Item : itemStatus[i] = "none" <=> jobOf[i] = NoJob
    /\ \A i \in Item : jobOf[i] # NoJob => jobStatus[jobOf[i]] # "none"
    /\ \A w \in Instance, j \in Job : jobStatus[j] = "none" => pc[w][j] = "idle"
    /\ \A w \in Instance, j \in Job :
          /\ \A i \in todo[w][j] : jobOf[i] = j
          /\ pc[w][j] \in {"discover", "found", "nothing", "fail"} => jobOf[cur[w][j]] = j
    /\ \A r \in Reviewer : step[r] # "idle" => jobOf[under[r]] # NoJob
    /\ \A a \in Admin : checked[a] # NoItem => jobOf[checked[a]] # NoJob

\* An approval whose candidate row is there has candidates to keep.
ChosenExist == \A r \in chosen : step[r] # "idle" /\ under[r] \in candidates

ReviewInv == FailedItemsAreListed /\ ReviewsHaveCandidates /\ ChosenExist

-----------------------------------------------------------------------------
(* With reviews and crashes only.                                             *)
Orderly == env \subseteq {"reviews", "crashes"}

AllIn(j, S) == \A i \in ItemsOf(j) : itemStatus[i] \in S
Final == {"NO_CANDIDATE", "APPROVED", "FAILED"}
Done  == {"COMPLETED", "PARTIAL", "FAILED"}

\* A live owner's lease is live.
LeasesLive == \A j \in Job : leaseOwner[j] \in alive => lease[j] = "live"

\* A runner past its claim owns the job, or every item of the job is settled.
RunnersOwn ==
    \A w \in Instance, j \in Job :
        /\ pc[w][j] # "catch"
        /\ pc[w][j] \notin {"idle", "claim"} => w \in alive /\ (Owns(w, j) \/ AllIn(j, Settled))

\* What a runner is going to start is still queued, what it is at work on is RUNNING.
RunnersHold ==
    \A w \in Instance, j \in Job :
        /\ \A i \in todo[w][j] : /\ pc[w][j] \notin {"idle", "claim", "load"}
                                 /\ itemStatus[i] = "QUEUED"
        /\ pc[w][j] \in {"discover", "found", "nothing", "fail"} =>
              itemStatus[cur[w][j]] = "RUNNING"

\* A status that was computed from settled (or final) items is still true of them.
VerdictsStand ==
    /\ \A w \in Instance, j \in Job : pc[w][j] = "write" =>
          /\ verdict[w][j] \in Finished => AllIn(j, Settled)
          /\ verdict[w][j] \in Done => AllIn(j, Final)
    /\ \A r \in Reviewer : step[r] = "write" =>
          /\ opinion[r] \in Finished => AllIn(jobOf[under[r]], Settled)
          /\ opinion[r] \in Done => AllIn(jobOf[under[r]], Final)

DoneIsFinal == \A j \in Job : jobStatus[j] \in Done => AllIn(j, Final)

\* Settled items stay settled, under a reviewer as well, and nobody replays.
ReviewsSettled == \A r \in Reviewer : step[r] # "idle" => itemStatus[under[r]] \in Settled
NoReplays == \A a \in Admin : checked[a] = NoItem

OrderInv ==
    /\ LeasesLive /\ RunnersOwn /\ RunnersHold /\ VerdictsStand /\ DoneIsFinal
    /\ ReviewsSettled /\ NoReplays
-----------------------------------------------------------------------------
(* Types.                                                                     *)
LEMMA VerdictType ==
    ASSUME NEW j
    PROVE  StatusOfJob(j) \in {"RUNNING"} \cup Finished
BY DEF StatusOfJob, Finished

LEMMA InitType == Init => TypeInv
<1> SUFFICES ASSUME Init PROVE TypeInv
  OBVIOUS
<1> USE FitmentAssumption DEF FitmentAssumption, Init, JobState, ItemState, Labels
<1>1. RowsTyped
  BY DEF RowsTyped
<1>2. RunnersTyped
  BY DEF RunnersTyped
<1>3. RequestsTyped /\ AtItems /\ VerdictsReady
  BY DEF RequestsTyped, AtItems, VerdictsReady
<1> QED
  BY <1>1, <1>2, <1>3 DEF TypeInv

\* A status that SetJob may write.
LEMMA SetJobType ==
    ASSUME RowsTyped, NEW j, NEW s \in {"RUNNING"} \cup Finished, SetJob(j, s)
    PROVE  /\ jobStatus' \in [Job -> JobState]
           /\ leaseOwner' \in [Job -> Instance \cup {NoInstance}]
           /\ lease' \in [Job -> {"none", "live", "expired"}]
<1>1. jobStatus' \in [Job -> JobState]
  BY DEF SetJob, RowsTyped, JobState, Active
<1> QED
  BY <1>1 DEF SetJob, RowsTyped

LEMMA RunnerType ==
    ASSUME TypeInv, NEW w \in Instance, NEW j \in Job, RunnerStep(w, j)
    PROVE  TypeInv'
<1> USE DEF TypeInv, RowsTyped, RunnersTyped, RequestsTyped, AtItems, VerdictsReady, JobState,
        ItemState, Labels, jobVars, itemVars, runnerVars, reviewVars, Active, Settled, Finished,
        Move
<1>1. CASE Claim(w, j)
  <2>1. CASE /\ Move(w, j, "load")
             /\ jobStatus' = [jobStatus EXCEPT ![j] = "RUNNING"]
             /\ leaseOwner' = [leaseOwner EXCEPT ![j] = w]
             /\ lease' = [lease EXCEPT ![j] = "live"]
    BY <1>1, <2>1 DEF Claim
  <2>2. CASE Move(w, j, "idle") /\ UNCHANGED jobVars
    BY <1>1, <2>2 DEF Claim
  <2> QED
    BY <1>1, <2>1, <2>2 DEF Claim, Claimable
<1>2. CASE LoadItems(w, j)
  BY <1>2 DEF LoadItems, ItemsToLoad, ItemsOf
<1>3. CASE StartItem(w, j)
  BY <1>3 DEF StartItem
<1>4. CASE Discover(w, j)
  <2>1. CASE \E outcome \in {"found", "nothing", "fail"} : Move(w, j, outcome) /\ UNCHANGED attempt
    BY <1>4, <2>1 DEF Discover
  <2>2. CASE attempt' = [attempt EXCEPT ![w][j] = @ + 1] /\ UNCHANGED pc
    BY <1>4, <2>2 DEF Discover
  <2> QED
    BY <1>4, <2>1, <2>2 DEF Discover
<1>5. CASE CommitFound(w, j)
  <2>1. CASE Move(w, j, "fail") /\ UNCHANGED itemVars
    BY <1>5, <2>1 DEF CommitFound
  <2>2. CASE /\ Move(w, j, "renew")
             /\ candidates' = candidates \cup {cur[w][j]}
             /\ itemStatus' = [itemStatus EXCEPT ![cur[w][j]] = "REVIEW_REQUIRED"]
             /\ deadLetter' = [deadLetter EXCEPT ![cur[w][j]] = Resolved(cur[w][j])]
    BY <1>5, <2>2 DEF CommitFound, Resolved
  <2> QED
    BY <1>5, <2>1, <2>2 DEF CommitFound
<1>6. CASE CommitNothing(w, j)
  BY <1>6 DEF CommitNothing, Resolved
<1>7. CASE FailItem(w, j)
  BY <1>7 DEF FailItem, Captured
<1>8. CASE RenewAfterItem(w, j)
  BY <1>8 DEF RenewAfterItem
<1>9. CASE ReadItems(w, j)
  BY <1>9, VerdictType DEF ReadItems
<1>10. CASE WriteJob(w, j)
  <2>1. /\ jobStatus' \in [Job -> JobState]
        /\ leaseOwner' \in [Job -> Instance \cup {NoInstance}]
        /\ lease' \in [Job -> {"none", "live", "expired"}]
    <3>1. CASE Owns(w, j)
      <4>1. verdict[w][j] \in {"RUNNING"} \cup Finished /\ SetJob(j, verdict[w][j])
        BY <1>10, <3>1 DEF WriteJob
      <4> QED
        BY <4>1, SetJobType
    <3>2. CASE ~Owns(w, j)
      BY <1>10, <3>2 DEF WriteJob
    <3> QED
      BY <3>1, <3>2
  <2> QED
    BY <1>10, <2>1 DEF WriteJob
<1>11. CASE EndRun(w, j)
  BY <1>11 DEF EndRun
<1>12. CASE FailJob(w, j)
  BY <1>12, SetJobType DEF FailJob, Forget
<1> QED
  BY <1>1, <1>2, <1>3, <1>4, <1>5, <1>6, <1>7, <1>8, <1>9, <1>10, <1>11, <1>12 DEF RunnerStep

LEMMA ReviewType ==
    ASSUME TypeInv, NEW r \in Reviewer, ReviewStep(r)
    PROVE  TypeInv'
<1> USE DEF TypeInv, RowsTyped, RunnersTyped, RequestsTyped, AtItems, VerdictsReady, JobState,
        ItemState, jobVars, itemVars, runnerVars, reviewVars, Active, Settled, Finished
<1>1. CASE CheckApproval(r)
  BY <1>1 DEF CheckApproval
<1>2. CASE ApprovalFails(r)
  BY <1>2 DEF ApprovalFails, Leave
<1>3. CASE CommitApproval(r)
  BY <1>3 DEF CommitApproval
<1>4. CASE ReadForApproval(r)
  BY <1>4, VerdictType DEF ReadForApproval
<1>5. CASE WriteForApproval(r)
  <2>1. /\ jobStatus' \in [Job -> JobState]
        /\ leaseOwner' \in [Job -> Instance \cup {NoInstance}]
        /\ lease' \in [Job -> {"none", "live", "expired"}]
    <3>1. CASE UNCHANGED jobVars
      BY <3>1
    <3>2. CASE SetJob(jobOf[under[r]], opinion[r])
      <4>1. opinion[r] \in {"RUNNING"} \cup Finished
        BY <1>5 DEF WriteForApproval
      <4> QED
        BY <3>2, <4>1, SetJobType
    <3> QED
      BY <1>5, <3>1, <3>2 DEF WriteForApproval
  <2> QED
    BY <1>5, <2>1 DEF WriteForApproval, Leave
<1> QED
  BY <1>1, <1>2, <1>3, <1>4, <1>5 DEF ReviewStep

LEMMA NextType == TypeInv /\ [Next]_vars => TypeInv'
<1> SUFFICES ASSUME TypeInv, [Next]_vars PROVE TypeInv'
  OBVIOUS
<1> USE DEF TypeInv, RowsTyped, RunnersTyped, RequestsTyped, AtItems, VerdictsReady, JobState,
        ItemState, Labels, jobVars, itemVars, runnerVars, reviewVars, Active, Settled, Finished
<1>1. ASSUME NEW j \in Job, CreateFitmentJob(j) PROVE TypeInv'
  BY <1>1 DEF CreateFitmentJob
<1>2. ASSUME NEW j \in Job, LeaseExpires(j) PROVE TypeInv'
  BY <1>2 DEF LeaseExpires
<1>3. ASSUME NEW w \in Instance, NEW j \in Job, Dispatch(w, j) PROVE TypeInv'
  BY <1>3 DEF Dispatch, Move
<1>4. ASSUME NEW w \in Instance, NEW j \in Job, RunnerStep(w, j) PROVE TypeInv'
  BY <1>4, RunnerType
<1>5. ASSUME NEW w \in Instance, NEW j \in Job, DbError(w, j) PROVE TypeInv'
  <2>1. PICK label \in {"fail", "catch"} :
           /\ pc' = [pc EXCEPT ![w][j] = label]
           /\ label = "fail" => pc[w][j] = "nothing"
    BY <1>5 DEF DbError, Move
  <2> QED
    BY <1>5, <2>1 DEF DbError
<1>6. ASSUME NEW w \in Instance, NEW j \in Job, Reclaim(w, j) PROVE TypeInv'
  BY <1>6 DEF Reclaim, Reset
<1>7. ASSUME NEW w \in Instance, Heartbeat(w) PROVE TypeInv'
  BY <1>7 DEF Heartbeat
<1>8. ASSUME NEW w \in Instance, Die(w) PROVE TypeInv'
  BY <1>8 DEF Die
<1>9. ASSUME NEW r \in Reviewer, ReviewStep(r) PROVE TypeInv'
  BY <1>9, ReviewType
<1>10. ASSUME NEW a \in Admin, CheckRequeue(a) PROVE TypeInv'
  BY <1>10 DEF CheckRequeue
<1>11. ASSUME NEW a \in Admin, Requeue(a) PROVE TypeInv'
  <2> DEFINE i == checked[a]
             k == jobOf[checked[a]]
  <2>1. CASE UNCHANGED <<jobVars, itemVars, chosen>>
    BY <1>11, <2>1 DEF Requeue
  <2>2. CASE /\ candidates' = candidates \ {i}
             /\ chosen' = {r \in chosen : under[r] # i}
             /\ itemStatus' = [itemStatus EXCEPT ![i] = "QUEUED"]
             /\ jobStatus' = [jobStatus EXCEPT ![k] = "QUEUED"]
             /\ leaseOwner' = [leaseOwner EXCEPT ![k] = NoInstance]
             /\ lease' = [lease EXCEPT ![k] = "none"]
             /\ deadLetter' = [deadLetter EXCEPT ![i] = "REQUEUED"]
    BY <1>11, <2>2 DEF Requeue
  <2> QED
    BY <1>11, <2>1, <2>2 DEF Requeue, ActiveElsewhere
<1>12. CASE UNCHANGED vars
  BY <1>12 DEF vars
<1> QED
  BY <1>1, <1>2, <1>3, <1>4, <1>5, <1>6, <1>7, <1>8, <1>9, <1>10, <1>11, <1>12 DEF Next

LEMMA TypeInvariant == Spec => []TypeInv
<1> QED
  BY InitType, NextType, PTL DEF Spec
-----------------------------------------------------------------------------
(* Failures and reviews, in every environment.                                *)
LEMMA ReviewInvRunner ==
    ASSUME TypeInv, ReviewInv, NEW w \in Instance, NEW j \in Job, RunnerStep(w, j)
    PROVE  ReviewInv'
<1> USE DEF TypeInv, RowsTyped, AtItems, ReviewInv, FailedItemsAreListed, ReviewsHaveCandidates,
        ChosenExist, reviewVars
<1>1. CASE StartItem(w, j)
  BY <1>1 DEF StartItem
<1>2. CASE CommitFound(w, j)
  <2>1. CASE UNCHANGED itemVars
    BY <1>2, <2>1 DEF CommitFound, itemVars
  <2>2. CASE /\ candidates' = candidates \cup {cur[w][j]}
             /\ itemStatus' = [itemStatus EXCEPT ![cur[w][j]] = "REVIEW_REQUIRED"]
             /\ deadLetter' = [deadLetter EXCEPT ![cur[w][j]] = Resolved(cur[w][j])]
    BY <1>2, <2>2 DEF CommitFound
  <2> QED
    BY <1>2, <2>1, <2>2 DEF CommitFound
<1>3. CASE CommitNothing(w, j)
  BY <1>3 DEF CommitNothing
<1>4. CASE FailItem(w, j)
  BY <1>4 DEF FailItem, Captured
<1>5. CASE UNCHANGED <<itemVars, reviewVars>>
  BY <1>5 DEF itemVars
<1> QED
  BY <1>1, <1>2, <1>3, <1>4, <1>5 DEF RunnerStep, Claim, LoadItems, Discover, RenewAfterItem,
     ReadItems, WriteJob, EndRun, FailJob

LEMMA ReviewInvReviewer ==
    ASSUME TypeInv, ReviewInv, NEW r \in Reviewer, ReviewStep(r)
    PROVE  ReviewInv'
<1> USE DEF TypeInv, RowsTyped, RequestsTyped, AtItems, ReviewInv, FailedItemsAreListed,
        ReviewsHaveCandidates, ChosenExist, itemVars
<1>1. CASE CheckApproval(r)
  BY <1>1 DEF CheckApproval, Reviewable
<1>2. CASE ApprovalFails(r)
  BY <1>2 DEF ApprovalFails, Leave
<1>3. CASE CommitApproval(r)
  <2>1. under[r] \in Item /\ under[r] \in candidates
    BY <1>3 DEF CommitApproval, HasCandidate
  <2> QED
    BY <1>3, <2>1 DEF CommitApproval
<1>4. CASE ReadForApproval(r)
  BY <1>4 DEF ReadForApproval
<1>5. CASE WriteForApproval(r)
  BY <1>5 DEF WriteForApproval, Leave
<1> QED
  BY <1>1, <1>2, <1>3, <1>4, <1>5 DEF ReviewStep

LEMMA ReviewInvStep == TypeInv /\ ReviewInv /\ [Next]_vars => ReviewInv'
<1> SUFFICES ASSUME TypeInv, ReviewInv, [Next]_vars PROVE ReviewInv'
  OBVIOUS
<1> USE DEF TypeInv, RowsTyped, RequestsTyped, AtItems, ReviewInv, FailedItemsAreListed,
        ReviewsHaveCandidates, ChosenExist
<1>1. ASSUME NEW j \in Job, CreateFitmentJob(j) PROVE ReviewInv'
  <2>1. \A i \in Item : itemStatus'[i] \in {itemStatus[i], "QUEUED"}
    BY <1>1 DEF CreateFitmentJob
  <2> QED
    BY <1>1, <2>1 DEF CreateFitmentJob, reviewVars
<1>2. ASSUME NEW w \in Instance, NEW j \in Job, RunnerStep(w, j) PROVE ReviewInv'
  BY <1>2, ReviewInvRunner
<1>3. ASSUME NEW w \in Instance, NEW j \in Job, Reclaim(w, j) PROVE ReviewInv'
  <2>1. \A i \in Item : itemStatus'[i] \in {itemStatus[i], "QUEUED"}
    BY <1>3 DEF Reclaim, Reset
  <2> QED
    BY <1>3, <2>1 DEF Reclaim, reviewVars
<1>4. ASSUME NEW r \in Reviewer, ReviewStep(r) PROVE ReviewInv'
  BY <1>4, ReviewInvReviewer
<1>5. ASSUME NEW a \in Admin, Requeue(a) PROVE ReviewInv'
  <2> DEFINE i == checked[a]
  <2>1. CASE UNCHANGED <<itemVars, chosen>>
    BY <1>5, <2>1 DEF Requeue, itemVars
  <2>2. CASE /\ candidates' = candidates \ {i}
             /\ chosen' = {r \in chosen : under[r] # i}
             /\ itemStatus' = [itemStatus EXCEPT ![i] = "QUEUED"]
             /\ deadLetter' = [deadLetter EXCEPT ![i] = "REQUEUED"]
    BY <1>5, <2>2 DEF Requeue
  <2> QED
    BY <1>5, <2>1, <2>2 DEF Requeue, ActiveElsewhere
<1>6. CASE UNCHANGED <<itemVars, reviewVars>>
  BY <1>6 DEF itemVars, reviewVars
<1> QED
  BY <1>1, <1>2, <1>3, <1>4, <1>5, <1>6 DEF Next, LeaseExpires, Dispatch, DbError, Heartbeat, Die,
     CheckRequeue, vars

\* An item that failed is on the administrators' list, whichever runners, reviewers and
\* replays work on it, and whatever crashes or fails.
THEOREM FailuresListed == Spec => []FailedItemsAreListed
<1>1. Init => ReviewInv
  BY DEF Init, ReviewInv, FailedItemsAreListed, ReviewsHaveCandidates, ChosenExist
<1>2. ReviewInv => FailedItemsAreListed
  BY DEF ReviewInv
<1> QED
  BY <1>1, <1>2, ReviewInvStep, TypeInvariant, PTL DEF Spec

\* Whoever reviews an item finds its candidates, and an approval keeps them: a replay that
\* removes them takes the approval under way with it.
THEOREM CandidatesKept == Spec => []ReviewsHaveCandidates
<1>1. Init => ReviewInv
  BY DEF Init, ReviewInv, FailedItemsAreListed, ReviewsHaveCandidates, ChosenExist
<1>2. ReviewInv => ReviewsHaveCandidates
  BY DEF ReviewInv
<1> QED
  BY <1>1, <1>2, ReviewInvStep, TypeInvariant, PTL DEF Spec
-----------------------------------------------------------------------------
(* Rows.                                                                      *)
LEMMA InitRows == Init => RowsBelong
BY FitmentAssumption DEF Init, RowsBelong

\* The rows of a job whose runner does nothing to its items.
LEMMA RowsRunner ==
    ASSUME TypeInv, RowsBelong, NEW w \in Instance, NEW j \in Job, RunnerStep(w, j)
    PROVE  RowsBelong'
<1> USE DEF TypeInv, RowsTyped, RunnersTyped, RequestsTyped, AtItems, RowsBelong, jobVars, itemVars,
        reviewVars, Move
<1>1. CASE Claim(w, j)
  <2>1. CASE /\ Move(w, j, "load")
             /\ jobStatus' = [jobStatus EXCEPT ![j] = "RUNNING"]
    BY <1>1, <2>1 DEF Claim
  <2>2. CASE Move(w, j, "idle") /\ UNCHANGED jobVars
    BY <1>1, <2>2 DEF Claim
  <2> QED
    BY <1>1, <2>1, <2>2 DEF Claim, Claimable
<1>2. CASE LoadItems(w, j)
  BY <1>2 DEF LoadItems, ItemsToLoad, ItemsOf
<1>3. CASE StartItem(w, j)
  <2>1. PICK i \in todo[w][j] :
           /\ todo' = [todo EXCEPT ![w][j] = @ \ {i}]
           /\ cur' = [cur EXCEPT ![w][j] = i]
           /\ itemStatus' = [itemStatus EXCEPT ![i] = "RUNNING"]
    BY <1>3 DEF StartItem
  <2>2. i \in Item /\ jobOf[i] = j /\ j # NoJob
    BY <2>1, FitmentAssumption DEF FitmentAssumption
  <2> QED
    BY <1>3, <2>1, <2>2 DEF StartItem
<1>4. CASE Discover(w, j)
  <2>1. CASE \E outcome \in {"found", "nothing", "fail"} : Move(w, j, outcome)
    BY <1>4, <2>1 DEF Discover
  <2>2. CASE UNCHANGED pc
    BY <1>4, <2>2 DEF Discover
  <2> QED
    BY <1>4, <2>1, <2>2 DEF Discover
<1>5. CASE CommitFound(w, j)
  <2>1. CASE Move(w, j, "fail") /\ UNCHANGED itemVars
    BY <1>5, <2>1 DEF CommitFound
  <2>2. CASE /\ Move(w, j, "renew")
             /\ itemStatus' = [itemStatus EXCEPT ![cur[w][j]] = "REVIEW_REQUIRED"]
    BY <1>5, <2>2, FitmentAssumption DEF CommitFound, FitmentAssumption
  <2> QED
    BY <1>5, <2>1, <2>2 DEF CommitFound
<1>6. CASE CommitNothing(w, j)
  BY <1>6, FitmentAssumption DEF CommitNothing, FitmentAssumption
<1>7. CASE FailItem(w, j)
  BY <1>7, FitmentAssumption DEF FailItem, FitmentAssumption
<1>8. CASE RenewAfterItem(w, j)
  BY <1>8 DEF RenewAfterItem
<1>9. CASE ReadItems(w, j)
  BY <1>9 DEF ReadItems
<1>10. CASE WriteJob(w, j)
  <2>1. jobStatus' \in {jobStatus, [jobStatus EXCEPT ![j] = verdict[w][j]]}
    BY <1>10 DEF WriteJob, SetJob, Owns
  <2>2. verdict[w][j] # "none"
    BY <1>10 DEF WriteJob, VerdictsReady, Finished
  <2> QED
    BY <1>10, <2>1, <2>2 DEF WriteJob
<1>11. CASE EndRun(w, j)
  BY <1>11 DEF EndRun
<1>12. CASE FailJob(w, j)
  <2>1. jobStatus' \in {jobStatus, [jobStatus EXCEPT ![j] = "FAILED"]}
    BY <1>12 DEF FailJob, SetJob
  <2> QED
    BY <1>12, <2>1 DEF FailJob, Forget
<1> QED
  BY <1>1, <1>2, <1>3, <1>4, <1>5, <1>6, <1>7, <1>8, <1>9, <1>10, <1>11, <1>12 DEF RunnerStep

LEMMA RowsReviewer ==
    ASSUME TypeInv, RowsBelong, NEW r \in Reviewer, ReviewStep(r)
    PROVE  RowsBelong'
<1> USE DEF TypeInv, RowsTyped, RunnersTyped, RequestsTyped, AtItems, RowsBelong, jobVars, itemVars,
        runnerVars
<1>1. CASE CheckApproval(r)
  BY <1>1 DEF CheckApproval, Reviewable
<1>2. CASE ApprovalFails(r)
  BY <1>2 DEF ApprovalFails, Leave
<1>3. CASE CommitApproval(r)
  BY <1>3 DEF CommitApproval
<1>4. CASE ReadForApproval(r)
  BY <1>4 DEF ReadForApproval
<1>5. CASE WriteForApproval(r)
  <2>1. jobStatus' \in {jobStatus, [jobStatus EXCEPT ![jobOf[under[r]]] = opinion[r]]}
    BY <1>5 DEF WriteForApproval, SetJob, ActiveElsewhere
  <2>2. opinion[r] # "none"
    BY <1>5 DEF WriteForApproval, VerdictsReady, Finished
  <2> QED
    BY <1>5, <2>1, <2>2 DEF WriteForApproval, Leave
<1> QED
  BY <1>1, <1>2, <1>3, <1>4, <1>5 DEF ReviewStep

LEMMA RowsStep == TypeInv /\ RowsBelong /\ [Next]_vars => RowsBelong'
<1> SUFFICES ASSUME TypeInv, RowsBelong, [Next]_vars PROVE RowsBelong'
  OBVIOUS
<1> USE DEF TypeInv, RowsTyped, RunnersTyped, RequestsTyped, AtItems, RowsBelong, jobVars, itemVars,
        runnerVars, reviewVars, Active
<1>1. ASSUME NEW j \in Job, CreateFitmentJob(j) PROVE RowsBelong'
  <2>1. PICK parts \in SUBSET ItemsOf(NoJob) \ {{}} :
           /\ jobOf' = [i \in Item |-> IF i \in parts THEN j ELSE jobOf[i]]
           /\ itemStatus' = [i \in Item |-> IF i \in parts THEN "QUEUED" ELSE itemStatus[i]]
    BY <1>1 DEF CreateFitmentJob
  <2>2. \A i \in Item : jobOf[i] # NoJob => i \notin parts
    BY DEF ItemsOf
  <2>3. /\ \A i \in Item : itemStatus'[i] = "none" <=> jobOf'[i] = NoJob
        /\ \A i \in Item : jobOf'[i] # NoJob => jobStatus'[jobOf'[i]] # "none"
    BY <1>1, <2>1, <2>2, FitmentAssumption DEF CreateFitmentJob, FitmentAssumption
  <2>4. \A i \in Item : jobOf[i] # NoJob => jobOf'[i] = jobOf[i]
    BY <2>1, <2>2
  <2>5. NoJob \notin Job
    BY FitmentAssumption DEF FitmentAssumption
  <2>6. \A w \in Instance, k \in Job :
           /\ \A i \in todo'[w][k] : jobOf'[i] = k
           /\ pc'[w][k] \in {"discover", "found", "nothing", "fail"} => jobOf'[cur'[w][k]] = k
    BY <1>1, <2>4, <2>5 DEF CreateFitmentJob
  <2>7. /\ \A r \in Reviewer : step'[r] # "idle" => jobOf'[under'[r]] # NoJob
        /\ \A a \in Admin : checked'[a] # NoItem => jobOf'[checked'[a]] # NoJob
        /\ \A w \in Instance, k \in Job : jobStatus'[k] = "none" => pc'[w][k] = "idle"
    BY <1>1, <2>4 DEF CreateFitmentJob
  <2> QED
    BY <2>3, <2>6, <2>7
<1>2. ASSUME NEW j \in Job, LeaseExpires(j) PROVE RowsBelong'
  BY <1>2 DEF LeaseExpires
<1>3. ASSUME NEW w \in Instance, NEW j \in Job, Dispatch(w, j) PROVE RowsBelong'
  BY <1>3 DEF Dispatch, Move
<1>4. ASSUME NEW w \in Instance, NEW j \in Job, RunnerStep(w, j) PROVE RowsBelong'
  BY <1>4, RowsRunner
<1>5. ASSUME NEW w \in Instance, NEW j \in Job, DbError(w, j) PROVE RowsBelong'
  <2>1. PICK label \in {"fail", "catch"} :
           /\ pc' = [pc EXCEPT ![w][j] = label]
           /\ label = "fail" => pc[w][j] = "nothing"
           /\ pc[w][j] # "idle"
    BY <1>5 DEF DbError, Move
  <2> QED
    BY <1>5, <2>1 DEF DbError
<1>6. ASSUME NEW w \in Instance, NEW j \in Job, Reclaim(w, j) PROVE RowsBelong'
  <2>1. \A i \in Item : itemStatus'[i] = "none" <=> itemStatus[i] = "none"
    BY <1>6 DEF Reclaim, Reset
  <2> QED
    BY <1>6, <2>1 DEF Reclaim, Reclaimable
<1>7. ASSUME NEW w \in Instance, Heartbeat(w) PROVE RowsBelong'
  BY <1>7 DEF Heartbeat
<1>8. ASSUME NEW w \in Instance, Die(w) PROVE RowsBelong'
  BY <1>8 DEF Die
<1>9. ASSUME NEW r \in Reviewer, ReviewStep(r) PROVE RowsBelong'
  BY <1>9, RowsReviewer
<1>10. ASSUME NEW a \in Admin, CheckRequeue(a) PROVE RowsBelong'
  BY <1>10 DEF CheckRequeue
<1>11. ASSUME NEW a \in Admin, Requeue(a) PROVE RowsBelong'
  <2> DEFINE i == checked[a]
             k == jobOf[checked[a]]
  <2>1. i \in Item /\ k \in Job /\ k # NoJob
    BY <1>11 DEF Requeue
  <2>2. CASE UNCHANGED <<jobVars, itemVars>>
    BY <1>11, <2>2 DEF Requeue
  <2>3. CASE /\ itemStatus' = [itemStatus EXCEPT ![i] = "QUEUED"]
             /\ jobStatus' = [jobStatus EXCEPT ![k] = "QUEUED"]
    BY <1>11, <2>1, <2>3 DEF Requeue
  <2> QED
    BY <1>11, <2>2, <2>3 DEF Requeue, ActiveElsewhere
<1>12. CASE UNCHANGED vars
  BY <1>12 DEF vars
<1> QED
  BY <1>1, <1>2, <1>3, <1>4, <1>5, <1>6, <1>7, <1>8, <1>9, <1>10, <1>11, <1>12 DEF Next

LEMMA RowsInvariant == Spec => []RowsBelong
<1> QED
  BY InitRows, RowsStep, TypeInvariant, PTL DEF Spec
-----------------------------------------------------------------------------
(* Reviews and crashes only: what a step can do to items and to jobs.         *)
Ordered == Orderly /\ TypeInv /\ RowsBelong /\ OrderInv

\* Settled and final items stay so, approvals stay, items stay with their job, and only a
\* job that is being created gets items.
Kept ==
    \A i \in Item :
        /\ itemStatus[i] \in Settled => itemStatus'[i] \in Settled
        /\ itemStatus[i] \in Final => itemStatus'[i] \in Final
        /\ itemStatus[i] = "APPROVED" => itemStatus'[i] = "APPROVED"
        /\ jobOf[i] # NoJob => jobOf'[i] = jobOf[i]
        /\ jobOf'[i] # jobOf[i] => jobStatus[jobOf'[i]] = "none"

\* A job is created, claimed, kept running, finished by a true verdict, or reclaimed from
\* an owner that died.
JobMoves(k) ==
    \/ jobStatus'[k] = jobStatus[k] /\ leaseOwner'[k] = leaseOwner[k]
    \/ jobStatus[k] = "none" /\ jobStatus'[k] = "QUEUED"
    \/ jobStatus[k] = "QUEUED" /\ jobStatus'[k] = "RUNNING"
    \/ jobStatus[k] # "none" /\ jobStatus'[k] = "RUNNING" /\ leaseOwner'[k] = leaseOwner[k]
    \/ /\ jobStatus[k] # "none" /\ jobStatus'[k] \in Finished
       /\ AllIn(k, Settled) /\ (jobStatus'[k] \in Done => AllIn(k, Final))
    \/ jobStatus[k] = "RUNNING" /\ leaseOwner[k] \notin alive /\ jobStatus'[k] = "QUEUED"

\* Two runners at a job with an unsettled item are the same.
LEMMA Alone ==
    ASSUME TypeInv, RunnersOwn, NEW w \in Instance, NEW v \in Instance, NEW j \in Job,
           NEW i \in Item, jobOf[i] = j, itemStatus[i] \notin Settled,
           pc[w][j] \notin {"idle", "claim"}, pc[v][j] \notin {"idle", "claim"}
    PROVE  w = v
<1>1. ~AllIn(j, Settled)
  BY DEF AllIn, ItemsOf
<1> QED
  BY <1>1 DEF RunnersOwn, Owns

LEMMA KeptStep == Ordered /\ [Next]_vars => Kept
<1> SUFFICES ASSUME Ordered, [Next]_vars PROVE Kept
  OBVIOUS
<1> USE DEF Ordered, TypeInv, RowsTyped, RunnersTyped, RequestsTyped, AtItems, Kept, Settled, Final
<1>1. ASSUME NEW j \in Job, CreateFitmentJob(j) PROVE Kept
  <2>1. PICK parts \in SUBSET ItemsOf(NoJob) \ {{}} :
           /\ jobOf' = [i \in Item |-> IF i \in parts THEN j ELSE jobOf[i]]
           /\ itemStatus' = [i \in Item |-> IF i \in parts THEN "QUEUED" ELSE itemStatus[i]]
    BY <1>1 DEF CreateFitmentJob
  <2>2. \A i \in parts : i \in Item /\ jobOf[i] = NoJob /\ itemStatus[i] = "none"
    BY DEF ItemsOf, RowsBelong
  <2> QED
    BY <1>1, <2>1, <2>2 DEF CreateFitmentJob
<1>2. ASSUME NEW w \in Instance, NEW j \in Job, StartItem(w, j) PROVE Kept
  <2>1. PICK i \in todo[w][j] : itemStatus' = [itemStatus EXCEPT ![i] = "RUNNING"]
    BY <1>2 DEF StartItem
  <2>2. i \in Item /\ itemStatus[i] = "QUEUED"
    BY DEF OrderInv, RunnersHold
  <2> QED
    BY <1>2, <2>1, <2>2 DEF StartItem
<1>3. ASSUME NEW w \in Instance, NEW j \in Job,
             CommitFound(w, j) \/ CommitNothing(w, j) \/ FailItem(w, j)
      PROVE  Kept
  <2>1. /\ itemStatus[cur[w][j]] = "RUNNING" /\ UNCHANGED jobOf
        /\ \A i \in Item \ {cur[w][j]} : itemStatus'[i] = itemStatus[i]
    BY <1>3 DEF OrderInv, RunnersHold, CommitFound, CommitNothing, FailItem, itemVars
  <2> QED
    BY <2>1
<1>4. ASSUME NEW w \in Instance, NEW j \in Job, Reclaim(w, j) PROVE Kept
  BY <1>4 DEF Reclaim, Reset
<1>5. ASSUME NEW r \in Reviewer, CommitApproval(r) PROVE Kept
  BY <1>5 DEF CommitApproval
<1>6. ASSUME NEW a \in Admin, Requeue(a) PROVE Kept
  BY <1>6 DEF Requeue, OrderInv, NoReplays
<1>7. CASE UNCHANGED <<jobOf, itemVars>>
  BY <1>7 DEF itemVars
<1> QED
  BY <1>1, <1>2, <1>3, <1>4, <1>5, <1>6, <1>7 DEF Next, RunnerStep, ReviewStep, LeaseExpires,
     Dispatch, Claim, LoadItems, Discover, RenewAfterItem, ReadItems, WriteJob, EndRun, FailJob,
     DbError, Heartbeat, Die, CheckApproval, ApprovalFails, ReadForApproval, WriteForApproval,
     CheckRequeue, vars

LEMMA AllInKept ==
    ASSUME TypeInv, Kept, NEW k \in Job, jobStatus[k] # "none"
    PROVE  /\ AllIn(k, Settled) => AllIn(k, Settled)'
           /\ AllIn(k, Final) => AllIn(k, Final)'
BY DEF AllIn, ItemsOf, Kept, TypeInv, RowsTyped

LEMMA VerdictTrue ==
    ASSUME NEW j
    PROVE  /\ StatusOfJob(j) \in Finished => AllIn(j, Settled)
           /\ StatusOfJob(j) \in Done => AllIn(j, Final)
BY DEF StatusOfJob, Finished, Done, AllIn, Settled, Final

LEMMA JobMovesStep ==
    ASSUME Ordered, Next, NEW k \in Job
    PROVE  JobMoves(k)
<1> USE DEF Ordered, TypeInv, RowsTyped, RunnersTyped, RequestsTyped, JobMoves, jobVars
<1>1. ASSUME NEW j \in Job, CreateFitmentJob(j) PROVE JobMoves(k)
  BY <1>1 DEF CreateFitmentJob
<1>2. ASSUME NEW w \in Instance, NEW j \in Job, Claim(w, j) PROVE JobMoves(k)
  <2>1. CASE jobStatus[j] = "QUEUED"
    BY <1>2, <2>1 DEF Claim, Claimable
  <2>2. CASE jobStatus[j] # "QUEUED"
    BY <1>2, <2>2 DEF Claim, Claimable
  <2> QED
    BY <2>1, <2>2
<1>3. ASSUME NEW w \in Instance, NEW j \in Job, WriteJob(w, j) PROVE JobMoves(k)
  <2>1. CASE ~Owns(w, j)
    BY <1>3, <2>1 DEF WriteJob
  <2>2. CASE Owns(w, j)
    <3>1. pc[w][j] = "write" /\ SetJob(j, verdict[w][j])
      BY <1>3, <2>2 DEF WriteJob
    <3>2. /\ verdict[w][j] \in {"RUNNING"} \cup Finished
          /\ verdict[w][j] \in Finished => AllIn(j, Settled)
          /\ verdict[w][j] \in Done => AllIn(j, Final)
      BY <3>1 DEF VerdictsReady, OrderInv, VerdictsStand
    <3> QED
      BY <2>2, <3>1, <3>2 DEF SetJob, Finished, Owns
  <2> QED
    BY <2>1, <2>2
<1>4. ASSUME NEW w \in Instance, NEW j \in Job, FailJob(w, j) PROVE JobMoves(k)
  BY <1>4 DEF FailJob, OrderInv, RunnersOwn
<1>5. ASSUME NEW w \in Instance, NEW j \in Job, Reclaim(w, j) PROVE JobMoves(k)
  BY <1>5 DEF Reclaim, Reclaimable, OrderInv, LeasesLive
<1>6. ASSUME NEW r \in Reviewer, WriteForApproval(r) PROVE JobMoves(k)
  <2> DEFINE j == jobOf[under[r]]
  <2>1. CASE UNCHANGED jobVars
    BY <2>1
  <2>2. CASE SetJob(j, opinion[r])
    <3>1. step[r] = "write" /\ under[r] \in Item /\ j # NoJob /\ jobStatus[j] # "none"
      BY <1>6 DEF WriteForApproval, AtItems, RowsBelong
    <3>2. /\ opinion[r] \in {"RUNNING"} \cup Finished
          /\ opinion[r] \in Finished => AllIn(j, Settled)
          /\ opinion[r] \in Done => AllIn(j, Final)
      BY <3>1 DEF VerdictsReady, OrderInv, VerdictsStand
    <3> QED
      BY <2>2, <3>1, <3>2 DEF SetJob, Finished
  <2> QED
    BY <1>6, <2>1, <2>2 DEF WriteForApproval, ActiveElsewhere
<1>7. ASSUME NEW a \in Admin, Requeue(a) PROVE JobMoves(k)
  BY <1>7 DEF Requeue, OrderInv, NoReplays
<1>8. CASE UNCHANGED <<jobStatus, leaseOwner>>
  BY <1>8
<1> QED
  BY <1>1, <1>2, <1>3, <1>4, <1>5, <1>6, <1>7, <1>8 DEF Next, RunnerStep, ReviewStep, LeaseExpires,
     Dispatch, LoadItems, StartItem, Discover, CommitFound, CommitNothing, FailItem, RenewAfterItem,
     ReadItems, EndRun, DbError, Heartbeat, Die, CheckApproval, ApprovalFails, CommitApproval,
     ReadForApproval, CheckRequeue
-----------------------------------------------------------------------------
(* Reviews and crashes only: the invariant.                                   *)
LEMMA LeasesLiveStep == Ordered /\ Next => LeasesLive'
<1> SUFFICES ASSUME Ordered, Next, NEW k \in Job, leaseOwner'[k] \in alive'
             PROVE  lease'[k] = "live"
  BY DEF LeasesLive
<1> USE FitmentAssumption DEF FitmentAssumption, Ordered, Orderly, TypeInv, RowsTyped, RunnersTyped,
        OrderInv, LeasesLive, jobVars
<1>1. ASSUME NEW w \in Instance, NEW j \in Job, Claim(w, j) PROVE lease'[k] = "live"
  <2>1. CASE /\ leaseOwner' = [leaseOwner EXCEPT ![j] = w]
             /\ lease' = [lease EXCEPT ![j] = "live"]
    BY <1>1, <2>1 DEF Claim
  <2>2. CASE UNCHANGED jobVars
    BY <1>1, <2>2 DEF Claim
  <2> QED
    BY <1>1, <2>1, <2>2 DEF Claim, Claimable
<1>2. ASSUME NEW w \in Instance, NEW j \in Job, WriteJob(w, j) PROVE lease'[k] = "live"
  <2>1. CASE Owns(w, j) /\ SetJob(j, verdict[w][j])
    BY <1>2, <2>1 DEF WriteJob, SetJob
  <2>2. CASE UNCHANGED jobVars
    BY <1>2, <2>2 DEF WriteJob
  <2> QED
    BY <1>2, <2>1, <2>2 DEF WriteJob
<1>3. ASSUME NEW w \in Instance, NEW j \in Job, FailJob(w, j) PROVE lease'[k] = "live"
  BY <1>3 DEF FailJob, RunnersOwn
<1>4. ASSUME NEW r \in Reviewer, WriteForApproval(r) PROVE lease'[k] = "live"
  <2>1. CASE SetJob(jobOf[under[r]], opinion[r])
    BY <1>4, <2>1 DEF WriteForApproval, SetJob
  <2>2. CASE UNCHANGED jobVars
    BY <1>4, <2>2 DEF WriteForApproval
  <2> QED
    BY <1>4, <2>1, <2>2 DEF WriteForApproval, ActiveElsewhere
<1>5. ASSUME NEW a \in Admin, Requeue(a) PROVE lease'[k] = "live"
  BY <1>5 DEF Requeue, NoReplays
<1>6. ASSUME NEW w \in Instance, NEW j \in Job, Reclaim(w, j) PROVE lease'[k] = "live"
  BY <1>6 DEF Reclaim
<1>7. ASSUME NEW w \in Instance, Heartbeat(w) \/ Die(w) PROVE lease'[k] = "live"
  BY <1>7 DEF Heartbeat, Die
<1>8. ASSUME NEW j \in Job, LeaseExpires(j) PROVE lease'[k] = "live"
  BY <1>8 DEF LeaseExpires
<1>9. ASSUME NEW w \in Instance, NEW j \in Job, RenewAfterItem(w, j) PROVE lease'[k] = "live"
  BY <1>9 DEF RenewAfterItem
<1>10. CASE UNCHANGED <<alive, leaseOwner, lease>>
  BY <1>10
<1> QED
  BY <1>1, <1>2, <1>3, <1>4, <1>5, <1>6, <1>7, <1>8, <1>9, <1>10 DEF Next, RunnerStep, ReviewStep,
     CreateFitmentJob, Dispatch, LoadItems, StartItem, Discover, CommitFound, CommitNothing,
     FailItem, ReadItems, EndRun, DbError, CheckApproval, ApprovalFails, CommitApproval,
     ReadForApproval, CheckRequeue

\* Where a runner comes from: it was past its claim already, or claims now.
LEMMA RunnerCameFrom ==
    ASSUME Ordered, Next, NEW v \in Instance, NEW k \in Job
    PROVE  /\ pc'[v][k] # "catch"
           /\ pc'[v][k] \notin {"idle", "claim"} =>
                 /\ v \in alive'
                 /\ \/ pc[v][k] \notin {"idle", "claim"}
                    \/ Owns(v, k)'
<1> USE DEF Ordered, Orderly, TypeInv, RowsTyped, RunnersTyped, OrderInv, RunnersOwn, Move, Labels
<1>1. ASSUME NEW w \in Instance, NEW j \in Job, RunnerStep(w, j), ~Claim(w, j)
      PROVE  /\ w \in alive /\ alive' = alive /\ pc[w][j] \notin {"idle", "claim"}
             /\ \E label \in Labels \ {"catch"} : pc' = [pc EXCEPT ![w][j] = label]
  <2>1. CASE Discover(w, j)
    <3>1. CASE \E outcome \in {"found", "nothing", "fail"} : Move(w, j, outcome)
      BY <2>1, <3>1 DEF Discover
    <3>2. CASE UNCHANGED pc
      <4>1. pc' = [pc EXCEPT ![w][j] = "discover"]
        BY <2>1, <3>2 DEF Discover
      <4> QED
        BY <2>1, <4>1 DEF Discover
    <3> QED
      BY <2>1, <3>1, <3>2 DEF Discover
  <2>2. CASE FailJob(w, j)
    BY <2>2 DEF FailJob
  <2>3. CASE CommitFound(w, j)
    BY <2>3 DEF CommitFound
  <2>4. CASE LoadItems(w, j) \/ StartItem(w, j) \/ CommitNothing(w, j) \/ FailItem(w, j)
    BY <2>4 DEF LoadItems, StartItem, CommitNothing, FailItem
  <2>5. CASE RenewAfterItem(w, j) \/ ReadItems(w, j) \/ WriteJob(w, j) \/ EndRun(w, j)
    BY <2>5 DEF RenewAfterItem, ReadItems, WriteJob, EndRun
  <2> QED
    BY <1>1, <2>1, <2>2, <2>3, <2>4, <2>5 DEF RunnerStep
<1> DEFINE Goal == /\ pc'[v][k] # "catch"
                   /\ pc'[v][k] \notin {"idle", "claim"} =>
                         /\ v \in alive'
                         /\ \/ pc[v][k] \notin {"idle", "claim"}
                            \/ Owns(v, k)'
<1>2. ASSUME NEW w \in Instance, NEW j \in Job, RunnerStep(w, j) PROVE Goal
  <2>1. CASE ~Claim(w, j)
    <3>1. PICK label \in Labels \ {"catch"} : pc' = [pc EXCEPT ![w][j] = label]
      BY <1>1, <1>2, <2>1
    <3>2. w \in alive /\ alive' = alive /\ pc[w][j] \notin {"idle", "claim"}
      BY <1>1, <1>2, <2>1
    <3>3. pc'[v][k] # "catch"
      BY <3>1
    <3>4. CASE v = w /\ k = j
      BY <3>2, <3>3, <3>4
    <3>5. CASE ~(v = w /\ k = j)
      BY <3>1, <3>2, <3>3, <3>5
    <3> QED
      BY <3>4, <3>5
  <2>2. CASE /\ Claim(w, j) /\ Move(w, j, "load")
             /\ jobStatus' = [jobStatus EXCEPT ![j] = "RUNNING"]
             /\ leaseOwner' = [leaseOwner EXCEPT ![j] = w]
    BY <2>2 DEF Claim, Owns
  <2>3. CASE Claim(w, j) /\ Move(w, j, "idle")
    BY <2>3 DEF Claim
  <2> QED
    BY <1>2, <2>1, <2>2, <2>3 DEF Claim, Claimable
<1>3. ASSUME NEW w \in Instance, NEW j \in Job, Dispatch(w, j) PROVE Goal
  BY <1>3 DEF Dispatch
<1>4. ASSUME NEW w \in Instance, Die(w) PROVE Goal
  BY <1>4 DEF Die
<1>5. CASE UNCHANGED <<pc, alive>>
  BY <1>5
<1>6. ASSUME NEW w \in Instance, NEW j \in Job, DbError(w, j) PROVE Goal
  BY <1>6 DEF DbError
<1> QED
  BY <1>2, <1>3, <1>4, <1>5, <1>6 DEF Next, CreateFitmentJob, LeaseExpires, Reclaim, Heartbeat,
     ReviewStep, CheckApproval, ApprovalFails, CommitApproval, ReadForApproval, WriteForApproval,
     CheckRequeue, Requeue, runnerVars

LEMMA RunnersOwnStep == Ordered /\ Next => RunnersOwn'
<1> SUFFICES ASSUME Ordered, Next, NEW v \in Instance, NEW k \in Job,
                    pc'[v][k] \notin {"idle", "claim"}
             PROVE  v \in alive' /\ (Owns(v, k)' \/ AllIn(k, Settled)')
  BY RunnerCameFrom DEF RunnersOwn
<1>1. v \in alive' /\ (pc[v][k] \notin {"idle", "claim"} \/ Owns(v, k)')
  BY RunnerCameFrom
<1>2. CASE pc[v][k] \notin {"idle", "claim"}
  <2>1. v \in alive /\ (Owns(v, k) \/ AllIn(k, Settled)) /\ jobStatus[k] # "none"
    BY <1>2 DEF Ordered, OrderInv, RunnersOwn, RowsBelong
  <2>2. AllIn(k, Settled) => AllIn(k, Settled)'
    BY <2>1, KeptStep, AllInKept DEF Ordered
  <2>3. Owns(v, k) => Owns(v, k)' \/ AllIn(k, Settled)
    BY <2>1, JobMovesStep DEF JobMoves, Owns
  <2> QED
    BY <1>1, <2>1, <2>2, <2>3
<1> QED
  BY <1>1, <1>2

\* Once an item is at work or settled, no runner holds it but the one at work.
LEMMA RunnersHoldRunner ==
    ASSUME Ordered, NEW w \in Instance, NEW j \in Job, RunnerStep(w, j)
    PROVE  RunnersHold'
<1> USE DEF Ordered, TypeInv, RowsTyped, RunnersTyped, AtItems, OrderInv, RunnersHold, itemVars, Move
<1>1. CASE Claim(w, j)
  <2>1. PICK label \in {"idle", "load"} : pc' = [pc EXCEPT ![w][j] = label]
    BY <1>1 DEF Claim, Claimable
  <2> QED
    BY <1>1, <2>1 DEF Claim
<1>2. CASE LoadItems(w, j)
  BY <1>2 DEF LoadItems, ItemsToLoad, ItemsOf
<1>3. CASE StartItem(w, j)
  <2>1. PICK i \in todo[w][j] :
           /\ todo' = [todo EXCEPT ![w][j] = @ \ {i}]
           /\ cur' = [cur EXCEPT ![w][j] = i]
           /\ itemStatus' = [itemStatus EXCEPT ![i] = "RUNNING"]
    BY <1>3 DEF StartItem
  <2>2. i \in Item /\ jobOf[i] = j /\ itemStatus[i] = "QUEUED"
    BY DEF RowsBelong
  <2>3. pc' = [pc EXCEPT ![w][j] = "discover"] /\ pc[w][j] = "loop"
    BY <1>3 DEF StartItem
  <2>4. ASSUME NEW v \in Instance, NEW k \in Job, i \in todo[v][k]
        PROVE  v = w /\ k = j
    <3>1. k = j
      BY <2>2, <2>4 DEF RowsBelong
    <3>2. pc[v][j] \notin {"idle", "claim"} /\ pc[w][j] \notin {"idle", "claim"}
      BY <2>3, <2>4, <3>1
    <3>3. itemStatus[i] \notin Settled
      BY <2>2 DEF Settled
    <3> QED
      BY <2>2, <3>1, <3>2, <3>3, Alone
  <2> QED
    BY <1>3, <2>1, <2>2, <2>3, <2>4 DEF StartItem
<1>4. CASE Discover(w, j)
  <2>1. PICK label \in {"discover", "found", "nothing", "fail"} : pc' = [pc EXCEPT ![w][j] = label]
    <3>1. CASE \E outcome \in {"found", "nothing", "fail"} : Move(w, j, outcome)
      BY <1>4, <3>1 DEF Discover
    <3>2. CASE UNCHANGED pc
      <4>1. pc' = [pc EXCEPT ![w][j] = "discover"]
        BY <1>4, <3>2 DEF Discover
      <4> QED
        BY <4>1
    <3> QED
      BY <1>4, <3>1, <3>2 DEF Discover
  <2> QED
    BY <1>4, <2>1 DEF Discover
<1>5. CASE CommitFound(w, j) \/ CommitNothing(w, j) \/ FailItem(w, j)
  <2> DEFINE i == cur[w][j]
  <2>1. /\ i \in Item /\ jobOf[i] = j /\ itemStatus[i] = "RUNNING"
        /\ pc[w][j] \in {"found", "nothing", "fail"} /\ UNCHANGED <<todo, cur>>
    BY <1>5 DEF CommitFound, CommitNothing, FailItem, RowsBelong
  <2>2. ASSUME NEW v \in Instance, NEW k \in Job,
               pc[v][k] \in {"discover", "found", "nothing", "fail"}, cur[v][k] = i
        PROVE  v = w /\ k = j
    <3>1. k = j
      BY <2>1, <2>2 DEF RowsBelong
    <3>2. pc[v][j] \notin {"idle", "claim"} /\ pc[w][j] \notin {"idle", "claim"}
      BY <2>1, <2>2, <3>1
    <3>3. itemStatus[i] \notin Settled
      BY <2>1 DEF Settled
    <3> QED
      BY <2>1, <3>1, <3>2, <3>3, Alone
  <2>3. \/ pc' = [pc EXCEPT ![w][j] = "fail"] /\ UNCHANGED itemStatus
        \/ /\ pc' = [pc EXCEPT ![w][j] = "renew"]
           /\ \A x \in Item \ {i} : itemStatus'[x] = itemStatus[x]
    BY <1>5, <2>1 DEF CommitFound, CommitNothing, FailItem
  <2>4. CASE pc' = [pc EXCEPT ![w][j] = "fail"] /\ UNCHANGED itemStatus
    BY <2>1, <2>4
  <2>5. CASE /\ pc' = [pc EXCEPT ![w][j] = "renew"]
             /\ \A x \in Item \ {i} : itemStatus'[x] = itemStatus[x]
    <3>1. ASSUME NEW v \in Instance, NEW k \in Job
          PROVE  \A x \in todo'[v][k] : /\ pc'[v][k] \notin {"idle", "claim", "load"}
                                        /\ itemStatus'[x] = "QUEUED"
      BY <2>1, <2>5
    <3>2. ASSUME NEW v \in Instance, NEW k \in Job,
                 pc'[v][k] \in {"discover", "found", "nothing", "fail"}
          PROVE  itemStatus'[cur'[v][k]] = "RUNNING"
      <4>1. ~(v = w /\ k = j) /\ pc[v][k] = pc'[v][k]
        BY <2>5, <3>2
      <4>2. cur[v][k] \in Item /\ cur[v][k] # i
        BY <2>2, <3>2, <4>1
      <4> QED
        BY <2>1, <2>5, <3>2, <4>1, <4>2
    <3> QED
      BY <3>1, <3>2
  <2> QED
    BY <2>3, <2>4, <2>5
<1>6. CASE RenewAfterItem(w, j)
  BY <1>6 DEF RenewAfterItem
<1>7. CASE ReadItems(w, j)
  BY <1>7 DEF ReadItems
<1>8. CASE WriteJob(w, j)
  BY <1>8 DEF WriteJob
<1>9. CASE EndRun(w, j)
  BY <1>9 DEF EndRun
<1>10. CASE FailJob(w, j)
  BY <1>10 DEF FailJob, RunnersOwn
<1> QED
  BY <1>1, <1>2, <1>3, <1>4, <1>5, <1>6, <1>7, <1>8, <1>9, <1>10 DEF RunnerStep

LEMMA RunnersHoldStep == Ordered /\ Next => RunnersHold'
<1> SUFFICES ASSUME Ordered, Next PROVE RunnersHold'
  OBVIOUS
<1> USE DEF Ordered, TypeInv, RowsTyped, RunnersTyped, RequestsTyped, AtItems, OrderInv, RunnersHold,
        itemVars, runnerVars
<1>1. ASSUME NEW j \in Job, CreateFitmentJob(j) PROVE RunnersHold'
  <2>1. \A w \in Instance, k \in Job : pc[w][k] = "idle" /\ todo[w][k] = {}
    BY <1>1 DEF CreateFitmentJob, Orderly, RowsBelong
  <2> QED
    BY <1>1, <2>1 DEF CreateFitmentJob
<1>2. ASSUME NEW w \in Instance, NEW j \in Job, Dispatch(w, j) PROVE RunnersHold'
  BY <1>2 DEF Dispatch, Move
<1>3. ASSUME NEW w \in Instance, NEW j \in Job, RunnerStep(w, j) PROVE RunnersHold'
  BY <1>3, RunnersHoldRunner
<1>4. ASSUME NEW w \in Instance, NEW j \in Job, Reclaim(w, j) PROVE RunnersHold'
  <2>1. leaseOwner[j] \notin alive
    BY <1>4 DEF Reclaim, Reclaimable, LeasesLive
  <2>2. \A v \in Instance : pc[v][j] \notin {"idle", "claim"} => AllIn(j, Settled)
    BY <2>1 DEF RunnersOwn, Owns
  <2>3. ASSUME NEW v \in Instance, pc[v][j] \in {"discover", "found", "nothing", "fail"}
        PROVE  FALSE
    <3>1. AllIn(j, Settled)
      BY <2>2, <2>3
    <3>2. cur[v][j] \in ItemsOf(j) /\ itemStatus[cur[v][j]] = "RUNNING"
      BY <2>3 DEF ItemsOf, RowsBelong
    <3> QED
      BY <3>1, <3>2 DEF AllIn, Settled
  <2>4. /\ \A i \in Item : itemStatus[i] = "QUEUED" => itemStatus'[i] = "QUEUED"
        /\ \A i \in Item : jobOf[i] # j => itemStatus'[i] = itemStatus[i]
    BY <1>4 DEF Reclaim, Reset
  <2> QED
    BY <1>4, <2>3, <2>4 DEF Reclaim, RowsBelong
<1>5. ASSUME NEW w \in Instance, Die(w) PROVE RunnersHold'
  BY <1>5 DEF Die
<1>6. ASSUME NEW r \in Reviewer, CommitApproval(r) PROVE RunnersHold'
  <2>1. under[r] \in Item /\ itemStatus[under[r]] \notin {"QUEUED", "RUNNING"}
    BY <1>6 DEF CommitApproval, ReviewsSettled, Settled
  <2>2. \A i \in Item : itemStatus[i] \in {"QUEUED", "RUNNING"} => itemStatus'[i] = itemStatus[i]
    BY <1>6, <2>1 DEF CommitApproval
  <2> QED
    BY <1>6, <2>2 DEF CommitApproval
<1>7. ASSUME NEW a \in Admin, Requeue(a) PROVE RunnersHold'
  BY <1>7 DEF Requeue, NoReplays
<1>8. ASSUME NEW w \in Instance, NEW j \in Job, DbError(w, j) PROVE RunnersHold'
  BY <1>8 DEF DbError, Orderly
<1>9. CASE UNCHANGED <<itemVars, runnerVars>>
  BY <1>9
<1> QED
  BY <1>1, <1>2, <1>3, <1>4, <1>5, <1>6, <1>7, <1>8, <1>9 DEF Next, LeaseExpires, Heartbeat,
     ReviewStep, CheckApproval, ApprovalFails, ReadForApproval, WriteForApproval, CheckRequeue

\* Where a verdict to be written comes from: it was there already, or was just computed.
LEMMA VerdictCameFrom ==
    ASSUME Ordered, Next, NEW v \in Instance, NEW k \in Job, pc'[v][k] = "write"
    PROVE  \/ pc[v][k] = "write" /\ verdict'[v][k] = verdict[v][k]
           \/ /\ pc[v][k] = "read" /\ verdict'[v][k] = StatusOfJob(k)
              /\ UNCHANGED <<itemStatus, jobOf>>
<1> DEFINE Goal == \/ pc[v][k] = "write" /\ verdict'[v][k] = verdict[v][k]
                   \/ /\ pc[v][k] = "read" /\ verdict'[v][k] = StatusOfJob(k)
                      /\ UNCHANGED <<itemStatus, jobOf>>
<1> USE DEF Ordered, TypeInv, RunnersTyped, Move
<1>1. ASSUME NEW w \in Instance, NEW j \in Job, RunnerStep(w, j) PROVE Goal
  <2>1. CASE ReadItems(w, j)
    BY <2>1 DEF ReadItems, itemVars
  <2>2. CASE Discover(w, j)
    BY <2>2 DEF Discover
  <2>3. CASE Claim(w, j)
    <3>1. PICK label \in {"idle", "load"} : pc' = [pc EXCEPT ![w][j] = label]
      BY <2>3 DEF Claim, Claimable
    <3> QED
      BY <2>3, <3>1 DEF Claim
  <2>4. CASE CommitFound(w, j)
    BY <2>4 DEF CommitFound
  <2>5. CASE WriteJob(w, j)
    BY <2>5 DEF WriteJob
  <2>6. CASE FailJob(w, j)
    BY <2>6 DEF FailJob, Forget
  <2>7. CASE LoadItems(w, j) \/ StartItem(w, j) \/ CommitNothing(w, j) \/ FailItem(w, j)
    BY <2>7 DEF LoadItems, StartItem, CommitNothing, FailItem
  <2>8. CASE RenewAfterItem(w, j)
    BY <2>8 DEF RenewAfterItem
  <2>9. CASE EndRun(w, j)
    BY <2>9 DEF EndRun
  <2> QED
    BY <1>1, <2>1, <2>2, <2>3, <2>4, <2>5, <2>6, <2>7, <2>8, <2>9 DEF RunnerStep
<1>2. ASSUME NEW w \in Instance, NEW j \in Job, Dispatch(w, j) PROVE Goal
  BY <1>2 DEF Dispatch
<1>3. ASSUME NEW w \in Instance, Die(w) PROVE Goal
  BY <1>3 DEF Die
<1>4. ASSUME NEW w \in Instance, NEW j \in Job, DbError(w, j) PROVE Goal
  BY <1>4 DEF DbError, Orderly
<1>5. CASE UNCHANGED <<pc, verdict>>
  BY <1>5
<1> QED
  BY <1>1, <1>2, <1>3, <1>4, <1>5 DEF Next, CreateFitmentJob, LeaseExpires, Reclaim, Heartbeat,
     ReviewStep, CheckApproval, ApprovalFails, CommitApproval, ReadForApproval, WriteForApproval,
     CheckRequeue, Requeue, runnerVars

\* Where a reviewer comes from.
LEMMA ReviewerCameFrom ==
    ASSUME Ordered, Next, NEW q \in Reviewer, step'[q] # "idle"
    PROVE  /\ under'[q] \in Item
           /\ \/ step[q] # "idle" /\ under'[q] = under[q]
              \/ itemStatus[under'[q]] \in Settled
           /\ step'[q] = "write" =>
                 \/ step[q] = "write" /\ under'[q] = under[q] /\ opinion'[q] = opinion[q]
                 \/ /\ step[q] = "read" /\ under'[q] = under[q]
                    /\ opinion'[q] = StatusOfJob(jobOf[under[q]])
                    /\ UNCHANGED <<itemStatus, jobOf>>
<1> DEFINE Goal == /\ under'[q] \in Item
                   /\ \/ step[q] # "idle" /\ under'[q] = under[q]
                      \/ itemStatus[under'[q]] \in Settled
                   /\ step'[q] = "write" =>
                         \/ step[q] = "write" /\ under'[q] = under[q] /\ opinion'[q] = opinion[q]
                         \/ /\ step[q] = "read" /\ under'[q] = under[q]
                            /\ opinion'[q] = StatusOfJob(jobOf[under[q]])
                            /\ UNCHANGED <<itemStatus, jobOf>>
<1> USE DEF Ordered, TypeInv, RequestsTyped, AtItems
<1>1. ASSUME NEW r \in Reviewer, CheckApproval(r) PROVE Goal
  BY <1>1 DEF CheckApproval, Reviewable, Settled
<1>2. ASSUME NEW r \in Reviewer, ApprovalFails(r) PROVE Goal
  BY <1>2 DEF ApprovalFails, Leave
<1>3. ASSUME NEW r \in Reviewer, CommitApproval(r) PROVE Goal
  BY <1>3 DEF CommitApproval
<1>4. ASSUME NEW r \in Reviewer, ReadForApproval(r) PROVE Goal
  BY <1>4 DEF ReadForApproval, itemVars
<1>5. ASSUME NEW r \in Reviewer, WriteForApproval(r) PROVE Goal
  BY <1>5 DEF WriteForApproval, Leave
<1>6. CASE UNCHANGED <<step, under, opinion>>
  BY <1>6
<1> QED
  BY <1>1, <1>2, <1>3, <1>4, <1>5, <1>6 DEF Next, ReviewStep, RunnerStep, CreateFitmentJob,
     LeaseExpires, Dispatch, DbError, Claim, LoadItems, StartItem, Discover, CommitFound,
     CommitNothing, FailItem, RenewAfterItem, ReadItems, WriteJob, EndRun, FailJob, Reclaim,
     Heartbeat, Die, CheckRequeue, Requeue, reviewVars

LEMMA VerdictsStandStep == Ordered /\ Next => VerdictsStand'
<1> SUFFICES ASSUME Ordered, Next PROVE VerdictsStand'
  OBVIOUS
<1>1. \A k \in Job : jobStatus[k] # "none" => /\ (AllIn(k, Settled) => AllIn(k, Settled)')
                                             /\ (AllIn(k, Final) => AllIn(k, Final)')
  BY KeptStep, AllInKept DEF Ordered
<1>2. ASSUME NEW v \in Instance, NEW k \in Job, pc'[v][k] = "write"
      PROVE  /\ verdict'[v][k] \in Finished => AllIn(k, Settled)'
             /\ verdict'[v][k] \in Done => AllIn(k, Final)'
  <2>1. jobStatus[k] # "none"
    BY <1>2, VerdictCameFrom DEF Ordered, RowsBelong
  <2>2. /\ verdict'[v][k] \in Finished => AllIn(k, Settled)
        /\ verdict'[v][k] \in Done => AllIn(k, Final)
    BY <1>2, VerdictCameFrom, VerdictTrue DEF Ordered, OrderInv, VerdictsStand
  <2>3. /\ AllIn(k, Settled) => AllIn(k, Settled)'
        /\ AllIn(k, Final) => AllIn(k, Final)'
    BY <2>1, KeptStep, AllInKept DEF Ordered
  <2> QED
    BY <2>2, <2>3
<1>3. ASSUME NEW q \in Reviewer, step'[q] = "write"
      PROVE  /\ opinion'[q] \in Finished => AllIn(jobOf[under[q]], Settled)'
             /\ opinion'[q] \in Done => AllIn(jobOf[under[q]], Final)'
  <2> DEFINE k == jobOf[under[q]]
  <2>1. step[q] \in {"read", "write"} /\ under'[q] = under[q] /\ under[q] \in Item
    BY <1>3, ReviewerCameFrom
  <2>2. k \in Job /\ k # NoJob /\ jobStatus[k] # "none"
    BY <2>1 DEF Ordered, TypeInv, RowsTyped, RowsBelong
  <2>3. jobOf'[under'[q]] = k
    BY <2>1, <2>2, KeptStep DEF Kept
  <2>4. /\ opinion'[q] \in Finished => AllIn(k, Settled)
        /\ opinion'[q] \in Done => AllIn(k, Final)
    BY <1>3, ReviewerCameFrom, VerdictTrue DEF Ordered, OrderInv, VerdictsStand
  <2>5. /\ AllIn(k, Settled) => \A i \in Item : jobOf'[i] = k => itemStatus'[i] \in Settled
        /\ AllIn(k, Final) => \A i \in Item : jobOf'[i] = k => itemStatus'[i] \in Final
    BY <1>1, <2>2, KeptStep DEF AllIn, ItemsOf, Kept
  <2> HIDE DEF k
  <2> QED
    BY <2>3, <2>4, <2>5 DEF AllIn, ItemsOf
<1> QED
  BY <1>2, <1>3 DEF VerdictsStand

LEMMA OrderStep == Ordered /\ [Next]_vars => OrderInv'
<1> SUFFICES ASSUME Ordered, [Next]_vars PROVE OrderInv'
  OBVIOUS
<1>1. CASE UNCHANGED vars
  <2>1. OrderInv
    BY DEF Ordered
  <2> QED
    BY <1>1, <2>1 DEF OrderInv, LeasesLive, RunnersOwn, RunnersHold, VerdictsStand, DoneIsFinal,
       ReviewsSettled, NoReplays, AllIn, ItemsOf, Owns, vars, jobVars, itemVars, runnerVars, reviewVars
<1>2. CASE Next
  <2>1. DoneIsFinal'
    <3> SUFFICES ASSUME NEW k \in Job, jobStatus'[k] \in Done PROVE AllIn(k, Final)'
      BY DEF DoneIsFinal
    <3>1. jobStatus[k] # "none" /\ AllIn(k, Final)
      BY <1>2, JobMovesStep DEF JobMoves, Done, Finished, Ordered, OrderInv, DoneIsFinal
    <3> QED
      BY <3>1, KeptStep, AllInKept DEF Ordered
  <2>2. ReviewsSettled'
    <3> SUFFICES ASSUME NEW q \in Reviewer, step'[q] # "idle"
                 PROVE  itemStatus'[under'[q]] \in Settled
      BY DEF ReviewsSettled
    <3>1. under'[q] \in Item /\ itemStatus[under'[q]] \in Settled
      BY <1>2, ReviewerCameFrom DEF Ordered, OrderInv, ReviewsSettled
    <3> QED
      BY <3>1, KeptStep DEF Kept
  <2>3. NoReplays'
    <3>1. \A a \in Admin : ~CheckRequeue(a) /\ ~Requeue(a)
      BY DEF Ordered, Orderly, OrderInv, NoReplays, CheckRequeue, Requeue
    <3>2. UNCHANGED checked
      <4>1. CASE \E j \in Job : CreateFitmentJob(j) \/ LeaseExpires(j)
        BY <4>1 DEF CreateFitmentJob, LeaseExpires
      <4>2. ASSUME NEW w \in Instance, NEW j \in Job,
                   Dispatch(w, j) \/ RunnerStep(w, j) \/ DbError(w, j) \/ Reclaim(w, j)
            PROVE  UNCHANGED checked
        BY <4>2 DEF RunnerStep, Dispatch, DbError, Claim, LoadItems, StartItem, Discover,
           CommitFound, CommitNothing, FailItem, RenewAfterItem, ReadItems, WriteJob, EndRun,
           FailJob, Reclaim
      <4>3. CASE \E w \in Instance : Heartbeat(w) \/ Die(w)
        BY <4>3 DEF Heartbeat, Die
      <4>4. CASE \E r \in Reviewer : ReviewStep(r)
        BY <4>4 DEF ReviewStep, CheckApproval, ApprovalFails, CommitApproval, ReadForApproval,
           WriteForApproval
      <4> QED
        BY <1>2, <3>1, <4>1, <4>2, <4>3, <4>4 DEF Next
    <3> QED
      BY <3>2 DEF Ordered, OrderInv, NoReplays
  <2> QED
    BY <1>2, <2>1, <2>2, <2>3, LeasesLiveStep, RunnersOwnStep, RunnersHoldStep, VerdictsStandStep
       DEF OrderInv
<1> QED
  BY <1>1, <1>2

\* What a behaviour may meet is fixed from its start.
LEMMA EnvStep == [Next]_vars => env' = env
BY DEF Next, ReviewStep, RunnerStep, CreateFitmentJob, LeaseExpires, Dispatch, DbError, Claim,
   LoadItems, StartItem, Discover, CommitFound, CommitNothing, FailItem, RenewAfterItem, ReadItems,
   WriteJob, EndRun, FailJob, Reclaim, Heartbeat, Die, CheckApproval, ApprovalFails,
   CommitApproval, ReadForApproval, WriteForApproval, CheckRequeue, Requeue, vars

LEMMA OrderInvariant == Spec => [](Orderly => OrderInv)
<1>1. Init => (Orderly => OrderInv)
  BY FitmentAssumption DEF Init, OrderInv, LeasesLive, RunnersOwn, RunnersHold, VerdictsStand,
     DoneIsFinal, ReviewsSettled, NoReplays, FitmentAssumption, Done
<1>2. TypeInv /\ RowsBelong /\ (Orderly => OrderInv) /\ [Next]_vars => (Orderly => OrderInv)'
  BY OrderStep, EnvStep DEF Ordered, Orderly
<1> QED
  BY <1>1, <1>2, TypeInvariant, RowsInvariant, PTL DEF Spec
-----------------------------------------------------------------------------
\* A job that is reported as done has no item left that is queued, running or in review,
\* as long as nothing but reviews and crashes happens to it: a verdict that was read from
\* final items is still true when it is written, whoever writes it and however late.
THEOREM DoneIsReviewed == Spec => []DoneMeansReviewed
<1>1. TypeInv /\ (Orderly => OrderInv) => DoneMeansReviewed
  BY DEF DoneMeansReviewed, Orderly, OrderInv, DoneIsFinal, Done, AllIn, Final, ItemsOf
<1> QED
  BY <1>1, OrderInvariant, TypeInvariant, PTL

\* No crash, reclaim, restarted run or second reviewer takes an approval back: what a run is
\* at work on is never what a reviewer may have approved.
THEOREM ApprovalsStay == Spec => ApprovalsAreFinal
<1>1. TypeInv /\ RowsBelong /\ (Orderly => OrderInv) /\ [Next]_vars =>
         [env \subseteq {"reviews", "crashes"} =>
             \A i \in Item : itemStatus[i] = "APPROVED" => itemStatus'[i] = "APPROVED"]_vars
  BY KeptStep DEF Ordered, Orderly, Kept
<1> QED
  BY <1>1, OrderInvariant, TypeInvariant, RowsInvariant, PTL DEF Spec, ApprovalsAreFinal
=============================================================================
