------------------------- MODULE PricingJobs_proofs -------------------------
(* Proofs of the invariants of PricingJobs, for every set of instances,      *)
(* jobs, items and administrators and for every kind of fault.               *)
EXTENDS PricingJobs, FiniteSetTheorems, TLAPS

\* A runner that works on an item works on a real one.
CurrentIsItem ==
    \A w \in Instance, j \in Job :
        pc[w][j] \in {"search", "matched", "unmatched", "fail"} => cur[w][j] \in Item

TypeInv == TypeOK /\ CurrentIsItem

-----------------------------------------------------------------------------
(* The counters of a job are numbers, for any statuses of its items.         *)
LEMMA CountType ==
    ASSUME NEW j, NEW st, NEW s
    PROVE  CountOf(j, st, s) \in Nat
<1>1. {i \in ItemsOf(j) : st[i] = s} \subseteq Item
  BY DEF ItemsOf
<1>2. IsFiniteSet({i \in ItemsOf(j) : st[i] = s})
  BY <1>1, FS_Subset, PricingAssumption DEF PricingAssumption
<1> QED
  BY <1>2, FS_CardinalityType DEF CountOf

LEMMA PublicJobStatusType ==
    ASSUME NEW j, NEW st
    PROVE  PublicJobStatus(j, st) \in {"RUNNING", "FAILED", "PARTIAL", "COMPLETED"}
BY DEF PublicJobStatus

LEMMA InitType == Init => TypeInv
<1> SUFFICES ASSUME Init PROVE TypeInv
  OBVIOUS
<1> USE PricingAssumption DEF PricingAssumption
<1>1. TypeOK
  BY DEF Init, TypeOK, NoTally, NothingSeen, Active, Settled
<1>2. CurrentIsItem
  BY DEF Init, CurrentIsItem
<1> QED
  BY <1>1, <1>2 DEF TypeInv

(* Where a runner goes after a transaction, whatever it is told about it.    *)
LEMMA AfterStep ==
    ASSUME NEW w, NEW j, NEW ok, NEW err, After(w, j, ok, err)
    PROVE  \E s \in {ok, err} : pc' = [pc EXCEPT ![w][j] = s]
BY DEF After

(* Every step of a runner keeps the types.                                   *)
LEMMA RunnerType ==
    ASSUME TypeInv, NEW w \in Instance, NEW j \in Job, RunnerStep(w, j)
    PROVE  TypeInv'
<1> USE PricingAssumption DEF PricingAssumption, TypeInv, TypeOK, CurrentIsItem,
        jobVars, itemVars, runnerVars, Active, Settled, Finished
<1>1. CASE Claim(w, j)
  BY <1>1 DEF Claim
<1>2. CASE ClaimLost(w, j)
  BY <1>2 DEF ClaimLost
<1>3. CASE LoadItems(w, j)
  BY <1>3 DEF LoadItems, ItemsToLoad, ItemsOf
<1>4. CASE StartItem(w, j)
  BY <1>4 DEF StartItem
<1>5. CASE Search(w, j)
  <2>1. PICK s \in {"search", "matched", "unmatched", "fail"} :
           /\ pc[w][j] = "search"
           /\ pc' = [pc EXCEPT ![w][j] = s]
    BY <1>5 DEF Search
  <2>2. attempt' \in [Instance -> [Job -> 0..MaxAttempts]]
    <3>1. CASE UNCHANGED attempt
      BY <3>1
    <3>2. CASE attempt[w][j] < MaxAttempts /\ attempt' = [attempt EXCEPT ![w][j] = @ + 1]
      <4>1. attempt[w][j] + 1 \in 0..MaxAttempts
        BY <3>2
      <4> QED
        BY <3>2, <4>1
    <3> QED
      BY <1>5, <3>1, <3>2 DEF Search, MayRetry
  <2> QED
    BY <1>5, <2>1, <2>2 DEF Search
<1>6. CASE CommitMatches(w, j)
  <2>1. PICK s \in {"renew", "fail"} : pc' = [pc EXCEPT ![w][j] = s]
    BY <1>6, AfterStep DEF CommitMatches
  <2>2. cur[w][j] \in Item
    BY <1>6 DEF CommitMatches
  <2>3. proposal' \in [Item -> {"none", "current", "superseded"}]
    BY <1>6 DEF CommitMatches
  <2>4. deadLetter' \in [Item -> {"none", "OPEN", "REQUEUED", "RESOLVED"}]
    BY <1>6, <2>2 DEF CommitMatches, Resolved
  <2>5. /\ evidence' \in SUBSET Item
        /\ itemStatus' \in [Item -> {"none"} \cup Active \cup Settled]
        /\ UNCHANGED <<inst, jobVars, todo, cur, attempt, seen, checked>>
    BY <1>6, <2>2 DEF CommitMatches
  <2> QED
    BY <2>1, <2>2, <2>3, <2>4, <2>5
<1>7. CASE CommitRefused(w, j)
  BY <1>7 DEF CommitRefused
<1>8. CASE CommitNoMatches(w, j)
  <2>1. PICK s \in {"renew", "fail"} : pc' = [pc EXCEPT ![w][j] = s]
    BY <1>8, AfterStep DEF CommitNoMatches
  <2>2. cur[w][j] \in Item
    BY <1>8 DEF CommitNoMatches
  <2>3. /\ deadLetter' \in [Item -> {"none", "OPEN", "REQUEUED", "RESOLVED"}]
        /\ itemStatus' \in [Item -> {"none"} \cup Active \cup Settled]
    BY <1>8, <2>2 DEF CommitNoMatches, Resolved
  <2> QED
    BY <1>8, <2>1, <2>2, <2>3 DEF CommitNoMatches
<1>9. CASE FailItem(w, j)
  <2>1. PICK s \in {"renew", "catch"} : pc' = [pc EXCEPT ![w][j] = s]
    BY <1>9, AfterStep DEF FailItem
  <2>2. /\ deadLetter' \in [Item -> {"none", "OPEN", "REQUEUED", "RESOLVED"}]
        /\ itemStatus' \in [Item -> {"none"} \cup Active \cup Settled]
    BY <1>9 DEF FailItem, Captured
  <2> QED
    BY <1>9, <2>1, <2>2 DEF FailItem
<1>10. CASE RenewAfterItem(w, j)
  BY <1>10 DEF RenewAfterItem
<1>11. CASE ReadProgress(w, j)
  BY <1>11 DEF ReadProgress
<1>12. CASE WriteProgress(w, j)
  <2>1. jobStatus' \in [Job -> {"none"} \cup Active \cup Finished]
    <3>1. CASE Owns(w, j)
      <4>1. jobStatus' = [jobStatus EXCEPT ![j] = PublicJobStatus(j, seen[w][j])]
        BY <1>12, <3>1 DEF WriteProgress
      <4>2. PublicJobStatus(j, seen[w][j]) \in {"RUNNING", "FAILED", "PARTIAL", "COMPLETED"}
        BY PublicJobStatusType
      <4> QED
        BY <4>1, <4>2
    <3> QED
      BY <1>12, <3>1 DEF WriteProgress
  <2>2. tally' \in [Job -> [completed : Nat, noMatch : Nat, failed : Nat]]
    <3>1. CASE Owns(w, j)
      <4> DEFINE new == [completed |-> CountOf(j, seen[w][j], "COMPLETED"),
                         noMatch   |-> CountOf(j, seen[w][j], "NO_MATCHES"),
                         failed    |-> CountOf(j, seen[w][j], "FAILED")]
      <4>1. new \in [completed : Nat, noMatch : Nat, failed : Nat]
        BY CountType
      <4>2. tally' = [tally EXCEPT ![j] = new]
        BY <1>12, <3>1 DEF WriteProgress
      <4> QED
        BY <4>1, <4>2
    <3> QED
      BY <1>12, <3>1 DEF WriteProgress
  <2>3. /\ leaseOwner' \in [Job -> Instance \cup {NoInstance}]
        /\ lease' \in [Job -> {"none", "live", "expired"}]
    BY <1>12 DEF WriteProgress
  <2>4. NothingSeen \in [Item -> {"none"} \cup Active \cup Settled]
    BY DEF NothingSeen
  <2>5. /\ seen' = [seen EXCEPT ![w][j] = NothingSeen]
        /\ pc' = [pc EXCEPT ![w][j] = "loop"]
        /\ UNCHANGED <<inst, itemVars, todo, cur, attempt, checked>>
    BY <1>12 DEF WriteProgress
  <2> QED
    BY <2>1, <2>2, <2>3, <2>4, <2>5
<1>13. CASE EndRun(w, j)
  BY <1>13 DEF EndRun
<1>14. CASE FailJob(w, j)
  <2>1. /\ jobStatus' \in [Job -> {"none"} \cup Active \cup Finished]
        /\ leaseOwner' \in [Job -> Instance \cup {NoInstance}]
        /\ lease' \in [Job -> {"none", "live", "expired"}]
        /\ UNCHANGED tally
    <3>1. CASE Owns(w, j)
      <4>1. /\ jobStatus' = [jobStatus EXCEPT ![j] = "FAILED"]
            /\ leaseOwner' = [leaseOwner EXCEPT ![j] = NoInstance]
            /\ lease' = [lease EXCEPT ![j] = "none"]
            /\ UNCHANGED tally
        BY <1>14, <3>1 DEF FailJob
      <4> QED
        BY <4>1
    <3>2. CASE ~Owns(w, j)
      BY <1>14, <3>2 DEF FailJob
    <3> QED
      BY <3>1, <3>2
  <2>2. NothingSeen \in [Item -> {"none"} \cup Active \cup Settled]
    BY DEF NothingSeen
  <2>3. /\ todo' \in [Instance -> [Job -> SUBSET Item]]
        /\ cur' \in [Instance -> [Job -> Item \cup {NoItem}]]
        /\ attempt' \in [Instance -> [Job -> 0..MaxAttempts]]
        /\ seen' \in [Instance -> [Job -> [Item -> {"none"} \cup Active \cup Settled]]]
    BY <1>14, <2>2 DEF FailJob, ForgetRun
  <2>4. /\ pc' = [pc EXCEPT ![w][j] = "idle"]
        /\ cur' = [cur EXCEPT ![w][j] = NoItem]
        /\ UNCHANGED <<inst, itemVars, checked>>
    BY <1>14 DEF FailJob, ForgetRun
  <2> QED
    BY <2>1, <2>3, <2>4
<1> QED
  BY <1>1, <1>2, <1>3, <1>4, <1>5, <1>6, <1>7, <1>8, <1>9, <1>10, <1>11, <1>12, <1>13,
     <1>14 DEF RunnerStep

(* Every other step keeps them too.                                          *)
LEMMA NextType == TypeInv /\ [Next]_vars => TypeInv'
<1> SUFFICES ASSUME TypeInv, [Next]_vars PROVE TypeInv'
  OBVIOUS
<1> USE PricingAssumption DEF PricingAssumption, TypeInv, TypeOK, CurrentIsItem, jobVars,
        itemVars, runnerVars, Active, Settled, Finished
<1>1. ASSUME NEW j \in Job, CreatePricingJob(j) PROVE TypeInv'
  <2>1. itemStatus' \in [Item -> {"none"} \cup Active \cup Settled]
    BY <1>1 DEF CreatePricingJob
  <2> QED
    BY <1>1, <2>1 DEF CreatePricingJob
<1>12. ASSUME NEW j \in Job, LeaseExpires(j) PROVE TypeInv'
  BY <1>12 DEF LeaseExpires
<1>2. ASSUME NEW w \in Instance, NEW j \in Job, Dispatch(w, j) PROVE TypeInv'
  BY <1>2 DEF Dispatch
<1>3. ASSUME NEW w \in Instance, NEW j \in Job, RunnerStep(w, j) PROVE TypeInv'
  BY <1>3, RunnerType
<1>4. ASSUME NEW w \in Instance, NEW j \in Job, DbError(w, j) PROVE TypeInv'
  <2>1. PICK s \in {"fail", "catch"} :
           /\ pc[w][j] = "matched" \/ pc[w][j] = "unmatched" \/ s = "catch"
           /\ \/ pc' = [pc EXCEPT ![w][j] = s] /\ UNCHANGED <<todo, cur, attempt, seen>>
              \/ pc' = [pc EXCEPT ![w][j] = "idle"] /\ ForgetRun(w, j)
    BY <1>4 DEF DbError
  <2>2. UNCHANGED <<inst, jobVars, itemVars, checked>>
    BY <1>4 DEF DbError
  <2>3. CASE pc' = [pc EXCEPT ![w][j] = s] /\ UNCHANGED <<todo, cur, attempt, seen>>
    BY <2>1, <2>2, <2>3
  <2>4. CASE pc' = [pc EXCEPT ![w][j] = "idle"] /\ ForgetRun(w, j)
    <3>1. NothingSeen \in [Item -> {"none"} \cup Active \cup Settled]
      BY DEF NothingSeen
    <3> QED
      BY <2>2, <2>4, <3>1 DEF ForgetRun
  <2> QED
    BY <2>1, <2>3, <2>4
<1>5. ASSUME NEW w \in Instance, NEW j \in Job, Reclaim(w, j) PROVE TypeInv'
  BY <1>5 DEF Reclaim, Reset
<1>6. ASSUME NEW w \in Instance, Heartbeat(w) PROVE TypeInv'
  BY <1>6 DEF Heartbeat
<1>7. ASSUME NEW w \in Instance, StartInstance(w) \/ BeginShutdown(w) \/ EndShutdown(w)
      PROVE  TypeInv'
  <2>1. /\ \E s \in {"up", "stopping", "stopped"} : inst' = [inst EXCEPT ![w] = s]
        /\ UNCHANGED <<jobVars, itemVars, runnerVars, checked>>
    BY <1>7 DEF StartInstance, BeginShutdown, EndShutdown
  <2> QED
    BY <2>1
<1>8. ASSUME NEW w \in Instance, Die(w) PROVE TypeInv'
  <2>1. NothingSeen \in [Item -> {"none"} \cup Active \cup Settled]
    BY DEF NothingSeen
  <2> QED
    BY <1>8, <2>1 DEF Die
<1>9. ASSUME NEW a \in Admin, CheckRequeue(a) \/ RequeueRefused(a) PROVE TypeInv'
  <2>1. /\ \E i \in Item \cup {NoItem} : checked' = [checked EXCEPT ![a] = i]
        /\ UNCHANGED <<inst, jobVars, itemVars, runnerVars>>
    BY <1>9 DEF CheckRequeue, RequeueRefused
  <2> QED
    BY <2>1
<1>10. ASSUME NEW a \in Admin, Requeue(a) PROVE TypeInv'
  BY <1>10 DEF Requeue
<1>11. CASE UNCHANGED vars
  BY <1>11 DEF vars
<1> QED
  BY <1>1, <1>2, <1>3, <1>4, <1>5, <1>6, <1>7, <1>8, <1>9, <1>10, <1>11,
     <1>12 DEF Next

LEMMA TypeInvariant == Spec => []TypeInv
<1>1. Init => TypeInv
  BY InitType
<1>2. TypeInv /\ [Next]_vars => TypeInv'
  BY NextType
<1> QED
  BY <1>1, <1>2, PTL DEF Spec

\* The rows of the queue and the runners' memory always have their types.
THEOREM TypeCorrect == Spec => []TypeOK
<1>1. TypeInv => TypeOK
  BY DEF TypeInv
<1> QED
  BY <1>1, TypeInvariant, PTL

-----------------------------------------------------------------------------
(* What a settled item leaves behind: each part is inductive with the types. *)
ItemInv == FailedItemsAreListed /\ RequeuedItemsArePending /\ CompletedItemsHaveEvidence

LEMMA ItemInvRunner ==
    ASSUME TypeInv, ItemInv, NEW w \in Instance, NEW j \in Job, RunnerStep(w, j)
    PROVE  ItemInv'
<1> USE DEF ItemInv, FailedItemsAreListed, RequeuedItemsArePending,
        CompletedItemsHaveEvidence, Active, itemVars
<1>1. cur[w][j] \in Item \/ pc[w][j] \notin {"search", "matched", "unmatched", "fail"}
  BY DEF TypeInv, CurrentIsItem
<1>2. /\ itemStatus \in [Item -> {"none"} \cup Active \cup Settled]
      /\ deadLetter \in [Item -> {"none", "OPEN", "REQUEUED", "RESOLVED"}]
      /\ proposal \in [Item -> {"none", "current", "superseded"}]
  BY DEF TypeInv, TypeOK
<1>3. CASE StartItem(w, j)
  BY <1>2, <1>3 DEF StartItem
<1>4. CASE CommitMatches(w, j)
  <2>1. cur[w][j] \in Item
    BY <1>1, <1>4 DEF CommitMatches
  <2>2. /\ itemStatus' = [itemStatus EXCEPT ![cur[w][j]] = "COMPLETED"]
        /\ evidence' = evidence \cup {cur[w][j]}
        /\ deadLetter' = [deadLetter EXCEPT ![cur[w][j]] = Resolved(cur[w][j])]
        /\ \A k \in Item : proposal'[k] = "none" => proposal[k] = "none"
        /\ proposal'[cur[w][j]] = "current"
    BY <1>2, <1>4, <2>1 DEF CommitMatches
  <2>3. Resolved(cur[w][j]) # "REQUEUED"
    BY DEF Resolved
  <2> QED
    BY <1>2, <2>1, <2>2, <2>3
<1>5. CASE CommitNoMatches(w, j)
  BY <1>1, <1>2, <1>5 DEF CommitNoMatches, Resolved
<1>6. CASE FailItem(w, j)
  BY <1>1, <1>2, <1>6 DEF FailItem, Captured
<1>7. CASE UNCHANGED itemVars
  BY <1>7
<1> QED
  BY <1>3, <1>4, <1>5, <1>6, <1>7 DEF RunnerStep, Claim, ClaimLost, LoadItems, Search,
     CommitRefused, RenewAfterItem, ReadProgress, WriteProgress, EndRun, FailJob

LEMMA ItemInvStep == TypeInv /\ ItemInv /\ [Next]_vars => ItemInv'
<1> SUFFICES ASSUME TypeInv, ItemInv, [Next]_vars PROVE ItemInv'
  OBVIOUS
<1> USE PricingAssumption DEF PricingAssumption, ItemInv, FailedItemsAreListed,
        RequeuedItemsArePending, CompletedItemsHaveEvidence, Active
<1>2. /\ itemStatus \in [Item -> {"none"} \cup Active \cup Settled]
      /\ deadLetter \in [Item -> {"none", "OPEN", "REQUEUED", "RESOLVED"}]
      /\ jobStatus \in [Job -> {"none"} \cup Active \cup Finished]
      /\ checked \in [Admin -> Item \cup {NoItem}]
  BY DEF TypeInv, TypeOK
<1>3. ASSUME NEW j \in Job, CreatePricingJob(j) PROVE ItemInv'
  <2>1. \A i \in Item : itemStatus'[i] = "QUEUED" \/ itemStatus'[i] = itemStatus[i]
    BY <1>3 DEF CreatePricingJob
  <2> QED
    BY <1>2, <1>3, <2>1 DEF CreatePricingJob
<1>4. ASSUME NEW w \in Instance, NEW j \in Job, RunnerStep(w, j) PROVE ItemInv'
  BY <1>4, ItemInvRunner DEF ItemInv
<1>5. ASSUME NEW w \in Instance, NEW j \in Job, Reclaim(w, j) PROVE ItemInv'
  <2>1. \A i \in Item : \/ itemStatus'[i] = itemStatus[i]
                        \/ itemStatus[i] = "RUNNING" /\ itemStatus'[i] = "QUEUED"
    BY <1>5 DEF Reclaim, Reset
  <2> QED
    BY <1>5, <2>1 DEF Reclaim
<1>6. ASSUME NEW a \in Admin, Requeue(a) PROVE ItemInv'
  <2>1. checked[a] \in Item
    BY <1>2, <1>6 DEF Requeue
  <2> QED
    BY <1>2, <1>6, <2>1 DEF Requeue
<1>7. CASE UNCHANGED itemVars
  BY <1>7 DEF itemVars
<1> QED
  BY <1>3, <1>4, <1>5, <1>6, <1>7 DEF Next, vars, itemVars, LeaseExpires, Dispatch, DbError,
     Heartbeat, StartInstance, BeginShutdown, EndShutdown, Die, CheckRequeue, RequeueRefused

LEMMA ItemInvariant == Spec => []ItemInv
<1>1. Init => ItemInv
  BY DEF Init, ItemInv, FailedItemsAreListed, RequeuedItemsArePending,
     CompletedItemsHaveEvidence
<1> QED
  BY <1>1, ItemInvStep, TypeInvariant, PTL DEF Spec

\* Whatever crashes, expires or interleaves, an item that failed has an open dead
\* letter: failure and listing are one transaction, and so are replay and requeue.
THEOREM FailuresListed == Spec => []FailedItemsAreListed
BY ItemInvariant, PTL DEF ItemInv

\* An entry marked REQUEUED has its item queued or running.
THEOREM ReplaysPending == Spec => []RequeuedItemsArePending
BY ItemInvariant, PTL DEF ItemInv

\* A completed item has its listings and its proposal, even when a stale runner or
\* an overlapping replay touches it.
THEOREM CompletionsBacked == Spec => []CompletedItemsHaveEvidence
BY ItemInvariant, PTL DEF ItemInv

-----------------------------------------------------------------------------
LEMMA LeaseStep == TypeInv /\ LeaseMatchesStatus /\ [Next]_vars => LeaseMatchesStatus'
<1> SUFFICES ASSUME TypeInv, LeaseMatchesStatus, [Next]_vars PROVE LeaseMatchesStatus'
  OBVIOUS
<1> USE PricingAssumption DEF PricingAssumption, LeaseMatchesStatus, Active, Finished
<1>1. /\ jobStatus \in [Job -> {"none"} \cup Active \cup Finished]
      /\ leaseOwner \in [Job -> Instance \cup {NoInstance}]
      /\ lease \in [Job -> {"none", "live", "expired"}]
  BY DEF TypeInv, TypeOK
<1>2. ASSUME NEW j \in Job, CreatePricingJob(j) PROVE LeaseMatchesStatus'
  BY <1>1, <1>2 DEF CreatePricingJob
<1>3. ASSUME NEW j \in Job, LeaseExpires(j) PROVE LeaseMatchesStatus'
  BY <1>1, <1>3 DEF LeaseExpires
<1>4. ASSUME NEW w \in Instance, NEW j \in Job, Claim(w, j) PROVE LeaseMatchesStatus'
  BY <1>1, <1>4 DEF Claim
<1>5. ASSUME NEW w \in Instance, NEW j \in Job, RenewAfterItem(w, j) PROVE LeaseMatchesStatus'
  BY <1>1, <1>5 DEF RenewAfterItem, Owns
<1>6. ASSUME NEW w \in Instance, NEW j \in Job, WriteProgress(w, j) PROVE LeaseMatchesStatus'
  <2>1. CASE Owns(w, j)
    <3>1. PICK status \in {"RUNNING", "FAILED", "PARTIAL", "COMPLETED"} :
             /\ jobStatus' = [jobStatus EXCEPT ![j] = status]
             /\ IF status \in Finished
                THEN /\ leaseOwner' = [leaseOwner EXCEPT ![j] = NoInstance]
                     /\ lease' = [lease EXCEPT ![j] = "none"]
                ELSE UNCHANGED <<leaseOwner, lease>>
      BY <1>6, <2>1, PublicJobStatusType DEF WriteProgress, Released
    <3> QED
      BY <1>1, <2>1, <3>1 DEF Owns
  <2>2. CASE ~Owns(w, j)
    BY <1>6, <2>2 DEF WriteProgress, jobVars
  <2> QED
    BY <2>1, <2>2
<1>7. ASSUME NEW w \in Instance, NEW j \in Job, FailJob(w, j) PROVE LeaseMatchesStatus'
  <2>1. CASE Owns(w, j)
    BY <1>1, <1>7, <2>1 DEF FailJob
  <2>2. CASE ~Owns(w, j)
    BY <1>7, <2>2 DEF FailJob, jobVars
  <2> QED
    BY <2>1, <2>2
<1>8. ASSUME NEW w \in Instance, NEW j \in Job, Reclaim(w, j) PROVE LeaseMatchesStatus'
  BY <1>1, <1>8 DEF Reclaim
<1>9. ASSUME NEW w \in Instance, Heartbeat(w) PROVE LeaseMatchesStatus'
  BY <1>1, <1>9 DEF Heartbeat, Owns
<1>10. ASSUME NEW a \in Admin, Requeue(a) PROVE LeaseMatchesStatus'
  BY <1>1, <1>10 DEF Requeue
<1>11. CASE UNCHANGED <<jobStatus, leaseOwner, lease>>
  BY <1>11
<1> QED
  BY <1>2, <1>3, <1>4, <1>5, <1>6, <1>7, <1>8, <1>9, <1>10, <1>11 DEF Next, vars, jobVars,
     RunnerStep, ClaimLost, LoadItems, StartItem, Search, CommitMatches, CommitRefused,
     CommitNoMatches, FailItem, ReadProgress, EndRun, Dispatch, DbError, StartInstance,
     BeginShutdown, EndShutdown, Die, CheckRequeue, RequeueRefused

\* A job is RUNNING exactly while it has an owner and a lease.
THEOREM LeaseHeld == Spec => []LeaseMatchesStatus
<1>1. Init => LeaseMatchesStatus
  BY DEF Init, LeaseMatchesStatus
<1> QED
  BY <1>1, LeaseStep, TypeInvariant, PTL DEF Spec

-----------------------------------------------------------------------------
(* Why two instances never work on one job when heartbeats are timely, a     *)
(* shutdown waits for its work and replays do not overlap.  The lease alone  *)
(* does not say it: the argument needs that a silent owner is idle, that a   *)
(* runner's list holds only queued items of a job it owns, and that a replay *)
(* in flight has a finished job.                                             *)
Timely == ~SlowHeartbeats /\ ~DrainTimeout /\ \A a, b \in Admin : a = b

Working == {"search", "matched", "unmatched", "fail"}
Looping == Working \cup {"loop", "renew", "read", "write"}
Beating(w) == inst[w] \in {"up", "stopping"}


SilentIsIdle(w, j) == pc[w][j] # "idle" => Beating(w)

BusyOwns(w, j) == pc[w][j] \in (Looping \ {"loop"}) \cup {"load"} => Owns(w, j)

ListIsQueued(w, j) ==
    pc[w][j] \in Looping =>
        \A i \in todo[w][j] :
            /\ JobOf[i] = j
            /\ Owns(w, j)
            /\ itemStatus[i] = "QUEUED"
            /\ pc[w][j] = "write" => seen[w][j][i] = "QUEUED"

CurrentIsOwn(w, j) ==
    pc[w][j] \in Working => JobOf[cur[w][j]] = j /\ cur[w][j] \notin todo[w][j]

RunnerInv(w, j) ==
    SilentIsIdle(w, j) /\ BusyOwns(w, j) /\ ListIsQueued(w, j) /\ CurrentIsOwn(w, j)

BeatingLeases ==
    \A j \in Job : leaseOwner[j] # NoInstance =>
        /\ inst[leaseOwner[j]] # "new"
        /\ Beating(leaseOwner[j]) => lease[j] = "live"

ReplaysOfFinished ==
    \A a \in Admin : checked[a] # NoItem => jobStatus[JobOf[checked[a]]] \in Finished

NewJobsAreEmpty ==
    \A i \in Item : jobStatus[JobOf[i]] = "none" => itemStatus[i] = "none"

WorkInv ==
    /\ \A w \in Instance, j \in Job : RunnerInv(w, j)
    /\ BeatingLeases
    /\ ReplaysOfFinished
    /\ NewJobsAreEmpty

WorkContext == Timely /\ TypeInv /\ LeaseMatchesStatus /\ WorkInv

(* What a runner of w on j may change: its own memory, the row of j if it is *)
(* queued or owned, and at most one item of j, which it must then own.       *)
Memory(w, j) == <<pc[w][j], todo[w][j], cur[w][j], seen[w][j]>>

OthersUndisturbed(w, j) ==
    \A v \in Instance, k \in Job : v # w \/ k # j => UNCHANGED Memory(v, k)

RowStep(w, j) ==
    \/ UNCHANGED <<jobStatus, leaseOwner, lease>>
    \/ /\ jobStatus[j] = "QUEUED" \/ Owns(w, j)
       /\ \A k \in Job : k # j => /\ jobStatus'[k] = jobStatus[k]
                                  /\ leaseOwner'[k] = leaseOwner[k]
                                  /\ lease'[k] = lease[k]
       /\ jobStatus'[j] \in {"RUNNING"} \cup Finished
       /\ \/ leaseOwner'[j] = NoInstance
          \/ /\ leaseOwner'[j] = w
             /\ lease'[j] = "live" \/ (Owns(w, j) /\ lease'[j] = lease[j])

ItemStep(w, j) ==
    \/ UNCHANGED itemStatus
    \/ /\ Owns(w, j)
       /\ \E i \in Item : /\ JobOf[i] = j
                          /\ \A k \in Item : k # i => itemStatus'[k] = itemStatus[k]

RunnerFrame(w, j) ==
    /\ Beating(w)
    /\ OthersUndisturbed(w, j)
    /\ RowStep(w, j)
    /\ ItemStep(w, j)
    /\ UNCHANGED <<inst, checked>>

LEMMA RunnerKeepsFrame ==
    ASSUME WorkContext, NEW w \in Instance, NEW j \in Job, RunnerStep(w, j)
    PROVE  RunnerFrame(w, j)
<1> USE DEF jobVars, itemVars, Memory
<1>1. /\ pc \in [Instance -> [Job -> {"idle", "claim", "load", "loop", "search", "matched",
                              "unmatched", "fail", "renew", "read", "write", "catch"}]]
      /\ todo \in [Instance -> [Job -> SUBSET Item]]
      /\ cur \in [Instance -> [Job -> Item \cup {NoItem}]]
      /\ seen \in [Instance -> [Job -> [Item -> {"none"} \cup Active \cup Settled]]]
      /\ jobStatus \in [Job -> {"none"} \cup Active \cup Finished]
      /\ leaseOwner \in [Job -> Instance \cup {NoInstance}]
      /\ lease \in [Job -> {"none", "live", "expired"}]
      /\ itemStatus \in [Item -> {"none"} \cup Active \cup Settled]
  BY DEF WorkContext, TypeInv, TypeOK
<1>2. RunnerInv(w, j) /\ (pc[w][j] \in Working => cur[w][j] \in Item)
  BY DEF WorkContext, WorkInv, TypeInv, CurrentIsItem, Working
<1>3. Beating(w) /\ UNCHANGED <<inst, checked>>
  <2>1. pc[w][j] # "idle"
    BY DEF RunnerStep, Claim, ClaimLost, LoadItems, StartItem, Search, CommitMatches,
       CommitRefused, CommitNoMatches, FailItem, RenewAfterItem, ReadProgress,
       WriteProgress, EndRun, FailJob
  <2>2. UNCHANGED <<inst, checked>>
    BY DEF RunnerStep, Claim, ClaimLost, LoadItems, StartItem, Search, CommitMatches,
       CommitRefused, CommitNoMatches, FailItem, RenewAfterItem, ReadProgress,
       WriteProgress, EndRun, FailJob
  <2> QED
    BY <1>2, <2>1, <2>2 DEF RunnerInv, SilentIsIdle
<1>4. OthersUndisturbed(w, j)
  <2>1. CASE Claim(w, j)
    BY <1>1, <2>1 DEF Claim, OthersUndisturbed
  <2>2. CASE ClaimLost(w, j)
    BY <1>1, <2>2 DEF ClaimLost, OthersUndisturbed
  <2>3. CASE LoadItems(w, j)
    BY <1>1, <2>3 DEF LoadItems, OthersUndisturbed
  <2>4. CASE StartItem(w, j)
    BY <1>1, <2>4 DEF StartItem, OthersUndisturbed
  <2>5. CASE Search(w, j)
    BY <1>1, <2>5 DEF Search, OthersUndisturbed
  <2>6. CASE CommitMatches(w, j)
    <3>1. PICK s \in {"renew", "fail"} : pc' = [pc EXCEPT ![w][j] = s]
      BY <2>6, AfterStep DEF CommitMatches
    <3>2. UNCHANGED <<todo, cur, seen>>
      BY <2>6 DEF CommitMatches
    <3> QED
      BY <1>1, <3>1, <3>2 DEF OthersUndisturbed
  <2>7. CASE CommitRefused(w, j)
    BY <1>1, <2>7 DEF CommitRefused, OthersUndisturbed
  <2>8. CASE CommitNoMatches(w, j)
    <3>1. PICK s \in {"renew", "fail"} : pc' = [pc EXCEPT ![w][j] = s]
      BY <2>8, AfterStep DEF CommitNoMatches
    <3>2. UNCHANGED <<todo, cur, seen>>
      BY <2>8 DEF CommitNoMatches
    <3> QED
      BY <1>1, <3>1, <3>2 DEF OthersUndisturbed
  <2>9. CASE FailItem(w, j)
    <3>1. PICK s \in {"renew", "catch"} : pc' = [pc EXCEPT ![w][j] = s]
      BY <2>9, AfterStep DEF FailItem
    <3>2. UNCHANGED <<todo, cur, seen>>
      BY <2>9 DEF FailItem
    <3> QED
      BY <1>1, <3>1, <3>2 DEF OthersUndisturbed
  <2>10. CASE RenewAfterItem(w, j)
    BY <1>1, <2>10 DEF RenewAfterItem, OthersUndisturbed
  <2>11. CASE ReadProgress(w, j)
    BY <1>1, <2>11 DEF ReadProgress, OthersUndisturbed
  <2>12. CASE WriteProgress(w, j)
    BY <1>1, <2>12 DEF WriteProgress, OthersUndisturbed
  <2>13. CASE EndRun(w, j)
    BY <1>1, <2>13 DEF EndRun, OthersUndisturbed
  <2>14. CASE FailJob(w, j)
    BY <1>1, <2>14 DEF FailJob, OthersUndisturbed, ForgetRun
  <2> QED
    BY <2>1, <2>2, <2>3, <2>4, <2>5, <2>6, <2>7, <2>8, <2>9, <2>10, <2>11, <2>12, <2>13, <2>14
       DEF RunnerStep
<1>5. RowStep(w, j)
  <2>1. CASE Claim(w, j)
    BY <1>1, <2>1 DEF Claim, Claimable, RowStep
  <2>2. CASE RenewAfterItem(w, j)
    BY <1>1, <2>2 DEF RenewAfterItem, RowStep, Owns
  <2>3. CASE WriteProgress(w, j)
    <3>1. CASE Owns(w, j)
      <4>1. PICK status \in {"RUNNING", "FAILED", "PARTIAL", "COMPLETED"} :
               /\ jobStatus' = [jobStatus EXCEPT ![j] = status]
               /\ IF status \in Finished
                  THEN /\ leaseOwner' = [leaseOwner EXCEPT ![j] = NoInstance]
                       /\ lease' = [lease EXCEPT ![j] = "none"]
                  ELSE UNCHANGED <<leaseOwner, lease>>
        BY <2>3, <3>1, PublicJobStatusType DEF WriteProgress, Released
      <4>2. leaseOwner[j] = w
        BY <3>1 DEF Owns
      <4> QED
        BY <1>1, <3>1, <4>1, <4>2 DEF RowStep, Finished
    <3>2. CASE ~Owns(w, j)
      BY <2>3, <3>2 DEF WriteProgress, RowStep
    <3> QED
      BY <3>1, <3>2
  <2>4. CASE FailJob(w, j)
    <3>1. CASE Owns(w, j)
      BY <1>1, <2>4, <3>1 DEF FailJob, RowStep, Finished
    <3>2. CASE ~Owns(w, j)
      BY <2>4, <3>2 DEF FailJob, RowStep
    <3> QED
      BY <3>1, <3>2
  <2>5. CASE UNCHANGED jobVars
    BY <2>5 DEF RowStep
  <2> QED
    BY <2>1, <2>2, <2>3, <2>4, <2>5 DEF RunnerStep, ClaimLost, LoadItems, StartItem, Search,
       CommitMatches, CommitRefused, CommitNoMatches, FailItem, ReadProgress, EndRun
<1>6. ItemStep(w, j)
  <2>1. CASE StartItem(w, j)
    <3>1. PICK i \in todo[w][j] : itemStatus' = [itemStatus EXCEPT ![i] = "RUNNING"]
      BY <2>1 DEF StartItem
    <3>2. i \in Item /\ JobOf[i] = j /\ Owns(w, j)
      BY <1>1, <1>2, <2>1, <3>1 DEF RunnerInv, ListIsQueued, Looping, StartItem
    <3> QED
      BY <1>1, <3>1, <3>2 DEF ItemStep
  <2>2. CASE CommitMatches(w, j) \/ CommitNoMatches(w, j) \/ FailItem(w, j)
    <3>1. /\ pc[w][j] \in Working
          /\ \E s \in Settled : itemStatus' = [itemStatus EXCEPT ![cur[w][j]] = s]
      BY <2>2 DEF CommitMatches, CommitNoMatches, FailItem, Working, Settled
    <3>2. cur[w][j] \in Item /\ JobOf[cur[w][j]] = j /\ Owns(w, j)
      BY <1>2, <3>1 DEF RunnerInv, CurrentIsOwn, BusyOwns, Looping, Working
    <3> QED
      BY <1>1, <3>1, <3>2 DEF ItemStep
  <2>3. CASE UNCHANGED itemStatus
    BY <2>3 DEF ItemStep
  <2> QED
    BY <2>1, <2>2, <2>3 DEF RunnerStep, Claim, ClaimLost, LoadItems, Search, CommitRefused,
       RenewAfterItem, ReadProgress, WriteProgress, EndRun, FailJob
<1> QED
  BY <1>3, <1>4, <1>5, <1>6 DEF RunnerFrame

(* A runner of w on j leaves every other runner its invariant: another job's *)
(* runner owns another row and lists other items, and no second instance     *)
(* owns j while w does.                                                      *)
LEMMA OthersKeep ==
    ASSUME WorkContext, NEW w \in Instance, NEW j \in Job, RunnerFrame(w, j),
           NEW v \in Instance, NEW k \in Job, v # w \/ k # j
    PROVE  RunnerInv(v, k)'
<1>1. /\ UNCHANGED <<pc[v][k], todo[v][k], cur[v][k], seen[v][k]>>
      /\ UNCHANGED inst
  BY DEF RunnerFrame, OthersUndisturbed, Memory
<1>2. RunnerInv(v, k) /\ RunnerInv(w, j)
  BY DEF WorkContext, WorkInv
<1>3. leaseOwner \in [Job -> Instance \cup {NoInstance}] /\ todo[v][k] \subseteq Item
  BY DEF WorkContext, TypeInv, TypeOK
<1>4. Owns(v, k) => Owns(v, k)'
  BY <1>3 DEF RunnerFrame, RowStep, Owns
<1>5. SilentIsIdle(v, k)'
  BY <1>1, <1>2 DEF RunnerInv, SilentIsIdle, Beating
<1>6. BusyOwns(v, k)'
  BY <1>1, <1>2, <1>4 DEF RunnerInv, BusyOwns
<1>7. CurrentIsOwn(v, k)'
  BY <1>1, <1>2 DEF RunnerInv, CurrentIsOwn
<1>8. ListIsQueued(v, k)'
  <2> SUFFICES ASSUME pc[v][k] \in Looping, NEW i \in todo[v][k]
               PROVE  /\ JobOf[i] = k
                      /\ Owns(v, k)'
                      /\ itemStatus'[i] = "QUEUED"
                      /\ pc[v][k] = "write" => seen[v][k][i] = "QUEUED"
    BY <1>1 DEF ListIsQueued
  <2>1. /\ i \in Item /\ JobOf[i] = k /\ Owns(v, k) /\ itemStatus[i] = "QUEUED"
        /\ pc[v][k] = "write" => seen[v][k][i] = "QUEUED"
    BY <1>2, <1>3 DEF RunnerInv, ListIsQueued
  <2>2. itemStatus'[i] = itemStatus[i]
    BY <2>1 DEF RunnerFrame, ItemStep, Owns
  <2> QED
    BY <1>4, <2>1, <2>2
<1> QED
  BY <1>5, <1>6, <1>7, <1>8 DEF RunnerInv

(* What the runners share keeps its invariants under a runner's step.        *)
LEMMA SharedKeep ==
    ASSUME WorkContext, NEW w \in Instance, NEW j \in Job, RunnerFrame(w, j)
    PROVE  (BeatingLeases /\ ReplaysOfFinished /\ NewJobsAreEmpty)'
<1> USE PricingAssumption DEF PricingAssumption
<1>1. /\ BeatingLeases /\ ReplaysOfFinished /\ NewJobsAreEmpty
      /\ jobStatus \in [Job -> {"none"} \cup Active \cup Finished]
      /\ leaseOwner \in [Job -> Instance \cup {NoInstance}]
      /\ inst \in [Instance -> {"new", "up", "stopping", "stopped", "dead"}]
      /\ checked \in [Admin -> Item \cup {NoItem}]
  BY DEF WorkContext, WorkInv, TypeInv, TypeOK
<1>2. BeatingLeases'
  BY <1>1 DEF RunnerFrame, RowStep, BeatingLeases, Beating, Owns
<1>3. ReplaysOfFinished'
  BY <1>1 DEF RunnerFrame, RowStep, ReplaysOfFinished, Finished, Owns
<1>4. NewJobsAreEmpty'
  BY <1>1 DEF RunnerFrame, RowStep, ItemStep, NewJobsAreEmpty, Finished, Owns
<1> QED
  BY <1>2, <1>3, <1>4

(* A runner's own invariant, step by step.                                   *)
LEMMA OwnKeep ==
    ASSUME WorkContext, NEW w \in Instance, NEW j \in Job, RunnerStep(w, j), RunnerFrame(w, j)
    PROVE  RunnerInv(w, j)'
<1> USE DEF jobVars, itemVars, Working, Looping
<1>1. /\ pc \in [Instance -> [Job -> {"idle", "claim", "load", "loop", "search", "matched",
                              "unmatched", "fail", "renew", "read", "write", "catch"}]]
      /\ todo \in [Instance -> [Job -> SUBSET Item]]
      /\ cur \in [Instance -> [Job -> Item \cup {NoItem}]]
      /\ seen \in [Instance -> [Job -> [Item -> {"none"} \cup Active \cup Settled]]]
      /\ jobStatus \in [Job -> {"none"} \cup Active \cup Finished]
      /\ leaseOwner \in [Job -> Instance \cup {NoInstance}]
      /\ itemStatus \in [Item -> {"none"} \cup Active \cup Settled]
  BY DEF WorkContext, TypeInv, TypeOK
<1>2. RunnerInv(w, j) /\ (pc[w][j] \in Working => cur[w][j] \in Item)
  BY DEF WorkContext, WorkInv, TypeInv, CurrentIsItem
<1>3. Beating(w)'
  BY DEF RunnerFrame, Beating
<1> USE <1>1, <1>2, <1>3 DEF RunnerInv, SilentIsIdle, BusyOwns, ListIsQueued, CurrentIsOwn
<1>4. CASE Claim(w, j)
  BY <1>4 DEF Claim, Claimable, Owns
<1>5. CASE ClaimLost(w, j)
  BY <1>5 DEF ClaimLost, Owns
<1>6. CASE LoadItems(w, j)
  BY <1>6 DEF LoadItems, ItemsToLoad, ItemsOf, Owns
<1>7. CASE StartItem(w, j)
  BY <1>7 DEF StartItem, Owns
<1>8. CASE Search(w, j)
  BY <1>8 DEF Search, Owns
<1>9. CASE CommitMatches(w, j)
  <2>1. PICK s \in {"renew", "fail"} : pc' = [pc EXCEPT ![w][j] = s]
    BY <1>9, AfterStep DEF CommitMatches
  <2>2. /\ pc[w][j] \in Working
        /\ UNCHANGED <<jobVars, todo, cur, seen>>
        /\ \A i \in Item : i # cur[w][j] => itemStatus'[i] = itemStatus[i]
    BY <1>9 DEF CommitMatches
  <2>3. \A i \in todo[w][j] : i \in Item /\ i # cur[w][j]
    BY <2>2
  <2> QED
    BY <2>1, <2>2, <2>3 DEF Owns
<1>10. CASE CommitRefused(w, j)
  BY <1>10 DEF CommitRefused, Owns
<1>11. CASE CommitNoMatches(w, j)
  <2>1. PICK s \in {"renew", "fail"} : pc' = [pc EXCEPT ![w][j] = s]
    BY <1>11, AfterStep DEF CommitNoMatches
  <2>2. /\ pc[w][j] \in Working
        /\ UNCHANGED <<jobVars, todo, cur, seen>>
        /\ \A i \in Item : i # cur[w][j] => itemStatus'[i] = itemStatus[i]
    BY <1>11 DEF CommitNoMatches
  <2>3. \A i \in todo[w][j] : i \in Item /\ i # cur[w][j]
    BY <2>2
  <2> QED
    BY <2>1, <2>2, <2>3 DEF Owns
<1>12. CASE FailItem(w, j)
  <2>1. PICK s \in {"renew", "catch"} : pc' = [pc EXCEPT ![w][j] = s]
    BY <1>12, AfterStep DEF FailItem
  <2>2. /\ pc[w][j] \in Working
        /\ UNCHANGED <<jobVars, todo, cur, seen>>
        /\ \A i \in Item : i # cur[w][j] => itemStatus'[i] = itemStatus[i]
    BY <1>12 DEF FailItem
  <2>3. \A i \in todo[w][j] : i \in Item /\ i # cur[w][j]
    BY <2>2
  <2> QED
    BY <2>1, <2>2, <2>3 DEF Owns
<1>13. CASE RenewAfterItem(w, j)
  BY <1>13 DEF RenewAfterItem, Owns
<1>14. CASE ReadProgress(w, j)
  BY <1>14 DEF ReadProgress, Owns
<1>15. CASE WriteProgress(w, j)
  <2>1. Owns(w, j) /\ pc[w][j] = "write"
    BY <1>15 DEF WriteProgress
  <2>2. PublicJobStatus(j, seen[w][j]) = "RUNNING" \/ todo[w][j] = {}
    <3>1. ASSUME NEW i \in todo[w][j] PROVE PublicJobStatus(j, seen[w][j]) = "RUNNING"
      <4>1. i \in ItemsOf(j) /\ seen[w][j][i] \notin Settled
        BY <2>1 DEF ItemsOf, Settled
      <4> QED
        BY <4>1 DEF PublicJobStatus
    <3> QED
      BY <3>1
  <2>3. PublicJobStatus(j, seen[w][j]) = "RUNNING" => Owns(w, j)'
    BY <1>15, <2>1 DEF WriteProgress, Released, Finished, Owns
  <2>4. /\ pc' = [pc EXCEPT ![w][j] = "loop"]
        /\ UNCHANGED <<todo, itemStatus>>
    BY <1>15 DEF WriteProgress
  <2> QED
    BY <2>1, <2>2, <2>3, <2>4
<1>16. CASE EndRun(w, j)
  BY <1>16 DEF EndRun, Owns
<1>17. CASE FailJob(w, j)
  BY <1>17 DEF FailJob, ForgetRun
<1> QED
  BY <1>4, <1>5, <1>6, <1>7, <1>8, <1>9, <1>10, <1>11, <1>12, <1>13, <1>14, <1>15, <1>16, <1>17 DEF RunnerStep

(* No instance works on a job that is not RUNNING, or whose owner is silent. *)
LEMMA NobodyWorks ==
    ASSUME WorkContext, NEW j \in Job,
           jobStatus[j] # "RUNNING" \/ ~Beating(leaseOwner[j]),
           NEW w \in Instance
    PROVE  /\ pc[w][j] \in {"idle", "claim", "loop", "catch"}
           /\ pc[w][j] = "loop" => todo[w][j] = {}
<1>1. RunnerInv(w, j) /\ todo[w][j] \subseteq Item
  BY DEF WorkContext, WorkInv, TypeInv, TypeOK
<1>2. pc[w][j] \in {"idle", "claim", "load", "loop", "search", "matched",
                    "unmatched", "fail", "renew", "read", "write", "catch"}
  BY DEF WorkContext, TypeInv, TypeOK
<1>3. ~Owns(w, j) \/ pc[w][j] = "idle"
  BY <1>1 DEF RunnerInv, SilentIsIdle, Owns
<1> QED
  BY <1>1, <1>2, <1>3 DEF RunnerInv, BusyOwns, ListIsQueued, Looping, Working

(* Steps that free the row of j, or queue items of j, when nobody works on it. *)
LEMMA FreedRow ==
    ASSUME WorkContext, NEW j \in Job,
           jobStatus[j] # "RUNNING" \/ ~Beating(leaseOwner[j]),
           UNCHANGED <<inst, runnerVars>>,
           \A k \in Job : k # j => /\ jobStatus'[k] = jobStatus[k]
                                   /\ leaseOwner'[k] = leaseOwner[k]
                                   /\ lease'[k] = lease[k],
           jobStatus'[j] = "QUEUED",
           leaseOwner'[j] = NoInstance,
           \A i \in Item : JobOf[i] # j => itemStatus'[i] = itemStatus[i]
    PROVE  (\A w \in Instance, k \in Job : RunnerInv(w, k))' /\ BeatingLeases'
<1>1. /\ leaseOwner \in [Job -> Instance \cup {NoInstance}]
      /\ todo \in [Instance -> [Job -> SUBSET Item]]
  BY DEF WorkContext, TypeInv, TypeOK
<1>2. ASSUME NEW w \in Instance, NEW k \in Job PROVE RunnerInv(w, k)'
  <2>0. RunnerInv(w, k)
    BY DEF WorkContext, WorkInv
  <2>1. UNCHANGED <<pc[w][k], todo[w][k], cur[w][k], seen[w][k], inst>>
    BY DEF runnerVars
  <2>2. todo[w][k] \subseteq Item
    BY <1>1
  <2>3. CASE k = j
    BY <2>0, <2>1, <2>3, NobodyWorks DEF RunnerInv, SilentIsIdle, BusyOwns, ListIsQueued,
       CurrentIsOwn, Looping, Working, Beating
  <2>4. CASE k # j
    BY <2>0, <2>1, <2>2, <2>4 DEF RunnerInv, SilentIsIdle, BusyOwns, ListIsQueued,
       CurrentIsOwn, Beating, Owns
  <2> QED
    BY <2>3, <2>4
<1>3. BeatingLeases'
  BY <1>1 DEF BeatingLeases, Beating, WorkContext, WorkInv
<1> QED
  BY <1>2, <1>3

(* What a step must leave alone for the runners' invariants to stand.        *)
LEMMA RunnersFrame ==
    ASSUME WorkContext,
           UNCHANGED <<inst, runnerVars, jobStatus, leaseOwner, itemStatus>>,
           NEW w \in Instance, NEW j \in Job
    PROVE  RunnerInv(w, j)'
<1>1. RunnerInv(w, j)
  BY DEF WorkContext, WorkInv
<1> QED
  BY <1>1 DEF RunnerInv, SilentIsIdle, BusyOwns, ListIsQueued, CurrentIsOwn, Beating, Owns,
     runnerVars

LEMMA WorkStep == WorkContext /\ [Next]_vars => WorkInv'
<1> SUFFICES ASSUME WorkContext, [Next]_vars PROVE WorkInv'
  OBVIOUS
<1> USE PricingAssumption DEF PricingAssumption
<1>0. /\ \A w \in Instance, j \in Job : RunnerInv(w, j)
      /\ BeatingLeases /\ ReplaysOfFinished /\ NewJobsAreEmpty
  BY DEF WorkContext, WorkInv
<1>1. /\ inst \in [Instance -> {"new", "up", "stopping", "stopped", "dead"}]
      /\ jobStatus \in [Job -> {"none"} \cup Active \cup Finished]
      /\ leaseOwner \in [Job -> Instance \cup {NoInstance}]
      /\ lease \in [Job -> {"none", "live", "expired"}]
      /\ itemStatus \in [Item -> {"none"} \cup Active \cup Settled]
      /\ pc \in [Instance -> [Job -> {"idle", "claim", "load", "loop", "search", "matched",
                              "unmatched", "fail", "renew", "read", "write", "catch"}]]
      /\ checked \in [Admin -> Item \cup {NoItem}]
      /\ LeaseMatchesStatus /\ Timely
  BY DEF WorkContext, TypeInv, TypeOK
<1>2. ASSUME NEW j \in Job, CreatePricingJob(j) PROVE WorkInv'
  <2>1. /\ jobStatus[j] = "none" /\ leaseOwner[j] = NoInstance
        /\ jobStatus' = [jobStatus EXCEPT ![j] = "QUEUED"]
        /\ \A i \in Item : JobOf[i] # j => itemStatus'[i] = itemStatus[i]
        /\ UNCHANGED <<inst, leaseOwner, lease, runnerVars, checked>>
    BY <1>1, <1>2 DEF CreatePricingJob, LeaseMatchesStatus
  <2>2. (\A w \in Instance, k \in Job : RunnerInv(w, k))' /\ BeatingLeases'
    BY <1>1, <2>1, FreedRow
  <2>3. ReplaysOfFinished'
    BY <1>0, <1>1, <2>1 DEF ReplaysOfFinished, Finished
  <2>4. NewJobsAreEmpty'
    BY <1>0, <1>1, <2>1 DEF NewJobsAreEmpty
  <2> QED
    BY <2>2, <2>3, <2>4 DEF WorkInv
<1>3. ASSUME NEW j \in Job, LeaseExpires(j) PROVE WorkInv'
  <2>1. /\ inst[leaseOwner[j]] \in {"stopped", "dead"}
        /\ lease' = [lease EXCEPT ![j] = "expired"]
        /\ UNCHANGED <<inst, runnerVars, jobStatus, leaseOwner, itemStatus, checked>>
    BY <1>1, <1>3 DEF LeaseExpires, Timely, itemVars
  <2>2. BeatingLeases'
    BY <1>0, <1>1, <2>1 DEF BeatingLeases, Beating
  <2> QED
    BY <1>0, <2>1, <2>2, RunnersFrame DEF WorkInv, ReplaysOfFinished, NewJobsAreEmpty
<1>4. ASSUME NEW w \in Instance, NEW j \in Job, Dispatch(w, j) PROVE WorkInv'
  <2>1. /\ Beating(w)
        /\ pc' = [pc EXCEPT ![w][j] = "claim"]
        /\ UNCHANGED <<inst, jobVars, itemStatus, todo, cur, seen, checked>>
    BY <1>4 DEF Dispatch, Polling, Beating, itemVars
  <2>2. ASSUME NEW v \in Instance, NEW k \in Job PROVE RunnerInv(v, k)'
    BY <1>0, <1>1, <2>1 DEF RunnerInv, SilentIsIdle, BusyOwns, ListIsQueued, CurrentIsOwn,
       Beating, Owns, Looping, Working, jobVars
  <2> QED
    BY <1>0, <2>1, <2>2 DEF WorkInv, BeatingLeases, ReplaysOfFinished, NewJobsAreEmpty,
       Beating, jobVars
<1>5. ASSUME NEW w \in Instance, NEW j \in Job, RunnerStep(w, j) PROVE WorkInv'
  <2>1. RunnerFrame(w, j)
    BY <1>5, RunnerKeepsFrame
  <2>2. ASSUME NEW v \in Instance, NEW k \in Job PROVE RunnerInv(v, k)'
    BY <1>5, <2>1, OwnKeep, OthersKeep
  <2> QED
    BY <2>1, <2>2, SharedKeep DEF WorkInv
<1>6. ASSUME NEW w \in Instance, NEW j \in Job, DbError(w, j) PROVE WorkInv'
  <2>1. /\ pc[w][j] # "idle"
        /\ UNCHANGED <<inst, jobVars, itemStatus, checked>>
    BY <1>6 DEF DbError, itemVars
  <2>2. CASE /\ pc[w][j] \in {"matched", "unmatched"}
             /\ pc' = [pc EXCEPT ![w][j] = "fail"]
             /\ UNCHANGED <<todo, cur, seen>>
    BY <1>0, <1>1, <2>1, <2>2 DEF WorkInv, RunnerInv, SilentIsIdle, BusyOwns, ListIsQueued,
       CurrentIsOwn, Beating, Owns, Looping, Working, jobVars, BeatingLeases,
       ReplaysOfFinished, NewJobsAreEmpty
  <2>3. CASE pc' = [pc EXCEPT ![w][j] = "catch"] /\ UNCHANGED <<todo, cur, seen>>
    BY <1>0, <1>1, <2>1, <2>3 DEF WorkInv, RunnerInv, SilentIsIdle, BusyOwns, ListIsQueued,
       CurrentIsOwn, Beating, Owns, Looping, Working, jobVars, BeatingLeases,
       ReplaysOfFinished, NewJobsAreEmpty
  <2>4. CASE pc' = [pc EXCEPT ![w][j] = "idle"] /\ ForgetRun(w, j)
    <3>1. \A v \in Instance, k \in Job :
             v # w \/ k # j => UNCHANGED <<pc[v][k], todo[v][k], cur[v][k], seen[v][k]>>
      BY <1>1, <2>4 DEF ForgetRun, WorkContext, TypeInv, TypeOK
    <3>2. pc'[w][j] = "idle"
      BY <1>1, <2>4
    <3>3. ASSUME NEW v \in Instance, NEW k \in Job PROVE RunnerInv(v, k)'
      BY <1>0, <2>1, <3>1, <3>2 DEF RunnerInv, SilentIsIdle, BusyOwns, ListIsQueued,
         CurrentIsOwn, Beating, Owns, Looping, Working, jobVars
    <3> QED
      BY <1>0, <2>1, <3>3 DEF WorkInv, BeatingLeases, ReplaysOfFinished, NewJobsAreEmpty,
         Beating, jobVars
  <2> QED
    BY <1>6, <2>2, <2>3, <2>4 DEF DbError
<1>7. ASSUME NEW w \in Instance, NEW j \in Job, Reclaim(w, j) PROVE WorkInv'
  <2>1. /\ jobStatus[j] = "RUNNING" /\ lease[j] # "live"
        /\ jobStatus' = [jobStatus EXCEPT ![j] = "QUEUED"]
        /\ leaseOwner' = [leaseOwner EXCEPT ![j] = NoInstance]
        /\ lease' = [lease EXCEPT ![j] = "none"]
        /\ UNCHANGED <<inst, runnerVars, checked>>
    BY <1>7 DEF Reclaim, Reclaimable
  <2>2. \A i \in Item : \/ itemStatus'[i] = itemStatus[i]
                        \/ JobOf[i] = j /\ itemStatus[i] # "none"
    BY <1>7 DEF Reclaim, Reset
  <2>3. ~Beating(leaseOwner[j])
    BY <1>0, <1>1, <2>1 DEF BeatingLeases, LeaseMatchesStatus
  <2>4. (\A v \in Instance, k \in Job : RunnerInv(v, k))' /\ BeatingLeases'
    BY <1>1, <2>1, <2>2, <2>3, FreedRow
  <2>5. ReplaysOfFinished'
    BY <1>0, <1>1, <2>1 DEF ReplaysOfFinished, Finished
  <2>6. NewJobsAreEmpty'
    BY <1>0, <1>1, <2>1, <2>2 DEF NewJobsAreEmpty
  <2> QED
    BY <2>4, <2>5, <2>6 DEF WorkInv
<1>8. ASSUME NEW w \in Instance, Heartbeat(w) PROVE WorkInv'
  <2>1. /\ \A j \in Job : lease'[j] = "live" \/ lease'[j] = lease[j]
        /\ UNCHANGED <<inst, runnerVars, jobStatus, leaseOwner, itemStatus, checked>>
    BY <1>8 DEF Heartbeat, itemVars
  <2> QED
    BY <1>0, <2>1, RunnersFrame DEF WorkInv, BeatingLeases, Beating, ReplaysOfFinished,
       NewJobsAreEmpty
<1>9. ASSUME NEW w \in Instance, StartInstance(w) \/ BeginShutdown(w) \/ EndShutdown(w)
      PROVE  WorkInv'
  <2>1. /\ UNCHANGED <<jobVars, itemStatus, runnerVars, checked>>
        /\ \E s \in {"up", "stopping", "stopped"} :
              /\ inst' = [inst EXCEPT ![w] = s]
              /\ s = "stopped" => \A j \in Job : pc[w][j] = "idle"
              /\ s = "up" => inst[w] = "new"
              /\ s = "stopping" => inst[w] = "up"
    BY <1>1, <1>9 DEF StartInstance, BeginShutdown, EndShutdown, Timely, itemVars
  <2>2. ASSUME NEW v \in Instance, NEW k \in Job PROVE RunnerInv(v, k)'
    BY <1>0, <1>1, <2>1 DEF RunnerInv, SilentIsIdle, BusyOwns, ListIsQueued, CurrentIsOwn,
       Beating, Owns, jobVars, runnerVars
  <2>3. BeatingLeases'
    BY <1>0, <1>1, <2>1 DEF BeatingLeases, Beating, jobVars
  <2> QED
    BY <1>0, <2>1, <2>2, <2>3 DEF WorkInv, ReplaysOfFinished, NewJobsAreEmpty, jobVars
<1>10. ASSUME NEW w \in Instance, Die(w) PROVE WorkInv'
  <2>1. /\ inst' = [inst EXCEPT ![w] = "dead"]
        /\ \A j \in Job : pc'[w][j] = "idle"
        /\ \A v \in Instance, k \in Job :
              v # w => UNCHANGED <<pc[v][k], todo[v][k], cur[v][k], seen[v][k]>>
        /\ UNCHANGED <<jobVars, itemStatus, checked>>
    BY <1>1, <1>10 DEF Die, itemVars, WorkContext, TypeInv, TypeOK
  <2>2. ASSUME NEW v \in Instance, NEW k \in Job PROVE RunnerInv(v, k)'
    <3>1. CASE v = w
      BY <2>1, <3>1 DEF RunnerInv, SilentIsIdle, BusyOwns, ListIsQueued, CurrentIsOwn,
         Looping, Working
    <3>2. CASE v # w
      <4>1. RunnerInv(v, k) /\ (Beating(v)' <=> Beating(v)) /\ (Owns(v, k)' <=> Owns(v, k))
        BY <1>0, <1>1, <2>1, <3>2 DEF Beating, Owns, jobVars
      <4> QED
        BY <2>1, <3>2, <4>1 DEF RunnerInv, SilentIsIdle, BusyOwns, ListIsQueued, CurrentIsOwn
    <3> QED
      BY <3>1, <3>2
  <2>3. BeatingLeases'
    BY <1>0, <1>1, <2>1 DEF BeatingLeases, Beating, jobVars
  <2> QED
    BY <1>0, <2>1, <2>2, <2>3 DEF WorkInv, ReplaysOfFinished, NewJobsAreEmpty, jobVars
<1>11. ASSUME NEW a \in Admin, CheckRequeue(a) PROVE WorkInv'
  <2>1. PICK i \in Item : /\ itemStatus[i] = "FAILED"
                          /\ jobStatus[JobOf[i]] \notin Active
                          /\ checked' = [checked EXCEPT ![a] = i]
    BY <1>11 DEF CheckRequeue
  <2>2. UNCHANGED <<inst, jobVars, itemStatus, runnerVars>>
    BY <1>11 DEF CheckRequeue, itemVars
  <2>3. jobStatus[JobOf[i]] \in Finished
    BY <1>0, <1>1, <2>1 DEF NewJobsAreEmpty
  <2>4. ReplaysOfFinished'
    BY <1>0, <1>1, <2>1, <2>2, <2>3 DEF ReplaysOfFinished, jobVars
  <2> QED
    BY <1>0, <2>2, <2>4, RunnersFrame DEF WorkInv, BeatingLeases, Beating, NewJobsAreEmpty,
       jobVars
<1>12. ASSUME NEW a \in Admin, Requeue(a) PROVE WorkInv'
  <2> DEFINE i == checked[a]
             j == JobOf[checked[a]]
  <2>1. /\ i \in Item /\ j \in Job /\ jobStatus[j] \in Finished
        /\ jobStatus' = [jobStatus EXCEPT ![j] = "QUEUED"]
        /\ leaseOwner' = [leaseOwner EXCEPT ![j] = NoInstance]
        /\ lease' = [lease EXCEPT ![j] = "none"]
        /\ itemStatus' = [itemStatus EXCEPT ![i] = "QUEUED"]
        /\ checked' = [checked EXCEPT ![a] = NoItem]
        /\ UNCHANGED <<inst, runnerVars>>
    BY <1>0, <1>1, <1>12 DEF Requeue, ReplaysOfFinished
  <2> HIDE DEF i, j
  <2>2. (\A v \in Instance, k \in Job : RunnerInv(v, k))' /\ BeatingLeases'
    <3>1. \A k \in Item : JobOf[k] # j => itemStatus'[k] = itemStatus[k]
      BY <1>1, <2>1 DEF i, j
    <3> QED
      BY <1>1, <2>1, <3>1, FreedRow DEF Finished
  <2>3. ReplaysOfFinished'
    BY <1>1, <2>1 DEF ReplaysOfFinished, Timely
  <2>4. NewJobsAreEmpty'
    BY <1>0, <1>1, <2>1 DEF NewJobsAreEmpty, i, j
  <2> QED
    BY <2>2, <2>3, <2>4 DEF WorkInv
<1>13. ASSUME NEW a \in Admin, RequeueRefused(a) PROVE WorkInv'
  <2>1. /\ checked' = [checked EXCEPT ![a] = NoItem]
        /\ UNCHANGED <<inst, jobVars, itemStatus, runnerVars>>
    BY <1>13 DEF RequeueRefused, itemVars
  <2>2. ReplaysOfFinished'
    BY <1>0, <1>1, <2>1 DEF ReplaysOfFinished, jobVars
  <2> QED
    BY <1>0, <2>1, <2>2, RunnersFrame DEF WorkInv, BeatingLeases, Beating, NewJobsAreEmpty,
       jobVars
<1>14. CASE UNCHANGED vars
  BY <1>0, <1>14, RunnersFrame DEF WorkInv, vars, jobVars, itemVars, BeatingLeases, Beating,
     ReplaysOfFinished, NewJobsAreEmpty
<1> QED
  BY <1>2, <1>3, <1>4, <1>5, <1>6, <1>7, <1>8, <1>9, <1>10, <1>11, <1>12, <1>13, <1>14
     DEF Next

\* With timely heartbeats, shutdowns that wait and replays that do not overlap,
\* whoever works on an item owns its job: claims, crashes, database errors and
\* reclaims never put two instances on one item.
THEOREM OneInstancePerItem == Timely /\ Spec => []ExclusiveProcessing
<1>1. Init => WorkInv
  BY PricingAssumption DEF PricingAssumption, Init, WorkInv, RunnerInv, SilentIsIdle, BusyOwns,
     ListIsQueued, CurrentIsOwn, BeatingLeases, ReplaysOfFinished, NewJobsAreEmpty, Looping,
     Working
<1>2. Timely /\ TypeInv /\ LeaseMatchesStatus /\ WorkInv /\ [Next]_vars => WorkInv'
  BY WorkStep DEF WorkContext
<1>3. WorkInv => ExclusiveProcessing
  BY DEF WorkInv, RunnerInv, BusyOwns, ExclusiveProcessing, Looping, Working
<1>4. ASSUME Timely PROVE TypeInv /\ LeaseMatchesStatus /\ WorkInv /\ [Next]_vars => WorkInv'
  BY <1>2, <1>4
<1>5. ASSUME Timely PROVE Spec => []ExclusiveProcessing
  BY <1>1, <1>3, <1>4, <1>5, TypeInvariant, LeaseHeld, PTL DEF Spec
<1> QED
  BY <1>5
-----------------------------------------------------------------------------
(* Who moves the items of a job, the memory of its runners and its row.      *)
ItemsStand(j) == \A i \in ItemsOf(j) : itemStatus'[i] = itemStatus[i]

Over(status) == status \in {"COMPLETED", "PARTIAL"}

(* The items of a job change by a step of its owner, or when the job goes    *)
(* back to the queue and nobody is at work on them.                          *)
LEMMA ItemsMove ==
    ASSUME WorkContext, [Next]_vars, NEW k \in Job
    PROVE  \/ ItemsStand(k)
           \/ \E w \in Instance : RunnerStep(w, k) /\ Owns(w, k)
           \/ /\ jobStatus'[k] = "QUEUED"
              /\ UNCHANGED runnerVars
              /\ \A w \in Instance : pc[w][k] \notin Working \cup {"write"}
<1> USE PricingAssumption DEF PricingAssumption, ItemsOf, ItemsStand
<1>1. /\ jobStatus \in [Job -> {"none"} \cup Active \cup Finished]
      /\ leaseOwner \in [Job -> Instance \cup {NoInstance}]
      /\ itemStatus \in [Item -> {"none"} \cup Active \cup Settled]
      /\ checked \in [Admin -> Item \cup {NoItem}]
      /\ BeatingLeases /\ ReplaysOfFinished /\ LeaseMatchesStatus
  BY DEF WorkContext, WorkInv, TypeInv, TypeOK
<1>2. ASSUME NEW w \in Instance, NEW j \in Job, RunnerStep(w, j)
      PROVE  ItemsStand(k) \/ (RunnerStep(w, k) /\ Owns(w, k))
  <2>1. RunnerFrame(w, j)
    BY <1>2, RunnerKeepsFrame
  <2>2. CASE j = k /\ Owns(w, k)
    BY <1>2, <2>2
  <2>3. CASE j # k
    BY <2>1, <2>3 DEF RunnerFrame, ItemStep
  <2>4. CASE j = k /\ ~Owns(w, k)
    BY <2>1, <2>4 DEF RunnerFrame, ItemStep
  <2> QED
    BY <2>2, <2>3, <2>4
<1>3. ASSUME NEW j \in Job, CreatePricingJob(j)
      PROVE  ItemsStand(k) \/ (j = k /\ jobStatus[k] = "none" /\ jobStatus'[k] = "QUEUED"
                               /\ UNCHANGED runnerVars)
  BY <1>1, <1>3 DEF CreatePricingJob
<1>4. ASSUME NEW w \in Instance, NEW j \in Job, Reclaim(w, j)
      PROVE  ItemsStand(k) \/ (j = k /\ ~Beating(leaseOwner[k]) /\ jobStatus'[k] = "QUEUED"
                               /\ UNCHANGED runnerVars)
  <2>1. /\ jobStatus[j] = "RUNNING" /\ lease[j] # "live"
        /\ jobStatus' = [jobStatus EXCEPT ![j] = "QUEUED"]
        /\ itemStatus' = Reset(j)
        /\ UNCHANGED runnerVars
    BY <1>4 DEF Reclaim, Reclaimable
  <2>2. ~Beating(leaseOwner[j])
    BY <1>1, <2>1 DEF BeatingLeases, LeaseMatchesStatus
  <2> QED
    BY <1>1, <2>1, <2>2 DEF Reset
<1>5. ASSUME NEW a \in Admin, Requeue(a)
      PROVE  ItemsStand(k) \/ (jobStatus[k] # "RUNNING" /\ jobStatus'[k] = "QUEUED"
                               /\ UNCHANGED runnerVars)
  <2>1. /\ checked[a] \in Item
        /\ jobStatus[JobOf[checked[a]]] \in Finished
        /\ jobStatus' = [jobStatus EXCEPT ![JobOf[checked[a]]] = "QUEUED"]
        /\ itemStatus' = [itemStatus EXCEPT ![checked[a]] = "QUEUED"]
        /\ UNCHANGED runnerVars
    BY <1>1, <1>5 DEF Requeue, ReplaysOfFinished
  <2> QED
    BY <1>1, <2>1 DEF Finished
<1>6. CASE UNCHANGED itemStatus
  BY <1>6
<1>7. ASSUME jobStatus[k] # "RUNNING" \/ ~Beating(leaseOwner[k])
      PROVE  \A w \in Instance : pc[w][k] \notin Working \cup {"write"}
  BY <1>7, NobodyWorks DEF Working
<1> QED
  BY <1>2, <1>3, <1>4, <1>5, <1>6, <1>7 DEF Next, vars, itemVars, LeaseExpires, Dispatch,
     DbError, Heartbeat, StartInstance, BeginShutdown, EndShutdown, Die, CheckRequeue,
     RequeueRefused

(* A runner comes to an item, or to the write of its progress, by a step of  *)
(* its own; every other step lets it be, or takes it to where it holds       *)
(* nothing (a database error may also take it to the failure of its item).   *)
LEMMA MemoryMoves ==
    ASSUME WorkContext, [Next]_vars, NEW v \in Instance, NEW k \in Job
    PROVE  \/ UNCHANGED Memory(v, k)
           \/ RunnerStep(v, k)
           \/ pc'[v][k] \in {"idle", "claim", "catch"}
           \/ DbErrors /\ pc'[v][k] = "fail"
<1> USE DEF Memory
<1>1. /\ pc \in [Instance -> [Job -> {"idle", "claim", "load", "loop", "search", "matched",
                              "unmatched", "fail", "renew", "read", "write", "catch"}]]
      /\ todo \in [Instance -> [Job -> SUBSET Item]]
      /\ cur \in [Instance -> [Job -> Item \cup {NoItem}]]
      /\ seen \in [Instance -> [Job -> [Item -> {"none"} \cup Active \cup Settled]]]
  BY DEF WorkContext, TypeInv, TypeOK
<1>2. ASSUME NEW w \in Instance, NEW j \in Job, RunnerStep(w, j)
      PROVE  UNCHANGED Memory(v, k) \/ RunnerStep(v, k)
  BY <1>2, RunnerKeepsFrame DEF RunnerFrame, OthersUndisturbed
<1>3. ASSUME NEW w \in Instance, NEW j \in Job, Dispatch(w, j)
      PROVE  UNCHANGED Memory(v, k) \/ pc'[v][k] = "claim"
  BY <1>1, <1>3 DEF Dispatch
<1>4. ASSUME NEW w \in Instance, NEW j \in Job, DbError(w, j)
      PROVE  \/ UNCHANGED Memory(v, k)
             \/ pc'[v][k] \in {"idle", "catch"}
             \/ DbErrors /\ pc'[v][k] = "fail"
  <2>1. CASE \E s \in {"fail", "catch"} : /\ pc' = [pc EXCEPT ![w][j] = s]
                                          /\ UNCHANGED <<todo, cur, seen>>
    BY <1>1, <1>4, <2>1 DEF DbError
  <2>2. CASE pc' = [pc EXCEPT ![w][j] = "idle"] /\ ForgetRun(w, j)
    BY <1>1, <2>2 DEF ForgetRun
  <2> QED
    BY <1>4, <2>1, <2>2 DEF DbError
<1>5. ASSUME NEW w \in Instance, Die(w)
      PROVE  UNCHANGED Memory(v, k) \/ pc'[v][k] = "idle"
  BY <1>1, <1>5 DEF Die
<1>6. CASE UNCHANGED runnerVars
  BY <1>6 DEF runnerVars
<1> QED
  BY <1>2, <1>3, <1>4, <1>5, <1>6 DEF Next, vars, CreatePricingJob, LeaseExpires, Reclaim,
     Heartbeat, StartInstance, BeginShutdown, EndShutdown, CheckRequeue, Requeue,
     RequeueRefused

(* A job that is over was over before, with the same counters, or its owner  *)
(* has just written that it is.                                              *)
LEMMA RowMoves ==
    ASSUME WorkContext, [Next]_vars, NEW k \in Job, Over(jobStatus'[k])
    PROVE  \/ jobStatus'[k] = jobStatus[k] /\ tally'[k] = tally[k]
           \/ \E w \in Instance : WriteProgress(w, k) /\ Owns(w, k)
<1> USE DEF Over, jobVars
<1>1. /\ jobStatus \in [Job -> {"none"} \cup Active \cup Finished]
      /\ tally \in [Job -> [completed : Nat, noMatch : Nat, failed : Nat]]
  BY DEF WorkContext, TypeInv, TypeOK
<1>2. ASSUME NEW j \in Job, CreatePricingJob(j) PROVE jobStatus'[k] = jobStatus[k] /\ tally'[k] = tally[k]
  BY <1>1, <1>2 DEF CreatePricingJob
<1>3. ASSUME NEW w \in Instance, NEW j \in Job, Claim(w, j) \/ Reclaim(w, j)
      PROVE  jobStatus'[k] = jobStatus[k] /\ tally'[k] = tally[k]
  BY <1>1, <1>3 DEF Claim, Reclaim
<1>4. ASSUME NEW w \in Instance, NEW j \in Job, WriteProgress(w, j)
      PROVE  \/ jobStatus'[k] = jobStatus[k] /\ tally'[k] = tally[k]
             \/ WriteProgress(w, k) /\ Owns(w, k)
  <2>1. CASE ~Owns(w, j)
    BY <1>4, <2>1 DEF WriteProgress
  <2>2. CASE Owns(w, j) /\ j # k
    <3>1. \E status, counts : /\ jobStatus' = [jobStatus EXCEPT ![j] = status]
                              /\ tally' = [tally EXCEPT ![j] = counts]
      BY <1>4, <2>2 DEF WriteProgress
    <3> QED
      BY <1>1, <2>2, <3>1
  <2>3. CASE Owns(w, j) /\ j = k
    BY <1>4, <2>3
  <2> QED
    BY <2>1, <2>2, <2>3
<1>5. ASSUME NEW w \in Instance, NEW j \in Job, FailJob(w, j)
      PROVE  jobStatus'[k] = jobStatus[k] /\ tally'[k] = tally[k]
  <2>1. CASE Owns(w, j)
    <3>1. jobStatus' = [jobStatus EXCEPT ![j] = "FAILED"] /\ UNCHANGED tally
      BY <1>5, <2>1 DEF FailJob
    <3> QED
      BY <1>1, <3>1
  <2>2. CASE ~Owns(w, j)
    BY <1>5, <2>2 DEF FailJob
  <2> QED
    BY <2>1, <2>2
<1>6. ASSUME NEW a \in Admin, Requeue(a)
      PROVE  jobStatus'[k] = jobStatus[k] /\ tally'[k] = tally[k]
  BY <1>1, <1>6 DEF Requeue
<1>7. CASE UNCHANGED <<jobStatus, tally>>
  BY <1>7
<1> QED
  BY <1>2, <1>3, <1>4, <1>5, <1>6, <1>7 DEF Next, vars, LeaseExpires, Dispatch, RunnerStep,
     ClaimLost, LoadItems, StartItem, Search, CommitMatches, CommitRefused,
     CommitNoMatches, FailItem, RenewAfterItem, ReadProgress, EndRun,
     DbError, Heartbeat, StartInstance, BeginShutdown, EndShutdown, Die, CheckRequeue,
     RequeueRefused
-----------------------------------------------------------------------------
(* What publicJobStatus and the counters say of the statuses they are        *)
(* computed from.                                                            *)
AccountsFor(j, status, counts, st) ==
    /\ \A i \in ItemsOf(j) : st[i] \in Settled
    /\ counts = [completed |-> CountOf(j, st, "COMPLETED"),
                 noMatch   |-> CountOf(j, st, "NO_MATCHES"),
                 failed    |-> CountOf(j, st, "FAILED")]
    /\ (status = "PARTIAL") <=> (counts.failed > 0)
    /\ counts.failed < Cardinality(ItemsOf(j))

LEMMA SameCounts ==
    ASSUME NEW j, NEW st, NEW su, \A i \in ItemsOf(j) : su[i] = st[i], NEW s
    PROVE  CountOf(j, su, s) = CountOf(j, st, s)
<1>1. {i \in ItemsOf(j) : su[i] = s} = {i \in ItemsOf(j) : st[i] = s}
  OBVIOUS
<1> QED
  BY <1>1 DEF CountOf

LEMMA SameAccounts ==
    ASSUME NEW j, NEW status, NEW counts, NEW st, NEW su,
           \A i \in ItemsOf(j) : su[i] = st[i],
           AccountsFor(j, status, counts, st)
    PROVE  AccountsFor(j, status, counts, su)
<1>1. /\ CountOf(j, su, "COMPLETED") = CountOf(j, st, "COMPLETED")
      /\ CountOf(j, su, "NO_MATCHES") = CountOf(j, st, "NO_MATCHES")
      /\ CountOf(j, su, "FAILED") = CountOf(j, st, "FAILED")
  BY SameCounts
<1> QED
  BY <1>1 DEF AccountsFor

LEMMA StatusAccounts ==
    ASSUME NEW j, NEW st, Over(PublicJobStatus(j, st))
    PROVE  AccountsFor(j, PublicJobStatus(j, st),
                       [completed |-> CountOf(j, st, "COMPLETED"),
                        noMatch   |-> CountOf(j, st, "NO_MATCHES"),
                        failed    |-> CountOf(j, st, "FAILED")], st)
<1> DEFINE failed == {i \in ItemsOf(j) : st[i] = "FAILED"}
<1>1. /\ \A i \in ItemsOf(j) : st[i] \in Settled
      /\ failed # ItemsOf(j)
      /\ PublicJobStatus(j, st) = "PARTIAL" <=> failed # {}
  BY DEF PublicJobStatus, Over
<1>2. IsFiniteSet(ItemsOf(j))
  <2>1. ItemsOf(j) \subseteq Item
    BY DEF ItemsOf
  <2> QED
    BY <2>1, FS_Subset, PricingAssumption DEF PricingAssumption
<1>3. IsFiniteSet(failed) /\ Cardinality(failed) < Cardinality(ItemsOf(j))
  <2>1. failed \in SUBSET ItemsOf(j) /\ failed # ItemsOf(j)
    BY <1>1
  <2> HIDE DEF failed
  <2>2. /\ IsFiniteSet(failed)
        /\ Cardinality(failed) <= Cardinality(ItemsOf(j))
        /\ Cardinality(failed) # Cardinality(ItemsOf(j))
    BY <1>2, <2>1, FS_Subset
  <2>3. Cardinality(failed) \in Nat /\ Cardinality(ItemsOf(j)) \in Nat
    BY <1>2, <2>2, FS_CardinalityType
  <2> QED
    BY <2>2, <2>3
<1>4. Cardinality(failed) \in Nat /\ (Cardinality(failed) = 0 <=> failed = {})
  BY <1>3, FS_CardinalityType, FS_EmptySet
<1>5. CountOf(j, st, "FAILED") = Cardinality(failed)
  BY DEF CountOf
<1>6. failed # {} <=> CountOf(j, st, "FAILED") > 0
  BY <1>4, <1>5
<1> QED
  BY <1>1, <1>3, <1>5, <1>6 DEF AccountsFor

(* The invariant: what an owner is about to write of its job is still true.  *)
SeenIsTrue ==
    \A w \in Instance, j \in Job :
        pc[w][j] = "write" => \A i \in ItemsOf(j) : seen[w][j][i] = itemStatus[i]

OverIsAccounted ==
    \A j \in Job : Over(jobStatus[j]) => AccountsFor(j, jobStatus[j], tally[j], itemStatus)

SettledContext == WorkContext /\ SeenIsTrue /\ OverIsAccounted

LEMMA SeenStep == SettledContext /\ [Next]_vars => SeenIsTrue'
<1> SUFFICES ASSUME SettledContext, [Next]_vars,
                    NEW w \in Instance, NEW j \in Job, pc'[w][j] = "write"
             PROVE  \A i \in ItemsOf(j) : seen'[w][j][i] = itemStatus'[i]
  BY DEF SeenIsTrue, ItemsOf
<1>1. CASE RunnerStep(w, j)
  <2>1. /\ pc \in [Instance -> [Job -> {"idle", "claim", "load", "loop", "search", "matched",
                                "unmatched", "fail", "renew", "read", "write", "catch"}]]
        /\ seen \in [Instance -> [Job -> [Item -> {"none"} \cup Active \cup Settled]]]
    BY DEF SettledContext, WorkContext, TypeInv, TypeOK
  <2>2. CASE CommitMatches(w, j)
    <3>1. PICK s \in {"renew", "fail"} : pc' = [pc EXCEPT ![w][j] = s]
      BY <2>2, AfterStep DEF CommitMatches
    <3> QED
      BY <2>1, <3>1
  <2>3. CASE CommitNoMatches(w, j)
    <3>1. PICK s \in {"renew", "fail"} : pc' = [pc EXCEPT ![w][j] = s]
      BY <2>3, AfterStep DEF CommitNoMatches
    <3> QED
      BY <2>1, <3>1
  <2>4. CASE FailItem(w, j)
    <3>1. PICK s \in {"renew", "catch"} : pc' = [pc EXCEPT ![w][j] = s]
      BY <2>4, AfterStep DEF FailItem
    <3> QED
      BY <2>1, <3>1
  <2>5. CASE Search(w, j)
    <3>1. \E s \in {"search", "matched", "unmatched", "fail"} :
             pc[w][j] = "search" /\ pc' = [pc EXCEPT ![w][j] = s]
      BY <2>5 DEF Search
    <3> QED
      BY <2>1, <3>1
  <2>6. CASE \/ Claim(w, j) \/ ClaimLost(w, j) \/ LoadItems(w, j) \/ StartItem(w, j)
             \/ CommitRefused(w, j) \/ RenewAfterItem(w, j) \/ WriteProgress(w, j)
             \/ EndRun(w, j) \/ FailJob(w, j)
    <3>1. \E s \in {"idle", "load", "loop", "search", "fail", "read"} :
             pc' = [pc EXCEPT ![w][j] = s]
      BY <2>6 DEF Claim, ClaimLost, LoadItems, StartItem, CommitRefused, RenewAfterItem,
         WriteProgress, EndRun, FailJob
    <3> QED
      BY <2>1, <3>1
  <2>7. CASE ReadProgress(w, j)
    BY <2>1, <2>7 DEF ReadProgress, itemVars, ItemsOf
  <2> QED
    BY <1>1, <2>2, <2>3, <2>4, <2>5, <2>6, <2>7 DEF RunnerStep
<1>2. CASE ~RunnerStep(w, j)
  <2>1. UNCHANGED Memory(w, j)
    BY <1>2, MemoryMoves DEF SettledContext
  <2>2. /\ pc[w][j] = "write"
        /\ \A i \in ItemsOf(j) : seen[w][j][i] = itemStatus[i]
        /\ Owns(w, j)
    BY <2>1 DEF Memory, SettledContext, SeenIsTrue, WorkContext, WorkInv, RunnerInv, BusyOwns,
       Looping
  <2>3. ItemsStand(j)
    BY <1>2, <2>2, ItemsMove DEF SettledContext, Owns
  <2> QED
    BY <2>1, <2>2, <2>3 DEF Memory, ItemsStand
<1> QED
  BY <1>1, <1>2

LEMMA OverStep == SettledContext /\ [Next]_vars => OverIsAccounted'
<1> SUFFICES ASSUME SettledContext, [Next]_vars, NEW j \in Job, Over(jobStatus'[j])
             PROVE  AccountsFor(j, jobStatus'[j], tally'[j], itemStatus')
  BY DEF OverIsAccounted, AccountsFor, ItemsOf, CountOf
<1>1. CASE jobStatus'[j] = jobStatus[j] /\ tally'[j] = tally[j]
  <2>1. ItemsStand(j)
    BY <1>1, ItemsMove DEF SettledContext, Over, Owns
  <2>2. AccountsFor(j, jobStatus[j], tally[j], itemStatus)
    BY <1>1 DEF SettledContext, OverIsAccounted
  <2> QED
    BY <1>1, <2>1, <2>2, SameAccounts DEF ItemsStand
<1>2. ASSUME NEW w \in Instance, WriteProgress(w, j), Owns(w, j)
      PROVE  AccountsFor(j, jobStatus'[j], tally'[j], itemStatus')
  <2> DEFINE st == seen[w][j]
  <2>1. /\ jobStatus'[j] = PublicJobStatus(j, st)
        /\ tally'[j] = [completed |-> CountOf(j, st, "COMPLETED"),
                        noMatch   |-> CountOf(j, st, "NO_MATCHES"),
                        failed    |-> CountOf(j, st, "FAILED")]
    BY <1>2 DEF WriteProgress, SettledContext, WorkContext, TypeInv, TypeOK
  <2>2. AccountsFor(j, jobStatus'[j], tally'[j], st)
    BY <2>1, StatusAccounts
  <2>3. \A i \in ItemsOf(j) : itemStatus'[i] = st[i]
    BY <1>2 DEF WriteProgress, itemVars, SettledContext, SeenIsTrue
  <2> QED
    BY <2>2, <2>3, SameAccounts
<1> QED
  BY <1>1, <1>2, RowMoves DEF SettledContext

\* With timely heartbeats, shutdowns that wait and replays that do not overlap, a
\* job shown as COMPLETED or PARTIAL has every item settled and counters that are
\* those of its items, although refreshJobProgress reads the items in one statement
\* and writes the job in another, and although database calls may fail.
THEOREM FinishedAreSettled == Timely /\ Spec => []FinishedJobsAreSettled
<1>1. Init => WorkInv /\ SeenIsTrue /\ OverIsAccounted
  BY PricingAssumption DEF PricingAssumption, Init, WorkInv, RunnerInv, SilentIsIdle, BusyOwns,
     ListIsQueued, CurrentIsOwn, BeatingLeases, ReplaysOfFinished, NewJobsAreEmpty, Looping,
     Working, SeenIsTrue, OverIsAccounted, Over
<1>2. OverIsAccounted => FinishedJobsAreSettled
  BY DEF OverIsAccounted, FinishedJobsAreSettled, AccountsFor, Over, Settled
<1>3. ASSUME Timely
      PROVE  TypeInv /\ LeaseMatchesStatus /\ WorkInv /\ SeenIsTrue /\ OverIsAccounted
             /\ [Next]_vars => (WorkInv /\ SeenIsTrue /\ OverIsAccounted)'
  BY <1>3, WorkStep, SeenStep, OverStep DEF WorkContext, SettledContext
<1>4. ASSUME Timely PROVE Spec => []FinishedJobsAreSettled
  BY <1>1, <1>2, <1>3, <1>4, TypeInvariant, LeaseHeld, PTL DEF Spec
<1> QED
  BY <1>4
-----------------------------------------------------------------------------
(* Why a completed item is never run again: the item in work is RUNNING, and *)
(* a replay in flight concerns an item that is still FAILED.  A transaction  *)
(* reported as failed although it committed breaks the first part (the catch *)
(* block fails the item it completed), so database calls must not fail.      *)
CurrentIsRunning ==
    \A w \in Instance, j \in Job :
        pc[w][j] \in Working => itemStatus[cur[w][j]] = "RUNNING"

ReplaysOfFailed ==
    \A a \in Admin : checked[a] # NoItem => itemStatus[checked[a]] = "FAILED"

KeptContext == WorkContext /\ ~DbErrors /\ CurrentIsRunning /\ ReplaysOfFailed

LEMMA CurrentStep == KeptContext /\ [Next]_vars => CurrentIsRunning'
<1> SUFFICES ASSUME KeptContext, [Next]_vars,
                    NEW w \in Instance, NEW j \in Job, pc'[w][j] \in Working
             PROVE  itemStatus'[cur'[w][j]] = "RUNNING"
  BY DEF CurrentIsRunning
<1>1. /\ pc \in [Instance -> [Job -> {"idle", "claim", "load", "loop", "search", "matched",
                              "unmatched", "fail", "renew", "read", "write", "catch"}]]
      /\ cur \in [Instance -> [Job -> Item \cup {NoItem}]]
      /\ todo \in [Instance -> [Job -> SUBSET Item]]
      /\ itemStatus \in [Item -> {"none"} \cup Active \cup Settled]
      /\ pc[w][j] \in Working => itemStatus[cur[w][j]] = "RUNNING"
  BY DEF KeptContext, CurrentIsRunning, WorkContext, TypeInv, TypeOK
<1>2. CASE RunnerStep(w, j)
  <2>1. CASE StartItem(w, j)
    BY <1>1, <2>1 DEF StartItem
  <2>2. CASE Search(w, j) \/ CommitRefused(w, j)
    <3>1. pc[w][j] \in Working /\ UNCHANGED <<itemStatus, cur>>
      BY <2>2 DEF Search, CommitRefused, Working, itemVars
    <3> QED
      BY <1>1, <3>1
  <2>3. CASE CommitMatches(w, j)
    <3>1. pc' = [pc EXCEPT ![w][j] = "renew"]
      BY <2>3 DEF CommitMatches, After, KeptContext
    <3> QED
      BY <1>1, <3>1 DEF Working
  <2>4. CASE CommitNoMatches(w, j)
    <3>1. pc' = [pc EXCEPT ![w][j] = "renew"]
      BY <2>4 DEF CommitNoMatches, After, KeptContext
    <3> QED
      BY <1>1, <3>1 DEF Working
  <2>5. CASE FailItem(w, j)
    <3>1. pc' = [pc EXCEPT ![w][j] = "renew"]
      BY <2>5 DEF FailItem, After, KeptContext
    <3> QED
      BY <1>1, <3>1 DEF Working
  <2>6. CASE \/ Claim(w, j) \/ ClaimLost(w, j) \/ LoadItems(w, j) \/ RenewAfterItem(w, j)
             \/ ReadProgress(w, j) \/ WriteProgress(w, j) \/ EndRun(w, j) \/ FailJob(w, j)
    <3>1. \E s \in {"idle", "load", "loop", "read", "write"} : pc' = [pc EXCEPT ![w][j] = s]
      BY <2>6 DEF Claim, ClaimLost, LoadItems, RenewAfterItem, ReadProgress, WriteProgress,
         EndRun, FailJob
    <3> QED
      BY <1>1, <3>1 DEF Working
  <2> QED
    BY <1>2, <2>1, <2>2, <2>3, <2>4, <2>5, <2>6 DEF RunnerStep
<1>3. CASE ~RunnerStep(w, j)
  <2>1. UNCHANGED Memory(w, j)
    BY <1>3, MemoryMoves DEF KeptContext, Working
  <2>2. pc[w][j] \in Working /\ UNCHANGED cur[w][j]
    BY <2>1 DEF Memory
  <2>3. cur[w][j] \in ItemsOf(j) /\ Owns(w, j)
    BY <2>2 DEF KeptContext, WorkContext, WorkInv, RunnerInv, BusyOwns, CurrentIsOwn, Looping,
       Working, TypeInv, CurrentIsItem, ItemsOf
  <2>4. ItemsStand(j)
    BY <1>3, <2>2, <2>3, ItemsMove DEF KeptContext, Owns
  <2> QED
    BY <1>1, <2>2, <2>3, <2>4 DEF ItemsStand
<1> QED
  BY <1>2, <1>3

LEMMA ReplayStep == KeptContext /\ [Next]_vars => ReplaysOfFailed'
<1> SUFFICES ASSUME KeptContext, [Next]_vars, NEW a \in Admin, checked'[a] # NoItem
             PROVE  itemStatus'[checked'[a]] = "FAILED"
  BY DEF ReplaysOfFailed
<1>1. checked \in [Admin -> Item \cup {NoItem}]
  BY DEF KeptContext, WorkContext, TypeInv, TypeOK
<1>2. checked'[a] = checked[a] \/ itemStatus'[checked'[a]] = "FAILED"
  <2>1. ASSUME NEW b \in Admin, CheckRequeue(b)
        PROVE  checked'[a] = checked[a] \/ itemStatus'[checked'[a]] = "FAILED"
    BY <1>1, <2>1 DEF CheckRequeue, itemVars
  <2>2. ASSUME NEW b \in Admin, Requeue(b) \/ RequeueRefused(b)
        PROVE  checked'[a] = checked[a]
    BY <1>1, <2>2 DEF Requeue, RequeueRefused
  <2>3. CASE UNCHANGED checked
    BY <2>3
  <2>4. ASSUME NEW w \in Instance, NEW j \in Job, RunnerStep(w, j) PROVE UNCHANGED checked
    BY <2>4, RunnerKeepsFrame DEF RunnerFrame, KeptContext
  <2> QED
    BY <2>1, <2>2, <2>3, <2>4 DEF Next, vars, CreatePricingJob, LeaseExpires, Dispatch,
       DbError, Reclaim, Heartbeat, StartInstance, BeginShutdown, EndShutdown, Die
<1>3. CASE checked'[a] = checked[a]
  <2> DEFINE i == checked[a]
             j == JobOf[checked[a]]
  <2>1. i \in Item /\ j \in Job /\ i \in ItemsOf(j)
    BY <1>1, <1>3, PricingAssumption DEF PricingAssumption, ItemsOf
  <2>2. jobStatus[j] \in Finished /\ itemStatus[i] = "FAILED"
    BY <1>3 DEF KeptContext, ReplaysOfFailed, WorkContext, WorkInv, ReplaysOfFinished
  <2>3. jobStatus'[j] \in Finished
    BY <1>3, WorkStep DEF KeptContext, WorkInv, ReplaysOfFinished
  <2>4. ItemsStand(j)
    BY <2>1, <2>2, <2>3, ItemsMove DEF KeptContext, Owns, Finished
  <2> QED
    BY <1>3, <2>1, <2>2, <2>4 DEF ItemsStand
<1> QED
  BY <1>2, <1>3

LEMMA CompletedStep ==
    ASSUME KeptContext, [Next]_vars, NEW i \in Item, itemStatus[i] = "COMPLETED"
    PROVE  itemStatus'[i] = "COMPLETED"
<1> USE PricingAssumption DEF PricingAssumption
<1>1. /\ itemStatus \in [Item -> {"none"} \cup Active \cup Settled]
      /\ todo \in [Instance -> [Job -> SUBSET Item]]
      /\ checked \in [Admin -> Item \cup {NoItem}]
      /\ NewJobsAreEmpty
      /\ \A w \in Instance, j \in Job : RunnerInv(w, j)
  BY DEF KeptContext, WorkContext, WorkInv, TypeInv, TypeOK
<1>2. ASSUME NEW j \in Job, CreatePricingJob(j) PROVE itemStatus'[i] = "COMPLETED"
  BY <1>1, <1>2 DEF CreatePricingJob, NewJobsAreEmpty
<1>3. ASSUME NEW w \in Instance, NEW j \in Job, StartItem(w, j)
      PROVE  itemStatus'[i] = "COMPLETED"
  <2>1. PICK k \in todo[w][j] : itemStatus' = [itemStatus EXCEPT ![k] = "RUNNING"]
    BY <1>3 DEF StartItem
  <2>2. k \in Item /\ itemStatus[k] = "QUEUED"
    BY <1>1, <1>3, <2>1 DEF StartItem, RunnerInv, ListIsQueued, Looping
  <2> QED
    BY <1>1, <2>1, <2>2
<1>4. ASSUME NEW w \in Instance, NEW j \in Job,
             CommitMatches(w, j) \/ CommitNoMatches(w, j) \/ FailItem(w, j)
      PROVE  itemStatus'[i] = "COMPLETED"
  <2>1. /\ pc[w][j] \in Working
        /\ \E s \in Settled : itemStatus' = [itemStatus EXCEPT ![cur[w][j]] = s]
    BY <1>4 DEF CommitMatches, CommitNoMatches, FailItem, Working, Settled
  <2>2. itemStatus[cur[w][j]] = "RUNNING"
    BY <2>1 DEF KeptContext, CurrentIsRunning
  <2> QED
    BY <1>1, <2>1, <2>2
<1>5. ASSUME NEW w \in Instance, NEW j \in Job, Reclaim(w, j)
      PROVE  itemStatus'[i] = "COMPLETED"
  BY <1>1, <1>5 DEF Reclaim, Reset
<1>6. ASSUME NEW a \in Admin, Requeue(a) PROVE itemStatus'[i] = "COMPLETED"
  <2>1. itemStatus[checked[a]] = "FAILED"
    BY <1>6 DEF Requeue, KeptContext, ReplaysOfFailed
  <2> QED
    BY <1>1, <1>6, <2>1 DEF Requeue
<1>7. CASE UNCHANGED itemStatus
  BY <1>7
<1> QED
  BY <1>2, <1>3, <1>4, <1>5, <1>6, <1>7 DEF Next, vars, itemVars, LeaseExpires, Dispatch,
     DbError, Heartbeat, StartInstance, BeginShutdown, EndShutdown, Die, CheckRequeue,
     RequeueRefused, RunnerStep, Claim, ClaimLost, LoadItems, Search, CommitRefused,
     RenewAfterItem, ReadProgress, WriteProgress, EndRun, FailJob

\* With timely heartbeats, shutdowns that wait, replays that do not overlap and a
\* database that answers, a completed item is never run, failed or queued again:
\* not by a reclaim after a crash, nor by the replay of another item.
THEOREM CompletedStay == Timely /\ ~DbErrors /\ Spec => CompletedItemsPreserved
<1> DEFINE Kept == \A i \in Item : itemStatus[i] = "COMPLETED" => itemStatus'[i] = "COMPLETED"
<1>1. Init => WorkInv /\ CurrentIsRunning /\ ReplaysOfFailed
  BY PricingAssumption DEF PricingAssumption, Init, WorkInv, RunnerInv, SilentIsIdle, BusyOwns,
     ListIsQueued, CurrentIsOwn, BeatingLeases, ReplaysOfFinished, NewJobsAreEmpty, Looping,
     Working, CurrentIsRunning, ReplaysOfFailed
<1>2. ASSUME Timely, ~DbErrors
      PROVE  TypeInv /\ LeaseMatchesStatus /\ WorkInv /\ CurrentIsRunning /\ ReplaysOfFailed
             /\ [Next]_vars => (WorkInv /\ CurrentIsRunning /\ ReplaysOfFailed)' /\ [Kept]_vars
  BY <1>2, WorkStep, CurrentStep, ReplayStep, CompletedStep DEF WorkContext, KeptContext
<1>3. ASSUME Timely, ~DbErrors PROVE Spec => [][Kept]_vars
  BY <1>1, <1>2, <1>3, TypeInvariant, LeaseHeld, PTL DEF Spec
<1> QED
  BY <1>3 DEF CompletedItemsPreserved
=============================================================================
