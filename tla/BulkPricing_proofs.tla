------------------------- MODULE BulkPricing_proofs -------------------------
(* Proofs about BulkPricing, for any processes, sheets and items.            *)
EXTENDS BulkPricing, TLAPS

Statuses == {"none", "QUEUED", "RUNNING"} \cup Settled
Labels == {"idle", "claim", "load", "loop", "search", "found", "nothing", "fail", "requeue",
           "read", "write", "pause", "reread", "rewrite", "catch"}

TypeInv ==
    /\ scenario \in Scenarios
    /\ alive \subseteq Process
    /\ jobStatus \in [Job -> {"none", "PAUSED"} \cup Active \cup Finished]
    /\ started \subseteq Job /\ old \subseteq Job /\ stale \subseteq Job
    /\ itemStatus \in [Item -> Statuses]
    /\ pc \in [Process -> [Job -> Labels]]
    /\ todo \in [Process -> [Job -> SUBSET Item]]
    /\ cur \in [Process -> [Job -> Item \cup {NoItem}]]
    /\ verdict \in [Process -> [Job -> {"none", "RUNNING"} \cup Finished]]
    /\ requested \subseteq Job /\ hung \subseteq Job

LEMMA StatusType ==
    ASSUME NEW j
    PROVE  StatusOfJob(j) \in {"RUNNING"} \cup Finished
BY DEF StatusOfJob, Finished

LEMMA MoveType ==
    ASSUME TypeInv, NEW p \in Process, NEW j \in Job, NEW label \in Labels, Move(p, j, label)
    PROVE  pc' \in [Process -> [Job -> Labels]]
BY DEF TypeInv, Move

LEMMA InitType == Init => TypeInv
<1> SUFFICES ASSUME Init PROVE TypeInv
  OBVIOUS
<1> QED
  BY BulkAssumption DEF BulkAssumption, Init, TypeInv, Statuses, Labels

LEMMA RunType ==
    ASSUME TypeInv, NEW p \in Process, NEW j \in Job, RunStep(p, j)
    PROVE  TypeInv'
<1> USE DEF TypeInv, jobVars, runVars, Active, Move, SetJob
<1>1. CASE Claim(p, j)
  <2>1. \E label \in Labels : Move(p, j, label)
    BY <1>1 DEF Claim, Labels
  <2>2. pc' \in [Process -> [Job -> Labels]]
    BY <2>1, MoveType
  <2>3. CASE Claimable(j)
    <3>1. /\ jobStatus' = [jobStatus EXCEPT ![j] = "RUNNING"]
          /\ stale' = stale \ {j}
          /\ started' = started \cup {j}
          /\ UNCHANGED <<scenario, alive, old, itemStatus, todo, cur, verdict, requested, hung>>
      BY <1>1, <2>3 DEF Claim, Claimed
    <3> QED
      BY <2>2, <3>1
  <2>4. CASE ~Claimable(j)
    BY <1>1, <2>2, <2>4 DEF Claim
  <2> QED
    BY <2>3, <2>4
<1>2. CASE LoadItems(p, j)
  BY <1>2 DEF LoadItems, ItemsToLoad, ItemsOf, Labels
<1>3. CASE StartItem(p, j)
  BY <1>3 DEF StartItem, Statuses, Labels
<1>4. CASE SearchAnswered(p, j)
  <2>1. PICK s \in {"found", "nothing", "fail"} : pc' = [pc EXCEPT ![p][j] = s]
    BY <1>4 DEF SearchAnswered
  <2> QED
    BY <1>4, <2>1 DEF SearchAnswered, Labels
<1>5. CASE WriteItem(p, j)
  <2>1. ResultOf(pc[p][j]) \in Statuses
    BY <1>5 DEF WriteItem, ResultOf, Statuses, Settled
  <2> QED
    BY <1>5, <2>1 DEF WriteItem, Labels
<1>6. CASE ReadItems(p, j)
  <2>1. PICK s \in {"write", "rewrite"} : pc' = [pc EXCEPT ![p][j] = s]
    BY <1>6 DEF ReadItems
  <2>2. verdict' = [verdict EXCEPT ![p][j] = StatusOfJob(j)]
    BY <1>6 DEF ReadItems
  <2> QED
    BY <1>6, <2>1, <2>2, StatusType DEF ReadItems, Labels
<1>7. CASE WriteJob(p, j)
  <2>1. \E label \in Labels : Move(p, j, label)
    BY <1>7 DEF WriteJob, Labels
  <2>2. pc' \in [Process -> [Job -> Labels]]
    BY <2>1, MoveType
  <2>3. /\ jobStatus' = [jobStatus EXCEPT ![j] = verdict[p][j]]
        /\ stale' = stale \ {j}
        /\ verdict' = [verdict EXCEPT ![p][j] = "none"]
        /\ UNCHANGED <<scenario, alive, started, old, itemStatus, requested, hung>>
    BY <1>7 DEF WriteJob, Forget
  <2>4. CASE UNCHANGED <<todo, cur>>
    BY <2>2, <2>3, <2>4
  <2>5. CASE Forget(p, j)
    <3>1. /\ todo' \in [Process -> [Job -> SUBSET Item]]
          /\ cur' \in [Process -> [Job -> Item \cup {NoItem}]]
      BY <2>5 DEF Forget
    <3>2. /\ jobStatus' \in [Job -> {"none", "PAUSED"} \cup Active \cup Finished]
          /\ verdict' \in [Process -> [Job -> {"none", "RUNNING"} \cup Finished]]
      BY <2>3
    <3> QED
      BY <2>2, <2>3, <3>1, <3>2
  <2> QED
    BY <1>7, <2>4, <2>5 DEF WriteJob
<1>8. CASE RequeueItem(p, j)
  BY <1>8 DEF RequeueItem, Statuses, Labels
<1>9. CASE PauseJob(p, j)
  BY <1>9 DEF PauseJob, Labels
<1>10. CASE EndRun(p, j)
  BY <1>10 DEF EndRun, Labels
<1>11. CASE FailJob(p, j)
  BY <1>11 DEF FailJob, Forget, Labels, Finished
<1>12. CASE SearchLimited(p, j)
  BY <1>12 DEF SearchLimited, Labels
<1> QED
  BY <1>1, <1>2, <1>3, <1>4, <1>5, <1>6, <1>7, <1>8, <1>9, <1>10, <1>11, <1>12 DEF RunStep

LEMMA NextType == TypeInv /\ [Next]_vars => TypeInv'
<1> SUFFICES ASSUME TypeInv, [Next]_vars PROVE TypeInv'
  OBVIOUS
<1> USE DEF TypeInv, jobVars, runVars, Active, Move, SetJob
<1>1. CASE CancelStuck
  BY <1>1 DEF CancelStuck, Finished
<1>2. ASSUME NEW j \in Job, RequestJob(j) PROVE TypeInv'
  <2>1. /\ jobStatus' = [k \in Job |-> IF k \in Expired THEN "FAILED" ELSE jobStatus[k]]
        /\ requested' = requested \/ requested' = requested \cup {j}
        /\ stale' \subseteq stale
        /\ UNCHANGED <<scenario, alive, started, old, itemStatus, runVars, hung>>
    BY <1>2 DEF RequestJob
  <2> QED
    BY <2>1 DEF Finished
<1>3. ASSUME NEW j \in Job, CreateBulkPricingJob(j) PROVE TypeInv'
  BY <1>3 DEF CreateBulkPricingJob, Statuses
<1>4. ASSUME NEW j \in Job, TenMinutesPass(j) \/ ThirtyMinutesPass(j) PROVE TypeInv'
  BY <1>4 DEF TenMinutesPass, ThirtyMinutesPass
<1>5. ASSUME NEW j \in Job, HungClaimEnds(j) PROVE TypeInv'
  BY <1>5 DEF HungClaimEnds, Claimed
<1>6. ASSUME NEW p \in Process, NEW j \in Job, RunStep(p, j) PROVE TypeInv'
  BY <1>6, RunType
<1>7. ASSUME NEW p \in Process, NEW j \in Job, ClaimTimesOut(p, j) \/ Dispatch(p, j)
      PROVE  TypeInv'
  <2>1. \E label \in Labels : Move(p, j, label)
    BY <1>7 DEF ClaimTimesOut, Dispatch, Labels
  <2>2. pc' \in [Process -> [Job -> Labels]]
    BY <2>1, MoveType
  <2> QED
    BY <1>7, <2>2 DEF ClaimTimesOut, Dispatch
<1>8. ASSUME NEW p \in Process, NEW j \in Job, Reclaim(p, j) PROVE TypeInv'
  BY <1>8 DEF Reclaim, Reset, Statuses
<1>9. ASSUME NEW p \in Process, NEW j \in Job, ResumeBulkPricingJob(p, j) PROVE TypeInv'
  <2>1. CASE Move(p, j, "claim")
    <3>1. pc' \in [Process -> [Job -> Labels]]
      BY <2>1, MoveType DEF Labels
    <3> QED
      BY <1>9, <3>1 DEF ResumeBulkPricingJob
  <2>2. CASE UNCHANGED pc
    BY <1>9, <2>2 DEF ResumeBulkPricingJob
  <2> QED
    BY <1>9, <2>1, <2>2 DEF ResumeBulkPricingJob
<1>10. ASSUME NEW p \in Process, NEW j \in Job, DbError(p, j) PROVE TypeInv'
  <2>1. UNCHANGED <<scenario, alive, jobVars, itemStatus, verdict, requested, hung>>
    BY <1>10 DEF DbError
  <2>2. pc' \in [Process -> [Job -> Labels]]
    <3>1. UNCHANGED pc \/ \E label \in Labels : Move(p, j, label)
      BY <1>10 DEF DbError, Labels
    <3> QED
      BY <3>1, MoveType
  <2>3. todo' \in [Process -> [Job -> SUBSET Item]]
    <3>1. CASE UNCHANGED todo
      BY <3>1
    <3>2. ASSUME NEW i \in todo[p][j], todo' = [todo EXCEPT ![p][j] = @ \ {i}]
          PROVE  todo' \in [Process -> [Job -> SUBSET Item]]
      BY <3>2
    <3> QED
      BY <1>10, <3>1, <3>2 DEF DbError
  <2>4. cur' \in [Process -> [Job -> Item \cup {NoItem}]]
    <3>1. CASE UNCHANGED cur
      BY <3>1
    <3>2. CASE cur' = [cur EXCEPT ![p][j] = NoItem]
      BY <3>2
    <3> QED
      BY <1>10, <3>1, <3>2 DEF DbError
  <2> QED
    BY <2>1, <2>2, <2>3, <2>4
<1>11. ASSUME NEW p \in Process, Die(p) PROVE TypeInv'
  BY <1>11 DEF Die, Labels
<1>12. CASE UNCHANGED vars
  BY <1>12 DEF vars
<1> QED
  BY <1>1, <1>2, <1>3, <1>4, <1>5, <1>6, <1>7, <1>8, <1>9, <1>10, <1>11, <1>12 DEF Next

LEMMA TypeInvariant == Spec => []TypeInv
<1> QED
  BY InitType, NextType, PTL DEF Spec

-----------------------------------------------------------------------------
(* Why an orderly sheet is priced once.  Nothing owns a job; the argument is *)
(* that a process at work on its items keeps the job from being claimable,   *)
(* that only a job nobody is at work on goes stale, and that of a paused run *)
(* nothing is left but the refresh of the job's status.                      *)
OnItem == {"search", "found", "nothing", "fail", "requeue"}
Listed == OnItem \cup {"loop", "read", "write", "pause"}
Busy   == Listed \cup {"load"}

\* What a status of a job says of the statuses st of its items.
Priced(j, status, st) ==
    /\ status \in {"COMPLETED", "PARTIAL"} => \A i \in ItemsOf(j) : st[i] \in Settled
    /\ status = "COMPLETED" => \A i \in ItemsOf(j) : st[i] # "FAILED"

BusyRuns(p, j) ==
    /\ pc[p][j] # "catch"
    /\ pc[p][j] \in Busy => jobStatus[j] \in {"RUNNING"} \cup Finished
    /\ jobStatus[j] = "none" \/ j \in stale \/ p \notin alive => pc[p][j] = "idle"

ListIsQueued(p, j) ==
    pc[p][j] \in Listed => \A i \in todo[p][j] : JobOf[i] = j /\ itemStatus[i] = "QUEUED"

CurrentIsRunning(p, j) ==
    IF pc[p][j] \in OnItem
    THEN /\ cur[p][j] \in Item
         /\ JobOf[cur[p][j]] = j
         /\ itemStatus[cur[p][j]] = "RUNNING"
    ELSE cur[p][j] = NoItem

VerdictIsTrue(p, j) ==
    pc[p][j] \in {"write", "rewrite"} => 
        verdict[p][j] # "none" /\ Priced(j, verdict[p][j], itemStatus)

RunInv(p, j) ==
    BusyRuns(p, j) /\ ListIsQueued(p, j) /\ CurrentIsRunning(p, j) /\ VerdictIsTrue(p, j)

OneBusy(j) ==
    \A p, q \in Process : pc[p][j] \in Busy /\ pc[q][j] \in Busy => p = q

JobInv(j) ==
    /\ OneBusy(j)
    /\ Priced(j, jobStatus[j], itemStatus)
    /\ j \in requested => jobStatus[j] = "none"
    /\ jobStatus[j] = "none" => \A i \in ItemsOf(j) : itemStatus[i] = "none"
    /\ j \in stale => jobStatus[j] = "RUNNING"
    /\ j \notin hung

SheetInv == \A j \in Job : JobInv(j) /\ \A p \in Process : RunInv(p, j)
Context == TypeInv /\ Orderly /\ SheetInv

Memory(p, j) == <<pc[p][j], todo[p][j], cur[p][j], verdict[p][j]>>

(* A step that concerns one job, and of its runs at most the one of p.       *)
AtJob(j) ==
    /\ UNCHANGED <<scenario, alive>>
    /\ \A q \in Process, k \in Job : k # j => UNCHANGED Memory(q, k)
    /\ \A k \in Job : k # j =>
          /\ jobStatus'[k] = jobStatus[k]
          /\ k \in stale' <=> k \in stale
          /\ k \in requested' <=> k \in requested
          /\ k \in hung' <=> k \in hung
    /\ \A i \in Item : JobOf[i] # j => itemStatus'[i] = itemStatus[i]

OnlyRun(p, j) == \A q \in Process : q # p => UNCHANGED Memory(q, j)

LEMMA PricedStays ==
    ASSUME NEW j, NEW status, NEW st, NEW su, Priced(j, status, st),
           \A i \in ItemsOf(j) : st[i] \in Settled => su[i] = st[i]
    PROVE  Priced(j, status, su)
BY DEF Priced

LEMMA StatusIsTrue ==
    ASSUME NEW j
    PROVE  Priced(j, StatusOfJob(j), itemStatus)
BY DEF Priced, StatusOfJob

(* What an orderly scenario does not meet.                                   *)
LEMMA NotMet ==
    ASSUME Orderly, NEW h \in {"staleResumes", "cancels", "slowItems", "slowClaims", "dbErrors"}
    PROVE  ~Meets(h)
BY DEF Orderly, Meets

(* The runs and rows of other jobs keep their invariants.                    *)
LEMMA OtherJobs ==
    ASSUME Context, NEW j \in Job, AtJob(j), NEW k \in Job, k # j
    PROVE  JobInv(k)' /\ \A q \in Process : RunInv(q, k)'
<1>1. JobInv(k) /\ \A q \in Process : RunInv(q, k)
  BY DEF Context, SheetInv
<1>2. \A i \in ItemsOf(k) : itemStatus'[i] = itemStatus[i]
  BY DEF AtJob, ItemsOf
<1>3. /\ jobStatus'[k] = jobStatus[k]
      /\ k \in stale' <=> k \in stale
      /\ k \in requested' <=> k \in requested
      /\ k \in hung' <=> k \in hung
      /\ alive' = alive
      /\ \A q \in Process : UNCHANGED Memory(q, k)
  BY DEF AtJob
<1>4. ASSUME NEW status, Priced(k, status, itemStatus) PROVE Priced(k, status, itemStatus')
  BY <1>2, <1>4, PricedStays
<1>5. JobInv(k)'
  BY <1>1, <1>2, <1>3, <1>4 DEF JobInv, OneBusy, Memory, ItemsOf
<1>6. ASSUME NEW q \in Process PROVE RunInv(q, k)'
  <2>1. RunInv(q, k) /\ UNCHANGED <<pc[q][k], todo[q][k], cur[q][k], verdict[q][k]>>
    BY <1>1, <1>3 DEF Memory
  <2>2. todo[q][k] \subseteq Item
    BY DEF Context, TypeInv
  <2>3. BusyRuns(q, k)'
    BY <1>3, <2>1 DEF RunInv, BusyRuns
  <2>4. ListIsQueued(q, k)'
    BY <1>2, <2>1, <2>2 DEF RunInv, ListIsQueued, ItemsOf
  <2>5. CurrentIsRunning(q, k)'
    BY <1>2, <2>1 DEF RunInv, CurrentIsRunning, ItemsOf
  <2>6. VerdictIsTrue(q, k)'
    BY <1>4, <2>1 DEF RunInv, VerdictIsTrue
  <2> QED
    BY <2>3, <2>4, <2>5, <2>6 DEF RunInv
<1> QED
  BY <1>5, <1>6

LEMMA Assemble ==
    ASSUME Context, NEW j \in Job, AtJob(j), JobInv(j)', \A q \in Process : RunInv(q, j)'
    PROVE  SheetInv'
BY OtherJobs DEF SheetInv

(* A run that a step on its job leaves alone keeps its invariant: its job    *)
(* stays what it was for it, and settled items stay settled.                 *)
LEMMA Bystander ==
    ASSUME Context, NEW j \in Job, NEW q \in Process,
           UNCHANGED <<alive, Memory(q, j)>>,
           pc[q][j] \in Busy => jobStatus'[j] \in {"RUNNING"} \cup Finished,
           jobStatus'[j] = "none" \/ j \in stale' => pc[q][j] = "idle",
           \A i \in ItemsOf(j) : \/ itemStatus'[i] = itemStatus[i]
                                 \/ itemStatus[i] \notin Settled /\ pc[q][j] \notin Busy
    PROVE  RunInv(q, j)'
<1>1. RunInv(q, j) /\ UNCHANGED <<pc[q][j], todo[q][j], cur[q][j], verdict[q][j]>>
  BY DEF Context, SheetInv, Memory
<1>2. todo[q][j] \subseteq Item
  BY DEF Context, TypeInv
<1>3. BusyRuns(q, j)'
  BY <1>1 DEF RunInv, BusyRuns
<1>4. ListIsQueued(q, j)'
  BY <1>1, <1>2 DEF RunInv, ListIsQueued, ItemsOf, Busy
<1>5. CurrentIsRunning(q, j)'
  BY <1>1 DEF RunInv, CurrentIsRunning, ItemsOf, Busy, Listed
<1>6. VerdictIsTrue(q, j)'
  <2>1. \A i \in ItemsOf(j) : itemStatus[i] \in Settled => itemStatus'[i] = itemStatus[i]
    OBVIOUS
  <2>2. Priced(j, verdict[q][j], itemStatus) => Priced(j, verdict[q][j], itemStatus')
    BY <2>1, PricedStays
  <2> QED
    BY <1>1, <2>2 DEF RunInv, VerdictIsTrue
<1> QED
  BY <1>3, <1>4, <1>5, <1>6 DEF RunInv
(* A run's steps, one lemma for each kind.  Steps that touch only the run's  *)
(* own memory:                                                               *)
LEMMA MemoryStep ==
    ASSUME Context, NEW p \in Process, NEW j \in Job,
           \/ LoadItems(p, j) \/ SearchAnswered(p, j) \/ SearchLimited(p, j)
           \/ ReadItems(p, j) \/ EndRun(p, j)
    PROVE  SheetInv'
<1> USE DEF jobVars, runVars, Move, Memory
<1>1. /\ pc \in [Process -> [Job -> Labels]]
      /\ todo \in [Process -> [Job -> SUBSET Item]]
      /\ cur \in [Process -> [Job -> Item \cup {NoItem}]]
      /\ verdict \in [Process -> [Job -> {"none", "RUNNING"} \cup Finished]]
      /\ JobInv(j) /\ \A q \in Process : RunInv(q, j)
  BY DEF Context, TypeInv, SheetInv
<1>2. UNCHANGED <<scenario, alive, jobStatus, stale, itemStatus, requested, hung>>
  BY DEF LoadItems, SearchAnswered, SearchLimited, ReadItems, EndRun
<1>3. (\A q \in Process, k \in Job : q # p \/ k # j => UNCHANGED Memory(q, k))
      /\ RunInv(p, j)' /\ (pc'[p][j] \in Busy => pc[p][j] \in Busy)
  <2>1. CASE LoadItems(p, j)
    BY <1>1, <1>2, <2>1 DEF LoadItems, ItemsToLoad, ItemsOf, RunInv, BusyRuns, ListIsQueued,
       CurrentIsRunning, VerdictIsTrue, OnItem, Listed, Busy
  <2>2. CASE SearchAnswered(p, j) \/ SearchLimited(p, j)
    <3>1. PICK s \in {"found", "nothing", "fail", "requeue"} :
             /\ pc[p][j] = "search" /\ pc' = [pc EXCEPT ![p][j] = s]
             /\ UNCHANGED <<todo, cur, verdict>>
      BY <2>2 DEF SearchAnswered, SearchLimited
    <3> QED
      BY <1>1, <1>2, <3>1 DEF RunInv, BusyRuns, ListIsQueued, CurrentIsRunning, VerdictIsTrue,
         OnItem, Listed, Busy
  <2>3. CASE ReadItems(p, j)
    <3>1. PICK s \in {"write", "rewrite"} :
             /\ s = "write" <=> pc[p][j] = "read"
             /\ pc[p][j] \in {"read", "reread"}
             /\ pc' = [pc EXCEPT ![p][j] = s]
      BY <2>3 DEF ReadItems
    <3>2. /\ verdict' = [verdict EXCEPT ![p][j] = StatusOfJob(j)]
          /\ UNCHANGED <<todo, cur>>
      BY <2>3 DEF ReadItems
    <3>3. VerdictIsTrue(p, j)'
      <4>1. verdict'[p][j] = StatusOfJob(j)
        BY <1>1, <3>2
      <4> QED
        BY <1>2, <4>1, StatusType, StatusIsTrue DEF VerdictIsTrue, Finished
    <3>4. BusyRuns(p, j)' /\ ListIsQueued(p, j)' /\ CurrentIsRunning(p, j)'
      BY <1>1, <1>2, <3>1, <3>2 DEF RunInv, BusyRuns, ListIsQueued, CurrentIsRunning,
         OnItem, Listed, Busy
    <3>5. \A q \in Process, k \in Job : q # p \/ k # j => UNCHANGED Memory(q, k)
      BY <1>1, <3>1, <3>2
    <3>6. RunInv(p, j)'
      BY <3>3, <3>4 DEF RunInv
    <3>7. pc'[p][j] \in Busy => pc[p][j] \in Busy
      BY <1>1, <3>1 DEF OnItem, Listed, Busy
    <3> QED
      BY <3>5, <3>6, <3>7
  <2>4. CASE EndRun(p, j)
    BY <1>1, <1>2, <2>4 DEF EndRun, RunInv, BusyRuns, ListIsQueued, CurrentIsRunning,
       VerdictIsTrue, OnItem, Listed, Busy
  <2> QED
    BY <2>1, <2>2, <2>3, <2>4
<1>4. AtJob(j)
  BY <1>2, <1>3 DEF AtJob
<1>5. JobInv(j)'
  <2>1. \A q \in Process : pc'[q][j] \in Busy => pc[q][j] \in Busy
    BY <1>3
  <2> QED
    BY <1>1, <1>2, <2>1 DEF JobInv, OneBusy
<1>6. ASSUME NEW q \in Process PROVE RunInv(q, j)'
  <2>1. CASE q # p
    <3>1. UNCHANGED <<alive, Memory(q, j)>>
      BY <1>2, <1>3, <2>1
    <3>2. pc[q][j] \in Busy => jobStatus'[j] \in {"RUNNING"} \cup Finished
      BY <1>1, <1>2 DEF RunInv, BusyRuns
    <3>3. jobStatus'[j] = "none" \/ j \in stale' => pc[q][j] = "idle"
      BY <1>1, <1>2 DEF RunInv, BusyRuns
    <3> QED
      BY <1>2, <3>1, <3>2, <3>3, Bystander
  <2> QED
    BY <1>3, <2>1
<1> QED
  BY <1>4, <1>5, <1>6, Assemble

(* Steps that write the item in work, or start one:                          *)
LEMMA ItemStep ==
    ASSUME Context, NEW p \in Process, NEW j \in Job,
           StartItem(p, j) \/ WriteItem(p, j) \/ RequeueItem(p, j)
    PROVE  /\ SheetInv'
           /\ \A i \in Item : itemStatus[i] \in Settled => itemStatus'[i] = itemStatus[i]
<1> USE DEF jobVars, runVars, Move, Memory
<1>1. /\ pc \in [Process -> [Job -> Labels]]
      /\ todo \in [Process -> [Job -> SUBSET Item]]
      /\ cur \in [Process -> [Job -> Item \cup {NoItem}]]
      /\ itemStatus \in [Item -> Statuses]
      /\ JobInv(j) /\ \A q \in Process : RunInv(q, j)
  BY DEF Context, TypeInv, SheetInv
<1>2. UNCHANGED <<scenario, alive, jobStatus, stale, requested, hung, verdict>>
  BY DEF StartItem, WriteItem, RequeueItem
<1>3. pc[p][j] \in Busy /\ \A q \in Process : pc[q][j] \in Busy => q = p
  BY <1>1 DEF StartItem, WriteItem, RequeueItem, JobInv, OneBusy, OnItem, Listed, Busy
<1>4. PICK i \in Item, s \in {"RUNNING", "QUEUED"} \cup Settled :
         /\ JobOf[i] = j /\ itemStatus[i] \in {"QUEUED", "RUNNING"}
         /\ itemStatus' = [itemStatus EXCEPT ![i] = s]
         /\ RunInv(p, j)'
         /\ \A q \in Process, k \in Job : q # p \/ k # j => UNCHANGED Memory(q, k)
         /\ pc'[p][j] \in Busy
  <2>1. CASE StartItem(p, j)
    <3>1. PICK i \in todo[p][j] : /\ todo' = [todo EXCEPT ![p][j] = @ \ {i}]
                                  /\ cur' = [cur EXCEPT ![p][j] = i]
                                  /\ itemStatus' = [itemStatus EXCEPT ![i] = "RUNNING"]
      BY <2>1 DEF StartItem
    <3>2. /\ i \in Item /\ JobOf[i] = j /\ itemStatus[i] = "QUEUED"
          /\ pc[p][j] = "loop" /\ pc' = [pc EXCEPT ![p][j] = "search"]
      BY <1>1, <2>1 DEF StartItem, RunInv, ListIsQueued, Listed
    <3>3. \A q \in Process, k \in Job : q # p \/ k # j => UNCHANGED Memory(q, k)
      BY <1>1, <1>2, <3>1, <3>2
    <3>4. /\ pc'[p][j] = "search" /\ cur'[p][j] = i
          /\ todo'[p][j] = todo[p][j] \ {i}
      BY <1>1, <3>1, <3>2
    <3>5. RunInv(p, j)'
      BY <1>1, <1>2, <3>1, <3>2, <3>4 DEF RunInv, BusyRuns, ListIsQueued, CurrentIsRunning,
         VerdictIsTrue, OnItem, Listed, Busy
    <3> QED
      BY <3>1, <3>2, <3>3, <3>4, <3>5 DEF OnItem, Listed, Busy
  <2>2. CASE WriteItem(p, j) \/ RequeueItem(p, j)
    <3>1. pc[p][j] \in OnItem
      BY <2>2 DEF WriteItem, RequeueItem, OnItem
    <3>2. /\ cur[p][j] \in Item /\ JobOf[cur[p][j]] = j /\ itemStatus[cur[p][j]] = "RUNNING"
          /\ \A k \in todo[p][j] : k \in Item /\ JobOf[k] = j /\ itemStatus[k] = "QUEUED"
      BY <1>1, <3>1 DEF RunInv, CurrentIsRunning, ListIsQueued, Listed
    <3>3. PICK s \in {"QUEUED"} \cup Settled, l \in {"read", "pause"} :
             /\ itemStatus' = [itemStatus EXCEPT ![cur[p][j]] = s]
             /\ cur' = [cur EXCEPT ![p][j] = NoItem]
             /\ pc' = [pc EXCEPT ![p][j] = l]
             /\ UNCHANGED todo
      BY <2>2 DEF WriteItem, RequeueItem, ResultOf, Settled
    <3>4. \A q \in Process, k \in Job : q # p \/ k # j => UNCHANGED Memory(q, k)
      BY <1>1, <1>2, <3>3
    <3>5. pc'[p][j] = l /\ cur'[p][j] = NoItem /\ todo'[p][j] = todo[p][j]
      BY <1>1, <3>3
    <3>6. \A k \in todo[p][j] : itemStatus'[k] = "QUEUED"
      BY <1>1, <3>2, <3>3
    <3>7. RunInv(p, j)'
      BY <1>1, <1>2, <3>1, <3>2, <3>5, <3>6 DEF RunInv, BusyRuns, ListIsQueued,
         CurrentIsRunning, VerdictIsTrue, OnItem, Listed, Busy
    <3> QED
      BY <3>2, <3>3, <3>4, <3>5, <3>7 DEF Listed, Busy
  <2> QED
    BY <2>1, <2>2
<1>5. \A k \in Item : k # i => itemStatus'[k] = itemStatus[k]
  BY <1>1, <1>4
<1>6. itemStatus[i] \notin Settled /\ itemStatus[i] # "none"
  BY <1>4 DEF Settled
<1>7. AtJob(j)
  BY <1>2, <1>4, <1>5 DEF AtJob
<1>8. JobInv(j)'
  <2>1. Priced(j, jobStatus[j], itemStatus')
    <3>1. Priced(j, jobStatus[j], itemStatus)
      BY <1>1 DEF JobInv
    <3>2. \A k \in ItemsOf(j) : itemStatus[k] \in Settled => itemStatus'[k] = itemStatus[k]
      BY <1>5, <1>6 DEF ItemsOf
    <3> QED
      BY <3>1, <3>2, PricedStays
  <2>2. jobStatus[j] # "none"
    BY <1>4, <1>6, <1>1 DEF JobInv, ItemsOf
  <2>3. OneBusy(j)'
    BY <1>3, <1>4 DEF OneBusy
  <2> QED
    BY <1>1, <1>2, <2>1, <2>2, <2>3 DEF JobInv
<1>9. ASSUME NEW q \in Process PROVE RunInv(q, j)'
  <2>1. CASE q # p
    <3>1. UNCHANGED <<alive, Memory(q, j)>> /\ pc[q][j] \notin Busy
      BY <1>2, <1>3, <1>4, <2>1
    <3>2. jobStatus'[j] = "none" \/ j \in stale' => pc[q][j] = "idle"
      BY <1>1, <1>2 DEF RunInv, BusyRuns
    <3>3. \A k \in ItemsOf(j) : itemStatus'[k] = itemStatus[k] \/ itemStatus[k] \notin Settled
      BY <1>5, <1>6 DEF ItemsOf
    <3> QED
      BY <3>1, <3>2, <3>3, Bystander
  <2> QED
    BY <1>4, <2>1
<1>10. SheetInv'
  BY <1>7, <1>8, <1>9, Assemble
<1> QED
  BY <1>5, <1>6, <1>10
(* Steps that write the job's row: a claim, a pause, a refresh.              *)
LEMMA RowStep ==
    ASSUME Context, NEW p \in Process, NEW j \in Job,
           Claim(p, j) \/ PauseJob(p, j) \/ WriteJob(p, j)
    PROVE  SheetInv'
<1> USE DEF jobVars, runVars, Move, Memory, SetJob
<1>1. /\ jobStatus \in [Job -> {"none", "PAUSED"} \cup Active \cup Finished]
      /\ stale \subseteq Job
      /\ pc \in [Process -> [Job -> Labels]]
      /\ todo \in [Process -> [Job -> SUBSET Item]]
      /\ cur \in [Process -> [Job -> Item \cup {NoItem}]]
      /\ verdict \in [Process -> [Job -> {"none", "RUNNING"} \cup Finished]]
      /\ JobInv(j) /\ \A q \in Process : RunInv(q, j)
  BY DEF Context, TypeInv, SheetInv
<1>2. UNCHANGED <<scenario, alive, itemStatus, requested, hung>>
  BY DEF Claim, PauseJob, WriteJob
<1>3. /\ p \in alive /\ pc[p][j] # "idle"
      /\ jobStatus[j] # "none" /\ j \notin stale
  BY <1>1 DEF Claim, PauseJob, WriteJob, RunInv, BusyRuns
<1>4. PICK s : /\ \/ UNCHANGED <<jobStatus, stale>> /\ s = jobStatus[j]
                  \/ jobStatus' = [jobStatus EXCEPT ![j] = s] /\ stale' = stale \ {j}
               /\ s \in {"PAUSED"} \cup Active \cup Finished
               /\ Priced(j, s, itemStatus)
               /\ RunInv(p, j)'
               /\ \A q \in Process, k \in Job : q # p \/ k # j => UNCHANGED Memory(q, k)
               /\ \A q \in Process : q # p /\ pc[q][j] \in Busy =>
                     \/ s \in {"RUNNING"} \cup Finished /\ pc'[p][j] \notin Busy
                     \/ pc[p][j] \in Busy
  <2>1. CASE Claim(p, j) /\ Claimable(j)
    <3>1. /\ pc' = [pc EXCEPT ![p][j] = "load"]
          /\ jobStatus' = [jobStatus EXCEPT ![j] = "RUNNING"]
          /\ stale' = stale \ {j}
          /\ UNCHANGED <<todo, cur, verdict>>
          /\ pc[p][j] = "claim"
      BY <2>1 DEF Claim, Claimed
    <3>2. \A q \in Process : pc[q][j] \notin Busy
      BY <1>1, <2>1 DEF Claimable, RunInv, BusyRuns, Finished
    <3>3. RunInv(p, j)'
      BY <1>1, <1>2, <1>3, <3>1 DEF RunInv, BusyRuns, ListIsQueued, CurrentIsRunning,
         VerdictIsTrue, OnItem, Listed, Busy
    <3>4. \A q \in Process, k \in Job : q # p \/ k # j => UNCHANGED Memory(q, k)
      BY <1>1, <3>1
    <3>5. Priced(j, "RUNNING", itemStatus)
      BY DEF Priced
    <3> QED
      BY <3>1, <3>2, <3>3, <3>4, <3>5 DEF Active
  <2>2. CASE Claim(p, j) /\ ~Claimable(j)
    <3>1. /\ pc' = [pc EXCEPT ![p][j] = "idle"]
          /\ UNCHANGED <<jobStatus, stale, todo, cur, verdict>>
          /\ pc[p][j] = "claim"
      BY <2>2 DEF Claim
    <3>2. RunInv(p, j)'
      BY <1>1, <1>2, <1>3, <3>1 DEF RunInv, BusyRuns, ListIsQueued, CurrentIsRunning,
         VerdictIsTrue, OnItem, Listed, Busy
    <3>3. \A q \in Process, k \in Job : q # p \/ k # j => UNCHANGED Memory(q, k)
      BY <1>1, <3>1
    <3>4. pc'[p][j] \notin Busy
      BY <1>1, <3>1 DEF OnItem, Listed, Busy
    <3>5. \A q \in Process : pc[q][j] \in Busy => jobStatus[j] \in {"RUNNING"} \cup Finished
      BY <1>1 DEF RunInv, BusyRuns
    <3> QED
      BY <1>1, <1>3, <3>1, <3>2, <3>3, <3>4, <3>5 DEF JobInv
  <2>3. CASE PauseJob(p, j)
    <3>1. /\ pc' = [pc EXCEPT ![p][j] = "reread"]
          /\ jobStatus' = [jobStatus EXCEPT ![j] = "PAUSED"]
          /\ stale' = stale \ {j}
          /\ UNCHANGED <<todo, cur, verdict>>
          /\ pc[p][j] = "pause"
      BY <2>3 DEF PauseJob
    <3>2. RunInv(p, j)'
      BY <1>1, <1>2, <1>3, <3>1 DEF RunInv, BusyRuns, ListIsQueued, CurrentIsRunning,
         VerdictIsTrue, OnItem, Listed, Busy
    <3>3. \A q \in Process, k \in Job : q # p \/ k # j => UNCHANGED Memory(q, k)
      BY <1>1, <3>1
    <3>4. Priced(j, "PAUSED", itemStatus) /\ pc[p][j] \in Busy
      BY <3>1 DEF Priced, Listed, Busy
    <3> QED
      BY <3>1, <3>2, <3>3, <3>4
  <2>4. CASE WriteJob(p, j)
    <3>1. /\ pc[p][j] \in {"write", "rewrite"}
          /\ jobStatus' = [jobStatus EXCEPT ![j] = verdict[p][j]]
          /\ stale' = stale \ {j}
      BY <2>4 DEF WriteJob
    <3>2. verdict[p][j] \in {"RUNNING"} \cup Finished /\ Priced(j, verdict[p][j], itemStatus)
      BY <1>1, <3>1 DEF RunInv, VerdictIsTrue
    <3>3. CASE pc[p][j] = "write"
      <4>1. /\ pc' = [pc EXCEPT ![p][j] = "loop"]
            /\ verdict' = [verdict EXCEPT ![p][j] = "none"]
            /\ UNCHANGED <<todo, cur>>
        BY <2>4, <3>3 DEF WriteJob
      <4>2. RunInv(p, j)'
        BY <1>1, <1>2, <1>3, <3>1, <3>2, <3>3, <4>1 DEF RunInv, BusyRuns, ListIsQueued,
           CurrentIsRunning, VerdictIsTrue, OnItem, Listed, Busy
      <4>3. \A q \in Process, k \in Job : q # p \/ k # j => UNCHANGED Memory(q, k)
        BY <1>1, <4>1
      <4> QED
        BY <3>1, <3>2, <3>3, <4>2, <4>3 DEF Active, Listed, Busy
    <3>4. CASE pc[p][j] = "rewrite"
      <4>1. pc' = [pc EXCEPT ![p][j] = "idle"] /\ Forget(p, j)
        BY <2>4, <3>4 DEF WriteJob
      <4>2. /\ pc'[p][j] = "idle" /\ cur'[p][j] = NoItem
            /\ \A q \in Process, k \in Job : q # p \/ k # j => UNCHANGED Memory(q, k)
        BY <1>1, <4>1 DEF Forget
      <4>3. RunInv(p, j)'
        BY <4>2 DEF RunInv, BusyRuns, ListIsQueued, CurrentIsRunning, VerdictIsTrue, OnItem,
           Listed, Busy
      <4> QED
        BY <3>1, <3>2, <4>2, <4>3 DEF Active, OnItem, Listed, Busy
    <3> QED
      BY <3>1, <3>3, <3>4
  <2> QED
    BY <2>1, <2>2, <2>3, <2>4
<1>5. /\ jobStatus'[j] = s
      /\ \A k \in Job : k # j => jobStatus'[k] = jobStatus[k] /\ (k \in stale' <=> k \in stale)
      /\ j \notin stale'
  BY <1>1, <1>3, <1>4
<1>6. AtJob(j)
  BY <1>2, <1>4, <1>5 DEF AtJob
<1>7. OneBusy(j)'
  BY <1>1, <1>4 DEF JobInv, OneBusy
<1>8. JobInv(j)'
  BY <1>1, <1>2, <1>3, <1>4, <1>5, <1>7 DEF JobInv, Active, Finished
<1>9. ASSUME NEW q \in Process PROVE RunInv(q, j)'
  <2>1. CASE q # p
    <3>1. UNCHANGED <<alive, Memory(q, j)>>
      BY <1>2, <1>4, <2>1
    <3>2. pc[q][j] \in Busy => jobStatus'[j] \in {"RUNNING"} \cup Finished
      BY <1>1, <1>4, <1>5, <2>1 DEF JobInv, OneBusy
    <3>3. jobStatus'[j] # "none" /\ j \notin stale'
      BY <1>4, <1>5 DEF Active, Finished
    <3> QED
      BY <1>2, <3>1, <3>2, <3>3, Bystander
  <2> QED
    BY <1>4, <2>1
<1> QED
  BY <1>6, <1>8, <1>9, Assemble
(* What users, polls and the clock do to a job.                              *)
LEMMA OutsideStep ==
    ASSUME Context, NEW j \in Job,
           \/ CreateBulkPricingJob(j) \/ TenMinutesPass(j) \/ ThirtyMinutesPass(j)
           \/ \E p \in Process :
                 Dispatch(p, j) \/ Reclaim(p, j) \/ ResumeBulkPricingJob(p, j)
    PROVE  /\ SheetInv'
           /\ \A i \in Item : itemStatus[i] \in Settled => itemStatus'[i] = itemStatus[i]
<1> USE BulkAssumption DEF BulkAssumption, jobVars, runVars, Move, Memory, SetJob
<1>1. /\ jobStatus \in [Job -> {"none", "PAUSED"} \cup Active \cup Finished]
      /\ alive \subseteq Process /\ stale \subseteq Job
      /\ pc \in [Process -> [Job -> Labels]]
      /\ itemStatus \in [Item -> Statuses]
      /\ JobInv(j) /\ \A q \in Process : RunInv(q, j)
  BY DEF Context, TypeInv, SheetInv
<1>2. CASE CreateBulkPricingJob(j)
  <2>1. /\ j \in requested /\ requested' = requested \ {j}
        /\ jobStatus' = [jobStatus EXCEPT ![j] = "QUEUED"]
        /\ stale' = stale \ {j}
        /\ \A i \in Item : itemStatus'[i] = IF JobOf[i] = j THEN "QUEUED" ELSE itemStatus[i]
        /\ UNCHANGED <<scenario, alive, pc, todo, cur, verdict, hung>>
    BY <1>2 DEF CreateBulkPricingJob
  <2>2. /\ jobStatus[j] = "none"
        /\ \A i \in ItemsOf(j) : itemStatus[i] = "none"
        /\ \A q \in Process : pc[q][j] = "idle"
    BY <1>1, <2>1 DEF JobInv, RunInv, BusyRuns
  <2>3. AtJob(j)
    BY <1>1, <2>1 DEF AtJob
  <2>4. JobInv(j)'
    BY <1>1, <2>1, <2>2 DEF JobInv, OneBusy, Priced, OnItem, Listed, Busy
  <2>5. \A q \in Process : RunInv(q, j)'
    BY <1>1, <2>1, <2>2 DEF RunInv, BusyRuns, ListIsQueued, CurrentIsRunning, VerdictIsTrue,
       OnItem, Listed, Busy
  <2>6. \A i \in Item : itemStatus[i] \in Settled => itemStatus'[i] = itemStatus[i]
    BY <2>1, <2>2 DEF ItemsOf, Settled
  <2> QED
    BY <2>3, <2>4, <2>5, <2>6, Assemble
<1>3. CASE TenMinutesPass(j)
  BY <1>3 DEF TenMinutesPass, Context, SheetInv, JobInv, OneBusy, RunInv, BusyRuns,
     ListIsQueued, CurrentIsRunning, VerdictIsTrue
<1>4. CASE ThirtyMinutesPass(j)
  <2>1. /\ jobStatus[j] = "RUNNING" /\ stale' = stale \cup {j}
        /\ \A p \in Process : ~AtWork(p, j)
        /\ UNCHANGED <<scenario, alive, jobStatus, itemStatus, pc, todo, cur, verdict,
                       requested, hung>>
    BY <1>4, NotMet DEF ThirtyMinutesPass, Context
  <2>2. \A p \in Process : pc[p][j] = "idle"
    BY <1>1, <2>1 DEF AtWork, RunInv, BusyRuns
  <2>3. AtJob(j)
    BY <2>1 DEF AtJob
  <2>4. JobInv(j)'
    BY <1>1, <2>1 DEF JobInv, OneBusy
  <2>5. \A q \in Process : RunInv(q, j)'
    BY <1>1, <2>1, <2>2 DEF RunInv, BusyRuns, ListIsQueued, CurrentIsRunning, VerdictIsTrue
  <2> QED
    BY <2>1, <2>3, <2>4, <2>5, Assemble
<1>5. ASSUME NEW p \in Process, Dispatch(p, j) PROVE SheetInv'
  <2>1. /\ p \in alive /\ pc[p][j] = "idle" /\ jobStatus[j] = "QUEUED"
        /\ pc' = [pc EXCEPT ![p][j] = "claim"]
        /\ UNCHANGED <<scenario, alive, jobStatus, stale, itemStatus, todo, cur, verdict,
                       requested, hung>>
    BY <1>5 DEF Dispatch
  <2>2. j \notin stale
    BY <1>1, <2>1 DEF JobInv
  <2>3. AtJob(j)
    BY <1>1, <2>1 DEF AtJob
  <2>4. \A q \in Process : pc'[q][j] = IF q = p THEN "claim" ELSE pc[q][j]
    BY <1>1, <2>1
  <2>5. JobInv(j)'
    BY <1>1, <2>1, <2>4 DEF JobInv, OneBusy, OnItem, Listed, Busy
  <2>6. \A q \in Process : RunInv(q, j)'
    BY <1>1, <2>1, <2>2, <2>4 DEF RunInv, BusyRuns, ListIsQueued, CurrentIsRunning,
       VerdictIsTrue, OnItem, Listed, Busy
  <2> QED
    BY <2>3, <2>5, <2>6, Assemble
<1>6. ASSUME NEW p \in Process, Reclaim(p, j)
      PROVE  /\ SheetInv'
             /\ \A i \in Item : itemStatus[i] \in Settled => itemStatus'[i] = itemStatus[i]
  <2>1. /\ jobStatus[j] = "RUNNING" /\ j \in stale
        /\ jobStatus' = [jobStatus EXCEPT ![j] = "QUEUED"]
        /\ stale' = stale \ {j}
        /\ itemStatus' = Reset(j)
        /\ UNCHANGED <<scenario, alive, pc, todo, cur, verdict, requested, hung>>
    BY <1>6 DEF Reclaim, Interrupted
  <2>2. \A q \in Process : pc[q][j] = "idle"
    BY <1>1, <2>1 DEF RunInv, BusyRuns
  <2>3. \A i \in Item : \/ itemStatus'[i] = itemStatus[i]
                        \/ JobOf[i] = j /\ itemStatus[i] = "RUNNING"
    BY <2>1 DEF Reset
  <2>4. AtJob(j)
    BY <1>1, <2>1, <2>3 DEF AtJob
  <2>5. JobInv(j)'
    BY <1>1, <2>1 DEF JobInv, OneBusy, Priced
  <2>6. \A q \in Process : RunInv(q, j)'
    BY <1>1, <2>1, <2>2 DEF RunInv, BusyRuns, ListIsQueued, CurrentIsRunning, VerdictIsTrue,
       OnItem, Listed, Busy
  <2>7. \A i \in Item : itemStatus[i] \in Settled => itemStatus'[i] = itemStatus[i]
    BY <2>3 DEF Settled
  <2> QED
    BY <2>4, <2>5, <2>6, <2>7, Assemble
<1>7. ASSUME NEW p \in Process, ResumeBulkPricingJob(p, j) PROVE SheetInv'
  <2>1. /\ p \in alive /\ jobStatus[j] = "PAUSED"
        /\ jobStatus' = [jobStatus EXCEPT ![j] = "QUEUED"]
        /\ stale' = stale \ {j}
        /\ UNCHANGED <<scenario, alive, itemStatus, todo, cur, verdict, requested, hung>>
    BY <1>7, NotMet DEF ResumeBulkPricingJob, Context
  <2>2. \A q \in Process : pc[q][j] \notin Busy
    BY <1>1, <2>1 DEF RunInv, BusyRuns, Finished
  <2>3. /\ \A q \in Process, k \in Job :
              pc'[q][k] = pc[q][k] \/ (k = j /\ q = p /\ pc[q][k] = "idle" /\ pc'[q][k] = "claim")
    <3>1. CASE pc[p][j] = "idle" /\ pc' = [pc EXCEPT ![p][j] = "claim"]
      BY <1>1, <3>1
    <3>2. CASE UNCHANGED pc
      BY <3>2
    <3> QED
      BY <1>7, <3>1, <3>2 DEF ResumeBulkPricingJob
  <2>4. AtJob(j)
    BY <1>1, <2>1, <2>3 DEF AtJob
  <2>5. JobInv(j)'
    BY <1>1, <2>1, <2>2, <2>3 DEF JobInv, OneBusy, Priced, OnItem, Listed, Busy
  <2>6. \A q \in Process : RunInv(q, j)'
    BY <1>1, <2>1, <2>2, <2>3 DEF RunInv, BusyRuns, ListIsQueued, CurrentIsRunning,
       VerdictIsTrue, OnItem, Listed, Busy
  <2> QED
    BY <2>4, <2>5, <2>6, Assemble
<1> QED
  BY <1>2, <1>3, <1>4, <1>5, <1>6, <1>7 DEF ThirtyMinutesPass, TenMinutesPass, Dispatch,
     ResumeBulkPricingJob

(* A request fails the jobs that expired: queued ones, at which nobody works.*)
LEMMA RequestStep ==
    ASSUME Context, NEW j \in Job, RequestJob(j)
    PROVE  SheetInv'
<1> USE DEF jobVars, runVars
<1>1. /\ jobStatus \in [Job -> {"none", "PAUSED"} \cup Active \cup Finished]
      /\ stale \subseteq Job
      /\ \A k \in Job : JobInv(k) /\ \A q \in Process : RunInv(q, k)
  BY DEF Context, TypeInv, SheetInv
<1>2. /\ jobStatus[j] = "none"
      /\ \A k \in Job : jobStatus'[k] = IF k \in Expired THEN "FAILED" ELSE jobStatus[k]
      /\ stale' \subseteq stale
      /\ requested' \subseteq requested \cup {j}
      /\ UNCHANGED <<scenario, alive, pc, todo, cur, verdict, itemStatus, hung>>
  BY DEF RequestJob
<1>3. \A k \in Expired : k \in Job /\ jobStatus[k] = "QUEUED"
  BY DEF Expired
<1>4. ASSUME NEW k \in Job PROVE JobInv(k)'
  BY <1>1, <1>2, <1>3 DEF JobInv, OneBusy, Priced
<1>5. ASSUME NEW k \in Job, NEW q \in Process PROVE RunInv(q, k)'
  BY <1>1, <1>2, <1>3 DEF RunInv, BusyRuns, ListIsQueued, CurrentIsRunning, VerdictIsTrue,
     Finished
<1> QED
  BY <1>4, <1>5 DEF SheetInv

LEMMA DeathStep ==
    ASSUME Context, NEW p \in Process, Die(p)
    PROVE  SheetInv'
<1> USE DEF jobVars
<1>1. /\ pc \in [Process -> [Job -> Labels]]
      /\ todo \in [Process -> [Job -> SUBSET Item]]
      /\ cur \in [Process -> [Job -> Item \cup {NoItem}]]
      /\ verdict \in [Process -> [Job -> {"none", "RUNNING"} \cup Finished]]
      /\ \A k \in Job : JobInv(k) /\ \A q \in Process : RunInv(q, k)
  BY DEF Context, TypeInv, SheetInv
<1>2. /\ alive' = alive \ {p}
      /\ \A k \in Job : pc'[p][k] = "idle" /\ cur'[p][k] = NoItem
      /\ \A q \in Process, k \in Job : q # p =>
            UNCHANGED <<pc[q][k], todo[q][k], cur[q][k], verdict[q][k]>>
      /\ UNCHANGED <<jobStatus, stale, itemStatus, requested, hung>>
  BY <1>1 DEF Die
<1>3. ASSUME NEW k \in Job PROVE JobInv(k)'
  <2>1. \A q \in Process : pc'[q][k] = pc[q][k] \/ pc'[q][k] \notin Busy
    BY <1>2 DEF OnItem, Listed, Busy
  <2>2. OneBusy(k)'
    BY <1>1, <2>1 DEF JobInv, OneBusy
  <2>3. Priced(k, jobStatus[k], itemStatus)' /\ UNCHANGED <<jobStatus, stale, requested, hung>>
    BY <1>1, <1>2 DEF JobInv
  <2> QED
    BY <1>1, <1>2, <2>2, <2>3 DEF JobInv
<1>4. ASSUME NEW k \in Job, NEW q \in Process PROVE RunInv(q, k)'
  <2>1. CASE q = p
    BY <1>2, <2>1 DEF RunInv, BusyRuns, ListIsQueued, CurrentIsRunning, VerdictIsTrue,
       OnItem, Listed, Busy
  <2>2. CASE q # p
    BY <1>1, <1>2, <2>2 DEF RunInv, BusyRuns, ListIsQueued, CurrentIsRunning, VerdictIsTrue
  <2> QED
    BY <2>1, <2>2
<1> QED
  BY <1>3, <1>4 DEF SheetInv

LEMMA SheetStep ==
    Context /\ [Next]_vars =>
        /\ SheetInv'
        /\ \A i \in Item : itemStatus[i] \in Settled => itemStatus'[i] = itemStatus[i]
<1> DEFINE Stay == \A i \in Item : itemStatus[i] \in Settled => itemStatus'[i] = itemStatus[i]
<1> SUFFICES ASSUME Context, [Next]_vars PROVE SheetInv' /\ Stay
  OBVIOUS
<1>1. ASSUME NEW p \in Process, NEW j \in Job, RunStep(p, j) PROVE SheetInv' /\ Stay
  <2>1. CASE StartItem(p, j) \/ WriteItem(p, j) \/ RequeueItem(p, j)
    BY <2>1, ItemStep
  <2>2. CASE Claim(p, j) \/ PauseJob(p, j) \/ WriteJob(p, j)
    BY <2>2, RowStep DEF Claim, PauseJob, WriteJob
  <2>3. CASE \/ LoadItems(p, j) \/ SearchAnswered(p, j) \/ SearchLimited(p, j)
             \/ ReadItems(p, j) \/ EndRun(p, j)
    BY <2>3, MemoryStep DEF LoadItems, SearchAnswered, SearchLimited, ReadItems, EndRun
  <2>4. ~FailJob(p, j)
    BY DEF FailJob, Context, SheetInv, RunInv, BusyRuns
  <2> QED
    BY <1>1, <2>1, <2>2, <2>3, <2>4 DEF RunStep
<1>2. ASSUME NEW j \in Job, CreateBulkPricingJob(j) \/ TenMinutesPass(j) \/ ThirtyMinutesPass(j)
      PROVE  SheetInv' /\ Stay
  BY <1>2, OutsideStep
<1>3. ASSUME NEW p \in Process, NEW j \in Job,
             Dispatch(p, j) \/ Reclaim(p, j) \/ ResumeBulkPricingJob(p, j)
      PROVE  SheetInv' /\ Stay
  BY <1>3, OutsideStep
<1>4. ASSUME NEW j \in Job, RequestJob(j) PROVE SheetInv' /\ Stay
  BY <1>4, RequestStep DEF RequestJob
<1>5. ASSUME NEW p \in Process, Die(p) PROVE SheetInv' /\ Stay
  BY <1>5, DeathStep DEF Die
<1>6. ~CancelStuck
  BY NotMet DEF CancelStuck, Context
<1>7. ASSUME NEW p \in Process, NEW j \in Job PROVE ~ClaimTimesOut(p, j) /\ ~DbError(p, j)
  BY NotMet DEF ClaimTimesOut, DbError, Context
<1>8. ASSUME NEW j \in Job PROVE ~HungClaimEnds(j)
  BY DEF HungClaimEnds, Context, SheetInv, JobInv
<1>9. CASE UNCHANGED vars
  <2>1. SheetInv'
    BY <1>9 DEF Context, SheetInv, vars, jobVars, runVars, JobInv, OneBusy, RunInv, BusyRuns,
       ListIsQueued, CurrentIsRunning, VerdictIsTrue
  <2> QED
    BY <1>9, <2>1 DEF vars
<1> QED
  BY <1>1, <1>2, <1>3, <1>4, <1>5, <1>6, <1>7, <1>8, <1>9 DEF Next

LEMMA SheetInvariant == Spec => [](Orderly => SheetInv)
<1>1. Init => SheetInv
  BY BulkAssumption DEF BulkAssumption, Init, SheetInv, JobInv, OneBusy, Priced, RunInv, BusyRuns,
     ListIsQueued, CurrentIsRunning, VerdictIsTrue, OnItem, Listed, Busy, ItemsOf
<1>2. TypeInv /\ (Orderly => SheetInv) /\ [Next]_vars => (Orderly => SheetInv)'
  <2>1. ASSUME [Next]_vars PROVE UNCHANGED scenario
    BY <2>1 DEF Next, vars, CancelStuck, RequestJob, CreateBulkPricingJob, TenMinutesPass,
       ThirtyMinutesPass, HungClaimEnds, ClaimTimesOut, Dispatch, Reclaim,
       ResumeBulkPricingJob, DbError, Die, RunStep, Claim, LoadItems, StartItem,
       SearchAnswered, WriteItem, ReadItems, WriteJob, RequeueItem, PauseJob, EndRun,
       FailJob, SearchLimited
  <2> QED
    BY <2>1, SheetStep DEF Context, Orderly
<1> QED
  BY <1>1, <1>2, TypeInvariant, PTL DEF Spec

\* With items faster than thirty minutes and resumes of paused jobs only, no two
\* processes have the same item in work: a job without an owner is not claimable
\* while a run of it is under way, through crashes, pauses and reclaims.
THEOREM OneRun == Spec => []OneRunPerItem
<1>1. TypeInv /\ SheetInv => \A p, q \in Process : p # q =>
                                \A j \in Job : cur[p][j] = NoItem \/ cur[p][j] # cur[q][j]
  BY BulkAssumption DEF BulkAssumption, SheetInv, JobInv, OneBusy, RunInv, CurrentIsRunning, Listed, Busy
<1>2. TypeInv /\ (Orderly => SheetInv) => OneRunPerItem
  BY <1>1 DEF OneRunPerItem
<1> QED
  BY <1>2, TypeInvariant, SheetInvariant, PTL

\* A job shown as COMPLETED or PARTIAL has a result for every item, and a COMPLETED
\* one no failure, although refreshes read and write in two statements, any of them
\* may come late, and none of them looks at who runs the job.
THEOREM DonePriced == Spec => []DoneMeansPriced
<1>1. (Orderly => SheetInv) => DoneMeansPriced
  BY DEF DoneMeansPriced, SheetInv, JobInv, Priced
<1> QED
  BY <1>1, SheetInvariant, PTL

\* A result is never overwritten: no pause, resume or reclaim takes a priced or a
\* failed item back to the queue.
THEOREM ResultsKept == Spec => ResultsStay
<1> DEFINE Stay == Orderly => \A i \in Item : itemStatus[i] \in Settled =>
                                                 itemStatus'[i] = itemStatus[i]
<1>1. TypeInv /\ (Orderly => SheetInv) /\ [Next]_vars => [Stay]_vars
  BY SheetStep DEF Context
<1>2. Spec => [][Stay]_vars
  BY <1>1, TypeInvariant, SheetInvariant, PTL DEF Spec
<1> QED
  BY <1>2 DEF ResultsStay
=============================================================================
