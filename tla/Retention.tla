------------------------------- MODULE Retention -------------------------------
(* Data retention (retention-service.ts): a run deletes what is older than the *)
(* cutoffs frozen when it was created, or only counts it.  Workers run it      *)
(* under a lease that may expire while they are still at work.                 *)
EXTENDS Naturals, FiniteSets

CONSTANTS
    Worker,      \* worker processes, a restarted one being another
    Run,         \* retention runs, APPLY or PREVIEW
    Item,        \* notifications, snapshots, events and records that can be deleted
    MaxFaults    \* bound on errors, deaths of a worker and leases lost

RetentionAssumption == IsFiniteSet(Item) /\ MaxFaults \in Nat

VARIABLES
    status, mode, owner, result,   \* of each DataRetentionRun
    due,       \* the rows that fall under the cutoffs it was created with
    items,     \* the rows there are
    up,        \* the workers that are alive
    work,      \* runRetentionJob of each worker and run
    expired,   \* the runs whose leaseExpiresAt is in the past
    deleted,   \* ghost: the rows each run deleted
    stale,     \* ghost: the runs requeued while a live worker was at them
    faults

jobVars == <<status, mode, owner, result, due>>
vars == <<jobVars, items, up, work, expired, deleted, stale, faults>>

None == "none"
Status == {"none", "QUEUED", "RUNNING", "COMPLETED", "FAILED"}

TypeOK ==
    /\ status \in [Run -> Status]
    /\ mode \in [Run -> {"APPLY", "PREVIEW"}]
    /\ owner \in [Run -> Worker \cup {None}]
    /\ result \in [Run -> Nat]
    /\ due \in [Run -> SUBSET Item]
    /\ items \in SUBSET Item
    /\ up \in SUBSET Worker
    /\ work \in [Worker -> [Run -> {"idle", "running", "counted", "done"}]]
    /\ expired \in SUBSET Run
    /\ deleted \in [Run -> SUBSET Item]
    /\ stale \in SUBSET Run
    /\ faults \in 0 .. MaxFaults

Init ==
    /\ status = [r \in Run |-> "none"]
    /\ mode = [r \in Run |-> "PREVIEW"]
    /\ owner = [r \in Run |-> None]
    /\ result = [r \in Run |-> 0]
    /\ due = [r \in Run |-> {}]
    /\ items = Item
    /\ up = Worker
    /\ work = [w \in Worker |-> [r \in Run |-> "idle"]]
    /\ expired = {}
    /\ deleted = [r \in Run |-> {}]
    /\ stale = {}
    /\ faults = 0

Busy(w, r) == work[w][r] # "idle"
Go(w, r, at) == work' = [work EXCEPT ![w][r] = at] /\ UNCHANGED up

-----------------------------------------------------------------------------
(* createRetentionRun: its check for another active run and its insert are two *)
(* statements, so two runs may be active.  The policy of the moment decides     *)
(* which rows fall under the cutoffs; no row becomes older than a frozen cutoff. *)
Create(r, m) ==
    /\ status[r] = "none"
    /\ status' = [status EXCEPT ![r] = "QUEUED"]
    /\ mode' = [mode EXCEPT ![r] = m]
    /\ \E rows \in SUBSET Item : due' = [due EXCEPT ![r] = rows]
    /\ UNCHANGED <<owner, result, items, up, work, expired, deleted, stale, faults>>

(* runRetentionJob: activeRuns keeps a process from running a run twice.      *)
Claim(w, r) ==
    /\ w \in up /\ ~Busy(w, r)
    /\ status[r] = "QUEUED"
    /\ status' = [status EXCEPT ![r] = "RUNNING"]
    /\ owner' = [owner EXCEPT ![r] = w]
    /\ Go(w, r, "running")
    /\ expired' = expired \ {r}
    /\ UNCHANGED <<mode, result, due, items, deleted, stale, faults>>

(* completeRetentionRun writes by the run's id alone.                         *)
Complete(r, n) ==
    /\ status' = [status EXCEPT ![r] = "COMPLETED"]
    /\ owner' = [owner EXCEPT ![r] = None]
    /\ result' = [result EXCEPT ![r] = n]
    /\ UNCHANGED <<mode, due>>

(* applyRetention and completeRetentionRun in one transaction.               *)
Apply(w, r) ==
    /\ work[w][r] = "running" /\ mode[r] = "APPLY"
    /\ LET gone == items \cap due[r]
       IN /\ items' = items \ gone
          /\ deleted' = [deleted EXCEPT ![r] = @ \cup gone]
          /\ Complete(r, Cardinality(gone))
    /\ Go(w, r, "done")
    /\ UNCHANGED <<expired, stale, faults>>

(* previewCounts, then completeRetentionRun in a transaction of its own.     *)
Count(w, r) ==
    /\ work[w][r] = "running" /\ mode[r] = "PREVIEW"
    /\ Go(w, r, "counted")
    /\ UNCHANGED <<jobVars, items, expired, deleted, stale, faults>>

Report(w, r) ==
    /\ work[w][r] = "counted"
    /\ \E count \in 0 .. Cardinality(due[r]) : Complete(r, count)
    /\ Go(w, r, "done")
    /\ UNCHANGED <<items, expired, deleted, stale, faults>>

Return(w, r) ==
    /\ work[w][r] = "done"
    /\ Go(w, r, "idle")
    /\ UNCHANGED <<jobVars, items, expired, deleted, stale, faults>>

-----------------------------------------------------------------------------
Fault == faults < MaxFaults /\ faults' = faults + 1

FailsAnyRun(w, r) == TRUE   \* mutant: FAILED is written by the run's id alone
Fails(w, r) == status[r] = "RUNNING" /\ owner[r] = w

(* The catch clause, after an error of any step: of a statement that had no    *)
(* effect, or of a commit whose answer was lost.  Its own errors are swallowed. *)
Fail(w, r) ==
    /\ Busy(w, r) /\ Fault
    /\ \/ /\ Fails(w, r)
          /\ status' = [status EXCEPT ![r] = "FAILED"]
          /\ owner' = [owner EXCEPT ![r] = None]
       \/ UNCHANGED <<status, owner>>
    /\ Go(w, r, "idle")
    /\ UNCHANGED <<mode, result, due, items, expired, deleted, stale>>

(* The end of a worker's process: it renews no lease any more.               *)
Die(w) ==
    /\ w \in up /\ Fault
    /\ up' = up \ {w}
    /\ work' = [work EXCEPT ![w] = [r \in Run |-> "idle"]]
    /\ expired' = expired \cup {r \in Run : owner[r] = w}
    /\ UNCHANGED <<jobVars, items, deleted, stale>>

(* The renewals of a live worker came too late, or its clock is behind.      *)
LoseLease(r) ==
    /\ status[r] = "RUNNING" /\ r \notin expired /\ Fault
    /\ expired' = expired \cup {r}
    /\ UNCHANGED <<jobVars, items, up, work, deleted, stale>>

(* worker-operations.ts renews the leases of its own running rows.           *)
Renew(w) ==
    /\ w \in up
    /\ \E r \in expired : owner[r] = w
    /\ expired' = {r \in expired : owner[r] # w}
    /\ UNCHANGED <<jobVars, items, up, work, deleted, stale, faults>>

(* resumeInterruptedRetentionJobs: one statement, of every expired run.      *)
Lost == {r \in expired : status[r] = "RUNNING"}

Resume ==
    /\ up # {} /\ Lost # {}
    /\ status' = [r \in Run |-> IF r \in Lost THEN "QUEUED" ELSE status[r]]
    /\ owner' = [r \in Run |-> IF r \in Lost THEN None ELSE owner[r]]
    /\ expired' = expired \ Lost
    /\ stale' = stale \cup {r \in Lost : \E w \in Worker : work[w][r] \in {"running", "counted"}}
    /\ UNCHANGED <<mode, result, due, items, up, work, deleted, faults>>

-----------------------------------------------------------------------------
Next ==
    \/ \E r \in Run : \E m \in {"APPLY", "PREVIEW"} : Create(r, m)
    \/ \E w \in Worker, r \in Run :
        Claim(w, r) \/ Apply(w, r) \/ Count(w, r) \/ Report(w, r) \/ Return(w, r) \/ Fail(w, r)
    \/ \E w \in Worker : Die(w) \/ Renew(w)
    \/ \E r \in Run : LoseLease(r)
    \/ Resume

Spec == Init /\ [][Next]_vars

-----------------------------------------------------------------------------
\* What a run deleted it reports: the run that deleted rows stays COMPLETED, whatever
\* fails or is resumed afterwards and whoever else runs it, a preview deletes nothing,
\* and as long as no second worker took the run over from a live one, its result is
\* the number of the rows.
AppliedIsReported ==
    \A r \in Run :
        /\ deleted[r] # {} => status[r] = "COMPLETED" /\ mode[r] = "APPLY"
        /\ status[r] = "COMPLETED" /\ mode[r] = "APPLY" /\ r \notin stale
             => result[r] = Cardinality(deleted[r])
=============================================================================
