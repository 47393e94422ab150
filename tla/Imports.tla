-------------------------------- MODULE Imports --------------------------------
(* One spreadsheet import: its review, its confirmation as it is, and the      *)
(* pipeline that enriches its rows into catalog parts (import-repository.ts,   *)
(* import-review-service.ts, pipeline-service.ts).  The pipeline runs inside   *)
(* an API process and remembers in memory what it is running.                  *)
EXTENDS Naturals, FiniteSets

CONSTANTS
    Process,     \* API processes
    Request,     \* requests of users that may be under way
    Rows,        \* the number of rows, none of which names a SKU of its own
    MaxCrashes   \* bound on the crashes of processes

ImportsAssumption == Rows \in Nat \ {0} /\ MaxCrashes \in Nat

VARIABLES
    batch,     \* ImportBatch: status, whether it was configured, open images
    row,       \* ImportRow: stage, and whether committedPartId is set
    parts,     \* the number of parts created from each row
    run,       \* what each process runs: runPipelineJob
    request,   \* what each request has read
    crashes

vars == <<batch, row, parts, run, request, crashes>>

Row == 1 .. Rows
Off == [at |-> "off"]
Idle == [at |-> "idle"]

TypeOK ==
    /\ batch \in [status : {"none", "REVIEW_REQUIRED", "READY_TO_COMMIT", "COMMITTING", "COMPLETED"},
                  configured : BOOLEAN, archive : BOOLEAN, unresolved : 0 .. Rows,
                  failed : 0 .. Rows, processed : 0 .. Rows]
    /\ row \in [Row -> [stage : {"open", "FAILED", "COMPLETED"}, committed : BOOLEAN]]
    /\ parts \in [Row -> Nat]
    /\ \A p \in Process : run[p].at \in {"off", "begin", "next", "enrich", "attach", "finish"}
    /\ \A r \in Request : request[r].at \in {"idle", "start", "retry"}
    /\ crashes \in 0 .. MaxCrashes

Init ==
    /\ batch = [status |-> "none", configured |-> FALSE, archive |-> FALSE, unresolved |-> 0,
                failed |-> 0, processed |-> 0]
    /\ row = [x \in Row |-> [stage |-> "open", committed |-> FALSE]]
    /\ parts = [x \in Row |-> 0]
    /\ run = [p \in Process |-> Off]
    /\ request = [r \in Request |-> Idle]
    /\ crashes = 0

-----------------------------------------------------------------------------
(* stageParsedImport, of a sheet without invalid rows: other sheets are not   *)
(* taken further.                                                            *)
Stage ==
    /\ batch.status = "none"
    /\ batch' = [batch EXCEPT !.status = "READY_TO_COMMIT"]
    /\ UNCHANGED <<row, parts, run, request, crashes>>

Editable == batch.status \in {"REVIEW_REQUIRED", "READY_TO_COMMIT"}
StatusFor(unresolved) == IF unresolved = 0 THEN "READY_TO_COMMIT" ELSE "REVIEW_REQUIRED"

(* saveImageArchiveMappings, correctImportMediaMatch, discardImportMediaMatch: *)
(* transactions that hold the row of the batch.                               *)
SaveArchive ==
    /\ Editable /\ ~batch.archive
    /\ \E unresolved \in 0 .. Rows :
         batch' = [batch EXCEPT !.archive = TRUE, !.unresolved = unresolved,
                                !.status = StatusFor(unresolved)]
    /\ UNCHANGED <<row, parts, run, request, crashes>>

CorrectMatch ==
    /\ Editable /\ batch.archive
    /\ \E unresolved \in {batch.unresolved - 1, batch.unresolved + 1} \cap (0 .. Rows) :
         batch' = [batch EXCEPT !.unresolved = unresolved, !.status = StatusFor(unresolved)]
    /\ UNCHANGED <<row, parts, run, request, crashes>>

(* confirmImportBatch, under the same lock: every row becomes a part as it is. *)
CanConfirm == Editable /\ batch.unresolved = 0

Confirm ==
    /\ CanConfirm
    /\ batch' = [batch EXCEPT !.status = "COMPLETED"]
    /\ row' = [x \in Row |-> [row[x] EXCEPT !.committed = TRUE]]
    /\ parts' = [x \in Row |-> parts[x] + 1]
    /\ UNCHANGED <<run, request, crashes>>

-----------------------------------------------------------------------------
(* startPipelineJob and retryPipelineJob read the batch first; what they      *)
(* write does not depend on what has become of it.                            *)
ReadToStart(r) ==
    /\ request[r] = Idle
    /\ Editable \/ batch.status = "COMMITTING"
    /\ request' = [request EXCEPT ![r] = [at |-> "start"]]
    /\ UNCHANGED <<batch, row, parts, run, crashes>>

ReadToRetry(r) ==
    /\ request[r] = Idle
    /\ batch.configured
    /\ request' = [request EXCEPT ![r] = [at |-> "retry"]]
    /\ UNCHANGED <<batch, row, parts, run, crashes>>

(* runPipelineJob returns at once when its process is already at this batch.  *)
Runs(p) == run' = [run EXCEPT ![p] = IF @ = Off THEN [at |-> "begin"] ELSE @]

Start(r, p) ==
    /\ request[r].at = "start"
    /\ batch' = [batch EXCEPT !.status = "COMMITTING", !.configured = TRUE]
    /\ Runs(p)
    /\ request' = [request EXCEPT ![r] = Idle]
    /\ UNCHANGED <<row, parts, crashes>>

Retry(r, p) ==
    /\ request[r].at = "retry"
    /\ batch' = [batch EXCEPT !.status = "COMMITTING", !.failed = 0]
    /\ row' = [x \in Row |-> IF row[x].stage = "FAILED" THEN [row[x] EXCEPT !.stage = "open"] ELSE row[x]]
    /\ Runs(p)
    /\ request' = [request EXCEPT ![r] = Idle]
    /\ UNCHANGED <<parts, crashes>>

(* resumeInterruptedPipelineJobs, every minute.                              *)
Resume(p) ==
    /\ batch.status = "COMMITTING" /\ batch.configured
    /\ Runs(p)
    /\ UNCHANGED <<batch, row, parts, request, crashes>>

-----------------------------------------------------------------------------
Go(p, next) == run' = [run EXCEPT ![p] = next]

(* The rows to do are listed once.                                           *)
BeginRun(p) ==
    /\ run[p].at = "begin"
    /\ Go(p, IF batch.status = "COMMITTING"
             THEN [at |-> "next", todo |-> {x \in Row : row[x].stage = "open"}] ELSE Off)
    /\ UNCHANGED <<batch, row, parts, request, crashes>>

Least(set) == CHOOSE x \in set : \A y \in set : x <= y

(* processPipelineRow: a row that has its part is only marked.               *)
HasNoPart(x) == FALSE   \* mutant: committedPartId is not asked
HasPart(x) == row[x].committed

ReadRow(p) ==
    /\ run[p].at = "next" /\ run[p].todo # {}
    /\ LET x == Least(run[p].todo)
           rest == run[p].todo \ {x}
       IN IF HasPart(x)
          THEN /\ row' = [row EXCEPT ![x].stage = "COMPLETED"]
               /\ batch' = [batch EXCEPT !.processed = IF @ < Rows THEN @ + 1 ELSE @]
               /\ Go(p, [at |-> "next", todo |-> rest])
          ELSE /\ Go(p, [at |-> "enrich", row |-> x, todo |-> rest])
               /\ UNCHANGED <<batch, row>>
    /\ UNCHANGED <<parts, request, crashes>>

(* After the lookups the transaction creates the part by what was read.      *)
CommitRow(p) ==
    /\ run[p].at = "enrich"
    /\ row' = [row EXCEPT ![run[p].row] = [stage |-> "COMPLETED", committed |-> TRUE]]
    /\ parts' = [parts EXCEPT ![run[p].row] = @ + 1]
    /\ Go(p, [run[p] EXCEPT !.at = "attach"])
    /\ UNCHANGED <<batch, request, crashes>>

(* The images are attached and the row counted (the count stops here at the   *)
(* number of rows).                                                          *)
CountRow(p) ==
    /\ run[p].at = "attach"
    /\ batch' = [batch EXCEPT !.processed = IF @ < Rows THEN @ + 1 ELSE @]
    /\ Go(p, [at |-> "next", todo |-> run[p].todo])
    /\ UNCHANGED <<row, parts, request, crashes>>

(* Whatever fails, before or after the part was created, fails the row.      *)
FailRow(p) ==
    /\ run[p].at \in {"enrich", "attach"}
    /\ row' = [row EXCEPT ![run[p].row].stage = "FAILED"]
    /\ batch' = [batch EXCEPT !.failed = IF @ < Rows THEN @ + 1 ELSE @]
    /\ Go(p, [at |-> "next", todo |-> run[p].todo])
    /\ UNCHANGED <<parts, request, crashes>>

(* The stages are counted, and then the batch is completed.                  *)
Tally(p) ==
    /\ run[p].at = "next" /\ run[p].todo = {}
    /\ Go(p, [at |-> "finish", failed |-> Cardinality({x \in Row : row[x].stage = "FAILED"}),
              processed |-> Cardinality({x \in Row : row[x].stage = "COMPLETED"})])
    /\ UNCHANGED <<batch, row, parts, request, crashes>>

Finish(p) ==
    /\ run[p].at = "finish"
    /\ batch' = [batch EXCEPT !.status = "COMPLETED", !.failed = run[p].failed,
                              !.processed = run[p].processed]
    /\ Go(p, Off)
    /\ UNCHANGED <<row, parts, request, crashes>>

(* An error outside a row, or the end of the process.                        *)
Stop(p) ==
    /\ run[p] # Off
    /\ crashes < MaxCrashes
    /\ crashes' = crashes + 1
    /\ Go(p, Off)
    /\ UNCHANGED <<batch, row, parts, request>>

Next ==
    \/ Stage \/ SaveArchive \/ CorrectMatch \/ Confirm
    \/ \E r \in Request :
        \/ ReadToStart(r) \/ ReadToRetry(r)
        \/ \E p \in Process : Start(r, p) \/ Retry(r, p)
    \/ \E p \in Process :
        \/ Resume(p) \/ BeginRun(p) \/ ReadRow(p) \/ CommitRow(p) \/ CountRow(p)
        \/ FailRow(p) \/ Tally(p) \/ Finish(p) \/ Stop(p)

Spec == Init /\ [][Next]_vars

-----------------------------------------------------------------------------
\* However starts, retries, recoveries and confirmations overlap, and whatever fails, a
\* row becomes one part, and the row that says it has a part has one.
OnePartPerRow == \A x \in Row : parts[x] = IF row[x].committed THEN 1 ELSE 0
=============================================================================
