----------------------------- MODULE Publication -----------------------------
(* One listing on its way to eBay: the draft (listing-draft-service.ts), the  *)
(* leased jobs that stage and sync its inventory (inventory-preparation-      *)
(* service.ts, ebay-inventory-sync-service.ts), prepare and publish its offer *)
(* (ebay-offer-service.ts) and revise, withdraw or reconcile the published    *)
(* listing (ebay-listing-operation-service.ts), and what eBay holds.          *)
(* A version is a live validation: edits make a draft unready, and no version *)
(* that was never ready gets a job.  A payload is the version it was built    *)
(* from.  Price approval and missing images only refuse requests, which       *)
(* nobody has to make anyway; retries repeat a call with the same payload.    *)
EXTENDS Naturals

CONSTANTS
    Worker, NoWorker,
    Unreliable,     \* the workers that may die
    User,           \* requests at one time
    Visitor,        \* the users who are there only where requests overlap
    Op,             \* bound: EbayListingOperationJob rows, one of them if brief
    MaxVersion,     \* bound: live validations of the draft, one if brief
    Environments    \* the environments to consider, see env

Version    == 1..MaxVersion
VersionJob == {"STAGE", "SYNC", "PREPARE", "PUBLISH"} \X Version   \* unique per draft version
Job        == VersionJob \cup Op

ASSUME PublicationAssumption ==
    /\ Unreliable \subseteq Worker
    /\ Visitor \subseteq User
    /\ NoWorker \notin Worker
    /\ MaxVersion \in Nat \ {0}
    /\ Op \cap VersionJob = {}
    /\ Environments \subseteq SUBSET
          {"hastyEdits", "operations", "outsiders", "callErrors", "crashes", "overlaps", "brief"}

(* What a behaviour may meet, fixed from its start: edits while jobs are at   *)
(* work, operations on the published listing, sellers who change or end it on *)
(* eBay itself, calls to eBay that fail or lose their answer, processes that  *)
(* die, visitors.  "brief" is a bound: one version and one operation.         *)
VARIABLE env

VARIABLES
    version, ready,     \* ListingDraft: READY and live validated
    staged,             \* the versions with an EbayInventoryPreparation
    offer,              \* the EbayOffer row of the draft
    jobStatus, leaseOwner,      \* the rows of the six kinds of jobs
    opKind, opTarget,   \* action and targetDraftVersion of the operations
    mandate,            \* the version users last approved to be live, 0 for none
    item, listing, content,   \* eBay: inventory item, state and payload of the offer
    adopted,            \* history: the row took over an offer of another version
    alive, pc, payload, saw,  \* the workers and their runs
    asking, asked,      \* the request of each user and the version it checked
    overtaken,          \* history: a request wrote when what it had checked was no longer so
    unheard     \* history: the last publication and the second look at it got no answer

draftVars  == <<version, ready>>
jobVars    == <<jobStatus, leaseOwner, opKind, opTarget>>
remoteVars == <<item, listing, content, adopted, unheard>>
runVars    == <<pc, payload, saw>>
userVars   == <<asking, asked, overtaken>>
vars == <<env, draftVars, staged, offer, jobVars, mandate, remoteVars, alive, runVars, userVars>>

Foreign == MaxVersion + 1   \* a payload that came from no version

Active == {"QUEUED", "RUNNING"}

KindOf(j) == IF j \in Op THEN opKind[j] ELSE j[1]

Unseen == [active |-> FALSE, differs |-> FALSE]   \* a run without a snapshot of the offer

Init ==
    /\ env \in Environments
    /\ version = 0 /\ ready = FALSE /\ staged = {}
    /\ offer = [status |-> "none", version |-> 0, remoteId |-> FALSE, fees |-> FALSE,
                approved |-> FALSE, listed |-> FALSE, drift |-> FALSE]
    /\ jobStatus = [j \in Job |-> "none"]
    /\ leaseOwner = [j \in Job |-> NoWorker]
    /\ opKind = [o \in Op |-> "none"] /\ opTarget = [o \in Op |-> 0]
    /\ mandate = 0
    /\ item = 0 /\ listing = "none" /\ content = 0 /\ adopted = FALSE
    /\ unheard = FALSE /\ overtaken = FALSE
    /\ alive = IF env \cap {"crashes"} = {} THEN Worker \ Unreliable ELSE Worker
    /\ pc = [w \in Worker |-> [j \in Job |-> "idle"]]
    /\ payload = [w \in Worker |-> [j \in Job |-> 0]]
    /\ saw = [w \in Worker |-> [j \in Job |-> Unseen]]
    /\ asking = [u \in User |-> "idle"] /\ asked = [u \in User |-> 0]

-----------------------------------------------------------------------------
(* The draft.  An edit waits for the jobs and requests of the listing unless *)
(* its author is hasty; the code does not make anybody wait.                 *)
MayEdit ==
    \/ "hastyEdits" \in env
    \/ (\A j \in Job : jobStatus[j] \notin Active) /\ \A u \in User : asking[u] = "idle"

EditListingDraft ==
    /\ MayEdit
    /\ ready
    /\ ready' = FALSE
    /\ UNCHANGED <<env, version, staged, offer, jobVars, mandate, remoteVars, alive, runVars,
                   userVars>>

ValidateListingDraftLive ==
    /\ MayEdit
    /\ version < IF "brief" \in env THEN 1 ELSE MaxVersion
    /\ version' = version + 1
    /\ ready' = TRUE
    /\ UNCHANGED <<env, staged, offer, jobVars, mandate, remoteVars, alive, runVars, userVars>>

AnyVersion(v) == version # 0   \* mutant: the draft is not compared with the job
Current(v) == ready /\ version = v

-----------------------------------------------------------------------------
(* Requests.  Each of the upserts starts a new job or one that failed; a job *)
(* that completed is left as it is.                                          *)
Queue(j) ==
    jobStatus' = [jobStatus EXCEPT ![j] = IF @ \in {"none", "FAILED"} THEN "QUEUED" ELSE @]

CreateInventoryPreparationJob(u) ==
    /\ asking[u] = "idle"
    /\ ready
    /\ Queue(<<"STAGE", version>>)
    /\ UNCHANGED <<env, draftVars, staged, offer, leaseOwner, opKind, opTarget, mandate,
                   remoteVars, alive, runVars, userVars>>

CreateEbayInventorySyncJob(u) ==
    /\ asking[u] = "idle"
    /\ ready
    /\ version \in staged
    /\ Queue(<<"SYNC", version>>)
    /\ UNCHANGED <<env, draftVars, staged, offer, leaseOwner, opKind, opTarget, mandate,
                   remoteVars, alive, runVars, userVars>>

Ask(u, what, v) ==
    /\ asking' = [asking EXCEPT ![u] = what]
    /\ asked' = [asked EXCEPT ![u] = v]

Synced(v) == v \in Version /\ jobStatus[<<"SYNC", v>>] = "COMPLETED"

(* Another request may have written since the checks: no statement repeats    *)
(* them and no transaction holds the rows.                                   *)
Overtake(holds) == overtaken' = (overtaken \/ ~holds)

(* createOfferPreparationJob: checks, the offer, its job.                    *)
Preparable == ready /\ Synced(version) /\ offer.status # "PUBLISHED" /\ ~offer.approved

CheckPreparation(u) ==
    /\ asking[u] = "idle"
    /\ Preparable
    /\ Ask(u, "prepare", version)
    /\ UNCHANGED <<env, draftVars, staged, offer, jobVars, mandate, remoteVars, alive, runVars,
                   overtaken>>

UpsertOffer(u) ==
    /\ asking[u] = "prepare"
    /\ offer' = [offer EXCEPT !.status = "PREPARING", !.version = asked[u],
                              !.fees = FALSE, !.approved = FALSE]
    /\ Ask(u, "queuePrepare", asked[u])
    /\ Overtake(Preparable)
    /\ UNCHANGED <<env, draftVars, staged, jobVars, mandate, remoteVars, alive, runVars>>

(* createOfferPublishJob: checks, the approval, the job.                     *)
FeesReady == offer.status = "FEES_READY" /\ offer.remoteId /\ offer.fees
Approvable == FeesReady /\ Current(offer.version) /\ Synced(offer.version)

CheckPublication(u) ==
    /\ asking[u] = "idle"
    /\ Approvable
    /\ Ask(u, "publish", offer.version)
    /\ UNCHANGED <<env, draftVars, staged, offer, jobVars, mandate, remoteVars, alive, runVars,
                   overtaken>>

Approve(u) ==
    /\ asking[u] = "publish"
    /\ offer' = [offer EXCEPT !.status = "PUBLISH_QUEUED", !.approved = TRUE]
    /\ mandate' = asked[u]
    /\ Ask(u, "queuePublish", asked[u])
    /\ Overtake(Approvable)
    /\ UNCHANGED <<env, draftVars, staged, jobVars, remoteVars, alive, runVars>>

QueueOfferJob(u) ==
    /\ \/ asking[u] = "queuePrepare" /\ Queue(<<"PREPARE", asked[u]>>)
       \/ asking[u] = "queuePublish" /\ Queue(<<"PUBLISH", asked[u]>>)
    /\ Ask(u, "idle", 0)
    /\ UNCHANGED <<env, draftVars, staged, offer, leaseOwner, opKind, opTarget, mandate,
                   remoteVars, alive, runVars, overtaken>>

(* createRevisionJob, createWithdrawalJob and createReconciliationJob:       *)
(* checks, then a transaction.                                               *)
NoActiveOperation == \A o \in Op : jobStatus[o] \notin Active

Operable(kind) ==
    /\ offer.remoteId /\ offer.listed
    /\ NoActiveOperation
    /\ CASE kind = "REVISE"    -> /\ offer.status = "PUBLISHED"
                                  /\ ready /\ Synced(version) /\ version > offer.version
         [] kind = "WITHDRAW"  -> offer.status \in {"PUBLISHED", "DRIFTED"}
         [] kind = "RECONCILE" -> TRUE

CheckOperation(u) ==
    /\ "operations" \in env
    /\ asking[u] = "idle"
    /\ "brief" \in env => \A o \in Op : jobStatus[o] = "none"
    /\ \E kind \in {"REVISE", "WITHDRAW", "RECONCILE"} :
          Operable(kind) /\ Ask(u, kind, IF kind = "REVISE" THEN version ELSE offer.version)
    /\ UNCHANGED <<env, draftVars, staged, offer, jobVars, mandate, remoteVars, alive, runVars,
                   overtaken>>

CreateOperationJob(u) ==
    LET kind == asking[u] IN
    /\ kind \in {"REVISE", "WITHDRAW", "RECONCILE"}
    /\ \E o \in Op :
          /\ jobStatus[o] = "none"
          /\ o = CHOOSE free \in Op : jobStatus[free] = "none"   \* the rows are alike
          /\ jobStatus' = [jobStatus EXCEPT ![o] = "QUEUED"]
          /\ opKind' = [opKind EXCEPT ![o] = kind]
          /\ opTarget' = [opTarget EXCEPT ![o] = asked[u]]
    /\ CASE kind = "REVISE"    -> /\ offer' = [offer EXCEPT !.status = "REVISION_QUEUED"]
                                  /\ mandate' = asked[u]
         [] kind = "WITHDRAW"  -> /\ offer' = [offer EXCEPT !.status = "WITHDRAW_QUEUED"]
                                  /\ mandate' = 0
         [] kind = "RECONCILE" -> UNCHANGED <<offer, mandate>>
    /\ Ask(u, "idle", 0)
    /\ Overtake(Operable(kind))
    /\ UNCHANGED <<env, draftVars, staged, leaseOwner, remoteVars, alive, runVars>>

-----------------------------------------------------------------------------
(* The runs.  startQueued... and the claim of run...Job, one conditional     *)
(* update that only one worker's poll can win.                               *)
Claim(w, j) ==
    /\ w \in alive
    /\ pc[w][j] = "idle"
    /\ jobStatus[j] = "QUEUED"
    /\ jobStatus' = [jobStatus EXCEPT ![j] = "RUNNING"]
    /\ leaseOwner' = [leaseOwner EXCEPT ![j] = w]
    /\ pc' = [pc EXCEPT ![w][j] = "load"]
    /\ UNCHANGED <<env, draftVars, staged, offer, opKind, opTarget, mandate, remoteVars, alive,
                   payload, saw, userVars>>

At(w, j, label) == w \in alive /\ pc[w][j] = label
Go(w, j, label) == pc' = [pc EXCEPT ![w][j] = label]

(* A call that changes something at eBay: it may also seem to have failed.   *)
Called(w, j, next, failed) ==
    \/ Go(w, j, next)
    \/ "callErrors" \in env /\ Go(w, j, failed)

Publishable(v) ==
    /\ offer.remoteId /\ offer.status = "PUBLISH_QUEUED" /\ offer.approved
    /\ Current(v)

(* What a run reads before its first call to eBay, and its refusals.         *)
Load(w, j) ==
    LET kind == KindOf(j) IN
    /\ At(w, j, "load")
    /\ CASE kind = "STAGE"     -> Go(w, j, IF ~Current(j[2]) THEN "catch"
                                           ELSE IF j[2] \in staged THEN "complete" ELSE "stage")
         [] kind = "SYNC"      -> Go(w, j, IF Current(j[2]) THEN "putItem" ELSE "catch")
         [] kind = "PREPARE"   -> Go(w, j, IF offer.remoteId THEN "update" ELSE "find")
         [] kind = "PUBLISH"   -> Go(w, j, IF Publishable(offer.version) THEN "look" ELSE "catch")
         [] kind = "REVISE"    -> Go(w, j, IF Current(opTarget[j]) /\ Synced(opTarget[j])
                                           THEN "before" ELSE "catch")
         [] kind = "WITHDRAW"  -> Go(w, j, "peek")
         [] kind = "RECONCILE" -> Go(w, j, "peek")
    /\ payload' = [payload EXCEPT ![w][j] =
                       IF kind = "REVISE" THEN opTarget[j] ELSE offer.version]
    /\ UNCHANGED <<env, draftVars, staged, offer, jobVars, mandate, remoteVars, alive, saw,
                   userVars>>

(* The end of prepareInventoryItem; a second row of a version is refused.    *)
Stage(w, j) ==
    /\ At(w, j, "stage")
    /\ staged' = staged \cup {j[2]}
    /\ Go(w, j, IF j[2] \in staged THEN "catch" ELSE "complete")
    /\ UNCHANGED <<env, draftVars, offer, jobVars, mandate, remoteVars, alive, payload, saw,
                   userVars>>

(* putInventoryItem and replaceProductCompatibility; then the job is done,   *)
(* if it still is this worker's.                                             *)
PutItem(w, j) ==
    /\ At(w, j, "putItem")
    /\ item' = j[2]
    /\ Called(w, j, "complete", "catch")
    /\ UNCHANGED <<env, draftVars, staged, offer, jobVars, mandate, listing, content, adopted,
                   unheard, alive, payload, saw, userVars>>

-----------------------------------------------------------------------------
(* runPrepare.                                                               *)
UpdateOffer(w, j) ==
    /\ At(w, j, "update")
    /\ content' = payload[w][j] /\ adopted' = FALSE
    /\ Called(w, j, "fees", "catch")
    /\ UNCHANGED <<env, draftVars, staged, offer, jobVars, mandate, item, listing, unheard, alive,
                   payload, saw, userVars>>

FindOffer(w, j) ==
    /\ At(w, j, "find")
    /\ Go(w, j, IF listing = "unpublished" THEN "remember" ELSE "create")
    /\ UNCHANGED <<env, draftVars, staged, offer, jobVars, mandate, remoteVars, alive, payload,
                   saw, userVars>>

(* createOffer; eBay refuses a second offer of one SKU.                      *)
CreateOffer(w, j) ==
    /\ At(w, j, "create")
    /\ IF listing = "none"
       THEN /\ listing' = "unpublished"
            /\ content' = payload[w][j]
            /\ Called(w, j, "remember", "recheck")
       ELSE Go(w, j, "recheck") /\ UNCHANGED <<listing, content>>
    /\ UNCHANGED <<env, draftVars, staged, offer, jobVars, mandate, item, adopted, unheard, alive,
                   payload, saw, userVars>>

RememberOffer(w, j) ==
    /\ At(w, j, "remember")
    /\ offer' = [offer EXCEPT !.remoteId = TRUE]
    /\ adopted' = (content # payload[w][j])
    /\ Go(w, j, "fees")
    /\ UNCHANGED <<env, draftVars, staged, jobVars, mandate, item, listing, content, unheard,
                   alive, payload, saw, userVars>>

GetListingFees(w, j) ==
    /\ At(w, j, "fees")
    /\ Go(w, j, "record")
    /\ UNCHANGED <<env, draftVars, staged, offer, jobVars, mandate, remoteVars, alive, payload,
                   saw, userVars>>

RecordFees(w, j) ==
    /\ At(w, j, "record")
    /\ offer' = [offer EXCEPT !.status = "FEES_READY", !.fees = TRUE]
    /\ Go(w, j, "complete")
    /\ UNCHANGED <<env, draftVars, staged, jobVars, mandate, remoteVars, alive, payload, saw,
                   userVars>>

-----------------------------------------------------------------------------
(* runPublish.                                                               *)
LookForListing(w, j) ==
    /\ At(w, j, "look")
    /\ Go(w, j, IF listing = "active" THEN "published" ELSE "publish")
    /\ UNCHANGED <<env, draftVars, staged, offer, jobVars, mandate, remoteVars, alive, payload,
                   saw, userVars>>

PublishOffer(w, j) ==
    /\ At(w, j, "publish")
    /\ listing' = "active"
    /\ Called(w, j, "published", "recheck")
    /\ UNCHANGED <<env, draftVars, staged, offer, jobVars, mandate, item, content, adopted,
                   unheard, alive, payload, saw, userVars>>

RecordListing(w, j) ==
    /\ At(w, j, "published")
    /\ offer' = [offer EXCEPT !.status = "PUBLISHED", !.listed = TRUE]
    /\ unheard' = FALSE
    /\ Go(w, j, "complete")
    /\ UNCHANGED <<env, draftVars, staged, jobVars, mandate, item, listing, content, adopted,
                   alive, payload, saw, userVars>>

(* After an ambiguous error: did it take effect after all?                   *)
PresumeDone(j) ==   \* mutant: the second look is left out
    CASE KindOf(j) = "PREPARE"  -> "catch"
      [] KindOf(j) = "PUBLISH"  -> "catch"
      [] KindOf(j) = "WITHDRAW" -> "confirm"
AfterRecheck(j) ==
    CASE KindOf(j) = "PREPARE"  -> IF listing = "unpublished" THEN "remember" ELSE "catch"
      [] KindOf(j) = "PUBLISH"  -> IF listing = "active" THEN "published" ELSE "catch"
      [] KindOf(j) = "WITHDRAW" -> IF listing = "active" THEN "catch" ELSE "confirm"

Recheck(w, j) ==
    /\ At(w, j, "recheck")
    /\ Go(w, j, AfterRecheck(j))
    /\ UNCHANGED <<env, draftVars, staged, offer, jobVars, mandate, remoteVars, alive, payload,
                   saw, userVars>>

-----------------------------------------------------------------------------
(* runRevision.                                                              *)
LookBefore(w, j) ==
    /\ At(w, j, "before")
    /\ Go(w, j, IF listing = "active" THEN "revise" ELSE "catch")
    /\ UNCHANGED <<env, draftVars, staged, offer, jobVars, mandate, remoteVars, alive, payload,
                   saw, userVars>>

Revise(w, j) ==
    /\ At(w, j, "revise")
    /\ content' = payload[w][j] /\ adopted' = FALSE
    /\ Called(w, j, "after", "catch")
    /\ UNCHANGED <<env, draftVars, staged, offer, jobVars, mandate, item, listing, unheard, alive,
                   payload, saw, userVars>>

(* getOfferSnapshot and evaluateOfferDrift, against the payload of the job.   *)
See(w, j, snapshot) == saw' = [saw EXCEPT ![w][j] = snapshot]
Snapshot(w, j) == [active |-> listing = "active", differs |-> content # payload[w][j]]

LookAfter(w, j) ==
    /\ At(w, j, "after")
    /\ See(w, j, Snapshot(w, j))
    /\ Go(w, j, "revised")
    /\ UNCHANGED <<env, draftVars, staged, offer, jobVars, mandate, remoteVars, alive, payload,
                   userVars>>

RecordRevision(w, j) ==
    /\ At(w, j, "revised")
    /\ offer' = [offer EXCEPT !.status = IF saw[w][j].differs THEN "DRIFTED" ELSE "PUBLISHED",
                              !.version = payload[w][j], !.drift = saw[w][j].differs]
    /\ Go(w, j, "complete")
    /\ UNCHANGED <<env, draftVars, staged, jobVars, mandate, remoteVars, alive, payload, saw,
                   userVars>>

(* runWithdrawal and runReconcile begin with a snapshot of the offer.        *)
Peek(w, j) ==
    /\ At(w, j, "peek")
    /\ IF KindOf(j) = "WITHDRAW"
       THEN /\ Go(w, j, IF listing = "active" THEN "withdraw" ELSE "withdrawn")
            /\ UNCHANGED saw
       ELSE /\ See(w, j, Snapshot(w, j))
            /\ Go(w, j, "reconciled")
    /\ UNCHANGED <<env, draftVars, staged, offer, jobVars, mandate, remoteVars, alive, payload,
                   userVars>>

WithdrawOffer(w, j) ==
    /\ At(w, j, "withdraw")
    /\ listing' = "unpublished"
    /\ Called(w, j, "confirm", "recheck")
    /\ UNCHANGED <<env, draftVars, staged, offer, jobVars, mandate, item, content, adopted,
                   unheard, alive, payload, saw, userVars>>

Confirm(w, j) ==
    /\ At(w, j, "confirm")
    /\ Go(w, j, "withdrawn")
    /\ UNCHANGED <<env, draftVars, staged, offer, jobVars, mandate, remoteVars, alive, payload,
                   saw, userVars>>

RecordWithdrawal(w, j) ==
    /\ At(w, j, "withdrawn")
    /\ offer' = [offer EXCEPT !.status = "WITHDRAWN", !.drift = FALSE]
    /\ Go(w, j, "complete")
    /\ UNCHANGED <<env, draftVars, staged, jobVars, mandate, remoteVars, alive, payload, saw,
                   userVars>>

ResolvedStatus(seen) ==
    IF ~seen.active THEN "WITHDRAWN" ELSE IF seen.differs THEN "DRIFTED" ELSE "PUBLISHED"

PersistReconciliation(w, j) ==
    /\ At(w, j, "reconciled")
    /\ offer' = [offer EXCEPT !.status = ResolvedStatus(saw[w][j]), !.drift = saw[w][j].differs]
    /\ Go(w, j, "complete")
    /\ UNCHANGED <<env, draftVars, staged, jobVars, mandate, remoteVars, alive, payload, saw,
                   userVars>>

-----------------------------------------------------------------------------
Owns(w, j) == jobStatus[j] = "RUNNING" /\ leaseOwner[j] = w

Settle(w, j, status) ==
    IF Owns(w, j)
    THEN /\ jobStatus' = [jobStatus EXCEPT ![j] = status]
         /\ leaseOwner' = [leaseOwner EXCEPT ![j] = NoWorker]
         ELSE UNCHANGED <<jobStatus, leaseOwner>>

EndRun(w, j) ==
    /\ Go(w, j, "idle")
    /\ payload' = [payload EXCEPT ![w][j] = 0]
    /\ See(w, j, Unseen)

Complete(w, j) ==
    /\ At(w, j, "complete")
    /\ Settle(w, j, "COMPLETED")
    /\ EndRun(w, j)
    /\ UNCHANGED <<env, draftVars, staged, offer, opKind, opTarget, mandate, remoteVars, alive,
                   userVars>>

(* The catch blocks: the job if it is this worker's, the offer in any case.  *)
StatusAfterFailure(j) ==
    CASE KindOf(j) = "PREPARE"  -> "FAILED"
      [] KindOf(j) = "PUBLISH"  -> "FEES_READY"
      [] KindOf(j) = "REVISE"   -> "PUBLISHED"
      [] KindOf(j) = "WITHDRAW" -> IF offer.drift THEN "DRIFTED" ELSE "PUBLISHED"
      [] OTHER                  -> offer.status

Fail(w, j) ==
    /\ At(w, j, "catch")
    /\ Settle(w, j, "FAILED")
    /\ offer' = [offer EXCEPT !.status = StatusAfterFailure(j)]
    /\ EndRun(w, j)
    /\ UNCHANGED <<env, draftVars, staged, opKind, opTarget, mandate, remoteVars, alive,
                   userVars>>

(* A call that had no effect has failed for good; createOffer, publishOffer  *)
(* and withdrawOffer are looked up first.  If that look fails as well, a      *)
(* publication is taken to have failed whatever it did.                      *)
CallError(w, j) ==
    /\ "callErrors" \in env
    /\ w \in alive
    /\ \/ /\ pc[w][j] \in {"stage", "putItem", "update", "find", "fees", "look", "before",
                           "revise", "after", "peek", "confirm", "recheck"}
          /\ Go(w, j, "catch")
       \/ pc[w][j] \in {"create", "publish", "withdraw"} /\ Go(w, j, "recheck")
    /\ unheard' = (unheard \/ (/\ pc[w][j] = "recheck" /\ KindOf(j) = "PUBLISH"
                               /\ listing = "active"))
    /\ UNCHANGED <<env, draftVars, staged, offer, jobVars, mandate, item, listing, content,
                   adopted, alive, payload, saw, userVars>>

-----------------------------------------------------------------------------
(* Processes.  The lease of a worker that died expires; a live one renews in *)
(* time here (PricingJobs and FitmentJobs have the late ones).               *)
NeverReclaimed(j) == FALSE   \* mutant
Reclaimable(j) == jobStatus[j] = "RUNNING" /\ leaseOwner[j] \notin alive

Reclaim(w, j) ==
    /\ w \in alive
    /\ Reclaimable(j)
    /\ jobStatus' = [jobStatus EXCEPT ![j] = "QUEUED"]
    /\ leaseOwner' = [leaseOwner EXCEPT ![j] = NoWorker]
    /\ UNCHANGED <<env, draftVars, staged, offer, opKind, opTarget, mandate, remoteVars, alive,
                   runVars, userVars>>

Die(w) ==
    /\ "crashes" \in env
    /\ w \in Unreliable \cap alive
    /\ alive' = alive \ {w}
    /\ pc' = [pc EXCEPT ![w] = [j \in Job |-> "idle"]]
    /\ payload' = [payload EXCEPT ![w] = [j \in Job |-> 0]]
    /\ saw' = [saw EXCEPT ![w] = [j \in Job |-> Unseen]]
    /\ UNCHANGED <<env, draftVars, staged, offer, jobVars, mandate, remoteVars, userVars>>

(* The API process dies under a request, or its next statement fails.        *)
Abandon(u) ==
    /\ "crashes" \in env
    /\ asking[u] # "idle"
    /\ Ask(u, "idle", 0)
    /\ UNCHANGED <<env, draftVars, staged, offer, jobVars, mandate, remoteVars, alive, runVars,
                   overtaken>>

(* The seller changes or ends the listing on eBay.                           *)
Outsider ==
    /\ "outsiders" \in env
    /\ listing = "active"
    /\ \/ content' = Foreign /\ UNCHANGED listing
       \/ listing' = "unpublished" /\ UNCHANGED content
    /\ UNCHANGED <<env, draftVars, staged, offer, jobVars, mandate, item, adopted, unheard, alive,
                   runVars, userVars>>

-----------------------------------------------------------------------------
RunStep(w, j) ==
    /\ pc[w][j] # "idle"
    /\ \/ Load(w, j)           \/ Stage(w, j)         \/ PutItem(w, j)
       \/ UpdateOffer(w, j)    \/ FindOffer(w, j)     \/ CreateOffer(w, j)
       \/ RememberOffer(w, j)  \/ GetListingFees(w, j) \/ RecordFees(w, j)
       \/ LookForListing(w, j) \/ PublishOffer(w, j)  \/ RecordListing(w, j)
       \/ LookBefore(w, j)     \/ Revise(w, j)        \/ LookAfter(w, j)
       \/ RecordRevision(w, j) \/ Peek(w, j)          \/ WithdrawOffer(w, j)
       \/ Confirm(w, j)        \/ RecordWithdrawal(w, j)
       \/ PersistReconciliation(w, j)
       \/ Recheck(w, j)        \/ Complete(w, j)      \/ Fail(w, j)

Work(w, j) == Reclaim(w, j) \/ Claim(w, j) \/ RunStep(w, j)

Begin(u) ==
    /\ u \in Visitor => "overlaps" \in env
    /\ \/ CreateInventoryPreparationJob(u) \/ CreateEbayInventorySyncJob(u)
       \/ CheckPreparation(u) \/ CheckPublication(u) \/ CheckOperation(u)

Continue(u) == UpsertOffer(u) \/ Approve(u) \/ QueueOfferJob(u) \/ CreateOperationJob(u)

Next ==
    \/ EditListingDraft \/ ValidateListingDraftLive \/ Outsider
    \/ \E u \in User : Begin(u) \/ Continue(u) \/ Abandon(u)
    \/ \E w \in Worker, j \in Job :
          Work(w, j) \/ CallError(w, j)
    \/ \E w \in Worker : Die(w)

Spec == Init /\ [][Next]_vars

(* The live workers poll each kind of job and run what they claimed on their *)
(* own timers, so no job starves another; the API finishes its requests.     *)
Fairness ==
    /\ \A j \in Job : WF_vars(\E w \in Worker : Work(w, j))
    /\ \A u \in User : WF_vars(Continue(u))

FairSpec == Spec /\ Fairness

-----------------------------------------------------------------------------
\* Nothing goes live that users did not approve last: when a listing appears it shows
\* the version of the last approval (none once a withdrawal was requested), or what the
\* seller wrote into that offer, over the inventory synced for it, and its content
\* changes to that version only, or by the seller's own hand.  Requests may overlap as
\* long as none writes on a check that another made untrue (assertNoActiveOperation and
\* the checks of an offer stand before the statements they guard).  Not claimed of edits
\* behind running jobs, of an adopted offer (OfferFullyReplaced), nor of operations
\* that meet a crash.
LiveAsApproved ==
    [][("hastyEdits" \notin env /\ ~({"crashes", "operations"} \subseteq env) /\ ~overtaken) =>
         /\ listing # "active" /\ listing' = "active" =>
                (content \in {mandate, Foreign} \/ adopted) /\ item = mandate
         /\ listing = "active" /\ content' # content => content' \in {mandate, Foreign}]_vars

\* One lost answer loses no publication: a live listing is recorded as live or as being
\* operated on, or the run that published it is about to record it.  Only when the second
\* look (ebay-offer-service.ts:275) was not answered either does the row not know of it;
\* then it is back at FEES_READY with its approval, or queued again, and publishing it
\* again finds the listing, as long as the draft is not edited.
LiveIsKnown ==
    env \cap {"hastyEdits", "crashes"} = {} /\ ~overtaken /\ listing = "active" =>
        \/ offer.status \in {"PUBLISHED", "DRIFTED", "REVISION_QUEUED", "WITHDRAW_QUEUED"}
        \/ /\ offer.status = "PUBLISH_QUEUED"
           /\ \E w \in Worker : pc[w][<<"PUBLISH", offer.version>>] \in {"recheck", "published"}
        \/ /\ unheard /\ offer.approved
           /\ FeesReady \/ offer.status = "PUBLISH_QUEUED"

\* An approved publication, revision or withdrawal is resolved, as done or as failed,
\* whatever fails or dies.  A crash can leave a publication approved without a job, and so
\* can two preparations that overlap because the draft was edited behind the first, and an
\* approval that was overtaken by the publication of another.
RequestsResolve ==
    /\ env \cap {"hastyEdits", "crashes"} = {} =>
          (offer.status = "PUBLISH_QUEUED" ~> offer.status # "PUBLISH_QUEUED" \/ overtaken)
    /\ offer.status \in {"REVISION_QUEUED", "WITHDRAW_QUEUED"} ~>
          offer.status \notin {"REVISION_QUEUED", "WITHDRAW_QUEUED"}

\* Documented: preparation "creates or fully replaces an unpublished" offer, "uses the
\* current" price and payload (docs/EBAY_OFFER_PUBLICATION.md:9), so the offer whose fees
\* a user reviews is the one on eBay.  An offer found by its SKU is taken over as it is.
OfferFullyReplaced ==
    offer.status = "FEES_READY" /\ listing = "unpublished" => content = offer.version
=============================================================================
