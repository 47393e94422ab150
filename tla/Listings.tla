------------------------------- MODULE Listings -------------------------------
(* The listing draft of one part and one marketplace, its price proposals and *)
(* the compatibility and catalog data it rests on (listing-draft-service.ts,  *)
(* manual-fitment-service.ts, pricing-governance-service.ts, catalog-         *)
(* service.ts, and the approvals of fitment-service.ts).                      *)
(* Requests overlap: a transaction commits in one step, what it has read      *)
(* before may be out of date, and two writers are told apart by the versions  *)
(* they would write.                                                          *)
EXTENDS Naturals

CONSTANTS
    Request,
    Application,               \* FitmentApplication rows that may come to be
    MaxVersions, MaxRevisions, MaxProposals,  \* bounds
    Topics                     \* what changes beside the draft: "price", "fitment", "catalog"

ListingsAssumption ==
    /\ {MaxVersions, MaxProposals} \subseteq Nat /\ MaxRevisions \in Nat \ {0}
    /\ Topics \subseteq {"price", "fitment", "catalog"}

VARIABLES
    topic,      \* which of the topics a behaviour is about
    draft,      \* ListingDraft; version 0 is no draft yet
    proposal,   \* the latest PricingProposal; number 0 is none yet
    fitment,    \* FitmentApplication
    catalog,    \* changes of the part and its photos so far, and the last that blocks
    missed,     \* who would block the draft has not found it: it was created meanwhile
    work        \* what each request has read

vars == <<topic, draft, proposal, fitment, catalog, missed, work>>

InForce  == {"APPROVED", "OVERRIDDEN"}
Idle == [at |-> "idle"]

(* Compatibility is told apart by the applications in force and their         *)
(* revisions.                                                                *)
Approved == {a \in Application : fitment[a].status = "APPROVED"}
Compatibility == {<<a, fitment[a].revision>> : a \in Approved}

TypeOK ==
    /\ topic \in Topics
    /\ draft \in [version : 0 .. MaxVersions, status : {"none", "BLOCKED", "READY"}, live : BOOLEAN,
                  price : 0 .. MaxProposals, seen : SUBSET (Application \X (1 .. MaxRevisions)),
                  catalog : 0 .. MaxRevisions]
    /\ draft.version = 0 <=> draft.status = "none"
    /\ proposal \in [number : 0 .. MaxProposals,
                     status : {"none", "PENDING", "APPROVED", "OVERRIDDEN", "REJECTED"}]
    /\ fitment \in [Application -> [status   : {"none", "PENDING", "APPROVED", "REJECTED", "SUPERSEDED"},
                                    revision : 0 .. MaxRevisions, catalog : BOOLEAN]]
    /\ catalog \in [number : 0 .. MaxRevisions, blocking : 0 .. MaxRevisions]
    /\ missed \in BOOLEAN
    /\ \A r \in Request : work[r].at \in {"idle", "edit", "validate", "create", "write", "block", "fitment"}

Init ==
    /\ topic \in Topics
    /\ draft = [version |-> 0, status |-> "none", live |-> FALSE, price |-> 0, seen |-> {},
                catalog |-> 0]
    /\ proposal = [number |-> 0, status |-> "none"]
    /\ fitment = [a \in Application |-> [status |-> "none", revision |-> 0, catalog |-> FALSE]]
    /\ catalog = [number |-> 0, blocking |-> 0]
    /\ missed = FALSE
    /\ work = [r \in Request |-> Idle]

Begin(r, read) == work[r] = Idle /\ work' = [work EXCEPT ![r] = read]
Become(r, read) == work' = [work EXCEPT ![r] = read]
End(r) == Become(r, Idle)

-----------------------------------------------------------------------------
(* createPricingProposal: the proposal before is superseded and not looked at  *)
(* again; with a known floor and no approval required it is approved at once. *)
Propose ==
    /\ topic = "price"
    /\ proposal.number < MaxProposals
    /\ \E status \in {"PENDING", "APPROVED"} :
         proposal' = [number |-> proposal.number + 1, status |-> status]
    /\ UNCHANGED <<topic, draft, fitment, catalog, missed, work>>

(* decidePricingProposal: one conditional statement decides.                 *)
Decide ==
    /\ proposal.status = "PENDING"
    /\ \E status \in InForce \cup {"REJECTED"} : proposal' = [proposal EXCEPT !.status = status]
    /\ UNCHANGED <<topic, draft, fitment, catalog, missed, work>>

(* getApprovedPricingContext, and the proposal a new draft starts from.       *)
ApprovedPrice == IF proposal.status \in InForce THEN proposal.number ELSE 0
ProposedPrice == IF proposal.status \in InForce \cup {"PENDING"} THEN proposal.number ELSE 0

(* evaluateListingReadiness: the price is the approved one, and the rest is   *)
(* complete.                                                                 *)
Readiness(price, approval, complete) ==
    IF approval # 0 /\ price = approval /\ complete THEN "READY" ELSE "BLOCKED"

-----------------------------------------------------------------------------
(* The draft's next version, with its record (ListingDraftVersion), which is    *)
(* unique: who wrote from an old version writes nothing.                      *)
Write(version, status, price, live, seen, data) ==
    /\ draft.version = version
    /\ version < MaxVersions
    /\ draft' = [version |-> version + 1, status |-> status, live |-> live,
                 price |-> price, seen |-> seen, catalog |-> data]

LoseRace(version) == draft.version # version /\ UNCHANGED draft

(* updateListingDraft and bulkAssignListingDraftPolicies read the draft and   *)
(* the approval, and write on condition of the version.                       *)
ReadForEdit(r, price) ==
    /\ draft.version > 0
    /\ \E complete \in BOOLEAN :
         Begin(r, [at |-> "edit", version |-> draft.version, price |-> price,
                   status |-> Readiness(price, ApprovedPrice, complete)])
    /\ UNCHANGED <<topic, draft, proposal, fitment, catalog, missed>>

Edit(r) ==
    /\ work[r].at = "edit"
    /\ \/ Write(work[r].version, work[r].status, work[r].price, FALSE, {}, 0)
       \/ LoseRace(work[r].version)
    /\ End(r)
    /\ UNCHANGED <<topic, proposal, fitment, catalog, missed>>

(* validateListingDraftLive: eBay is asked in between.                       *)
ReadForValidation(r) ==
    /\ draft.version > 0
    /\ \E complete \in BOOLEAN :
         Begin(r, [at |-> "validate", version |-> draft.version, price |-> draft.price,
                   status |-> Readiness(draft.price, ApprovedPrice, complete),
                   seen |-> Compatibility, catalog |-> catalog.number])
    /\ UNCHANGED <<topic, draft, proposal, fitment, catalog, missed>>

Validate(r) ==
    /\ work[r].at = "validate"
    /\ \/ Write(work[r].version, work[r].status, work[r].price, TRUE, work[r].seen, work[r].catalog)
       \/ LoseRace(work[r].version)
    /\ End(r)
    /\ UNCHANGED <<topic, proposal, fitment, catalog, missed>>

(* createListingDrafts reads the part and its prices, and in a transaction    *)
(* the draft; a draft without the description template is written over.       *)
ReadPart(r) ==
    /\ \E complete \in BOOLEAN :
         Begin(r, [at |-> "create", price |-> ProposedPrice,
                   status |-> Readiness(ProposedPrice, ApprovedPrice, complete)])
    /\ UNCHANGED <<topic, draft, proposal, fitment, catalog, missed>>

ReadDraft(r) ==
    /\ work[r].at = "create"
    /\ \/ Become(r, [at |-> "write", version |-> draft.version, price |-> work[r].price,
                     status |-> work[r].status])
       \/ draft.version > 0 /\ End(r)
    /\ UNCHANGED <<topic, draft, proposal, fitment, catalog, missed>>

Create(r) ==
    /\ work[r].at = "write"
    /\ \/ Write(work[r].version, work[r].status, work[r].price, FALSE, {}, 0)
       \/ LoseRace(work[r].version)
    /\ End(r)
    /\ UNCHANGED <<topic, proposal, fitment, catalog, missed>>

-----------------------------------------------------------------------------
(* A transaction that blocks the draft finds it first: a draft that is not    *)
(* there yet is not blocked.                                                  *)
Block(version) ==
    \/ version > 0 /\ Write(version, "BLOCKED", draft.price, FALSE, {}, 0)
    \/ version = 0 /\ UNCHANGED draft

(* bulkUpdateCatalogParts, replaceCatalogPartMedia and appendCatalogPartMedia  *)
(* change the part or its photos and block the draft in one transaction.      *)
ReadForCatalog(r) ==
    /\ catalog.number < MaxRevisions
    /\ Begin(r, [at |-> "block", version |-> draft.version])
    /\ UNCHANGED <<topic, draft, proposal, fitment, catalog, missed>>

Changed(blocks) ==
    catalog' = [number |-> catalog.number + 1,
                blocking |-> IF blocks THEN catalog.number + 1 ELSE catalog.blocking]

ChangeCatalog(r) ==
    /\ work[r].at = "block"
    /\ \/ /\ catalog.number < MaxRevisions
          /\ Block(work[r].version)
          /\ Changed(TRUE)
          /\ missed' = (missed \/ (work[r].version = 0 /\ draft.version > 0))
       \/ /\ work[r].version > 0 /\ LoseRace(work[r].version)
          /\ UNCHANGED <<catalog, missed>>
    /\ End(r)
    /\ UNCHANGED <<topic, proposal, fitment>>

(* updateCatalogPart changes the part and leaves the draft alone; so do        *)
(* bulkUpdateCatalogStatus, linkFolderToPart and deleteMediaDriveFolder.      *)
ChangePart ==
    /\ topic = "catalog"
    /\ catalog.number < MaxRevisions
    /\ Changed(FALSE)
    /\ UNCHANGED <<topic, draft, proposal, fitment, missed, work>>

(* createManualFitment.                                                      *)
CreateApplication(a) ==
    /\ topic = "fitment"
    /\ fitment[a].status = "none"
    /\ fitment' = [fitment EXCEPT ![a] = [status |-> "PENDING", revision |-> 1, catalog |-> FALSE]]
    /\ UNCHANGED <<topic, draft, proposal, catalog, missed, work>>

(* decideManualFitment and reviseManualFitment read the application;          *)
(* approveFitmentCandidate will create one.                                   *)
Decision ==
    [new : {"APPROVED", "REJECTED"}, from : {"PENDING"}, replace : BOOLEAN]
        \cup [new : {"SUPERSEDED"}, from : {"APPROVED"}, replace : {FALSE}]
        \cup [new : {"PENDING"}, from : {"PENDING", "APPROVED", "REJECTED"}, replace : {FALSE}]
        \cup [new : {"APPROVED"}, from : {"none"}, replace : {TRUE}]

ReadApplication(r, a, d) ==
    /\ topic = "fitment"
    /\ fitment[a].status = d.from
    /\ d.new = "PENDING" => ~fitment[a].catalog
    /\ d.new = "REJECTED" => ~d.replace
    /\ fitment[a].revision < MaxRevisions
    /\ Begin(r, [at |-> "fitment", app |-> a, decision |-> d, revision |-> fitment[a].revision,
                 open |-> FALSE])
    /\ UNCHANGED <<topic, draft, proposal, fitment, catalog, missed>>

(* The transaction supersedes what is approved, and finds the draft.         *)
OpenDecision(r) ==
    /\ work[r].at = "fitment" /\ ~work[r].open
    /\ Become(r, [at |-> "fitment", app |-> work[r].app, decision |-> work[r].decision,
                  revision |-> work[r].revision, open |-> TRUE, version |-> draft.version,
                  replaced |-> IF work[r].decision.replace THEN Approved \ {work[r].app} ELSE {}])
    /\ UNCHANGED <<topic, draft, proposal, fitment, catalog, missed>>

(* Who removes from what is approved, or adds to it, blocks the draft.       *)
BlocksOnRemoval(d) == d.from = "APPROVED"   \* mutant: an approval does not block
Blocks(d) == d.new = "APPROVED" \/ d.from = "APPROVED"

(* (fitmentApplicationId, revision) is unique; replacing leaves the revision. *)
CommitDecision(r) ==
    LET w == work[r] IN
    /\ w.at = "fitment" /\ w.open
    /\ \/ /\ fitment[w.app].revision = w.revision
          /\ IF Blocks(w.decision) THEN Block(w.version) ELSE UNCHANGED draft
          /\ fitment' = [b \in Application |->
                IF b = w.app THEN [status |-> w.decision.new, revision |-> w.revision + 1,
                                   catalog |-> fitment[b].catalog \/ w.decision.from = "none"]
                ELSE IF b \in w.replaced \cap Approved THEN [fitment[b] EXCEPT !.status = "SUPERSEDED"]
                ELSE fitment[b]]
          /\ missed' = (missed \/ (Blocks(w.decision) /\ w.version = 0 /\ draft.version > 0))
       \/ /\ \/ fitment[w.app].revision # w.revision
             \/ Blocks(w.decision) /\ w.version > 0 /\ draft.version # w.version
          /\ UNCHANGED <<draft, fitment, missed>>
    /\ End(r)
    /\ UNCHANGED <<topic, proposal, catalog>>

Next ==
    \/ Propose \/ Decide \/ ChangePart
    \/ \E a \in Application : CreateApplication(a)
    \/ \E r \in Request :
        \/ \E price \in {0, draft.price, proposal.number} : ReadForEdit(r, price)
        \/ Edit(r) \/ ReadForValidation(r) \/ Validate(r)
        \/ ReadPart(r) \/ ReadDraft(r) \/ Create(r)
        \/ ReadForCatalog(r) \/ ChangeCatalog(r)
        \/ \E a \in Application, d \in Decision : ReadApplication(r, a, d)
        \/ OpenDecision(r) \/ CommitDecision(r)

Spec == Init /\ [][Next]_vars

-----------------------------------------------------------------------------
\* A draft that counts as validated was validated against the compatibility in force, and after
\* every change of the catalog that blocks drafts, unless one of them did not find the draft.
LiveMeansCurrent ==
    draft.live /\ ~missed => draft.seen = Compatibility /\ draft.catalog >= catalog.blocking
=============================================================================
