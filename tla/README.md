# TLA+ models of the eBay pricing and listing platform

This directory holds TLA+ specifications of the repository's job pipeline and of the
components around it, the TLC configurations that check them on small instances, and TLAPS proofs of the main
invariants. Paths are relative to the repository; file names without a directory are
under `apps/api/src/`. `PROJECT.json` lists the components, the runs, the line map
(definition to source lines), the hazards, the findings and the theorems.

1. [Inventory](#inventory)
2. [Modelling conventions](#modelling-conventions)
3. [The modules and the code](#the-modules-and-the-code)
4. [Runs](#runs)
5. [Proofs](#proofs)
6. [Where code and documents disagree](#where-code-and-documents-disagree)
7. [Not modelled](#not-modelled)
8. [Plan](#plan)

## Inventory

The platform is TypeScript over one PostgreSQL database: an HTTP API (`apps/api`), a
worker process (`apps/worker`) that runs the API package's job functions, and a web
client (`apps/web`). API processes and workers never talk to each other; they meet in
the rows. The API checks a request and writes rows that say there is work; workers
poll for such rows every few seconds, claim one with a conditional update and a lease,
call eBay item by item and write the results. Several workers may run, each start of
one makes a new instance id, and a job whose lease expired goes back to the queue.

### Components

| Component | State (rows, memory) | Operations | Talks to |
|---|---|---|---|
| Pricing jobs (`pricing-service.ts`) | PricingJob with status, lease and counters; PricingJobItem; listings and proposals; one active job per organization (unique index) | create, dispatch, claim, per item: search, store result or failure, renew, refresh; fail; reclaim; replay | dead letters, outbox, governance |
| Worker process (`apps/worker/src/worker.ts`, `worker-operations.ts`) | instance id, `activeJobs`, `pollInProgress`, `shuttingDown`; WorkerHeartbeat | start, poll, heartbeat (renews leases), drain and stop | every job service |
| Dead letters (`dead-letter-service.ts`) | DeadLetterEntry: OPEN, REQUEUED, RESOLVED | capture, resolve, replay by an administrator | pricing and fitment items |
| Outbox and notifications (`outbox-service.ts`, `notification-service.ts`) | OutboxEvent with attempts, lease and backoff; InAppNotification with its e-mail status | enqueue, claim, publish, acknowledge, fail; consume: upsert, e-mail, mark | every service that enqueues; e-mail provider |
| Idempotent commands (`idempotency-service.ts`) | IdempotencyRecord | reserve, replay, complete, release, expire | the POST routes that create jobs, drafts, offers |
| Fitment jobs (`fitment-service.ts`) | FitmentJob, FitmentJobItem, FitmentCandidate | as pricing jobs, and the approval of a candidate | dead letters, drafts |
| Sheet pricing (`bulk-pricing-service.ts`) | BulkPricingJob without owner or lease; items; `activeJobs` in memory | create, expire, claim, price, pause on 429, resume, cancel, recover | eBay search |
| Price governance (`pricing-governance-service.ts`) | PricingProposal and its decisions | propose, approve, reject, assert an approved price | drafts, offers |
| Listing drafts (`listing-draft-service.ts`, `listing-team-service.ts`) | ListingDraft with a version | edit, live validation, readiness, assignment | everything downstream by version |
| Inventory preparation and sync (`inventory-preparation-service.ts`, `ebay-inventory-sync-service.ts`) | a leased job per draft version | create, run, recover | eBay inventory |
| Offers and publication (`ebay-offer-service.ts`) | EbayOffer, EbayOfferJob | prepare, approve, publish, recover | eBay offers |
| Listing operations (`ebay-listing-operation-service.ts`) | EbayListingOperation, drift | revise, withdraw, reconcile | eBay listings |
| Manual fitment review (`manual-fitment-service.ts`) | applications, revisions, decisions | revise, decide, approve | drafts |
| Retention (`retention-service.ts`) | DataRetentionRun with mode, cutoffs, lease and result | create, claim, preview or apply, complete, fail, recover | deletes old rows of all the others |
| Sign-in, sessions, recovery (`auth.ts`, `auth-sessions.ts`, `account-auth-service.ts`) | sessions, refresh and reset tokens, challenges | rotate, revoke, reset, verify | organizations |
| Team and access (`organization-team-service.ts`) | memberships, invitations | invite, accept, change role, remove | authorization |
| Imports (`import-parser.ts`, `import-repository.ts`, and review) | imports, rows, resolutions | upload, resolve, commit | catalog |
| Media drive (`media-drive-service.ts`, `object-storage.ts`) | assets | grant, complete, delete | object store |
| Catalog, quick SKU, pipeline (`catalog-service.ts`, `quick-sku-service.ts`) | parts with a version, pipeline stage | edit, match, advance | pricing, drafts |
| Inventory and orders of the store (`ebay-inventory-management-service.ts`, `ebay-order-management-service.ts`) | cached listings and orders, stamped by the refresh that saw them | refresh, prune, edit | eBay |
| Seller connections (`ebay-seller-oauth.ts`, `ebay-resource-service.ts`) | EbayOAuthState; EbaySellerConnection with status, tokens and the organization's default (unique index); cached policies and locations | authorize, renew, choose the default, refresh resources, disconnect | eBay; drafts, store, publication |
| Pricing formula (`bulk-pricing-formula.ts`, and the web client's copy of it) | a sheet's formula; price and margin of its items | normalize, try, price, change a price by hand | sheet pricing, web client |
| Session of the web client (`apps/web/app/lib/auth-session.ts`, `AuthProvider.tsx`) | the browser's refresh cookie; per tab the access token, the refresh under way, reads under way and cached | open, refresh, request with one retry, read, write, sign out | auth routes; every page |
| Pure algorithms (`domain/`) | none | price statistics, matching score, titles | pricing, quick SKU |
| Providers (`providers/`) | none | HTTP calls | eBay, e-mail, vision |
| HTTP application, pages of the web client | none that the others read | routing, validation, pages | |

### What is hard, and what makes a component correct

* **Pricing jobs.** Hard: workers that die between two statements, leases that expire
  under a slow owner, replays racing a run, two jobs for one active slot, a refresh
  that reads and writes in two statements. Correct if nobody prices an item of a job
  somebody else owns, every failure is on the administrators' list, a replay ends with
  its item, a finished job is settled, and every item settles.
* **Worker.** Hard: shutdown while a poll or an item is under way. Correct if a
  draining process keeps its leases and what it drops is found by others.
* **Outbox.** Hard: at-least-once publishing with leases, overlapping polls of one
  process, partial delivery to several members. Correct if an acknowledged event was
  consumed, everybody was told, and every event is acknowledged or gives up.
* **Idempotency.** Hard: two requests at once, crashes, expiry while the command runs.
  Correct if a key performs its command once and replays only its own answer.
* **Fitment jobs.** Hard: reviewers act on items of a job at work, and refresh the job
  without owning it. Correct if a done job is reviewed and an approval is final.
* **Sheet pricing.** Hard: there is no owner, so pause, resume, cancellation, expiry
  and recovery all write the same row. Correct if items are priced once, results stay
  and no job waits for ever.
* **Publication chain.** Hard: remote state that answers late or not at all, versions
  that move on, approvals of content that changed. Correct if nothing is published
  that was not approved, no second listing is made, and a published offer is never
  reported as unpublished.
* **Accounts and team.** Hard: tokens used twice at once; the last owner leaving
  twice. Correct if a token works once and an organization keeps an owner.
* **Retention.** Hard: a lease that expires during a deletion. Correct if nothing
  outside the preview's rules is deleted and a run is recorded once.

* **Drafts, prices, compatibility.** Hard: a validation or an edit under way while a
  decision or a catalog change replaces what it rests on. Correct if a live draft rests on
  what is in force.
* **Imports.** Hard: a process that ends inside a batch, and retries. Correct if a row
  becomes one part.
* **The store's copies.** Hard: pages that shift under a refresh, sites that fail, two
  refreshes and edits behind them. Correct if a refresh leaves what eBay lists.
* **Seller connections.** Hard: renewals, refreshes and changes of the default that were
  under way when an account was disconnected; two first accounts at once. Correct if an
  authorization is used once, an organization with accounts has one default, and what a
  disconnection removes stays removed.

* **Pricing formula.** Hard: amounts rounded at every step, fees on what other fees leave,
  a formula tried on one row and used on others, a second implementation in the web
  client. Correct if a price earns what the formula aims at and both say the same.
* **Session of the web client.** Hard: tabs that share a cookie whose token works once,
  refreshes and a logout that overlap, reads that overtake writes. Correct if the
  tokens of a session, however often replaced, last until its user ends it and no longer,
  and no tab shows less than it has written.

The hazards, each at its line, are in `PROJECT.json`.

## Modelling conventions

* **One action per database statement or transaction.** A transaction is atomic:
  Prisma's transactions here only depend on rows they write or on conditional updates.
  A handler that checks, then calls out or opens a transaction, is two actions, and
  anybody may act in between. Waiting for eBay is the gap between two actions.
* **Faults are part of a behaviour's start.** `Outbox`, `Idempotency`, `FitmentJobs`,
  `BulkPricing` and `Publication` have a variable (`faults`, `env`, `scenario`) that the initial
  state takes from a set given by the configuration and no step changes. One run covers
  several environments, and a property that needs a good environment says which in
  its own statement instead of in a configuration. `PricingJobs` has constants instead.
* **A database error** may hit any statement of a runner and leads to the catch block
  the code has around it. In `PricingJobs` the statement may even have committed
  before its acknowledgement is lost (`After`).
* **Time** is a lease (or record, or row) that becomes `expired`. Without the fault
  that allows more, it expires only when nobody renews it any more.
* **Ids.** In `PricingJobs`, `BulkPricing` and `Idempotency` the items of a job, or
  the key of a request, are constants: a row that does not exist yet has status
  `none`, so this fixes names and no order of events. `FitmentJobs` chooses the items
  when the job is created.
* **Left out throughout**: audit rows, metrics and logging; outbox rows appended by
  other services (the outbox has its own module); the mode in which the API process
  runs jobs inline (`server.ts`; it calls the same runners), except where a recovery
  exists only there (`Imports`). What retention deletes is in `Retention`; of the other
  modules only `Idempotency` lets it take a row away (`Purge`).
* Operators commented `mutant` are plausible mistakes in the definition that follows
  them; they are used to confirm that each property can fail.

## The modules and the code

| Module | Models | Builds on |
|---|---|---|
| `PricingJobs` | pricing-service.ts, lease upkeep of worker-operations.ts, life of worker.ts, pricing half of dead-letter-service.ts | |
| `EventDelivery` | abstract: what the outbox promises | |
| `Outbox` | outbox-service.ts and consumeNotificationEvent | implements `EventDelivery` |
| `IdempotentCommand` | abstract: what a key promises | |
| `Idempotency` | executeIdempotent | implements `IdempotentCommand` |
| `FitmentJobs` | fitment-service.ts jobs and approvals, fitment half of dead-letter-service.ts | |
| `BulkPricing` | bulk-pricing-service.ts | |
| `Publication` | inventory-preparation-service.ts, ebay-inventory-sync-service.ts, ebay-offer-service.ts, ebay-listing-operation-service.ts, the versions of listing-draft-service.ts, and eBay's side of one listing | |
| `Accounts` | account-auth-service.ts, auth-sessions.ts, the refresh tokens of auth.ts | |
| `Team` | organization-team-service.ts, tenant-context.ts, issuing of tokens | |
| `Listings` | listing-draft-service.ts, pricing-governance-service.ts, manual-fitment-service.ts, the changes of catalog-service.ts and what they do to drafts | |
| `Imports` | import-repository.ts, import-review-service.ts, pipeline-service.ts | |
| `Retention` | retention-service.ts, its lease in worker-operations.ts | |
| `StoreCache` | ebay-inventory-management-service.ts, ebay-order-management-service.ts | |
| `Connections` | ebay-seller-oauth.ts, ebay-resource-service.ts | |
| `SheetFormula` | bulk-pricing-formula.ts and its use in bulk-pricing-service.ts, the web client's bulk-pricing-formula.ts | |
| `WebSession` | the web client's auth-session.ts and AuthProvider.tsx, and what auth-sessions.ts and the routes of app.ts do for them | |
| `BackOffice` | the nine modules above composed | all nine |
| `MC*` | the other instances TLC checks | the module of that name |
| `PricingJobs_proofs`, `Outbox_proofs`, `Idempotency_proofs`, `FitmentJobs_proofs`, `BulkPricing_proofs`, `Publication_proofs` | theorems | the module of that name |
| `BackOffice_proofs`, `WebClient_proofs` | theorems about the components of `BackOffice`; the second one about those that the web client has a part in, and the types of all | `OfficeSpec` |

**PricingJobs.** Each instance has an `inst` phase (`new`, `up`, `stopping`, `stopped`, `dead`)
and for each job a program counter through `runPricingJob`: claim (a conditional
update of a QUEUED job), load the QUEUED items, and for each item mark RUNNING, search
with retries, the result or failure transaction, the lease renewal, and
`refreshJobProgress` in two steps (read the items, write the job if still its owner).
`Dispatch` and `Reclaim` are what a poll does; a poll that began before a shutdown may
still dispatch, as in worker.ts. `CheckRequeue` and `Requeue` are the replay: its
checks, then its transaction. Dropped work of a shut-down process is found by
`Reclaim` when the lease has run out.

**Outbox.** A `Poll` is one call of `publishOutboxEvents`; `WorkerOf` maps several of
them to one worker, because a rejected `Promise.all` in worker.ts resets
`pollInProgress` while the batch goes on. For each event: claim with its attempt
count, the members by role, and for each member the upsert, the e-mail, the mark;
then the acknowledging or failing update, both conditional on the lease's owner.
`Wants` stands for the notification preferences. The refinement mapping takes an event as
delivered when every member of its audience has a notification and every e-mail wanted
was sent: `KeepsPromise` therefore says that an acknowledged event has reached everybody.

**Idempotency.** A request without a key runs the command directly. With a key it
looks for a record, answers or refuses from it, drops an expired one, reserves
(the unique key decides between two), executes, completes or releases. Expiry is a
step; `Purge` is retention's.

**FitmentJobs.** As `PricingJobs`, with a worker alive or dead, and with
`approveFitmentCandidate`: checks, call to eBay, transaction, and a refresh of the job
that does not own its lease.

**BulkPricing.** A process knows its own runs; a row untouched for thirty minutes is
interrupted. Claim with its thirty-second timeout, the item loop, the pause on a 429,
the unconditional refresh, resume in the API process, cancellation, expiry of stuck
jobs and creation without a lock are actions.

**Publication.** One draft, one offer row and what eBay holds for them: the version the
inventory item was written from (`item`), the state of the offer (`listing`) and the
version its price and quantity come from (`content`). A request is a check followed by
its writes: `CheckPreparation`, `UpsertOffer`, `QueueOfferJob`; `CheckPublication`,
`Approve`, `QueueOfferJob`; `CheckOperation`, `CreateOperationJob`. The six kinds of
jobs share claim, completion, failure and recovery, which the code repeats word for
word, and have an action per call to eBay and per transaction in between. A call that
changes something may take effect although it fails; where the code looks again after
such an error, `Recheck` does, and may fail itself. A version is a successful live
validation: an edit (or a validation that finds a blocker) leaves the draft without
one, which is all that the checks of `version`, `status` and `liveValidatedAt` tell
apart. Four history variables serve the properties: `mandate`, the version last approved
to be live; `adopted`, whether the row took over an offer made from another version;
`overtaken`, whether a request wrote although what it had checked no longer held
(`Preparable`, `Approvable`, `Operable`, asked again at the write); and `unheard`, whether
neither the last publication nor the second look at it was answered. A snapshot of eBay's
offer says whether it is live and whether it differs from the job's payload (`Snapshot`),
and a reconciliation records both (`ResolvedStatus`). The lease is
that of a living worker or has expired; late heartbeats are left to the modules above.

**Accounts.** One account, and requests that read, then write: register, ask for a link,
verify, sign in, complete a second factor, set up or disable it, recover, change the
password, rotate a refresh token, sign out. A request is `idle` or holds what it read
(`req`); links, challenges and sessions are rows with a state; `used` is the ghost that
counts what each one was good for. The variable `uses` says which operations the clients
of a behaviour use.

**Team.** Invitations by their state, memberships by an entry number (a person who is
removed and invited again has another membership). A request reads its actor
(`ReadActor`), then its target before the lock of the organization, then acts in the
transaction. `Issue` hands out tokens to a member checked earlier. The ghost `overtaken`
remembers that a member was changed whose role was no longer the one read.

**Listings.** The price, the compatibility, the catalog data and one draft. `Write` is the conditional
write of a version and its (unique) record, which the code repeats in each operation on a
draft; `Block` is what a catalog change or a decision on compatibility does to drafts
read before. `catalog` numbers the changes of the part and its photos and remembers the
last that blocks (`ChangeCatalog`); `ChangePart` is one that leaves the draft alone.
`topic` chooses whether a behaviour moves prices, compatibilities or such parts.

**Imports.** A sheet is staged, its archive matched, its matches corrected, the batch
confirmed and configured; `runPipelineJob` then works through the rows, in an API
process that may end at any step. `activeJobs` is that process's memory.

**Retention.** `Apply` is deletion and completion in one transaction, `Count` and
`Report` are a preview. A worker that dies, loses its lease or gets an error at any step
leaves the run to `Resume`, while it may itself still be at it (`stale`).

**StoreCache.** What eBay lists on each site, in an order that may change between two
pages, the copy of it, and the refreshes: start, fetch a page, save row by row, prune
what is outdated, next site. `kind` says whether the copy is that of listings or of
orders. `home` is the site a row was last seen on.

**Connections.** The authorizations begun, and a row for each seller account: the order
of its creation, status, default, its two tokens (`fresh` or `good`, `old`, `none`) and
whether policies are cached for it. What a request has read stays in `req` until it
writes: the count before the upsert, the account whose token is renewed, the two checks
before the default is changed, and whether the account to disconnect was the default.
The partial unique index on the default is part of `Save` and `Disconnect`. `bare` and
`raced` are ghosts: which accounts were disconnected, and which of them somebody was
using at that moment.

**SheetFormula.** A `sheet` is the formula somebody sent with the costs of its rows, an
`item` the price and margin stored for a row. The operators follow
`buildCalculationPlan`: sequential components change a total in cents, the fees become
affine functions of the price (`price` and `const`, in ten-thousandths), and the price is
what makes the rest equal the target. Sums are folds over the whole formula, to which what
the code filters out contributes nothing. Kinds of components that the code treats alike are
one kind. The operators from `ShownFormula` on are the web client's, and `Slack` is by how
much its profit may differ: a cent for each fee on eBay's payout, and that fee's percentage
of the half cent by which each of eBay's own fees is rounded.

**WebSession.** A request about the session or for data is sent, served and answered in
three steps, and the cookie is the one of the moment it was sent. `refresh` is `inflight`
of each tab, `leave` its logout, `call` the requests of `apiRequest`, which wait for a
token, are rejected once and repeated, or are lost. A new document (`Load`) loses what the
old one waited for. Tokens and writes are numbered. `out`, `raced` and `earlier` are
ghosts: the last thing a user did was to sign out; refreshes and logouts overlapped, or one
was lost; the tokens of earlier sessions that still counted at the last login.

**BackOffice.** The nine components meet in rows that the others only read (an
organization's members, a draft), so a behaviour follows one of them, its `scenario`;
no step belongs to two, and what the scenario leaves alone is absent.

## Runs

All passing runs end without error; `CHECK_DEADLOCK FALSE` is set because the systems
may stop: everything is done and nobody has to ask for more.

| Run | Instance | Environment | Checks |
|---|---|---|---|
| `replays` | 2 instances, 1 job, 1 item, 2 administrators, 1 attempt | slow heartbeats, failing statements with lost acknowledgements | `TypeOK`, `FailedItemsAreListed`, `RequeuedItemsArePending`, `CompletedItemsHaveEvidence` |
| `timely` | 2 instances (1 mortal), 2 jobs, 3 items of 2 parts, 1 administrator | timely heartbeats; the mortal one dies or shuts down at any step | `ExclusiveProcessing`, `FinishedJobsAreSettled`, `CompletedItemsPreserved`, `ItemsSettle` |
| `settled_crash` | 1 job, 1 item | the same without replays | violation of `JobsFinish` |
| `outbox` | 2 workers, 3 polls (2 in one worker), 1 event, 2 members, 2 attempts | four mixtures of failing e-mail, no provider, slow publishers, failing statements, crashes | `NoDuplicateEmail`, `KeepsPromise`, `EventsSettle` |
| `idem` | 4 requests, 1 key, 2 bodies; 2 of the requests mortal | with no fault, and with failing statements and slow commands | `TypeOK`, `AnswersAreBacked`, `OncePerKey`, `ReservationsSettle` |
| `fitment` | 2 workers (1 mortal), 2 jobs, 2 items, 1 reviewer, 1 administrator | five mixtures of reviews, replays, competing jobs, crashes, failing statements, slow heartbeats | `FailedItemsAreListed`, `ReviewsHaveCandidates`, `DoneMeansReviewed`, `ApprovalsAreFinal`, `ItemsSettle` |
| `bulk` | 2 workers and an API process, sheets of 2 and of 1 items | seven scenarios | `OneRunPerItem`, `DoneMeansPriced`, `ResultsStay`, `JobsSettle` |
| `bulk_pause` | a worker and an API process, 1 item | rate limits | violation of `PausedWaits` |
| `publication` | 2 workers (1 mortal, there only if there are crashes), 1 user and 1 visitor (there only if requests overlap), 2 versions, 2 operations (if `brief`, 1 version, and no operation is asked for once there is one) | six mixtures of operations, outsiders, failing calls, crashes, edits behind running jobs, overlapping requests | `LiveIsKnown`, `LiveAsApproved`, `RequestsResolve` |
| `publication_takeover` | the same | failing calls | violation of `OfferFullyReplaced` |
| `back_office` | two requests, workers, refreshes or tabs in each of eight components, and the sheets of 2,662 formulas, see below | the errors, crashes and expiries of each | `Types`, `WorksOnce`, `OwnerRemains`, `LiveMeansCurrent`, `OneDefault`, `DisconnectedIsBare`, `OnePartPerRow`, `AppliedIsReported`, `RefreshIsFaithful`, `RowsEarnTheirTarget`, `ShownIsStored`, `TokensLastTheirSession`, `CacheFollowsWrites` |
| `disconnect` | 1 request, 2 seller accounts | none | violation of `DisconnectRemoves` |

**Why the bounds are enough.** The races here are between two parties over one row:
two workers over a claim, a stale owner and a new one, an administrator or reviewer
and a runner. Two processes (one of which may die, so that something remains to make
progress) and one row cover each of them; two items show a job that is partly done,
when a status is a summary; two jobs show the competition for the active slot.
`MaxAttempts = 1` leaves the retry loop a single turn, which changes no row: a retry
happens inside one item, between two of its statements (the outbox, whose retry is a
new claim, has two attempts). In `replays` a single item is enough because its
properties speak of one item; the number of statement errors and replays is not
bounded. Symmetry is used only in `replays` and `back_office`, which have no liveness property and
whose instances and administrators, or actors and data, are alike. The bound on every set is that of its
constant; there are no other state constraints. `Publication` has two versions because
every mistake there is an older one in the place of a newer one, and two operations
because one of them must meet what another left; its `brief` behaviours have one of
each, which keeps crashes among operations, and hasty edits, within reach. A new operation
takes the first free row, since the rows are alike. The races of
requests are between two, so where they overlap (`overlaps`) there is a second user, once
with failing calls and two versions, once with operations. The requests of the two may
overlap there at every step; the properties claim nothing from the first write on a check
that no longer holds (`overtaken`), because such a write does do harm (see *Two users*
below). The run has 212,678 states.

In `back_office` every race is again between two parties over one row, so there are two
actors. The accounts have 2 time steps, 1 recovery code, 2 wrong passwords or codes
before a lock, 2 links, 1 challenge, 2 sessions, 1 set of codes and 2 resets, and six
sets of operations that clients use together; the team has 2 users and 2 invitations
of the second one; the drafts 3 versions, 2 revisions, 2 proposals, 2 applications and 2 catalog changes;
the sheet 2 rows and 1 crash; retention 2 runs, 2 rows and 2 faults; the store 2
refreshes, 2 entries, 2 sites, 4 starts on a site and 1 change at eBay, pages of one
entry, and all entries on the first site at the start; the connections 2 seller
accounts, 3 authorizations (so that one of the accounts can return) and 1 expiry, failure
or crash. The formulas are all sequences of 3 of the 11 components in `FormulaParts`, in
both versions, for one cheap and one dear row: three components are a fee, a fee on what
it leaves and a change of the total, in any order. Percentages and factors are small
enough for TLC's 32-bit integers and large enough for formulas that no price can meet and
for totals below zero. The browser has two tabs and no requests for data, or one tab and two
of them, with 4 refresh tokens (two sessions that are renewed, or one renewed thrice) and
1 write. `Types` is the conjunction of the modules' `TypeOK`, and `WorksOnce` that of
`Accounts!ProofsWorkOnce`, `Team!InvitationsAdmitOnce` and `Connections!StatesWorkOnce`,
which say the same of different rows.

**What the runs show.** `replays`: whatever expires, overlaps or fails, an item, its
dead letter, its evidence and the lease of its job agree. `timely`: when heartbeats
keep up, the lease protocol does what it is for. `outbox`: an acknowledgement comes
after delivery, and everybody in the audience has been told, under all faults; e-mails
repeat only where a fault hits between sending and recording. `idem`: a replayed
answer is always backed; without the two faults a key performs its command once.
`fitment`: failures are listed and candidates kept under all mixtures; a job reported
as done is reviewed (with reviews and crashes); an approval is final (where nothing is
replayed); items settle (with reviews or with replays, not both). `bulk`: with crashes
and rate limits items are priced once, results stay and all items get one; in the
disorderly scenarios jobs at least end. `publication`: without edits behind running
jobs (and without crashes among operations) what goes live or changes there is what was
approved last; while processes live, one lost answer leaves no listing live that its row
does not know of, and two leave a row that can be published again; an
operation is always resolved, whoever dies. All three hold with two users, whatever they ask for at the same time, until a request
writes on a check that is no longer true. `back_office`: whatever two requests,
workers or refreshes interleave, a link, code or refresh token that was shown works
once; an invitation admits one person and nobody after its revocation; an organization
keeps an owner as long as nobody is changed by a role no longer theirs; a live
draft rests on the compatibility in force and was validated after the last catalog change
that blocks drafts; an organization with seller accounts has one
default; tokens and policies of a disconnected account do not come back; a row of a sheet
becomes one part; what retention deletes it reports; the copy of a store is what eBay lists after a refresh that ran alone and undisturbed; the price
of a row brings the formula's target to within the rounding of its terms (half a cent
each), and the web client's margin is the stored one up to the rounding of the fees on
eBay's payout (`Slack`); where the tabs of a browser refresh one after the other, none is ever
refused, a logout leaves no token of the session it ends, and the cache of a tab includes
its writes.

**Fairness.** Every step of a live process is weakly fair: Node.js runs a ready
callback, and a poll comes back every few seconds (`setInterval` in worker.ts). Time
passes: leases, backoffs, the thirty minutes of a sheet. Every instance eventually
starts. The API finishes
a request it began, unless it dies. Nobody has to create, approve, replay, cancel, edit
or die. The modules of `back_office`
state no fairness: only their safety is checked. `BulkPricing` also needs
strong fairness of its successes, over all processes together: a rate limit and a
failing database do not last for ever (with weak fairness a run could be paused
endlessly), and weak fairness of the user who resumes a job that stays paused.

## Proofs

`tlapm` checks all proofs from nothing. They hold for any sets of instances, jobs,
items, parts, administrators, requests and keys, under the assumption named in each
module (types, a finite set of items for the counters, names that differ).

**PricingJobs_proofs**

* `TypeCorrect`. `TypeInv` adds `CurrentIsItem` to `TypeOK`: past the loop's start the
  runner's current item is an item, which the row updates need.
* `FailuresListed`, `ReplaysPending`, `CompletionsBacked` are proved together as
  `ItemInv`; each of the transactions that set an item's status touches the dead
  letter in the same step, and a replay deletes evidence only of an item it requeues.
  They hold whatever fails: no assumption on leases or errors is made.
* `LeaseHeld`: status, owner and lease move together, over all of `Next`.
* `OneInstancePerItem`, `Timely /\ Spec => []ExclusiveProcessing`. `ExclusiveProcessing`
  is not inductive: a lease might expire, or a replay take the job, under a runner.
  `WorkInv` adds what rules this out: a process whose heartbeat runs has live leases
  (`BeatingLeases`) and one whose heartbeat does not has idle runners; a runner inside
  an item owns its job, and what is left on its list is queued and, in the snapshot it
  computes the progress from, not settled, so it cannot finish the job early
  (`RunnerInv`); a replay that has passed its checks concerns a finished job
  (`ReplaysOfFinished`, for a single administrator); a job that was not created has no
  items in the queue (`NewJobsAreEmpty`).
* `FinishedAreSettled`, `Timely /\ Spec => []FinishedJobsAreSettled`, with failing
  statements too. The status is computed from a snapshot of the items, read in a step of
  its own: `SeenIsTrue` says that the snapshot is still true when the owner writes the job,
  and `OverIsAccounted` that what was written stays true afterwards, because only the
  owner of a RUNNING job moves items, and a replay, which moves one too, takes the job
  out of its final status. `StatusAccounts` and `SameCounts`
  do the counting, with the library's facts on cardinalities.
* `CompletedStay`, `Timely /\ ~DbErrors /\ Spec => CompletedItemsPreserved`, an action
  property. A runner sets an item back only from its list, which `WorkInv` keeps queued,
  and fails only the item it has set RUNNING (`CurrentIsRunning`); a replay requeues
  only items that are still FAILED (`ReplaysOfFailed`). `~DbErrors` is needed: a result
  that was committed and reported as an error is failed by the catch block.

**Outbox_proofs** (under `OutboxAssumption`)

* `OutboxDelivers`, `Spec => KeepsPromise`: the outbox implements `EventDelivery` under
  every mixture of faults. `PromiseInv` is what the mapping needs: an event that anybody
  has claimed was attempted (`Begun`), a row that says SENT was sent (`SentIsTrue`), and
  a poll that is past its consumption has served the audience it read, or the e-mail it
  still owes is the one it is about to send (`Served`). The proof corrected the model: an
  event for which nobody is to be notified (notification-service.ts:122) used to count as
  delivered as soon as it was enqueued; `Delivered` now asks for an attempt.
* `MailedOnce`, `Spec => []NoDuplicateEmail`. With failing e-mail as the only fault
  (`Calm`) a worker's polls do not overlap (`OnePoll`), the poll at an event holds its
  lease, which is live (`HoldersLive`), so no other is at it, and an e-mail that was sent
  is recorded as sent or is about to be by that poll (`MailsAreRecorded`); so
  `AlreadySent` tells the truth when the next attempt asks.

**Idempotency_proofs**

* `RequestTypes` and `AnswersBacked` from `BackedInv`: a record belongs to the request
  that made it, it is completed only by a request whose command took effect, and
  requests go through their steps in order. All faults are allowed.
* `KeyPerformsOnce`: the refinement, `Spec => OncePerKey`. `OrderInv` says that,
  without faults, a request between reservation and release holds the key's record and
  an expired record's request is over; with it each step maps to a step of
  `IdempotentCommand` or to a stutter. With faults the mapping is constant, as nothing
  is promised then.

**FitmentJobs_proofs** (under `FitmentAssumption`)

* `FailuresListed` and `CandidatesKept` from `ReviewInv`, with every fault allowed.
  `ChosenExist` adds the approval under way: it has checked that its candidate exists,
  and replays, which delete candidates, spare approved items only.
* `DoneIsReviewed` and `ApprovalsStay` from `OrderInv`, in environments of reviews and
  crashes: leases of live owners are live (`LeasesLive`), a runner owns its job or finds all
  its items settled (`RunnersOwn`), what it will start is still queued and what it is at is
  RUNNING (`RunnersHold`), so settled items stay settled; a status that a reviewer or a
  runner has computed and not yet written is therefore still true (`VerdictsStand`), and
  a job that is done has only final items (`DoneIsFinal`).

**BulkPricing_proofs** (under `BulkAssumption`)

* `OneRun`, `DonePriced` and `ResultsKept` from `SheetInv`, in the `Orderly` scenarios
  (crashes and rate limits). For each job (`JobInv`): at most one process is at work
  (`OneBusy`), and its status is justified by its items (`Priced`). For each run (`RunInv`):
  it is at work only on a job that is RUNNING or was finished by the late refresh of a
  paused run (`BusyRuns`), what it has left is queued (`ListIsQueued`), its item is RUNNING
  (`CurrentIsRunning`), and the status it is about to write is still true
  (`VerdictIsTrue`). Every step
  concerns one job: `OtherJobs` and `Bystander` show once that the rest is not disturbed.

**Publication_proofs** (under `PublicationAssumption`: at least one version, operations
and jobs with different names)

* `NoListingIsLost`, `Spec => []LiveIsKnown`, and `OnlyApprovedGoesLive`,
  `Spec => LiveAsApproved`, an action property, from one invariant, `PublicationInv`, which
  claims `Sound` in the environments of the two properties and while no request has been
  overtaken (`Scope`). Neither is inductive:
  what goes live was written from the row many steps, and several jobs, earlier.
  `Sound` says that a run owns its job (`Owned`, and lives where nobody dies, `Tended`),
  that a job at work is of the draft's current version (`Drafted`) and at most one of them
  an operation (`Operated`). What the row says of eBay's offer is then true, or the offer
  was adopted (`Offered`, `Faithful`), and the item is the synchronized version
  (`ItemSynced`); the row stays as a preparation or a publication found it (`Prepared`,
  `Published`), and what a request or a run relies on between two steps holds there
  (`Requested`, `Running`). One lemma per step of a run, and per step of a request.
* `LiveIsKnown` needs a second layer, `Known`, which is shown on top of the first: fees are
  there when they are approved (`Priced`); an approved offer that was not recorded as live
  is back at FEES_READY or queued (`Waiting`); and if the listing is there, the run of its
  publication has it in hand, or its calls were not answered (`Landed`). The step that
  matters is the failure of a publication: it may only be reached when a second look found
  no listing, or found no answer.
* Any number of users may ask at the same time. That a request still finds what it
  checked when it writes is not proved, for it is false (*Two users* below): the theorems
  say what holds as long as it does, and `Scope` is carried back from a step's end to its
  beginning (`ScopeStays`), so the step that overtakes is the first that is exempted.

**BackOffice_proofs** and **WebClient_proofs** (under `BackOfficeAssumption`: the founder
is a user; the rows of retention, the seller accounts and the entries of a store are
finitely many, the latter numbered; there is a site; the time steps are numbered from 1
and no step is a recovery code; bounds are numbers, that on revisions at least 1). Each
component's invariant is kept by its own steps; `ScenarioStays` and the lemmas `...Follows`
carry it over to the composition, `OfficeSpec`, whose properties the run checks.

* `OwnerStays` (Team): `OwnerRemains` is inductive. Whoever is admitted had no role, so no
  owner is replaced; and where the role read is still the member's, the check made under
  the lock tells the truth.
* `ProofsAreSpent` (Accounts, Team, Connections) is the action property `WorksOnce`, from
  `SpentInv`. `Unspent` says of every proof whether it would be accepted now or once it
  exists: a link or challenge that is not there yet or open, a session not issued yet or
  live, a step of a later reset or after the last one, a code of a later set or unused.
  Every step keeps what is spent spent, takes only what is unspent, and `UsedAreSpent` says
  that what has taken effect is spent. The exception of the property is `VisitsRead`:
  a request at a link or a challenge consumes it by its id whatever has become of it, but
  had read it before its first use. `AccountTypes` supplies the shapes of the rows. For
  Team only `Accept` changes a membership's id, so the shapes of the rows are enough; for
  Connections `StatesInv` adds that a request that exchanges its code has used its state.
* `DeletionsAreReported` (Retention) from `RunInv`. `AppliedIsReported` is not
  inductive: a worker at a run that is already COMPLETED would find nothing left,
  and report that nothing was deleted. `WorkersOwn` rules it out where no lease was lost
  under a live worker (`stale`): whoever is at a run owns it, and it is RUNNING.
  `WorkIsOfItsMode` keeps previews and deletions apart.
* `OneDefaultAlways` (Connections) from `DefaultInv`: `ReadWell` says what a request still
  knows when it writes (an account it read has a row for ever; one counted as not the first
  is not the first), and `DefaultsAgree` that no two accounts are the default and that one
  is, unless `taken`. An action is either one that keeps defaults and rows
  (`KeepsDefaults`, `QuietStep`) or one of `Save`, `UpdateDefaults`, `Disconnect`.
* `DisconnectedStaysBare` (Connections) adds `Unseen`: of an account disconnected while
  nobody used it, nobody holds a token; a refresh of its resources may be under way, but
  has found none.
* `RowsBecomeOnePart` (Imports) from `SheetInv`, for any number of rows, requests and
  crashes, with one API process (`OneProcess`; `activeJobs` excludes a second run of a
  batch in that process only). The part of a row is created in the transaction that
  completes it, so it is enough that no run is at a row that has its part
  (`RunsAtOpenRows`) and that no part is there before the run (`NothingDone`).
* `LiveDraftsAreCurrent` (Listings) from `DraftInv`: a validation and a decision both
  write long after they have read. `ValidationStands` says that what a validation has
  read is still in force, unless the draft has moved on, and then its conditional write
  writes nothing; `DecisionStands`, that a decision which does not know its application as
  approved finds it not approved, unless the application has moved on. So whoever changes
  what is in force blocks the draft in the same transaction, or finds none (`missed`).
* `AloneIsFaithful` (StoreCache) from `StoreInv`, for any number of sites, and entries that
  come in any order. `OnlyShown`: a row with the stamp of a refresh that runs alone is of
  an entry it was shown. `AllHeld`: if nothing left the site, an entry that was there from
  the start has that stamp once its page is behind the refresh. An entry that appears moves
  others to a later page and none to an earlier one (`PlacesGrow`), so none is skipped; and
  no page before the last is empty (`PagesAreFull`, a pigeonhole argument), so the refresh
  does not stop early.
* `SessionsEnd` (WebSession) from `SessionInv`, for any number of tabs and requests: as
  long as nothing overlapped, of the tokens issued since the last login only the last can
  count (`OneSession`, so a logout that revokes it leaves none of its session), at most one
  tab is busy (`OneBusyTab`), and it, or the browser when all rest, is in order
  (`TabInOrder`): the cookie is the last token and counts, or is
  none; a request on its way carries it; an answer under way is the last token; a logout
  that was served has revoked it. `TabStep` reduces a step to its own tab.
* `CacheIsCurrent` (WebSession) from `CacheInv`, with every kind of overlap and loss
  allowed: nothing is newer than the server, and a read that was answered is as new as the
  last write its tab has seen, or was under way when that write was answered (`Follows`).

* `TargetsAreEarned` (SheetFormula), `OfficeSpec => []RowsEarnTheirTarget`: for every formula,
  cost and typed price, of any size. The prover has no theorem on folds, and finds none by
  induction, so `FoldExists` and `FollowsFold` unfold a `FoldLeft` once into its partial sums,
  and `Induction` gets induction over a set of numbers from the least element of what is
  left (`Least`; a pigeonhole argument on finite sets). `TotalLeq`, `TotalLinear` and
  `TotalCounts` are then what every sum of amounts obeys, and `RoundsNear` bounds what
  rounding each of them adds. `Earned` is the arithmetic: the price was chosen so that
  what is left of it pays the total, the markup and the fees, and rounding `n` fees, the price
  and the target moves that by half a cent each (`PriceRounds`, `FeesNear`). `QuoteInv` is the
  inductive invariant: per row (`RowInv`), a price that was not typed is the formula's, the
  stored margin is that price's, and a row that failed was refused although the formula was
  tried on a cost that is no higher (`Cheapest`). `SumsGrow` shows why that is enough: a
  component of a `Sane` formula keeps the order of two totals, hence a formula accepted at the
  lowest cost is accepted at every other one.
* `MarginsAreShown` (SheetFormula), `OfficeSpec => []ShownIsStored`: `ReadsAlike` says that the
  two normalizations agree; fees that are not on the payout are the same to the cent
  (`OwnShown`); for one on the payout, the client's payout differs from the server's by half a
  cent for each of eBay's fees (`PayoutNear`), of which the fee takes its percentage
  (`RoundsWithin`, `FeesApart`). The proof corrected the property: a cent for each fee on
  the payout is enough for the percentages TLC tried, but not for a fee of several hundred
  per cent.
* `TypesHold` (all nine), `OfficeSpec => []Types`. The types are not inductive by themselves,
  because a request writes later what it has read: to the invariants above, `AccountFits`,
  `TeamFits`, `ListingFits`, `ImportFits`, `StoreFits`, `SellerFits` and `BrowserFits` add
  what a request holds at each of its steps and that what is counted keeps below its bound.
  So a decision about an application is taken only below the last revision (`EditFits`), and
  an approved one has a revision of at least 1 (`ApplicationsFit`), which makes a validated
  draft's record of the compatibility one (`CompatibilityFits`); a user's entry is never
  younger than the last invitation, and older while that is pending (`TeamFits`). `ImportFits`
  needs no assumption on the processes. The proof showed that the bound on revisions must
  not be 0 (`ListingsAssumption`): a created application has revision 1.

The inductive invariants above were checked by TLC as well, on the instances of the runs;
`RowsBecomeOnePart`'s also on three rows and two crashes.

**Only model-checked**: every liveness property (fairness is out of the prover's
reach). Every invariant and every action property of the runs is a theorem.

## Where code and documents disagree

Four runs show a disagreement; each is a finding in `PROJECT.json`.

* `settled_crash` (pricing-service.ts:317). `docs/MICROSERVICES_ARCHITECTURE.md:42`
  says interrupted jobs are returned to the queue and resumed. When a worker dies after
  the last item's result and before the refresh, the next owner finds no queued item,
  writes nothing, and the job stays RUNNING while its owner's heartbeats renew the
  lease. It then blocks every later pricing job of the organization.
* `bulk_pause` (bulk-pricing-service.ts:537). `PricingWorkspace.tsx:1628` offers the
  resume of a paused job only while it is PAUSED; the refresh after the pause writes
  RUNNING. The job waits until recovery finds it stale.
* `publication_takeover` (ebay-offer-service.ts:223). `EBAY_OFFER_PUBLICATION.md:9` says
  a preparation creates or fully replaces the unpublished offer with the current price
  and quantity. An offer found by SKU is taken over without an update: when the answer
  of `createOffer` is lost (or the worker dies before line 231) and the draft moves on,
  the next version's fees are shown and approved while eBay holds the older version.
  `LiveAsApproved` makes an exception for it (`adopted`).
* `disconnect` (ebay-seller-oauth.ts:395). `docs/EBAY_SELLER_OAUTH.md:56` says the
  request removes locally stored token material. When the account is the default and
  another one is active, the transaction makes that one the default while the
  disconnected row still is: the partial unique index
  (`EbaySellerConnection_one_default_per_organization`, created by the migration
  `20260813190000_add_multi_ebay_accounts`) refuses it and everything is rolled back.
  The tokens stay, and the account stays connected, until another default was chosen.

The models also exhibit the following; the properties name the conditions under which
they do not occur, and no run is spent on them.

* *A heartbeat stops before the work drains* (worker.ts:200; `WORKER_OPERATIONS.md:77`).
  With `DrainTimeout` a lease is lost while its process still works, and
  `ExclusiveProcessing` fails.
* *Two replays of one entry* (dead-letter-service.ts:82; `DELIVERY_SAFETY.md:61`). The
  checks come before the transaction, so the second one requeues an item the first
  one's run has completed: `CompletedItemsPreserved` fails with two administrators.
* *A completion is lost* (idempotency-service.ts:82; `DELIVERY_SAFETY.md:14,17`). The
  command has taken effect, the update that records its response fails, and the
  reservation is released as after a failure; a retry performs the command again.
* *The last attempt of an event* (outbox-service.ts:42; `DELIVERY_SAFETY.md:43`). A
  worker that dies during the last attempt leaves the event PROCESSING: expired leases
  are only claimed below the maximum. `EventsSettle` excludes crashes for this.
* *A review meets a replay* (fitment-service.ts:317, :140). The approval's refresh is
  not tied to the lease. Read before a replay and written after it, it finishes a job
  that has a queued item, which then nobody runs; written after another run finished
  the job, it revives it without work. A revived job is claimed again, a replay checked
  earlier requeues it under that claim, and the second of the two runs sets an item
  back that was approved in between (fitment-service.ts:149 updates by id).
  `ItemsSettle` and `ApprovalsAreFinal` leave the combination out.
* *Sheets* (bulk-pricing-service.ts:519, :340, :584). A crash between result and refresh
  leaves the job RUNNING with settled items and two processes alive; a cancellation is
  overwritten by the run's next refresh; a job created by a second request expires the
  first one under its run; the late refresh of a paused run overwrites the COMPLETED of
  the resumed one. `JobsSettle` and `DoneMeansPriced` state what remains.
* *A worker dies after publishing* (ebay-offer-service.ts:335). After the transaction
  that writes PUBLISHED, the requeued job is refused, and the catch block writes
  FEES_READY over it. `LiveIsKnown` excludes crashes. Publishing again while a
  reconciliation and then a withdrawal run can even undo the withdrawal:
  `LiveAsApproved` excludes crashes among operations.
* *Preparing again* (ebay-offer-service.ts:133). A second preparation of a version whose
  PREPARE job completed writes PREPARING and queues nothing: the offer stays so. A crash
  between lines 168 and 172 likewise leaves PUBLISH_QUEUED without a job.
* *A failed publication and an edit* (ebay-offer-service.ts:88). After an edit, publishing is
  refused with "The draft changed after fee preview; prepare the offer again" (:155). If an
  earlier publication of the offer was approved and failed, preparing it is refused too, with
  "This offer has a prior publication approval; retry or reconcile publication instead"
  (:88): the failure leaves `approvedAt` set, the retry is the request refused first, and
  a reconciliation wants an offer that was published. No request moves the offer on. If
  the failed publication took effect unheard (its answer and the second look's were lost),
  the live listing can no longer be recorded: `LiveIsKnown` then says that the row has kept
  its approval, its offer id and its fees, which is enough to publish again until somebody
  edits the draft, and not after that.
* *Edits behind running jobs*. A preparation that overlaps the next version's one writes
  its fees over a later status (line 235), and, repeated after a failed call, may put an
  older version into a listing that is live (line 220); a late inventory sync overwrites a
  newer one. `LiveAsApproved`, `LiveIsKnown` and the first half of `RequestsResolve` exclude
  such edits.
* *Two users* (ebay-offer-service.ts:89, ebay-listing-operation-service.ts:99). A preparation
  checked before a publication was approved and written after it replaces PUBLISH_QUEUED,
  or PUBLISHED, by PREPARING and takes the approval back; the listing is live and its row
  does not say so. Two operations whose checks both found none active are both created.
  An approval written after another one's publication was recorded leaves PUBLISH_QUEUED over
  PUBLISHED, and no job. The three properties claim nothing after that (`overtaken`), but
  that operations are resolved.
* *Live by the seller's hand*. When the answer of `publishOffer` is lost and the seller
  changes the listing and ends it before the job looks again, the next approved publication
  puts the seller's content live, which `LiveAsApproved` counts as the seller's doing.
* *The last owner* (organization-team-service.ts:350). `docs/ORGANIZATION_ONBOARDING.md:53`
  says the final owner cannot be demoted or removed. The role that the check trusts is
  read before the organization is locked: a member who became the only owner in between
  is demoted or removed as the member he was. `OwnerRemains` leaves this out (`overtaken`).
* *Seller connections*. A renewal that was under way when the account was disconnected
  makes it ACTIVE again with a new access token (`raced`). A change of the default that
  was to leave an account as no default, and whose check found another one to be it,
  leaves no default if the account became it meanwhile (`taken`). The only account keeps
  its default when it is disconnected, so that the next account saved is not the default
  and the organization has no usable one. A refresh of the resources that cannot reach
  eBay replaces the policies by nothing (providers/ebay-selling.ts turns errors into
  warnings), after which the account cannot be made the default.
* *Accounts*. Disabling or confirming the second factor resets the last time step, so a
  code can be accepted again within its thirty seconds (`COMPLETE_AUTHENTICATION.md`
  promises single use); two overlapping resets with one link both take effect
  (account-auth-service.ts:443 consumes it by id); a rotation under way outlives the
  revocation of all sessions. `ProofsWorkOnce` leaves these out.
* *Drafts*. A draft created while a decision on compatibility or a catalog change commits
  is not blocked (`missed`); the form for one part (`updateCatalogPart`,
  catalog-service.ts:639), a change of status, the pipeline's images, and linking or
  deleting a folder of photos (media-drive-service.ts) change the part or its photos
  under a draft and leave it live, while docs/CATALOG_OPERATIONS.md:59 wants "a catalog edit
  blocks an existing listing draft": `LiveMeansCurrent` speaks of the changes that block;
  two overlapping creations may leave two proposals standing; a revision may
  set a superseded application back to PENDING (manual-fitment-service.ts);
  pipeline-service.ts:411 writes a draft's issues without a version.
* *Imports*. `activeJobs` is the memory of one process: with two API processes that
  overlap a row may become two parts. A retry during the run leaves rows QUEUED in a
  batch that is COMPLETED. With `JOB_EXECUTION_MODE=worker` nothing calls
  `resumeInterruptedPipelineJobs`; only server.ts does, in inline mode.
* *The store*. A listing that moves to a page already fetched is pruned though it is
  live (`calm`); the refresh of all connections and that of one have different keys and
  may overlap, and the older one revives rows (`alone`).
* *Retention*. If a live worker loses its lease, the second one reports 0 over the first
  one's count (`stale`); an error swallowed by the catch clause leaves a run RUNNING
  while its worker lives and renews; two runs may be created at once.
* *Formulas* (bulk-pricing-service.ts:641). A sheet's formula is tried on its cheapest row.
  That is enough unless a component takes more than 100 % of the running total: then a
  row that costs nothing, or so little that the excess is rounded away, passes, and other
  rows fail (`Sane`). The web client rounds eBay's payout to cents before it
  takes the fees on it, the server does not. A price typed while the item is QUEUED is
  overwritten by the formula's when the item is processed.
* *The browser's session* (auth-session.ts:109, :139). Two tabs that refresh at once send
  one token, which works once: the second answer is refused and that tab goes to the
  login page. Any failure of a refresh, a lost answer or a rate limit included, does the
  same, although the cookie may still be good. A refresh or a poll under way at a logout
  brings a new token that the logout does not revoke; a logout that fails leaves the
  cookie, and the page says nothing. `TokensLastTheirSession` leaves these out (`raced`).
  A request that is rejected twice leads to the login page with the refresh token still
  good (:184), and the login that follows begins a session beside it: a logout then ends the
  later session only, and the token of the earlier one counts until it expires (`earlier`).
  A read under way when a write is answered is cached after it, for twenty seconds
  (`old` in `CacheFollowsWrites`); a write whose answer is lost clears nothing.

## Not modelled

* HTTP routing, validation, rate limits, health and metrics: no state others read.
* Providers: a call is a success, a failure or a lost answer at its call site.
* Price statistics and matching scores, import parsing, exports, titles and descriptions:
  data conversions without state.
* The pages of the web client: quoted where their texts promise behaviour.
* In the modelled components: counters of fitment and sheet jobs, category data, the
  applications an approval stores, market prices, a formula's shipping, tax and custom
  base (no sheet sets them), the WorkerHeartbeat row, permissions that
  override a role's, sheets with invalid rows.
* Quick SKU creation, the deletion of parts, and the media drive but for its effect on
  drafts. Two things seen there: an image is kept once by checksum, so it is listed in, and
  deleted with, the folder it first came from; and `linkMediaDriveFolderToPart`
  (media-drive-service.ts:506) links by the folder's part number, whatever part was chosen.

## Plan

Done, in this order: `PricingJobs` and its proofs; `EventDelivery` and `Outbox`;
`IdempotentCommand`, `Idempotency` and its proofs; `FitmentJobs`; `BulkPricing`;
`Publication`; `Accounts`, `Team`, `Listings`, `Imports`, `Retention`, `StoreCache` with
`BackOffice`; `Connections`; `SheetFormula`; `WebSession`; the proofs of the outbox's
refinement, of the fitment and sheet jobs, of the publication, and of the twelve invariants
and the action property of `BackOffice`.
