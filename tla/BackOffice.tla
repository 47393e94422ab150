------------------------------ MODULE BackOffice ------------------------------
(* The components around the job engines, each a specification of its own.     *)
(* They share no state: a behaviour follows one of them, by its scenario.      *)
EXTENDS Naturals

CONSTANTS
    Actor,      \* requests, workers, keys of a refresh or tabs
    Data,       \* vehicle applications, seller accounts, rows to delete or calls
    User, Founder, MaxInvitations,                                  \* of Team
    Step, RecoveryCode, MaxFailures, MaxAttempts, MaxLinks,         \* of Accounts
        MaxChallenges, MaxSessions, MaxSets, MaxResets, UseSets,
    MaxVersions, MaxRevisions, MaxProposals, Topics,                \* of Listings
    Process, ImportRows, MaxCrashes,                                \* of Imports
    Run, MaxFaults,                                                 \* of Retention
    Entry, Sites, MaxStarts, MaxChanges,                            \* of StoreCache
    MaxStates, MaxEvents,                                           \* of Connections
    PricedRow, Costs, Submissions, Edits,                           \* of SheetFormula
    Uses, MaxTokens, MaxWrites                                      \* of WebSession

VARIABLES
    scenario,
    uses, user, links, mfa, codes, challenges, issued, live, visit, used,
    role, entry, invitation, signedIn, req, overtaken,
    topic, draft, proposal, fitment, catalog, missed, edit,
    batch, row, parts, run, request, crashes,
    status, mode, owner, result, due, items, up, work, expired, deleted, stale, faults,
    kind, listed, cache, home, refresh, clock, changes,
    state, conn, asks, events, taken, bare, raced,
    sheet, item,
    use, tokens, minted, earlier, cookie, version, tab, renewal, leave, call, out, overlapped

account == <<uses, user, links, mfa, codes, challenges, issued, live, visit, used>>
team == <<role, entry, invitation, signedIn, req, overtaken>>
listing == <<topic, draft, proposal, fitment, catalog, missed, edit>>
import == <<batch, row, parts, run, request, crashes>>
retention ==
    <<status, mode, owner, result, due, items, up, work, expired, deleted, stale, faults>>
store == <<kind, listed, cache, home, refresh, clock, changes>>
seller == <<state, conn, asks, events, taken, bare, raced>>
quote == <<sheet, item>>
web ==
    <<use, tokens, minted, earlier, cookie, version, tab, renewal, leave, call, out, overlapped>>
officeVars == <<scenario, account, team, listing, import, retention, store, seller, quote, web>>

Account == INSTANCE Accounts WITH Request <- Actor, req <- visit

Members == INSTANCE Team WITH Request <- Actor

Drafts == INSTANCE Listings WITH Request <- Actor, Application <- Data, work <- edit

Sheet == INSTANCE Imports WITH Request <- Actor, Rows <- ImportRows

Cleanup == INSTANCE Retention WITH Worker <- Actor, Item <- Data

Store == INSTANCE StoreCache WITH Key <- Actor

Ebay == INSTANCE Connections WITH Request <- Actor, Seller <- Data, req <- asks

Formulas == INSTANCE SheetFormula WITH Row <- PricedRow

Browser == INSTANCE WebSession WITH
    Tab <- Actor, Call <- Data, refresh <- renewal, raced <- overlapped

ASSUME BackOfficeAssumption ==
    /\ Account!AccountsAssumption /\ Members!TeamAssumption /\ Drafts!ListingsAssumption
    /\ Sheet!ImportsAssumption /\ Cleanup!RetentionAssumption /\ Store!StoreCacheAssumption
    /\ Ebay!ConnectionsAssumption /\ Formulas!SheetFormulaAssumption
    /\ Browser!WebSessionAssumption

Scenario == {"account", "team", "listing", "import", "retention", "store", "seller", "quote",
             "web"}

(* What a scenario leaves alone is absent; the store starts with every entry   *)
(* on its first site.                                                          *)
OfficeInit ==
    /\ scenario \in Scenario
    /\ IF scenario = "account" THEN Account!Init
       ELSE /\ uses = "none" /\ user = "none" /\ links = "none" /\ mfa = "none"
            /\ codes = "none" /\ challenges = "none" /\ issued = "none" /\ live = "none"
            /\ visit = "none" /\ used = "none"
    /\ IF scenario = "team" THEN Members!Init
       ELSE /\ role = "none" /\ entry = "none" /\ invitation = "none" /\ signedIn = "none"
            /\ req = "none" /\ overtaken = "none"
    /\ IF scenario = "listing" THEN Drafts!Init
       ELSE /\ topic = "none" /\ draft = "none" /\ proposal = "none" /\ fitment = "none"
            /\ catalog = "none" /\ missed = "none" /\ edit = "none"
    /\ IF scenario = "import" THEN Sheet!Init
       ELSE /\ batch = "none" /\ row = "none" /\ parts = "none" /\ run = "none"
            /\ request = "none" /\ crashes = "none"
    /\ IF scenario = "retention" THEN Cleanup!Init
       ELSE /\ status = "none" /\ mode = "none" /\ owner = "none" /\ result = "none"
            /\ due = "none" /\ items = "none" /\ up = "none" /\ work = "none"
            /\ expired = "none" /\ deleted = "none" /\ stale = "none" /\ faults = "none"
    /\ IF scenario = "store" THEN Store!Init /\ listed[1] = Entry
       ELSE /\ kind = "none" /\ listed = "none" /\ cache = "none" /\ home = "none"
            /\ refresh = "none" /\ clock = "none" /\ changes = "none"
    /\ IF scenario = "seller" THEN Ebay!Init
       ELSE /\ state = "none" /\ conn = "none" /\ asks = "none" /\ events = "none"
            /\ taken = "none" /\ bare = "none" /\ raced = "none"
    /\ IF scenario = "quote" THEN Formulas!Init
       ELSE /\ sheet = "none" /\ item = "none"
    /\ IF scenario = "web" THEN Browser!Init
       ELSE /\ use = "none" /\ tokens = "none" /\ minted = "none" /\ earlier = "none"
            /\ cookie = "none" /\ version = "none" /\ tab = "none" /\ renewal = "none"
            /\ leave = "none" /\ call = "none" /\ out = "none" /\ overlapped = "none"

OfficeNext ==
    \/ scenario = "account" /\ Account!Next
        /\ UNCHANGED <<scenario, team, listing, import, retention, store, seller, quote, web>>
    \/ scenario = "team" /\ Members!Next
        /\ UNCHANGED <<scenario, account, listing, import, retention, store, seller, quote, web>>
    \/ scenario = "listing" /\ Drafts!Next
        /\ UNCHANGED <<scenario, account, team, import, retention, store, seller, quote, web>>
    \/ scenario = "import" /\ Sheet!Next
        /\ UNCHANGED <<scenario, account, team, listing, retention, store, seller, quote, web>>
    \/ scenario = "retention" /\ Cleanup!Next
        /\ UNCHANGED <<scenario, account, team, listing, import, store, seller, quote, web>>
    \/ scenario = "store" /\ Store!Next
        /\ UNCHANGED <<scenario, account, team, listing, import, retention, seller, quote, web>>
    \/ scenario = "seller" /\ Ebay!Next
        /\ UNCHANGED <<scenario, account, team, listing, import, retention, store, quote, web>>
    \/ scenario = "quote" /\ Formulas!Next
        /\ UNCHANGED <<scenario, account, team, listing, import, retention, store, seller, web>>
    \/ scenario = "web" /\ Browser!Next
        /\ UNCHANGED <<scenario, account, team, listing, import, retention, store, seller, quote>>

OfficeSpec == OfficeInit /\ [][OfficeNext]_officeVars

-----------------------------------------------------------------------------
\* The state of the component that a behaviour follows stays well formed.
Types ==
    /\ scenario = "account" => Account!TypeOK
    /\ scenario = "team" => Members!TypeOK
    /\ scenario = "listing" => Drafts!TypeOK
    /\ scenario = "import" => Sheet!TypeOK
    /\ scenario = "retention" => Cleanup!TypeOK
    /\ scenario = "store" => Store!TypeOK
    /\ scenario = "seller" => Ebay!TypeOK
    /\ scenario = "quote" => Formulas!TypeOK
    /\ scenario = "web" => Browser!TypeOK

\* Accounts, Team and Connections: links, codes, challenges and refresh tokens, invitations
\* and the states of authorizations work once.
WorksOnce == [][
    /\ scenario = "account" => Account!ProofsWorkOnce
    /\ scenario = "team" => Members!InvitationsAdmitOnce
    /\ scenario = "seller" => Ebay!StatesWorkOnce]_officeVars

\* Team: the organization keeps an owner.
OwnerRemains == scenario = "team" => Members!OwnerRemains

\* Connections: an organization with seller accounts has one default account.
OneDefault == scenario = "seller" => Ebay!OneDefault

\* Connections: what a disconnection removes stays removed.
DisconnectedIsBare == scenario = "seller" => Ebay!DisconnectedIsBare

\* Listings: a draft that is live rests on the compatibility in force,
\* and on every change of the catalog that blocks drafts.
LiveMeansCurrent == scenario = "listing" => Drafts!LiveMeansCurrent

\* Imports: a row of a sheet becomes one part.
OnePartPerRow == scenario = "import" => Sheet!OnePartPerRow

\* Retention: what a run deleted it reports, until a second worker takes it over.
AppliedIsReported == scenario = "retention" => Cleanup!AppliedIsReported

\* StoreCache: a refresh that ran alone leaves what eBay lists, and nothing else.
RefreshIsFaithful == scenario = "store" => Store!RefreshIsFaithful

\* SheetFormula: a formula that prices the cheapest row of a sheet prices every row, and its
\* prices bring the profit it aims at, up to rounding.
RowsEarnTheirTarget == scenario = "quote" => Formulas!RowsEarnTheirTarget

\* SheetFormula: the web client reads a formula as the server does and shows the margin that
\* is stored, up to what rounding eBay's fees changes in the fees on its payout.
ShownIsStored == scenario = "quote" => Formulas!ShownIsStored

\* WebSession: a token that the browser sends is not refused, and a logout leaves none of its
\* session, unless requests about it overlapped or were lost.
TokensLastTheirSession == scenario = "web" => Browser!TokensLastTheirSession

\* WebSession: what a tab has cached includes every write of it that was answered before.
CacheFollowsWrites == scenario = "web" => Browser!CacheFollowsWrites
=============================================================================
