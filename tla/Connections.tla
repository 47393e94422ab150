------------------------------ MODULE Connections ------------------------------
(* The eBay seller accounts of an organization (ebay-seller-oauth.ts) and the     *)
(* policies and locations kept of each (ebay-resource-service.ts).  Requests and  *)
(* jobs overlap; what they read first may be out of date when they write.  A      *)
(* request that names no account takes one of those it might have named.         *)
EXTENDS Naturals, FiniteSets

CONSTANTS
    Request,     \* requests and jobs in progress at once
    Seller,     \* seller accounts of eBay
    MaxStates,   \* bound on the authorizations begun
    MaxEvents    \* bound on tokens that expire, calls that fail and requests that die

ConnectionsAssumption == IsFiniteSet(Seller) /\ {MaxStates, MaxEvents} \subseteq Nat

VARIABLES
    state,     \* EbayOAuthState
    conn,      \* EbaySellerConnection, with the order of creation, 0 for no row
    req,       \* what each request has read
    events,
    taken,     \* a save has taken the default from the account that had it
    bare,      \* the accounts disconnected and not authorized again since
    raced      \* those of them that somebody was using at that time

vars == <<state, conn, req, events, taken, bare, raced>>

State == 1 .. MaxStates
Idle == [at |-> "idle"]
NoRow == [born |-> 0, status |-> "none", default |-> FALSE,
          access |-> "none", refresh |-> "none", resources |-> FALSE]

Row == [born : Nat,
        status : {"none", "ACTIVE", "ERROR", "EXPIRED", "DISCONNECTED"},
        default : BOOLEAN, access : {"none", "fresh", "old"},
        refresh : {"none", "good", "old"}, resources : BOOLEAN]

Rows == {c \in Seller : conn[c].born # 0}
Defaults == {c \in Rows : conn[c].default}

TypeOK ==
    /\ state \in [State -> {"none", "open", "used", "expired"}]
    /\ conn \in [Seller -> Row]
    /\ \A r \in Request : req[r].at \in
          {"idle", "consume", "exchange", "save", "expire", "renew", "store", "resources", "default", "drop"}
    /\ events \in 0 .. MaxEvents
    /\ taken \in BOOLEAN
    /\ raced \subseteq bare /\ bare \subseteq Rows

Init ==
    /\ state = [s \in State |-> "none"]
    /\ conn = [c \in Seller |-> NoRow]
    /\ req = [r \in Request |-> Idle]
    /\ events = 0
    /\ taken = FALSE
    /\ bare = {} /\ raced = {}

Begin(r, read) == req[r] = Idle /\ req' = [req EXCEPT ![r] = read]
Become(r, read) == req' = [req EXCEPT ![r] = read]
End(r) == Become(r, Idle)
Happens == events < MaxEvents /\ events' = events + 1

-----------------------------------------------------------------------------
(* createEbayAuthorization.                                                  *)
CreateAuthorization(s) ==
    /\ state[s] = "none"
    /\ \A t \in State : t < s => state[t] # "none"
    /\ state' = [state EXCEPT ![s] = "open"]
    /\ UNCHANGED <<conn, req, events, taken, bare, raced>>

(* completeEbayAuthorization, called by the redirect.  consumeOAuthState     *)
(* reads the state and consumes it on condition that nobody else has.        *)
ReadState(r, s) ==
    /\ state[s] = "open"
    /\ Begin(r, [at |-> "consume", state |-> s])
    /\ UNCHANGED <<state, conn, events, taken, bare, raced>>

Unused(s) == state[s] = "open"

Consume(r) ==
    /\ req[r].at = "consume"
    /\ IF Unused(req[r].state)
       THEN /\ state' = [state EXCEPT ![req[r].state] = "used"]
            /\ Become(r, [at |-> "exchange", state |-> req[r].state])
       ELSE End(r) /\ UNCHANGED state
    /\ UNCHANGED <<conn, events, taken, bare, raced>>

(* eBay exchanges the code and tells the account, unless the user declined    *)
(* or a call fails; the connections are counted before the upsert.            *)
Exchange(r) ==
    /\ req[r].at = "exchange"
    /\ \/ \E c \in Seller : Become(r, [at |-> "save", id |-> c, first |-> Rows = {}])
       \/ End(r)
    /\ UNCHANGED <<state, conn, events, taken, bare, raced>>

(* The organization has one default row at most, by a unique index: of two     *)
(* first accounts one is refused.  An account that returns keeps its default.  *)
Authorized(row) == [row EXCEPT !.status = "ACTIVE", !.access = "fresh", !.refresh = "good"]

Save(r) ==
    LET c == req[r].id IN
    /\ req[r].at = "save"
    /\ \/ c \in Rows /\ conn' = [conn EXCEPT ![c] = Authorized(@)]
       \/ /\ c \notin Rows /\ ~(req[r].first /\ Defaults # {})
          /\ conn' = [conn EXCEPT ![c] = [born |-> Cardinality(Rows) + 1, status |-> "ACTIVE",
                                          default |-> req[r].first, access |-> "fresh",
                                          refresh |-> "good", resources |-> FALSE]]
       \/ c \notin Rows /\ req[r].first /\ Defaults # {} /\ UNCHANGED conn
    /\ bare' = bare \ {c} /\ raced' = raced \ {c}
    /\ End(r)
    /\ UNCHANGED <<state, events, taken>>

-----------------------------------------------------------------------------
(* getEbaySellerAccessToken, for a call to eBay or for a refresh of the       *)
(* resources, which replaces the rows whether eBay has answered or not.       *)
UsableUnlessExpired(c) == conn[c].status # "EXPIRED"   \* mutant
Usable(c) == conn[c].status \in {"ACTIVE", "ERROR"}

After(r, use, got) ==
    IF use = "sync" THEN Become(r, [at |-> "store", id |-> req[r].id, got |-> got]) ELSE End(r)

GetAccessToken(r, c, use) ==
    /\ c \in Rows
    /\ \/ /\ ~Usable(c) /\ use = "sync"
          /\ Begin(r, [at |-> "store", id |-> c, got |-> FALSE])
       \/ /\ Usable(c) /\ conn[c].access = "fresh" /\ use = "sync"
          /\ Begin(r, [at |-> "store", id |-> c, got |-> TRUE])
       \/ /\ Usable(c) /\ conn[c].access # "fresh"
          /\ Begin(r, [at |-> IF conn[c].refresh = "good" THEN "renew" ELSE "expire",
                       id |-> c, use |-> use])
    /\ UNCHANGED <<state, conn, events, taken, bare, raced>>

(* The refresh token was found missing or expired; the update is by id.       *)
MarkExpired(r) ==
    /\ req[r].at = "expire"
    /\ conn' = [conn EXCEPT ![req[r].id].status = "EXPIRED"]
    /\ After(r, req[r].use, FALSE)
    /\ UNCHANGED <<state, events, taken, bare, raced>>

(* eBay answers with a token or not; both updates are by id.                  *)
Renew(r) ==
    /\ req[r].at = "renew"
    /\ \/ /\ conn' = [conn EXCEPT ![req[r].id].status = "ACTIVE", ![req[r].id].access = "fresh"]
          /\ After(r, req[r].use, TRUE)
          /\ UNCHANGED events
       \/ /\ Happens
          /\ conn' = [conn EXCEPT ![req[r].id].status = "ERROR"]
          /\ After(r, req[r].use, FALSE)
    /\ UNCHANGED <<state, taken, bare, raced>>

(* syncSellerResources.                                                      *)
StoreResources(r) ==
    /\ req[r].at = "store"
    /\ \E found \in BOOLEAN :
          /\ found => req[r].got
          /\ conn' = [conn EXCEPT ![req[r].id].resources = found]
    /\ End(r)
    /\ UNCHANGED <<state, events, taken, bare, raced>>

-----------------------------------------------------------------------------
(* updateEbayConnectionDefaults, where it changes the default: the account is  *)
(* checked, then its resources, and the transaction trusts both.              *)
CheckAccount(r, c, wants) ==
    /\ c \in Rows
    /\ conn[c].status = "ACTIVE"
    /\ ~wants => ~conn[c].default
    /\ Begin(r, [at |-> "resources", id |-> c, wants |-> wants])
    /\ UNCHANGED <<state, conn, events, taken, bare, raced>>

CheckResources(r) ==
    /\ req[r].at = "resources"
    /\ IF conn[req[r].id].resources
       THEN Become(r, [at |-> "default", id |-> req[r].id, wants |-> req[r].wants])
       ELSE End(r)
    /\ UNCHANGED <<state, conn, events, taken, bare, raced>>

UpdateDefaults(r) ==
    LET c == req[r].id IN
    /\ req[r].at = "default"
    /\ conn' = [d \in Seller |->
          IF d = c THEN [conn[d] EXCEPT !.default = req[r].wants]
          ELSE IF req[r].wants THEN [conn[d] EXCEPT !.default = FALSE] ELSE conn[d]]
    /\ taken' = (taken \/ (conn[c].default /\ ~req[r].wants))
    /\ End(r)
    /\ UNCHANGED <<state, events, bare, raced>>

-----------------------------------------------------------------------------
(* disconnectEbayConnection: tokens and resources go, and when the account     *)
(* was read as the default, the oldest other active one is made the default.   *)
(* The row keeps its own: the unique index then refuses the replacement, and    *)
(* the transaction is rolled back.                                            *)
ReadToDisconnect(r, c) ==
    /\ c \in Rows
    /\ Begin(r, [at |-> "drop", id |-> c, was |-> conn[c].default])
    /\ UNCHANGED <<state, conn, events, taken, bare, raced>>

DisconnectedNoDefault(c) ==   \* mutant: the default goes although nobody may take it over
    [conn[c] EXCEPT !.status = "DISCONNECTED", !.access = "none", !.refresh = "none", !.resources = FALSE,
                    !.default = FALSE]
Disconnected(c) ==
    [conn[c] EXCEPT !.status = "DISCONNECTED", !.access = "none", !.refresh = "none", !.resources = FALSE]

Replacement(r) ==
    LET others == {d \in Rows : d # req[r].id /\ conn[d].status = "ACTIVE"}
    IN IF req[r].was THEN {d \in others : \A e \in others : conn[d].born <= conn[e].born} ELSE {}

Users(c) == {q \in Request : req[q].at \in {"expire", "renew", "store"} /\ req[q].id = c}

Drop(c) ==
    /\ bare' = bare \cup {c}
    /\ raced' = IF Users(c) = {} THEN raced \ {c} ELSE raced \cup {c}

Disconnect(r) ==
    LET c == req[r].id
        dropped == [conn EXCEPT ![c] = Disconnected(c)]
    IN
    /\ req[r].at = "drop"
    /\ \/ Replacement(r) = {} /\ conn' = dropped /\ Drop(c)
       \/ \E d \in Replacement(r) :
            IF \E e \in Seller \ {d} : dropped[e].default
            THEN UNCHANGED <<conn, bare, raced>>
            ELSE conn' = [dropped EXCEPT ![d].default = TRUE] /\ Drop(c)
    /\ End(r)
    /\ UNCHANGED <<state, events, taken>>

-----------------------------------------------------------------------------
(* Time passes.                                                              *)
StateExpires(s) ==
    /\ state[s] = "open"
    /\ Happens
    /\ state' = [state EXCEPT ![s] = "expired"]
    /\ UNCHANGED <<conn, req, taken, bare, raced>>

AccessExpires(c) ==
    /\ conn[c].access = "fresh"
    /\ Happens
    /\ conn' = [conn EXCEPT ![c].access = "old"]
    /\ UNCHANGED <<state, req, taken, bare, raced>>

RefreshExpires(c) ==
    /\ conn[c].refresh = "good" /\ conn[c].access = "old"
    /\ Happens
    /\ conn' = [conn EXCEPT ![c].refresh = "old"]
    /\ UNCHANGED <<state, req, taken, bare, raced>>

(* A statement fails or the process ends.                                    *)
Fail(r) ==
    /\ req[r] # Idle
    /\ Happens
    /\ End(r)
    /\ UNCHANGED <<state, conn, taken, bare, raced>>

Next ==
    \/ \E s \in State : CreateAuthorization(s) \/ StateExpires(s)
    \/ \E c \in Seller : AccessExpires(c) \/ RefreshExpires(c)
    \/ \E r \in Request :
        \/ \E s \in State : ReadState(r, s)
        \/ Consume(r) \/ Exchange(r) \/ Save(r)
        \/ MarkExpired(r) \/ Renew(r) \/ StoreResources(r)
        \/ CheckResources(r) \/ UpdateDefaults(r) \/ Disconnect(r) \/ Fail(r)
        \/ \E c \in Seller :
            \/ \E use \in {"call", "sync"} : GetAccessToken(r, c, use)
            \/ \E wants \in BOOLEAN : CheckAccount(r, c, wants)
            \/ ReadToDisconnect(r, c)

Spec == Init /\ [][Next]_vars

-----------------------------------------------------------------------------
\* Of every step: a state of the authorization lets one redirect through, and none that has expired.
StatesWorkOnce ==
    \A r \in Request : req[r].at # "exchange" /\ req'[r].at = "exchange" =>
        /\ state[req'[r].state] = "open" /\ state'[req'[r].state] = "used"
        /\ \A q \in Request \ {r} : req[q].at = "exchange" => req[q].state # req'[r].state

\* From its first account on an organization has one default account, also where first
\* authorizations, changes of the default, disconnections and errors overlap; only a save
\* that was to leave an account as no default can find it made the default meanwhile.
OneDefault == Rows # {} /\ ~taken => \E c \in Seller : Defaults = {c}

\* What a disconnection removes stays removed until the account is authorized again: no
\* late answer, refresh or error brings tokens or resources back, unless it was under way
\* at that time, and a refresh token never comes back.
DisconnectedIsBare ==
    \A c \in bare :
        /\ conn[c].refresh = "none"
        /\ c \notin raced => conn[c].status = "DISCONNECTED" /\ conn[c].access = "none"
                             /\ ~conn[c].resources

\* Documented: the request "removes locally stored token material"
\* (docs/EBAY_SELLER_OAUTH.md:56).
DisconnectRemoves ==
    [][\A r \in Request : req[r].at = "drop" /\ req'[r].at = "idle" =>
        /\ conn'[req[r].id].access = "none" /\ conn'[req[r].id].refresh = "none"]_vars
=============================================================================
