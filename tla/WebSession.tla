----------------------------- MODULE WebSession -----------------------------
(* The session of a browser: the refresh token in the cookie that its tabs    *)
(* share, the access token, the reads and the cache that each tab keeps in    *)
(* memory (apps/web/app/lib/auth-session.ts, components/AuthProvider.tsx),     *)
(* and what the API does to them (auth-sessions.ts, the routes of app.ts).     *)
(* A request is sent, served and answered in three steps, and carries the      *)
(* cookie of the moment it was sent; the answer sets the cookie.  Accounts     *)
(* has the server's side of the rotation in its own steps.                     *)
EXTENDS Integers, FiniteSets

CONSTANTS
    Tab, Call,      \* calls under way at once in a tab
    Uses,           \* which tabs are used, and with which calls: a set of records
    MaxTokens,      \* refresh tokens ever issued
    MaxWrites       \* writes the server performs

WebSessionAssumption ==
    /\ Uses \subseteq [tabs : SUBSET Tab, calls : SUBSET Call]
    /\ MaxTokens \in Nat /\ MaxWrites \in Nat

VARIABLES
    use,        \* the choice from Uses
    tokens,     \* the tokens whose RefreshSession is not revoked
    minted,     \* the last token issued: tokens are numbered
    earlier,    \* ghost: the tokens that counted at the last login, of sessions before it
    cookie,     \* the browser's token, or 0
    version,    \* the writes the server has performed
    tab,        \* per tab: page, access token, cache, getInflight, last write seen
    refresh,    \* per tab: inflight, the one refresh of a tab
    leave,      \* per tab: the request of a logout
    call,       \* per tab: the requests of apiRequest
    out, raced  \* ghosts: signed out; requests about the session overlapped or were lost

server == <<tokens, minted, earlier, version>>
vars == <<use, server, cookie, tab, refresh, leave, call, out, raced>>

-----------------------------------------------------------------------------
NoEntry == [version |-> -1, old |-> FALSE]
NoCall == [step |-> "idle", what |-> "read", version |-> 0, again |-> FALSE, old |-> FALSE]
Quiet == [step |-> "idle", token |-> 0]
Memory(page, access) ==
    [page |-> page, access |-> access, cache |-> NoEntry, reading |-> FALSE, seen |-> 0]
NoCalls == [c \in Call |-> NoCall]

\* Tokens, steps and calls have the values that the actions give them.
TypeOK ==
    /\ tokens \subseteq 1 .. minted /\ minted \in 0 .. MaxTokens /\ earlier \subseteq 1 .. minted
    /\ cookie \in 0 .. minted /\ version \in 0 .. MaxWrites
    /\ \A t \in Tab :
        /\ tab[t].page \in {"app", "login"} /\ tab[t].access \in {"none", "fresh", "old"}
        /\ tab[t].reading \in BOOLEAN /\ tab[t].seen \in 0 .. version
        /\ refresh[t].step \in {"idle", "sent", "answered", "refused"}
        /\ refresh[t].token \in 0 .. minted
        /\ leave[t].step \in {"idle", "sent", "answered"}
        /\ \A c \in Call : call[t][c].step \in {"idle", "token", "sent", "rejected", "answered"}

Init ==
    /\ use \in Uses
    /\ tokens = {} /\ minted = 0 /\ earlier = {} /\ cookie = 0 /\ version = 0
    /\ tab = [t \in Tab |-> Memory("login", "none")]
    /\ refresh = [t \in Tab |-> Quiet] /\ leave = [t \in Tab |-> Quiet]
    /\ call = [t \in Tab |-> NoCalls]
    /\ out = TRUE /\ raced = FALSE

-----------------------------------------------------------------------------
Busy(t) == refresh[t].step # "idle" \/ leave[t].step # "idle"
Overlaps(t) == leave[t].step # "idle" \/ \E u \in Tab \ {t} : Busy(u)

(* A new document, on the page given; what the old one waited for is lost.     *)
Load(t, page) ==
    /\ tab' = [tab EXCEPT ![t] = Memory(page, "none")]
    /\ call' = [call EXCEPT ![t] = NoCalls]

(* refreshAccessSession once there is no fresh token: callers share a refresh. *)
Started(t) ==
    IF refresh[t].step = "idle"
    THEN [refresh EXCEPT ![t] = [step |-> "sent", token |-> cookie]] ELSE refresh

Refresh(t) ==
    /\ refresh' = Started(t)
    /\ raced' = (raced \/ Overlaps(t))

(* The effect of AuthProvider when a page opens.                               *)
Open(t) ==
    /\ leave[t].step = "idle"
    /\ Load(t, "app")
    /\ refresh' = [refresh EXCEPT ![t] = [step |-> "sent", token |-> cookie]]
    /\ raced' = (raced \/ Overlaps(t) \/ refresh[t].step # "idle")
    /\ UNCHANGED <<use, server, cookie, leave, out>>

(* The timer of AuthProvider, which a logout leaves running.                    *)
Renew(t) ==
    /\ tab[t].page = "app"
    /\ Refresh(t)
    /\ UNCHANGED <<use, server, cookie, tab, leave, call, out>>

(* isFresh turns false a minute before the expiry.                             *)
AccessExpires(t) ==
    /\ tab[t].access = "fresh"
    /\ tab' = [tab EXCEPT ![t].access = "old"]
    /\ UNCHANGED <<use, server, cookie, refresh, leave, call, out, raced>>

(* rotateTokenPair at the server; the member stays one and no token expires.    *)
Rotate(t) ==
    /\ refresh[t].step = "sent"
    /\ IF refresh[t].token \in tokens
       THEN /\ minted < MaxTokens
            /\ minted' = minted + 1
            /\ tokens' = (tokens \ {refresh[t].token}) \cup {minted + 1}
            /\ refresh' = [refresh EXCEPT ![t] = [step |-> "answered", token |-> minted + 1]]
       ELSE refresh' = [refresh EXCEPT ![t].step = "refused"] /\ UNCHANGED <<tokens, minted>>
    /\ UNCHANGED <<use, earlier, version, cookie, tab, leave, call, out, raced>>

(* The new token is set, and whoever waited for it goes on.                    *)
Refreshed(t) ==
    /\ refresh[t].step = "answered"
    /\ cookie' = refresh[t].token
    /\ tab' = [tab EXCEPT ![t].access = "fresh"]
    /\ call' = [call EXCEPT ![t] = [c \in Call |->
                    IF @[c].step = "token" THEN [@[c] EXCEPT !.step = "sent"] ELSE @[c]]]
    /\ refresh' = [refresh EXCEPT ![t] = Quiet]
    /\ UNCHANGED <<use, server, leave, out, raced>>

(* Any error is a SessionExpiredError: markRequired goes to the login page.     *)
Expire(t) ==
    /\ Load(t, "login")
    /\ refresh' = [refresh EXCEPT ![t] = Quiet]
    /\ UNCHANGED <<use, server, cookie, leave, out>>

Refused(t) == refresh[t].step = "refused" /\ Expire(t) /\ UNCHANGED raced

(* No answer, or one that is an error of another kind.                         *)
RefreshLost(t) == refresh[t].step \in {"sent", "answered"} /\ Expire(t) /\ raced' = TRUE

-----------------------------------------------------------------------------
Issue(t) ==
    /\ minted < MaxTokens
    /\ minted' = minted + 1 /\ tokens' = tokens \cup {minted + 1}
    /\ cookie' = minted + 1 /\ earlier' = tokens

(* A login, and primeAuthenticatedSession.                                     *)
Login(t) ==
    /\ tab[t].page = "login" /\ ~Busy(t)
    /\ Issue(t)
    /\ tab' = [tab EXCEPT ![t] = Memory("app", "fresh")]
    /\ out' = FALSE
    /\ raced' = Overlaps(t)
    /\ UNCHANGED <<use, version, refresh, leave, call>>

(* logoutSession: the memory is cleared, but what is under way goes on, and    *)
(* the page may ask for a new token meanwhile.                                 *)
Logout(t) ==
    /\ tab[t].page = "app" /\ leave[t].step = "idle"
    /\ tab' = [tab EXCEPT ![t] = [Memory("app", "none") EXCEPT !.seen = tab[t].seen]]
    /\ leave' = [leave EXCEPT ![t] = [step |-> "sent", token |-> cookie]]
    /\ raced' = (raced \/ Overlaps(t) \/ refresh[t].step # "idle")
    /\ UNCHANGED <<use, server, cookie, refresh, call, out>>

NothingRevoked(t) == tokens   \* mutant: only the cookie is cleared
Revoked(t) == tokens \ {leave[t].token}

Revoke(t) ==
    /\ leave[t].step = "sent"
    /\ tokens' = Revoked(t)
    /\ leave' = [leave EXCEPT ![t].step = "answered"]
    /\ UNCHANGED <<use, minted, earlier, version, cookie, tab, refresh, call, out, raced>>

(* The cookie is cleared and the login page loaded; an error is ignored.        *)
LeavePage(t) ==
    /\ Load(t, "login")
    /\ leave' = [leave EXCEPT ![t] = Quiet]
    /\ refresh' = [refresh EXCEPT ![t] = Quiet]
    /\ UNCHANGED <<use, server>>

LoggedOut(t) ==
    /\ leave[t].step = "answered"
    /\ LeavePage(t)
    /\ cookie' = 0 /\ out' = TRUE
    /\ UNCHANGED raced

LogoutLost(t) ==
    /\ leave[t].step # "idle"
    /\ LeavePage(t)
    /\ raced' = TRUE
    /\ UNCHANGED <<cookie, out>>

-----------------------------------------------------------------------------
(* apiRequest takes a fresh token or waits for one.                            *)
Request(t, c, what) ==
    /\ tab[t].page = "app" /\ call[t][c].step = "idle"
    /\ LET fresh == tab[t].access = "fresh" IN
        /\ call' = [call EXCEPT ![t][c] =
                       [NoCall EXCEPT !.what = what, !.step = IF fresh THEN "sent" ELSE "token"]]
        /\ IF fresh THEN UNCHANGED <<refresh, raced>> ELSE Refresh(t)

(* apiGetCached: a cached answer and a read under way are shared.               *)
Read(t, c) ==
    /\ tab[t].cache = NoEntry /\ ~tab[t].reading
    /\ Request(t, c, "read")
    /\ tab' = [tab EXCEPT ![t].reading = TRUE]
    /\ UNCHANGED <<use, server, cookie, leave, out>>

Write(t, c) ==
    /\ Request(t, c, "write")
    /\ UNCHANGED <<use, server, cookie, tab, leave, out>>

Serve(t, c) ==
    LET now == version + (IF call[t][c].what = "write" THEN 1 ELSE 0) IN
    /\ call[t][c].step = "sent" /\ now <= MaxWrites
    /\ version' = now
    /\ call' = [call EXCEPT ![t][c].step = "answered", ![t][c].version = now]
    /\ UNCHANGED <<use, tokens, minted, earlier, cookie, tab, refresh, leave, out, raced>>

(* The access token expired on the way.                                        *)
Reject(t, c) ==
    /\ call[t][c].step = "sent" /\ ~call[t][c].again
    /\ call' = [call EXCEPT ![t][c].step = "rejected"]
    /\ UNCHANGED <<use, server, cookie, tab, refresh, leave, out, raced>>

(* A 401 forgets the token and the reads, and tries once more.                  *)
Retry(t, c) ==
    /\ call[t][c].step = "rejected"
    /\ call' = [call EXCEPT ![t][c].step = "token", ![t][c].again = TRUE]
    /\ tab' = [tab EXCEPT ![t].access = "none", ![t].cache = NoEntry, ![t].reading = FALSE]
    /\ Refresh(t)
    /\ UNCHANGED <<use, server, cookie, leave, out>>

(* A second 401 ends the session, whatever the refresh cookie is worth.         *)
Deny(t, c) ==
    /\ call[t][c].step = "sent" /\ call[t][c].again
    /\ Expire(t)
    /\ raced' = (raced \/ refresh[t].step # "idle")

(* A read is cached; its key leaves getInflight, whoever put it there.          *)
ReadAnswered(t, c) ==
    /\ call[t][c].step = "answered" /\ call[t][c].what = "read"
    /\ tab' = [tab EXCEPT ![t].reading = FALSE, ![t].cache =
                  [version |-> call[t][c].version, old |-> call[t][c].old]]
    /\ call' = [call EXCEPT ![t][c] = NoCall]
    /\ UNCHANGED <<use, server, cookie, refresh, leave, out, raced>>

(* A write clears the cache; reads under way are left to end.                   *)
KeptAfter(t) == tab[t].cache   \* mutant: a write leaves the cache
CacheAfter(t) == NoEntry

WriteAnswered(t, c) ==
    /\ call[t][c].step = "answered" /\ call[t][c].what = "write"
    /\ tab' = [tab EXCEPT ![t].cache = CacheAfter(t), ![t].seen = call[t][c].version]
    /\ call' = [call EXCEPT ![t] = [d \in Call |->
                   IF d = c THEN NoCall
                   ELSE [call[t][d] EXCEPT !.old = @ \/ call[t][d].step # "idle"]]]
    /\ UNCHANGED <<use, server, cookie, refresh, leave, out, raced>>

CallLost(t, c) ==
    /\ call[t][c].step \in {"sent", "answered"}
    /\ call' = [call EXCEPT ![t][c] = NoCall]
    /\ tab' = [tab EXCEPT ![t].reading = @ /\ call[t][c].what = "write"]
    /\ UNCHANGED <<use, server, cookie, refresh, leave, out, raced>>

CacheExpires(t) ==
    /\ tab[t].cache # NoEntry
    /\ tab' = [tab EXCEPT ![t].cache = NoEntry]
    /\ UNCHANGED <<use, server, cookie, refresh, leave, call, out, raced>>

-----------------------------------------------------------------------------
SessionStep(t) ==
    \/ Open(t) \/ Renew(t) \/ AccessExpires(t) \/ Rotate(t) \/ Refreshed(t) \/ Refused(t)
    \/ RefreshLost(t) \/ Login(t) \/ Logout(t) \/ Revoke(t) \/ LoggedOut(t) \/ LogoutLost(t)

CallStep(t, c) ==
    \/ Read(t, c) \/ Write(t, c) \/ Serve(t, c) \/ Reject(t, c) \/ Retry(t, c) \/ Deny(t, c)
    \/ ReadAnswered(t, c) \/ WriteAnswered(t, c) \/ CallLost(t, c)

Next == \E t \in use.tabs :
    SessionStep(t) \/ CacheExpires(t) \/ \E c \in use.calls : CallStep(t, c)

Spec == Init /\ [][Next]_vars

-----------------------------------------------------------------------------
\* The tokens of a session, however often rotated, last as long as it does: unless two tabs'
\* refreshes or logouts overlapped or one was lost, no token that the browser sends is refused,
\* and after a logout the browser has none and the server has none that was issued since the
\* last login.  An earlier session can be good still: a request rejected twice (Deny) only
\* leads to the login page, and the login after it revokes nothing.
TokensLastTheirSession ==
    ~raced =>
        /\ \A t \in Tab : refresh[t].step = "refused" => refresh[t].token = 0
        /\ out => cookie = 0 /\ tokens \subseteq earlier

\* What a tab has cached includes every write of that tab that was answered, unless it was
\* asked for before that answer (auth-session.ts clears answers, not reads under way).
CacheFollowsWrites ==
    \A t \in Tab : tab[t].cache # NoEntry /\ ~tab[t].cache.old =>
        tab[t].cache.version >= tab[t].seen
=============================================================================
