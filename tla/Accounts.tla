------------------------------- MODULE Accounts -------------------------------
(* One user's account (account-auth-service.ts, auth-sessions.ts): links sent *)
(* by e-mail, sign-in with lockout, the second factor and refresh sessions.   *)
(* A request reads, verifies a password (slow), and then writes, so requests  *)
(* of one account overlap.  Passwords are right or wrong when they are read;  *)
(* a time step of the authenticator and a recovery code are members of sets.  *)
EXTENDS Naturals, Sequences, FiniteSets

CONSTANTS
    Request,        \* requests that may be under way at once
    Step,           \* the time steps of the authenticator, 1 .. n
    RecoveryCode,   \* the codes of one set
    MaxFailures,    \* maxLoginFailures
    MaxAttempts,    \* maxMfaAttempts
    MaxLinks, MaxChallenges, MaxSessions, MaxSets, MaxResets,  \* bounds on rows and resets
    UseSets         \* the sets of operations to consider, see uses

AccountsAssumption ==
    /\ IsFiniteSet(Step) /\ Step = 1 .. Cardinality(Step)
    /\ Step \cap RecoveryCode = {}
    /\ {MaxFailures, MaxAttempts} \subseteq Nat \ {0}
    /\ {MaxLinks, MaxChallenges, MaxSessions, MaxSets, MaxResets} \subseteq Nat
    /\ UseSets \subseteq SUBSET {"register", "links", "login", "typos", "sessions", "setup", "factor"}

(* The operations the clients of a behaviour use, fixed from its start.      *)
VARIABLE uses

VARIABLES
    user,        \* registered, verified, failures, locked
    links,       \* UserAuthToken rows: their type and state
    mfa,         \* on, pending, last step and its resets, sets of codes so far
    codes,       \* the unused recovery codes of the latest set
    challenges,  \* MfaLoginChallenge rows
    issued,      \* the number of RefreshSession rows
    live,        \* the sessions that are not revoked
    req,         \* what each request has read
    used         \* how often each proof took effect

vars == <<uses, user, links, mfa, codes, challenges, issued, live, req, used>>

LinkType == {"verify", "reset", "recover"}
Code == Step \cup RecoveryCode

(* What a request may show to take effect: a link, a challenge, a refresh    *)
(* token, a time step between two resets of the last one, a code of one set. *)
Proof ==
    ({"link"} \X (1 .. MaxLinks)) \cup ({"challenge"} \X (1 .. MaxChallenges))
        \cup ({"session"} \X (1 .. MaxSessions))
        \cup ({"step"} \X (0 .. MaxResets) \X Step)
        \cup ({"code"} \X (0 .. MaxSets) \X RecoveryCode)

Idle == [at |-> "idle"]

TypeOK ==
    /\ uses \in UseSets
    /\ user \in [registered : BOOLEAN, verified : BOOLEAN,
                 failures : 0 .. MaxFailures, locked : BOOLEAN]
    /\ links \in Seq([type : LinkType, state : {"open", "consumed", "expired"}])
    /\ Len(links) <= MaxLinks
    /\ mfa \in [on : BOOLEAN, pending : {"none", "fresh", "expired"},
                last : Step \cup {0}, resets : 0 .. MaxResets, sets : 0 .. MaxSets]
    /\ codes \subseteq RecoveryCode
    /\ challenges \in Seq([state : {"open", "consumed", "expired", "deleted"}, attempts : Nat])
    /\ Len(challenges) <= MaxChallenges
    /\ issued \in 0 .. MaxSessions
    /\ live \subseteq 1 .. issued
    /\ \A r \in Request : req[r].at \in
        {"idle", "register", "send", "link", "failed", "passed", "grant", "challenge", "rotate",
         "replace", "change", "begin", "confirm", "clear", "disable", "regenerate"}
    /\ used \in [Proof -> Nat]

Init ==
    /\ uses \in UseSets
    /\ LET known == "register" \notin uses IN
       user = [registered |-> known, verified |-> known, failures |-> 0, locked |-> FALSE]
    /\ links = <<>>
    /\ \E on \in IF "factor" \in uses THEN {TRUE} ELSE {FALSE} :
        /\ mfa = [on |-> on, pending |-> "none", last |-> 0, resets |-> 0, sets |-> 0]
        /\ codes = IF on THEN RecoveryCode ELSE {}
    /\ challenges = <<>>
    /\ issued = 0
    /\ live = {}
    /\ req = [r \in Request |-> Idle]
    /\ used = [p \in Proof |-> 0]

Begin(r, read) == req[r] = Idle /\ req' = [req EXCEPT ![r] = read]
Then(r, label) == req' = [req EXCEPT ![r].at = label]
End(r)         == req' = [req EXCEPT ![r] = Idle]

Take(proofs) == used' = [p \in Proof |-> used[p] + (IF p \in proofs THEN 1 ELSE 0)]

(* The sessions a statement finds not revoked.  A rotation in progress has    *)
(* its replacement not yet inserted, and the statement does not see it.       *)
RevokeAll  == live' = {}

DeleteChallenges ==
    challenges' = [c \in DOMAIN challenges |-> [challenges[c] EXCEPT !.state = "deleted"]]

(* The last step is forgotten with the factor.                               *)
Disabled ==
    /\ mfa.resets < MaxResets
    /\ mfa' = [mfa EXCEPT !.on = FALSE, !.pending = "none", !.last = 0, !.resets = @ + 1]
    /\ codes' = {}

NewSession ==
    /\ issued < MaxSessions
    /\ issued' = issued + 1
    /\ live' = live \cup {issued + 1}

-----------------------------------------------------------------------------
(* registerAccount: the check for the e-mail and the transaction; its unique *)
(* key refuses a second user.                                                *)
CheckEmail(r) ==
    /\ "register" \in uses
    /\ ~user.registered
    /\ Begin(r, [at |-> "register"])
    /\ UNCHANGED <<uses, user, links, mfa, codes, challenges, issued, live, used>>

Register(r) ==
    /\ req[r].at = "register"
    /\ IF user.registered THEN UNCHANGED <<user, links>>
       ELSE /\ user' = [user EXCEPT !.registered = TRUE]
            /\ Len(links) < MaxLinks
            /\ links' = Append(links, [type |-> "verify", state |-> "open"])
    /\ End(r)
    /\ UNCHANGED <<uses, mfa, codes, challenges, issued, live, used>>

(* requestEmailVerification, requestPasswordReset, requestAccountRecovery:   *)
(* createAuthToken consumes the links of the type it finds and creates one.  *)
RequestLink(r, t) ==
    /\ "links" \in uses
    /\ user.registered
    /\ t = "verify" => ~user.verified
    /\ Begin(r, [at |-> "send", type |-> t,
                 older |-> {l \in DOMAIN links : links[l].type = t /\ links[l].state # "consumed"}])
    /\ UNCHANGED <<uses, user, links, mfa, codes, challenges, issued, live, used>>

SendLink(r) ==
    /\ req[r].at = "send"
    /\ Len(links) < MaxLinks
    /\ links' = Append([l \in DOMAIN links |->
                           IF l \in req[r].older THEN [links[l] EXCEPT !.state = "consumed"] ELSE links[l]],
                       [type |-> req[r].type, state |-> "open"])
    /\ End(r)
    /\ UNCHANGED <<uses, user, mfa, codes, challenges, issued, live, used>>

(* The transaction behind a link reads it first ...                          *)
ReadLink(r, l) ==
    /\ links[l].state = "open"
    /\ Begin(r, [at |-> "link", link |-> l, proof |-> <<"link", l>>,
                 before |-> used[<<"link", l>>]])
    /\ UNCHANGED <<uses, user, links, mfa, codes, challenges, issued, live, used>>

(* ... and later consumes it by its id: whatever happened to it meanwhile.   *)
Consume(l) == links' = [links EXCEPT ![l].state = "consumed"]

ReadLinkOf(r, t) == req[r].at = "link" /\ links[req[r].link].type = t

VerifyEmail(r) ==
    /\ ReadLinkOf(r, "verify")
    /\ Consume(req[r].link)
    /\ user' = [user EXCEPT !.verified = TRUE]
    /\ Take({req[r].proof})
    /\ End(r)
    /\ UNCHANGED <<uses, mfa, codes, challenges, issued, live>>

ResetPassword(r) ==
    /\ ReadLinkOf(r, "reset")
    /\ Consume(req[r].link)
    /\ user' = [user EXCEPT !.failures = 0, !.locked = FALSE]
    /\ RevokeAll
    /\ DeleteChallenges
    /\ Take({req[r].proof})
    /\ End(r)
    /\ UNCHANGED <<uses, mfa, codes, issued>>

(* recoverAccount consumes every link of the user.                           *)
RecoverAccount(r) ==
    /\ ReadLinkOf(r, "recover")
    /\ links' = [l \in DOMAIN links |-> [links[l] EXCEPT !.state = "consumed"]]
    /\ user' = [user EXCEPT !.verified = TRUE, !.failures = 0, !.locked = FALSE]
    /\ Disabled
    /\ RevokeAll
    /\ DeleteChallenges
    /\ Take({req[r].proof})
    /\ End(r)
    /\ UNCHANGED <<uses, issued>>

-----------------------------------------------------------------------------
(* loginAccount reads the user, verifies the password and goes by what it    *)
(* read; a wrong password is counted and, by another statement, locks.       *)
ReadLogin(r) ==
    /\ "login" \in uses
    /\ user.registered
    /\ \/ "typos" \in uses /\ Begin(r, [at |-> "failed", count |-> 0])
       \/ /\ ~user.locked
          /\ user.verified
          /\ Begin(r, [at |-> "passed", factor |-> mfa.on])
    /\ UNCHANGED <<uses, user, links, mfa, codes, challenges, issued, live, used>>

(* Failures beyond the limit are counted by the code and not here.           *)
CountFailure(r) ==
    /\ req[r].at = "failed"
    /\ req[r].count < MaxFailures
    /\ LET count == IF user.failures < MaxFailures THEN user.failures + 1 ELSE MaxFailures IN
       /\ user' = [user EXCEPT !.failures = count]
       /\ IF count < MaxFailures THEN End(r) ELSE req' = [req EXCEPT ![r].count = count]
    /\ UNCHANGED <<uses, links, mfa, codes, challenges, issued, live, used>>

Lock(r) ==
    /\ req[r].at = "failed"
    /\ req[r].count = MaxFailures
    /\ user' = [user EXCEPT !.locked = TRUE]
    /\ End(r)
    /\ UNCHANGED <<uses, links, mfa, codes, challenges, issued, live, used>>

ResetFailures(r) ==
    /\ req[r].at = "passed"
    /\ user' = [user EXCEPT !.failures = 0, !.locked = FALSE]
    /\ Then(r, "grant")
    /\ UNCHANGED <<uses, links, mfa, codes, challenges, issued, live, used>>

(* With a second factor the answer is a challenge, without it a session      *)
(* (issueTokenPair; whether the user is a member is left to Team).           *)
Challenge(r) ==
    /\ req[r].at = "grant"
    /\ req[r].factor
    /\ Len(challenges) < MaxChallenges
    /\ challenges' = Append(challenges, [state |-> "open", attempts |-> 0])
    /\ End(r)
    /\ UNCHANGED <<uses, user, links, mfa, codes, issued, live, used>>

SignIn(r) ==
    /\ req[r].at = "grant"
    /\ ~req[r].factor
    /\ NewSession
    /\ End(r)
    /\ UNCHANGED <<uses, user, links, mfa, codes, challenges, used>>

-----------------------------------------------------------------------------
(* consumeMfaCode: a time step must be later than the last one, a recovery   *)
(* code unused, by a conditional update of the row.                          *)
AcceptsAgain(code) == code \in Step \/ code \in codes   \* mutant: the step is not compared
Accepts(code) == IF code \in Step THEN mfa.last < code ELSE code \in codes

LastStep(code)  == IF code \in Step THEN code ELSE mfa.last
ProofOf(code)   == IF code \in Step THEN <<"step", mfa.resets, code>>
                                    ELSE <<"code", mfa.sets, code>>

ReadChallenge(r, c) ==
    /\ challenges[c].state = "open"
    /\ challenges[c].attempts < MaxAttempts
    /\ mfa.on
    /\ Begin(r, [at |-> "challenge", challenge |-> c, attempts |-> challenges[c].attempts,
                 proof |-> <<"challenge", c>>, before |-> used[<<"challenge", c>>]])
    /\ UNCHANGED <<uses, user, links, mfa, codes, challenges, issued, live, used>>

(* The attempt is counted in the row; whether it was the last one is decided *)
(* by the number that was read.                                              *)
RejectCode(r) ==
    /\ req[r].at = "challenge"
    /\ challenges[req[r].challenge].state # "deleted"
    /\ challenges' = [challenges EXCEPT ![req[r].challenge] =
                         [state    |-> IF req[r].attempts + 1 >= MaxAttempts THEN "consumed" ELSE @.state,
                          attempts |-> @.attempts + 1]]
    /\ End(r)
    /\ UNCHANGED <<uses, user, links, mfa, codes, issued, live, used>>

AcceptCode(r, code) ==
    /\ req[r].at = "challenge"
    /\ challenges[req[r].challenge].state # "deleted"
    /\ Accepts(code)
    /\ mfa' = [mfa EXCEPT !.last = LastStep(code)]
    /\ codes' = codes \ {code}
    /\ challenges' = [challenges EXCEPT ![req[r].challenge].state = "consumed"]
    /\ NewSession
    /\ Take({req[r].proof, ProofOf(code)})
    /\ End(r)
    /\ UNCHANGED <<uses, user, links>>

(* A transaction that finds its row gone, or its code refused, leaves no     *)
(* trace.                                                                    *)
RollBack(r) ==
    /\ \/ req[r].at = "challenge" /\ challenges[req[r].challenge].state = "deleted"
       \/ req[r].at \in {"disable", "regenerate"}
    /\ End(r)
    /\ UNCHANGED <<uses, user, links, mfa, codes, challenges, issued, live, used>>

-----------------------------------------------------------------------------
(* beginMfaSetup and confirmMfaSetup.                                        *)
CheckSetup(r) ==
    /\ "setup" \in uses
    /\ ~mfa.on
    /\ Begin(r, [at |-> "begin"])
    /\ UNCHANGED <<uses, user, links, mfa, codes, challenges, issued, live, used>>

BeginSetup(r) ==
    /\ req[r].at = "begin"
    /\ mfa' = [mfa EXCEPT !.pending = "fresh"]
    /\ End(r)
    /\ UNCHANGED <<uses, user, links, codes, challenges, issued, live, used>>

ReadSetup(r) ==
    /\ "setup" \in uses
    /\ mfa.pending # "none"
    /\ ~mfa.on
    /\ Begin(r, [at |-> IF mfa.pending = "fresh" THEN "confirm" ELSE "clear"])
    /\ UNCHANGED <<uses, user, links, mfa, codes, challenges, issued, live, used>>

ClearSetup(r) ==
    /\ req[r].at = "clear"
    /\ mfa' = [mfa EXCEPT !.pending = "none"]
    /\ End(r)
    /\ UNCHANGED <<uses, user, links, codes, challenges, issued, live, used>>

(* The transaction enables whatever the row has become: the last step starts *)
(* again at the one that confirmed.                                          *)
ConfirmSetup(r, step) ==
    /\ req[r].at = "confirm"
    /\ mfa.resets < MaxResets /\ mfa.sets < MaxSets
    /\ mfa' = [on |-> TRUE, pending |-> "none", last |-> step,
               resets |-> mfa.resets + 1, sets |-> mfa.sets + 1]
    /\ codes' = RecoveryCode
    /\ used' = [used EXCEPT ![<<"step", mfa.resets + 1, step>>] = @ + 1]
    /\ End(r)
    /\ UNCHANGED <<uses, user, links, challenges, issued, live>>

(* disableMfa and regenerateMfaRecoveryCodes.                                *)
CheckFactor(r) ==
    /\ uses \cap {"setup", "factor"} # {}
    /\ mfa.on
    /\ \E label \in {"disable", "regenerate"} : Begin(r, [at |-> label])
    /\ UNCHANGED <<uses, user, links, mfa, codes, challenges, issued, live, used>>

DisableMfa(r, code) ==
    /\ req[r].at = "disable"
    /\ Accepts(code)
    /\ Disabled
    /\ DeleteChallenges
    /\ RevokeAll
    /\ Take({ProofOf(code)})
    /\ End(r)
    /\ UNCHANGED <<uses, user, links, issued>>

RegenerateCodes(r, code) ==
    /\ req[r].at = "regenerate"
    /\ Accepts(code)
    /\ mfa.sets < MaxSets
    /\ mfa' = [mfa EXCEPT !.last = LastStep(code), !.sets = @ + 1]
    /\ codes' = RecoveryCode
    /\ Take({ProofOf(code)})
    /\ End(r)
    /\ UNCHANGED <<uses, user, links, challenges, issued, live>>

-----------------------------------------------------------------------------
(* changeAccountPassword.                                                    *)
CheckPassword(r) ==
    /\ "sessions" \in uses
    /\ live # {}
    /\ Begin(r, [at |-> "change"])
    /\ UNCHANGED <<uses, user, links, mfa, codes, challenges, issued, live, used>>

ChangePassword(r) ==
    /\ req[r].at = "change"
    /\ RevokeAll
    /\ End(r)
    /\ UNCHANGED <<uses, user, links, mfa, codes, challenges, issued, used>>

(* rotateTokenPair: the old session is revoked on condition that it is live, *)
(* the replacement inserted by the same transaction.                         *)
ReadRotation(r, s) ==
    /\ "sessions" \in uses
    /\ Begin(r, [at |-> "rotate", session |-> s])
    /\ UNCHANGED <<uses, user, links, mfa, codes, challenges, issued, live, used>>

Rotates(s) == s \in live

ClaimRotation(r) ==
    /\ req[r].at = "rotate"
    /\ IF Rotates(req[r].session)
       THEN live' = live \ {req[r].session} /\ Take({<<"session", req[r].session>>})
            /\ Then(r, "replace")
       ELSE UNCHANGED <<live, used>> /\ End(r)
    /\ UNCHANGED <<uses, user, links, mfa, codes, challenges, issued>>

Replace(r) ==
    /\ req[r].at = "replace"
    /\ NewSession
    /\ End(r)
    /\ UNCHANGED <<uses, user, links, mfa, codes, challenges, used>>

(* revokeRefreshToken: one conditional statement.                            *)
Logout(s) ==
    /\ "sessions" \in uses
    /\ s \in live
    /\ live' = live \ {s}
    /\ UNCHANGED <<uses, user, links, mfa, codes, challenges, issued, req, used>>

-----------------------------------------------------------------------------
(* Time passes.                                                              *)
ExpireLink(l) ==
    /\ links[l].state = "open"
    /\ links' = [links EXCEPT ![l].state = "expired"]
    /\ UNCHANGED <<uses, user, mfa, codes, challenges, issued, live, req, used>>

ExpireChallenge(c) ==
    /\ challenges[c].state = "open"
    /\ challenges' = [challenges EXCEPT ![c].state = "expired"]
    /\ UNCHANGED <<uses, user, links, mfa, codes, issued, live, req, used>>

ExpireSetup ==
    /\ mfa.pending = "fresh"
    /\ mfa' = [mfa EXCEPT !.pending = "expired"]
    /\ UNCHANGED <<uses, user, links, codes, challenges, issued, live, req, used>>

Unlock ==
    /\ user.locked
    /\ user' = [user EXCEPT !.locked = FALSE]
    /\ UNCHANGED <<uses, links, mfa, codes, challenges, issued, live, req, used>>

LinkStep(r) ==
    \/ CheckEmail(r) \/ Register(r)
    \/ \E t \in LinkType : RequestLink(r, t)
    \/ SendLink(r)
    \/ \E l \in DOMAIN links : ReadLink(r, l)
    \/ VerifyEmail(r) \/ ResetPassword(r) \/ RecoverAccount(r)

LoginStep(r) ==
    \/ ReadLogin(r) \/ CountFailure(r) \/ Lock(r) \/ ResetFailures(r) \/ Challenge(r) \/ SignIn(r)
    \/ \E c \in DOMAIN challenges : ReadChallenge(r, c)
    \/ RejectCode(r) \/ RollBack(r)
    \/ \E code \in Code : AcceptCode(r, code)

FactorStep(r) ==
    \/ CheckSetup(r) \/ BeginSetup(r) \/ ReadSetup(r) \/ ClearSetup(r) \/ CheckFactor(r)
    \/ \E step \in Step : ConfirmSetup(r, step)
    \/ \E code \in Code : DisableMfa(r, code) \/ RegenerateCodes(r, code)

SessionStep(r) ==
    \/ CheckPassword(r) \/ ChangePassword(r) \/ ClaimRotation(r) \/ Replace(r)
    \/ \E s \in 1 .. issued : ReadRotation(r, s)

Next ==
    \/ \E r \in Request : LinkStep(r) \/ LoginStep(r) \/ FactorStep(r) \/ SessionStep(r)
    \/ \E s \in 1 .. issued : Logout(s)
    \/ \E l \in DOMAIN links : ExpireLink(l)
    \/ \E c \in DOMAIN challenges : ExpireChallenge(c)
    \/ ExpireSetup \/ Unlock

Spec == Init /\ [][Next]_vars

-----------------------------------------------------------------------------
\* Of every step: what a request shows works once.  A refresh token, a recovery code and, until the
\* last step is reset, a time step never take effect again, however requests overlap;
\* a link or a challenge, which is read first and consumed by its id, takes effect again
\* only for a request that had read it before its first use.
ProofsWorkOnce ==
    \A p \in Proof : used'[p] > used[p] /\ used[p] > 0 =>
        \E r \in Request : /\ req[r].at \in {"link", "challenge"}
                           /\ req[r].proof = p /\ req[r].before = 0
                           /\ req'[r] = Idle
=============================================================================
