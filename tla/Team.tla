--------------------------------- MODULE Team ---------------------------------
(* The members of one organization and its invitations, one per e-mail        *)
(* address (organization-team-service.ts).  Every change is a transaction     *)
(* that locks the organization; what a request has read before the lock may   *)
(* be out of date by then.                                                    *)
EXTENDS Naturals

CONSTANTS
    Request,
    User,
    Founder,         \* the user who registered the organization
    MaxInvitations   \* bound on the invitations of each user

TeamAssumption == Founder \in User /\ MaxInvitations \in [User -> Nat]

VARIABLES
    role,         \* OrganizationMembership of each user, or "none"
    entry,        \* which membership of the user it is (its id)
    invitation,   \* OrganizationInvitation of each user
    signedIn,     \* users with a live refresh session for the organization
    req,          \* what each request has read
    overtaken     \* a member was changed whose role was no longer the one read

vars == <<role, entry, invitation, signedIn, req, overtaken>>

Role == {"OWNER", "ADMIN", "VIEWER"}   \* VIEWER stands for every other role
Privileged == {"OWNER", "ADMIN"}       \* the roles that manage the team

Idle == [at |-> "idle"]

TypeOK ==
    /\ role \in [User -> Role \cup {"none"}]
    /\ entry \in [User -> Nat]
    /\ invitation \in [User -> [status  : {"none", "PENDING", "ACCEPTED", "REVOKED", "EXPIRED"},
                                role    : Role \ {"OWNER"},
                                version : Nat,
                                late    : BOOLEAN]]
    /\ \A u \in User : entry[u] <= invitation[u].version /\ invitation[u].version <= MaxInvitations[u]
    /\ signedIn \subseteq User
    /\ \A r \in Request : req[r].at \in
          {"idle", "actor", "revoke", "accept", "expire", "change", "remove", "issue"}
    /\ overtaken \in BOOLEAN

Init ==
    /\ role = [u \in User |-> IF u = Founder THEN "OWNER" ELSE "none"]
    /\ entry = [u \in User |-> 0]
    /\ invitation = [u \in User |-> [status |-> "none", role |-> "VIEWER", version |-> 0, late |-> FALSE]]
    /\ signedIn = {}
    /\ req = [r \in Request |-> Idle]
    /\ overtaken = FALSE

Become(r, read) == req' = [req EXCEPT ![r] = read]
End(r) == Become(r, Idle)

-----------------------------------------------------------------------------
(* requireTenantContext: the role of the actor, read once per request.       *)
ReadActor(r, a) ==
    /\ req[r] = Idle
    /\ role[a] \in Privileged
    /\ Become(r, [at |-> "actor", role |-> role[a]])
    /\ UNCHANGED <<role, entry, invitation, signedIn, overtaken>>

(* canManageMemberRole.                                                      *)
CanManage(actor, target, next) ==
    \/ actor = "OWNER"
    \/ actor = "ADMIN" /\ target # "OWNER" /\ next # "OWNER"

(* createOrganizationInvitation: one row per address, replaced in place.     *)
Invite(r, u, as) ==
    /\ req[r].at = "actor"
    /\ IF role[u] = "none"
       THEN /\ invitation[u].version < MaxInvitations[u]
            /\ invitation' = [invitation EXCEPT ![u] =
                  [status |-> "PENDING", role |-> as, version |-> @.version + 1, late |-> FALSE]]
       ELSE UNCHANGED invitation
    /\ End(r)
    /\ UNCHANGED <<role, entry, signedIn, overtaken>>

(* revokeOrganizationInvitation asks for the status again under the lock.    *)
ReadInvitation(r, u) ==
    /\ req[r].at = "actor"
    /\ invitation[u].status = "PENDING"
    /\ Become(r, [at |-> "revoke", user |-> u])
    /\ UNCHANGED <<role, entry, invitation, signedIn, overtaken>>

Revoke(r) ==
    LET u == req[r].user IN
    /\ req[r].at = "revoke"
    /\ IF invitation[u].status = "PENDING"
       THEN invitation' = [invitation EXCEPT ![u].status = "REVOKED"]
       ELSE UNCHANGED invitation
    /\ End(r)
    /\ UNCHANGED <<role, entry, signedIn, overtaken>>

-----------------------------------------------------------------------------
(* acceptOrganizationInvitation and previewOrganizationInvitation look the   *)
(* token up; an old one finds nothing.  An acceptance that finds it too late *)
(* throws, which also undoes its own update of the status.                   *)
ReadToken(r, u) ==
    /\ req[r] = Idle
    /\ invitation[u].status = "PENDING"
    /\ Become(r, [at |-> IF invitation[u].late THEN "expire" ELSE "accept",
                  user |-> u, version |-> invitation[u].version])
    /\ UNCHANGED <<role, entry, invitation, signedIn, overtaken>>

AdmitsAsRead(u, version) == TRUE   \* mutant: the invitation is not read again under the lock
Admits(u, version) == invitation[u].status = "PENDING" /\ invitation[u].version = version

Accept(r) ==
    LET u == req[r].user IN
    /\ req[r].at = "accept"
    /\ IF Admits(u, req[r].version) /\ role[u] = "none"
       THEN /\ role' = [role EXCEPT ![u] = invitation[u].role]
            /\ entry' = [entry EXCEPT ![u] = @ + 1]
            /\ invitation' = [invitation EXCEPT ![u].status = "ACCEPTED"]
            /\ signedIn' = signedIn \cup {u}
       ELSE UNCHANGED <<role, entry, invitation, signedIn>>
    /\ End(r)
    /\ UNCHANGED overtaken

(* The preview marks the invitation it read, if it is still there.           *)
MarkExpired(r) ==
    LET u == req[r].user IN
    /\ req[r].at = "expire"
    /\ IF invitation[u].status = "PENDING" /\ invitation[u].version = req[r].version
       THEN invitation' = [invitation EXCEPT ![u].status = "EXPIRED"]
       ELSE UNCHANGED invitation
    /\ End(r)
    /\ UNCHANGED <<role, entry, signedIn, overtaken>>

(* Seven days pass.                                                          *)
GrowLate(u) ==
    /\ invitation[u].status = "PENDING" /\ ~invitation[u].late
    /\ invitation' = [invitation EXCEPT ![u].late = TRUE]
    /\ UNCHANGED <<role, entry, signedIn, req, overtaken>>

-----------------------------------------------------------------------------
(* changeOrganizationMemberRole and removeOrganizationMember read the member *)
(* and its role before they lock the organization ...                        *)
ReadMember(r, u) ==
    /\ req[r].at = "actor"
    /\ role[u] # "none"
    /\ \/ \E next \in Role :   \* the same role with other permissions, too
             /\ CanManage(req[r].role, role[u], next)
             /\ Become(r, [at |-> "change", user |-> u, entry |-> entry[u],
                           was |-> role[u], next |-> next])
       \/ /\ CanManage(req[r].role, role[u], "none")
          /\ Become(r, [at |-> "remove", user |-> u, entry |-> entry[u],
                        was |-> role[u], next |-> "none"])
    /\ UNCHANGED <<role, entry, invitation, signedIn, overtaken>>

(* ... and assertLastOwnerSafe goes by the role that was read.               *)
LastOwnerCountsItself(r) ==   \* mutant: the member counts as one of the owners that remain
    \/ req[r].was # "OWNER" \/ req[r].next = "OWNER"
    \/ \E v \in User : role[v] = "OWNER"
LastOwnerSafe(r) ==
    \/ req[r].was # "OWNER" \/ req[r].next = "OWNER"
    \/ \E v \in User \ {req[r].user} : role[v] = "OWNER"

(* The update is by the id of the membership.                                *)
SameMember(r) == role[req[r].user] # "none" /\ entry[req[r].user] = req[r].entry

ChangeMember(r) ==
    LET u == req[r].user IN
    /\ req[r].at \in {"change", "remove"}
    /\ IF LastOwnerSafe(r) /\ SameMember(r)
       THEN /\ role' = [role EXCEPT ![u] = req[r].next]
            /\ signedIn' = IF req[r].at = "remove" THEN signedIn \ {u} ELSE signedIn
            /\ overtaken' = (overtaken \/ role[u] # req[r].was)
       ELSE UNCHANGED <<role, signedIn, overtaken>>
    /\ End(r)
    /\ UNCHANGED <<entry, invitation>>

(* issueTokenPair of auth-sessions.ts: the check for the membership and the  *)
(* new session are two statements.                                           *)
CheckMembership(r, u) ==
    /\ req[r] = Idle
    /\ role[u] # "none" /\ u \notin signedIn
    /\ Become(r, [at |-> "issue", user |-> u])
    /\ UNCHANGED <<role, entry, invitation, signedIn, overtaken>>

Issue(r) ==
    /\ req[r].at = "issue"
    /\ signedIn' = signedIn \cup {req[r].user}
    /\ End(r)
    /\ UNCHANGED <<role, entry, invitation, overtaken>>

Next ==
    \/ \E r \in Request :
        \/ Revoke(r) \/ Accept(r) \/ MarkExpired(r) \/ ChangeMember(r) \/ Issue(r)
        \/ \E u \in User :
            \/ ReadActor(r, u) \/ ReadInvitation(r, u) \/ ReadToken(r, u)
            \/ ReadMember(r, u) \/ CheckMembership(r, u)
            \/ \E as \in Role \ {"OWNER"} : Invite(r, u, as)
    \/ \E u \in User : GrowLate(u)

Spec == Init /\ [][Next]_vars

-----------------------------------------------------------------------------
\* Of every step: an invitation admits one person, in the role it names, and none after it was revoked
\* or replaced, however acceptances, revocations and new invitations overlap.
InvitationsAdmitOnce ==
    \A u \in User : entry'[u] # entry[u] =>
        /\ invitation[u].status = "PENDING" /\ invitation'[u].status = "ACCEPTED"
        /\ role'[u] = invitation[u].role
        /\ \E r \in Request : req[r].at = "accept" /\ req[r].version = invitation[u].version

\* The organization always has an owner, however changes, removals and acceptances overlap,
\* as long as nobody is changed on the strength of a role that was no longer theirs.
OwnerRemains == overtaken \/ \E u \in User : role[u] = "OWNER"
=============================================================================
