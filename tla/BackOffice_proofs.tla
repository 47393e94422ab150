-------------------------- MODULE BackOffice_proofs --------------------------
(* Proofs about the components of BackOffice: the invariant of each, kept by    *)
(* its own steps, and the composition, in which a behaviour follows one of them. *)
EXTENDS BackOffice, FiniteSetTheorems, TLAPS

LEMMA ScenarioStays == [OfficeNext]_officeVars => scenario' = scenario
BY DEF OfficeNext, officeVars

LEMMA AccountFollows ==
    scenario = "account" /\ [OfficeNext]_officeVars => [Account!Next]_(Account!vars)
BY DEF OfficeNext, officeVars, account, Account!vars

LEMMA TeamFollows ==
    scenario = "team" /\ [OfficeNext]_officeVars => [Members!Next]_(Members!vars)
BY DEF OfficeNext, officeVars, team, Members!vars

LEMMA RetentionFollows ==
    scenario = "retention" /\ [OfficeNext]_officeVars => [Cleanup!Next]_(Cleanup!vars)
BY DEF OfficeNext, officeVars, retention, Cleanup!vars, Cleanup!jobVars

LEMMA EbayFollows ==
    scenario = "seller" /\ [OfficeNext]_officeVars => [Ebay!Next]_(Ebay!vars)
BY DEF OfficeNext, officeVars, seller, Ebay!vars

LEMMA ListingFollows ==
    scenario = "listing" /\ [OfficeNext]_officeVars => [Drafts!Next]_(Drafts!vars)
BY DEF OfficeNext, officeVars, listing, Drafts!vars

LEMMA ImportFollows ==
    scenario = "import" /\ [OfficeNext]_officeVars => [Sheet!Next]_(Sheet!vars)
BY DEF OfficeNext, officeVars, import, Sheet!vars

LEMMA StoreFollows ==
    scenario = "store" /\ [OfficeNext]_officeVars => [Store!Next]_(Store!vars)
BY DEF OfficeNext, officeVars, store, Store!vars

\* The instances count with their own copies of the operators of FiniteSets.
LEMMA SameCounts ==
    ASSUME NEW S
    PROVE  /\ Cleanup!Cardinality(S) = Cardinality(S) /\ Ebay!Cardinality(S) = Cardinality(S)
           /\ Store!Cardinality(S) = Cardinality(S) /\ Formulas!Cardinality(S) = Cardinality(S)
           /\ Cleanup!IsFiniteSet(S) <=> IsFiniteSet(S)
           /\ Store!IsFiniteSet(S) <=> IsFiniteSet(S)
BY DEF Cleanup!Cardinality, Ebay!Cardinality, Store!Cardinality, Formulas!Cardinality, Cardinality,
       Cleanup!IsFiniteSet, Store!IsFiniteSet, IsFiniteSet

\* What the proofs need to know of the constants.
LEMMA ConstantsTyped ==
    Founder \in User /\ IsFiniteSet(Data) /\ MaxFaults \in Nat
BY BackOfficeAssumption, SameCounts
   DEF BackOfficeAssumption, Members!TeamAssumption, Cleanup!RetentionAssumption

-----------------------------------------------------------------------------
(* Team: the organization keeps an owner.                                      *)

(* Every user has a role, or none: what an update by EXCEPT needs to be told.  *)
RoleOfEach == role = [u \in User |-> role[u]]

OwnerInv == RoleOfEach /\ Members!OwnerRemains

\* The founder owns the organization from the start.
LEMMA OwnerAtFirst == Members!Init => OwnerInv
  <1> SUFFICES ASSUME Members!Init PROVE OwnerInv OBVIOUS
  <1>1. RoleOfEach BY DEF Members!Init, RoleOfEach
  <1>2. role[Founder] = "OWNER" BY ConstantsTyped DEF Members!Init
  <1> QED BY <1>1, <1>2, ConstantsTyped DEF OwnerInv, Members!OwnerRemains

\* Whoever is admitted had no role, so the owner is somebody else.
LEMMA AcceptKeepsOwner ==
  ASSUME OwnerInv, NEW r \in Actor, Members!Accept(r)
  PROVE  OwnerInv'
  <1> DEFINE u == req[r].user
  <1>1. CASE UNCHANGED <<role, overtaken>> BY <1>1 DEF OwnerInv, RoleOfEach, Members!OwnerRemains
  <1>2. CASE role[u] = "none" /\ role' = [role EXCEPT ![u] = invitation[u].role]
    <2>1. RoleOfEach' BY <1>2 DEF OwnerInv, RoleOfEach
    <2>2. overtaken' = overtaken BY DEF Members!Accept
    <2>3. ASSUME NEW v \in User, role[v] = "OWNER" PROVE role'[v] = "OWNER"
      <3>1. v # u BY <1>2, <2>3
      <3> QED BY <1>2, <2>3, <3>1 DEF OwnerInv, RoleOfEach
    <2> QED BY <2>1, <2>2, <2>3 DEF OwnerInv, Members!OwnerRemains
  <1> QED BY <1>1, <1>2 DEF Members!Accept

\* Where the role that was read is still the member's, the check for the last owner tells
\* the truth: the member is no owner, stays one, or is not the only one.
LEMMA ChangeKeepsOwner ==
  ASSUME OwnerInv, NEW r \in Actor, Members!ChangeMember(r)
  PROVE  OwnerInv'
  <1> DEFINE u == req[r].user
  <1>1. CASE UNCHANGED <<role, overtaken>> BY <1>1 DEF OwnerInv, RoleOfEach, Members!OwnerRemains
  <1>2. CASE /\ Members!LastOwnerSafe(r) /\ role' = [role EXCEPT ![u] = req[r].next]
             /\ overtaken' = (overtaken \/ role[u] # req[r].was)
    <2>1. RoleOfEach' BY <1>2 DEF OwnerInv, RoleOfEach
    <2>2. ASSUME NEW v \in User, role[v] = "OWNER", v # u PROVE role'[v] = "OWNER"
      BY <1>2, <2>2 DEF OwnerInv, RoleOfEach
    <2>3. SUFFICES ASSUME ~overtaken' PROVE \E v \in User : role'[v] = "OWNER"
      BY <2>1, <2>3 DEF OwnerInv, Members!OwnerRemains
    <2>4. role[u] = req[r].was /\ ~overtaken BY <1>2, <2>3
    <2>5. PICK v \in User : role[v] = "OWNER" BY <2>4 DEF OwnerInv, Members!OwnerRemains
    <2>6. CASE v # u BY <2>2, <2>5, <2>6
    <2>7. CASE v = u
      <3>1. req[r].next = "OWNER" \/ \E w \in User \ {u} : role[w] = "OWNER"
        BY <1>2, <2>4, <2>5, <2>7 DEF Members!LastOwnerSafe
      <3>2. CASE req[r].next = "OWNER"
        <4>1. role'[v] = "OWNER" BY <1>2, <2>7, <3>2 DEF OwnerInv, RoleOfEach
        <4> QED BY <4>1
      <3>3. CASE \E w \in User \ {u} : role[w] = "OWNER" BY <2>2, <3>3
      <3> QED BY <3>1, <3>2, <3>3
    <2> QED BY <2>6, <2>7
  <1> QED BY <1>1, <1>2 DEF Members!ChangeMember

\* No other operation touches a role.
LEMMA OwnerStep == ASSUME OwnerInv, [Members!Next]_(Members!vars) PROVE OwnerInv'
  <1> USE DEF OwnerInv, RoleOfEach, Members!OwnerRemains
  <1>1. CASE UNCHANGED Members!vars BY <1>1 DEF Members!vars
  <1>2. CASE \E u \in User : Members!GrowLate(u) BY <1>2 DEF Members!GrowLate
  <1>3. ASSUME NEW r \in Actor,
               \/ Members!Revoke(r) \/ Members!MarkExpired(r) \/ Members!Issue(r)
               \/ \E u \in User :
                    \/ Members!ReadActor(r, u) \/ Members!ReadInvitation(r, u)
                         \/ Members!ReadToken(r, u)
                    \/ Members!ReadMember(r, u) \/ Members!CheckMembership(r, u)
                    \/ \E as \in Members!Role \ {"OWNER"} : Members!Invite(r, u, as)
        PROVE  OwnerInv'
    BY <1>3 DEF Members!Revoke, Members!MarkExpired, Members!Issue, Members!ReadActor,
         Members!ReadInvitation, Members!ReadToken, Members!ReadMember,
                Members!CheckMembership, Members!Invite
  <1>4. ASSUME NEW r \in Actor, Members!Accept(r) PROVE OwnerInv' BY <1>4, AcceptKeepsOwner
  <1>5. ASSUME NEW r \in Actor, Members!ChangeMember(r) PROVE OwnerInv' BY <1>5, ChangeKeepsOwner
  <1> QED BY <1>1, <1>2, <1>3, <1>4, <1>5 DEF Members!Next

\* However invitations, acceptances, changes of roles and removals overlap, the organization
\* has an owner until somebody is changed on the strength of a role no longer theirs.
THEOREM OwnerStays == OfficeSpec => []OwnerRemains
  <1> DEFINE Inv == scenario = "team" => OwnerInv
  <1>1. OfficeInit => Inv
    BY OwnerAtFirst DEF OfficeInit
  <1>2. Inv /\ [OfficeNext]_officeVars => Inv'
    BY ScenarioStays, TeamFollows, OwnerStep
  <1>3. Inv => OwnerRemains
    BY DEF OwnerInv, OwnerRemains
  <1> QED BY <1>1, <1>2, <1>3, PTL DEF OfficeSpec

-----------------------------------------------------------------------------
(* Retention: AppliedIsReported is not inductive: a worker at a run that is    *)
(* COMPLETED already would delete nothing and report that.  RunInv adds what   *)
(* rules it out as long as no live worker lost the run to another.             *)

\* A worker at a run that was not taken over from it owns the run, which is RUNNING.
WorkersOwn ==
    \A w \in Actor, r \in Run :
        work[w][r] \in {"running", "counted"} /\ r \notin stale
            => status[r] = "RUNNING" /\ owner[r] = w

\* Nobody is at a run that was not created, and only previews are counted.
WorkIsOfItsMode ==
    \A w \in Actor, r \in Run :
        /\ work[w][r] # "idle" => status[r] # "none"
        /\ work[w][r] = "counted" => mode[r] = "PREVIEW"

RunInv == Cleanup!TypeOK /\ WorkersOwn /\ WorkIsOfItsMode /\ Cleanup!AppliedIsReported

LEMMA ItemsAreCounted ==
  ASSUME NEW S \in SUBSET Data
  PROVE  Cleanup!Cardinality(S) \in Nat
  BY FS_Subset, FS_CardinalityType, ConstantsTyped, SameCounts

LEMMA NothingIsCounted == Cleanup!Cardinality({}) = 0
  BY FS_EmptySet, SameCounts

LEMMA RunInit == Cleanup!Init => RunInv
  BY NothingIsCounted, ConstantsTyped
     DEF Cleanup!Init, RunInv, Cleanup!TypeOK, Cleanup!Status, WorkersOwn, WorkIsOfItsMode,
         Cleanup!AppliedIsReported

LEMMA RunStep == RunInv /\ [Cleanup!Next]_(Cleanup!vars) => RunInv'
<1> SUFFICES ASSUME RunInv, [Cleanup!Next]_(Cleanup!vars) PROVE RunInv'
  OBVIOUS
<1> USE DEF Cleanup!jobVars, RunInv, Cleanup!TypeOK, Cleanup!Status, WorkersOwn,
     WorkIsOfItsMode, Cleanup!AppliedIsReported
<1>1. ASSUME NEW r \in Run, NEW m \in {"APPLY", "PREVIEW"}, Cleanup!Create(r, m) PROVE RunInv'
  <2>1. Cleanup!TypeOK'
    BY <1>1 DEF Cleanup!Create
  <2>2. WorkersOwn'
    BY <1>1 DEF Cleanup!Create
  <2>3. WorkIsOfItsMode'
    BY <1>1 DEF Cleanup!Create
  <2>4. Cleanup!AppliedIsReported'
    BY <1>1 DEF Cleanup!Create
  <2> QED BY <2>1, <2>2, <2>3, <2>4
<1>2. ASSUME NEW w \in Actor, NEW r \in Run, Cleanup!Claim(w, r) PROVE RunInv'
  <2>1. Cleanup!TypeOK'
    BY <1>2 DEF Cleanup!Claim, Cleanup!Go, Cleanup!Busy
  <2>2. WorkersOwn'
    BY <1>2 DEF Cleanup!Claim, Cleanup!Go, Cleanup!Busy
  <2>3. WorkIsOfItsMode'
    BY <1>2 DEF Cleanup!Claim, Cleanup!Go, Cleanup!Busy
  <2>4. Cleanup!AppliedIsReported'
    BY <1>2 DEF Cleanup!Claim, Cleanup!Go, Cleanup!Busy
  <2> QED BY <2>1, <2>2, <2>3, <2>4
<1>3. ASSUME NEW w \in Actor, NEW r \in Run, Cleanup!Apply(w, r) PROVE RunInv'
  <2> DEFINE gone == items \cap due[r]
  <2>1. Cleanup!Cardinality(gone) \in Nat
    BY ItemsAreCounted
  <2>2. Cleanup!TypeOK'
    BY <1>3, <2>1 DEF Cleanup!Apply, Cleanup!Complete, Cleanup!Go
  <2>3. WorkersOwn'
    BY <1>3 DEF Cleanup!Apply, Cleanup!Complete, Cleanup!Go
  <2>4. WorkIsOfItsMode'
    BY <1>3 DEF Cleanup!Apply, Cleanup!Complete, Cleanup!Go
  <2>5. Cleanup!AppliedIsReported'
    <3>1. r \notin stale => deleted[r] = {}
      BY <1>3 DEF Cleanup!Apply
    <3>2. deleted' = [deleted EXCEPT ![r] = @ \cup gone] /\ stale' = stale
      BY <1>3 DEF Cleanup!Apply
    <3>3. Cleanup!Complete(r, Cleanup!Cardinality(gone)) /\ mode[r] = "APPLY"
      BY <1>3 DEF Cleanup!Apply
    <3>4. r \notin stale => deleted'[r] = gone
      BY <3>1, <3>2
    <3>5. /\ status'[r] = "COMPLETED" /\ mode'[r] = "APPLY"
          /\ result'[r] = Cleanup!Cardinality(gone)
      BY <3>3 DEF Cleanup!Complete
    <3>6. \A s \in Run \ {r} :
            /\ status'[s] = status[s] /\ mode'[s] = mode[s]
            /\ result'[s] = result[s] /\ deleted'[s] = deleted[s]
      BY <3>2, <3>3 DEF Cleanup!Complete
    <3>7. ASSUME NEW s \in Run
          PROVE  /\ deleted'[s] # {} => status'[s] = "COMPLETED" /\ mode'[s] = "APPLY"
                 /\ status'[s] = "COMPLETED" /\ mode'[s] = "APPLY" /\ s \notin stale'
                      => result'[s] = Cleanup!Cardinality(deleted'[s])
      <4>1. CASE s = r
        BY <3>2, <3>4, <3>5, <4>1
      <4>2. CASE s # r
        BY <3>2, <3>6, <4>2
      <4> QED BY <4>1, <4>2
    <3> QED BY <3>7
  <2> QED BY <2>2, <2>3, <2>4, <2>5
<1>4. ASSUME NEW w \in Actor, NEW r \in Run, Cleanup!Count(w, r) PROVE RunInv'
  BY <1>4 DEF Cleanup!Count, Cleanup!Go
<1>5. ASSUME NEW w \in Actor, NEW r \in Run, Cleanup!Report(w, r) PROVE RunInv'
  <2>1. PICK count \in 0 .. Cleanup!Cardinality(due[r]) : Cleanup!Complete(r, count)
    BY <1>5 DEF Cleanup!Report
  <2>2. count \in Nat
    BY ItemsAreCounted, <2>1
  <2>3. mode[r] = "PREVIEW"
    BY <1>5 DEF Cleanup!Report
  <2>4. Cleanup!TypeOK'
    BY <1>5, <2>1, <2>2 DEF Cleanup!Report, Cleanup!Complete, Cleanup!Go
  <2>5. WorkersOwn'
    BY <1>5, <2>1 DEF Cleanup!Report, Cleanup!Complete, Cleanup!Go
  <2>6. WorkIsOfItsMode'
    BY <1>5, <2>1 DEF Cleanup!Report, Cleanup!Complete, Cleanup!Go
  <2>7. Cleanup!AppliedIsReported'
    BY <1>5, <2>1, <2>3 DEF Cleanup!Report, Cleanup!Complete, Cleanup!Go
  <2> QED BY <2>4, <2>5, <2>6, <2>7
<1>6. ASSUME NEW w \in Actor, NEW r \in Run, Cleanup!Return(w, r) PROVE RunInv'
  BY <1>6 DEF Cleanup!Return, Cleanup!Go
<1>7. ASSUME NEW w \in Actor, NEW r \in Run, Cleanup!Fail(w, r) PROVE RunInv'
  <2>1. \/ /\ Cleanup!Fails(w, r)
           /\ status' = [status EXCEPT ![r] = "FAILED"]
           /\ owner' = [owner EXCEPT ![r] = Cleanup!None]
        \/ UNCHANGED <<status, owner>>
    BY <1>7 DEF Cleanup!Fail
  <2>2. Cleanup!Go(w, r, "idle") /\ faults' \in 0 .. MaxFaults
    BY ConstantsTyped, <1>7 DEF Cleanup!Fail, Cleanup!Fault
  <2>3. UNCHANGED <<mode, result, due, items, expired, deleted, stale>>
    BY <1>7 DEF Cleanup!Fail
  <2>4. Cleanup!TypeOK'
    BY <2>1, <2>2, <2>3 DEF Cleanup!Go
  <2>5. WorkersOwn'
    BY <2>1, <2>2, <2>3 DEF Cleanup!Go, Cleanup!Fails
  <2>6. WorkIsOfItsMode'
    BY <2>1, <2>2, <2>3 DEF Cleanup!Go, Cleanup!Fails
  <2>7. Cleanup!AppliedIsReported'
    BY <2>1, <2>2, <2>3 DEF Cleanup!Go, Cleanup!Fails
  <2> QED BY <2>4, <2>5, <2>6, <2>7
<1>8. ASSUME NEW w \in Actor, Cleanup!Die(w) PROVE RunInv'
  <2>1. faults' \in 0 .. MaxFaults
    BY ConstantsTyped, <1>8 DEF Cleanup!Die, Cleanup!Fault
  <2> QED BY <1>8, <2>1 DEF Cleanup!Die
<1>9. ASSUME NEW w \in Actor, Cleanup!Renew(w) PROVE RunInv'
  BY <1>9 DEF Cleanup!Renew
<1>10. ASSUME NEW r \in Run, Cleanup!LoseLease(r) PROVE RunInv'
  <2>1. faults' \in 0 .. MaxFaults
    BY ConstantsTyped, <1>10 DEF Cleanup!LoseLease, Cleanup!Fault
  <2> QED BY <1>10, <2>1 DEF Cleanup!LoseLease
<1>11. ASSUME Cleanup!Resume PROVE RunInv'
  <2>1. /\ \A r \in Cleanup!Lost : status[r] = "RUNNING" /\ status'[r] = "QUEUED"
        /\ \A r \in Run \ Cleanup!Lost : status'[r] = status[r] /\ owner'[r] = owner[r]
    BY <1>11 DEF Cleanup!Resume, Cleanup!Lost
  <2>2. UNCHANGED <<mode, result, due, items, up, work, deleted, faults>>
    BY <1>11 DEF Cleanup!Resume
  <2>3. Cleanup!TypeOK'
    BY <1>11, <2>2 DEF Cleanup!Resume, Cleanup!Lost
  <2>4. WorkersOwn'
    BY <1>11, <2>1, <2>2 DEF Cleanup!Resume
  <2>5. WorkIsOfItsMode'
    BY <2>1, <2>2
  <2>6. Cleanup!AppliedIsReported'
    <3>1. \A r \in Run : r \in stale => r \in stale'
      BY <1>11 DEF Cleanup!Resume
    <3>2. \A r \in Cleanup!Lost : deleted[r] = {} /\ status'[r] # "COMPLETED"
      BY <2>1 DEF Cleanup!Lost
    <3> QED BY <2>1, <2>2, <3>1, <3>2
  <2> QED BY <2>3, <2>4, <2>5, <2>6
<1>12. CASE UNCHANGED Cleanup!vars
  BY <1>12 DEF Cleanup!vars
<1> QED
  BY <1>1, <1>2, <1>3, <1>4, <1>5, <1>6, <1>7, <1>8, <1>9, <1>10, <1>11, <1>12 DEF Cleanup!Next

\* For all workers, runs and finite sets of rows: a run that deleted rows stays COMPLETED,
\* a preview deletes nothing, and unless a second worker took it over from a live one its
\* result is the number of rows.
THEOREM DeletionsAreReported == OfficeSpec => []AppliedIsReported
<1> DEFINE Inv == scenario = "retention" => RunInv
<1>1. OfficeInit => Inv
  BY RunInit DEF OfficeInit
<1>2. Inv /\ [OfficeNext]_officeVars => Inv'
  BY ScenarioStays, RetentionFollows, RunStep
<1>3. Inv => AppliedIsReported
  BY DEF RunInv, AppliedIsReported
<1> QED BY <1>1, <1>2, <1>3, PTL DEF OfficeSpec

-----------------------------------------------------------------------------
(* Connections: OneDefault rests on rows that never go, a count taken before   *)
(* the first save, and the unique index; DisconnectedIsBare on the requests    *)
(* that may still hold an account that was disconnected.                       *)

EbayShaped ==
    /\ conn \in [Data -> Ebay!Row]
    /\ asks = [r \in Actor |-> asks[r]]
    /\ taken \in BOOLEAN
    /\ \A c \in Data : conn[c].default => conn[c].born # 0

HasRow(c) == c \in Data /\ conn[c].born # 0

ReadWell ==
    \A r \in Actor :
        /\ asks[r].at = "save" =>
              /\ asks[r].id \in Data /\ asks[r].first \in BOOLEAN
              /\ asks[r].first \/ \E c \in Data : HasRow(c)
        /\ asks[r].at \in {"expire", "renew", "store", "resources", "default", "drop"}
             => HasRow(asks[r].id)
        /\ asks[r].at \in {"resources", "default"} => asks[r].wants \in BOOLEAN

DefaultsAgree ==
    /\ \A c, d \in Data : conn[c].default /\ conn[d].default => c = d
    /\ ~taken => \A c \in Data : HasRow(c) => \E d \in Data : conn[d].default

DefaultInv == EbayShaped /\ ReadWell /\ DefaultsAgree

\* An action that leaves the defaults and the rows as they are.
KeepsDefaults ==
    /\ conn' \in [Data -> Ebay!Row]
    /\ taken' = taken
    /\ \A c \in Data : conn'[c].default = conn[c].default /\ conn'[c].born = conn[c].born

LEMMA QuietStep ==
    ASSUME DefaultInv, KeepsDefaults, asks' = [r \in Actor |-> asks'[r]], ReadWell'
    PROVE  DefaultInv'
BY DEF DefaultInv, KeepsDefaults, EbayShaped, DefaultsAgree, HasRow

\* An account that is replaced as a whole, except its default and its creation.
LEMMA KeptRow ==
    ASSUME DefaultInv, NEW c \in Data, NEW kept \in Ebay!Row,
           kept.default = conn[c].default, kept.born = conn[c].born
    PROVE  LET new == [conn EXCEPT ![c] = kept]
           IN /\ new \in [Data -> Ebay!Row]
              /\ \A d \in Data : new[d].default = conn[d].default /\ new[d].born = conn[d].born
BY DEF DefaultInv, EbayShaped

-----------------------------------------------------------------------------
LEMMA DefaultInit == Ebay!Init => DefaultInv
<1> SUFFICES ASSUME Ebay!Init PROVE DefaultInv
  OBVIOUS
<1>1. Ebay!NoRow \in Ebay!Row /\ Ebay!NoRow.born = 0 /\ Ebay!NoRow.default = FALSE
  BY DEF Ebay!NoRow, Ebay!Row
<1>2. EbayShaped
  BY <1>1 DEF Ebay!Init, EbayShaped
<1>3. ReadWell
  BY DEF Ebay!Init, ReadWell, Ebay!Idle
<1>4. DefaultsAgree
  BY <1>1 DEF Ebay!Init, DefaultsAgree, HasRow
<1> QED BY <1>2, <1>3, <1>4 DEF DefaultInv

\* Requests that read, and whatever leaves the accounts alone.
LEMMA DefaultRead ==
    ASSUME DefaultInv, UNCHANGED <<conn, taken>>, NEW r \in Actor,
           \/ \E s \in Ebay!State : Ebay!ReadState(r, s)
           \/ Ebay!Consume(r) \/ Ebay!Exchange(r) \/ Ebay!CheckResources(r) \/ Ebay!Fail(r)
           \/ \E c \in Data : \/ \E why \in {"call", "sync"} : Ebay!GetAccessToken(r, c, why)
                                \/ \E wants \in BOOLEAN : Ebay!CheckAccount(r, c, wants)
                                \/ Ebay!ReadToDisconnect(r, c)
    PROVE  DefaultInv'
<1>1. KeepsDefaults
  BY DEF KeepsDefaults, DefaultInv, EbayShaped
<1>2. \A d : HasRow(d)' <=> HasRow(d)
  BY DEF HasRow
<1>4. ASSUME NEW s \in Ebay!State, Ebay!ReadState(r, s)
      PROVE  ReadWell' /\ asks' = [q \in Actor |-> asks'[q]]
  BY <1>2, <1>4 DEF Ebay!ReadState, Ebay!Begin, DefaultInv, EbayShaped, ReadWell, Ebay!Idle
<1>5. CASE Ebay!Consume(r)
  BY <1>1, <1>2, <1>5, QuietStep DEF Ebay!Consume, Ebay!Become, Ebay!End, DefaultInv,
       EbayShaped, ReadWell, Ebay!Idle
<1>6. CASE Ebay!Exchange(r)
  <2> DEFINE first == Ebay!Rows = {}
  <2>1. first \/ \E e \in Data : HasRow(e)
    BY DEF Ebay!Rows, HasRow
  <2>2. first \in BOOLEAN
    OBVIOUS
  <2>3. (\E d \in Data : Ebay!Become(r, [at |-> "save", id |-> d, first |-> first]))
       \/ Ebay!End(r)
    BY <1>6 DEF Ebay!Exchange
  <2> HIDE DEF first
  <2>5. ReadWell' /\ asks' = [q \in Actor |-> asks'[q]]
    BY <1>2, <2>1, <2>2, <2>3 DEF Ebay!Become, Ebay!End, DefaultInv, EbayShaped, ReadWell,
         Ebay!Idle
  <2> QED BY <1>1, <2>5, QuietStep
<1>7. CASE Ebay!CheckResources(r)
  BY <1>1, <1>2, <1>7, QuietStep DEF Ebay!CheckResources, Ebay!Become, Ebay!End, DefaultInv,
       EbayShaped, ReadWell, Ebay!Idle
<1>8. CASE Ebay!Fail(r)
  BY <1>1, <1>2, <1>8, QuietStep DEF Ebay!Fail, Ebay!Become, Ebay!End, DefaultInv, EbayShaped,
       ReadWell, Ebay!Idle
<1>9. ASSUME NEW c \in Data, NEW why \in {"call", "sync"}, Ebay!GetAccessToken(r, c, why)
      PROVE  ReadWell' /\ asks' = [q \in Actor |-> asks'[q]]
  BY <1>2, <1>9 DEF Ebay!GetAccessToken, Ebay!Begin, DefaultInv, EbayShaped, ReadWell,
       Ebay!Idle, HasRow, Ebay!Rows
<1>10. ASSUME NEW c \in Data, NEW wants \in BOOLEAN, Ebay!CheckAccount(r, c, wants)
       PROVE  ReadWell' /\ asks' = [q \in Actor |-> asks'[q]]
  BY <1>2, <1>10 DEF Ebay!CheckAccount, Ebay!Begin, DefaultInv, EbayShaped, ReadWell,
       Ebay!Idle, HasRow, Ebay!Rows
<1>11. ASSUME NEW c \in Data, Ebay!ReadToDisconnect(r, c)
       PROVE  DefaultInv'
  BY <1>1, <1>2, <1>11, QuietStep DEF Ebay!ReadToDisconnect, Ebay!Begin, DefaultInv,
       EbayShaped, ReadWell, Ebay!Idle, HasRow, Ebay!Rows
<1> QED BY <1>1, <1>4, <1>5, <1>6, <1>7, <1>8, <1>9, <1>10, <1>11, QuietStep

\* Requests that change a row, neither its default nor its creation.
LEMMA DefaultChange ==
    ASSUME DefaultInv, NEW r \in Actor,
           Ebay!MarkExpired(r) \/ Ebay!Renew(r) \/ Ebay!StoreResources(r)
    PROVE  DefaultInv'
<1>1. ASSUME KeepsDefaults, HasRow(asks[r].id),
             Ebay!End(r) \/ \E why, got : Ebay!After(r, why, got)
      PROVE  DefaultInv'
  <2>1. \A d : HasRow(d) => HasRow(d)'
    BY <1>1 DEF KeepsDefaults, HasRow
  <2>2. ReadWell' /\ asks' = [q \in Actor |-> asks'[q]]
    BY <1>1, <2>1 DEF Ebay!After, Ebay!Become, Ebay!End, DefaultInv, EbayShaped, ReadWell,
         Ebay!Idle
  <2> QED BY <1>1, <2>2, QuietStep
<1>2. CASE Ebay!MarkExpired(r)
  <2>1. KeepsDefaults /\ HasRow(asks[r].id)
    BY <1>2 DEF Ebay!MarkExpired, KeepsDefaults, DefaultInv, EbayShaped, ReadWell, HasRow,
         Ebay!Row
  <2> QED BY <1>1, <1>2, <2>1 DEF Ebay!MarkExpired
<1>3. CASE Ebay!Renew(r)
  <2>1. KeepsDefaults /\ HasRow(asks[r].id)
    <3>1. CASE conn' = [conn EXCEPT ![asks[r].id].status = "ACTIVE",
         ![asks[r].id].access = "fresh"]
      BY <1>3, <3>1 DEF Ebay!Renew, KeepsDefaults, DefaultInv, EbayShaped, ReadWell, HasRow,
           Ebay!Row
    <3>2. CASE conn' = [conn EXCEPT ![asks[r].id].status = "ERROR"]
      BY <1>3, <3>2 DEF Ebay!Renew, KeepsDefaults, DefaultInv, EbayShaped, ReadWell, HasRow,
           Ebay!Row
    <3> QED BY <1>3, <3>1, <3>2 DEF Ebay!Renew
  <2>2. \E why, got : Ebay!After(r, why, got)
    BY <1>3 DEF Ebay!Renew
  <2> QED BY <1>1, <2>1, <2>2
<1>4. CASE Ebay!StoreResources(r)
  <2>1. KeepsDefaults /\ HasRow(asks[r].id)
    BY <1>4 DEF Ebay!StoreResources, KeepsDefaults, DefaultInv, EbayShaped, ReadWell, HasRow,
         Ebay!Row
  <2> QED BY <1>1, <1>4, <2>1 DEF Ebay!StoreResources
<1> QED BY <1>2, <1>3, <1>4

-----------------------------------------------------------------------------
\* A new account is the default if it was the first when counted and none was made the
\* default since.
LEMMA DefaultSaved == ASSUME DefaultInv, NEW r \in Actor, Ebay!Save(r) PROVE DefaultInv'
<1> DEFINE c == asks[r].id
           new == [born |-> Ebay!Cardinality(Ebay!Rows) + 1, status |-> "ACTIVE",
                default |-> asks[r].first,
                   access |-> "fresh", refresh |-> "good", resources |-> FALSE]
<1>1. c \in Data /\ asks[r].first \in BOOLEAN /\ (asks[r].first \/ \E d \in Data : HasRow(d))
  BY DEF Ebay!Save, DefaultInv, ReadWell
<1>2. new \in Ebay!Row /\ new.born # 0
  <2>1. Ebay!Cardinality(Ebay!Rows) \in Nat
    BY FS_Subset, FS_CardinalityType, ConstantsTyped, SameCounts DEF Ebay!Rows
  <2> QED BY <1>1, <2>1 DEF Ebay!Row
<1>3. ASSUME \A d : HasRow(d) => HasRow(d)'
      PROVE  ReadWell' /\ asks' = [q \in Actor |-> asks'[q]]
  BY <1>3 DEF Ebay!Save, Ebay!End, Ebay!Become, DefaultInv, EbayShaped, ReadWell, Ebay!Idle
<1>4. CASE c \in Ebay!Rows /\ conn' = [conn EXCEPT ![c] = Ebay!Authorized(@)]
  <2>1. KeepsDefaults
    <3> DEFINE kept == Ebay!Authorized(conn[c])
    <3>1. conn[c] \in Ebay!Row
      BY <1>1 DEF DefaultInv, EbayShaped
    <3>2. kept \in Ebay!Row /\ kept.default = conn[c].default /\ kept.born = conn[c].born
      BY <3>1 DEF Ebay!Authorized, Ebay!Row
    <3>3. conn' = [conn EXCEPT ![c] = kept]
      BY <1>4
    <3> HIDE DEF kept
    <3> QED BY <1>1, <3>2, <3>3, KeptRow DEF Ebay!Save, KeepsDefaults
  <2>2. \A d : HasRow(d) => HasRow(d)'
    BY <2>1 DEF KeepsDefaults, HasRow
  <2> QED BY <1>3, <2>1, <2>2, QuietStep
<1>5. CASE UNCHANGED conn
  <2>1. KeepsDefaults
    BY <1>5 DEF Ebay!Save, KeepsDefaults, DefaultInv, EbayShaped
  <2> QED BY <1>3, <1>5, <2>1, QuietStep DEF HasRow
<1>6. CASE /\ c \notin Ebay!Rows /\ ~(asks[r].first /\ Ebay!Defaults # {})
           /\ conn' = [conn EXCEPT ![c] = new]
  <2>1. ~HasRow(c) /\ ~conn[c].default
    BY <1>1, <1>6 DEF Ebay!Rows, HasRow, DefaultInv, EbayShaped
  <2>2. asks[r].first => \A d \in Data : ~conn[d].default
    BY <1>6 DEF Ebay!Defaults, Ebay!Rows, DefaultInv, EbayShaped
  <2>3. conn' \in [Data -> Ebay!Row] /\ conn'[c] = new /\ \A d \in Data \ {c} : conn'[d] = conn[d]
    BY <1>1, <1>2, <1>6 DEF DefaultInv, EbayShaped
  <2>4. new.default = asks[r].first
    OBVIOUS
  <2> HIDE DEF new
  <2>5. \A d : HasRow(d) => HasRow(d)'
    BY <1>2, <2>3 DEF HasRow
  <2>6. EbayShaped'
    BY <1>1, <1>2, <1>3, <2>3, <2>5 DEF Ebay!Save, DefaultInv, EbayShaped
  <2>7. DefaultsAgree'
    BY <1>1, <2>1, <2>2, <2>3, <2>4 DEF Ebay!Save, DefaultInv, DefaultsAgree, HasRow
  <2> QED BY <1>3, <2>5, <2>6, <2>7 DEF DefaultInv
<1> QED BY <1>4, <1>5, <1>6 DEF Ebay!Save

\* A change of the default takes it from everybody else, and an account that gives it up
\* had it only if a save made it the default meanwhile (taken).
LEMMA DefaultUpdated == ASSUME DefaultInv, NEW r \in Actor, Ebay!UpdateDefaults(r)
     PROVE DefaultInv'
<1> DEFINE c == asks[r].id
<1>1. HasRow(c) /\ asks[r].wants \in BOOLEAN
  BY DEF Ebay!UpdateDefaults, DefaultInv, ReadWell
<1>2. /\ conn' \in [Data -> Ebay!Row]
      /\ \A d \in Data : conn'[d].born = conn[d].born
      /\ conn'[c].default = asks[r].wants
      /\ \A d \in Data \ {c} : conn'[d].default = (conn[d].default /\ ~asks[r].wants)
  BY <1>1 DEF Ebay!UpdateDefaults, DefaultInv, EbayShaped, Ebay!Row, HasRow
<1>3. \A d : HasRow(d) <=> HasRow(d)'
  BY <1>2 DEF HasRow
<1>4. EbayShaped' /\ ReadWell'
  <2>1. asks' = [q \in Actor |-> asks'[q]] /\ ReadWell'
    BY <1>3 DEF Ebay!UpdateDefaults, Ebay!End, Ebay!Become, DefaultInv, EbayShaped, ReadWell,
         Ebay!Idle
  <2>2. taken' \in BOOLEAN
    BY DEF Ebay!UpdateDefaults
  <2> QED BY <1>1, <1>2, <2>1, <2>2 DEF DefaultInv, EbayShaped, HasRow
<1>5. DefaultsAgree'
  <2>1. CASE asks[r].wants
    BY <1>1, <1>2, <2>1 DEF DefaultsAgree, HasRow
  <2>2. CASE ~asks[r].wants
    BY <1>1, <1>2, <1>3, <2>2 DEF Ebay!UpdateDefaults, DefaultInv, DefaultsAgree, HasRow
  <2> QED BY <1>1, <2>1, <2>2
<1> QED BY <1>4, <1>5 DEF DefaultInv

\* A disconnected account keeps its default, or the replacement is the only one to have it.
LEMMA DefaultDropped == ASSUME DefaultInv, NEW r \in Actor, Ebay!Disconnect(r) PROVE DefaultInv'
<1> DEFINE c == asks[r].id
           dropped == [conn EXCEPT ![c] = Ebay!Disconnected(c)]
<1>1. HasRow(c)
  BY DEF Ebay!Disconnect, DefaultInv, ReadWell
<1>2. /\ dropped \in [Data -> Ebay!Row]
      /\ \A d \in Data : dropped[d].default = conn[d].default /\ dropped[d].born = conn[d].born
  <2> DEFINE kept == Ebay!Disconnected(c)
  <2>1. c \in Data /\ conn[c] \in Ebay!Row
    BY <1>1 DEF HasRow, DefaultInv, EbayShaped
  <2>2. kept \in Ebay!Row /\ kept.default = conn[c].default /\ kept.born = conn[c].born
    BY <2>1 DEF Ebay!Disconnected, Ebay!Row
  <2>3. dropped = [conn EXCEPT ![c] = kept]
    OBVIOUS
  <2> HIDE DEF kept, dropped
  <2> QED BY <2>1, <2>2, <2>3, KeptRow
<1>3. ASSUME \A d : HasRow(d) => HasRow(d)'
      PROVE  ReadWell' /\ asks' = [q \in Actor |-> asks'[q]]
  BY <1>3 DEF Ebay!Disconnect, Ebay!End, Ebay!Become, DefaultInv, EbayShaped, ReadWell, Ebay!Idle
<1>4. CASE conn' = dropped \/ UNCHANGED conn
  <2>1. KeepsDefaults
    BY <1>2, <1>4 DEF Ebay!Disconnect, KeepsDefaults, DefaultInv, EbayShaped
  <2>2. \A d : HasRow(d) => HasRow(d)'
    BY <2>1 DEF KeepsDefaults, HasRow
  <2> QED BY <1>3, <2>1, <2>2, QuietStep
<1>5. ASSUME NEW d \in Ebay!Replacement(r), ~\E e \in Data \ {d} : dropped[e].default,
             conn' = [dropped EXCEPT ![d].default = TRUE]
      PROVE  DefaultInv'
  <2>1. HasRow(d)
    BY <1>5 DEF Ebay!Replacement, Ebay!Rows, HasRow
  <2> HIDE DEF dropped
  <2>2. /\ conn' \in [Data -> Ebay!Row] /\ conn'[d].default
        /\ \A e \in Data : conn'[e].born = conn[e].born
        /\ \A e \in Data \ {d} : ~conn'[e].default
    BY <1>2, <1>5, <2>1 DEF Ebay!Row, HasRow
  <2>3. \A e : HasRow(e) => HasRow(e)'
    BY <2>2 DEF HasRow
  <2>4. EbayShaped' /\ DefaultsAgree'
    BY <1>3, <2>1, <2>2, <2>3 DEF Ebay!Disconnect, DefaultInv, EbayShaped, DefaultsAgree, HasRow
  <2> QED BY <1>3, <2>3, <2>4 DEF DefaultInv
<1> QED BY <1>4, <1>5 DEF Ebay!Disconnect

-----------------------------------------------------------------------------
LEMMA DefaultStep == ASSUME DefaultInv, [Ebay!Next]_(Ebay!vars) PROVE DefaultInv'
<1>1. CASE UNCHANGED Ebay!vars
  BY <1>1 DEF Ebay!vars, DefaultInv, EbayShaped, ReadWell, DefaultsAgree, HasRow
<1>2. ASSUME NEW s \in Ebay!State, Ebay!CreateAuthorization(s) \/ Ebay!StateExpires(s)
      PROVE  DefaultInv'
  BY <1>2 DEF Ebay!CreateAuthorization, Ebay!StateExpires, DefaultInv, EbayShaped, ReadWell,
       DefaultsAgree, HasRow
<1>3. ASSUME NEW c \in Data, Ebay!AccessExpires(c) \/ Ebay!RefreshExpires(c)
      PROVE  DefaultInv'
  <2>1. KeepsDefaults /\ UNCHANGED asks
    BY <1>3 DEF Ebay!AccessExpires, Ebay!RefreshExpires, KeepsDefaults, DefaultInv, EbayShaped,
         Ebay!Row
  <2>2. ReadWell'
    BY <2>1 DEF KeepsDefaults, DefaultInv, ReadWell, HasRow
  <2> QED BY <2>1, <2>2, QuietStep DEF DefaultInv, EbayShaped
<1>4. ASSUME NEW r \in Actor, NEW s \in Ebay!State, Ebay!ReadState(r, s)
      PROVE  DefaultInv'
  BY <1>4, DefaultRead DEF Ebay!ReadState
<1>5. ASSUME NEW r \in Actor, Ebay!Consume(r) \/ Ebay!Exchange(r) \/ Ebay!CheckResources(r)
     \/ Ebay!Fail(r)
      PROVE  DefaultInv'
  BY <1>5, DefaultRead DEF Ebay!Consume, Ebay!Exchange, Ebay!CheckResources, Ebay!Fail
<1>6. ASSUME NEW r \in Actor, NEW c \in Data,
             \/ \E why \in {"call", "sync"} : Ebay!GetAccessToken(r, c, why)
             \/ \E wants \in BOOLEAN : Ebay!CheckAccount(r, c, wants)
             \/ Ebay!ReadToDisconnect(r, c)
      PROVE  DefaultInv'
  BY <1>6, DefaultRead DEF Ebay!GetAccessToken, Ebay!CheckAccount, Ebay!ReadToDisconnect
<1>7. ASSUME NEW r \in Actor, Ebay!MarkExpired(r) \/ Ebay!Renew(r) \/ Ebay!StoreResources(r)
      PROVE  DefaultInv'
  BY <1>7, DefaultChange
<1>8. ASSUME NEW r \in Actor, Ebay!Save(r) \/ Ebay!UpdateDefaults(r) \/ Ebay!Disconnect(r)
      PROVE  DefaultInv'
  BY <1>8, DefaultSaved, DefaultUpdated, DefaultDropped
<1> QED BY <1>1, <1>2, <1>3, <1>4, <1>5, <1>6, <1>7, <1>8 DEF Ebay!Next

LEMMA DefaultMeansOne == DefaultInv => Ebay!OneDefault
<1> SUFFICES ASSUME DefaultInv, Ebay!Rows # {}, ~taken PROVE \E c \in Data : Ebay!Defaults = {c}
  BY DEF Ebay!OneDefault
<1>1. PICK c \in Data : conn[c].default
  BY DEF Ebay!Rows, DefaultInv, DefaultsAgree, HasRow
<1>2. Ebay!Defaults = {c}
  BY <1>1 DEF Ebay!Defaults, Ebay!Rows, DefaultInv, EbayShaped, DefaultsAgree
<1> QED BY <1>2

\* For every set of requests and every finite set of accounts: an organization with an
\* account has one default account, until a save takes the default away that another
\* request had just given.
THEOREM OneDefaultAlways == OfficeSpec => []OneDefault
<1> DEFINE Inv == scenario = "seller" => DefaultInv
<1>1. OfficeInit => Inv
  BY DefaultInit DEF OfficeInit
<1>2. Inv /\ [OfficeNext]_officeVars => Inv'
  BY ScenarioStays, EbayFollows, DefaultStep
<1>3. Inv => OneDefault
  BY DefaultMeansOne DEF OneDefault
<1> QED BY <1>1, <1>2, <1>3, PTL DEF OfficeSpec

-----------------------------------------------------------------------------
\* Nobody holds an account that was disconnected while nobody used it, except to store
\* that nothing was found.
Unseen ==
    \A c \in bare \ raced, q \in Actor :
        /\ asks[q].at \in {"expire", "renew"} => asks[q].id # c
        /\ asks[q].at = "store" /\ asks[q].id = c => ~asks[q].got

BareInv == bare \subseteq Data /\ Ebay!DisconnectedIsBare /\ Unseen

\* The account of a request that asks eBay, or is to mark it expired, may change: it is
\* in why.  Of the others only what the defaults are.
LEMMA BareInUse ==
    ASSUME DefaultInv, BareInv, NEW r \in Actor, Ebay!MarkExpired(r) \/ Ebay!Renew(r)
         \/ Ebay!StoreResources(r)
    PROVE  BareInv'
<1> DEFINE c == asks[r].id
<1>1. c \in Data /\ conn \in [Data -> Ebay!Row] /\ asks = [q \in Actor |-> asks[q]]
  BY DEF Ebay!MarkExpired, Ebay!Renew, Ebay!StoreResources, DefaultInv, EbayShaped, ReadWell,
       HasRow
<1>2. UNCHANGED <<bare, raced>>
  BY DEF Ebay!MarkExpired, Ebay!Renew, Ebay!StoreResources
<1>3. ASSUME NEW why, NEW got, Ebay!After(r, why, got), c \notin bare \ raced
      PROVE  Unseen'
  BY <1>1, <1>2, <1>3 DEF Ebay!After, Ebay!Become, Ebay!End, Ebay!Idle, BareInv, Unseen
<1>4. ASSUME Ebay!End(r)
      PROVE  Unseen'
  BY <1>1, <1>2, <1>4 DEF Ebay!Become, Ebay!End, Ebay!Idle, BareInv, Unseen
<1>5. CASE Ebay!MarkExpired(r)
  <2>1. c \notin bare \ raced
    BY <1>5 DEF Ebay!MarkExpired, BareInv, Unseen
  <2>2. Ebay!DisconnectedIsBare'
    BY <1>1, <1>2, <1>5, <2>1 DEF Ebay!MarkExpired, BareInv, Ebay!DisconnectedIsBare, Ebay!Row
  <2> QED BY <1>2, <1>3, <1>5, <2>1, <2>2 DEF Ebay!MarkExpired, BareInv
<1>6. CASE Ebay!Renew(r)
  <2>1. c \notin bare \ raced
    BY <1>6 DEF Ebay!Renew, BareInv, Unseen
  <2>2. /\ \A d \in Data : conn'[d].refresh = conn[d].refresh
        /\ \A d \in Data \ {c} : conn'[d] = conn[d]
    <3>1. CASE conn' = [conn EXCEPT ![c].status = "ACTIVE", ![c].access = "fresh"]
      BY <1>1, <3>1 DEF Ebay!Row
    <3>2. CASE conn' = [conn EXCEPT ![c].status = "ERROR"]
      BY <1>1, <3>2 DEF Ebay!Row
    <3> QED BY <1>6, <3>1, <3>2 DEF Ebay!Renew
  <2>3. Ebay!DisconnectedIsBare'
    BY <1>2, <2>1, <2>2 DEF BareInv, Ebay!DisconnectedIsBare
  <2>4. \E why, got : Ebay!After(r, why, got)
    BY <1>6 DEF Ebay!Renew
  <2> QED BY <1>2, <1>3, <2>1, <2>3, <2>4 DEF BareInv
<1>7. CASE Ebay!StoreResources(r)
  <2>1. c \in bare \ raced => ~asks[r].got
    BY <1>7 DEF Ebay!StoreResources, BareInv, Unseen
  <2>2. Ebay!DisconnectedIsBare'
    BY <1>1, <1>2, <1>7, <2>1 DEF Ebay!StoreResources, BareInv, Ebay!DisconnectedIsBare, Ebay!Row
  <2> QED BY <1>2, <1>4, <1>7, <2>2 DEF Ebay!StoreResources, BareInv
<1> QED BY <1>5, <1>6, <1>7

\* A disconnection makes the account bare, and raced if somebody is using it.
LEMMA BareDropped == ASSUME DefaultInv, BareInv, NEW r \in Actor, Ebay!Disconnect(r)
     PROVE BareInv'
<1> DEFINE c == asks[r].id
           dropped == [conn EXCEPT ![c] = Ebay!Disconnected(c)]
<1>1. c \in Data /\ conn \in [Data -> Ebay!Row] /\ asks = [q \in Actor |-> asks[q]]
  BY DEF Ebay!Disconnect, DefaultInv, EbayShaped, ReadWell, HasRow
<1>2. /\ dropped[c].status = "DISCONNECTED" /\ dropped[c].access = "none"
      /\ dropped[c].refresh = "none" /\ ~dropped[c].resources
      /\ dropped \in [Data -> Ebay!Row]
      /\ \A d \in Data \ {c} : dropped[d] = conn[d]
  <2> DEFINE kept == Ebay!Disconnected(c)
  <2>1. /\ kept \in Ebay!Row /\ kept.status = "DISCONNECTED" /\ kept.access = "none"
        /\ kept.refresh = "none" /\ ~kept.resources
    <3>1. conn[c] \in Ebay!Row
      BY <1>1
    <3> QED BY <3>1 DEF Ebay!Disconnected, Ebay!Row
  <2>2. dropped = [conn EXCEPT ![c] = kept]
    OBVIOUS
  <2> HIDE DEF kept, dropped
  <2> QED BY <1>1, <2>1, <2>2
<1>3. asks' = [asks EXCEPT ![r] = Ebay!Idle]
  BY DEF Ebay!Disconnect, Ebay!End, Ebay!Become
<1>4. CASE UNCHANGED <<conn, bare, raced>>
  BY <1>1, <1>3, <1>4 DEF BareInv, Ebay!DisconnectedIsBare, Unseen, Ebay!Idle
<1>5. ASSUME Ebay!Drop(c), \A d \in Data : /\ conn'[d].status = dropped[d].status
                                       /\ conn'[d].access = dropped[d].access
                                       /\ conn'[d].refresh = dropped[d].refresh
                                       /\ conn'[d].resources = dropped[d].resources
      PROVE  BareInv'
  <2>1. bare' \subseteq Data
    BY <1>1, <1>5 DEF Ebay!Drop, BareInv
  <2> HIDE DEF dropped
  <2>2. Ebay!DisconnectedIsBare'
    BY <1>2, <1>5, <2>1 DEF Ebay!Drop, BareInv, Ebay!DisconnectedIsBare
  <2>3. Unseen'
    <3>1. SUFFICES ASSUME NEW d \in bare' \ raced', NEW q \in Actor,
                          asks'[q].at \in {"expire", "renew", "store"}, asks'[q].id = d
                   PROVE  asks'[q].at = "store" /\ ~asks'[q].got
      BY DEF Unseen
    <3>2. q # r /\ asks'[q] = asks[q]
      BY <1>1, <1>3, <3>1 DEF Ebay!Idle
    <3>3. d # c
      BY <1>5, <3>1, <3>2 DEF Ebay!Drop, Ebay!Users
    <3>4. d \in bare \ raced
      BY <1>5, <3>1, <3>3 DEF Ebay!Drop
    <3> QED BY <3>1, <3>2, <3>4 DEF BareInv, Unseen
  <2> QED BY <2>1, <2>2, <2>3 DEF BareInv
<1>6. CASE conn' = dropped /\ Ebay!Drop(c)
  BY <1>5, <1>6
<1>7. ASSUME NEW d \in Ebay!Replacement(r), conn' = [dropped EXCEPT ![d].default = TRUE],
     Ebay!Drop(c)
      PROVE  BareInv'
  <2> HIDE DEF dropped
  <2> QED BY <1>2, <1>5, <1>7 DEF Ebay!Row
<1> QED BY <1>4, <1>6, <1>7 DEF Ebay!Disconnect

\* The others leave the accounts alone, or what a disconnection removes of them, or end it.
LEMMA BareRest ==
    ASSUME DefaultInv, BareInv, NEW r \in Actor, NEW c,
           \/ Ebay!CheckResources(r) \/ Ebay!Fail(r) \/ Ebay!Consume(r) \/ Ebay!Exchange(r)
           \/ Ebay!UpdateDefaults(r) \/ Ebay!Save(r) \/ Ebay!ReadToDisconnect(r, c)
    PROVE  BareInv'
<1>1. conn \in [Data -> Ebay!Row] /\ asks = [q \in Actor |-> asks[q]] /\ bare \subseteq Data
  BY DEF DefaultInv, EbayShaped, BareInv
<1>2. CASE Ebay!CheckResources(r) \/ Ebay!Fail(r) \/ Ebay!Consume(r)
     \/ Ebay!ReadToDisconnect(r, c)
  BY <1>1, <1>2 DEF Ebay!CheckResources, Ebay!Fail, Ebay!Consume, Ebay!ReadToDisconnect,
       Ebay!Begin, Ebay!Become, Ebay!End, Ebay!Idle,
                    BareInv, Ebay!DisconnectedIsBare, Unseen
<1>3. CASE Ebay!Exchange(r)
  <2>1. UNCHANGED <<conn, bare, raced>>
    BY <1>3 DEF Ebay!Exchange
  <2>2. \A q \in Actor : asks'[q] = asks[q] \/ asks'[q].at \in {"save", "idle"}
    BY <1>1, <1>3 DEF Ebay!Exchange, Ebay!Become, Ebay!End, Ebay!Idle
  <2> QED BY <2>1, <2>2 DEF BareInv, Ebay!DisconnectedIsBare, Unseen
<1>4. CASE Ebay!UpdateDefaults(r)
  <2>1. \A d \in Data : /\ conn'[d].status = conn[d].status /\ conn'[d].access = conn[d].access
                          /\ conn'[d].refresh = conn[d].refresh
                          /\ conn'[d].resources = conn[d].resources
    BY <1>1, <1>4 DEF Ebay!UpdateDefaults, Ebay!Row
  <2> QED BY <1>1, <1>4, <2>1 DEF Ebay!UpdateDefaults, Ebay!End, Ebay!Become, Ebay!Idle,
       BareInv, Ebay!DisconnectedIsBare, Unseen
<1>5. CASE Ebay!Save(r)
  <2>1. asks[r].id \notin bare' /\ bare' \subseteq bare /\ bare' \ raced' \subseteq bare \ raced
    BY <1>5 DEF Ebay!Save
  <2>2. \A d \in Data \ {asks[r].id} : conn'[d] = conn[d]
    BY <1>1, <1>5 DEF Ebay!Save
  <2>3. \A q \in Actor : asks'[q] = asks[q] \/ asks'[q].at = "idle"
    BY <1>1, <1>5 DEF Ebay!Save, Ebay!End, Ebay!Become, Ebay!Idle
  <2> QED BY <1>1, <2>1, <2>2, <2>3 DEF BareInv, Ebay!DisconnectedIsBare, Unseen
<1> QED BY <1>2, <1>3, <1>4, <1>5

LEMMA BareStep == ASSUME DefaultInv, BareInv, [Ebay!Next]_(Ebay!vars) PROVE BareInv'
<1>1. asks = [q \in Actor |-> asks[q]]
  BY DEF DefaultInv, EbayShaped
<1>2. CASE UNCHANGED Ebay!vars
  BY <1>2 DEF Ebay!vars, BareInv, Ebay!DisconnectedIsBare, Unseen
<1>3. ASSUME NEW s \in Ebay!State, Ebay!CreateAuthorization(s) \/ Ebay!StateExpires(s)
      PROVE  BareInv'
  BY <1>3 DEF Ebay!CreateAuthorization, Ebay!StateExpires, BareInv, Ebay!DisconnectedIsBare,
       Unseen
<1>4. ASSUME NEW r \in Actor, NEW s \in Ebay!State, Ebay!ReadState(r, s)
      PROVE  BareInv'
  BY <1>1, <1>4 DEF Ebay!ReadState, Ebay!Begin, BareInv, Ebay!DisconnectedIsBare, Unseen
<1>5. ASSUME NEW r \in Actor, NEW c \in Data, NEW why \in {"call", "sync"},
     Ebay!GetAccessToken(r, c, why)
      PROVE  BareInv'
  BY <1>1, <1>5 DEF Ebay!GetAccessToken, Ebay!Usable, Ebay!Begin, BareInv,
       Ebay!DisconnectedIsBare, Unseen
<1>6. ASSUME NEW r \in Actor, NEW c \in Data, NEW wants \in BOOLEAN, Ebay!CheckAccount(r, c,
     wants)
      PROVE  BareInv'
  BY <1>1, <1>6 DEF Ebay!CheckAccount, Ebay!Begin, BareInv, Ebay!DisconnectedIsBare, Unseen
<1>7. ASSUME NEW r \in Actor, Ebay!CheckResources(r) \/ Ebay!Fail(r) \/ Ebay!Consume(r)
     \/ Ebay!Exchange(r) \/ Ebay!UpdateDefaults(r) \/ Ebay!Save(r)
      PROVE  BareInv'
  BY <1>7, BareRest
<1>8. ASSUME NEW c \in Data, Ebay!AccessExpires(c) \/ Ebay!RefreshExpires(c)
      PROVE  BareInv'
  BY <1>1, <1>8 DEF Ebay!AccessExpires, Ebay!RefreshExpires, DefaultInv, EbayShaped, BareInv,
       Ebay!DisconnectedIsBare, Unseen, Ebay!Row
<1>9. ASSUME NEW r \in Actor, NEW c \in Data, Ebay!ReadToDisconnect(r, c)
      PROVE  BareInv'
  BY <1>9, BareRest
<1>10. ASSUME NEW r \in Actor, Ebay!MarkExpired(r) \/ Ebay!Renew(r) \/ Ebay!StoreResources(r)
       PROVE  BareInv'
  BY <1>10, BareInUse
<1>11. ASSUME NEW r \in Actor, Ebay!Disconnect(r)
       PROVE  BareInv'
  BY <1>11, BareDropped
<1> QED BY <1>2, <1>3, <1>4, <1>5, <1>6, <1>7, <1>8, <1>9, <1>10, <1>11 DEF Ebay!Next

LEMMA BareAtFirst == Ebay!Init => BareInv
  BY DEF Ebay!Init, BareInv, Ebay!DisconnectedIsBare, Unseen

\* For every set of requests and every finite set of accounts: what a disconnection
\* removed stays removed until the account is authorized again, unless somebody was
\* using it, and the refresh token does so in any case.
THEOREM DisconnectedStaysBare == OfficeSpec => []DisconnectedIsBare
<1> DEFINE Inv == scenario = "seller" => DefaultInv /\ BareInv
<1>1. OfficeInit => Inv
  BY DefaultInit, BareAtFirst DEF OfficeInit
<1>2. Inv /\ [OfficeNext]_officeVars => Inv'
  BY ScenarioStays, EbayFollows, DefaultStep, BareStep
<1>3. Inv => DisconnectedIsBare
  BY DEF BareInv, DisconnectedIsBare
<1> QED BY <1>1, <1>2, <1>3, PTL DEF OfficeSpec
-----------------------------------------------------------------------------
(* Imports: OnePartPerRow is not inductive: a row that already has its part    *)
(* might be at its transaction, or be confirmed.  SheetInv adds that a run is   *)
(* at a row without a part, and that before a batch is confirmed or started     *)
(* nothing has happened to it.  What a run has read holds because activeJobs   *)
(* admits one run of a process, and because there is one process.              *)

OneProcess == \A p, q \in Process : p = q

Unstarted == {"none", "REVIEW_REQUIRED", "READY_TO_COMMIT"}

SheetTypes ==
    /\ row \in [Sheet!Row -> [stage : {"open", "FAILED", "COMPLETED"}, committed : BOOLEAN]]
    /\ parts \in [Sheet!Row -> Nat]
    /\ run = [p \in Process |-> run[p]]
    /\ batch = [status |-> batch.status, configured |-> batch.configured,
                archive |-> batch.archive, unresolved |-> batch.unresolved,
                failed |-> batch.failed, processed |-> batch.processed]

NothingDone ==
    batch.status \in Unstarted =>
        /\ \A p \in Process : run[p] = Sheet!Off
        /\ \A x \in Sheet!Row : ~row[x].committed

RunsAtOpenRows ==
    \A p \in Process : run[p].at = "enrich" =>
        /\ run[p] = [at |-> "enrich", row |-> run[p].row, todo |-> run[p].todo]
        /\ run[p].row \in Sheet!Row => ~row[run[p].row].committed

SheetInv == SheetTypes /\ NothingDone /\ RunsAtOpenRows /\ Sheet!OnePartPerRow

LEMMA SheetAtFirst == Sheet!Init => SheetInv
BY DEF Sheet!Init, SheetInv, SheetTypes, NothingDone, RunsAtOpenRows, Sheet!OnePartPerRow,
       Sheet!Off

\* The review of a batch, and what is read of it, concerns no row.
LEMMA ReviewKeepsSheet ==
  ASSUME SheetInv,
         \/ Sheet!Stage \/ Sheet!SaveArchive \/ Sheet!CorrectMatch
         \/ \E r \in Actor : Sheet!ReadToStart(r) \/ Sheet!ReadToRetry(r)
  PROVE  SheetInv'
  <1> USE DEF SheetInv, SheetTypes, NothingDone, RunsAtOpenRows, Sheet!OnePartPerRow
  <1>1. CASE UNCHANGED <<batch, row, parts, run>> BY <1>1
  <1>2. CASE /\ UNCHANGED <<row, parts, run>>
             /\ batch.status \in Unstarted
             /\ batch' = [status |-> batch'.status, configured |-> batch'.configured,
                          archive |-> batch'.archive, unresolved |-> batch'.unresolved,
                          failed |-> batch'.failed, processed |-> batch'.processed]
    BY <1>2
  <1>3. CASE Sheet!Stage BY <1>2, <1>3 DEF Sheet!Stage, Unstarted
  <1>4. CASE Sheet!SaveArchive BY <1>2, <1>4 DEF Sheet!SaveArchive, Sheet!Editable, Unstarted
  <1>5. CASE Sheet!CorrectMatch BY <1>2, <1>5 DEF Sheet!CorrectMatch, Sheet!Editable, Unstarted
  <1>6. CASE \E r \in Actor : Sheet!ReadToStart(r) \/ Sheet!ReadToRetry(r)
    BY <1>1, <1>6 DEF Sheet!ReadToStart, Sheet!ReadToRetry
  <1> QED BY <1>3, <1>4, <1>5, <1>6

\* A batch is confirmed only while nothing has happened to it.
LEMMA ConfirmKeepsSheet == ASSUME SheetInv, Sheet!Confirm PROVE SheetInv'
  <1> USE DEF SheetInv, SheetTypes
  <1>1. /\ \A p \in Process : run[p] = Sheet!Off
        /\ \A x \in Sheet!Row : ~row[x].committed
    BY DEF Sheet!Confirm, Sheet!CanConfirm, Sheet!Editable, NothingDone, Unstarted
  <1>2. SheetTypes'
    <2>1. row' \in [Sheet!Row -> [stage : {"open", "FAILED", "COMPLETED"}, committed : BOOLEAN]]
      BY DEF Sheet!Confirm
    <2>2. parts' \in [Sheet!Row -> Nat] BY DEF Sheet!Confirm
    <2> QED BY <2>1, <2>2 DEF Sheet!Confirm
  <1>3. NothingDone' BY DEF Sheet!Confirm, NothingDone, Unstarted
  <1>4. RunsAtOpenRows' BY <1>1 DEF Sheet!Confirm, RunsAtOpenRows, Sheet!Off
  <1>5. Sheet!OnePartPerRow' BY <1>1 DEF Sheet!Confirm, Sheet!OnePartPerRow
  <1> QED BY <1>2, <1>3, <1>4, <1>5

\* A start, a retry or a recovery takes the batch out of review and leaves the parts alone.
LEMMA StartKeepsSheet ==
  ASSUME SheetInv, NEW p \in Process,
         \/ Sheet!Resume(p)
         \/ \E r \in Actor : Sheet!Start(r, p) \/ Sheet!Retry(r, p)
  PROVE  SheetInv'
  <1> USE DEF SheetInv, SheetTypes
  <1>1. Sheet!Runs(p) /\ parts' = parts BY DEF Sheet!Resume, Sheet!Start, Sheet!Retry
  <1>2. /\ row' \in [Sheet!Row -> [stage : {"open", "FAILED", "COMPLETED"}, committed : BOOLEAN]]
        /\ \A x \in Sheet!Row : row'[x].committed = row[x].committed
    <2>1. CASE row' = row BY <2>1
    <2>2. ASSUME NEW r \in Actor, Sheet!Retry(r, p)
          PROVE  /\ row' \in [Sheet!Row -> [stage : {"open", "FAILED", "COMPLETED"}, committed : BOOLEAN]]
                 /\ \A x \in Sheet!Row : row'[x].committed = row[x].committed
      BY <2>2 DEF Sheet!Retry
    <2> QED BY <2>1, <2>2 DEF Sheet!Resume, Sheet!Start
  <1>3. batch'.status \notin Unstarted /\ SheetTypes'
    <2>1. CASE Sheet!Resume(p) BY <1>1, <1>2, <2>1 DEF Sheet!Resume, Sheet!Runs, Unstarted
    <2>2. CASE \E r \in Actor : Sheet!Start(r, p)
      BY <1>1, <1>2, <2>2 DEF Sheet!Start, Sheet!Runs, Unstarted
    <2>3. CASE \E r \in Actor : Sheet!Retry(r, p)
      BY <1>1, <1>2, <2>3 DEF Sheet!Retry, Sheet!Runs, Unstarted
    <2> QED BY <2>1, <2>2, <2>3
  <1>4. NothingDone' BY <1>3 DEF NothingDone
  <1>5. ASSUME NEW q \in Process, run'[q].at = "enrich" PROVE run'[q] = run[q]
    BY <1>1, <1>5 DEF Sheet!Runs, Sheet!Off
  <1>6. RunsAtOpenRows' BY <1>2, <1>5 DEF RunsAtOpenRows
  <1>7. Sheet!OnePartPerRow' BY <1>1, <1>2 DEF Sheet!OnePartPerRow
  <1> QED BY <1>3, <1>4, <1>6, <1>7

\* A step of a run other than its transaction creates no part and turns to a row only if it
\* has none.
LEMMA RunKeepsSheet ==
  ASSUME SheetInv, NEW p \in Process,
         \/ Sheet!BeginRun(p) \/ Sheet!ReadRow(p) \/ Sheet!CountRow(p) \/ Sheet!FailRow(p)
         \/ Sheet!Tally(p) \/ Sheet!Finish(p) \/ Sheet!Stop(p)
  PROVE  SheetInv'
  <1> USE DEF SheetInv, SheetTypes
  <1>1. run[p] # Sheet!Off /\ parts' = parts
    BY DEF Sheet!BeginRun, Sheet!ReadRow, Sheet!CountRow, Sheet!FailRow, Sheet!Tally,
           Sheet!Finish, Sheet!Stop, Sheet!Off
  <1>2. batch.status \notin Unstarted BY <1>1 DEF NothingDone
  <1>3. ASSUME NEW x, row' = [row EXCEPT ![x].stage = "COMPLETED"]
                        \/ row' = [row EXCEPT ![x].stage = "FAILED"] \/ row' = row
        PROVE  /\ row' \in [Sheet!Row -> [stage : {"open", "FAILED", "COMPLETED"},
                                          committed : BOOLEAN]]
               /\ \A y \in Sheet!Row : row'[y].committed = row[y].committed
    BY <1>3
  <1>4. /\ row' \in [Sheet!Row -> [stage : {"open", "FAILED", "COMPLETED"}, committed : BOOLEAN]]
        /\ \A x \in Sheet!Row : row'[x].committed = row[x].committed
    <2>1. CASE row' = row BY <1>3, <2>1
    <2>2. CASE Sheet!ReadRow(p) BY <1>3, <2>2 DEF Sheet!ReadRow
    <2>3. CASE Sheet!FailRow(p) BY <1>3, <2>3 DEF Sheet!FailRow
    <2> QED BY <2>1, <2>2, <2>3 DEF Sheet!BeginRun, Sheet!CountRow, Sheet!Tally, Sheet!Finish,
               Sheet!Stop
  <1>5. /\ batch'.status \notin Unstarted
        /\ batch' = [status |-> batch'.status, configured |-> batch'.configured,
                     archive |-> batch'.archive, unresolved |-> batch'.unresolved,
                     failed |-> batch'.failed, processed |-> batch'.processed]
    <2>1. CASE batch' = batch BY <1>2, <2>1
    <2>2. CASE Sheet!ReadRow(p) BY <1>2, <2>2, <2>1 DEF Sheet!ReadRow
    <2>3. CASE Sheet!FailRow(p) BY <1>2, <2>3 DEF Sheet!FailRow
    <2>4. CASE Sheet!CountRow(p) BY <1>2, <2>4 DEF Sheet!CountRow
    <2>5. CASE Sheet!Finish(p) BY <1>2, <2>5 DEF Sheet!Finish, Unstarted
    <2> QED BY <2>1, <2>2, <2>3, <2>4, <2>5 DEF Sheet!BeginRun, Sheet!Tally, Sheet!Stop
  <1>6. /\ run' = [q \in Process |-> run'[q]]
        /\ \A q \in Process \ {p} : run'[q] = run[q]
    <2>1. ASSUME NEW next, Sheet!Go(p, next)
          PROVE  run' = [q \in Process |-> run'[q]] /\ \A q \in Process \ {p} : run'[q] = run[q]
      BY <2>1 DEF Sheet!Go
    <2>2. CASE Sheet!ReadRow(p) BY <2>1, <2>2 DEF Sheet!ReadRow
    <2> QED BY <2>1, <2>2 DEF Sheet!BeginRun, Sheet!CountRow, Sheet!FailRow, Sheet!Tally,
               Sheet!Finish, Sheet!Stop
  <1>7. run'[p].at = "enrich" =>
            /\ run'[p] = [at |-> "enrich", row |-> run'[p].row, todo |-> run'[p].todo]
            /\ ~row[run'[p].row].committed
    <2>1. CASE Sheet!ReadRow(p)
      <3> DEFINE x == Sheet!Least(run[p].todo)
      <3>1. CASE Sheet!HasPart(x) BY <2>1, <3>1 DEF Sheet!ReadRow, Sheet!Go
      <3>2. CASE ~Sheet!HasPart(x)
        BY <2>1, <3>2 DEF Sheet!ReadRow, Sheet!Go, Sheet!HasPart
      <3> QED BY <3>1, <3>2
    <2>2. CASE ~Sheet!ReadRow(p)
      BY <2>2 DEF Sheet!Go, Sheet!Off, Sheet!BeginRun, Sheet!CountRow, Sheet!FailRow, Sheet!Tally,
             Sheet!Finish, Sheet!Stop
    <2> QED BY <2>1, <2>2
  <1>8. SheetTypes' /\ NothingDone' BY <1>1, <1>4, <1>5, <1>6 DEF NothingDone
  <1>9. RunsAtOpenRows' BY <1>4, <1>6, <1>7 DEF RunsAtOpenRows
  <1>10. Sheet!OnePartPerRow' BY <1>1, <1>4 DEF Sheet!OnePartPerRow
  <1> QED BY <1>8, <1>9, <1>10

\* The transaction creates the part of a row that has none, and no other run is at it.
LEMMA CommitKeepsSheet ==
  ASSUME OneProcess, SheetInv, NEW p \in Process, Sheet!CommitRow(p)
  PROVE  SheetInv'
  <1> USE DEF SheetInv, SheetTypes, Sheet!CommitRow
  <1>1. PICK x : x = run[p].row OBVIOUS
  <1>2. SheetTypes'
    <2>1. row' = [row EXCEPT ![x] = [stage |-> "COMPLETED", committed |-> TRUE]] BY <1>1
    <2>2. parts' = [parts EXCEPT ![x] = @ + 1] BY <1>1
    <2>3. row' \in [Sheet!Row -> [stage : {"open", "FAILED", "COMPLETED"}, committed : BOOLEAN]]
      <3> DEFINE Kept == [stage : {"open", "FAILED", "COMPLETED"}, committed : BOOLEAN]
      <3>1. row \in [Sheet!Row -> Kept] OBVIOUS
      <3>2. [stage |-> "COMPLETED", committed |-> TRUE] \in Kept OBVIOUS
      <3> HIDE DEF Kept
      <3>3. row' \in [Sheet!Row -> Kept] BY <2>1, <3>1, <3>2
      <3> QED BY <3>3 DEF Kept
    <2>4. parts' \in [Sheet!Row -> Nat]
      <3>1. parts \in [Sheet!Row -> Nat] OBVIOUS
      <3>2. x \in Sheet!Row => parts[x] + 1 \in Nat BY <3>1
      <3> QED BY <2>2, <3>1, <3>2
    <2>5. run' = [q \in Process |-> run'[q]] BY DEF Sheet!Go
    <2> QED BY <2>3, <2>4, <2>5
  <1>3. NothingDone' BY DEF NothingDone, Sheet!Off
  <1>4. RunsAtOpenRows'
    <2>1. \A q \in Process : q = p BY DEF OneProcess
    <2>2. run[p] = [at |-> "enrich", row |-> run[p].row, todo |-> run[p].todo]
      BY DEF RunsAtOpenRows
    <2>3. run = [q \in Process |-> run[q]] OBVIOUS
    <2>4. run'[p] = [run[p] EXCEPT !.at = "attach"] BY <2>3 DEF Sheet!Go
    <2>5. run'[p].at = "attach" BY <2>2, <2>4
    <2> QED BY <2>1, <2>5 DEF RunsAtOpenRows
  <1>5. Sheet!OnePartPerRow'
    <2> SUFFICES ASSUME NEW y \in Sheet!Row
                 PROVE  parts'[y] = IF row'[y].committed THEN 1 ELSE 0
      BY DEF Sheet!OnePartPerRow
    <2>1. parts[y] = IF row[y].committed THEN 1 ELSE 0 BY DEF Sheet!OnePartPerRow
    <2>2. CASE y = x
      <3>1. ~row[x].committed BY <1>1, <2>2 DEF RunsAtOpenRows
      <3> QED BY <1>1, <2>1, <2>2, <3>1
    <2>3. CASE y # x BY <1>1, <2>1, <2>3
    <2> QED BY <2>2, <2>3
  <1> QED BY <1>2, <1>3, <1>4, <1>5

LEMMA SheetStep == ASSUME OneProcess, SheetInv, [Sheet!Next]_(Sheet!vars) PROVE SheetInv'
  <1>1. CASE UNCHANGED Sheet!vars
    BY <1>1 DEF Sheet!vars, SheetInv, SheetTypes, NothingDone, RunsAtOpenRows, Sheet!OnePartPerRow
  <1>2. CASE Sheet!Next
    BY <1>2, ReviewKeepsSheet, ConfirmKeepsSheet, StartKeepsSheet, RunKeepsSheet, CommitKeepsSheet
       DEF Sheet!Next
  <1> QED BY <1>1, <1>2

\* With one API process: however starts, retries, recoveries, a confirmation, failing rows and
\* restarts follow each other, and whatever the number of rows, a row becomes one part.
THEOREM RowsBecomeOnePart == ASSUME OneProcess PROVE OfficeSpec => []OnePartPerRow
  <1> DEFINE Inv == scenario = "import" => SheetInv
  <1>1. OfficeInit => Inv
    BY SheetAtFirst DEF OfficeInit
  <1>2. Inv /\ [OfficeNext]_officeVars => Inv'
    BY OneProcess, ScenarioStays, ImportFollows, SheetStep
  <1>3. Inv => OnePartPerRow
    BY DEF SheetInv, OnePartPerRow
  <1> QED BY <1>1, <1>2, <1>3, PTL DEF OfficeSpec
-----------------------------------------------------------------------------
(* Listings: LiveMeansCurrent is not inductive: a validation about to be       *)
(* written might have seen an older compatibility.  DraftInv says what a        *)
(* request has read and still may rely on: a validation, as long as the draft  *)
(* keeps its version, and a decision, as long as the application keeps its      *)
(* revision.                                                                  *)

Revised ==
    [status : {"none", "PENDING", "APPROVED", "REJECTED", "SUPERSEDED"}, revision : Nat,
     catalog : BOOLEAN]

Applications ==
    /\ fitment \in [Data -> Revised]
    /\ \A a \in Data : fitment[a].status = "none" => fitment[a].revision = 0

DraftTypes ==
    /\ draft = [version |-> draft.version, status |-> draft.status, live |-> draft.live,
                price |-> draft.price, seen |-> draft.seen, catalog |-> draft.catalog]
    /\ draft.version \in Nat /\ draft.catalog \in Nat
    /\ draft.version = 0 => ~draft.live
    /\ Applications
    /\ catalog = [number |-> catalog.number, blocking |-> catalog.blocking]
    /\ catalog.number \in Nat /\ catalog.blocking \in Nat
    /\ catalog.blocking <= catalog.number
    /\ missed \in BOOLEAN
    /\ edit = [r \in Actor |-> edit[r]]

\* What validates the draft is still so, unless the draft has moved on.
ValidationStands(w) ==
    w.at = "validate" =>
        /\ w.version \in Nat \ {0} /\ w.catalog \in Nat
        /\ w.version <= draft.version
        /\ w.version = draft.version /\ ~missed =>
             w.seen = Drafts!Compatibility /\ w.catalog >= catalog.blocking

\* What is decided about an application is still so, unless it has moved on: who does not
\* know it as approved finds it not approved.
DecisionStands(w) ==
    w.at = "fitment" =>
        /\ w.app \in Data /\ w.decision \in Drafts!Decision
        /\ w.decision.new = "REJECTED" => ~w.decision.replace
        /\ w.revision \in Nat /\ w.revision <= fitment[w.app].revision
        /\ w.revision = fitment[w.app].revision /\ w.decision.from # "APPROVED" =>
             fitment[w.app].status # "APPROVED"
        /\ w.open => (w.decision.replace \/ w.replaced = {})

ReadsStand == \A r \in Actor : ValidationStands(edit[r]) /\ DecisionStands(edit[r])

DraftInv == DraftTypes /\ ReadsStand /\ Drafts!LiveMeansCurrent

LEMMA DraftAtFirst == Drafts!Init => DraftInv
  <1> SUFFICES ASSUME Drafts!Init PROVE DraftInv OBVIOUS
  <1>1. Applications
    <2>1. fitment = [a \in Data |-> [status |-> "none", revision |-> 0, catalog |-> FALSE]]
      BY DEF Drafts!Init
    <2>2. [status |-> "none", revision |-> 0, catalog |-> FALSE] \in Revised BY DEF Revised
    <2>3. fitment \in [Data -> Revised] BY <2>1, <2>2
    <2>4. \A a \in Data : fitment[a].revision = 0 BY <2>1
    <2> QED BY <2>3, <2>4 DEF Applications
  <1>2. DraftTypes
    <2>1. draft = [version |-> draft.version, status |-> draft.status, live |-> draft.live,
                   price |-> draft.price, seen |-> draft.seen, catalog |-> draft.catalog]
          /\ draft.version = 0 /\ draft.catalog = 0 /\ draft.live = FALSE
      BY DEF Drafts!Init
    <2>2. /\ catalog = [number |-> catalog.number, blocking |-> catalog.blocking]
          /\ catalog.number = 0 /\ catalog.blocking = 0
      BY DEF Drafts!Init
    <2>3. edit = [r \in Actor |-> edit[r]] /\ missed = FALSE BY DEF Drafts!Init
    <2>4. /\ draft.version \in Nat /\ draft.catalog \in Nat
          /\ catalog.number \in Nat /\ catalog.blocking \in Nat
          /\ catalog.blocking <= catalog.number
      BY <2>1, <2>2
    <2> QED BY <1>1, <2>1, <2>2, <2>3, <2>4, Zenon DEF DraftTypes
  <1>3. ReadsStand
    BY DEF Drafts!Init, Drafts!Idle, ReadsStand, ValidationStands, DecisionStands
  <1>4. Drafts!LiveMeansCurrent BY DEF Drafts!Init, Drafts!LiveMeansCurrent
  <1> QED BY <1>2, <1>3, <1>4 DEF DraftInv

\* Compatibility is that of the approved applications and their revisions.
LEMMA SameCompatibility ==
  ASSUME \A a \in Data :
           /\ fitment'[a].status = "APPROVED" <=> fitment[a].status = "APPROVED"
           /\ fitment[a].status = "APPROVED" => fitment'[a].revision = fitment[a].revision
  PROVE  Drafts!Compatibility' = Drafts!Compatibility
BY DEF Drafts!Compatibility, Drafts!Approved

\* A request that reads, or ends, and changes nothing else.
LEMMA ReadKeepsDraft ==
  ASSUME DraftInv, NEW r \in Actor, NEW w, UNCHANGED <<draft, fitment, catalog, missed>>,
         edit' = [edit EXCEPT ![r] = w], ValidationStands(w), DecisionStands(w)
  PROVE  DraftInv'
  <1> USE DEF DraftInv
  <1>1. DraftTypes' BY DEF DraftTypes, Applications
  <1>2. Drafts!Compatibility' = Drafts!Compatibility BY DEF Drafts!Compatibility, Drafts!Approved
  <1>3. \A q \in Actor : edit'[q] = edit[q] \/ edit'[q] = w BY DEF DraftTypes, Applications
  <1>4. ReadsStand' BY <1>2, <1>3 DEF ReadsStand, ValidationStands, DecisionStands
  <1>5. Drafts!LiveMeansCurrent' BY <1>2 DEF Drafts!LiveMeansCurrent
  <1> QED BY <1>1, <1>4, <1>5

LEMMA AllReads ==
  ASSUME DraftInv, NEW r \in Actor,
         \/ \E price \in {0, draft.price, proposal.number} : Drafts!ReadForEdit(r, price)
         \/ Drafts!ReadForValidation(r) \/ Drafts!ReadPart(r) \/ Drafts!ReadDraft(r)
         \/ Drafts!ReadForCatalog(r) \/ Drafts!OpenDecision(r)
         \/ \E a \in Data, d \in Drafts!Decision : Drafts!ReadApplication(r, a, d)
  PROVE  DraftInv'
  <1> USE DEF Drafts!Begin, Drafts!Become, Drafts!End, Drafts!Idle
  <1>0. edit = [q \in Actor |-> edit[q]] BY DEF DraftInv, DraftTypes
  <1>w. PICK w : w = edit'[r] OBVIOUS
  <1>1. CASE \E price \in {0, draft.price, proposal.number} : Drafts!ReadForEdit(r, price)
    <2>1. edit' = [edit EXCEPT ![r] = w] /\ w.at = "edit"
      BY <1>0, <1>w, <1>1 DEF Drafts!ReadForEdit
    <2> QED BY <1>1, <2>1, ReadKeepsDraft DEF Drafts!ReadForEdit, ValidationStands, DecisionStands
  <1>2. CASE Drafts!ReadForValidation(r)
    <2>1. /\ edit' = [edit EXCEPT ![r] = w] /\ w.at = "validate"
          /\ w.version = draft.version /\ draft.version > 0
          /\ w.seen = Drafts!Compatibility /\ w.catalog = catalog.number
      BY <1>0, <1>w, <1>2 DEF Drafts!ReadForValidation
    <2>2. ValidationStands(w) BY <2>1 DEF ValidationStands, DraftInv, DraftTypes
    <2> QED BY <1>2, <2>1, <2>2, ReadKeepsDraft DEF Drafts!ReadForValidation, DecisionStands
  <1>3. CASE Drafts!ReadPart(r)
    <2>1. edit' = [edit EXCEPT ![r] = w] /\ w.at = "create"
      BY <1>0, <1>w, <1>3 DEF Drafts!ReadPart
    <2> QED BY <1>3, <2>1, ReadKeepsDraft DEF Drafts!ReadPart, ValidationStands, DecisionStands
  <1>4. CASE Drafts!ReadDraft(r)
    <2>1. edit' = [edit EXCEPT ![r] = w] /\ w.at \in {"write", "idle"}
      BY <1>0, <1>w, <1>4 DEF Drafts!ReadDraft
    <2> QED BY <1>4, <2>1, ReadKeepsDraft DEF Drafts!ReadDraft, ValidationStands, DecisionStands
  <1>5. CASE Drafts!ReadForCatalog(r)
    <2>1. edit' = [edit EXCEPT ![r] = w] /\ w.at = "block"
      BY <1>0, <1>w, <1>5 DEF Drafts!ReadForCatalog
    <2> QED BY <1>5, <2>1, ReadKeepsDraft DEF Drafts!ReadForCatalog, ValidationStands, DecisionStands
  <1>6. CASE Drafts!OpenDecision(r)
    <2>1. /\ edit' = [edit EXCEPT ![r] = w] /\ w.at = "fitment"
          /\ w.app = edit[r].app /\ w.decision = edit[r].decision
          /\ w.revision = edit[r].revision
          /\ w.replaced = IF edit[r].decision.replace
                          THEN Drafts!Approved \ {edit[r].app} ELSE {}
      BY <1>0, <1>w, <1>6 DEF Drafts!OpenDecision
    <2>2. DecisionStands(edit[r]) /\ edit[r].at = "fitment"
      BY <1>6 DEF DraftInv, ReadsStand, Drafts!OpenDecision
    <2>3. DecisionStands(w) BY <2>1, <2>2 DEF DecisionStands
    <2> QED BY <1>6, <2>1, <2>3, ReadKeepsDraft DEF Drafts!OpenDecision, ValidationStands
  <1>7. ASSUME NEW a \in Data, NEW d \in Drafts!Decision, Drafts!ReadApplication(r, a, d)
        PROVE  DraftInv'
    <2>1. /\ edit' = [edit EXCEPT ![r] = w] /\ w.at = "fitment"
          /\ w.app = a /\ w.decision = d
          /\ w.revision = fitment[a].revision /\ w.open = FALSE
      BY <1>0, <1>w, <1>7 DEF Drafts!ReadApplication
    <2>2. DecisionStands(w)
      <3>1. fitment[a].revision \in Nat BY DEF DraftInv, DraftTypes, Applications, Revised
      <3> QED BY <1>7, <2>1, <3>1 DEF DecisionStands, Drafts!ReadApplication
    <2> QED BY <1>7, <2>1, <2>2, ReadKeepsDraft DEF Drafts!ReadApplication, ValidationStands
  <1> QED BY <1>1, <1>2, <1>3, <1>4, <1>5, <1>6, <1>7

\* The end of a request leaves what the others have read.
LEMMA OthersRead ==
  ASSUME DraftInv, NEW r \in Actor, Drafts!End(r)
  PROVE  /\ edit' = [q \in Actor |-> edit'[q]]
         /\ \A q \in Actor : edit'[q].at \in {"validate", "fitment"} => edit'[q] = edit[q]
BY DEF DraftInv, DraftTypes, Drafts!End, Drafts!Become, Drafts!Idle

\* A draft that was written has the next version: no validation begun before is written.
Written ==
    /\ draft' = [version |-> draft.version + 1, status |-> draft'.status, live |-> draft'.live,
                 price |-> draft'.price, seen |-> draft'.seen, catalog |-> draft'.catalog]
    /\ draft'.catalog \in Nat

\* A write of the draft that changes nothing else: the draft is not live afterwards, or as
\* its validation found it.
LEMMA WriteKeepsDraft ==
  ASSUME DraftInv, NEW r \in Actor, Drafts!End(r), UNCHANGED <<fitment, catalog, missed>>,
         \/ UNCHANGED draft
         \/ /\ Written
            /\ draft'.live /\ ~missed => /\ draft'.seen = Drafts!Compatibility
                                         /\ draft'.catalog >= catalog.blocking
  PROVE  DraftInv'
  <1> USE DEF DraftInv
  <1>1. DraftTypes'
    <2>1. CASE draft' = draft BY <2>1, OthersRead DEF DraftTypes, Applications
    <2>2. CASE Written
      <3>1. draft'.version = draft.version + 1 /\ draft'.catalog \in Nat BY <2>2 DEF Written
      <3>2. draft' = [version |-> draft'.version, status |-> draft'.status, live |-> draft'.live,
                      price |-> draft'.price, seen |-> draft'.seen, catalog |-> draft'.catalog]
        BY <2>2, <3>1 DEF Written
      <3> QED BY <3>1, <3>2, OthersRead DEF DraftTypes, Applications
    <2> QED BY <2>1, <2>2
  <1>2. Drafts!Compatibility' = Drafts!Compatibility BY DEF Drafts!Compatibility, Drafts!Approved
  <1>3. draft' = draft \/ draft'.version = draft.version + 1 BY DEF Written
  <1>4. ASSUME NEW q \in Actor PROVE ValidationStands(edit[q])' /\ DecisionStands(edit[q])'
    <2>1. ValidationStands(edit[q]) /\ DecisionStands(edit[q]) BY DEF ReadsStand
    <2>2. ValidationStands(edit[q])'
      BY <1>2, <1>3, <2>1, OthersRead DEF ValidationStands, DraftTypes
    <2>3. DecisionStands(edit[q])' BY <2>1, OthersRead DEF DecisionStands
    <2> QED BY <2>2, <2>3
  <1>5. ReadsStand' BY <1>4 DEF ReadsStand
  <1>6. Drafts!LiveMeansCurrent' BY <1>2 DEF Drafts!LiveMeansCurrent
  <1> QED BY <1>1, <1>5, <1>6

LEMMA AllWrites ==
  ASSUME DraftInv, NEW r \in Actor, Drafts!Edit(r) \/ Drafts!Validate(r) \/ Drafts!Create(r)
  PROVE  DraftInv'
  <1> USE DEF Drafts!Write, Drafts!LoseRace
  <1>1. CASE Drafts!Edit(r)
    <2>1. draft' = draft \/ (Written /\ ~draft'.live) BY <1>1 DEF Drafts!Edit, Written
    <2> QED BY <1>1, <2>1, WriteKeepsDraft DEF Drafts!Edit
  <1>2. CASE Drafts!Create(r)
    <2>1. draft' = draft \/ (Written /\ ~draft'.live) BY <1>2 DEF Drafts!Create, Written
    <2> QED BY <1>2, <2>1, WriteKeepsDraft DEF Drafts!Create
  <1>3. CASE Drafts!Validate(r)
    <2>1. ValidationStands(edit[r]) /\ edit[r].at = "validate"
      BY <1>3 DEF DraftInv, ReadsStand, Drafts!Validate
    <2>2. CASE draft' = draft BY <1>3, <2>2, WriteKeepsDraft DEF Drafts!Validate
    <2>3. CASE Drafts!Write(edit[r].version, edit[r].status, edit[r].price, TRUE, edit[r].seen,
                            edit[r].catalog)
      <3>1. /\ Written /\ draft'.seen = edit[r].seen /\ draft'.catalog = edit[r].catalog
            /\ edit[r].version = draft.version
        BY <2>1, <2>3 DEF Written, ValidationStands
      <3> QED BY <1>3, <2>1, <3>1, WriteKeepsDraft DEF Drafts!Validate, ValidationStands
    <2> QED BY <1>3, <2>2, <2>3 DEF Drafts!Validate
  <1> QED BY <1>1, <1>2, <1>3

\* A change of the catalog that blocks, or of the compatibility: the draft is blocked, which
\* ends the validations begun before, or was not found; then there is none, or missed tells.
LEMMA BlockKeepsDraft ==
  ASSUME DraftInv, NEW r \in Actor, NEW v, Drafts!End(r), Drafts!Block(v),
         missed' = (missed \/ (v = 0 /\ draft.version > 0)),
         Applications',
         /\ catalog' = [number |-> catalog'.number, blocking |-> catalog'.blocking]
         /\ catalog'.number \in Nat /\ catalog'.blocking \in Nat
         /\ catalog'.blocking <= catalog'.number,
         \A q \in Actor : DecisionStands(edit[q])'
  PROVE  DraftInv'
  <1> USE DEF DraftInv, Drafts!Block, Drafts!Write
  <1>1. ~missed' => ~draft'.live /\ (Written \/ (draft' = draft /\ draft.version = 0))
    <2>1. ~missed' => ~(v = 0 /\ draft.version > 0) OBVIOUS
    <2>2. CASE v = 0 BY <2>1, <2>2 DEF DraftTypes
    <2>3. CASE v # 0 BY <2>3 DEF DraftTypes, Written
    <2> QED BY <2>2, <2>3
  <1>2. draft' = draft \/ (Written /\ draft'.live = FALSE) BY DEF Written
  <1>3. DraftTypes'
    <2>1. missed' \in BOOLEAN BY DEF DraftTypes, Applications
    <2>2. draft' = [version |-> draft'.version, status |-> draft'.status, live |-> draft'.live,
                    price |-> draft'.price, seen |-> draft'.seen, catalog |-> draft'.catalog]
          /\ draft'.version \in Nat /\ draft'.catalog \in Nat
          /\ (draft'.version = 0 => ~draft'.live)
      BY <1>2 DEF DraftTypes, Written
    <2> QED BY <2>1, <2>2, OthersRead DEF DraftTypes, Applications
  <1>4. ASSUME NEW q \in Actor PROVE ValidationStands(edit[q])'
    <2>1. ValidationStands(edit[q]) BY DEF ReadsStand
    <2>2. draft'.version >= draft.version /\ (~missed' => draft'.version > draft.version
                                                          \/ draft.version = 0)
      BY <1>1, <1>2 DEF DraftTypes, Written
    <2> QED BY <2>1, <2>2, <1>3, OthersRead DEF ValidationStands, DraftTypes
  <1>5. ReadsStand' BY <1>4 DEF ReadsStand
  <1>6. Drafts!LiveMeansCurrent' BY <1>1 DEF Drafts!LiveMeansCurrent
  <1> QED BY <1>3, <1>5, <1>6

LEMMA CatalogKeepsDraft ==
  ASSUME DraftInv, NEW r \in Actor, Drafts!ChangeCatalog(r)
  PROVE  DraftInv'
  <1>1. Drafts!End(r) /\ UNCHANGED fitment BY DEF Drafts!ChangeCatalog
  <1>2. CASE /\ Drafts!Block(edit[r].version) /\ Drafts!Changed(TRUE)
             /\ missed' = (missed \/ (edit[r].version = 0 /\ draft.version > 0))
    <2>1. \A q \in Actor : DecisionStands(edit[q])'
      BY <1>1, OthersRead DEF DraftInv, ReadsStand, DecisionStands
    <2>2. /\ catalog' = [number |-> catalog'.number, blocking |-> catalog'.blocking]
          /\ catalog'.number \in Nat /\ catalog'.blocking \in Nat
          /\ catalog'.blocking <= catalog'.number
      BY <1>2 DEF Drafts!Changed, DraftInv, DraftTypes
    <2>3. Applications' BY <1>1 DEF DraftInv, DraftTypes, Applications
    <2> QED BY <1>1, <1>2, <2>1, <2>2, <2>3, BlockKeepsDraft
  <1>3. CASE UNCHANGED <<draft, catalog, missed>> BY <1>1, <1>3, WriteKeepsDraft
  <1> QED BY <1>2, <1>3 DEF Drafts!ChangeCatalog, Drafts!LoseRace

\* A decision that is committed: what others know of the applications still holds, as the
\* one that changed has its next revision, and replacing takes approvals away.
LEMMA CommitKeepsDraft ==
  ASSUME DraftInv, NEW r \in Actor, Drafts!CommitDecision(r)
  PROVE  DraftInv'
  <1>1. PICK w : w = edit[r] OBVIOUS
  <1>2. /\ Drafts!End(r) /\ UNCHANGED catalog /\ DecisionStands(w)
        /\ w.at = "fitment" /\ w.open
    BY <1>1 DEF Drafts!CommitDecision, DraftInv, ReadsStand
  <1>3. CASE UNCHANGED <<draft, fitment, missed>> BY <1>2, <1>3, WriteKeepsDraft
  <1>4. CASE /\ fitment[w.app].revision = w.revision
             /\ IF Drafts!Blocks(w.decision) THEN Drafts!Block(w.version) ELSE UNCHANGED draft
             /\ fitment' = [b \in Data |->
                   IF b = w.app THEN [status |-> w.decision.new, revision |-> w.revision + 1,
                                      catalog |-> fitment[b].catalog \/ w.decision.from = "none"]
                   ELSE IF b \in w.replaced \cap Drafts!Approved
                        THEN [fitment[b] EXCEPT !.status = "SUPERSEDED"]
                   ELSE fitment[b]]
             /\ missed' = (missed \/ (Drafts!Blocks(w.decision) /\ w.version = 0
                                        /\ draft.version > 0))
    <2>1. /\ w.app \in Data /\ w.decision \in Drafts!Decision /\ w.revision \in Nat
          /\ fitment \in [Data -> Revised]
          /\ \A b \in Data : fitment[b].status = "none" => fitment[b].revision = 0
      BY <1>2 DEF DecisionStands, DraftInv, DraftTypes, Applications
    <2>2. Applications'
      <3> USE DEF Revised
      <3>1. w.decision.new \in {"PENDING", "APPROVED", "REJECTED", "SUPERSEDED"}
        BY <2>1 DEF Drafts!Decision
      <3> SUFFICES ASSUME NEW b \in Data
                   PROVE  /\ fitment'[b] \in Revised
                          /\ fitment'[b].status = "none" => fitment'[b].revision = 0
        BY <1>4 DEF Applications
      <3>2. CASE b = w.app BY <1>4, <2>1, <3>1, <3>2
      <3>3. CASE b # w.app /\ b \in w.replaced \cap Drafts!Approved BY <1>4, <2>1, <3>3
      <3>4. CASE b # w.app /\ b \notin w.replaced \cap Drafts!Approved BY <1>4, <2>1, <3>4
      <3> QED BY <3>2, <3>3, <3>4
    <2>3. /\ fitment'[w.app].revision = fitment[w.app].revision + 1
          /\ \A b \in Data \ {w.app} :
               /\ fitment'[b].revision = fitment[b].revision
               /\ fitment'[b].status = "APPROVED" => fitment[b].status = "APPROVED"
      <3>1. fitment'[w.app].revision = fitment[w.app].revision + 1 BY <1>4, <2>1
      <3>2. ASSUME NEW b \in Data \ {w.app}
            PROVE  /\ fitment'[b].revision = fitment[b].revision
                   /\ fitment'[b].status = "APPROVED" => fitment[b].status = "APPROVED"
        <4>1. CASE b \in w.replaced \cap Drafts!Approved BY <1>4, <2>1, <4>1
        <4>2. CASE b \notin w.replaced \cap Drafts!Approved BY <1>4, <2>1, <4>2
        <4> QED BY <4>1, <4>2
      <3> QED BY <3>1, <3>2
    <2>4. ASSUME NEW q \in Actor PROVE DecisionStands(edit[q])'
      <3>1. DecisionStands(edit[q]) BY DEF DraftInv, ReadsStand
      <3>2. SUFFICES ASSUME edit'[q].at = "fitment" PROVE DecisionStands(edit[q])'
        BY DEF DecisionStands
      <3>3. edit'[q] = edit[q] BY <1>2, <3>2, OthersRead
      <3>4. PICK v : v = edit[q] OBVIOUS
      <3>5. /\ v.app \in Data /\ v.revision \in Nat /\ v.revision <= fitment[v.app].revision
            /\ v.revision = fitment[v.app].revision /\ v.decision.from # "APPROVED" =>
                 fitment[v.app].status # "APPROVED"
        BY <3>1, <3>2, <3>3, <3>4 DEF DecisionStands
      <3>6. /\ v.revision <= fitment'[v.app].revision
            /\ v.revision = fitment'[v.app].revision /\ v.decision.from # "APPROVED" =>
                 fitment'[v.app].status # "APPROVED"
        <4>1. fitment[v.app].revision \in Nat BY <2>1, <3>5 DEF Revised
        <4>2. CASE v.app = w.app BY <2>3, <3>5, <4>1, <4>2
        <4>3. CASE v.app # w.app BY <2>3, <3>5, <4>1, <4>3
        <4> QED BY <4>2, <4>3
      <3> QED BY <3>1, <3>2, <3>3, <3>4, <3>6 DEF DecisionStands
    <2>5. CASE Drafts!Blocks(w.decision)
      BY <1>2, <1>4, <2>2, <2>4, <2>5, BlockKeepsDraft DEF DraftInv, DraftTypes
    <2>6. CASE ~Drafts!Blocks(w.decision)
      <3>1. /\ w.decision.new # "APPROVED" /\ w.decision.from # "APPROVED"
            /\ ~w.decision.replace
        BY <1>2, <2>1, <2>6 DEF Drafts!Blocks, Drafts!Decision, DecisionStands
      <3>2. w.replaced = {} /\ fitment[w.app].status # "APPROVED"
        BY <1>2, <1>4, <3>1 DEF DecisionStands
      <3>3. \A b \in Data : IF b = w.app THEN fitment'[b].status = w.decision.new
                            ELSE fitment'[b] = fitment[b]
        BY <1>4, <3>2
      <3>4. Drafts!Compatibility' = Drafts!Compatibility
        BY <3>1, <3>2, <3>3, SameCompatibility
      <3>5. UNCHANGED <<draft, catalog, missed>> BY <1>2, <1>4, <2>6 DEF DraftInv, DraftTypes
      <3>6. DraftTypes' BY <1>2, <2>2, <3>5, OthersRead DEF DraftInv, DraftTypes
      <3>7. ASSUME NEW q \in Actor PROVE ValidationStands(edit[q])'
        <4>1. ValidationStands(edit[q]) BY DEF DraftInv, ReadsStand
        <4> QED BY <1>2, <3>4, <3>5, <4>1, OthersRead DEF ValidationStands
      <3>8. Drafts!LiveMeansCurrent' BY <3>4, <3>5 DEF DraftInv, Drafts!LiveMeansCurrent
      <3> QED BY <2>4, <3>6, <3>7, <3>8 DEF DraftInv, ReadsStand
    <2> QED BY <2>5, <2>6
  <1> QED BY <1>1, <1>3, <1>4 DEF Drafts!CommitDecision

\* A price, a new application and a change of the part that does not block concern nobody.
LEMMA OtherChangesKeepDraft ==
  ASSUME DraftInv,
         \/ Drafts!Propose \/ Drafts!Decide \/ Drafts!ChangePart
         \/ \E a \in Data : Drafts!CreateApplication(a)
  PROVE  DraftInv'
  <1> USE DEF DraftInv
  <1>1. UNCHANGED <<draft, edit, missed>>
    BY DEF Drafts!Propose, Drafts!Decide, Drafts!ChangePart, Drafts!CreateApplication
  <1>2. CASE UNCHANGED fitment
    <2>1. /\ catalog' = [number |-> catalog'.number, blocking |-> catalog.blocking]
          /\ catalog'.number \in Nat /\ catalog'.number >= catalog.number
      <3>1. CASE Drafts!ChangePart BY <3>1 DEF Drafts!ChangePart, Drafts!Changed, DraftTypes
      <3>2. CASE catalog' = catalog BY <3>2 DEF DraftTypes, Applications
      <3> QED BY <3>1, <3>2 DEF Drafts!Propose, Drafts!Decide, Drafts!CreateApplication
    <2>2. Drafts!Compatibility' = Drafts!Compatibility
      BY <1>2 DEF Drafts!Compatibility, Drafts!Approved
    <2>3. DraftTypes' BY <1>1, <1>2, <2>1 DEF DraftTypes, Applications
    <2>4. ReadsStand' BY <1>1, <1>2, <2>1, <2>2 DEF ReadsStand, ValidationStands, DecisionStands
    <2>5. Drafts!LiveMeansCurrent' BY <1>1, <2>1, <2>2 DEF Drafts!LiveMeansCurrent
    <2> QED BY <2>3, <2>4, <2>5
  <1>3. ASSUME NEW a \in Data, Drafts!CreateApplication(a) PROVE DraftInv'
    <2>1. /\ fitment[a].status = "none" /\ UNCHANGED catalog
          /\ fitment' = [fitment EXCEPT ![a] = [status |-> "PENDING", revision |-> 1,
                                                catalog |-> FALSE]]
      BY <1>3 DEF Drafts!CreateApplication
    <2>2. fitment \in [Data -> Revised] /\ fitment[a].revision = 0
      BY <2>1 DEF DraftTypes, Applications
    <2>3. /\ \A b \in Data \ {a} : fitment'[b] = fitment[b]
          /\ fitment'[a].status = "PENDING" /\ fitment'[a].revision = 1
      BY <2>1, <2>2
    <2>4. Applications' BY <2>1, <2>2 DEF DraftTypes, Applications, Revised
    <2>5. DraftTypes' BY <1>1, <2>1, <2>4 DEF DraftTypes, Applications
    <2>6. Drafts!Compatibility' = Drafts!Compatibility BY <2>1, <2>3, SameCompatibility
    <2>7. ASSUME NEW q \in Actor PROVE ValidationStands(edit[q])' /\ DecisionStands(edit[q])'
      <3>1. ValidationStands(edit[q]) /\ DecisionStands(edit[q]) BY DEF ReadsStand
      <3>2. ValidationStands(edit[q])' BY <1>1, <2>1, <2>6, <3>1 DEF ValidationStands
      <3>3. DecisionStands(edit[q])'
        <4>1. CASE edit[q].app = a BY <1>1, <2>1, <2>2, <2>3, <3>1, <4>1 DEF DecisionStands
        <4>2. CASE edit[q].app # a BY <1>1, <2>1, <2>3, <3>1, <4>2 DEF DecisionStands
        <4> QED BY <4>1, <4>2
      <3> QED BY <3>2, <3>3
    <2>8. Drafts!LiveMeansCurrent' BY <1>1, <2>1, <2>6 DEF Drafts!LiveMeansCurrent
    <2> QED BY <2>5, <2>7, <2>8 DEF ReadsStand
  <1> QED BY <1>2, <1>3 DEF Drafts!Propose, Drafts!Decide, Drafts!ChangePart

LEMMA DraftStep == ASSUME DraftInv, [Drafts!Next]_(Drafts!vars) PROVE DraftInv'
  <1>1. CASE UNCHANGED Drafts!vars
    <2>1. Drafts!Compatibility' = Drafts!Compatibility
      BY <1>1 DEF Drafts!vars, Drafts!Compatibility, Drafts!Approved
    <2> QED BY <1>1, <2>1 DEF Drafts!vars, DraftInv, DraftTypes, Applications, ReadsStand,
               ValidationStands, DecisionStands, Drafts!LiveMeansCurrent
  <1>2. CASE Drafts!Next
    BY <1>2, AllReads, AllWrites, CatalogKeepsDraft, CommitKeepsDraft, OtherChangesKeepDraft
       DEF Drafts!Next
  <1> QED BY <1>1, <1>2

\* However edits, validations, changes of the catalog and decisions on compatibility overlap,
\* a draft that is live was validated against the compatibility in force and after every
\* change that blocks it, unless one of them did not find the draft.
THEOREM LiveDraftsAreCurrent == OfficeSpec => []LiveMeansCurrent
  <1> DEFINE Inv == scenario = "listing" => DraftInv
  <1>1. OfficeInit => Inv
    BY DraftAtFirst DEF OfficeInit
  <1>2. Inv /\ [OfficeNext]_officeVars => Inv'
    BY ScenarioStays, ListingFollows, DraftStep
  <1>3. Inv => LiveMeansCurrent
    BY DEF DraftInv, LiveMeansCurrent
  <1> QED BY <1>1, <1>2, <1>3, PTL DEF OfficeSpec
-----------------------------------------------------------------------------
(* StoreCache: RefreshIsFaithful is about a refresh that has pruned its site.   *)
(* StoreInv says what makes it true before: of a refresh that runs alone the    *)
(* rows with its stamp are of entries it was shown, and the entries before its  *)
(* page have a row, wherever new ones have moved them.                         *)

(* The place of an entry among those that eBay lists.                         *)
PlaceIn(S, e) == Cardinality({x \in S : x <= e})

\* Places are numbers up to that of the entries, in the order of the entries.
LEMMA PlacesAreOrdered ==
  ASSUME NEW S \in SUBSET Nat, IsFiniteSet(S)
  PROVE  /\ Cardinality(S) \in Nat
         /\ \A e \in S : PlaceIn(S, e) \in 1 .. Cardinality(S)
         /\ \A d, e \in S : d < e => PlaceIn(S, d) < PlaceIn(S, e)
  <1>1. Cardinality(S) \in Nat BY FS_CardinalityType
  <1>2. ASSUME NEW e \in S
        PROVE  /\ {x \in S : x <= e} \in SUBSET S /\ IsFiniteSet({x \in S : x <= e})
               /\ PlaceIn(S, e) \in 1 .. Cardinality(S)
    <2>1. PICK T : T = {x \in S : x <= e} OBVIOUS
    <2>2. T \in SUBSET S /\ e \in T BY <2>1
    <2>3. IsFiniteSet(T) /\ Cardinality(T) <= Cardinality(S) BY <2>2, FS_Subset
    <2>4. Cardinality(T) \in Nat /\ Cardinality(T) # 0
      BY <2>2, <2>3, FS_CardinalityType, FS_EmptySet
    <2> QED BY <1>1, <2>1, <2>2, <2>3, <2>4 DEF PlaceIn
  <1>3. ASSUME NEW d \in S, NEW e \in S, d < e PROVE PlaceIn(S, d) < PlaceIn(S, e)
    <2>1. PICK T : T = {x \in S : x <= d} OBVIOUS
    <2>2. PICK U : U = {x \in S : x <= e} OBVIOUS
    <2>3. T \in SUBSET U /\ e \in U /\ e \notin T /\ IsFiniteSet(U)
      <3>1. \A x \in S : x \in Nat OBVIOUS
      <3>2. d \in Nat /\ e \in Nat /\ d < e BY <1>3, <3>1
      <3>3. e \in U /\ e \notin T BY <2>1, <2>2, <3>2
      <3>4. ASSUME NEW x \in T PROVE x \in U
        <4>1. x \in S /\ x \in Nat /\ x <= d BY <2>1, <3>1
        <4>2. x <= e BY <3>2, <4>1
        <4> QED BY <2>2, <4>1, <4>2
      <3> QED BY <1>2, <2>2, <3>3, <3>4
    <2>4. Cardinality(T) <= Cardinality(U) /\ Cardinality(U) # Cardinality(T)
      BY <2>3, FS_Subset
    <2>5. Cardinality(T) \in Nat /\ Cardinality(U) \in Nat
      BY <2>3, FS_Subset, FS_CardinalityType
    <2> QED BY <2>1, <2>2, <2>4, <2>5 DEF PlaceIn
  <1> QED BY <1>1, <1>2, <1>3

\* So every place is taken: no page before the last is empty.
LEMMA PagesAreFull ==
  ASSUME NEW S \in SUBSET Nat, IsFiniteSet(S), NEW p \in 1 .. Cardinality(S)
  PROVE  \E e \in S : PlaceIn(S, e) = p
  <1> SUFFICES ASSUME \A e \in S : PlaceIn(S, e) # p PROVE FALSE OBVIOUS
  <1>1. PICK n \in Nat : n = Cardinality(S) BY FS_CardinalityType
  <1>2. PICK T : T = (1 .. n) \ {p} OBVIOUS
  <1>3. IsFiniteSet(1 .. n) /\ Cardinality(1 .. n) = n BY <1>1, FS_Interval
  <1>4. IsFiniteSet(T) /\ Cardinality(T) = n - 1 BY <1>1, <1>2, <1>3, FS_RemoveElement
  <1>5. PICK f : f = [e \in S |-> PlaceIn(S, e)] OBVIOUS
  <1>6. f \in [S -> T] BY <1>1, <1>2, <1>5, PlacesAreOrdered
  <1>7. Cardinality(T) < Cardinality(S) BY <1>1, <1>4
  <1>8. PICK d \in S, e \in S : d # e /\ f[d] = f[e] BY <1>4, <1>6, <1>7, FS_PigeonHole
  <1>9. d \in Nat /\ e \in Nat /\ PlaceIn(S, d) = PlaceIn(S, e) BY <1>5, <1>8
  <1>10. CASE d < e BY <1>9, <1>10, PlacesAreOrdered
  <1>11. CASE e < d BY <1>9, <1>11, PlacesAreOrdered
  <1> QED BY <1>8, <1>9, <1>10, <1>11

\* Another entry moves the later ones on, and none back.
LEMMA PlacesGrow ==
  ASSUME NEW T \in SUBSET Nat, IsFiniteSet(T), NEW S \in SUBSET T, NEW e \in T
  PROVE  /\ PlaceIn(S, e) \in Nat /\ PlaceIn(T, e) \in Nat
         /\ PlaceIn(S, e) <= PlaceIn(T, e)
  <1>1. PICK A : A = {x \in S : x <= e} OBVIOUS
  <1>2. PICK B : B = {x \in T : x <= e} OBVIOUS
  <1>3. A \in SUBSET B /\ B \in SUBSET T BY <1>1, <1>2
  <1>4. IsFiniteSet(B) BY <1>3, FS_Subset
  <1>5. IsFiniteSet(A) /\ Cardinality(A) <= Cardinality(B) BY <1>3, <1>4, FS_Subset
  <1> QED BY <1>1, <1>2, <1>4, <1>5, FS_CardinalityType DEF PlaceIn

LEMMA StoreConstants ==
  /\ Entry \in SUBSET Nat /\ IsFiniteSet(Entry) /\ Sites \in Nat \ {0}
  /\ 1 \in Store!Site
  /\ \A S \in SUBSET Entry : S \in SUBSET Nat /\ IsFiniteSet(S)
  <1>1. Entry \in SUBSET Nat /\ IsFiniteSet(Entry) /\ Sites \in Nat \ {0}
    BY BackOfficeAssumption, SameCounts DEF BackOfficeAssumption, Store!StoreCacheAssumption
  <1>2. \A S \in SUBSET Entry : IsFiniteSet(S) BY <1>1, FS_Subset
  <1> QED BY <1>1, <1>2 DEF Store!Site

(* A refresh that is under way.                                              *)
Task ==
    [at : {"fetch", "save", "prune", "pruned", "failed"}, site : Store!Site, page : Nat \ {0},
     stamp : Nat \ {0}, entry : Nat, more : BOOLEAN, held : SUBSET Entry, got : SUBSET Entry,
     calm : BOOLEAN, alone : BOOLEAN]

StoreTypes ==
    /\ kind \in Store!Kinds /\ clock \in Nat
    /\ listed \in [Store!Site -> SUBSET Entry]
    /\ cache \in [Store!Row -> Nat]
    /\ home \in [Store!Row -> Store!Site]
    /\ refresh \in [Actor -> Task \cup {Store!Off}]
    /\ \A s \in Store!Site, e \in Entry : cache[<<s, e>>] <= clock

\* The row of a listing names its site, and was created with it.
HomesAgree ==
    kind = "listings" =>
        \A s \in Store!Site, e \in Entry : cache[<<s, e>>] # 0 => home[<<s, e>>] = s

\* Whoever runs alone does.
OneAlone ==
    \A k, j \in Actor :
        k # j /\ refresh[k] \in Task /\ refresh[k].alone => refresh[j] = Store!Off

(* What the rows with the stamp of a refresh, and at its end all rows, are of.  *)
OnlyShown(f) ==
    \A s \in Store!Site, e \in Entry :
        /\ cache[<<s, e>>] = f.stamp /\ (kind = "orders" \/ home[<<s, e>>] = f.site) => e \in f.got
        /\ f.at = "pruned" /\ cache[<<s, e>>] # 0 /\ home[<<s, e>>] = f.site => e \in f.got

RowFor(site) == IF kind = "listings" THEN site ELSE 1
Stamped(f, e) == cache[<<RowFor(f.site), e>>] = f.stamp

(* Which of the entries that were there all the time have a row.               *)
AllHeld(f) ==
    /\ f.held \subseteq listed[f.site]
    /\ \A e \in f.held :
         /\ f.at = "fetch" /\ PlaceIn(listed[f.site], e) < f.page => Stamped(f, e)
         /\ f.at = "save" /\ (PlaceIn(listed[f.site], e) <= f.page \/ ~f.more) =>
              e = f.entry \/ Stamped(f, e)
         /\ f.at = "prune" => Stamped(f, e)
         /\ f.at = "pruned" => cache[<<RowFor(f.site), e>>] # 0

TaskSound(f) ==
    f \in Task =>
        /\ f.stamp <= clock
        /\ f.at = "save" => f.entry \in f.got
        /\ f.alone =>
             /\ f.stamp = clock
             /\ OnlyShown(f)
             /\ f.calm => AllHeld(f)

StoreInv ==
    StoreTypes /\ HomesAgree /\ OneAlone /\ \A k \in Actor : TaskSound(refresh[k])

LEMMA OffIsNoTask == Store!Off \notin Task
BY DEF Store!Off, Task

LEMMA StoreAtFirst == Store!Init => StoreInv
  <1> SUFFICES ASSUME Store!Init PROVE StoreInv OBVIOUS
  <1> USE DEF Store!Init
  <1>1. \A k \in Actor : refresh[k] = Store!Off OBVIOUS
  <1>2. \A x \in Store!Row : cache[x] = 0 OBVIOUS
  <1>3. \A s \in Store!Site, e \in Entry : cache[<<s, e>>] = 0 BY <1>2 DEF Store!Row
  <1>4. StoreTypes BY <1>3, StoreConstants DEF StoreTypes
  <1> QED BY <1>1, <1>3, <1>4, OffIsNoTask DEF StoreInv, HomesAgree, OneAlone, TaskSound

\* A step of a refresh that is under way leaves the others what they were; if it ran alone
\* there are none.
LEMMA OwnStep ==
  ASSUME StoreInv, NEW k \in Actor, refresh[k] \in Task, NEW g \in Task \cup {Store!Off},
         g \in Task => g.alone = refresh[k].alone,
         Store!Go(k, g), StoreTypes', HomesAgree', TaskSound(g)', clock' >= clock
  PROVE  StoreInv'
  <1>1. /\ refresh \in [Actor -> Task \cup {Store!Off}]
        /\ refresh'[k] = g /\ \A j \in Actor \ {k} : refresh'[j] = refresh[j]
    BY DEF StoreInv, StoreTypes, Store!Go
  <1>2. refresh[k] # Store!Off BY OffIsNoTask
  <1>3. \A j \in Actor \ {k} : refresh[j] \in Task => ~refresh[j].alone
    BY <1>2 DEF StoreInv, OneAlone
  <1>4. OneAlone'
    <2> SUFFICES ASSUME NEW i \in Actor, NEW j \in Actor, i # j, refresh'[i] \in Task,
                        refresh'[i].alone
                 PROVE  refresh'[j] = Store!Off
      BY DEF OneAlone
    <2>1. i = k BY <1>1, <1>3
    <2> QED BY <1>1, <2>1 DEF StoreInv, OneAlone
  <1>5. ASSUME NEW j \in Actor PROVE TaskSound(refresh[j])'
    <2>1. CASE j = k BY <1>1, <2>1
    <2>2. CASE j # k
      <3>1. TaskSound(refresh[j]) BY DEF StoreInv
      <3>2. clock \in Nat /\ clock' \in Nat BY DEF StoreInv, StoreTypes
      <3>3. refresh[j] \in Task => refresh[j].stamp \in Nat BY DEF Task
      <3> QED BY <1>1, <1>3, <2>2, <3>1, <3>2, <3>3 DEF TaskSound
    <2> QED BY <2>1, <2>2
  <1> QED BY <1>4, <1>5 DEF StoreInv

\* What a guard on the step of a refresh says: it is under way.
LEMMA AtWork ==
  ASSUME StoreInv, NEW k \in Actor,
         refresh[k].at \in {"fetch", "save", "prune", "pruned", "failed"}
  PROVE  refresh[k] \in Task /\ TaskSound(refresh[k])
BY DEF StoreInv, StoreTypes, Store!Off

LEMMA FetchKeepsStore ==
  ASSUME StoreInv, NEW k \in Actor, Store!FetchPage(k)
  PROVE  StoreInv'
  <1>1. PICK f : f = refresh[k] OBVIOUS
  <1>2. PICK S : S = listed[f.site] OBVIOUS
  <1>3. f \in Task /\ TaskSound(f) /\ f.at = "fetch" BY <1>1, AtWork DEF Store!FetchPage
  <1>4. f.site \in Store!Site /\ S \in SUBSET Entry /\ S \in SUBSET Nat /\ IsFiniteSet(S)
    BY <1>2, <1>3, StoreConstants DEF Task, StoreInv, StoreTypes
  <1>5. UNCHANGED <<kind, listed, cache, home, clock>> BY DEF Store!FetchPage
  <1>6. \A e : Store!Place(e, f.site) = PlaceIn(S, e)
    BY <1>2, SameCounts DEF Store!Place, PlaceIn
  <1>7. PICK onPage : onPage = {e \in S : PlaceIn(S, e) = f.page} OBVIOUS
  <1>8. \/ onPage = {} /\ Store!Go(k, [f EXCEPT !.at = "prune"])
        \/ \E e \in onPage :
              Store!Go(k, [f EXCEPT !.at = "save", !.entry = e, !.got = @ \cup {e},
                                    !.more = f.page < Cardinality(S)])
    BY <1>1, <1>2, <1>6, <1>7, SameCounts DEF Store!FetchPage
  <1>9. \A e \in S : PlaceIn(S, e) \in 1 .. Cardinality(S)
    BY <1>4, PlacesAreOrdered
  <1>10. Cardinality(S) \in Nat /\ f.page \in Nat \ {0} BY <1>3, <1>4, PlacesAreOrdered DEF Task
  <1>11. CASE onPage = {} /\ Store!Go(k, [f EXCEPT !.at = "prune"])
    <2>1. PICK g : g = [f EXCEPT !.at = "prune"] OBVIOUS
    <2>2. /\ g \in Task /\ g.at = "prune" /\ g.site = f.site /\ g.stamp = f.stamp
          /\ g.held = f.held /\ g.got = f.got /\ g.calm = f.calm /\ g.alone = f.alone
      BY <1>3, <2>1 DEF Task
    <2>3. ASSUME AllHeld(f), NEW e \in f.held PROVE Stamped(f, e)
      <3>1. e \in S BY <1>2, <2>3 DEF AllHeld
      <3>2. PlaceIn(S, e) < f.page
        <4>1. f.page \notin 1 .. Cardinality(S) BY <1>4, <1>7, <1>11, PagesAreFull
        <4> QED BY <1>9, <1>10, <3>1, <4>1
      <3> QED BY <1>2, <1>3, <2>3, <3>2 DEF AllHeld
    <2>4. AllHeld(f) => AllHeld(g)'
      BY <1>5, <2>2, <2>3 DEF AllHeld, Stamped, RowFor
    <2>5. OnlyShown(f) => OnlyShown(g)' BY <1>3, <1>5, <2>2 DEF OnlyShown
    <2>6. TaskSound(g)' BY <1>3, <1>5, <2>2, <2>4, <2>5 DEF TaskSound
    <2>7. Store!Go(k, g) BY <1>11, <2>1
    <2>8. StoreTypes' /\ HomesAgree' /\ clock' >= clock
      BY <1>5, <2>2, <2>7 DEF StoreInv, StoreTypes, HomesAgree, Store!Go
    <2> QED BY <1>1, <1>3, <2>2, <2>6, <2>7, <2>8, OwnStep
  <1>12. ASSUME NEW e \in onPage,
                Store!Go(k, [f EXCEPT !.at = "save", !.entry = e, !.got = @ \cup {e},
                                      !.more = f.page < Cardinality(S)])
         PROVE  StoreInv'
    <2>0. PICK m \in BOOLEAN : m <=> f.page < Cardinality(S) OBVIOUS
    <2>1. PICK g : g = [f EXCEPT !.at = "save", !.entry = e, !.got = @ \cup {e}, !.more = m]
      OBVIOUS
    <2>2. e \in S /\ e \in Nat /\ e \in Entry /\ PlaceIn(S, e) = f.page BY <1>4, <1>7
    <2>3. /\ g \in Task /\ g.at = "save" /\ g.site = f.site /\ g.stamp = f.stamp /\ g.page = f.page
          /\ g.held = f.held /\ g.got = f.got \cup {e} /\ g.calm = f.calm /\ g.alone = f.alone
          /\ g.entry = e /\ g.more = m
      BY <1>3, <2>1, <2>2 DEF Task
    <2>4. ASSUME AllHeld(f), NEW d \in f.held, PlaceIn(S, d) <= f.page \/ ~g.more
          PROVE  d = e \/ Stamped(f, d)
      <3>1. d \in S BY <1>2, <2>4 DEF AllHeld
      <3>2. PlaceIn(S, d) <= f.page /\ PlaceIn(S, d) \in Nat
        BY <1>9, <1>10, <2>0, <2>3, <2>4, <3>1
      <3>3. CASE PlaceIn(S, d) < f.page BY <1>2, <1>3, <2>4, <3>3 DEF AllHeld
      <3>4. CASE PlaceIn(S, d) = f.page
        <4>1. ~(d < e) /\ ~(e < d) BY <1>4, <2>2, <3>1, <3>2, <3>4, PlacesAreOrdered
        <4> QED BY <1>4, <2>2, <3>1, <4>1
      <3> QED BY <1>10, <3>2, <3>3, <3>4
    <2>5. AllHeld(f) => AllHeld(g)'
      <3> SUFFICES ASSUME AllHeld(f) PROVE AllHeld(g)' OBVIOUS
      <3>1. g.held \subseteq listed'[g.site] BY <1>5, <2>3 DEF AllHeld
      <3>2. ASSUME NEW d \in g.held, PlaceIn(listed'[g.site], d) <= g.page \/ ~g.more
            PROVE  d = g.entry \/ Stamped(g, d)'
        BY <1>2, <1>5, <2>3, <2>4, <3>2 DEF Stamped, RowFor
      <3> QED BY <2>3, <3>1, <3>2 DEF AllHeld
    <2>6. OnlyShown(f) => OnlyShown(g)' BY <1>5, <2>3 DEF OnlyShown
    <2>7. TaskSound(g)' BY <1>3, <1>5, <2>3, <2>5, <2>6 DEF TaskSound
    <2>8. Store!Go(k, g)
      <3>1. m = (f.page < Cardinality(S)) BY <2>0
      <3> QED BY <1>12, <2>1, <3>1
    <2>9. StoreTypes' /\ HomesAgree' /\ clock' >= clock
      BY <1>5, <2>3, <2>8 DEF StoreInv, StoreTypes, HomesAgree, Store!Go
    <2> QED BY <1>1, <1>3, <2>3, <2>7, <2>8, <2>9, OwnStep
  <1> QED BY <1>8, <1>11, <1>12
\* A row that is written gets the stamp of its refresh; the entry was shown to it.
LEMMA SaveKeepsStore ==
  ASSUME StoreInv, NEW k \in Actor, Store!Save(k)
  PROVE  StoreInv'
  <1>1. PICK f : f = refresh[k] OBVIOUS
  <1>2. f \in Task /\ TaskSound(f) /\ f.at = "save" BY <1>1, AtWork DEF Store!Save
  <1>3. PICK q : q = RowFor(f.site) OBVIOUS
  <1>4. /\ f.site \in Store!Site /\ q \in Store!Site /\ f.entry \in f.got /\ f.got \in SUBSET Entry
        /\ f.stamp \in Nat \ {0} /\ f.stamp <= clock /\ f.page \in Nat \ {0}
        /\ f.held \in SUBSET Entry
    BY <1>2, <1>3, StoreConstants DEF Task, TaskSound, RowFor
  <1>5. UNCHANGED <<kind, listed, clock>> BY DEF Store!Save
  <1>t. PICK t \in {"fetch", "prune"} : t = IF f.more THEN "fetch" ELSE "prune" OBVIOUS
  <1>n. PICK n \in Nat \ {0} : n = f.page + 1 BY <1>4
  <1>6. PICK g : g = [f EXCEPT !.at = t, !.page = n] OBVIOUS
  <1>7. /\ g \in Task /\ g.at = t /\ g.site = f.site
        /\ g.stamp = f.stamp /\ g.page = n /\ g.held = f.held /\ g.got = f.got
        /\ g.calm = f.calm /\ g.alone = f.alone
    BY <1>2, <1>4, <1>6 DEF Task
  <1>8. PICK c : c = <<q, f.entry>> OBVIOUS
  <1>9. /\ cache' = [cache EXCEPT ![c] = f.stamp]
        /\ home' = [home EXCEPT ![c] = IF cache[c] = 0 THEN f.site ELSE @]
        /\ Store!Go(k, g)
    BY <1>1, <1>3, <1>t, <1>n, <1>6, <1>8 DEF Store!Save, Store!RowOf, RowFor
  <1>10. /\ cache \in [Store!Row -> Nat] /\ home \in [Store!Row -> Store!Site]
         /\ c \in Store!Row /\ clock \in Nat
         /\ \A s \in Store!Site, e \in Entry : <<s, e>> \in Store!Row /\ cache[<<s, e>>] <= clock
    BY <1>4, <1>8 DEF StoreInv, StoreTypes, Store!Row
  <1>11. ASSUME NEW s \in Store!Site, NEW e \in Entry
         PROVE  \/ /\ s = q /\ e = f.entry /\ cache'[<<s, e>>] = f.stamp
                   /\ home'[<<s, e>>] = IF cache[c] = 0 THEN f.site ELSE home[c]
                \/ /\ ~(s = q /\ e = f.entry)
                   /\ cache'[<<s, e>>] = cache[<<s, e>>] /\ home'[<<s, e>>] = home[<<s, e>>]
    <2>1. CASE s = q /\ e = f.entry BY <1>8, <1>9, <1>10, <2>1
    <2>2. CASE ~(s = q /\ e = f.entry)
      <3>1. <<s, e>> # c BY <1>8, <2>2
      <3> QED BY <1>9, <1>10, <2>2, <3>1
    <2> QED BY <2>1, <2>2
  <1>12. StoreTypes'
    <2>1. cache' \in [Store!Row -> Nat] BY <1>4, <1>9, <1>10
    <2>2. home' \in [Store!Row -> Store!Site] BY <1>4, <1>9, <1>10
    <2>3. \A s \in Store!Site, e \in Entry : cache'[<<s, e>>] <= clock BY <1>4, <1>10, <1>11
    <2>4. refresh' \in [Actor -> Task \cup {Store!Off}]
      BY <1>7, <1>9 DEF StoreInv, StoreTypes, Store!Go
    <2> QED BY <1>5, <2>1, <2>2, <2>3, <2>4 DEF StoreInv, StoreTypes
  <1>13. HomesAgree'
    <2> SUFFICES ASSUME kind = "listings", NEW s \in Store!Site, NEW e \in Entry,
                        cache'[<<s, e>>] # 0
                 PROVE  home'[<<s, e>>] = s
      BY <1>5 DEF HomesAgree
    <2>1. q = f.site BY <1>3 DEF RowFor
    <2>2. cache[<<s, e>>] # 0 => home[<<s, e>>] = s BY DEF StoreInv, HomesAgree
    <2> QED BY <1>8, <1>11, <2>1, <2>2
  <1>14. OnlyShown(f) => OnlyShown(g)'
    <2>0. g.at # "pruned" BY <1>7
    <2> SUFFICES ASSUME OnlyShown(f), NEW s \in Store!Site, NEW e \in Entry,
                        cache'[<<s, e>>] = f.stamp, kind = "orders" \/ home'[<<s, e>>] = f.site
                 PROVE  e \in f.got
      BY <1>5, <1>7, <2>0 DEF OnlyShown
    <2>1. CASE e = f.entry BY <1>4, <2>1
    <2>2. CASE e # f.entry BY <1>11, <2>2 DEF OnlyShown
    <2> QED BY <2>1, <2>2
  <1>15. AllHeld(f) => AllHeld(g)'
    <2> SUFFICES ASSUME AllHeld(f) PROVE AllHeld(g)' OBVIOUS
    <2>1. PICK S : S = listed[f.site] OBVIOUS
    <2>2. S \in SUBSET Nat /\ IsFiniteSet(S) /\ f.held \subseteq S
      BY <1>4, <2>1, StoreConstants DEF StoreInv, StoreTypes, AllHeld
    <2>3. ASSUME NEW e \in f.held, e = f.entry \/ Stamped(f, e) PROVE Stamped(g, e)'
      <3>1. cache'[<<q, e>>] = f.stamp BY <1>3, <1>4, <1>11, <2>3 DEF Stamped
      <3> QED BY <1>3, <1>5, <1>7, <3>1 DEF Stamped, RowFor
    <2>4. ASSUME NEW e \in f.held
          PROVE  /\ f.more /\ PlaceIn(S, e) < f.page + 1 => Stamped(g, e)'
                 /\ ~f.more => Stamped(g, e)'
      <3>0. e \in S /\ \A d \in S : PlaceIn(S, d) \in 1 .. Cardinality(S)
        BY <2>2, PlacesAreOrdered
      <3>1. PlaceIn(S, e) \in Nat BY <3>0
      <3>2. PlaceIn(S, e) < f.page + 1 => PlaceIn(S, e) <= f.page BY <1>4, <3>1
      <3> QED BY <1>2, <2>1, <2>3, <3>2 DEF AllHeld
    <2> QED BY <1>5, <1>t, <1>n, <1>7, <2>1, <2>2, <2>4 DEF AllHeld
  <1>16. TaskSound(g)' BY <1>2, <1>5, <1>7, <1>14, <1>15 DEF TaskSound
  <1> QED BY <1>1, <1>2, <1>5, <1>7, <1>9, <1>10, <1>12, <1>13, <1>16, OwnStep

\* What is older than a refresh that ran alone is removed, and nothing else of the site is left.
LEMMA PruneKeepsStore ==
  ASSUME StoreInv, NEW k \in Actor, Store!Prune(k)
  PROVE  StoreInv'
  <1>1. PICK f : f = refresh[k] OBVIOUS
  <1>2. f \in Task /\ TaskSound(f) /\ f.at = "prune" BY <1>1, AtWork DEF Store!Prune
  <1>3. PICK g : g = [f EXCEPT !.at = "pruned"] OBVIOUS
  <1>4. /\ g \in Task /\ g.at = "pruned" /\ g.site = f.site /\ g.stamp = f.stamp
        /\ g.held = f.held /\ g.got = f.got /\ g.calm = f.calm /\ g.alone = f.alone
    BY <1>2, <1>3 DEF Task
  <1>5. /\ cache' = [x \in Store!Row |-> IF home[x] = f.site /\ cache[x] < f.stamp
                                         THEN 0 ELSE cache[x]]
        /\ home' = [x \in Store!Row |-> IF cache'[x] = 0 THEN 1 ELSE home[x]]
        /\ Store!Go(k, g) /\ UNCHANGED <<kind, listed, clock>>
    BY <1>1, <1>3 DEF Store!Prune, Store!Outdated
  <1>6. /\ cache \in [Store!Row -> Nat] /\ home \in [Store!Row -> Store!Site] /\ clock \in Nat
        /\ \A s \in Store!Site, e \in Entry : <<s, e>> \in Store!Row /\ cache[<<s, e>>] <= clock
        /\ f.stamp \in Nat \ {0} /\ f.site \in Store!Site
    BY <1>2 DEF StoreInv, StoreTypes, Store!Row, Task
  <1>7. ASSUME NEW s \in Store!Site, NEW e \in Entry
        PROVE  /\ cache'[<<s, e>>] = (IF home[<<s, e>>] = f.site /\ cache[<<s, e>>] < f.stamp
                                      THEN 0 ELSE cache[<<s, e>>])
               /\ cache'[<<s, e>>] # 0 => home'[<<s, e>>] = home[<<s, e>>]
    BY <1>5, <1>6
  <1>8. StoreTypes'
    <2>1. cache' \in [Store!Row -> Nat] BY <1>5, <1>6
    <2>2. home' \in [Store!Row -> Store!Site]
      <3>1. \A x \in Store!Row : home'[x] = 1 \/ home'[x] = home[x] BY <1>5
      <3>2. home' = [x \in Store!Row |-> home'[x]] BY <1>5
      <3>3. \A x \in Store!Row : home'[x] \in Store!Site BY <1>6, <3>1, StoreConstants
      <3> QED BY <3>2, <3>3
    <2>3. \A s \in Store!Site, e \in Entry : cache'[<<s, e>>] <= clock
      <3> SUFFICES ASSUME NEW s \in Store!Site, NEW e \in Entry PROVE cache'[<<s, e>>] <= clock
        OBVIOUS
      <3>1. cache'[<<s, e>>] = 0 \/ cache'[<<s, e>>] = cache[<<s, e>>] BY <1>7
      <3>2. cache[<<s, e>>] <= clock /\ 0 <= clock BY <1>6
      <3> QED BY <3>1, <3>2
    <2>4. refresh' \in [Actor -> Task \cup {Store!Off}]
      BY <1>4, <1>5 DEF StoreInv, StoreTypes, Store!Go
    <2> QED BY <1>5, <2>1, <2>2, <2>3, <2>4 DEF StoreInv, StoreTypes
  <1>9. HomesAgree' BY <1>5, <1>7 DEF StoreInv, HomesAgree
  <1>10. f.alone /\ OnlyShown(f) => OnlyShown(g)'
    <2> SUFFICES ASSUME f.alone, OnlyShown(f), NEW s \in Store!Site, NEW e \in Entry,
                        \/ cache'[<<s, e>>] = f.stamp /\ (kind = "orders" \/ home'[<<s, e>>] = f.site)
                        \/ cache'[<<s, e>>] # 0 /\ home'[<<s, e>>] = f.site
                 PROVE  e \in f.got
      BY <1>4, <1>5 DEF OnlyShown
    <2>1. cache'[<<s, e>>] # 0 BY <1>6
    <2>2. /\ cache[<<s, e>>] = cache'[<<s, e>>] /\ home[<<s, e>>] = home'[<<s, e>>]
          /\ ~(home[<<s, e>>] = f.site /\ cache[<<s, e>>] < f.stamp)
      BY <1>7, <2>1
    <2>3. f.stamp = clock BY <1>2 DEF TaskSound
    <2>4. cache[<<s, e>>] \in Nat /\ cache[<<s, e>>] <= clock BY <1>6
    <2>5. home[<<s, e>>] = f.site => cache[<<s, e>>] = f.stamp BY <1>6, <2>2, <2>3, <2>4
    <2> QED BY <2>2, <2>5 DEF OnlyShown
  <1>11. AllHeld(f) => AllHeld(g)'
    <2> SUFFICES ASSUME AllHeld(f) PROVE AllHeld(g)' OBVIOUS
    <2>1. ASSUME NEW e \in f.held PROVE cache'[<<RowFor(f.site), e>>] # 0
      <3>1. PICK q : q = RowFor(f.site) OBVIOUS
      <3>2. q \in Store!Site /\ e \in Entry
        BY <1>2, <1>6, <3>1, StoreConstants DEF RowFor, Task
      <3>3. cache[<<q, e>>] = f.stamp BY <1>2, <3>1 DEF AllHeld, Stamped
      <3>4. cache'[<<q, e>>] = f.stamp BY <1>6, <1>7, <3>2, <3>3
      <3> QED BY <1>6, <3>1, <3>4
    <2> QED BY <1>4, <1>5, <2>1 DEF AllHeld, RowFor
  <1>12. TaskSound(g)' BY <1>2, <1>4, <1>5, <1>10, <1>11 DEF TaskSound
  <1> QED BY <1>1, <1>2, <1>4, <1>5, <1>6, <1>8, <1>9, <1>12, OwnStep

\* The task of a site at its start: no row has its stamp yet, and no entry comes before the
\* first page.
LEMMA FreshTask ==
  ASSUME StoreInv, NEW site \in Store!Site, NEW a \in BOOLEAN, NEW stamp \in Nat \ {0},
         NEW got \in SUBSET Entry, NEW g, g = Store!TaskOn(site, stamp, got, a),
         UNCHANGED <<kind, listed, cache, home>>, clock' \in Nat, stamp <= clock',
         a => stamp = clock'
                /\ (stamp > clock \/ (kind = "orders" /\ \A s \in Store!Site, e \in Entry :
                                                            cache[<<s, e>>] = stamp => e \in got))
  PROVE  g \in Task /\ g.alone = a /\ TaskSound(g)'
  <1>1. listed[site] \in SUBSET Entry BY DEF StoreInv, StoreTypes
  <1>2. /\ g \in Task /\ g.at = "fetch" /\ g.site = site /\ g.stamp = stamp /\ g.page = 1
        /\ g.held = listed[site] /\ g.got = got /\ g.alone = a
    BY <1>1 DEF Store!TaskOn, Task
  <1>3. a => OnlyShown(g)'
    <2> SUFFICES ASSUME a, NEW s \in Store!Site, NEW e \in Entry, cache[<<s, e>>] = stamp
                 PROVE  e \in got
      BY <1>2 DEF OnlyShown
    <2>1. cache[<<s, e>>] \in Nat /\ cache[<<s, e>>] <= clock /\ clock \in Nat
      BY DEF StoreInv, StoreTypes, Store!Row
    <2> QED BY <2>1
  <1>4. AllHeld(g)'
    <2>1. \A e \in listed[site] : PlaceIn(listed[site], e) \in Nat \ {0}
      <3>1. PICK S : S = listed[site] OBVIOUS
      <3>2. S \in SUBSET Nat /\ IsFiniteSet(S) BY <1>1, <3>1, StoreConstants
      <3>3. \A e \in S : PlaceIn(S, e) \in 1 .. Cardinality(S) /\ Cardinality(S) \in Nat
        BY <3>2, PlacesAreOrdered
      <3> QED BY <3>1, <3>3
    <2>2. \A e \in listed[site] : ~(PlaceIn(listed[site], e) < 1) BY <2>1
    <2> QED BY <1>2, <2>2 DEF AllHeld
  <1> QED BY <1>2, <1>3, <1>4 DEF TaskSound

LEMMA NextSiteKeepsStore ==
  ASSUME StoreInv, NEW k \in Actor, Store!NextListingSite(k) \/ Store!NextOrderSite(k)
  PROVE  StoreInv'
  <1>1. PICK f : f = refresh[k] OBVIOUS
  <1>2. f \in Task /\ TaskSound(f) /\ f.site < Sites
    BY <1>1, AtWork DEF Store!NextListingSite, Store!NextOrderSite, Store!AtEnd
  <1>3. /\ f.site + 1 \in Store!Site /\ f.alone \in BOOLEAN /\ f.stamp \in Nat \ {0}
        /\ f.got \in SUBSET Entry
    BY <1>2, StoreConstants DEF Task, Store!Site
  <1>4. UNCHANGED <<kind, listed, cache, home>> /\ clock \in Nat /\ clock' \in Nat /\ clock' >= clock
    BY DEF Store!NextListingSite, Store!NextOrderSite, Store!Tick, StoreInv, StoreTypes
  <1>5. PICK g : Store!Go(k, g) /\ g \in Task /\ g.alone = f.alone /\ TaskSound(g)'
    <2>1. CASE Store!NextListingSite(k)
      <3>1. PICK g : g = Store!TaskOn(f.site + 1, clock + 1, {}, f.alone) OBVIOUS
      <3>2. Store!Go(k, g) /\ clock' = clock + 1
        BY <1>1, <2>1, <3>1 DEF Store!NextListingSite, Store!Tick
      <3>3. g \in Task /\ g.alone = f.alone /\ TaskSound(g)'
        BY <1>3, <1>4, <3>1, <3>2, FreshTask
      <3> QED BY <3>2, <3>3
    <2>2. CASE Store!NextOrderSite(k)
      <3>1. PICK g : g = Store!TaskOn(f.site + 1, f.stamp, f.got, f.alone) OBVIOUS
      <3>2. Store!Go(k, g) /\ clock' = clock /\ kind = "orders"
        BY <1>1, <2>2, <3>1 DEF Store!NextOrderSite
      <3>3. f.stamp <= clock BY <1>2 DEF TaskSound
      <3>4. f.alone => /\ f.stamp = clock
                       /\ \A s \in Store!Site, e \in Entry : cache[<<s, e>>] = f.stamp => e \in f.got
        BY <1>2, <3>2 DEF TaskSound, OnlyShown
      <3>5. g \in Task /\ g.alone = f.alone /\ TaskSound(g)'
        BY <1>3, <1>4, <3>1, <3>2, <3>3, <3>4, FreshTask
      <3> QED BY <3>2, <3>5
    <2> QED BY <2>1, <2>2
  <1>6. StoreTypes' /\ HomesAgree'
    <2>1. \A s \in Store!Site, e \in Entry : cache'[<<s, e>>] <= clock'
      <3> SUFFICES ASSUME NEW s \in Store!Site, NEW e \in Entry PROVE cache[<<s, e>>] <= clock'
        BY <1>4
      <3>1. cache[<<s, e>>] \in Nat /\ cache[<<s, e>>] <= clock
        BY DEF StoreInv, StoreTypes, Store!Row
      <3> QED BY <1>4, <3>1
    <2>2. refresh' \in [Actor -> Task \cup {Store!Off}]
      BY <1>5 DEF StoreInv, StoreTypes, Store!Go
    <2> QED BY <1>4, <2>1, <2>2 DEF StoreInv, StoreTypes, HomesAgree
  <1> QED BY <1>1, <1>2, <1>4, <1>5, <1>6, OwnStep
\* Whoever begins is alone if nobody runs, and then nobody else is any more.
LEMMA BeginKeepsStore ==
  ASSUME StoreInv, NEW k \in Actor, Store!Begin(k)
  PROVE  StoreInv'
  <1>1. PICK a \in BOOLEAN : a <=> \A j \in Actor : refresh[j] = Store!Off OBVIOUS
  <1>2. PICK g : g = Store!TaskOn(1, clock + 1, {}, a) OBVIOUS
  <1>3. /\ clock' = clock + 1 /\ clock \in Nat
        /\ UNCHANGED <<kind, listed, cache, home>>
        /\ refresh \in [Actor -> Task \cup {Store!Off}]
    BY DEF Store!Begin, Store!Tick, StoreInv, StoreTypes
  <1>4. refresh' = [j \in Actor |-> IF j = k THEN g
                                    ELSE IF refresh[j] # Store!Off
                                         THEN [refresh[j] EXCEPT !.alone = FALSE] ELSE Store!Off]
    <2>1. a = (\A j \in Actor : ~Store!Running(j)) BY <1>1 DEF Store!Running
    <2> QED BY <1>2, <2>1 DEF Store!Begin, Store!Overlapped, Store!Running
  <1>5. g \in Task /\ g.alone = a /\ TaskSound(g)' BY <1>2, <1>3, StoreConstants, FreshTask
  <1>6. ASSUME NEW j \in Actor \ {k}
        PROVE  \/ refresh[j] = Store!Off /\ refresh'[j] = Store!Off
               \/ /\ refresh[j] \in Task /\ refresh'[j] \in Task /\ refresh'[j].alone = FALSE
                  /\ refresh'[j].stamp = refresh[j].stamp /\ refresh'[j].at = refresh[j].at
                  /\ refresh'[j].entry = refresh[j].entry /\ refresh'[j].got = refresh[j].got
    <2>1. CASE refresh[j] = Store!Off BY <1>4, <2>1
    <2>2. CASE refresh[j] # Store!Off
      <3>1. PICK f \in Task : f = refresh[j] BY <1>3, <2>2
      <3>2. refresh'[j] = [f EXCEPT !.alone = FALSE] BY <1>4, <2>2, <3>1
      <3> QED BY <3>1, <3>2 DEF Task
    <2> QED BY <2>1, <2>2
  <1>7. refresh'[k] = g /\ refresh' = [j \in Actor |-> refresh'[j]] BY <1>4
  <1>8. StoreTypes'
    <2>1. \A s \in Store!Site, e \in Entry : cache[<<s, e>>] <= clock + 1
      <3> SUFFICES ASSUME NEW s \in Store!Site, NEW e \in Entry PROVE cache[<<s, e>>] <= clock + 1
        OBVIOUS
      <3>1. cache[<<s, e>>] \in Nat /\ cache[<<s, e>>] <= clock
        BY DEF StoreInv, StoreTypes, Store!Row
      <3> QED BY <1>3, <3>1
    <2>2. \A j \in Actor : refresh'[j] \in Task \cup {Store!Off} BY <1>5, <1>6, <1>7
    <2>3. refresh' \in [Actor -> Task \cup {Store!Off}] BY <1>7, <2>2
    <2> QED BY <1>3, <2>1, <2>3 DEF StoreInv, StoreTypes
  <1>9. OneAlone'
    <2> SUFFICES ASSUME NEW i \in Actor, NEW j \in Actor, i # j, refresh'[i] \in Task,
                        refresh'[i].alone
                 PROVE  refresh'[j] = Store!Off
      BY DEF OneAlone
    <2>1. i = k BY <1>6, OffIsNoTask
    <2>2. a BY <1>5, <1>7, <2>1
    <2> QED BY <1>1, <1>6, <2>1, <2>2, OffIsNoTask
  <1>10. ASSUME NEW j \in Actor PROVE TaskSound(refresh[j])'
    <2>1. CASE j = k BY <1>5, <1>7, <2>1
    <2>2. CASE j # k
      <3>1. TaskSound(refresh[j]) BY DEF StoreInv
      <3>2. refresh[j] \in Task => refresh[j].stamp \in Nat BY DEF Task
      <3>3. PICK h : h = refresh'[j] OBVIOUS
      <3>4. CASE h = Store!Off
        <4>1. TaskSound(h)' BY <3>4, OffIsNoTask DEF TaskSound
        <4> QED BY <3>3, <4>1
      <3>5. CASE /\ refresh[j] \in Task /\ h.alone = FALSE /\ h.stamp = refresh[j].stamp
                 /\ h.at = refresh[j].at /\ h.entry = refresh[j].entry /\ h.got = refresh[j].got
        <4>1. h.stamp <= clock' BY <1>3, <3>1, <3>2, <3>5 DEF TaskSound
        <4>2. h.at = "save" => h.entry \in h.got BY <3>1, <3>5 DEF TaskSound
        <4>3. TaskSound(h)' BY <3>5, <4>1, <4>2 DEF TaskSound
        <4> QED BY <3>3, <4>3
      <3> QED BY <1>6, <2>2, <3>3, <3>4, <3>5
    <2> QED BY <2>1, <2>2
  <1>11. HomesAgree' BY <1>3 DEF StoreInv, HomesAgree
  <1> QED BY <1>8, <1>9, <1>10, <1>11 DEF StoreInv

LEMMA EndKeepsStore ==
  ASSUME StoreInv, NEW k \in Actor, Store!Finish(k) \/ Store!FailSite(k)
  PROVE  StoreInv'
  <1>1. PICK f : f = refresh[k] OBVIOUS
  <1>2. f \in Task /\ TaskSound(f)
    BY <1>1, AtWork DEF Store!Finish, Store!FailSite, Store!AtEnd
  <1>3. UNCHANGED <<kind, listed, cache, home, clock>> /\ clock \in Nat
    BY DEF Store!Finish, Store!FailSite, StoreInv, StoreTypes
  <1>4. PICK g : /\ Store!Go(k, g) /\ g \in Task \cup {Store!Off} /\ TaskSound(g)'
                 /\ g \in Task => g.alone = f.alone
    <2>1. CASE Store!Finish(k)
      <3>1. TaskSound(Store!Off)' BY OffIsNoTask DEF TaskSound
      <3> QED BY <2>1, <3>1, OffIsNoTask DEF Store!Finish
    <2>2. CASE Store!FailSite(k)
      <3>1. PICK g : g = [f EXCEPT !.at = "failed"] OBVIOUS
      <3>2. /\ g \in Task /\ g.at = "failed" /\ g.site = f.site /\ g.stamp = f.stamp
            /\ g.held = f.held /\ g.got = f.got /\ g.calm = f.calm /\ g.alone = f.alone
        BY <1>2, <3>1 DEF Task
      <3>3. OnlyShown(f) => OnlyShown(g)' BY <1>3, <3>2 DEF OnlyShown
      <3>4. AllHeld(f) => AllHeld(g)' BY <1>3, <3>2 DEF AllHeld
      <3>5. TaskSound(g)' BY <1>2, <1>3, <3>2, <3>3, <3>4 DEF TaskSound
      <3> QED BY <1>1, <2>2, <3>1, <3>2, <3>5 DEF Store!FailSite
    <2> QED BY <2>1, <2>2
  <1>5. StoreTypes' /\ HomesAgree'
    <2>1. refresh' \in [Actor -> Task \cup {Store!Off}]
      BY <1>4 DEF StoreInv, StoreTypes, Store!Go
    <2> QED BY <1>3, <2>1 DEF StoreInv, StoreTypes, HomesAgree
  <1> QED BY <1>1, <1>2, <1>3, <1>4, <1>5, OwnStep

\* What eBay or an edit does under the refreshes, which go on as they were: it suffices that
\* each of them is still sound.
LEMMA OutsideStep ==
  ASSUME StoreInv, StoreTypes', HomesAgree',
         \A k \in Actor : /\ refresh'[k] = Store!Off <=> refresh[k] = Store!Off
                          /\ refresh[k] \in Task => refresh'[k].alone = refresh[k].alone
                          /\ TaskSound(refresh[k])'
  PROVE  StoreInv'
  <1>1. \A k \in Actor : refresh'[k] \in Task => refresh[k] \in Task
    BY OffIsNoTask DEF StoreInv, StoreTypes
  <1>2. OneAlone' BY <1>1 DEF StoreInv, OneAlone
  <1> QED BY <1>2 DEF StoreInv

LEMMA AppearKeepsStore ==
  ASSUME StoreInv, NEW site \in Store!Site, NEW e \in Entry, Store!Appear(site, e)
  PROVE  StoreInv'
  <1>1. /\ listed' = [listed EXCEPT ![site] = @ \cup {e}]
        /\ listed \in [Store!Site -> SUBSET Entry]
        /\ UNCHANGED <<kind, cache, home, refresh, clock>>
    BY DEF Store!Appear, StoreInv, StoreTypes
  <1>2. \A s \in Store!Site : listed[s] \in SUBSET listed'[s] /\ listed'[s] \in SUBSET Entry
    BY <1>1
  <1>3. listed' \in [Store!Site -> SUBSET Entry] BY <1>1
  <1>4. StoreTypes' /\ HomesAgree' BY <1>1, <1>3 DEF StoreInv, StoreTypes, HomesAgree
  <1>5. ASSUME NEW k \in Actor PROVE TaskSound(refresh[k])'
    <2>1. PICK f : f = refresh[k] OBVIOUS
    <2>2. SUFFICES ASSUME f \in Task PROVE TaskSound(f)' BY <1>1, <2>1 DEF TaskSound
    <2>3. TaskSound(f) BY <2>1 DEF StoreInv
    <2>4. OnlyShown(f) => OnlyShown(f)' BY <1>1 DEF OnlyShown
    <2>5. AllHeld(f) => AllHeld(f)'
      <3> SUFFICES ASSUME AllHeld(f) PROVE AllHeld(f)' OBVIOUS
      <3>1. PICK S : S = listed[f.site] OBVIOUS
      <3>2. PICK T : T = listed'[f.site] OBVIOUS
      <3>3. /\ f.site \in Store!Site /\ f.page \in Nat
            /\ S \in SUBSET T /\ T \in SUBSET Nat /\ IsFiniteSet(T)
        BY <1>2, <2>2, <3>1, <3>2, StoreConstants DEF Task
      <3>4. f.held \subseteq S BY <3>1 DEF AllHeld
      <3>5. ASSUME NEW d \in f.held
            PROVE  /\ PlaceIn(T, d) < f.page => PlaceIn(S, d) < f.page
                   /\ PlaceIn(T, d) <= f.page => PlaceIn(S, d) <= f.page
        <4>1. d \in T BY <3>3, <3>4
        <4>2. /\ PlaceIn(S, d) \in Nat /\ PlaceIn(T, d) \in Nat
              /\ PlaceIn(S, d) <= PlaceIn(T, d)
          BY <3>3, <4>1, PlacesGrow
        <4> QED BY <3>3, <4>2
      <3>6. \A d : Stamped(f, d)' = Stamped(f, d) BY <1>1 DEF Stamped, RowFor
      <3>7. RowFor(f.site)' = RowFor(f.site) BY <1>1 DEF RowFor
      <3> QED BY <1>1, <3>1, <3>2, <3>3, <3>4, <3>5, <3>6, <3>7 DEF AllHeld
    <2> QED BY <1>1, <2>3, <2>4, <2>5 DEF TaskSound
  <1> QED BY <1>1, <1>4, <1>5, OutsideStep DEF StoreInv, StoreTypes

\* What leaves a site ends the claim of its refresh to hold everything.
LEMMA LeaveKeepsStore ==
  ASSUME StoreInv, NEW site \in Store!Site, NEW e \in Entry, Store!Leave(site, e)
  PROVE  StoreInv'
  <1>1. /\ listed' = [listed EXCEPT ![site] = @ \ {e}]
        /\ listed \in [Store!Site -> SUBSET Entry]
        /\ refresh \in [Actor -> Task \cup {Store!Off}]
        /\ refresh' = [k \in Actor |-> IF refresh[k] # Store!Off /\ refresh[k].site = site
                                       THEN [refresh[k] EXCEPT !.calm = FALSE] ELSE refresh[k]]
        /\ UNCHANGED <<kind, cache, home, clock>>
    BY DEF Store!Leave, Store!Running, StoreInv, StoreTypes
  <1>2. ASSUME NEW k \in Actor
        PROVE  \/ /\ refresh'[k] = refresh[k]
                  /\ refresh[k] \in Task => listed'[refresh[k].site] = listed[refresh[k].site]
               \/ /\ refresh[k] \in Task /\ refresh'[k] \in Task /\ refresh'[k].calm = FALSE
                  /\ refresh'[k].stamp = refresh[k].stamp /\ refresh'[k].at = refresh[k].at
                  /\ refresh'[k].entry = refresh[k].entry /\ refresh'[k].got = refresh[k].got
                  /\ refresh'[k].alone = refresh[k].alone /\ refresh'[k].site = refresh[k].site
    <2>1. CASE refresh[k] = Store!Off BY <1>1, <2>1, OffIsNoTask
    <2>2. CASE refresh[k] # Store!Off
      <3>1. PICK f \in Task : f = refresh[k] BY <1>1, <2>2
      <3>2. CASE f.site = site
        <4>1. refresh'[k] = [f EXCEPT !.calm = FALSE] BY <1>1, <2>2, <3>1, <3>2
        <4> QED BY <3>1, <4>1 DEF Task
      <3>3. CASE f.site # site
        <4>1. refresh'[k] = f BY <1>1, <3>1, <3>3
        <4>2. f.site \in Store!Site BY DEF Task
        <4> QED BY <1>1, <3>1, <3>3, <4>1, <4>2
      <3> QED BY <3>2, <3>3
    <2> QED BY <2>1, <2>2
  <1>3. StoreTypes' /\ HomesAgree'
    <2>1. listed' \in [Store!Site -> SUBSET Entry] BY <1>1
    <2>2. refresh' = [k \in Actor |-> refresh'[k]] BY <1>1
    <2>3. \A k \in Actor : refresh'[k] \in Task \cup {Store!Off} BY <1>1, <1>2
    <2>4. refresh' \in [Actor -> Task \cup {Store!Off}] BY <2>2, <2>3
    <2> QED BY <1>1, <2>1, <2>4 DEF StoreInv, StoreTypes, HomesAgree
  <1>4. ASSUME NEW k \in Actor PROVE TaskSound(refresh[k])'
    <2>1. TaskSound(refresh[k]) BY DEF StoreInv
    <2>2. CASE refresh[k] \notin Task BY <1>2, <2>2 DEF TaskSound
    <2>3. CASE refresh[k] \in Task
      <3>1. PICK f : f = refresh[k] OBVIOUS
      <3>2. PICK g : g = refresh'[k] OBVIOUS
      <3>3. \/ g = f /\ listed'[f.site] = listed[f.site]
            \/ /\ g \in Task /\ g.calm = FALSE /\ g.stamp = f.stamp /\ g.at = f.at
               /\ g.entry = f.entry /\ g.got = f.got /\ g.alone = f.alone /\ g.site = f.site
        BY <1>2, <2>3, <3>1, <3>2
      <3>4. OnlyShown(f) => OnlyShown(g)' BY <1>1, <3>3 DEF OnlyShown
      <3>5. g.calm /\ AllHeld(f) /\ f.calm => AllHeld(g)'
        BY <1>1, <3>3 DEF AllHeld, Stamped, RowFor
      <3>6. g.calm => f.calm BY <3>3
      <3>7. TaskSound(g)' BY <1>1, <2>1, <2>3, <3>1, <3>3, <3>4, <3>5, <3>6 DEF TaskSound
      <3> QED BY <3>2, <3>7
    <2> QED BY <2>2, <2>3
  <1>5. \A k \in Actor : /\ refresh'[k] = Store!Off <=> refresh[k] = Store!Off
                         /\ refresh[k] \in Task => refresh'[k].alone = refresh[k].alone
    BY <1>2, OffIsNoTask
  <1> QED BY <1>3, <1>4, <1>5, OutsideStep

\* An edit stamps a row that is there, and its refresh counts the entry as shown.
LEMMA EditKeepsStore ==
  ASSUME StoreInv, NEW site \in Store!Site, NEW e \in Entry, Store!Edit(site, e)
  PROVE  StoreInv'
  <1>1. PICK c : c = <<site, e>> OBVIOUS
  <1>2. /\ kind = "listings" /\ cache[c] # 0 /\ clock > 0
        /\ cache' = [cache EXCEPT ![c] = clock]
        /\ refresh' = [k \in Actor |-> IF refresh[k] # Store!Off /\ refresh[k].site = site
                                       THEN [refresh[k] EXCEPT !.got = @ \cup {e}] ELSE refresh[k]]
        /\ UNCHANGED <<kind, listed, home, clock>>
    BY <1>1 DEF Store!Edit, Store!RowOf, Store!Running
  <1>3. /\ refresh \in [Actor -> Task \cup {Store!Off}]
        /\ cache \in [Store!Row -> Nat] /\ clock \in Nat /\ c \in Store!Row
        /\ \A s \in Store!Site, d \in Entry : <<s, d>> \in Store!Row
    BY <1>1 DEF StoreInv, StoreTypes, Store!Row
  <1>4. ASSUME NEW s \in Store!Site, NEW d \in Entry
        PROVE  \/ s = site /\ d = e /\ cache'[<<s, d>>] = clock
               \/ ~(s = site /\ d = e) /\ cache'[<<s, d>>] = cache[<<s, d>>]
    <2>1. CASE s = site /\ d = e BY <1>1, <1>2, <1>3, <2>1
    <2>2. CASE ~(s = site /\ d = e)
      <3>1. <<s, d>> # c BY <1>1, <2>2
      <3> QED BY <1>2, <1>3, <2>2, <3>1
    <2> QED BY <2>1, <2>2
  <1>5. home[<<site, e>>] = site BY <1>1, <1>2 DEF StoreInv, HomesAgree
  <1>6. ASSUME NEW k \in Actor
        PROVE  \/ /\ refresh'[k] = refresh[k]
                  /\ refresh[k] \in Task => refresh[k].site # site
               \/ /\ refresh[k] \in Task /\ refresh'[k] \in Task /\ refresh[k].site = site
                  /\ refresh'[k] = [refresh[k] EXCEPT !.got = @ \cup {e}]
    <2>1. CASE refresh[k] = Store!Off BY <1>2, <2>1, OffIsNoTask
    <2>2. CASE refresh[k] # Store!Off
      <3>1. PICK f \in Task : f = refresh[k] BY <1>3, <2>2
      <3>2. CASE f.site = site
        <4>1. refresh'[k] = [f EXCEPT !.got = @ \cup {e}] BY <1>2, <2>2, <3>1, <3>2
        <4>2. [f EXCEPT !.got = @ \cup {e}] \in Task BY DEF Task
        <4> QED BY <3>1, <3>2, <4>1, <4>2
      <3>3. CASE f.site # site BY <1>2, <3>1, <3>3
      <3> QED BY <3>2, <3>3
    <2> QED BY <2>1, <2>2
  <1>7. StoreTypes' /\ HomesAgree'
    <2>1. cache' \in [Store!Row -> Nat] BY <1>2, <1>3
    <2>2. refresh' = [k \in Actor |-> refresh'[k]] BY <1>2
    <2>3. \A k \in Actor : refresh'[k] \in Task \cup {Store!Off} BY <1>3, <1>6
    <2>4. refresh' \in [Actor -> Task \cup {Store!Off}] BY <2>2, <2>3
    <2>5. \A s \in Store!Site, d \in Entry : cache'[<<s, d>>] <= clock
      <3> SUFFICES ASSUME NEW s \in Store!Site, NEW d \in Entry PROVE cache'[<<s, d>>] <= clock
        OBVIOUS
      <3>1. cache[<<s, d>>] <= clock BY DEF StoreInv, StoreTypes
      <3> QED BY <1>3, <1>4, <3>1
    <2>6. StoreTypes' BY <1>2, <2>1, <2>4, <2>5 DEF StoreInv, StoreTypes
    <2>7. HomesAgree' BY <1>2, <1>4, <1>5 DEF StoreInv, HomesAgree
    <2> QED BY <2>6, <2>7
  <1>8. ASSUME NEW k \in Actor PROVE TaskSound(refresh[k])'
    <2>1. TaskSound(refresh[k]) BY DEF StoreInv
    <2>2. CASE refresh[k] \notin Task BY <1>6, <2>2 DEF TaskSound
    <2>3. CASE refresh[k] \in Task
      <3>1. PICK f \in Task : f = refresh[k] BY <2>3
      <3>2. PICK g : g = refresh'[k] OBVIOUS
      <3>3. /\ g \in Task /\ g.site = f.site /\ g.at = f.at /\ g.stamp = f.stamp /\ g.page = f.page
            /\ g.held = f.held /\ g.calm = f.calm /\ g.alone = f.alone /\ g.entry = f.entry
            /\ g.more = f.more /\ f.got \subseteq g.got
            /\ f.site = site => e \in g.got
        <4>1. CASE g = f /\ f.site # site BY <4>1
        <4>2. CASE g \in Task /\ g = [f EXCEPT !.got = @ \cup {e}]
          BY <4>2 DEF Task
        <4> QED BY <1>6, <3>1, <3>2, <4>1, <4>2
      <3>4. OnlyShown(f) => OnlyShown(g)'
        <4> SUFFICES ASSUME OnlyShown(f), NEW s \in Store!Site, NEW d \in Entry,
                            home[<<s, d>>] = f.site,
                            cache'[<<s, d>>] = f.stamp \/ (f.at = "pruned" /\ cache'[<<s, d>>] # 0)
                     PROVE  d \in g.got
          BY <1>2, <3>3 DEF OnlyShown
        <4>1. CASE s = site /\ d = e BY <1>5, <3>3, <4>1
        <4>2. CASE ~(s = site /\ d = e)
          <5>1. cache'[<<s, d>>] = cache[<<s, d>>] BY <1>4, <4>2
          <5> QED BY <3>3, <5>1 DEF OnlyShown
        <4> QED BY <4>1, <4>2
      <3>5. f.stamp = clock /\ AllHeld(f) => AllHeld(g)'
        <4> SUFFICES ASSUME f.stamp = clock, AllHeld(f) PROVE AllHeld(g)' OBVIOUS
        <4>1. \A d \in f.held : <<f.site, d>> \in Store!Row /\ f.site \in Store!Site /\ d \in Entry
          BY <1>3 DEF Task
        <4>2. \A d \in f.held : Stamped(f, d) => Stamped(g, d)'
          BY <1>2, <1>4, <3>3, <4>1 DEF Stamped, RowFor
        <4>3. ASSUME NEW d \in f.held, cache[<<RowFor(f.site), d>>] # 0
              PROVE  (cache[<<RowFor(f.site), d>>] # 0)'
          <5>1. RowFor(f.site) = f.site /\ RowFor(f.site)' = f.site BY <1>2 DEF RowFor
          <5> QED BY <1>2, <1>3, <1>4, <4>1, <4>3, <5>1
        <4>4. RowFor(f.site)' = RowFor(f.site) BY <1>2 DEF RowFor
        <4> QED BY <1>2, <3>3, <4>2, <4>3, <4>4 DEF AllHeld
      <3>6. TaskSound(g)' BY <1>2, <2>1, <3>1, <3>3, <3>4, <3>5 DEF TaskSound
      <3> QED BY <3>2, <3>6
    <2> QED BY <2>2, <2>3
  <1>9. ASSUME NEW k \in Actor
        PROVE  /\ refresh'[k] = Store!Off <=> refresh[k] = Store!Off
               /\ refresh[k] \in Task => refresh'[k].alone = refresh[k].alone
    <2>1. CASE refresh'[k] = refresh[k] BY <2>1
    <2>2. CASE /\ refresh[k] \in Task /\ refresh'[k] \in Task
               /\ refresh'[k] = [refresh[k] EXCEPT !.got = @ \cup {e}]
      <3>1. PICK f \in Task : f = refresh[k] BY <2>2
      <3>2. [f EXCEPT !.got = @ \cup {e}].alone = f.alone BY DEF Task
      <3> QED BY <2>2, <3>1, <3>2, OffIsNoTask
    <2> QED BY <1>6, <2>1, <2>2
  <1> QED BY <1>7, <1>8, <1>9, OutsideStep

LEMMA StoreStep == ASSUME StoreInv, [Store!Next]_(Store!vars) PROVE StoreInv'
  <1>1. CASE UNCHANGED <<kind, listed, cache, home, refresh, clock>>
    <2>1. \A f : TaskSound(f)' = TaskSound(f)
      BY <1>1 DEF TaskSound, OnlyShown, AllHeld, Stamped, RowFor
    <2> QED BY <1>1, <2>1 DEF StoreInv, StoreTypes, HomesAgree, OneAlone
  <1>2. CASE UNCHANGED Store!vars BY <1>1, <1>2 DEF Store!vars
  <1>3. CASE Store!Restart
    <2>1. /\ \A k \in Actor : refresh'[k] = Store!Off
          /\ refresh' = [k \in Actor |-> Store!Off]
          /\ UNCHANGED <<kind, listed, cache, home, clock>>
      BY <1>3 DEF Store!Restart
    <2>2. StoreTypes' /\ HomesAgree' BY <2>1 DEF StoreInv, StoreTypes, HomesAgree
    <2> QED BY <2>1, <2>2, OffIsNoTask DEF StoreInv, OneAlone, TaskSound
  <1>4. CASE \E site \in Store!Site, e \in Entry :
               Store!Appear(site, e) \/ Store!Leave(site, e) \/ Store!Edit(site, e)
    BY <1>4, AppearKeepsStore, LeaveKeepsStore, EditKeepsStore
  <1>5. ASSUME NEW k \in Actor,
               \/ Store!StartListings(k) \/ Store!StartOrders(k) \/ Store!FetchPage(k)
               \/ Store!SaveListing(k) \/ Store!SaveOrder(k) \/ Store!PruneListings(k)
               \/ Store!PruneOrders(k) \/ Store!NextListingSite(k) \/ Store!NextOrderSite(k)
               \/ Store!Finish(k) \/ Store!FailSite(k)
        PROVE  StoreInv'
    BY <1>5, BeginKeepsStore, FetchKeepsStore, SaveKeepsStore, PruneKeepsStore,
       NextSiteKeepsStore, EndKeepsStore
       DEF Store!StartListings, Store!StartOrders, Store!SaveListing, Store!SaveOrder,
           Store!PruneListings, Store!PruneOrders
  <1> QED BY <1>2, <1>3, <1>4, <1>5 DEF Store!Next

LEMMA StoreMeansFaithful == StoreInv => Store!RefreshIsFaithful
  <1> SUFFICES ASSUME StoreInv, NEW k \in Actor, refresh[k] # Store!Off,
                      refresh[k].at = "pruned", refresh[k].alone
               PROVE  /\ \A x \in Store!Row :
                           cache[x] # 0 /\ home[x] = refresh[k].site => x[2] \in refresh[k].got
                      /\ refresh[k].calm =>
                           \A e \in refresh[k].held :
                             cache[Store!RowOf(refresh[k].site, e)] # 0
    BY DEF Store!RefreshIsFaithful, Store!Running
  <1>1. refresh[k] \in Task /\ TaskSound(refresh[k]) BY AtWork
  <1>2. ASSUME NEW x \in Store!Row, cache[x] # 0, home[x] = refresh[k].site
        PROVE  x[2] \in refresh[k].got
    <2>1. PICK s \in Store!Site, e \in Entry : x = <<s, e>> BY DEF Store!Row
    <2> QED BY <1>1, <1>2, <2>1 DEF TaskSound, OnlyShown
  <1>3. ASSUME refresh[k].calm, NEW e \in refresh[k].held
        PROVE  cache[Store!RowOf(refresh[k].site, e)] # 0
    BY <1>1, <1>3 DEF TaskSound, AllHeld, RowFor, Store!RowOf
  <1> QED BY <1>2, <1>3

\* For every number of sites and every finite set of entries: however entries appear and
\* leave, refreshes start, fail and are forgotten, and rows are edited, a refresh that ran
\* alone leaves on a site what it was shown, and what was there all the time.
THEOREM AloneIsFaithful == OfficeSpec => []RefreshIsFaithful
  <1> DEFINE Inv == scenario = "store" => StoreInv
  <1>1. OfficeInit => Inv
    BY StoreAtFirst DEF OfficeInit
  <1>2. Inv /\ [OfficeNext]_officeVars => Inv'
    BY ScenarioStays, StoreFollows, StoreStep
  <1>3. Inv => RefreshIsFaithful
    BY StoreMeansFaithful DEF RefreshIsFaithful
  <1> QED BY <1>1, <1>2, <1>3, PTL DEF OfficeSpec

-----------------------------------------------------------------------------
(* Team and Connections: an invitation, and the state of an authorization,     *)
(* work once.                                                                  *)

Invited == [status  : {"none", "PENDING", "ACCEPTED", "REVOKED", "EXPIRED"},
            role    : Members!Role \ {"OWNER"}, version : Nat, late : BOOLEAN]

TeamShaped ==
    /\ role = [u \in User |-> role[u]] /\ entry \in [User -> Nat]
    /\ invitation \in [User -> Invited] /\ req = [r \in Actor |-> req[r]]

\* Of an invitation the status, or that it is late, may change.
LEMMA InvitedStays ==
    ASSUME NEW i \in Invited,
           NEW new \in {"none", "PENDING", "ACCEPTED", "REVOKED", "EXPIRED"}
    PROVE  [i EXCEPT !.status = new] \in Invited /\ [i EXCEPT !.late = TRUE] \in Invited
BY DEF Invited

LEMMA StatusOfInvited ==
    ASSUME invitation \in [User -> Invited], NEW u,
           NEW new \in {"none", "PENDING", "ACCEPTED", "REVOKED", "EXPIRED"},
           invitation' = [invitation EXCEPT ![u].status = new]
    PROVE  invitation' \in [User -> Invited]
  <1>1. CASE u \in User
    <2>1. [invitation[u] EXCEPT !.status = new] \in Invited BY <1>1, InvitedStays
    <2> QED BY <1>1, <2>1
  <1>2. CASE u \notin User BY <1>2
  <1> QED BY <1>1, <1>2

\* Only an acceptance makes somebody a member, by the invitation that it finds under the lock.
LEMMA InvitationStep ==
    ASSUME TeamShaped, [Members!Next]_(Members!vars)
    PROVE  TeamShaped' /\ Members!InvitationsAdmitOnce
  <1> USE DEF TeamShaped, Members!InvitationsAdmitOnce
  <1>1. CASE UNCHANGED Members!vars BY <1>1 DEF Members!vars
  <1>2. ASSUME NEW u \in User, Members!GrowLate(u)
        PROVE  TeamShaped' /\ Members!InvitationsAdmitOnce
    BY <1>2, InvitedStays DEF Members!GrowLate
  <1>3. ASSUME NEW r \in Actor,
               \/ Members!Revoke(r) \/ Members!MarkExpired(r)
               \/ \E u \in User, as \in Members!Role \ {"OWNER"} : Members!Invite(r, u, as)
        PROVE  TeamShaped' /\ Members!InvitationsAdmitOnce
    <2>1. /\ entry' = entry /\ role' = role
          /\ \E read : req' = [req EXCEPT ![r] = read]
      BY <1>3 DEF Members!Revoke, Members!MarkExpired, Members!Invite, Members!End, Members!Become
    <2>2. ASSUME NEW u \in User, NEW as \in Members!Role \ {"OWNER"}, Members!Invite(r, u, as)
          PROVE  invitation' \in [User -> Invited]
      <3>1. PICK i : i = [status |-> "PENDING", role |-> as,
                          version |-> invitation[u].version + 1, late |-> FALSE]
        OBVIOUS
      <3>2. i \in Invited
        <4>1. invitation[u].version + 1 \in Nat BY DEF Invited
        <4> QED BY <3>1, <4>1 DEF Invited
      <3>3. invitation' = [invitation EXCEPT ![u] = i] \/ invitation' = invitation
        BY <2>2, <3>1 DEF Members!Invite
      <3> QED BY <3>2, <3>3
    <2>3. ASSUME Members!Revoke(r) \/ Members!MarkExpired(r)
          PROVE  invitation' \in [User -> Invited]
      <3>1. PICK u : u = req[r].user OBVIOUS
      <3>2. \/ invitation' = invitation
            \/ \E new \in {"REVOKED", "EXPIRED"} :
                    invitation' = [invitation EXCEPT ![u].status = new]
        BY <2>3, <3>1 DEF Members!Revoke, Members!MarkExpired
      <3> QED BY <3>2, StatusOfInvited
    <2>4. invitation' \in [User -> Invited] BY <1>3, <2>2, <2>3
    <2> QED BY <2>1, <2>4
  <1>4. ASSUME NEW r \in Actor,
               \/ Members!Issue(r)
               \/ \E u \in User :
                    \/ Members!ReadActor(r, u) \/ Members!ReadInvitation(r, u)
                    \/ Members!ReadToken(r, u) \/ Members!ReadMember(r, u)
                    \/ Members!CheckMembership(r, u)
        PROVE  TeamShaped' /\ Members!InvitationsAdmitOnce
    BY <1>4 DEF Members!Issue, Members!ReadActor, Members!ReadInvitation, Members!ReadToken,
                Members!ReadMember, Members!CheckMembership, Members!End, Members!Become
  <1>5. ASSUME NEW r \in Actor, Members!ChangeMember(r)
        PROVE  TeamShaped' /\ Members!InvitationsAdmitOnce
    BY <1>5 DEF Members!ChangeMember, Members!End, Members!Become
  <1>6. ASSUME NEW r \in Actor, Members!Accept(r)
        PROVE  TeamShaped' /\ Members!InvitationsAdmitOnce
    <2>1. PICK u : u = req[r].user OBVIOUS
    <2>2. CASE Members!Admits(u, req[r].version) /\ role[u] = "none" /\ u \in User
      <3>1. /\ role' = [role EXCEPT ![u] = invitation[u].role]
            /\ entry' = [entry EXCEPT ![u] = entry[u] + 1]
            /\ invitation' = [invitation EXCEPT ![u].status = "ACCEPTED"]
            /\ req' = [req EXCEPT ![r] = Members!Idle]
        BY <1>6, <2>1, <2>2 DEF Members!Accept, Members!End, Members!Become
      <3>2. invitation' \in [User -> Invited]
        <4>1. \E new \in {"ACCEPTED"} : invitation' = [invitation EXCEPT ![u].status = new]
          BY <3>1
        <4> QED BY <4>1, StatusOfInvited
      <3>3. entry[u] + 1 \in Nat BY <2>2
      <3>4. TeamShaped' BY <2>2, <3>1, <3>2, <3>3
      <3>5. Members!InvitationsAdmitOnce
        BY <1>6, <2>1, <2>2, <3>1 DEF Members!Accept, Members!Admits
      <3> QED BY <3>4, <3>5
    <2>3. CASE ~(Members!Admits(u, req[r].version) /\ role[u] = "none")
      BY <1>6, <2>1, <2>3 DEF Members!Accept, Members!End, Members!Become
    <2>4. CASE u \notin User
      BY <1>6, <2>1, <2>4 DEF Members!Accept, Members!End, Members!Become
    <2> QED BY <2>2, <2>3, <2>4
  <1> QED BY <1>1, <1>2, <1>3, <1>4, <1>5, <1>6 DEF Members!Next

(* A redirect that exchanges its code has used the state, which stays used.    *)
StatesInv ==
    /\ state = [s \in Ebay!State |-> state[s]] /\ asks = [r \in Actor |-> asks[r]]
    /\ \A r \in Actor :
         /\ asks[r].at = "consume" => asks[r].state \in Ebay!State
         /\ asks[r].at = "exchange" => state[asks[r].state] = "used"

LEMMA StatesStep ==
    ASSUME StatesInv, [Ebay!Next]_(Ebay!vars) PROVE StatesInv' /\ Ebay!StatesWorkOnce
  <1> USE DEF StatesInv, Ebay!StatesWorkOnce
  <1>1. CASE UNCHANGED Ebay!vars BY <1>1 DEF Ebay!vars
  <1>2. ASSUME NEW s \in Ebay!State, Ebay!CreateAuthorization(s) \/ Ebay!StateExpires(s)
        PROVE  StatesInv' /\ Ebay!StatesWorkOnce
    <2>1. PICK new : /\ state[s] # "used" /\ state' = [state EXCEPT ![s] = new] /\ asks' = asks
      BY <1>2 DEF Ebay!CreateAuthorization, Ebay!StateExpires
    <2> QED BY <2>1
  <1>3. CASE \E c \in Data : Ebay!AccessExpires(c) \/ Ebay!RefreshExpires(c)
    BY <1>3 DEF Ebay!AccessExpires, Ebay!RefreshExpires
  <1>4. ASSUME NEW r \in Actor, NEW s \in Ebay!State, Ebay!ReadState(r, s)
        PROVE  StatesInv' /\ Ebay!StatesWorkOnce
    BY <1>4 DEF Ebay!ReadState, Ebay!Begin
  <1>5. ASSUME NEW r \in Actor, Ebay!Consume(r)
        PROVE  StatesInv' /\ Ebay!StatesWorkOnce
    <2>1. CASE Ebay!Unused(asks[r].state)
      <3>1. PICK s \in Ebay!State : s = asks[r].state /\ state[s] = "open"
        BY <1>5, <2>1 DEF Ebay!Consume, Ebay!Unused
      <3>2. /\ state' = [state EXCEPT ![s] = "used"]
            /\ asks' = [asks EXCEPT ![r] = [at |-> "exchange", state |-> s]]
        BY <1>5, <2>1, <3>1 DEF Ebay!Consume, Ebay!Become
      <3>3. state'[s] = "used" /\ \A t : state[t] = "used" => state'[t] = "used" BY <3>1, <3>2
      <3> QED BY <3>1, <3>2, <3>3
    <2>2. CASE ~Ebay!Unused(asks[r].state)
      BY <1>5, <2>2 DEF Ebay!Consume, Ebay!Become, Ebay!End, Ebay!Idle
    <2> QED BY <2>1, <2>2
  <1>6. ASSUME NEW r \in Actor,
               \/ Ebay!Exchange(r) \/ Ebay!Save(r) \/ Ebay!StoreResources(r)
               \/ Ebay!CheckResources(r) \/ Ebay!UpdateDefaults(r) \/ Ebay!Disconnect(r)
               \/ Ebay!Fail(r)
        PROVE  StatesInv' /\ Ebay!StatesWorkOnce
    BY <1>6 DEF Ebay!Exchange, Ebay!Save, Ebay!StoreResources, Ebay!CheckResources,
                Ebay!UpdateDefaults, Ebay!Disconnect, Ebay!Fail, Ebay!Become, Ebay!End, Ebay!Idle
  <1>7. ASSUME NEW r \in Actor, Ebay!MarkExpired(r) \/ Ebay!Renew(r)
        PROVE  StatesInv' /\ Ebay!StatesWorkOnce
    BY <1>7 DEF Ebay!MarkExpired, Ebay!Renew, Ebay!After, Ebay!Become, Ebay!End, Ebay!Idle
  <1>8. ASSUME NEW r \in Actor, NEW c \in Data,
               \/ \E use_1 \in {"call", "sync"} : Ebay!GetAccessToken(r, c, use_1)
               \/ \E wants \in BOOLEAN : Ebay!CheckAccount(r, c, wants)
               \/ Ebay!ReadToDisconnect(r, c)
        PROVE  StatesInv' /\ Ebay!StatesWorkOnce
    BY <1>8 DEF Ebay!GetAccessToken, Ebay!CheckAccount, Ebay!ReadToDisconnect, Ebay!Begin
  <1> QED BY <1>1, <1>2, <1>3, <1>4, <1>5, <1>6, <1>7, <1>8 DEF Ebay!Next
-----------------------------------------------------------------------------
(* Accounts: ProofsWorkOnce rests on what has taken effect being refused from   *)
(* then on, and on what a request that goes by a link or a challenge has read.  *)

SentLink  == [type : Account!LinkType, state : {"open", "consumed", "expired"}]
Challenged == [state : {"open", "consumed", "expired", "deleted"}, attempts : Nat]
Factor == [on : BOOLEAN, pending : {"none", "fresh", "expired"}, last : Step \cup {0},
           resets : Nat, sets : Nat]

AccountTypes ==
    /\ links \in Account!Seq(SentLink) /\ Account!Len(links) <= MaxLinks
    /\ challenges \in Account!Seq(Challenged) /\ Account!Len(challenges) <= MaxChallenges
    /\ mfa \in Factor /\ issued \in Nat /\ live \subseteq 1 .. issued
    /\ used \in [Account!Proof -> Nat] /\ visit = [r \in Actor |-> visit[r]]

(* What would be accepted if it were shown, now or when it exists.             *)
Unspent(p) ==
    /\ p[1] = "link" => p[2] \notin DOMAIN links \/ links[p[2]].state = "open"
    /\ p[1] = "challenge" => p[2] \notin DOMAIN challenges \/ challenges[p[2]].state = "open"
    /\ p[1] = "session" => p[2] > issued \/ p[2] \in live
    /\ p[1] = "step" => p[2] > mfa.resets \/ (p[2] = mfa.resets /\ p[3] > mfa.last)
    /\ p[1] = "code" => p[2] > mfa.sets \/ (p[2] = mfa.sets /\ p[3] \in codes)

UsedAreSpent == \A p \in Account!Proof : Unspent(p) => used[p] = 0

(* A request at a link or a challenge has read it before its first use.        *)
ReadBefore(v) ==
    /\ v.at = "send" => v.type \in Account!LinkType
    /\ v.at = "link" => v.link \in DOMAIN links /\ v.proof = <<"link", v.link>> /\ v.before = 0
    /\ v.at = "challenge" => /\ v.challenge \in DOMAIN challenges
                             /\ v.proof = <<"challenge", v.challenge>> /\ v.before = 0
    /\ v.at = "failed" => v = [at |-> "failed", count |-> v.count]
    /\ v.at = "passed" => v = [at |-> "passed", factor |-> v.factor]
    /\ v.at = "rotate" => v = [at |-> "rotate", session |-> v.session]

VisitsRead == \A r \in Actor : ReadBefore(visit[r])

SpentInv == AccountTypes /\ UsedAreSpent /\ VisitsRead

\* Steps, and the parts of what may be shown, are numbers; a step is no recovery code.
LEMMA StepsAreNumbers ==
    /\ \A n \in Step : n \in Nat /\ n > 0
    /\ Step \cap RecoveryCode = {}
    /\ {MaxLinks, MaxChallenges, MaxSessions, MaxSets, MaxResets} \subseteq Nat
  <1>1. Account!AccountsAssumption BY BackOfficeAssumption DEF BackOfficeAssumption
  <1>2. /\ Account!IsFiniteSet(Step) <=> IsFiniteSet(Step)
        /\ Account!Cardinality(Step) = Cardinality(Step)
    BY DEF Account!IsFiniteSet, IsFiniteSet, Account!Cardinality, Cardinality
  <1>3. Cardinality(Step) \in Nat /\ Step = 1 .. Cardinality(Step)
    BY <1>1, <1>2, FS_CardinalityType DEF Account!AccountsAssumption
  <1> QED BY <1>1, <1>3 DEF Account!AccountsAssumption

LEMMA ProofParts ==
    ASSUME NEW p \in Account!Proof
    PROVE  /\ p[1] \in {"session", "step", "code"} => p[2] \in Nat
           /\ p[1] = "step" => p[3] \in Nat
BY StepsAreNumbers DEF Account!Proof

LEMMA SpentAtFirst == Account!Init => SpentInv
  <1> SUFFICES ASSUME Account!Init PROVE SpentInv OBVIOUS
  <1>1. AccountTypes
    <2>1. /\ links \in Account!Seq(SentLink) /\ Account!Len(links) <= MaxLinks
          /\ challenges \in Account!Seq(Challenged) /\ Account!Len(challenges) <= MaxChallenges
      <3>1. links = <<>> /\ challenges = <<>> BY DEF Account!Init
      <3>2. Account!Len(<<>>) = 0 /\ MaxLinks \in Nat /\ MaxChallenges \in Nat BY StepsAreNumbers
      <3> QED BY <3>1, <3>2
    <2>2. mfa \in Factor
      <3>1. PICK on \in BOOLEAN : mfa = [on |-> on, pending |-> "none", last |-> 0, resets |-> 0,
                                        sets |-> 0]
        BY DEF Account!Init
      <3> QED BY <3>1 DEF Factor
    <2>3. used \in [Account!Proof -> Nat] BY DEF Account!Init
    <2> QED BY <2>1, <2>2, <2>3 DEF Account!Init, AccountTypes
  <1>2. UsedAreSpent BY DEF Account!Init, UsedAreSpent
  <1>3. VisitsRead BY DEF Account!Init, VisitsRead, ReadBefore, Account!Idle
  <1> QED BY <1>1, <1>2, <1>3 DEF SpentInv

\* A step that spends nothing, and gives nothing back.
LEMMA NothingSpent ==
    ASSUME SpentInv, used' = used, \A p \in Account!Proof : Unspent(p)' => Unspent(p)
    PROVE  UsedAreSpent' /\ Account!ProofsWorkOnce
BY DEF SpentInv, AccountTypes, UsedAreSpent, Account!ProofsWorkOnce

(* A request that had read what it shows before its first use, and ends.       *)
EndsWith(p) == \E r \in Actor : /\ visit[r].at \in {"link", "challenge"} /\ visit[r].proof = p
                                /\ visit[r].before = 0 /\ visit'[r] = Account!Idle

\* A step that spends what was unspent, or what the request that ends had read in time.
LEMMA Spent ==
    ASSUME SpentInv, NEW S, Account!Take(S),
           \A p \in Account!Proof : Unspent(p)' => Unspent(p) /\ p \notin S,
           \A p \in S : Unspent(p) \/ EndsWith(p)
    PROVE  /\ used' \in [Account!Proof -> Nat]
           /\ UsedAreSpent' /\ Account!ProofsWorkOnce
  <1>1. ASSUME NEW p \in Account!Proof
        PROVE  used[p] \in Nat /\ used'[p] = used[p] + (IF p \in S THEN 1 ELSE 0)
    BY DEF Account!Take, SpentInv, AccountTypes
  <1>2. used' \in [Account!Proof -> Nat]
    BY DEF Account!Take, SpentInv, AccountTypes
  <1>3. UsedAreSpent' BY <1>1 DEF SpentInv, UsedAreSpent
  <1>4. Account!ProofsWorkOnce
    BY <1>1 DEF SpentInv, UsedAreSpent, Account!ProofsWorkOnce, EndsWith
  <1> QED BY <1>2, <1>3, <1>4

\* What the requests have read still stands: links and challenges are never removed.
LEMMA OthersHaveRead ==
    ASSUME SpentInv, NEW r \in Actor, NEW v, visit' = [visit EXCEPT ![r] = v], ReadBefore(v)',
           DOMAIN links \subseteq DOMAIN links', DOMAIN challenges \subseteq DOMAIN challenges'
    PROVE  VisitsRead' /\ visit' = [q \in Actor |-> visit'[q]] /\ visit'[r] = v
  <1>1. visit' = [q \in Actor |-> visit'[q]] /\ visit'[r] = v
    BY DEF SpentInv, AccountTypes
  <1>2. ASSUME NEW q \in Actor PROVE ReadBefore(visit[q])'
    <2>1. CASE q = r BY <1>1, <2>1 DEF ReadBefore
    <2>2. CASE q # r
      <3>1. visit'[q] = visit[q] /\ ReadBefore(visit[q])
        BY <2>2 DEF SpentInv, AccountTypes, VisitsRead
      <3> QED BY <3>1 DEF ReadBefore
    <2> QED BY <2>1, <2>2
  <1> QED BY <1>1, <1>2 DEF VisitsRead

LEMMA NoneHasRead ==
    ASSUME SpentInv, visit' = visit, DOMAIN links \subseteq DOMAIN links',
           DOMAIN challenges \subseteq DOMAIN challenges'
    PROVE  VisitsRead' /\ visit' = [q \in Actor |-> visit'[q]]
  <1>1. ASSUME NEW q \in Actor PROVE ReadBefore(visit[q])'
    <2>1. visit'[q] = visit[q] /\ ReadBefore(visit[q]) BY DEF SpentInv, VisitsRead
    <2> QED BY <2>1 DEF ReadBefore
  <1> QED BY <1>1 DEF VisitsRead, SpentInv, AccountTypes

\* Requests that only read, or change the user, the counts of failures or their own reads.
LEMMA ReadSpendsNothing ==
    ASSUME SpentInv, NEW r \in Actor,
           \/ Account!CheckEmail(r) \/ (\E t \in Account!LinkType : Account!RequestLink(r, t))
           \/ (\E l \in DOMAIN links : Account!ReadLink(r, l))
           \/ Account!ReadLogin(r) \/ Account!CountFailure(r) \/ Account!Lock(r)
           \/ Account!ResetFailures(r)
           \/ (\E c \in DOMAIN challenges : Account!ReadChallenge(r, c)) \/ Account!RollBack(r)
           \/ Account!CheckSetup(r) \/ Account!ReadSetup(r) \/ Account!CheckFactor(r)
           \/ Account!CheckPassword(r) \/ \E s \in 1 .. issued : Account!ReadRotation(r, s)
    PROVE  SpentInv' /\ Account!ProofsWorkOnce
  <1>1. UNCHANGED <<links, mfa, codes, challenges, issued, live, used>>
    BY DEF Account!CheckEmail, Account!RequestLink, Account!ReadLink, Account!ReadLogin,
           Account!CountFailure, Account!Lock, Account!ResetFailures, Account!ReadChallenge,
           Account!RollBack, Account!CheckSetup, Account!ReadSetup, Account!CheckFactor,
           Account!CheckPassword, Account!ReadRotation
  <1>2. UsedAreSpent' /\ Account!ProofsWorkOnce BY <1>1, NothingSpent DEF Unspent
  <1>3. \E v : visit' = [visit EXCEPT ![r] = v] /\ ReadBefore(v)
    <2> USE DEF Account!Begin, Account!End, Account!Idle
    <2>1. ASSUME NEW l \in DOMAIN links, Account!ReadLink(r, l)
          PROVE  \E v : visit' = [visit EXCEPT ![r] = v] /\ ReadBefore(v)
      <3>1. <<"link", l>> \in Account!Proof /\ Unspent(<<"link", l>>)
        BY <2>1, StepsAreNumbers
           DEF Account!ReadLink, Account!Proof, Unspent, SpentInv, AccountTypes
      <3>2. used[<<"link", l>>] = 0 BY <3>1 DEF SpentInv, UsedAreSpent
      <3>3. PICK v : v = [at |-> "link", link |-> l, proof |-> <<"link", l>>, before |-> 0] OBVIOUS
      <3>4. visit' = [visit EXCEPT ![r] = v] BY <2>1, <3>2, <3>3 DEF Account!ReadLink
      <3>5. ReadBefore(v) BY <3>3 DEF ReadBefore
      <3> QED BY <3>4, <3>5
    <2>2. ASSUME NEW c \in DOMAIN challenges, Account!ReadChallenge(r, c)
          PROVE  \E v : visit' = [visit EXCEPT ![r] = v] /\ ReadBefore(v)
      <3>1. <<"challenge", c>> \in Account!Proof /\ Unspent(<<"challenge", c>>)
        BY <2>2, StepsAreNumbers
           DEF Account!ReadChallenge, Account!Proof, Unspent, SpentInv, AccountTypes
      <3>2. used[<<"challenge", c>>] = 0 BY <3>1 DEF SpentInv, UsedAreSpent
      <3>3. PICK v : v = [at |-> "challenge", challenge |-> c, attempts |-> challenges[c].attempts,
                          proof |-> <<"challenge", c>>, before |-> 0]
        OBVIOUS
      <3>4. visit' = [visit EXCEPT ![r] = v] BY <2>2, <3>2, <3>3 DEF Account!ReadChallenge
      <3>5. ReadBefore(v) BY <3>3 DEF ReadBefore
      <3> QED BY <3>4, <3>5
    <2>3. CASE Account!CheckEmail(r)
      <3>1. PICK v : v = [at |-> "register"] OBVIOUS
      <3>2. visit' = [visit EXCEPT ![r] = v] BY <2>3, <3>1 DEF Account!CheckEmail
      <3>3. ReadBefore(v) BY <3>1 DEF ReadBefore
      <3> QED BY <3>2, <3>3
    <2>4. ASSUME NEW t \in Account!LinkType, Account!RequestLink(r, t)
          PROVE  \E v : visit' = [visit EXCEPT ![r] = v] /\ ReadBefore(v)
      <3>1. PICK v : v.at = "send" /\ v.type = t /\ visit' = [visit EXCEPT ![r] = v]
        BY <2>4 DEF Account!RequestLink
      <3>2. ReadBefore(v) BY <3>1 DEF ReadBefore
      <3> QED BY <3>1, <3>2
    <2>5. CASE Account!ReadLogin(r)
      BY <2>5 DEF Account!ReadLogin, ReadBefore
    <2>6. CASE Account!CountFailure(r)
      <3>1. visit[r] = [at |-> "failed", count |-> visit[r].count]
        BY <2>6 DEF Account!CountFailure, SpentInv, VisitsRead, ReadBefore
      <3>2. PICK n : \/ visit' = [visit EXCEPT ![r] = Account!Idle]
                     \/ visit' = [visit EXCEPT ![r] = [at |-> "failed", count |-> n]]
        BY <2>6, <3>1 DEF Account!CountFailure
      <3> QED BY <3>2 DEF ReadBefore
    <2>7. CASE Account!ResetFailures(r)
      <3>1. PICK f : visit[r] = [at |-> "passed", factor |-> f]
        BY <2>7 DEF Account!ResetFailures, SpentInv, VisitsRead, ReadBefore
      <3>2. PICK v : v = [visit[r] EXCEPT !.at = "grant"] OBVIOUS
      <3>3. visit' = [visit EXCEPT ![r] = v] BY <2>7, <3>2 DEF Account!ResetFailures, Account!Then
      <3>4. v.at = "grant" BY <3>1, <3>2
      <3>5. ReadBefore(v) BY <3>4 DEF ReadBefore
      <3> QED BY <3>3, <3>5
    <2>8. CASE Account!Lock(r) \/ Account!RollBack(r)
      BY <2>8 DEF Account!Lock, Account!RollBack, ReadBefore
    <2>9. CASE Account!CheckSetup(r) \/ Account!ReadSetup(r)
      BY <2>9 DEF Account!CheckSetup, Account!ReadSetup, ReadBefore
    <2>10. CASE Account!CheckFactor(r) \/ Account!CheckPassword(r)
      BY <2>10 DEF Account!CheckFactor, Account!CheckPassword, ReadBefore
    <2>11. ASSUME NEW s \in 1 .. issued, Account!ReadRotation(r, s)
           PROVE  \E v : visit' = [visit EXCEPT ![r] = v] /\ ReadBefore(v)
      <3>1. PICK v : v = [at |-> "rotate", session |-> s] OBVIOUS
      <3>2. visit' = [visit EXCEPT ![r] = v] BY <2>11, <3>1 DEF Account!ReadRotation
      <3>3. ReadBefore(v) BY <3>1 DEF ReadBefore
      <3> QED BY <3>2, <3>3
    <2> QED BY <2>1, <2>2, <2>3, <2>4, <2>5, <2>6, <2>7, <2>8, <2>9, <2>10, <2>11
  <1>4. PICK v : visit' = [visit EXCEPT ![r] = v] /\ ReadBefore(v) BY <1>3
  <1>5. ReadBefore(v)' BY <1>1, <1>4 DEF ReadBefore
  <1>6. VisitsRead' /\ visit' = [q \in Actor |-> visit'[q]] BY <1>1, <1>4, <1>5, OthersHaveRead
  <1> QED BY <1>1, <1>2, <1>6 DEF SpentInv, AccountTypes

\* Sequences that an update leaves as long as they were, and sequences with one element more.
LEMMA SameLength ==
    ASSUME NEW S, NEW s \in Account!Seq(S), NEW T, NEW f \in [DOMAIN s -> T]
    PROVE  f \in Account!Seq(T) /\ Account!Len(f) = Account!Len(s) /\ DOMAIN f = DOMAIN s
  <1>1. Account!Len(s) \in Nat /\ DOMAIN s = 1 .. Account!Len(s) OBVIOUS
  <1>2. f \in Account!Seq(T) BY <1>1
  <1>3. Account!Len(f) \in Nat /\ DOMAIN f = 1 .. Account!Len(f) BY <1>2
  <1>4. PICK m \in Nat, n \in Nat : m = Account!Len(s) /\ n = Account!Len(f) BY <1>1, <1>3
  <1>5. 1 .. m = 1 .. n BY <1>1, <1>3, <1>4
  <1>6. m = n
    <2>1. \A i \in Nat : i \in 1 .. m <=> i \in 1 .. n BY <1>5
    <2> QED BY <1>4, <2>1
  <1> QED BY <1>2, <1>4, <1>6

LEMMA OneLonger ==
    ASSUME NEW S, NEW s \in Account!Seq(S), NEW x \in S, NEW t, t = Account!Append(s, x)
    PROVE  /\ t \in Account!Seq(S) /\ Account!Len(t) = Account!Len(s) + 1
           /\ DOMAIN s \subseteq DOMAIN t /\ \A i \in DOMAIN s : t[i] = s[i]
OBVIOUS

\* A new link, which may make older ones useless.
LEMMA LinkSent ==
    ASSUME SpentInv, NEW f \in [DOMAIN links -> SentLink], NEW x \in SentLink,
           \A l \in DOMAIN links : f[l].state = "open" => links[l].state = "open",
           links' = Account!Append(f, x), Account!Len(links) < MaxLinks,
           UNCHANGED <<mfa, codes, challenges, issued, live>>
    PROVE  /\ links' \in Account!Seq(SentLink) /\ Account!Len(links') <= MaxLinks
           /\ DOMAIN links \subseteq DOMAIN links'
           /\ \A p \in Account!Proof : Unspent(p)' => Unspent(p)
  <1>1. /\ f \in Account!Seq(SentLink) /\ Account!Len(f) = Account!Len(links)
        /\ DOMAIN f = DOMAIN links
    BY SameLength DEF SpentInv, AccountTypes
  <1>2. /\ links' \in Account!Seq(SentLink) /\ Account!Len(links') = Account!Len(links) + 1
        /\ DOMAIN links \subseteq DOMAIN links' /\ \A l \in DOMAIN links : links'[l] = f[l]
    BY <1>1, OneLonger
  <1>3. Account!Len(links') <= MaxLinks
    <2>1. Account!Len(links) \in Nat /\ MaxLinks \in Nat
      BY StepsAreNumbers DEF SpentInv, AccountTypes
    <2> QED BY <1>2, <2>1
  <1>4. ASSUME NEW p \in Account!Proof, Unspent(p)' PROVE Unspent(p)
    <2>1. p[1] = "link" => p[2] \notin DOMAIN links \/ links[p[2]].state = "open"
      BY <1>2, <1>4 DEF Unspent
    <2> QED BY <1>4, <2>1 DEF Unspent
  <1> QED BY <1>2, <1>3, <1>4

\* Links that are no longer open.
LEMMA LinksClosed ==
    ASSUME SpentInv, links' \in [DOMAIN links -> SentLink],
           \A l \in DOMAIN links : links'[l].state = "open" => links[l].state = "open"
    PROVE  /\ links' \in Account!Seq(SentLink) /\ Account!Len(links') <= MaxLinks
           /\ DOMAIN links = DOMAIN links'
           /\ \A l : l \notin DOMAIN links' \/ links'[l].state = "open" =>
                     l \notin DOMAIN links \/ links[l].state = "open"
  <1>1. /\ links' \in Account!Seq(SentLink) /\ Account!Len(links') = Account!Len(links)
        /\ DOMAIN links' = DOMAIN links
    BY SameLength DEF SpentInv, AccountTypes
  <1> QED BY <1>1 DEF SpentInv, AccountTypes

LEMMA LinksSpendNothing ==
    ASSUME SpentInv, NEW r \in Actor, Account!Register(r) \/ Account!SendLink(r)
    PROVE  SpentInv' /\ Account!ProofsWorkOnce
  <1>1. UNCHANGED <<mfa, codes, challenges, issued, live, used>>
    BY DEF Account!Register, Account!SendLink
  <1>2. visit' = [visit EXCEPT ![r] = Account!Idle]
    BY DEF Account!Register, Account!SendLink, Account!End
  <1>3. PICK v : v = Account!Idle OBVIOUS
  <1>4. ReadBefore(v)' BY <1>3 DEF ReadBefore, Account!Idle
  <1>5. CASE UNCHANGED links
    <2>1. UsedAreSpent' /\ Account!ProofsWorkOnce BY <1>1, <1>5, NothingSpent DEF Unspent
    <2>2. VisitsRead' /\ visit' = [q \in Actor |-> visit'[q]]
      BY <1>1, <1>2, <1>3, <1>4, <1>5, OthersHaveRead
    <2> QED BY <1>1, <1>5, <2>1, <2>2 DEF SpentInv, AccountTypes
  <1>6. ASSUME NEW f \in [DOMAIN links -> SentLink], NEW x \in SentLink,
               \A l \in DOMAIN links : f[l].state = "open" => links[l].state = "open",
               links' = Account!Append(f, x), Account!Len(links) < MaxLinks
        PROVE  SpentInv' /\ Account!ProofsWorkOnce
    <2>1. /\ links' \in Account!Seq(SentLink) /\ Account!Len(links') <= MaxLinks
          /\ DOMAIN links \subseteq DOMAIN links'
          /\ \A p \in Account!Proof : Unspent(p)' => Unspent(p)
      BY <1>1, <1>6, LinkSent
    <2>2. UsedAreSpent' /\ Account!ProofsWorkOnce BY <1>1, <2>1, NothingSpent
    <2>3. VisitsRead' /\ visit' = [q \in Actor |-> visit'[q]]
      BY <1>1, <1>2, <1>3, <1>4, <2>1, OthersHaveRead
    <2> QED BY <1>1, <2>1, <2>2, <2>3 DEF SpentInv, AccountTypes
  <1>7. CASE Account!Register(r) /\ ~UNCHANGED links
    <2>1. PICK x : x = [type |-> "verify", state |-> "open"] OBVIOUS
    <2>2. links' = Account!Append(links, x) /\ Account!Len(links) < MaxLinks
      BY <1>7, <2>1 DEF Account!Register
    <2>3. x \in SentLink BY <2>1 DEF SentLink, Account!LinkType
    <2>4. links \in [DOMAIN links -> SentLink] BY DEF SpentInv, AccountTypes
    <2> QED BY <1>6, <2>2, <2>3, <2>4
  <1>8. CASE Account!SendLink(r)
    <2>1. PICK x : x = [type |-> visit[r].type, state |-> "open"] OBVIOUS
    <2>2. PICK f : f = [l \in DOMAIN links |->
                          IF l \in visit[r].older THEN [links[l] EXCEPT !.state = "consumed"]
                          ELSE links[l]]
      OBVIOUS
    <2>3. links' = Account!Append(f, x) /\ Account!Len(links) < MaxLinks
      BY <1>8, <2>1, <2>2 DEF Account!SendLink
    <2>4. x \in SentLink
      BY <1>8, <2>1 DEF Account!SendLink, SentLink, SpentInv, VisitsRead, ReadBefore
    <2>5. \A l \in DOMAIN links : links[l] \in SentLink BY DEF SpentInv, AccountTypes
    <2>6. f \in [DOMAIN links -> SentLink] BY <2>2, <2>5 DEF SentLink
    <2>7. \A l \in DOMAIN links : f[l].state = "open" => links[l].state = "open"
      BY <2>2, <2>5 DEF SentLink
    <2> QED BY <1>6, <2>3, <2>4, <2>6, <2>7
  <1> QED BY <1>5, <1>7, <1>8

\* Challenges that are no longer open.
LEMMA ChallengesClosed ==
    ASSUME SpentInv, challenges' \in [DOMAIN challenges -> Challenged],
           \A c \in DOMAIN challenges :
               challenges'[c].state = "open" => challenges[c].state = "open"
    PROVE  /\ challenges' \in Account!Seq(Challenged)
           /\ Account!Len(challenges') <= MaxChallenges
           /\ DOMAIN challenges = DOMAIN challenges'
           /\ \A c : c \notin DOMAIN challenges' \/ challenges'[c].state = "open" =>
                     c \notin DOMAIN challenges \/ challenges[c].state = "open"
  <1>1. /\ challenges' \in Account!Seq(Challenged)
        /\ Account!Len(challenges') = Account!Len(challenges)
        /\ DOMAIN challenges' = DOMAIN challenges
    BY SameLength DEF SpentInv, AccountTypes
  <1> QED BY <1>1 DEF SpentInv, AccountTypes

LEMMA ChallengesDeleted ==
    ASSUME SpentInv, Account!DeleteChallenges
    PROVE  /\ challenges' \in [DOMAIN challenges -> Challenged]
           /\ \A c \in DOMAIN challenges :
                  challenges'[c].state = "open" => challenges[c].state = "open"
  <1>1. \A c \in DOMAIN challenges : challenges[c] \in Challenged BY DEF SpentInv, AccountTypes
  <1> QED BY <1>1 DEF Account!DeleteChallenges, Challenged

(* No step and no code of the factor becomes acceptable again.                 *)
FactorCloses ==
    /\ mfa' \in Factor
    /\ \A n, s \in Nat : n > mfa'.resets \/ (n = mfa'.resets /\ s > mfa'.last) =>
                         n > mfa.resets \/ (n = mfa.resets /\ s > mfa.last)
    /\ \A n \in Nat : \A c : n > mfa'.sets \/ (n = mfa'.sets /\ c \in codes') =>
                                  n > mfa.sets \/ (n = mfa.sets /\ c \in codes)

LEMMA FactorOff ==
    ASSUME SpentInv, Account!Disabled PROVE FactorCloses /\ mfa'.resets = mfa.resets + 1
  <1>1. PICK on \in BOOLEAN, pending \in {"none", "fresh", "expired"}, last \in Step \cup {0},
             resets \in Nat, sets \in Nat :
             mfa = [on |-> on, pending |-> pending, last |-> last, resets |-> resets, sets |-> sets]
    BY DEF SpentInv, AccountTypes, Factor
  <1>2. mfa' = [on |-> FALSE, pending |-> "none", last |-> 0, resets |-> resets + 1, sets |-> sets]
    BY <1>1 DEF Account!Disabled
  <1>3. mfa' \in Factor BY <1>2 DEF Factor
  <1>4. last \in Nat BY StepsAreNumbers
  <1>5. codes' = {} BY DEF Account!Disabled
  <1> QED BY <1>1, <1>2, <1>3, <1>4, <1>5 DEF FactorCloses

\* A request that has read a link consumes it, and closes what else it closes.
LEMMA LinkSpent ==
    ASSUME SpentInv, NEW r \in Actor, visit[r].at = "link", Account!Take({visit[r].proof}),
           links' \in [DOMAIN links -> SentLink],
           \A l \in DOMAIN links : links'[l].state = "open" => links[l].state = "open",
           links'[visit[r].link].state = "consumed", Account!End(r),
           challenges' \in [DOMAIN challenges -> Challenged],
           \A c \in DOMAIN challenges :
               challenges'[c].state = "open" => challenges[c].state = "open",
           FactorCloses, issued' = issued, live' \subseteq live
    PROVE  SpentInv' /\ Account!ProofsWorkOnce
  <1>1. PICK l \in DOMAIN links : visit[r].link = l /\ visit[r].proof = <<"link", l>>
                                  /\ visit[r].before = 0
    BY DEF SpentInv, VisitsRead, ReadBefore
  <1>2. /\ links' \in Account!Seq(SentLink) /\ Account!Len(links') <= MaxLinks
        /\ DOMAIN links = DOMAIN links'
        /\ \A k : k \notin DOMAIN links' \/ links'[k].state = "open" =>
                  k \notin DOMAIN links \/ links[k].state = "open"
    BY LinksClosed
  <1>3. /\ challenges' \in Account!Seq(Challenged)
        /\ Account!Len(challenges') <= MaxChallenges
        /\ DOMAIN challenges = DOMAIN challenges'
        /\ \A c : c \notin DOMAIN challenges' \/ challenges'[c].state = "open" =>
                  c \notin DOMAIN challenges \/ challenges[c].state = "open"
    BY ChallengesClosed
  <1>4. ASSUME NEW p \in Account!Proof, Unspent(p)' PROVE Unspent(p) /\ p \notin {visit[r].proof}
    <2>1. p[1] = "link" => p[2] \notin DOMAIN links \/ links[p[2]].state = "open"
      BY <1>2, <1>4 DEF Unspent
    <2>2. p[1] = "challenge" => p[2] \notin DOMAIN challenges \/ challenges[p[2]].state = "open"
      BY <1>3, <1>4 DEF Unspent
    <2>3. p[1] = "session" => p[2] > issued \/ p[2] \in live BY <1>4 DEF Unspent
    <2>4. p[1] = "step" => p[2] > mfa.resets \/ (p[2] = mfa.resets /\ p[3] > mfa.last)
      BY <1>4, ProofParts DEF Unspent, FactorCloses
    <2>5. p[1] = "code" => p[2] > mfa.sets \/ (p[2] = mfa.sets /\ p[3] \in codes)
      BY <1>4, ProofParts DEF Unspent, FactorCloses
    <2>6. p # <<"link", l>> BY <1>1, <1>2, <1>4 DEF Unspent
    <2> QED BY <1>1, <2>1, <2>2, <2>3, <2>4, <2>5, <2>6 DEF Unspent
  <1>5. visit' = [visit EXCEPT ![r] = Account!Idle] BY DEF Account!End
  <1>6. PICK v : v = Account!Idle OBVIOUS
  <1>7. ReadBefore(v)' BY <1>6 DEF ReadBefore, Account!Idle
  <1>8. VisitsRead' /\ visit' = [q \in Actor |-> visit'[q]] /\ visit'[r] = Account!Idle
    BY <1>2, <1>3, <1>5, <1>6, <1>7, OthersHaveRead
  <1>9. EndsWith(visit[r].proof) BY <1>1, <1>8 DEF EndsWith
  <1>10. /\ used' \in [Account!Proof -> Nat]
         /\ UsedAreSpent' /\ Account!ProofsWorkOnce
    BY <1>4, <1>9, Spent
  <1>11. AccountTypes'
    BY <1>2, <1>3, <1>8, <1>10 DEF AccountTypes, SpentInv, FactorCloses
  <1> QED BY <1>8, <1>10, <1>11 DEF SpentInv

LEMMA FactorStays == ASSUME SpentInv, UNCHANGED <<mfa, codes>> PROVE FactorCloses
BY DEF FactorCloses, SpentInv, AccountTypes

LEMMA LinksSpend ==
    ASSUME SpentInv, NEW r \in Actor,
           \/ Account!VerifyEmail(r) \/ Account!ResetPassword(r) \/ Account!RecoverAccount(r)
    PROVE  SpentInv' /\ Account!ProofsWorkOnce
  <1>1. /\ visit[r].at = "link" /\ Account!Take({visit[r].proof}) /\ Account!End(r)
        /\ issued' = issued
    BY DEF Account!VerifyEmail, Account!ResetPassword, Account!RecoverAccount, Account!ReadLinkOf
  <1>2. live' \subseteq live
    BY DEF Account!VerifyEmail, Account!ResetPassword, Account!RecoverAccount, Account!RevokeAll
  <1>3. PICK l \in DOMAIN links : visit[r].link = l
    BY <1>1 DEF SpentInv, VisitsRead, ReadBefore
  <1>4. \A k \in DOMAIN links : links[k] \in SentLink /\ links \in [DOMAIN links -> SentLink]
    BY DEF SpentInv, AccountTypes
  <1>5. /\ links' \in [DOMAIN links -> SentLink] /\ links'[l].state = "consumed"
        /\ \A k \in DOMAIN links : links'[k].state = "open" => links[k].state = "open"
    <2>1. CASE Account!VerifyEmail(r) \/ Account!ResetPassword(r)
      <3>1. PICK new : new = [links[l] EXCEPT !.state = "consumed"] OBVIOUS
      <3>2. links' = [links EXCEPT ![l] = new]
        BY <1>3, <2>1, <3>1 DEF Account!VerifyEmail, Account!ResetPassword, Account!Consume
      <3>3. new \in SentLink /\ new.state = "consumed" BY <1>4, <3>1 DEF SentLink
      <3> QED BY <1>4, <3>2, <3>3
    <2>2. CASE Account!RecoverAccount(r)
      <3>1. links' = [k \in DOMAIN links |-> [links[k] EXCEPT !.state = "consumed"]]
        BY <2>2 DEF Account!RecoverAccount
      <3> QED BY <1>4, <3>1 DEF SentLink
    <2> QED BY <2>1, <2>2
  <1>6. /\ challenges' \in [DOMAIN challenges -> Challenged]
        /\ \A c \in DOMAIN challenges :
               challenges'[c].state = "open" => challenges[c].state = "open"
    <2>1. CASE Account!VerifyEmail(r) BY <2>1 DEF Account!VerifyEmail, SpentInv, AccountTypes
    <2>2. CASE Account!ResetPassword(r) \/ Account!RecoverAccount(r)
      BY <2>2, ChallengesDeleted DEF Account!ResetPassword, Account!RecoverAccount
    <2> QED BY <2>1, <2>2
  <1>7. FactorCloses
    <2>1. CASE Account!VerifyEmail(r) \/ Account!ResetPassword(r)
      BY <2>1, FactorStays DEF Account!VerifyEmail, Account!ResetPassword
    <2>2. CASE Account!RecoverAccount(r) BY <2>2, FactorOff DEF Account!RecoverAccount
    <2> QED BY <2>1, <2>2
  <1> QED BY <1>1, <1>2, <1>3, <1>5, <1>6, <1>7, LinkSpent

\* Steps that spend nothing and only close what was open.
LEMMA NothingOpened ==
    ASSUME SpentInv, used' = used, issued' = issued, live' \subseteq live, FactorCloses,
           links' \in [DOMAIN links -> SentLink],
           \A l \in DOMAIN links : links'[l].state = "open" => links[l].state = "open",
           challenges' \in [DOMAIN challenges -> Challenged],
           \A c \in DOMAIN challenges :
               challenges'[c].state = "open" => challenges[c].state = "open",
           visit' = visit \/ \E r \in Actor : visit' = [visit EXCEPT ![r] = Account!Idle]
    PROVE  SpentInv' /\ Account!ProofsWorkOnce
  <1>1. /\ links' \in Account!Seq(SentLink) /\ Account!Len(links') <= MaxLinks
        /\ DOMAIN links = DOMAIN links'
        /\ \A k : k \notin DOMAIN links' \/ links'[k].state = "open" =>
                  k \notin DOMAIN links \/ links[k].state = "open"
    BY LinksClosed
  <1>2. /\ challenges' \in Account!Seq(Challenged)
        /\ Account!Len(challenges') <= MaxChallenges
        /\ DOMAIN challenges = DOMAIN challenges'
        /\ \A c : c \notin DOMAIN challenges' \/ challenges'[c].state = "open" =>
                  c \notin DOMAIN challenges \/ challenges[c].state = "open"
    BY ChallengesClosed
  <1>3. ASSUME NEW p \in Account!Proof, Unspent(p)' PROVE Unspent(p)
    <2>1. p[1] = "link" => p[2] \notin DOMAIN links \/ links[p[2]].state = "open"
      BY <1>1, <1>3 DEF Unspent
    <2>2. p[1] = "challenge" => p[2] \notin DOMAIN challenges \/ challenges[p[2]].state = "open"
      BY <1>2, <1>3 DEF Unspent
    <2>3. p[1] = "session" => p[2] > issued \/ p[2] \in live BY <1>3 DEF Unspent
    <2>4. p[1] = "step" => p[2] > mfa.resets \/ (p[2] = mfa.resets /\ p[3] > mfa.last)
      BY <1>3, ProofParts DEF Unspent, FactorCloses
    <2>5. p[1] = "code" => p[2] > mfa.sets \/ (p[2] = mfa.sets /\ p[3] \in codes)
      BY <1>3, ProofParts DEF Unspent, FactorCloses
    <2> QED BY <2>1, <2>2, <2>3, <2>4, <2>5 DEF Unspent
  <1>4. UsedAreSpent' /\ Account!ProofsWorkOnce BY <1>3, NothingSpent
  <1>5. PICK v : v = Account!Idle OBVIOUS
  <1>6. ReadBefore(v)' BY <1>5 DEF ReadBefore, Account!Idle
  <1>7. VisitsRead' /\ visit' = [q \in Actor |-> visit'[q]]
    BY <1>1, <1>2, <1>5, <1>6, OthersHaveRead, NoneHasRead
  <1>8. AccountTypes' BY <1>1, <1>2, <1>7 DEF AccountTypes, SpentInv, FactorCloses
  <1> QED BY <1>4, <1>7, <1>8 DEF SpentInv

LEMMA RestStays ==
    ASSUME SpentInv
    PROVE  /\ links \in [DOMAIN links -> SentLink] /\ \A l \in DOMAIN links : links[l] \in SentLink
           /\ challenges \in [DOMAIN challenges -> Challenged]
           /\ \A c \in DOMAIN challenges : challenges[c] \in Challenged
BY DEF SpentInv, AccountTypes

\* Time passes, a wrong code is counted, a set-up begins or is dropped, sessions are revoked.
LEMMA OthersSpendNothing ==
    ASSUME SpentInv,
           \/ (\E l \in DOMAIN links : Account!ExpireLink(l))
           \/ (\E c \in DOMAIN challenges : Account!ExpireChallenge(c))
           \/ Account!ExpireSetup \/ Account!Unlock \/ (\E s \in 1 .. issued : Account!Logout(s))
           \/ \E r \in Actor : \/ Account!RejectCode(r) \/ Account!BeginSetup(r)
                               \/ Account!ClearSetup(r) \/ Account!ChangePassword(r)
    PROVE  SpentInv' /\ Account!ProofsWorkOnce
  <1>1. ASSUME NEW l \in DOMAIN links, Account!ExpireLink(l)
        PROVE  SpentInv' /\ Account!ProofsWorkOnce
    <2>1. PICK new : new = [links[l] EXCEPT !.state = "expired"] OBVIOUS
    <2>2. new \in SentLink /\ new.state = "expired" BY <2>1, RestStays DEF SentLink
    <2>3. links' = [links EXCEPT ![l] = new] BY <1>1, <2>1 DEF Account!ExpireLink
    <2>4. /\ links' \in [DOMAIN links -> SentLink]
          /\ \A k \in DOMAIN links : links'[k].state = "open" => links[k].state = "open"
      BY <2>2, <2>3, RestStays
    <2> QED BY <1>1, <2>4, RestStays, FactorStays, NothingOpened DEF Account!ExpireLink
  <1>2. ASSUME NEW c \in DOMAIN challenges, Account!ExpireChallenge(c)
        PROVE  SpentInv' /\ Account!ProofsWorkOnce
    <2>1. PICK new : new = [challenges[c] EXCEPT !.state = "expired"] OBVIOUS
    <2>2. new \in Challenged /\ new.state = "expired" BY <2>1, RestStays DEF Challenged
    <2>3. challenges' = [challenges EXCEPT ![c] = new] BY <1>2, <2>1 DEF Account!ExpireChallenge
    <2>4. /\ challenges' \in [DOMAIN challenges -> Challenged]
          /\ \A k \in DOMAIN challenges :
                 challenges'[k].state = "open" => challenges[k].state = "open"
      BY <2>2, <2>3, RestStays
    <2> QED BY <1>2, <2>4, RestStays, FactorStays, NothingOpened DEF Account!ExpireChallenge
  <1>3. ASSUME NEW r \in Actor, Account!RejectCode(r)
        PROVE  SpentInv' /\ Account!ProofsWorkOnce
    <2>1. PICK c \in DOMAIN challenges : visit[r].challenge = c
      BY <1>3 DEF Account!RejectCode, SpentInv, VisitsRead, ReadBefore
    <2>2. PICK outcome \in {"consumed", challenges[c].state} :
            challenges' = [challenges EXCEPT ![c] =
                             [state |-> outcome, attempts |-> challenges[c].attempts + 1]]
      BY <1>3, <2>1 DEF Account!RejectCode
    <2>3. PICK new : new = [state |-> outcome, attempts |-> challenges[c].attempts + 1] OBVIOUS
    <2>4. new \in Challenged /\ (new.state = "open" => challenges[c].state = "open")
      BY <2>2, <2>3, RestStays DEF Challenged
    <2>5. challenges' = [challenges EXCEPT ![c] = new] BY <2>2, <2>3
    <2>6. /\ challenges' \in [DOMAIN challenges -> Challenged]
          /\ \A k \in DOMAIN challenges :
                 challenges'[k].state = "open" => challenges[k].state = "open"
      BY <2>4, <2>5, RestStays
    <2> QED
      BY <1>3, <2>6, RestStays, FactorStays, NothingOpened DEF Account!RejectCode, Account!End
  <1>4. ASSUME NEW r \in Actor, Account!ChangePassword(r)
        PROVE  SpentInv' /\ Account!ProofsWorkOnce
    BY <1>4, RestStays, FactorStays, NothingOpened
       DEF Account!ChangePassword, Account!End, Account!RevokeAll
  <1>5. CASE Account!Unlock \/ \E s \in 1 .. issued : Account!Logout(s)
    BY <1>5, RestStays, FactorStays, NothingOpened DEF Account!Unlock, Account!Logout
  <1>6. CASE \/ Account!ExpireSetup
             \/ \E r \in Actor : Account!BeginSetup(r) \/ Account!ClearSetup(r)
    <2>1. PICK pending \in {"none", "fresh", "expired"} : mfa' = [mfa EXCEPT !.pending = pending]
      BY <1>6 DEF Account!ExpireSetup, Account!BeginSetup, Account!ClearSetup
    <2>2. /\ mfa' \in Factor /\ mfa'.resets = mfa.resets /\ mfa'.sets = mfa.sets
          /\ mfa'.last = mfa.last
      BY <2>1 DEF SpentInv, AccountTypes, Factor
    <2>3. UNCHANGED <<links, challenges, codes, issued, live, used>>
      BY <1>6 DEF Account!ExpireSetup, Account!BeginSetup, Account!ClearSetup
    <2>4. FactorCloses BY <2>2, <2>3 DEF FactorCloses
    <2>5. visit' = visit \/ \E r \in Actor : visit' = [visit EXCEPT ![r] = Account!Idle]
      BY <1>6 DEF Account!ExpireSetup, Account!BeginSetup, Account!ClearSetup, Account!End
    <2> QED BY <2>3, <2>4, <2>5, RestStays, NothingOpened
  <1> QED BY <1>1, <1>2, <1>3, <1>4, <1>5, <1>6

\* A new challenge or session, and a rotation that ends.
LEMMA NewSpendsNothing ==
    ASSUME SpentInv, NEW r \in Actor,
           Account!Challenge(r) \/ Account!SignIn(r) \/ Account!Replace(r)
    PROVE  SpentInv' /\ Account!ProofsWorkOnce
  <1>1. visit' = [visit EXCEPT ![r] = Account!Idle] /\ UNCHANGED <<links, mfa, codes, used>>
    BY DEF Account!Challenge, Account!SignIn, Account!Replace, Account!End
  <1>2. PICK v : v = Account!Idle OBVIOUS
  <1>3. ReadBefore(v)' BY <1>2 DEF ReadBefore, Account!Idle
  <1>4. CASE Account!Challenge(r)
    <2>1. PICK x : x = [state |-> "open", attempts |-> 0] OBVIOUS
    <2>2. challenges' = Account!Append(challenges, x) /\ Account!Len(challenges) < MaxChallenges
          /\ UNCHANGED <<issued, live>>
      BY <1>4, <2>1 DEF Account!Challenge
    <2>3. x \in Challenged BY <2>1 DEF Challenged
    <2>4. /\ challenges' \in Account!Seq(Challenged)
          /\ Account!Len(challenges') = Account!Len(challenges) + 1
          /\ DOMAIN challenges \subseteq DOMAIN challenges'
          /\ \A c \in DOMAIN challenges : challenges'[c] = challenges[c]
      BY <2>2, <2>3, OneLonger DEF SpentInv, AccountTypes
    <2>5. Account!Len(challenges') <= MaxChallenges
      <3>1. Account!Len(challenges) \in Nat /\ MaxChallenges \in Nat
        BY StepsAreNumbers DEF SpentInv, AccountTypes
      <3> QED BY <2>2, <2>4, <3>1
    <2>6. \A p \in Account!Proof : Unspent(p)' => Unspent(p) BY <1>1, <2>2, <2>4 DEF Unspent
    <2>7. UsedAreSpent' /\ Account!ProofsWorkOnce BY <1>1, <2>6, NothingSpent
    <2>8. VisitsRead' /\ visit' = [q \in Actor |-> visit'[q]]
      BY <1>1, <1>2, <1>3, <2>4, OthersHaveRead
    <2> QED BY <1>1, <2>2, <2>4, <2>5, <2>7, <2>8 DEF SpentInv, AccountTypes
  <1>5. CASE Account!NewSession /\ UNCHANGED challenges
    <2>1. /\ issued' = issued + 1 /\ live' = live \cup {issued + 1} /\ issued \in Nat
          /\ live \subseteq 1 .. issued
      BY <1>5 DEF Account!NewSession, SpentInv, AccountTypes
    <2>2. issued' \in Nat /\ live' \subseteq 1 .. issued' BY <2>1
    <2>3. \A p \in Account!Proof : Unspent(p)' => Unspent(p)
      BY <1>1, <1>5, <2>1, ProofParts DEF Unspent
    <2>4. UsedAreSpent' /\ Account!ProofsWorkOnce BY <1>1, <2>3, NothingSpent
    <2>5. VisitsRead' /\ visit' = [q \in Actor |-> visit'[q]]
      BY <1>1, <1>2, <1>3, <1>5, OthersHaveRead
    <2> QED BY <1>1, <1>5, <2>2, <2>4, <2>5 DEF SpentInv, AccountTypes
  <1> QED BY <1>4, <1>5 DEF Account!SignIn, Account!Replace

LEMMA RotationSpends ==
    ASSUME SpentInv, NEW r \in Actor, Account!ClaimRotation(r)
    PROVE  SpentInv' /\ Account!ProofsWorkOnce
  <1>1. UNCHANGED <<links, mfa, codes, challenges, issued>> BY DEF Account!ClaimRotation
  <1>2. PICK s : visit[r] = [at |-> "rotate", session |-> s]
    BY DEF Account!ClaimRotation, SpentInv, VisitsRead, ReadBefore
  <1>3. CASE Account!Rotates(s)
    <2>1. live' = live \ {s} /\ Account!Take({<<"session", s>>}) /\ Account!Then(r, "replace")
      BY <1>2, <1>3 DEF Account!ClaimRotation
    <2>2. s \in live /\ live \subseteq 1 .. issued /\ issued \in Nat
      BY <1>3 DEF Account!Rotates, SpentInv, AccountTypes
    <2>3. \A p \in Account!Proof : Unspent(p)' => Unspent(p) /\ p \notin {<<"session", s>>}
      <3>1. ASSUME NEW p \in Account!Proof, Unspent(p)' PROVE Unspent(p)
        BY <1>1, <2>1, <3>1 DEF Unspent
      <3>2. ASSUME NEW p \in Account!Proof, Unspent(p)' PROVE p # <<"session", s>>
        BY <1>1, <2>1, <2>2, <3>2 DEF Unspent
      <3> QED BY <3>1, <3>2
    <2>4. Unspent(<<"session", s>>) BY <2>2 DEF Unspent
    <2>5. /\ used' \in [Account!Proof -> Nat] /\ UsedAreSpent' /\ Account!ProofsWorkOnce
      BY <2>1, <2>3, <2>4, Spent
    <2>6. PICK v : v = [visit[r] EXCEPT !.at = "replace"] OBVIOUS
    <2>7. v.at = "replace" BY <1>2, <2>6
    <2>8. visit' = [visit EXCEPT ![r] = v] BY <2>1, <2>6 DEF Account!Then
    <2>9. ReadBefore(v)' BY <2>7 DEF ReadBefore
    <2>10. VisitsRead' /\ visit' = [q \in Actor |-> visit'[q]]
      BY <1>1, <2>8, <2>9, OthersHaveRead
    <2> QED BY <1>1, <2>1, <2>2, <2>5, <2>10 DEF SpentInv, AccountTypes
  <1>4. CASE ~Account!Rotates(s)
    <2>1. UNCHANGED <<live, used>> /\ visit' = [visit EXCEPT ![r] = Account!Idle]
      BY <1>2, <1>4 DEF Account!ClaimRotation, Account!End
    <2> QED BY <1>1, <2>1, RestStays, FactorStays, NothingOpened
  <1> QED BY <1>3, <1>4

\* What a code shows is accepted once: not again by the factor that it leaves behind.
LEMMA CodeShown ==
    ASSUME SpentInv, NEW code \in Account!Code, Account!Accepts(code), mfa' \in Factor,
           \/ mfa'.resets = mfa.resets + 1 /\ mfa'.sets = mfa.sets /\ codes' = {}
           \/ /\ mfa'.resets = mfa.resets /\ mfa'.last = Account!LastStep(code)
              /\ \/ mfa'.sets = mfa.sets /\ codes' = codes \ {code}
                 \/ mfa'.sets = mfa.sets + 1
    PROVE  /\ FactorCloses /\ Unspent(Account!ProofOf(code))
           /\ \A p \in Account!Proof : Unspent(p)' => p # Account!ProofOf(code)
  <1>1. /\ mfa.resets \in Nat /\ mfa.sets \in Nat /\ mfa.last \in Nat
        /\ mfa'.resets \in Nat /\ mfa'.sets \in Nat /\ mfa'.last \in Nat
    BY StepsAreNumbers DEF SpentInv, AccountTypes, Factor
  <1>2. CASE code \in Step
    <2>1. code \in Nat /\ mfa.last < code /\ code \notin RecoveryCode
          /\ Account!LastStep(code) = code
          /\ Account!ProofOf(code) = <<"step", mfa.resets, code>>
      BY <1>2, StepsAreNumbers DEF Account!Accepts, Account!LastStep, Account!ProofOf
    <2>2. FactorCloses BY <1>1, <2>1 DEF FactorCloses
    <2>3. Unspent(Account!ProofOf(code)) BY <1>1, <2>1 DEF Unspent
    <2>4. ASSUME NEW p \in Account!Proof, p = <<"step", mfa.resets, code>> PROVE ~Unspent(p)'
      <3>1. p[1] = "step" /\ p[2] = mfa.resets /\ p[3] = code BY <2>4
      <3> QED BY <1>1, <2>1, <3>1 DEF Unspent
    <2> QED BY <2>1, <2>2, <2>3, <2>4
  <1>3. CASE code \notin Step
    <2>1. code \in codes /\ Account!LastStep(code) = mfa.last
          /\ Account!ProofOf(code) = <<"code", mfa.sets, code>>
      BY <1>3 DEF Account!Accepts, Account!LastStep, Account!ProofOf
    <2>2. FactorCloses BY <1>1, <2>1 DEF FactorCloses
    <2>3. Unspent(Account!ProofOf(code)) BY <1>1, <2>1 DEF Unspent
    <2>4. ASSUME NEW p \in Account!Proof, p = <<"code", mfa.sets, code>> PROVE ~Unspent(p)'
      <3>1. p[1] = "code" /\ p[2] = mfa.sets /\ p[3] = code BY <2>4
      <3> QED BY <1>1, <2>1, <3>1 DEF Unspent
    <2> QED BY <2>1, <2>2, <2>3, <2>4
  <1> QED BY <1>2, <1>3

\* A challenge is answered by a code: both are spent, and a session begins.
LEMMA AnswerSpends ==
    ASSUME SpentInv, NEW r \in Actor, NEW code \in Account!Code, Account!AcceptCode(r, code)
    PROVE  SpentInv' /\ Account!ProofsWorkOnce
  <1>1. PICK c \in DOMAIN challenges :
            visit[r].challenge = c /\ visit[r].proof = <<"challenge", c>> /\ visit[r].before = 0
    BY DEF Account!AcceptCode, SpentInv, VisitsRead, ReadBefore
  <1>2. PICK new : new = [challenges[c] EXCEPT !.state = "consumed"] OBVIOUS
  <1>3. challenges' = [challenges EXCEPT ![c] = new] BY <1>1, <1>2 DEF Account!AcceptCode
  <1>4. new \in Challenged /\ new.state = "consumed" BY <1>2, RestStays DEF Challenged
  <1>5. /\ challenges' \in [DOMAIN challenges -> Challenged] /\ challenges'[c].state = "consumed"
        /\ \A d \in DOMAIN challenges :
               challenges'[d].state = "open" => challenges[d].state = "open"
    BY <1>3, <1>4, RestStays
  <1>6. /\ challenges' \in Account!Seq(Challenged)
        /\ Account!Len(challenges') <= MaxChallenges
        /\ DOMAIN challenges = DOMAIN challenges'
        /\ \A d : d \notin DOMAIN challenges' \/ challenges'[d].state = "open" =>
                  d \notin DOMAIN challenges \/ challenges[d].state = "open"
    BY <1>5, ChallengesClosed
  <1>7. mfa' \in Factor /\ mfa'.resets = mfa.resets /\ mfa'.sets = mfa.sets
        /\ mfa'.last = Account!LastStep(code)
    <2>1. Account!LastStep(code) \in Step \cup {0}
      BY DEF Account!LastStep, SpentInv, AccountTypes, Factor
    <2>2. mfa' = [mfa EXCEPT !.last = Account!LastStep(code)] BY DEF Account!AcceptCode
    <2> QED BY <2>1, <2>2 DEF SpentInv, AccountTypes, Factor
  <1>8. /\ FactorCloses /\ Unspent(Account!ProofOf(code))
        /\ \A p \in Account!Proof : Unspent(p)' => p # Account!ProofOf(code)
    BY <1>7, CodeShown DEF Account!AcceptCode
  <1>9. /\ issued' = issued + 1 /\ live' = live \cup {issued + 1} /\ issued \in Nat
        /\ live \subseteq 1 .. issued /\ links' = links
        /\ Account!Take({visit[r].proof, Account!ProofOf(code)})
        /\ visit[r].at = "challenge" /\ visit' = [visit EXCEPT ![r] = Account!Idle]
    BY DEF Account!AcceptCode, Account!NewSession, Account!End, SpentInv, AccountTypes
  <1>10. ASSUME NEW p \in Account!Proof, Unspent(p)'
         PROVE  Unspent(p) /\ p \notin {visit[r].proof, Account!ProofOf(code)}
    <2>1. p[1] = "link" => p[2] \notin DOMAIN links \/ links[p[2]].state = "open"
      BY <1>9, <1>10 DEF Unspent
    <2>2. p[1] = "challenge" => p[2] \notin DOMAIN challenges \/ challenges[p[2]].state = "open"
      BY <1>6, <1>10 DEF Unspent
    <2>3. p[1] = "session" => p[2] > issued \/ p[2] \in live
      BY <1>9, <1>10, ProofParts DEF Unspent
    <2>4. p[1] = "step" => p[2] > mfa.resets \/ (p[2] = mfa.resets /\ p[3] > mfa.last)
      BY <1>8, <1>10, ProofParts DEF Unspent, FactorCloses
    <2>5. p[1] = "code" => p[2] > mfa.sets \/ (p[2] = mfa.sets /\ p[3] \in codes)
      BY <1>8, <1>10, ProofParts DEF Unspent, FactorCloses
    <2>6. p # <<"challenge", c>> BY <1>5, <1>6, <1>10 DEF Unspent
    <2>7. Unspent(p) BY <2>1, <2>2, <2>3, <2>4, <2>5 DEF Unspent
    <2> QED BY <1>1, <1>8, <1>10, <2>6, <2>7
  <1>11. PICK v : v = Account!Idle OBVIOUS
  <1>12. ReadBefore(v)' BY <1>11 DEF ReadBefore, Account!Idle
  <1>13. VisitsRead' /\ visit' = [q \in Actor |-> visit'[q]] /\ visit'[r] = Account!Idle
    BY <1>6, <1>9, <1>11, <1>12, OthersHaveRead
  <1>14. EndsWith(visit[r].proof) BY <1>1, <1>9, <1>13 DEF EndsWith
  <1>15. /\ used' \in [Account!Proof -> Nat] /\ UsedAreSpent' /\ Account!ProofsWorkOnce
    BY <1>8, <1>9, <1>10, <1>14, Spent
  <1>16. issued' \in Nat /\ live' \subseteq 1 .. issued' BY <1>9
  <1>17. AccountTypes'
    BY <1>6, <1>7, <1>9, <1>13, <1>15, <1>16 DEF AccountTypes, SpentInv
  <1> QED BY <1>13, <1>15, <1>17 DEF SpentInv

\* The factor is enabled, disabled, or given new recovery codes, on the strength of a code.
LEMMA FactorSpends ==
    ASSUME SpentInv, NEW r \in Actor, NEW p, Unspent(p), Account!Take({p}),
           \A q \in Account!Proof : Unspent(q)' => q # p,
           FactorCloses, links' = links, issued' = issued, live' \subseteq live,
           visit' = [visit EXCEPT ![r] = Account!Idle],
           challenges' \in [DOMAIN challenges -> Challenged],
           \A c \in DOMAIN challenges :
               challenges'[c].state = "open" => challenges[c].state = "open"
    PROVE  SpentInv' /\ Account!ProofsWorkOnce
  <1>1. /\ challenges' \in Account!Seq(Challenged)
        /\ Account!Len(challenges') <= MaxChallenges
        /\ DOMAIN challenges = DOMAIN challenges'
        /\ \A c : c \notin DOMAIN challenges' \/ challenges'[c].state = "open" =>
                  c \notin DOMAIN challenges \/ challenges[c].state = "open"
    BY ChallengesClosed
  <1>2. ASSUME NEW q \in Account!Proof, Unspent(q)' PROVE Unspent(q) /\ q \notin {p}
    <2>1. q[1] = "link" => q[2] \notin DOMAIN links \/ links[q[2]].state = "open"
      BY <1>2 DEF Unspent
    <2>2. q[1] = "challenge" => q[2] \notin DOMAIN challenges \/ challenges[q[2]].state = "open"
      BY <1>1, <1>2 DEF Unspent
    <2>3. q[1] = "session" => q[2] > issued \/ q[2] \in live BY <1>2 DEF Unspent
    <2>4. q[1] = "step" => q[2] > mfa.resets \/ (q[2] = mfa.resets /\ q[3] > mfa.last)
      BY <1>2, ProofParts DEF Unspent, FactorCloses
    <2>5. q[1] = "code" => q[2] > mfa.sets \/ (q[2] = mfa.sets /\ q[3] \in codes)
      BY <1>2, ProofParts DEF Unspent, FactorCloses
    <2>6. Unspent(q) BY <2>1, <2>2, <2>3, <2>4, <2>5 DEF Unspent
    <2> QED BY <1>2, <2>6
  <1>3. PICK v : v = Account!Idle OBVIOUS
  <1>4. ReadBefore(v)' BY <1>3 DEF ReadBefore, Account!Idle
  <1>5. VisitsRead' /\ visit' = [q \in Actor |-> visit'[q]]
    BY <1>1, <1>3, <1>4, OthersHaveRead
  <1>6. /\ used' \in [Account!Proof -> Nat] /\ UsedAreSpent' /\ Account!ProofsWorkOnce
    BY <1>2, Spent
  <1>7. AccountTypes' BY <1>1, <1>5, <1>6 DEF AccountTypes, SpentInv, FactorCloses
  <1> QED BY <1>5, <1>6, <1>7 DEF SpentInv

LEMMA CodesSpend ==
    ASSUME SpentInv, NEW r \in Actor, NEW code \in Account!Code,
           Account!DisableMfa(r, code) \/ Account!RegenerateCodes(r, code)
    PROVE  SpentInv' /\ Account!ProofsWorkOnce
  <1>1. /\ Account!Accepts(code) /\ Account!Take({Account!ProofOf(code)}) /\ links' = links
        /\ issued' = issued /\ visit' = [visit EXCEPT ![r] = Account!Idle]
    BY DEF Account!DisableMfa, Account!RegenerateCodes, Account!End
  <1>2. live' \subseteq live
    BY DEF Account!DisableMfa, Account!RegenerateCodes, Account!RevokeAll
  <1>3. /\ challenges' \in [DOMAIN challenges -> Challenged]
        /\ \A c \in DOMAIN challenges :
               challenges'[c].state = "open" => challenges[c].state = "open"
    BY ChallengesDeleted, RestStays DEF Account!DisableMfa, Account!RegenerateCodes
  <1>4. /\ mfa' \in Factor
        /\ \/ mfa'.resets = mfa.resets + 1 /\ mfa'.sets = mfa.sets /\ codes' = {}
           \/ /\ mfa'.resets = mfa.resets /\ mfa'.last = Account!LastStep(code)
              /\ mfa'.sets = mfa.sets + 1
    <2>1. CASE Account!DisableMfa(r, code)
      <3>1. Account!Disabled /\ codes' = {} BY <2>1 DEF Account!DisableMfa, Account!Disabled
      <3>2. FactorCloses /\ mfa'.resets = mfa.resets + 1 BY <3>1, FactorOff
      <3>3. mfa'.sets = mfa.sets BY <3>1 DEF Account!Disabled, SpentInv, AccountTypes, Factor
      <3> QED BY <3>1, <3>2, <3>3 DEF FactorCloses
    <2>2. CASE Account!RegenerateCodes(r, code)
      <3>1. PICK last : last = Account!LastStep(code) OBVIOUS
      <3>2. last \in Step \cup {0} BY <3>1 DEF Account!LastStep, SpentInv, AccountTypes, Factor
      <3>3. PICK on \in BOOLEAN, pending \in {"none", "fresh", "expired"}, old \in Step \cup {0},
                 resets \in Nat, sets \in Nat :
              mfa = [on |-> on, pending |-> pending, last |-> old, resets |-> resets, sets |-> sets]
        BY DEF SpentInv, AccountTypes, Factor
      <3>4. mfa' = [on |-> on, pending |-> pending, last |-> last, resets |-> resets,
                    sets |-> sets + 1]
        BY <2>2, <3>1, <3>3 DEF Account!RegenerateCodes
      <3> QED BY <3>1, <3>2, <3>3, <3>4 DEF Factor
    <2> QED BY <2>1, <2>2
  <1>5. /\ FactorCloses /\ Unspent(Account!ProofOf(code))
        /\ \A p \in Account!Proof : Unspent(p)' => p # Account!ProofOf(code)
    BY <1>1, <1>4, CodeShown
  <1> QED BY <1>1, <1>2, <1>3, <1>5, FactorSpends

LEMMA SetupSpends ==
    ASSUME SpentInv, NEW r \in Actor, NEW step \in Step, Account!ConfirmSetup(r, step)
    PROVE  SpentInv' /\ Account!ProofsWorkOnce
  <1>1. mfa.resets \in Nat /\ mfa.sets \in Nat /\ mfa.last \in Nat /\ step \in Nat
    BY StepsAreNumbers DEF SpentInv, AccountTypes, Factor
  <1>2. mfa' = [on |-> TRUE, pending |-> "none", last |-> step,
                resets |-> mfa.resets + 1, sets |-> mfa.sets + 1]
    BY DEF Account!ConfirmSetup
  <1>3. FactorCloses
    <2>1. mfa' \in Factor BY <1>1, <1>2 DEF Factor
    <2> QED BY <1>1, <1>2, <2>1 DEF FactorCloses
  <1>4. PICK p : p = <<"step", mfa.resets + 1, step>> OBVIOUS
  <1>5. Unspent(p) BY <1>1, <1>4 DEF Unspent
  <1>6. \A q \in Account!Proof : Unspent(q)' => q # p
    <2>1. ASSUME NEW q, q = p PROVE ~Unspent(q)'
      <3>1. q[1] = "step" /\ q[2] = mfa.resets + 1 /\ q[3] = step BY <1>4, <2>1
      <3> QED BY <1>1, <1>2, <3>1 DEF Unspent
    <2> QED BY <2>1
  <1>7. Account!Take({p})
    <2>1. used' = [used EXCEPT ![p] = used[p] + 1] BY <1>4 DEF Account!ConfirmSetup
    <2>2. \A q \in Account!Proof : used[q] \in Nat /\ used[q] + 0 = used[q]
      BY DEF SpentInv, AccountTypes
    <2> QED BY <2>1, <2>2 DEF Account!Take, SpentInv, AccountTypes
  <1>8. /\ links' = links /\ issued' = issued /\ live' = live /\ challenges' = challenges
        /\ visit' = [visit EXCEPT ![r] = Account!Idle]
    BY DEF Account!ConfirmSetup, Account!End
  <1> QED BY <1>3, <1>5, <1>6, <1>7, <1>8, RestStays, FactorSpends

LEMMA SpentStep ==
    ASSUME SpentInv, [Account!Next]_(Account!vars) PROVE SpentInv' /\ Account!ProofsWorkOnce
  <1>1. CASE UNCHANGED Account!vars
    BY <1>1, RestStays, FactorStays, NothingOpened DEF Account!vars
  <1>2. ASSUME NEW r \in Actor, Account!LinkStep(r)
        PROVE  SpentInv' /\ Account!ProofsWorkOnce
    BY <1>2, ReadSpendsNothing, LinksSpendNothing, LinksSpend DEF Account!LinkStep
  <1>3. ASSUME NEW r \in Actor, Account!LoginStep(r)
        PROVE  SpentInv' /\ Account!ProofsWorkOnce
    BY <1>3, ReadSpendsNothing, NewSpendsNothing, OthersSpendNothing, AnswerSpends
       DEF Account!LoginStep
  <1>4. ASSUME NEW r \in Actor, Account!FactorStep(r)
        PROVE  SpentInv' /\ Account!ProofsWorkOnce
    BY <1>4, ReadSpendsNothing, OthersSpendNothing, SetupSpends, CodesSpend
       DEF Account!FactorStep
  <1>5. ASSUME NEW r \in Actor, Account!SessionStep(r)
        PROVE  SpentInv' /\ Account!ProofsWorkOnce
    BY <1>5, ReadSpendsNothing, NewSpendsNothing, OthersSpendNothing, RotationSpends
       DEF Account!SessionStep
  <1> QED BY <1>1, <1>2, <1>3, <1>4, <1>5, OthersSpendNothing DEF Account!Next

-----------------------------------------------------------------------------
(* The three components whose proofs of something work once.                   *)

\* However requests overlap, expire and fail: a refresh token, a recovery code and a time step
\* never take effect twice, and a link or a challenge only for a request that had read it before
\* its first use; an invitation admits one person, and the state of an authorization one redirect.
THEOREM ProofsAreSpent == OfficeSpec => WorksOnce
  <1> DEFINE Inv == /\ scenario = "account" => SpentInv
                    /\ scenario = "team" => TeamShaped
                    /\ scenario = "seller" => StatesInv
             Once == /\ scenario = "account" => Account!ProofsWorkOnce
                     /\ scenario = "team" => Members!InvitationsAdmitOnce
                     /\ scenario = "seller" => Ebay!StatesWorkOnce
  <1>1. OfficeInit => Inv
    <2>1. Members!Init => TeamShaped BY DEF Members!Init, TeamShaped, Invited, Members!Role
    <2>2. Ebay!Init => StatesInv BY DEF Ebay!Init, StatesInv, Ebay!Idle
    <2> QED BY <2>1, <2>2, SpentAtFirst DEF OfficeInit
  <1>2. Inv /\ [OfficeNext]_officeVars => Inv' /\ Once
    BY ScenarioStays, AccountFollows, TeamFollows, EbayFollows, SpentStep, InvitationStep,
       StatesStep
  <1>3. Inv /\ [OfficeNext]_officeVars => [Once]_officeVars BY <1>2
  <1> QED BY <1>1, <1>2, <1>3, PTL DEF OfficeSpec, WorksOnce

-----------------------------------------------------------------------------
(* Types.  The invariants above say what their proofs need of a state; what     *)
(* they leave open is that rows and requests hold what they may hold, and that *)
(* what is counted keeps within its bound.  Here of the team, the connections  *)
(* and the imports; of the other components in WebClient_proofs.               *)

(* What the rows of a team hold: a user's membership is not younger than the   *)
(* last invitation, and older as long as that is pending.                      *)
AskedOfTeam(q) ==
    /\ q.at \in {"idle", "actor", "revoke", "accept", "expire", "change", "remove", "issue"}
    /\ q.at \in {"accept", "change", "remove", "issue"} => q.user \in User
    /\ q.at \in {"change", "remove"} => q.next \in Members!Role \cup {"none"}

TeamFits ==
    /\ role \in [User -> Members!Role \cup {"none"}]
    /\ \A u \in User :
         /\ entry[u] <= invitation[u].version /\ invitation[u].version <= MaxInvitations[u]
         /\ invitation[u].status = "PENDING" => entry[u] < invitation[u].version
    /\ signedIn \subseteq User /\ overtaken \in BOOLEAN
    /\ \A r \in Actor : AskedOfTeam(req[r])

LEMMA TeamFitsAtFirst == Members!Init => TeamShaped /\ TeamFits
  <1> SUFFICES ASSUME Members!Init PROVE TeamShaped /\ TeamFits OBVIOUS
  <1>1. \A u \in User : MaxInvitations[u] \in Nat
    BY BackOfficeAssumption DEF BackOfficeAssumption, Members!TeamAssumption
  <1>2. invitation \in [User -> Invited] /\ \A u \in User : invitation[u].version = 0
                                                        /\ invitation[u].status = "none"
    <2>1. PICK i : i = [status |-> "none", role |-> "VIEWER", version |-> 0, late |-> FALSE]
      OBVIOUS
    <2>2. i \in Invited BY <2>1 DEF Invited, Members!Role
    <2> QED BY <2>1, <2>2 DEF Members!Init
  <1>3. \A r \in Actor : AskedOfTeam(req[r])
    BY DEF Members!Init, Members!Idle, AskedOfTeam
  <1>4. /\ role \in [User -> Members!Role \cup {"none"}] /\ entry = [u \in User |-> 0]
        /\ signedIn = {} /\ overtaken = FALSE /\ req = [r \in Actor |-> Members!Idle]
    BY DEF Members!Init, Members!Role
  <1>5. TeamShaped BY <1>2, <1>4 DEF TeamShaped
  <1>6. \A u \in User : /\ entry[u] <= invitation[u].version
                         /\ invitation[u].version <= MaxInvitations[u]
    BY <1>1, <1>2, <1>4
  <1> QED BY <1>2, <1>3, <1>4, <1>5, <1>6 DEF TeamFits

LEMMA TeamFitsStep ==
    ASSUME TeamShaped, TeamFits, [Members!Next]_(Members!vars) PROVE TeamFits'
  <1>1. ASSUME NEW r \in Actor, NEW q, AskedOfTeam(q), Members!Become(r, q)
        PROVE  \A a \in Actor : AskedOfTeam(req'[a])
    <2>1. req' = [req EXCEPT ![r] = q] BY <1>1 DEF Members!Become
    <2> QED BY <1>1, <2>1 DEF TeamShaped, TeamFits
  <1>2. ASSUME NEW r \in Actor, Members!End(r) PROVE \A a \in Actor : AskedOfTeam(req'[a])
    <2>1. AskedOfTeam(Members!Idle) BY DEF AskedOfTeam, Members!Idle
    <2> QED BY <1>1, <1>2, <2>1 DEF Members!End
  <1> DEFINE Dated(n, i, u) ==
        /\ n <= i.version /\ i.version <= MaxInvitations[u]
        /\ i.status = "PENDING" => n < i.version
  <1>3. /\ entry \in [User -> Nat] /\ invitation \in [User -> Invited]
        /\ \A u \in User : Dated(entry[u], invitation[u], u)
    BY DEF TeamShaped, TeamFits
  <1> DEFINE AllDated == \A v \in User : Dated(entry'[v], invitation'[v], v)
  <1>0. ASSUME NEW u \in User, NEW n \in Nat, NEW i \in Invited, Dated(n, i, u),
               \/ entry' = [entry EXCEPT ![u] = n]
               \/ n = entry[u] /\ entry' = entry,
               invitation' = [invitation EXCEPT ![u] = i]
        PROVE  AllDated
    <2> HIDE DEF Dated
    <2> QED BY <1>0, <1>3
  <1>9. ASSUME NEW u \in User,
               NEW new \in {"ACCEPTED", "REVOKED", "EXPIRED"},
               invitation' = [invitation EXCEPT ![u].status = new],
               \/ entry' = entry
               \/ /\ invitation[u].status = "PENDING" /\ new = "ACCEPTED"
                  /\ entry' = [entry EXCEPT ![u] = entry[u] + 1]
        PROVE  AllDated
    <2>1. PICK i \in Invited : i = invitation[u] BY <1>3
    <2>2. PICK j \in Invited : j = [i EXCEPT !.status = new] BY InvitedStays
    <2>3. j.status = new /\ j.version = i.version BY <2>2 DEF Invited
    <2>4. invitation' = [invitation EXCEPT ![u] = j] BY <1>3, <1>9, <2>1, <2>2
    <2>5. PICK n \in Nat : n = entry[u] BY <1>3
    <2>6. Dated(n, i, u) /\ i.version \in Nat BY <1>3, <2>1, <2>5 DEF Invited
    <2>7. CASE entry' = entry
      <3>1. Dated(n, j, u) BY <2>3, <2>6
      <3> QED BY <1>0, <2>4, <2>5, <2>7, <3>1
    <2>8. CASE i.status = "PENDING" /\ entry' = [entry EXCEPT ![u] = n + 1] /\ new = "ACCEPTED"
      <3>1. Dated(n + 1, j, u) /\ n + 1 \in Nat BY <2>3, <2>6, <2>8
      <3>2. PICK m \in Nat : m = n + 1 BY <3>1
      <3>3. entry' = [entry EXCEPT ![u] = m] /\ Dated(m, j, u) BY <2>8, <3>1, <3>2
      <3> HIDE DEF Dated, AllDated
      <3> QED BY <1>0, <2>4, <3>3
    <2> QED BY <1>9, <2>1, <2>5, <2>7, <2>8
  <1>4. ASSUME NEW r \in Actor, NEW u \in User,
               \/ Members!ReadActor(r, u) \/ Members!ReadInvitation(r, u)
               \/ Members!ReadToken(r, u) \/ Members!ReadMember(r, u)
               \/ Members!CheckMembership(r, u)
        PROVE  TeamFits'
    <2>1. UNCHANGED <<role, entry, invitation, signedIn, overtaken>>
      BY <1>4 DEF Members!ReadActor, Members!ReadInvitation, Members!ReadToken,
           Members!ReadMember, Members!CheckMembership
    <2>2. \E q : AskedOfTeam(q) /\ Members!Become(r, q)
      BY <1>4 DEF Members!ReadActor, Members!ReadInvitation, Members!ReadToken,
           Members!ReadMember, Members!CheckMembership, AskedOfTeam, Members!Role
    <2> QED BY <1>1, <2>1, <2>2 DEF TeamFits
  <1>5. ASSUME NEW r \in Actor, NEW u \in User, NEW as \in Members!Role \ {"OWNER"},
               Members!Invite(r, u, as)
        PROVE  TeamFits'
    <2>1. UNCHANGED <<role, entry, signedIn, overtaken>> /\ Members!End(r)
      BY <1>5 DEF Members!Invite
    <2>2. AllDated
      <3>1. CASE invitation' = invitation BY <1>3, <2>1, <3>1
      <3>2. CASE /\ invitation[u].version < MaxInvitations[u]
                 /\ invitation' = [invitation EXCEPT ![u] =
                        [status |-> "PENDING", role |-> as, version |-> @.version + 1,
                         late |-> FALSE]]
        <4>1. PICK v \in Nat : v = invitation[u].version BY <1>3 DEF Invited
        <4>2. PICK i : i = [status |-> "PENDING", role |-> as, version |-> v + 1, late |-> FALSE]
          OBVIOUS
        <4>0. v + 1 \in Nat OBVIOUS
        <4>3. i \in Invited /\ i.version = v + 1 BY <4>0, <4>2 DEF Invited
        <4>4. MaxInvitations[u] \in Nat /\ v < MaxInvitations[u]
          BY <3>2, <4>1, BackOfficeAssumption DEF BackOfficeAssumption, Members!TeamAssumption
        <4>5. entry[u] \in Nat /\ entry[u] <= v BY <1>3, <4>1
        <4>6. Dated(entry[u], i, u) BY <4>3, <4>4, <4>5
        <4>7. invitation' = [invitation EXCEPT ![u] = i] BY <1>3, <3>2, <4>1, <4>2
        <4> QED BY <1>0, <2>1, <4>3, <4>5, <4>6, <4>7
      <3> QED BY <1>5, <3>1, <3>2 DEF Members!Invite
    <2> QED BY <1>2, <2>1, <2>2 DEF TeamFits
  <1>6. ASSUME NEW r \in Actor, Members!Revoke(r) \/ Members!MarkExpired(r)
        PROVE  TeamFits'
    <2>1. UNCHANGED <<role, entry, signedIn, overtaken>> /\ Members!End(r)
      BY <1>6 DEF Members!Revoke, Members!MarkExpired
    <2>2. \/ invitation' = invitation
          \/ \E new \in {"REVOKED", "EXPIRED"} :
                invitation' = [invitation EXCEPT ![req[r].user].status = new]
      BY <1>6 DEF Members!Revoke, Members!MarkExpired
    <2>3. req[r].user \notin User => invitation' = invitation BY <1>3, <2>2
    <2>4. AllDated BY <1>3, <1>9, <2>1, <2>2, <2>3
    <2> QED BY <1>2, <2>1, <2>4 DEF TeamFits
  <1>7. ASSUME NEW r \in Actor, Members!Accept(r) PROVE TeamFits'
    <2>1. PICK u \in User : u = req[r].user BY <1>7 DEF Members!Accept, TeamFits, AskedOfTeam
    <2>2. Members!End(r) /\ overtaken' = overtaken BY <1>7 DEF Members!Accept
    <2>3. CASE UNCHANGED <<role, entry, invitation, signedIn>>
      BY <1>2, <2>2, <2>3 DEF TeamFits
    <2>4. CASE /\ invitation[u].status = "PENDING"
               /\ role' = [role EXCEPT ![u] = invitation[u].role]
               /\ entry' = [entry EXCEPT ![u] = entry[u] + 1]
               /\ invitation' = [invitation EXCEPT ![u].status = "ACCEPTED"]
               /\ signedIn' = signedIn \cup {u}
      <3>1. AllDated BY <1>9, <2>4
      <3>2. invitation[u].role \in Members!Role BY <1>3 DEF Invited
      <3>3. role' \in [User -> Members!Role \cup {"none"}] /\ signedIn' \subseteq User
        BY <2>4, <3>2 DEF TeamFits
      <3> QED BY <1>2, <2>2, <3>1, <3>3 DEF TeamFits
    <2> QED BY <1>7, <2>1, <2>3, <2>4 DEF Members!Accept, Members!Admits
  <1>8. ASSUME NEW r \in Actor, Members!ChangeMember(r) \/ Members!Issue(r) PROVE TeamFits'
    <2>1. PICK u \in User : u = req[r].user
      BY <1>8 DEF Members!ChangeMember, Members!Issue, TeamFits, AskedOfTeam
    <2>2. Members!End(r) /\ UNCHANGED <<entry, invitation>>
      BY <1>8 DEF Members!ChangeMember, Members!Issue
    <2>3. /\ role' \in [User -> Members!Role \cup {"none"}]
          /\ signedIn' \subseteq User /\ overtaken' \in BOOLEAN
      BY <1>8, <2>1 DEF Members!ChangeMember, Members!Issue, TeamFits, AskedOfTeam
    <2> QED BY <1>2, <1>3, <2>2, <2>3 DEF TeamFits
  <1>10. ASSUME NEW u \in User, Members!GrowLate(u) PROVE TeamFits'
    <2>1. /\ UNCHANGED <<role, entry, signedIn, req, overtaken>>
          /\ invitation' = [invitation EXCEPT ![u].late = TRUE]
      BY <1>10 DEF Members!GrowLate
    <2>2. PICK i \in Invited : i = invitation[u] BY <1>3
    <2>3. PICK j \in Invited : j = [i EXCEPT !.late = TRUE]
      <3>1. "none" \in {"none", "PENDING", "ACCEPTED", "REVOKED", "EXPIRED"} OBVIOUS
      <3> QED BY <3>1, InvitedStays
    <2>4. j.status = i.status /\ j.version = i.version BY <2>3 DEF Invited
    <2>5. Dated(entry[u], j, u) /\ entry[u] \in Nat BY <1>3, <2>2, <2>4
    <2>6. invitation' = [invitation EXCEPT ![u] = j] BY <1>3, <2>1, <2>2, <2>3
    <2>7. AllDated BY <1>0, <2>1, <2>5, <2>6
    <2> QED BY <2>1, <2>7 DEF TeamFits
  <1>11. CASE UNCHANGED Members!vars BY <1>11 DEF Members!vars, TeamFits
  <1> QED BY <1>4, <1>5, <1>6, <1>7, <1>8, <1>10, <1>11 DEF Members!Next

LEMMA TeamIsTyped == ASSUME TeamShaped, TeamFits PROVE Members!TypeOK
  BY DEF TeamShaped, TeamFits, AskedOfTeam, Invited, Members!TypeOK

-----------------------------------------------------------------------------
(* What DefaultInv leaves open of the types of Connections.                   *)
SellerStep == {"idle", "consume", "exchange", "save", "expire", "renew", "store", "resources",
               "default", "drop"}

SellerFits ==
    /\ state \in [Ebay!State -> {"none", "open", "used", "expired"}]
    /\ \A r \in Actor : asks[r].at \in SellerStep
    /\ events \in 0 .. MaxEvents
    /\ raced \subseteq bare /\ bare \subseteq Ebay!Rows

LEMMA SellerFitsAtFirst == Ebay!Init => SellerFits
  <1>1. MaxEvents \in Nat
    BY BackOfficeAssumption DEF BackOfficeAssumption, Ebay!ConnectionsAssumption
  <1> QED BY <1>1 DEF Ebay!Init, Ebay!Idle, SellerFits, SellerStep

\* An account that was authorized once keeps its row.
LEMMA RowsStay ==
    ASSUME DefaultInv, [Ebay!Next]_(Ebay!vars) PROVE Ebay!Rows \subseteq Ebay!Rows'
  <1>1. conn \in [Data -> Ebay!Row] BY DEF DefaultInv, EbayShaped
  <1>2. ASSUME \A c \in Data : conn'[c].born = conn[c].born
        PROVE  Ebay!Rows \subseteq Ebay!Rows'
    BY <1>2 DEF Ebay!Rows
  <1>3. CASE conn' = conn BY <1>2, <1>3
  <1>4. ASSUME NEW c, NEW k \in Ebay!Row, k.born # 0, conn' = [conn EXCEPT ![c] = k]
        PROVE  Ebay!Rows \subseteq Ebay!Rows'
    BY <1>1, <1>4 DEF Ebay!Rows
  <1>5. ASSUME NEW c, Ebay!AccessExpires(c) \/ Ebay!RefreshExpires(c)
        PROVE  \A d \in Data : conn'[d].born = conn[d].born
    BY <1>1, <1>5 DEF Ebay!AccessExpires, Ebay!RefreshExpires, Ebay!Row
  <1>6. ASSUME NEW r \in Actor,
               \/ Ebay!MarkExpired(r) \/ Ebay!StoreResources(r) \/ Ebay!UpdateDefaults(r)
        PROVE  \A d \in Data : conn'[d].born = conn[d].born
    <2>1. CASE Ebay!MarkExpired(r) BY <1>1, <2>1 DEF Ebay!MarkExpired, Ebay!Row
    <2>2. CASE Ebay!StoreResources(r) BY <1>1, <2>2 DEF Ebay!StoreResources, Ebay!Row
    <2>3. CASE Ebay!UpdateDefaults(r) BY <1>1, <2>3 DEF Ebay!UpdateDefaults, Ebay!Row
    <2> QED BY <1>6, <2>1, <2>2, <2>3
  <1>7. ASSUME NEW r \in Actor, Ebay!Renew(r)
        PROVE  \A d \in Data : conn'[d].born = conn[d].born
    <2>1. CASE conn' = [conn EXCEPT ![asks[r].id].status = "ACTIVE",
                        ![asks[r].id].access = "fresh"]
      BY <1>1, <2>1 DEF Ebay!Row
    <2>2. CASE conn' = [conn EXCEPT ![asks[r].id].status = "ERROR"]
      BY <1>1, <2>2 DEF Ebay!Row
    <2> QED BY <1>7, <2>1, <2>2 DEF Ebay!Renew
  <1>8. ASSUME NEW r \in Actor, Ebay!Save(r) PROVE Ebay!Rows \subseteq Ebay!Rows'
    <2> DEFINE c == asks[r].id
    <2>1. c \in Data BY <1>8 DEF Ebay!Save, DefaultInv, ReadWell
    <2>2. CASE c \in Ebay!Rows /\ conn' = [conn EXCEPT ![c] = Ebay!Authorized(@)]
      <3>1. PICK k \in Ebay!Row : k = conn[c] BY <1>1, <2>1
      <3>2. k.born # 0 BY <2>2, <3>1 DEF Ebay!Rows
      <3>3. PICK new : new = Ebay!Authorized(k) OBVIOUS
      <3>4. new \in Ebay!Row /\ new.born = k.born BY <3>3 DEF Ebay!Authorized, Ebay!Row
      <3>5. conn' = [conn EXCEPT ![c] = new] BY <1>1, <2>1, <2>2, <3>1, <3>3
      <3> QED BY <1>4, <3>2, <3>4, <3>5
    <2>3. CASE c \notin Ebay!Rows /\ \E k : conn' = [conn EXCEPT ![c] = k]
      BY <1>1, <2>3 DEF Ebay!Rows
    <2> QED BY <1>3, <1>8, <2>2, <2>3 DEF Ebay!Save
  <1>9. ASSUME NEW r \in Actor, Ebay!Disconnect(r)
        PROVE  \A d \in Data : conn'[d].born = conn[d].born
    <2> DEFINE c == asks[r].id
               dropped == [conn EXCEPT ![c] = Ebay!Disconnected(c)]
    <2>1. /\ dropped \in [Data -> Ebay!Row]
          /\ \A d \in Data : dropped[d].born = conn[d].born
      <3>1. c \in Data BY <1>9 DEF Ebay!Disconnect, DefaultInv, ReadWell, HasRow
      <3>2. PICK k \in Ebay!Row : k = conn[c] BY <1>1, <3>1
      <3>3. PICK new : new = [k EXCEPT !.status = "DISCONNECTED", !.access = "none",
                                       !.refresh = "none", !.resources = FALSE]
        OBVIOUS
      <3>4. new \in Ebay!Row /\ new.born = k.born BY <3>3 DEF Ebay!Row
      <3>5. dropped = [conn EXCEPT ![c] = new] BY <3>2, <3>3 DEF Ebay!Disconnected
      <3> HIDE DEF dropped
      <3> QED BY <1>1, <3>1, <3>2, <3>4, <3>5
    <2>2. \/ conn' = conn \/ conn' = dropped
          \/ \E d : conn' = [dropped EXCEPT ![d].default = TRUE]
      BY <1>9 DEF Ebay!Disconnect
    <2> HIDE DEF dropped
    <2> QED BY <2>1, <2>2 DEF Ebay!Row
  <1>10. ASSUME NEW r \in Actor,
                \/ \E s \in Ebay!State : Ebay!ReadState(r, s)
                \/ Ebay!Consume(r) \/ Ebay!Exchange(r) \/ Ebay!CheckResources(r) \/ Ebay!Fail(r)
                \/ \E c \in Data : \/ \E why \in {"call", "sync"} : Ebay!GetAccessToken(r, c, why)
                                   \/ \E wants \in BOOLEAN : Ebay!CheckAccount(r, c, wants)
                                   \/ Ebay!ReadToDisconnect(r, c)
         PROVE  conn' = conn
    BY <1>10 DEF Ebay!ReadState, Ebay!Consume, Ebay!Exchange, Ebay!CheckResources, Ebay!Fail,
         Ebay!GetAccessToken, Ebay!CheckAccount, Ebay!ReadToDisconnect
  <1>11. CASE \/ UNCHANGED Ebay!vars
              \/ \E s \in Ebay!State : Ebay!CreateAuthorization(s) \/ Ebay!StateExpires(s)
    BY <1>3, <1>11 DEF Ebay!vars, Ebay!CreateAuthorization, Ebay!StateExpires
  <1> QED BY <1>2, <1>3, <1>5, <1>6, <1>7, <1>8, <1>9, <1>10, <1>11 DEF Ebay!Next

LEMMA SellerFitsStep ==
    ASSUME DefaultInv, SellerFits, [Ebay!Next]_(Ebay!vars) PROVE SellerFits'
  <1>1. asks = [r \in Actor |-> asks[r]] BY DEF DefaultInv, EbayShaped
  <1>2. Ebay!Rows \subseteq Ebay!Rows' BY RowsStay
  <1>3. MaxEvents \in Nat
    BY BackOfficeAssumption DEF BackOfficeAssumption, Ebay!ConnectionsAssumption
  <1> DEFINE Counted == events' = events \/ (events < MaxEvents /\ events' = events + 1)
  <1>4. ASSUME Counted PROVE events' \in 0 .. MaxEvents BY <1>3, <1>4 DEF SellerFits
  <1> DEFINE Quiet == UNCHANGED <<bare, raced>>
             Labelled == asks' = asks \/ \E r, q : /\ q.at \in SellerStep
                                                   /\ asks' = [asks EXCEPT ![r] = q]
             Held == state' = state \/ \E s, v : /\ v \in {"open", "used", "expired"}
                                                 /\ state' = [state EXCEPT ![s] = v]
  <1>5. ASSUME Labelled PROVE \A r \in Actor : asks'[r].at \in SellerStep
    BY <1>1, <1>5 DEF SellerFits
  <1>6. ASSUME Held PROVE state' \in [Ebay!State -> {"none", "open", "used", "expired"}]
    BY <1>6 DEF SellerFits
  <1>7. ASSUME Counted, Labelled, Held, Quiet PROVE SellerFits'
    <2> HIDE DEF Counted, Labelled, Held
    <2> QED BY <1>2, <1>4, <1>5, <1>6, <1>7 DEF SellerFits
  <1>8. ASSUME NEW s \in Ebay!State, Ebay!CreateAuthorization(s) \/ Ebay!StateExpires(s)
        PROVE  Counted /\ Labelled /\ Held /\ Quiet
    BY <1>8 DEF Ebay!CreateAuthorization, Ebay!StateExpires, Ebay!Happens
  <1>9. ASSUME NEW c, Ebay!AccessExpires(c) \/ Ebay!RefreshExpires(c)
        PROVE  Counted /\ Labelled /\ Held /\ Quiet
    BY <1>9 DEF Ebay!AccessExpires, Ebay!RefreshExpires, Ebay!Happens
  <1>0. ASSUME NEW r, NEW q, q.at \in SellerStep, Ebay!Begin(r, q) PROVE Labelled
    BY <1>0, Zenon DEF Ebay!Begin
  <1>10. ASSUME NEW r \in Actor,
                \/ \E s \in Ebay!State : Ebay!ReadState(r, s)
                \/ Ebay!Consume(r) \/ Ebay!Exchange(r) \/ Ebay!CheckResources(r) \/ Ebay!Fail(r)
         PROVE  Counted /\ Labelled /\ Held /\ Quiet
    <2>1. CASE \E s \in Ebay!State : Ebay!ReadState(r, s)
      BY <1>0, <2>1 DEF Ebay!ReadState, SellerStep
    <2>2. CASE Ebay!Consume(r)
      BY <2>2 DEF Ebay!Consume, Ebay!Become, Ebay!End, Ebay!Idle, SellerStep
    <2>3. CASE Ebay!Exchange(r)
      BY <2>3 DEF Ebay!Exchange, Ebay!Become, Ebay!End, Ebay!Idle, SellerStep
    <2>4. CASE Ebay!CheckResources(r)
      BY <2>4 DEF Ebay!CheckResources, Ebay!Become, Ebay!End, Ebay!Idle, SellerStep
    <2>5. CASE Ebay!Fail(r)
      <3>1. asks' = [asks EXCEPT ![r] = Ebay!Idle] /\ Counted /\ Held /\ Quiet
        BY <2>5, Zenon DEF Ebay!Fail, Ebay!Happens, Ebay!Become, Ebay!End
      <3>2. Ebay!Idle.at \in SellerStep BY DEF Ebay!Idle, SellerStep
      <3> QED BY <3>1, <3>2, Zenon
    <2> QED BY <1>10, <2>1, <2>2, <2>3, <2>4, <2>5
  <1>11. ASSUME NEW r \in Actor, NEW c \in Data,
                \/ \E why \in {"call", "sync"} : Ebay!GetAccessToken(r, c, why)
                \/ \E wants \in BOOLEAN : Ebay!CheckAccount(r, c, wants)
                \/ Ebay!ReadToDisconnect(r, c)
         PROVE  Counted /\ Labelled /\ Held /\ Quiet
    <2>1. ASSUME NEW why, Ebay!GetAccessToken(r, c, why)
          PROVE  Counted /\ Labelled /\ Held /\ Quiet
      BY <1>0, <2>1 DEF Ebay!GetAccessToken, SellerStep
    <2>2. ASSUME NEW wants, Ebay!CheckAccount(r, c, wants)
          PROVE  Counted /\ Labelled /\ Held /\ Quiet
      BY <1>0, <2>2 DEF Ebay!CheckAccount, SellerStep
    <2>3. CASE Ebay!ReadToDisconnect(r, c) BY <1>0, <2>3 DEF Ebay!ReadToDisconnect, SellerStep
    <2> QED BY <1>11, <2>1, <2>2, <2>3
  <1>12. ASSUME NEW r \in Actor, \/ Ebay!MarkExpired(r) \/ Ebay!Renew(r) \/ Ebay!StoreResources(r)
                                 \/ Ebay!UpdateDefaults(r)
         PROVE  Counted /\ Labelled /\ Held /\ Quiet
    BY <1>12 DEF Ebay!MarkExpired, Ebay!Renew, Ebay!StoreResources, Ebay!UpdateDefaults,
         Ebay!After, Ebay!Become, Ebay!End, Ebay!Idle, Ebay!Happens, SellerStep
  <1>13. ASSUME NEW r \in Actor, Ebay!Save(r) \/ Ebay!Disconnect(r)
         PROVE  Counted /\ Labelled /\ Held
    BY <1>13 DEF Ebay!Save, Ebay!Disconnect, Ebay!Become, Ebay!End, Ebay!Idle, SellerStep
  <1>14. ASSUME NEW r \in Actor, Ebay!Save(r) \/ Ebay!Disconnect(r)
         PROVE  raced' \subseteq bare' /\ bare' \subseteq Ebay!Rows'
    <2>1. Ebay!Disconnect(r) => asks[r].id \in Ebay!Rows
      BY DEF Ebay!Disconnect, DefaultInv, ReadWell, HasRow, Ebay!Rows
    <2>2. \/ Quiet
          \/ Ebay!Disconnect(r) /\ Ebay!Drop(asks[r].id)
          \/ bare' = bare \ {asks[r].id} /\ raced' = raced \ {asks[r].id}
      BY <1>14 DEF Ebay!Save, Ebay!Disconnect
    <2> QED BY <1>2, <2>1, <2>2 DEF Ebay!Drop, SellerFits
  <1>15. CASE UNCHANGED Ebay!vars BY <1>7, <1>15 DEF Ebay!vars
  <1>16. ASSUME NEW r \in Actor, Ebay!Save(r) \/ Ebay!Disconnect(r) PROVE SellerFits'
    <2>1. Counted /\ Labelled /\ Held BY <1>13, <1>16
    <2> HIDE DEF Counted, Labelled, Held
    <2> QED BY <1>4, <1>5, <1>6, <1>14, <1>16, <2>1 DEF SellerFits
  <1> HIDE DEF Counted, Labelled, Held, Quiet
  <1> QED BY <1>7, <1>8, <1>9, <1>10, <1>11, <1>12, <1>15, <1>16 DEF Ebay!Next

LEMMA SellerIsTyped == ASSUME DefaultInv, SellerFits PROVE Ebay!TypeOK
  BY DEF DefaultInv, EbayShaped, SellerFits, SellerStep, Ebay!TypeOK

-----------------------------------------------------------------------------
(* What a batch and its rows hold, and the steps of runs and requests: of any   *)
(* number of processes.                                                       *)
Batch == [status : {"none", "REVIEW_REQUIRED", "READY_TO_COMMIT", "COMMITTING", "COMPLETED"},
          configured : BOOLEAN, archive : BOOLEAN, unresolved : 0 .. ImportRows,
          failed : 0 .. ImportRows, processed : 0 .. ImportRows]
ImportRow == [stage : {"open", "FAILED", "COMPLETED"}, committed : BOOLEAN]

RunFits(q) ==
    /\ q.at \in {"off", "begin", "next", "enrich", "attach", "finish"}
    /\ q.at = "enrich" => q = [at |-> "enrich", row |-> q.row, todo |-> q.todo]
    /\ q.at = "finish" => q.failed \in 0 .. ImportRows /\ q.processed \in 0 .. ImportRows

ImportFits ==
    /\ batch \in Batch /\ row \in [Sheet!Row -> ImportRow] /\ parts \in [Sheet!Row -> Nat]
    /\ run = [p \in Process |-> run[p]] /\ \A p \in Process : RunFits(run[p])
    /\ request = [r \in Actor |-> request[r]]
    /\ \A r \in Actor : request[r].at \in {"idle", "start", "retry"}
    /\ crashes \in 0 .. MaxCrashes

LEMMA ImportBounds == ImportRows \in Nat \ {0} /\ MaxCrashes \in Nat
BY BackOfficeAssumption DEF BackOfficeAssumption, Sheet!ImportsAssumption

LEMMA ImportFitsAtFirst == Sheet!Init => ImportFits
  <1> SUFFICES ASSUME Sheet!Init PROVE ImportFits OBVIOUS
  <1>1. batch \in Batch
    <2>1. 0 \in 0 .. ImportRows BY ImportBounds
    <2> QED BY <2>1 DEF Sheet!Init, Batch
  <1>2. row \in [Sheet!Row -> ImportRow]
    <2>1. PICK k : k = [stage |-> "open", committed |-> FALSE] OBVIOUS
    <2>2. k \in ImportRow BY <2>1 DEF ImportRow
    <2> QED BY <2>1, <2>2 DEF Sheet!Init
  <1> QED BY <1>1, <1>2, ImportBounds DEF Sheet!Init, Sheet!Off, Sheet!Idle, ImportFits, RunFits

LEMMA RunsFit ==
    ASSUME ImportFits, NEW p \in Process,
           Sheet!Runs(p) \/ \E q : RunFits(q) /\ Sheet!Go(p, q)
    PROVE  run' = [o \in Process |-> run'[o]] /\ \A o \in Process : RunFits(run'[o])
  <1>1. PICK q : RunFits(q) /\ run' = [run EXCEPT ![p] = q]
    <2>1. CASE Sheet!Runs(p)
      <3>1. PICK q : q = IF run[p] = Sheet!Off THEN [at |-> "begin"] ELSE run[p] OBVIOUS
      <3>2. RunFits(q) BY <3>1 DEF RunFits, ImportFits
      <3>3. run' = [run EXCEPT ![p] = q] BY <2>1, <3>1 DEF Sheet!Runs, ImportFits
      <3> QED BY <3>2, <3>3
    <2>2. CASE \E q : RunFits(q) /\ Sheet!Go(p, q) BY <2>2 DEF Sheet!Go
    <2> QED BY <2>1, <2>2
  <1> QED BY <1>1 DEF ImportFits

LEMMA RowsFit ==
    ASSUME ImportFits, NEW p \in Process,
           \/ row' = row
           \/ \E x : \E stage \in {"COMPLETED", "FAILED"} : row' = [row EXCEPT ![x].stage = stage]
           \/ \E x : row' = [row EXCEPT ![x] = [stage |-> "COMPLETED", committed |-> TRUE]]
           \/ row' = [x \in Sheet!Row |-> [row[x] EXCEPT !.committed = TRUE]]
           \/ row' = [x \in Sheet!Row |-> IF row[x].stage = "FAILED"
                                          THEN [row[x] EXCEPT !.stage = "open"] ELSE row[x]]
    PROVE  row' \in [Sheet!Row -> ImportRow]
  <1>1. row \in [Sheet!Row -> ImportRow] BY DEF ImportFits
  <1>2. ASSUME NEW k \in ImportRow, NEW stage \in {"open", "COMPLETED", "FAILED"}
        PROVE  /\ [k EXCEPT !.stage = stage] \in ImportRow
               /\ [k EXCEPT !.committed = TRUE] \in ImportRow
    BY DEF ImportRow
  <1>3. [stage |-> "COMPLETED", committed |-> TRUE] \in ImportRow BY DEF ImportRow
  <1>4. CASE row' = row BY <1>1, <1>4
  <1>5. ASSUME NEW x, NEW stage \in {"COMPLETED", "FAILED"},
               row' = [row EXCEPT ![x].stage = stage]
        PROVE  row' \in [Sheet!Row -> ImportRow]
    <2>1. CASE x \in Sheet!Row
      <3>1. PICK k \in ImportRow : k = [row[x] EXCEPT !.stage = stage] BY <1>1, <1>2, <2>1
      <3>2. row' = [row EXCEPT ![x] = k] BY <1>5, <3>1
      <3> QED BY <1>1, <3>2
    <2>2. CASE x \notin Sheet!Row BY <1>1, <1>5, <2>2
    <2> QED BY <2>1, <2>2
  <1>6. ASSUME NEW x, row' = [row EXCEPT ![x] = [stage |-> "COMPLETED", committed |-> TRUE]]
        PROVE  row' \in [Sheet!Row -> ImportRow]
    <2>1. PICK k \in ImportRow : k = [stage |-> "COMPLETED", committed |-> TRUE] BY <1>3
    <2>2. row' = [row EXCEPT ![x] = k] BY <1>6, <2>1
    <2> QED BY <1>1, <2>2
  <1>7. CASE row' = [x \in Sheet!Row |-> [row[x] EXCEPT !.committed = TRUE]]
    <2>1. \A x \in Sheet!Row : [row[x] EXCEPT !.committed = TRUE] \in ImportRow BY <1>1, <1>2
    <2> QED BY <1>7, <2>1
  <1>8. CASE row' = [x \in Sheet!Row |-> IF row[x].stage = "FAILED"
                                         THEN [row[x] EXCEPT !.stage = "open"] ELSE row[x]]
    <2>1. \A x \in Sheet!Row :
              row[x] \in ImportRow /\ [row[x] EXCEPT !.stage = "open"] \in ImportRow
      BY <1>1, <1>2
    <2> QED BY <1>8, <2>1
  <1> QED BY <1>4, <1>5, <1>6, <1>7, <1>8

LEMMA BatchFits ==
    ASSUME ImportFits, NEW n \in 0 .. ImportRows, NEW m \in 0 .. ImportRows,
           NEW s \in {"REVIEW_REQUIRED", "READY_TO_COMMIT", "COMMITTING", "COMPLETED"},
           \/ batch' = batch
           \/ batch' = [batch EXCEPT !.status = s]
           \/ batch' = [batch EXCEPT !.archive = TRUE, !.unresolved = n, !.status = s]
           \/ batch' = [batch EXCEPT !.unresolved = n, !.status = s]
           \/ batch' = [batch EXCEPT !.status = s, !.configured = TRUE]
           \/ batch' = [batch EXCEPT !.status = s, !.failed = n]
           \/ batch' = [batch EXCEPT !.processed = n]
           \/ batch' = [batch EXCEPT !.failed = n]
           \/ batch' = [batch EXCEPT !.status = s, !.failed = n, !.processed = m]
    PROVE  batch' \in Batch
  BY DEF ImportFits, Batch

LEMMA PartsFit ==
    ASSUME ImportFits,
           \/ parts' = parts \/ parts' = [x \in Sheet!Row |-> parts[x] + 1]
           \/ \E x : parts' = [parts EXCEPT ![x] = @ + 1]
    PROVE  parts' \in [Sheet!Row -> Nat]
  <1>1. parts \in [Sheet!Row -> Nat] BY DEF ImportFits
  <1>2. CASE parts' = [x \in Sheet!Row |-> parts[x] + 1] BY <1>1, <1>2
  <1>3. ASSUME NEW x, parts' = [parts EXCEPT ![x] = @ + 1] PROVE parts' \in [Sheet!Row -> Nat]
    <2>1. CASE x \in Sheet!Row
      <3>1. PICK n \in Nat : n = parts[x] + 1 BY <1>1, <2>1
      <3>2. parts' = [parts EXCEPT ![x] = n] BY <1>3, <3>1
      <3> QED BY <1>1, <3>2
    <2>2. CASE x \notin Sheet!Row BY <1>1, <1>3, <2>2
    <2> QED BY <2>1, <2>2
  <1> QED BY <1>1, <1>2, <1>3

LEMMA RequestsFit ==
    ASSUME ImportFits, NEW r \in Actor,
           \/ request' = request \/ request' = [request EXCEPT ![r] = Sheet!Idle]
           \/ \E label \in {"start", "retry"} : request' = [request EXCEPT ![r] = [at |-> label]]
    PROVE  /\ request' = [q \in Actor |-> request'[q]]
           /\ \A q \in Actor : request'[q].at \in {"idle", "start", "retry"}
  <1>1. CASE request' = request BY <1>1 DEF ImportFits
  <1>2. CASE request' # request
    <2>1. PICK k : request' = [request EXCEPT ![r] = k] /\ k.at \in {"idle", "start", "retry"}
      <3>1. CASE request' = [request EXCEPT ![r] = Sheet!Idle]
        <4>1. PICK k : k = Sheet!Idle OBVIOUS
        <4>2. k.at \in {"idle", "start", "retry"} BY <4>1 DEF Sheet!Idle
        <4>3. request' = [request EXCEPT ![r] = k] BY <3>1, <4>1
        <4> QED BY <4>2, <4>3
      <3>2. ASSUME NEW label \in {"start", "retry"},
                   request' = [request EXCEPT ![r] = [at |-> label]]
            PROVE  \E k : /\ request' = [request EXCEPT ![r] = k]
                        /\ k.at \in {"idle", "start", "retry"}
        <4>1. PICK k : k = [at |-> label] OBVIOUS
        <4>2. k.at \in {"idle", "start", "retry"} BY <4>1
        <4>3. request' = [request EXCEPT ![r] = k] BY <3>2, <4>1
        <4> QED BY <4>2, <4>3
      <3> QED BY <1>2, <3>1, <3>2
    <2> QED BY <2>1 DEF ImportFits
  <1> QED BY <1>1, <1>2

LEMMA RowsAreCounted ==
    ASSUME NEW S \in SUBSET Sheet!Row
    PROVE  Sheet!Cardinality(S) \in 0 .. ImportRows
  <1>1. IsFiniteSet(1 .. ImportRows) /\ Cardinality(1 .. ImportRows) = ImportRows
    BY FS_Interval, ImportBounds
  <1>2. Cardinality(S) \in Nat /\ Cardinality(S) <= ImportRows
    BY <1>1, FS_Subset, FS_CardinalityType DEF Sheet!Row
  <1>3. Sheet!Cardinality(S) = Cardinality(S) BY DEF Sheet!Cardinality, Cardinality
  <1> QED BY <1>2, <1>3, ImportBounds

(* The parts of ImportFits, which an action is shown to keep one by one.       *)
ImportRowsFit == row \in [Sheet!Row -> ImportRow] /\ parts \in [Sheet!Row -> Nat]
RunsAre == run = [p \in Process |-> run[p]] /\ \A p \in Process : RunFits(run[p])
RequestsAre ==
    /\ request = [r \in Actor |-> request[r]]
    /\ \A r \in Actor : request[r].at \in {"idle", "start", "retry"}

LEMMA ImportFitsStep ==
    ASSUME ImportFits, [Sheet!Next]_(Sheet!vars)
    PROVE  ImportFits'
  <1>1. 0 \in 0 .. ImportRows /\ 0 \in Nat BY ImportBounds
  <1>2. /\ ImportRowsFit /\ RunsAre /\ RequestsAre
        /\ batch \in Batch /\ crashes \in 0 .. MaxCrashes
    BY DEF ImportFits, ImportRowsFit, RunsAre, RequestsAre
  <1>3. ASSUME batch' \in Batch, ImportRowsFit', RunsAre', RequestsAre',
               crashes' \in 0 .. MaxCrashes
        PROVE  ImportFits'
    BY <1>3 DEF ImportFits, ImportRowsFit, RunsAre, RequestsAre
  <1>4. CASE UNCHANGED Sheet!vars
    BY <1>2, <1>3, <1>4 DEF Sheet!vars, ImportRowsFit, RunsAre, RequestsAre
  <1>5. CASE Sheet!Stage \/ Sheet!SaveArchive \/ Sheet!CorrectMatch
    <2>1. batch' \in Batch
      BY <1>1, <1>5, BatchFits
         DEF Sheet!Stage, Sheet!SaveArchive, Sheet!CorrectMatch, Sheet!StatusFor
    <2>2. UNCHANGED <<row, parts, run, request, crashes>>
      BY <1>5 DEF Sheet!Stage, Sheet!SaveArchive, Sheet!CorrectMatch
    <2> QED BY <1>2, <1>3, <2>1, <2>2 DEF ImportRowsFit, RunsAre, RequestsAre
  <1>6. CASE Sheet!Confirm
    <2>1. batch' \in Batch /\ ImportRowsFit'
      <3>1. batch' \in Batch BY <1>1, <1>6, BatchFits DEF Sheet!Confirm
      <3>2. row' = [x \in Sheet!Row |-> [row[x] EXCEPT !.committed = TRUE]]
        BY <1>6 DEF Sheet!Confirm
      <3>3. row' \in [Sheet!Row -> ImportRow]
        <4>1. row \in [Sheet!Row -> ImportRow] BY DEF ImportFits
        <4>2. \A x \in Sheet!Row : [row[x] EXCEPT !.committed = TRUE] \in ImportRow
          BY <4>1 DEF ImportRow
        <4> QED BY <3>2, <4>2
      <3>4. parts' \in [Sheet!Row -> Nat] BY <1>6, PartsFit DEF Sheet!Confirm
      <3> QED BY <3>1, <3>3, <3>4 DEF ImportRowsFit
    <2>2. UNCHANGED <<run, request, crashes>> BY <1>6 DEF Sheet!Confirm
    <2> QED BY <1>2, <1>3, <2>1, <2>2 DEF RunsAre, RequestsAre
  <1>7. ASSUME NEW r \in Actor, Sheet!ReadToStart(r) \/ Sheet!ReadToRetry(r) PROVE ImportFits'
    <2>1. /\ \E label \in {"start", "retry"} : request' = [request EXCEPT ![r] = [at |-> label]]
          /\ UNCHANGED <<batch, row, parts, run, crashes>>
      BY <1>7 DEF Sheet!ReadToStart, Sheet!ReadToRetry
    <2>2. RequestsAre' BY <2>1, RequestsFit DEF RequestsAre
    <2> QED BY <1>2, <1>3, <2>1, <2>2 DEF ImportRowsFit, RunsAre
  <1>8. ASSUME NEW r \in Actor, NEW p \in Process, Sheet!Start(r, p) \/ Sheet!Retry(r, p)
        PROVE  ImportFits'
    <2>1. /\ Sheet!Runs(p) /\ request' = [request EXCEPT ![r] = Sheet!Idle]
          /\ UNCHANGED <<parts, crashes>>
      BY <1>8 DEF Sheet!Start, Sheet!Retry
    <2>2. RequestsAre' BY <2>1, RequestsFit DEF RequestsAre
    <2>3. RunsAre' BY <2>1, RunsFit DEF RunsAre
    <2>4. batch' \in Batch
      <3>1. CASE Sheet!Start(r, p) BY <1>1, <3>1, BatchFits DEF Sheet!Start
      <3>2. CASE Sheet!Retry(r, p) BY <1>1, <3>2, BatchFits DEF Sheet!Retry
      <3> QED BY <1>8, <3>1, <3>2
    <2>5. row' \in [Sheet!Row -> ImportRow]
      BY <1>8, RowsFit DEF Sheet!Start, Sheet!Retry
    <2>6. ImportRowsFit' BY <2>1, <2>5, <1>2 DEF ImportRowsFit
    <2> QED BY <1>2, <1>3, <2>1, <2>2, <2>3, <2>4, <2>6
  <1>9. ASSUME NEW p \in Process, Sheet!Resume(p) PROVE ImportFits'
    <2>1. Sheet!Runs(p) /\ UNCHANGED <<batch, row, parts, request, crashes>>
      BY <1>9 DEF Sheet!Resume
    <2>2. RunsAre' BY <2>1, RunsFit DEF RunsAre
    <2> QED BY <1>2, <1>3, <2>1, <2>2 DEF ImportRowsFit, RequestsAre
  <1>10. ASSUME NEW p \in Process, NEW q, RunFits(q), Sheet!Go(p, q),
                batch' \in Batch, ImportRowsFit', request' = request,
                crashes' \in 0 .. MaxCrashes
         PROVE  ImportFits'
    <2>1. RunsAre' BY <1>10, RunsFit DEF RunsAre
    <2> QED BY <1>2, <1>3, <1>10, <2>1 DEF RequestsAre
  <1>11. ASSUME NEW p \in Process, Sheet!BeginRun(p) PROVE ImportFits'
    <2>1. PICK q : /\ Sheet!Go(p, q)
                   /\ \/ q = [at |-> "next", todo |-> {x \in Sheet!Row : row[x].stage = "open"}]
                      \/ q = Sheet!Off
      BY <1>11 DEF Sheet!BeginRun
    <2>2. RunFits(q) BY <2>1 DEF RunFits, Sheet!Off
    <2>3. UNCHANGED <<batch, row, parts, request, crashes>> BY <1>11 DEF Sheet!BeginRun
    <2> QED BY <1>2, <1>10, <2>1, <2>2, <2>3 DEF ImportRowsFit
  <1>12. 0 .. ImportRows # {} /\ \E n \in 0 .. ImportRows :
           n = IF batch.processed < ImportRows THEN batch.processed + 1 ELSE batch.processed
    <2>1. PICK n \in 0 .. ImportRows : n = batch.processed BY <1>2 DEF Batch
    <2> QED BY <2>1, ImportBounds
  <1>13. \E n \in 0 .. ImportRows :
           n = IF batch.failed < ImportRows THEN batch.failed + 1 ELSE batch.failed
    <2>1. PICK n \in 0 .. ImportRows : n = batch.failed BY <1>2 DEF Batch
    <2> QED BY <2>1, ImportBounds
  <1>14. ASSUME NEW p \in Process, Sheet!ReadRow(p) PROVE ImportFits'
    <2> DEFINE x == Sheet!Least(run[p].todo)
               rest == run[p].todo \ {x}
    <2>1. \/ /\ row' = [row EXCEPT ![x].stage = "COMPLETED"]
             /\ batch' = [batch EXCEPT !.processed = IF @ < ImportRows THEN @ + 1 ELSE @]
             /\ Sheet!Go(p, [at |-> "next", todo |-> rest])
          \/ Sheet!Go(p, [at |-> "enrich", row |-> x, todo |-> rest]) /\ UNCHANGED <<batch, row>>
      BY <1>14 DEF Sheet!ReadRow
    <2>2. UNCHANGED <<parts, request, crashes>> BY <1>14 DEF Sheet!ReadRow
    <2> HIDE DEF x, rest
    <2>3. PICK q : Sheet!Go(p, q) /\ RunFits(q)
      <3>1. RunFits([at |-> "next", todo |-> rest]) BY DEF RunFits
      <3>2. RunFits([at |-> "enrich", row |-> x, todo |-> rest]) BY DEF RunFits
      <3> QED BY <2>1, <3>1, <3>2
    <2>4. batch' \in Batch
      <3>1. CASE batch' = batch BY <1>2, <3>1
      <3>2. CASE batch' = [batch EXCEPT !.processed = IF @ < ImportRows THEN @ + 1 ELSE @]
        <4>1. PICK n \in 0 .. ImportRows :
                n = IF batch.processed < ImportRows THEN batch.processed + 1 ELSE batch.processed
          BY <1>12
        <4>2. batch' = [batch EXCEPT !.processed = n] BY <3>2, <4>1
        <4> QED BY <4>2, BatchFits
      <3> QED BY <2>1, <3>1, <3>2
    <2>5. row' \in [Sheet!Row -> ImportRow]
      <3>1. row' = row \/ \E y : row' = [row EXCEPT ![y].stage = "COMPLETED"] BY <2>1
      <3> QED BY <3>1, RowsFit
    <2>6. ImportRowsFit' BY <1>2, <2>2, <2>5 DEF ImportRowsFit
    <2> QED BY <1>2, <1>10, <2>2, <2>3, <2>4, <2>6
  <1>15. ASSUME NEW p \in Process, Sheet!CommitRow(p) PROVE ImportFits'
    <2>1. /\ run[p].at = "enrich" /\ Sheet!Go(p, [run[p] EXCEPT !.at = "attach"])
          /\ \E x : row' = [row EXCEPT ![x] = [stage |-> "COMPLETED", committed |-> TRUE]]
          /\ \E x : parts' = [parts EXCEPT ![x] = @ + 1]
          /\ UNCHANGED <<batch, request, crashes>>
      BY <1>15 DEF Sheet!CommitRow
    <2>2. PICK q : q = [run[p] EXCEPT !.at = "attach"] OBVIOUS
    <2>3. RunFits(q)
      <3>1. run[p] = [at |-> "enrich", row |-> run[p].row, todo |-> run[p].todo]
        BY <1>2, <2>1 DEF RunsAre, RunFits
      <3>2. PICK y, z : run[p] = [at |-> "enrich", row |-> y, todo |-> z] BY <3>1
      <3>3. q.at = "attach" BY <2>2, <3>2
      <3> QED BY <3>3 DEF RunFits
    <2>4. row' \in [Sheet!Row -> ImportRow] BY <2>1, RowsFit
    <2>5. parts' \in [Sheet!Row -> Nat] BY <2>1, PartsFit
    <2>6. Sheet!Go(p, q) BY <2>1, <2>2
    <2> QED BY <1>2, <1>10, <2>1, <2>3, <2>4, <2>5, <2>6 DEF ImportRowsFit
  <1>16. ASSUME NEW p \in Process, Sheet!CountRow(p) \/ Sheet!FailRow(p) PROVE ImportFits'
    <2>1. /\ Sheet!Go(p, [at |-> "next", todo |-> run[p].todo])
          /\ row' = row \/ \E x : row' = [row EXCEPT ![x].stage = "FAILED"]
          /\ \/ batch' = [batch EXCEPT !.processed = IF @ < ImportRows THEN @ + 1 ELSE @]
             \/ batch' = [batch EXCEPT !.failed = IF @ < ImportRows THEN @ + 1 ELSE @]
          /\ UNCHANGED <<parts, request, crashes>>
      BY <1>16 DEF Sheet!CountRow, Sheet!FailRow
    <2>2. RunFits([at |-> "next", todo |-> run[p].todo]) BY DEF RunFits
    <2>3. row' \in [Sheet!Row -> ImportRow] BY <2>1, RowsFit
    <2>4. batch' \in Batch
      <3>1. PICK n \in 0 .. ImportRows :
              n = IF batch.processed < ImportRows THEN batch.processed + 1 ELSE batch.processed
        BY <1>12
      <3>2. PICK m \in 0 .. ImportRows :
              m = IF batch.failed < ImportRows THEN batch.failed + 1 ELSE batch.failed
        BY <1>13
      <3>3. batch' = [batch EXCEPT !.processed = n] \/ batch' = [batch EXCEPT !.failed = m]
        BY <2>1, <3>1, <3>2
      <3>4. CASE batch' = [batch EXCEPT !.processed = n] BY <3>4, BatchFits
      <3>5. CASE batch' = [batch EXCEPT !.failed = m] BY <3>5, BatchFits
      <3> QED BY <3>3, <3>4, <3>5
    <2>5. ImportRowsFit' BY <1>2, <2>1, <2>3 DEF ImportRowsFit
    <2> QED BY <1>2, <1>10, <2>1, <2>2, <2>4, <2>5
  <1>17. ASSUME NEW p \in Process, Sheet!Tally(p) PROVE ImportFits'
    <2>1. PICK n, m : /\ n = Sheet!Cardinality({x \in Sheet!Row : row[x].stage = "FAILED"})
                      /\ m = Sheet!Cardinality({x \in Sheet!Row : row[x].stage = "COMPLETED"})
      OBVIOUS
    <2>2. n \in 0 .. ImportRows /\ m \in 0 .. ImportRows
      <3>1. /\ {x \in Sheet!Row : row[x].stage = "FAILED"} \in SUBSET Sheet!Row
            /\ {x \in Sheet!Row : row[x].stage = "COMPLETED"} \in SUBSET Sheet!Row
        OBVIOUS
      <3> QED BY <2>1, <3>1, RowsAreCounted
    <2>3. Sheet!Go(p, [at |-> "finish", failed |-> n, processed |-> m])
          /\ UNCHANGED <<batch, row, parts, request, crashes>>
      BY <1>17, <2>1 DEF Sheet!Tally
    <2>4. RunFits([at |-> "finish", failed |-> n, processed |-> m]) BY <2>2 DEF RunFits
    <2> QED BY <1>2, <1>10, <2>3, <2>4 DEF ImportRowsFit
  <1>18. ASSUME NEW p \in Process, Sheet!Finish(p) PROVE ImportFits'
    <2>1. /\ run[p].at = "finish" /\ Sheet!Go(p, Sheet!Off)
          /\ batch' = [batch EXCEPT !.status = "COMPLETED", !.failed = run[p].failed,
                                    !.processed = run[p].processed]
          /\ UNCHANGED <<row, parts, request, crashes>>
      BY <1>18 DEF Sheet!Finish
    <2>2. PICK n \in 0 .. ImportRows, m \in 0 .. ImportRows :
             n = run[p].failed /\ m = run[p].processed
      BY <1>2, <2>1 DEF RunsAre, RunFits
    <2>3. batch' = [batch EXCEPT !.status = "COMPLETED", !.failed = n, !.processed = m]
      BY <2>1, <2>2
    <2>4. batch' \in Batch BY <2>3, BatchFits
    <2>5. RunFits(Sheet!Off) BY DEF RunFits, Sheet!Off
    <2> QED BY <1>2, <1>10, <2>1, <2>4, <2>5 DEF ImportRowsFit
  <1>19. ASSUME NEW p \in Process, Sheet!Stop(p) PROVE ImportFits'
    <2>1. /\ crashes < MaxCrashes /\ crashes' = crashes + 1 /\ Sheet!Go(p, Sheet!Off)
          /\ UNCHANGED <<batch, row, parts, request>>
      BY <1>19 DEF Sheet!Stop
    <2>2. crashes' \in 0 .. MaxCrashes BY <1>2, <2>1, ImportBounds
    <2>3. RunFits(Sheet!Off) BY DEF RunFits, Sheet!Off
    <2> QED BY <1>2, <1>10, <2>1, <2>2, <2>3 DEF ImportRowsFit
  <1> QED
    BY <1>4, <1>5, <1>6, <1>7, <1>8, <1>9, <1>11, <1>14, <1>15, <1>16, <1>17, <1>18, <1>19
       DEF Sheet!Next

LEMMA ImportIsTyped == ASSUME ImportFits PROVE Sheet!TypeOK
  BY DEF ImportFits, Batch, ImportRow, RunFits, Sheet!TypeOK
=============================================================================
