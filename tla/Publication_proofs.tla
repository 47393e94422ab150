-------------------------- MODULE Publication_proofs --------------------------
(* What goes live, proved for every number of workers, versions and           *)
(* operations, and however many users ask at one time as long as none writes  *)
(* on a check that another made untrue, where nobody edits behind running     *)
(* jobs: LiveIsKnown without crashes, LiveAsApproved also with crashes or     *)
(* operations, not with both.                                                 *)
EXTENDS Publication, TLAPS

\* Where the invariants below are claimed.
Scope == "hastyEdits" \notin env /\ ~({"crashes", "operations"} \subseteq env) /\ ~overtaken
Safe == "crashes" \notin env

OpKinds == {"REVISE", "WITHDRAW", "RECONCILE"}
Kinds == {"STAGE", "SYNC", "PREPARE", "PUBLISH"} \cup OpKinds

(* Which kind of job a run is of, by where it is.                             *)
FitsKind(at, k) ==
    /\ at = "stage" => k = "STAGE"
    /\ at = "putItem" => k = "SYNC"
    /\ at \in {"update", "find", "create", "remember", "fees", "record"} => k = "PREPARE"
    /\ at \in {"look", "publish", "published"} => k = "PUBLISH"
    /\ at \in {"before", "revise", "after", "revised"} => k = "REVISE"
    /\ at \in {"withdraw", "confirm", "withdrawn"} => k = "WITHDRAW"
    /\ at = "reconciled" => k = "RECONCILE"
    /\ at = "peek" => k \in {"WITHDRAW", "RECONCILE"}
    /\ at = "recheck" => k \in {"PREPARE", "PUBLISH", "WITHDRAW"}
Ends == {"load", "complete", "catch"}
Label == {"idle", "load", "complete", "catch", "stage", "putItem", "update", "find", "create",
          "remember", "recheck", "fees", "record", "look", "publish", "published", "before",
          "revise", "after", "revised", "peek", "withdraw", "confirm", "withdrawn", "reconciled"}

Live == {"PUBLISHED", "DRIFTED", "REVISION_QUEUED", "WITHDRAW_QUEUED", "WITHDRAWN"}

OfferType ==
    [status : {"none", "PREPARING", "FEES_READY", "PUBLISH_QUEUED", "FAILED"} \cup Live,
     version : 0 .. MaxVersion, remoteId : BOOLEAN, fees : BOOLEAN,
     approved : BOOLEAN, listed : BOOLEAN, drift : BOOLEAN]
Snapshots == [active : BOOLEAN, differs : BOOLEAN]
Requests == {"idle", "prepare", "queuePrepare", "publish", "queuePublish"} \cup OpKinds

Types ==
    /\ version \in 0 .. MaxVersion /\ ready \in BOOLEAN
    /\ offer \in OfferType
    /\ jobStatus \in [Job -> {"none", "QUEUED", "RUNNING", "COMPLETED", "FAILED"}]
    /\ leaseOwner \in [Job -> Worker \cup {NoWorker}]
    /\ opKind \in [Op -> OpKinds \cup {"none"}] /\ opTarget \in [Op -> 0 .. MaxVersion]
    /\ alive \subseteq Worker
    /\ pc \in [Worker -> [Job -> Label]]
    /\ payload \in [Worker -> [Job -> 0 .. MaxVersion]]
    /\ saw \in [Worker -> [Job -> Snapshots]]
    /\ asking \in [User -> Requests] /\ asked \in [User -> 0 .. MaxVersion]

Started(j) == jobStatus[j] \in Active
\* Until its run has only to say so, if a run of it cannot die.
Unfinished(j) == Started(j) /\ \A w \in Worker : pc[w][j] # "complete"

(* Who runs a job owns it, and the owner lives unless workers die.            *)
Owned == \A w \in Worker, j \in Job : pc[w][j] # "idle" => w \in alive /\ Owns(w, j)
Tended == Safe => \A j \in Job : jobStatus[j] = "RUNNING" => leaseOwner[j] \in alive

Placed == \A w \in Worker, j \in Job : pc[w][j] # "idle" => FitsKind(pc[w][j], KindOf(j))

(* All jobs at work are of the current version, and one of them at most is an *)
(* operation.                                                                 *)
Drafted ==
    /\ ready => version # 0
    /\ \A j \in VersionJob : jobStatus[j] # "none" => j[2] <= version
    /\ \A j \in VersionJob : Started(j) => j[2] = version
Operated ==
    /\ \A o \in Op : Started(o) =>
          /\ "operations" \in env /\ offer.listed /\ opKind[o] \in OpKinds
          /\ opKind[o] = "REVISE" => opTarget[o] = version /\ mandate = version
    /\ \A o, p \in Op : Started(o) /\ Started(p) => o = p

(* What the row of the offer says of the offer on eBay, unless it was revised. *)
Unrevised == ~offer.listed \/ "operations" \notin env
Faithful == content \in {offer.version, Foreign} \/ adopted
Offered ==
    /\ Unrevised /\ offer.approved => mandate = offer.version
    /\ Unrevised /\ (offer.approved \/ offer.status = "FEES_READY") =>
          Faithful /\ offer.remoteId /\ offer.version \in Version
    /\ listing = "active" \/ offer.listed => offer.approved
    /\ Safe /\ offer.listed => offer.status \in Live
    /\ Safe /\ offer.status = "WITHDRAWN" => listing # "active"

ItemSynced == Synced(version) => item = version

(* The offer stays as a preparation or a publication found it.                *)
Prepared == \A v \in Version :
    /\ Started(<<"PREPARE", v>>) => offer.version = version
    /\ Safe /\ Unfinished(<<"PREPARE", v>>) => ~offer.approved /\ offer.status # "FEES_READY"
Published == \A v \in Version :
    /\ Started(<<"PUBLISH", v>>) => offer.approved /\ offer.version = version /\ Synced(version)
    /\ Safe /\ Unfinished(<<"PUBLISH", v>>) => offer.status = "PUBLISH_QUEUED" /\ ~offer.listed
    /\ jobStatus[<<"PUBLISH", v>>] = "COMPLETED" => offer.listed

(* What a request has done still holds when it goes on, whoever else asks.    *)
RequestHolds(u) ==
    /\ asking[u] \in {"prepare", "queuePrepare", "publish", "queuePublish", "REVISE"} =>
          asked[u] = version /\ version \in Version
    /\ asking[u] = "queuePrepare" =>
          /\ offer.version = version
          /\ Safe /\ jobStatus[<<"PREPARE", version>>] \in {"none", "FAILED"} =>
                ~offer.approved /\ offer.status # "FEES_READY"
    /\ asking[u] = "queuePublish" =>
          /\ offer.version = version /\ Synced(version) /\ offer.approved
          /\ Safe => /\ offer.status = "PUBLISH_QUEUED" /\ ~offer.listed
                     /\ ~Unfinished(<<"PUBLISH", version>>)
                     /\ \A x \in User : asking[x] = "queuePublish" => x = u
    /\ asking[u] \in OpKinds => "operations" \in env
Requested == \A u \in User : RequestHolds(u)

(* What a run found still holds when it goes on.                              *)
RunHolds(at, plan, seen, j) ==
    /\ KindOf(j) = "PREPARE" =>
         /\ at \in {"find", "create", "remember", "recheck"} => ~offer.remoteId
         /\ at \in {"update", "fees", "record"} => offer.remoteId
         /\ at \notin Ends => plan = version
         /\ at \in {"fees", "record"} => Faithful
    /\ KindOf(j) = "PUBLISH" /\ at = "complete" => offer.listed
    /\ KindOf(j) = "SYNC" /\ at = "complete" => item = version
    /\ KindOf(j) = "REVISE" /\ at \notin Ends => plan = version
    /\ KindOf(j) = "WITHDRAW" /\ at \in {"confirm", "withdrawn"} => listing # "active"
    /\ KindOf(j) = "RECONCILE" /\ at = "reconciled" =>
         (~seen.active => listing # "active")
Running == \A w \in Worker, j \in Job :
    pc[w][j] # "idle" => RunHolds(pc[w][j], payload[w][j], saw[w][j], j)

Jobs == Owned /\ Tended /\ Placed /\ Drafted
Offers == Operated /\ Offered /\ ItemSynced /\ Prepared /\ Published /\ Requested
Sound == Types /\ Jobs /\ Offers /\ Running
PublicationInv == Scope => Sound

(* Fees are there when they are approved, and an approved offer that was not  *)
(* recorded as live waits for its publication, which is about to record it if *)
(* the listing is there, unless neither of its calls was answered.            *)
Priced == offer.approved \/ offer.status = "FEES_READY" => offer.fees
Waiting == offer.approved /\ ~offer.listed => offer.status \in {"FEES_READY", "PUBLISH_QUEUED"}
Landing == \E w \in Worker : pc[w][<<"PUBLISH", offer.version>>] \in {"recheck", "published"}
Landed == listing = "active" /\ ~offer.listed => unheard \/ Landing
Known == Priced /\ Waiting /\ Landed
KnownInv == Scope /\ Safe => Known

-----------------------------------------------------------------------------
LEMMA JobShape ==
    ASSUME NEW j \in Job
    PROVE  /\ j \in VersionJob =>
                 /\ j \notin Op /\ j[2] \in Version /\ KindOf(j) = j[1]
                 /\ KindOf(j) \notin OpKinds /\ KindOf(j) \in Kinds /\ j = <<KindOf(j), j[2]>>
           /\ j \in Op => j \notin VersionJob /\ KindOf(j) = opKind[j]
BY PublicationAssumption DEF Job, VersionJob, KindOf, Kinds, OpKinds

LEMMA VersionJobs ==
    ASSUME NEW k \in {"STAGE", "SYNC", "PREPARE", "PUBLISH"}, NEW v \in Version
    PROVE  <<k, v>> \in VersionJob /\ <<k, v>> \in Job /\ <<k, v>> \notin Op
BY PublicationAssumption DEF Job, VersionJob

(* The job of a run.                                                          *)
LEMMA RunFacts ==
    ASSUME Scope, Sound, NEW w \in Worker, NEW j \in Job, pc[w][j] # "idle"
    PROVE  /\ w \in alive /\ jobStatus[j] = "RUNNING" /\ leaseOwner[j] = w /\ Started(j)
           /\ pc[w][j] # "complete" => Unfinished(j)
           /\ KindOf(j) \in Kinds /\ FitsKind(pc[w][j], KindOf(j))
           /\ RunHolds(pc[w][j], payload[w][j], saw[w][j], j)
           /\ KindOf(j) \notin OpKinds =>
                 j = <<KindOf(j), version>> /\ j \in VersionJob /\ version \in Version
           /\ KindOf(j) \in OpKinds =>
                 /\ j \in Op /\ KindOf(j) = opKind[j] /\ offer.listed /\ offer.approved
                 /\ "operations" \in env /\ Safe
           /\ KindOf(j) = "REVISE" => opTarget[j] = version /\ mandate = version
<1>1. w \in alive /\ jobStatus[j] = "RUNNING" /\ leaseOwner[j] = w /\ Started(j)
  BY DEF Sound, Jobs, Owned, Owns, Started, Active
<1>2. pc[w][j] # "complete" => Unfinished(j)
  <2> SUFFICES ASSUME pc[w][j] # "complete", NEW x \in Worker, pc[x][j] = "complete" PROVE FALSE
    BY <1>1 DEF Unfinished
  <2> QED BY <1>1 DEF Sound, Jobs, Owned, Owns
<1>3. FitsKind(pc[w][j], KindOf(j)) /\ RunHolds(pc[w][j], payload[w][j], saw[w][j], j)
  BY DEF Sound, Jobs, Placed, Running
<1>4. CASE j \in VersionJob
  <2>1. j[2] = version
    BY <1>1, <1>4 DEF Sound, Jobs, Drafted
  <2> QED BY <1>1, <1>2, <1>3, <1>4, <2>1, JobShape DEF OpKinds
<1>5. CASE j \in Op
  <2>1. /\ "operations" \in env /\ offer.listed /\ opKind[j] \in OpKinds
        /\ opKind[j] = "REVISE" => opTarget[j] = version /\ mandate = version
    BY <1>1, <1>5 DEF Sound, Offers, Operated
  <2>2. Safe /\ offer.approved
    BY <2>1 DEF Scope, Safe, Sound, Offers, Offered
  <2> QED BY <1>1, <1>2, <1>3, <1>5, <2>1, <2>2, JobShape DEF Kinds
<1> QED BY <1>4, <1>5 DEF Job

(* Two runs at one time are of different kinds.                               *)
LEMMA OtherRuns ==
    ASSUME Scope, Sound, NEW w \in Worker, NEW j \in Job, pc[w][j] # "idle",
           NEW x \in Worker, NEW i \in Job, pc[x][i] # "idle", x # w \/ i # j
    PROVE  i # j /\ KindOf(i) # KindOf(j) /\ ~(KindOf(i) \in OpKinds /\ KindOf(j) \in OpKinds)
<1>1. i # j
  BY RunFacts
<1>2. ~(KindOf(i) \in OpKinds /\ KindOf(j) \in OpKinds)
  BY <1>1, RunFacts DEF Sound, Offers, Operated
<1>3. KindOf(i) # KindOf(j)
  BY <1>1, <1>2, RunFacts
<1> QED BY <1>1, <1>2, <1>3

LEMMA GoMoves ==
    ASSUME Types, NEW w \in Worker, NEW j \in Job, NEW l \in Label, Go(w, j, l)
    PROVE  /\ pc' \in [Worker -> [Job -> Label]] /\ pc'[w][j] = l
           /\ \A x \in Worker, i \in Job : x # w \/ i # j => pc'[x][i] = pc[x][i]
BY DEF Types, Go

(* A step of a run that does not end it.                                      *)
Unmoved(w, j) == \A x \in Worker, i \in Job : x # w \/ i # j =>
    pc'[x][i] = pc[x][i] /\ payload'[x][i] = payload[x][i] /\ saw'[x][i] = saw[x][i]
Advances(w, j) ==
    /\ pc[w][j] \notin {"idle", "complete"}
    /\ pc'[w][j] # "idle" /\ FitsKind(pc'[w][j], KindOf(j))
    /\ Unmoved(w, j)
    /\ UNCHANGED <<env, draftVars, jobVars, alive, userVars>>

LEMMA AdvanceKeepsJobs ==
    ASSUME Scope, Sound, Types', NEW w \in Worker, NEW j \in Job, Advances(w, j)
    PROVE  /\ Jobs'
           /\ \A i \in Job : KindOf(i)' = KindOf(i) /\ Started(i)' = Started(i)
           /\ \A i \in Job : Unfinished(i)' => Unfinished(i)
           /\ Unfinished(j)
<1>1. \A i \in Job : KindOf(i)' = KindOf(i) /\ Started(i)' = Started(i)
  BY DEF Advances, jobVars, KindOf, Started
<1>2. w \in alive /\ jobStatus[j] = "RUNNING" /\ leaseOwner[j] = w /\ Unfinished(j)
  BY RunFacts DEF Advances
<1>3. \A i \in Job : Unfinished(i)' => Unfinished(i)
  BY <1>1, <1>2 DEF Advances, Unmoved, Unfinished
<1>4. Owned'
  BY <1>2 DEF Sound, Jobs, Owned, Owns, Advances, Unmoved, jobVars
<1>5. Tended'
  BY DEF Sound, Jobs, Tended, Safe, Advances, jobVars
<1>6. Placed'
  BY <1>1 DEF Sound, Jobs, Placed, Advances, Unmoved, FitsKind
<1>7. Drafted'
  BY <1>1 DEF Sound, Jobs, Drafted, Advances, jobVars, draftVars, Job
<1> QED BY <1>1, <1>2, <1>3, <1>4, <1>5, <1>6, <1>7 DEF Jobs

(* ... which finds what it expects, and takes it from no other run.           *)
LEMMA AdvanceKeeps ==
    ASSUME Scope, Sound, Types', NEW w \in Worker, NEW j \in Job, Advances(w, j), Offers',
           RunHolds(pc[w][j], payload[w][j], saw[w][j], j)',
           \A x \in Worker, i \in Job :
               /\ KindOf(i) # KindOf(j) /\ ~(KindOf(i) \in OpKinds /\ KindOf(j) \in OpKinds)
               /\ Started(i) /\ RunHolds(pc[x][i], payload[x][i], saw[x][i], i)
               /\ pc'[x][i] = pc[x][i] /\ payload'[x][i] = payload[x][i] /\ saw'[x][i] = saw[x][i]
               => RunHolds(pc[x][i], payload[x][i], saw[x][i], i)'
    PROVE  Sound'
<1>1. Jobs'
  BY AdvanceKeepsJobs
<1>2. Running'
  <2> SUFFICES ASSUME NEW x \in Worker, NEW i \in Job, pc'[x][i] # "idle"
               PROVE  RunHolds(pc[x][i], payload[x][i], saw[x][i], i)'
    BY DEF Running
  <2>1. CASE x = w /\ i = j
    BY <2>1
  <2>2. CASE x # w \/ i # j
    <3>1. pc'[x][i] = pc[x][i] /\ payload'[x][i] = payload[x][i] /\ saw'[x][i] = saw[x][i]
      BY <2>2 DEF Advances, Unmoved
    <3>2. /\ KindOf(i) # KindOf(j) /\ ~(KindOf(i) \in OpKinds /\ KindOf(j) \in OpKinds)
          /\ Started(i) /\ RunHolds(pc[x][i], payload[x][i], saw[x][i], i)
      BY <2>2, <3>1, OtherRuns, RunFacts DEF Advances
    <3> QED BY <3>1, <3>2
  <2> QED BY <2>1, <2>2
<1> QED BY <1>1, <1>2 DEF Sound

-----------------------------------------------------------------------------
(* Steps of a run that change nothing but its own state.                      *)
Shared == <<env, draftVars, offer, jobVars, mandate, item, listing, content, adopted, alive,
            userVars>>

LEMMA OffersStay ==
    ASSUME Scope, Sound, Types', NEW w \in Worker, NEW j \in Job, Advances(w, j),
           UNCHANGED <<offer, mandate, item, listing, content, adopted>>
    PROVE  Offers'
<1>1. /\ \A i \in Job : KindOf(i)' = KindOf(i) /\ Started(i)' = Started(i)
      /\ \A i \in Job : Unfinished(i)' => Unfinished(i)
  BY AdvanceKeepsJobs
<1>2. Operated'
  BY <1>1 DEF Sound, Offers, Operated, Advances, jobVars, draftVars, Job
<1>3. Offered'
  BY DEF Sound, Offers, Offered, Unrevised, Faithful, Safe, Advances, userVars
<1>4. ItemSynced'
  BY DEF Sound, Offers, ItemSynced, Synced, Advances, jobVars, draftVars
<1>5. Prepared'
  BY <1>1, VersionJobs DEF Sound, Offers, Prepared, Safe, Advances, userVars, draftVars
<1>6. Published'
  BY <1>1, VersionJobs DEF Sound, Offers, Published, Synced, Safe, Advances, jobVars, draftVars
<1>7. Requested'
  <2> SUFFICES ASSUME NEW u \in User PROVE RequestHolds(u)'
    BY DEF Requested
  <2>1. version \in Version => (~Unfinished(<<"PUBLISH", version>>) => ~Unfinished(<<"PUBLISH", version>>)')
    BY <1>1, VersionJobs DEF Advances, draftVars, Unfinished, Started
  <2>2. RequestHolds(u)
    BY DEF Sound, Offers, Requested
  <2>3. NoActiveOperation' = NoActiveOperation /\ \A v : Synced(v)' = Synced(v)
    BY DEF NoActiveOperation, Synced, Advances, jobVars
  <2> QED
    BY <2>1, <2>2, <2>3 DEF RequestHolds, Safe, Synced, Advances, jobVars, draftVars, userVars
<1> QED BY <1>2, <1>3, <1>4, <1>5, <1>6, <1>7 DEF Offers

LEMMA QuietStep ==
    ASSUME Scope, Sound, NEW w \in Worker, NEW j \in Job, NEW l \in Label \ {"idle"},
           pc[w][j] \notin {"idle", "complete"}, Go(w, j, l), FitsKind(l, KindOf(j)),
           Types', UNCHANGED Shared, RunHolds(l, payload'[w][j], saw'[w][j], j),
           \A x \in Worker, i \in Job : x # w \/ i # j =>
               payload'[x][i] = payload[x][i] /\ saw'[x][i] = saw[x][i]
    PROVE  Sound'
<1>1. /\ pc'[w][j] = l
      /\ \A x \in Worker, i \in Job : x # w \/ i # j => pc'[x][i] = pc[x][i]
  BY GoMoves DEF Sound
<1>2. Advances(w, j)
  BY <1>1 DEF Advances, Unmoved, Shared
<1>3. Offers'
  BY <1>2, OffersStay DEF Shared
<1>4. RunHolds(pc[w][j], payload[w][j], saw[w][j], j)'
  BY <1>1 DEF RunHolds, KindOf, Faithful, Shared, draftVars, jobVars
<1>5. ASSUME NEW x \in Worker, NEW i \in Job, RunHolds(pc[x][i], payload[x][i], saw[x][i], i),
             pc'[x][i] = pc[x][i], payload'[x][i] = payload[x][i], saw'[x][i] = saw[x][i]
      PROVE  RunHolds(pc[x][i], payload[x][i], saw[x][i], i)'
  BY <1>5 DEF RunHolds, KindOf, Faithful, Shared, draftVars, jobVars
<1> QED BY <1>2, <1>3, <1>4, <1>5, AdvanceKeeps

LEMMA LookStep ==
    ASSUME Scope, Sound, NEW w \in Worker, NEW j \in Job, NEW l \in Label \ {"idle"},
           pc[w][j] \notin {"idle", "complete"}, Go(w, j, l), FitsKind(l, KindOf(j)),
           UNCHANGED <<Shared, payload, saw>>, RunHolds(l, payload[w][j], saw[w][j], j)
    PROVE  Sound'
<1>1. pc' \in [Worker -> [Job -> Label]]
  BY GoMoves DEF Sound
<1>2. Types'
  BY <1>1 DEF Sound, Types, Shared, draftVars, jobVars, userVars
<1> QED BY <1>2, QuietStep DEF Sound, Types

(* A step that writes to the offer, or to eBay.                               *)
LEMMA WriteStep ==
    ASSUME Scope, Sound, NEW w \in Worker, NEW j \in Job, NEW l \in Label \ {"idle"},
           pc[w][j] \notin {"idle", "complete"}, Go(w, j, l), FitsKind(l, KindOf(j)),
           UNCHANGED <<env, draftVars, jobVars, alive, payload, saw, userVars>>,
           offer' \in OfferType
    PROVE  /\ Types' /\ Advances(w, j) /\ pc'[w][j] = l
           /\ payload'[w][j] = payload[w][j] /\ saw'[w][j] = saw[w][j]
<1>1. /\ pc' \in [Worker -> [Job -> Label]] /\ pc'[w][j] = l
      /\ \A x \in Worker, i \in Job : x # w \/ i # j => pc'[x][i] = pc[x][i]
  BY GoMoves DEF Sound
<1>2. Types'
  BY <1>1 DEF Sound, Types, OfferType, draftVars, jobVars, userVars
<1> QED BY <1>1, <1>2 DEF Advances, Unmoved
LEMMA LoadKeeps ==
    ASSUME Scope, Sound, NEW w \in Worker, NEW j \in Job, Load(w, j)
    PROVE  Sound'
<1> DEFINE plan == IF KindOf(j) = "REVISE" THEN opTarget[j] ELSE offer.version
           l == pc'[w][j]
<1>1. /\ pc[w][j] = "load" /\ UNCHANGED Shared /\ UNCHANGED saw
      /\ payload' = [payload EXCEPT ![w][j] = plan]
  BY DEF Load, At, Shared, remoteVars
<1>2. KindOf(j) \in Kinds /\ (KindOf(j) = "REVISE" => j \in Op)
      /\ (KindOf(j) = "REVISE" => opTarget[j] = version) /\ (j \in Op => Started(j))
      /\ (KindOf(j) = "PREPARE" => offer.version = version)
  <2>1. KindOf(j) = "PREPARE" => offer.version = version
    <3> SUFFICES ASSUME KindOf(j) = "PREPARE" PROVE offer.version = version
      OBVIOUS
    <3>1. j = <<"PREPARE", version>> /\ version \in Version /\ Started(j)
      BY <1>1, RunFacts DEF OpKinds
    <3> QED BY <3>1 DEF Sound, Offers, Prepared
  <2> QED BY <1>1, <2>1, RunFacts DEF OpKinds
<1>3. PICK m \in Label \ {"idle"} :
          Go(w, j, m) /\ FitsKind(m, KindOf(j))
          /\ (KindOf(j) = "PREPARE" => m \in {"update", "find"} /\ (m = "update" <=> offer.remoteId))
          /\ (m \in Ends => m = "catch" \/ (KindOf(j) = "STAGE" /\ m = "complete"))
          /\ m \notin {"revised", "reconciled", "confirm", "withdrawn"}
  <2>1. CASE KindOf(j) = "STAGE"
    BY <2>1 DEF Load, Label, FitsKind, Ends
  <2>2. CASE KindOf(j) = "SYNC"
    BY <2>2 DEF Load, Label, FitsKind, Ends
  <2>3. CASE KindOf(j) = "PREPARE"
    BY <2>3 DEF Load, Label, FitsKind, Ends
  <2>4. CASE KindOf(j) = "PUBLISH"
    BY <2>4 DEF Load, Label, FitsKind, Ends
  <2>5. CASE KindOf(j) = "REVISE"
    BY <2>5 DEF Load, Label, FitsKind, Ends
  <2>6. CASE KindOf(j) = "WITHDRAW"
    BY <2>6 DEF Load, Label, FitsKind, Ends
  <2>7. CASE KindOf(j) = "RECONCILE"
    BY <2>7 DEF Load, Label, FitsKind, Ends
  <2> QED BY <1>2, <2>1, <2>2, <2>3, <2>4, <2>5, <2>6, <2>7 DEF Kinds, OpKinds
<1>4. plan \in 0 .. MaxVersion
  BY <1>2 DEF Sound, Types, OfferType
<1>5. /\ payload' \in [Worker -> [Job -> 0 .. MaxVersion]] /\ payload'[w][j] = plan
      /\ \A x \in Worker, i \in Job : x # w \/ i # j => payload'[x][i] = payload[x][i]
  BY <1>1, <1>4 DEF Sound, Types
<1>6. pc' \in [Worker -> [Job -> Label]]
  BY <1>3, GoMoves DEF Sound
<1>7. Types'
  BY <1>1, <1>5, <1>6 DEF Sound, Types, Shared, draftVars, jobVars, userVars
<1>8. RunHolds(m, payload'[w][j], saw'[w][j], j)
  BY <1>2, <1>3, <1>5 DEF RunHolds, Ends
<1> QED BY <1>1, <1>3, <1>5, <1>7, <1>8, QuietStep

LEMMA SeeKeeps ==
    ASSUME Scope, Sound, NEW w \in Worker, NEW j \in Job, NEW l \in Label \ {"idle"},
           NEW s \in Snapshots, See(w, j, s), Go(w, j, l),
           pc[w][j] \notin {"idle", "complete"}, FitsKind(l, KindOf(j)),
           UNCHANGED Shared, UNCHANGED payload, RunHolds(l, payload[w][j], s, j)
    PROVE  Sound'
<1>1. /\ saw' \in [Worker -> [Job -> Snapshots]]
      /\ saw'[w][j] = s
      /\ \A x \in Worker, i \in Job : x # w \/ i # j => saw'[x][i] = saw[x][i]
  BY DEF See, Sound, Types
<1>2. pc' \in [Worker -> [Job -> Label]]
  BY GoMoves DEF Sound
<1>3. Types'
  BY <1>1, <1>2 DEF Sound, Types, Shared, draftVars, jobVars, userVars
<1> QED BY <1>1, <1>3, QuietStep

LEMMA LooksKeep ==
    ASSUME Scope, Sound, NEW w \in Worker, NEW j \in Job,
           \/ Stage(w, j) \/ FindOffer(w, j) \/ GetListingFees(w, j) \/ LookForListing(w, j)
           \/ Recheck(w, j) \/ LookBefore(w, j) \/ Confirm(w, j) \/ CallError(w, j)
    PROVE  Sound'
<1> DEFINE at == pc[w][j]
           here == RunHolds(at, payload[w][j], saw[w][j], j) /\ FitsKind(at, KindOf(j))
<1>1. at # "idle" => here
  BY RunFacts
<1> SUFFICES \E l \in Label \ {"idle"} :
        /\ at \notin {"idle", "complete"} /\ Go(w, j, l) /\ FitsKind(l, KindOf(j))
        /\ UNCHANGED <<Shared, payload, saw>> /\ RunHolds(l, payload[w][j], saw[w][j], j)
  BY LookStep
<1>2. CASE Stage(w, j)
  <2>1. at = "stage" /\ UNCHANGED <<Shared, payload, saw>>
    BY <1>2 DEF Stage, At, Shared, remoteVars
  <2>2. CASE Go(w, j, "catch")
    BY <1>1, <2>1, <2>2 DEF RunHolds, FitsKind, Ends, Label
  <2>3. CASE Go(w, j, "complete")
    BY <1>1, <2>1, <2>3 DEF RunHolds, FitsKind, Ends, Label
  <2> QED BY <1>2, <2>2, <2>3 DEF Stage
<1>3. CASE FindOffer(w, j)
  <2>1. at = "find" /\ UNCHANGED <<Shared, payload, saw>>
    BY <1>3 DEF FindOffer, At, Shared, remoteVars
  <2>2. CASE Go(w, j, "remember")
    BY <1>1, <2>1, <2>2 DEF RunHolds, FitsKind, Ends, Label
  <2>3. CASE Go(w, j, "create")
    BY <1>1, <2>1, <2>3 DEF RunHolds, FitsKind, Ends, Label
  <2> QED BY <1>3, <2>2, <2>3 DEF FindOffer
<1>4. CASE GetListingFees(w, j)
  <2>1. at = "fees" /\ UNCHANGED <<Shared, payload, saw>> /\ Go(w, j, "record")
    BY <1>4 DEF GetListingFees, At, Shared, remoteVars
  <2> QED BY <1>1, <2>1 DEF RunHolds, FitsKind, Ends, Label
<1>5. CASE LookForListing(w, j)
  <2>1. at = "look" /\ UNCHANGED <<Shared, payload, saw>>
    BY <1>5 DEF LookForListing, At, Shared, remoteVars
  <2>2. CASE Go(w, j, "published")
    BY <1>1, <2>1, <2>2 DEF RunHolds, FitsKind, Ends, Label
  <2>3. CASE Go(w, j, "publish")
    BY <1>1, <2>1, <2>3 DEF RunHolds, FitsKind, Ends, Label
  <2> QED BY <1>5, <2>2, <2>3 DEF LookForListing
<1>6. CASE Recheck(w, j)
  <2>1. at = "recheck" /\ UNCHANGED <<Shared, payload, saw>> /\ Go(w, j, AfterRecheck(j))
    BY <1>6 DEF Recheck, At, Shared, remoteVars
  <2>2. CASE KindOf(j) = "PREPARE"
    BY <1>1, <2>1, <2>2 DEF AfterRecheck, RunHolds, FitsKind, Ends, Label
  <2>3. CASE KindOf(j) = "PUBLISH"
    BY <1>1, <2>1, <2>3 DEF AfterRecheck, RunHolds, FitsKind, Ends, Label
  <2>4. CASE KindOf(j) = "WITHDRAW"
    BY <1>1, <2>1, <2>4 DEF AfterRecheck, RunHolds, FitsKind, Ends, Label
  <2> QED BY <1>1, <2>1, <2>2, <2>3, <2>4 DEF FitsKind
<1>7. CASE LookBefore(w, j)
  <2>1. at = "before" /\ UNCHANGED <<Shared, payload, saw>>
    BY <1>7 DEF LookBefore, At, Shared, remoteVars
  <2>2. CASE Go(w, j, "revise")
    BY <1>1, <2>1, <2>2 DEF RunHolds, FitsKind, Ends, Label
  <2>3. CASE Go(w, j, "catch")
    BY <1>1, <2>1, <2>3 DEF RunHolds, FitsKind, Ends, Label
  <2> QED BY <1>7, <2>2, <2>3 DEF LookBefore
<1>8. CASE Confirm(w, j)
  <2>1. at = "confirm" /\ UNCHANGED <<Shared, payload, saw>> /\ Go(w, j, "withdrawn")
    BY <1>8 DEF Confirm, At, Shared, remoteVars
  <2> QED BY <1>1, <2>1 DEF RunHolds, FitsKind, Ends, Label
<1>9. CASE CallError(w, j)
  <2>1. UNCHANGED <<Shared, payload, saw>> /\ at \notin {"idle", "complete"}
    BY <1>9 DEF CallError, Shared
  <2>2. CASE Go(w, j, "catch")
    BY <1>1, <2>1, <2>2 DEF RunHolds, FitsKind, Ends, Label
  <2>3. CASE at \in {"create", "publish", "withdraw"} /\ Go(w, j, "recheck")
    BY <1>1, <2>1, <2>3 DEF RunHolds, FitsKind, Ends, Label
  <2> QED BY <1>9, <2>2, <2>3 DEF CallError
<1> QED BY <1>2, <1>3, <1>4, <1>5, <1>6, <1>7, <1>8, <1>9

LEMMA LookAfterKeeps ==
    ASSUME Scope, Sound, NEW w \in Worker, NEW j \in Job, LookAfter(w, j)
    PROVE  Sound'
<1>1. /\ pc[w][j] = "after" /\ UNCHANGED Shared /\ UNCHANGED payload /\ Go(w, j, "revised")
      /\ See(w, j, Snapshot(w, j)) /\ Snapshot(w, j) \in Snapshots
  BY DEF LookAfter, At, Shared, remoteVars, Snapshot, Snapshots
<1>2. KindOf(j) = "REVISE" /\ RunHolds("after", payload[w][j], saw[w][j], j)
  BY <1>1, RunFacts DEF FitsKind
<1>3. RunHolds("revised", payload[w][j], Snapshot(w, j), j) /\ FitsKind("revised", KindOf(j))
  BY <1>1, <1>2 DEF RunHolds, FitsKind, Ends
<1> QED BY <1>1, <1>3, SeeKeeps DEF Label

LEMMA PeekKeeps ==
    ASSUME Scope, Sound, NEW w \in Worker, NEW j \in Job, Peek(w, j)
    PROVE  Sound'
<1>1. pc[w][j] = "peek" /\ UNCHANGED Shared /\ UNCHANGED payload
  BY DEF Peek, At, Shared, remoteVars
<1>2. KindOf(j) \in {"WITHDRAW", "RECONCILE"}
  BY <1>1, RunFacts DEF FitsKind
<1>3. CASE KindOf(j) = "WITHDRAW"
  <2>1. PICK l \in {"withdraw", "withdrawn"} :
            Go(w, j, l) /\ UNCHANGED saw /\ (l = "withdrawn" => listing # "active")
    BY <1>3 DEF Peek
  <2>2. RunHolds(l, payload[w][j], saw[w][j], j) /\ FitsKind(l, KindOf(j))
    BY <1>3, <2>1 DEF RunHolds, FitsKind
  <2> QED BY <1>1, <2>1, <2>2, LookStep DEF Label
<1>4. CASE KindOf(j) = "RECONCILE"
  <2>0. /\ Snapshot(w, j) \in Snapshots /\ (~Snapshot(w, j).active => listing # "active")
        /\ See(w, j, Snapshot(w, j)) /\ Go(w, j, "reconciled")
    BY <1>4 DEF Peek, Snapshot, Snapshots
  <2>1. PICK s \in Snapshots :
            See(w, j, s) /\ Go(w, j, "reconciled") /\ (~s.active => listing # "active")
    BY <2>0
  <2>2. RunHolds("reconciled", payload[w][j], s, j) /\ FitsKind("reconciled", KindOf(j))
    BY <1>4, <2>1 DEF RunHolds, FitsKind
  <2> QED BY <1>1, <2>1, <2>2, SeeKeeps DEF Label
<1> QED BY <1>2, <1>3, <1>4
-----------------------------------------------------------------------------
(* Steps of a run that change something at eBay.                              *)
LEMMA RemoteStep ==
    ASSUME Scope, Sound, NEW w \in Worker, NEW j \in Job, NEW l \in Label \ {"idle"},
           pc[w][j] \notin {"idle", "complete"}, Go(w, j, l), FitsKind(l, KindOf(j)),
           UNCHANGED <<env, draftVars, offer, jobVars, mandate, alive, payload, saw, userVars>>,
           Offered', ItemSynced', RunHolds(l, payload[w][j], saw[w][j], j)',
           KindOf(j) = "SYNC" \/ item' = item,
           KindOf(j) = "PREPARE" \/ content' = version \/ UNCHANGED <<content, adopted>>,
           listing' = "active" => listing = "active" \/ \A o \in Op : ~Started(o)
    PROVE  Sound'
<1>1. /\ Types' /\ Advances(w, j) /\ pc'[w][j] = l
      /\ payload'[w][j] = payload[w][j] /\ saw'[w][j] = saw[w][j]
  BY WriteStep DEF Sound, Types, OfferType
<1>2. /\ \A i \in Job : KindOf(i)' = KindOf(i) /\ Started(i)' = Started(i)
      /\ \A i \in Job : Unfinished(i)' => Unfinished(i)
  BY <1>1, AdvanceKeepsJobs
<1>3. Operated'
  BY <1>2 DEF Sound, Offers, Operated, jobVars, draftVars, Job
<1>4. Prepared'
  BY <1>2, VersionJobs DEF Sound, Offers, Prepared, Safe, userVars, draftVars
<1>5. Published'
  BY <1>2, VersionJobs DEF Sound, Offers, Published, Synced, Safe, jobVars, draftVars
<1>6. Requested'
  <2> SUFFICES ASSUME NEW u \in User PROVE RequestHolds(u)'
    BY DEF Requested
  <2>1. version \in Version => (~Unfinished(<<"PUBLISH", version>>) => ~Unfinished(<<"PUBLISH", version>>)')
    BY <1>2, VersionJobs DEF draftVars, Unfinished, Started
  <2>2. RequestHolds(u)
    BY DEF Sound, Offers, Requested
  <2>3. NoActiveOperation' = NoActiveOperation /\ \A v : Synced(v)' = Synced(v)
    BY DEF NoActiveOperation, Synced, jobVars
  <2> QED BY <2>1, <2>2, <2>3 DEF RequestHolds, Safe, Synced, jobVars, draftVars, userVars
<1>7. ASSUME NEW x \in Worker, NEW i \in Job, KindOf(i) # KindOf(j),
             ~(KindOf(i) \in OpKinds /\ KindOf(j) \in OpKinds), Started(i),
             RunHolds(pc[x][i], payload[x][i], saw[x][i], i),
             pc'[x][i] = pc[x][i], payload'[x][i] = payload[x][i], saw'[x][i] = saw[x][i]
      PROVE  RunHolds(pc[x][i], payload[x][i], saw[x][i], i)'
  <2>1. KindOf(i)' = KindOf(i)
    BY <1>2
  <2>2. KindOf(i) = "PREPARE" /\ Faithful => Faithful'
    <3> SUFFICES ASSUME KindOf(i) = "PREPARE", Faithful PROVE Faithful'
      OBVIOUS
    <3>1. i \in VersionJob
      <4>1. i \in Op => opKind[i] \in OpKinds
        BY <1>7 DEF Sound, Offers, Operated
      <4> QED BY <4>1, JobShape DEF OpKinds, Job
    <3>2. offer.version = version
      BY <1>7, <3>1, JobShape DEF Sound, Offers, Prepared
    <3> QED BY <1>7, <3>2 DEF Faithful
  <2>3. KindOf(i) \in OpKinds => (listing # "active" => listing' # "active")
    <3>1. KindOf(i) \in OpKinds => i \in Op
      BY JobShape DEF Job
    <3> QED BY <1>7, <3>1
  <2>4. offer' = offer /\ version' = version
    BY DEF draftVars
  <2> QED BY <1>7, <2>1, <2>2, <2>3, <2>4 DEF RunHolds, OpKinds
<1>8. RunHolds(pc[w][j], payload[w][j], saw[w][j], j)'
  BY <1>1 DEF RunHolds
<1>9. Offers'
  BY <1>3, <1>4, <1>5, <1>6 DEF Offers
<1> QED BY <1>1, <1>7, <1>8, <1>9, AdvanceKeeps

LEMMA PutItemKeeps ==
    ASSUME Scope, Sound, NEW w \in Worker, NEW j \in Job, PutItem(w, j)
    PROVE  Sound'
<1>1. /\ pc[w][j] = "putItem" /\ item' = j[2]
      /\ UNCHANGED <<env, draftVars, offer, jobVars, mandate, alive, payload, saw, userVars>>
      /\ UNCHANGED <<listing, content, adopted>>
  BY DEF PutItem, At
<1>2. KindOf(j) = "SYNC" /\ j = <<"SYNC", version>> /\ KindOf(j)' = KindOf(j)
  BY <1>1, RunFacts DEF FitsKind, OpKinds, KindOf, jobVars
<1>3. PICK l \in {"complete", "catch"} : Go(w, j, l)
  BY DEF PutItem, Called
<1>4. item' = version /\ version' = version
  BY <1>1, <1>2 DEF draftVars
<1>5. ItemSynced'
  BY <1>4 DEF ItemSynced
<1>6. Offered'
  BY <1>1 DEF Sound, Offers, Offered, Unrevised, Faithful, Safe, userVars
<1>7. RunHolds(l, payload[w][j], saw[w][j], j)' /\ FitsKind(l, KindOf(j))
  BY <1>2, <1>3, <1>4 DEF RunHolds, FitsKind
<1> QED BY <1>1, <1>2, <1>3, <1>5, <1>6, <1>7, RemoteStep DEF Label

LEMMA PrepareFacts ==
    ASSUME Scope, Sound, NEW w \in Worker, NEW j \in Job, pc[w][j] # "idle",
           KindOf(j) = "PREPARE"
    PROVE  /\ j = <<"PREPARE", version>> /\ offer.version = version /\ version \in Version
           /\ pc[w][j] \notin Ends => payload[w][j] = version
           /\ Safe /\ pc[w][j] # "complete" =>
                 ~offer.approved /\ offer.status # "FEES_READY"
<1>1. j = <<"PREPARE", version>> /\ version \in Version /\ Started(j)
  BY RunFacts DEF OpKinds
<1>2. pc[w][j] # "complete" => Unfinished(<<"PREPARE", version>>)
  BY <1>1, RunFacts
<1>3. pc[w][j] \notin Ends => payload[w][j] = version
  BY RunFacts DEF RunHolds
<1> QED BY <1>1, <1>2, <1>3 DEF Sound, Offers, Prepared

LEMMA UpdateOfferKeeps ==
    ASSUME Scope, Sound, NEW w \in Worker, NEW j \in Job, UpdateOffer(w, j)
    PROVE  Sound'
<1>1. /\ pc[w][j] = "update" /\ content' = payload[w][j] /\ adopted' = FALSE
      /\ UNCHANGED <<env, draftVars, offer, jobVars, mandate, alive, payload, saw, userVars>>
      /\ UNCHANGED <<item, listing>>
  BY DEF UpdateOffer, At
<1>2. KindOf(j) = "PREPARE" /\ KindOf(j)' = KindOf(j) /\ offer.remoteId
  BY <1>1, RunFacts DEF FitsKind, KindOf, jobVars, RunHolds
<1>3. PICK l \in {"fees", "catch"} : Go(w, j, l)
  BY DEF UpdateOffer, Called
<1>4. content' = version /\ offer.version = version /\ payload[w][j] = version /\ version' = version
  BY <1>1, <1>2, PrepareFacts DEF Ends, draftVars
<1>5. Faithful'
  BY <1>1, <1>4 DEF Faithful
<1>6. Offered'
  BY <1>1, <1>5 DEF Sound, Offers, Offered, Unrevised, Safe, userVars
<1>7. ItemSynced'
  BY <1>1 DEF Sound, Offers, ItemSynced, Synced, jobVars, draftVars
<1>8. RunHolds(l, payload[w][j], saw[w][j], j)' /\ FitsKind(l, KindOf(j))
  BY <1>1, <1>2, <1>3, <1>4, <1>5 DEF RunHolds, FitsKind, Ends
<1> QED BY <1>1, <1>2, <1>3, <1>6, <1>7, <1>8, RemoteStep DEF Label

LEMMA CreateOfferKeeps ==
    ASSUME Scope, Sound, NEW w \in Worker, NEW j \in Job, CreateOffer(w, j)
    PROVE  Sound'
<1>1. /\ pc[w][j] = "create" /\ listing' \in {listing, "unpublished"}
      /\ UNCHANGED <<env, draftVars, offer, jobVars, mandate, alive, payload, saw, userVars>>
      /\ UNCHANGED <<item, adopted>>
  BY DEF CreateOffer, At
<1>2. KindOf(j) = "PREPARE" /\ KindOf(j)' = KindOf(j) /\ ~offer.remoteId
  BY <1>1, RunFacts DEF FitsKind, KindOf, jobVars, RunHolds
<1>3. PICK l \in {"remember", "recheck"} : Go(w, j, l)
  BY DEF CreateOffer, Called
<1>4. payload[w][j] = version /\ version' = version
  BY <1>1, <1>2, PrepareFacts DEF Ends, draftVars
<1>5. Offered'
  BY <1>1, <1>2 DEF Sound, Offers, Offered, Unrevised, Safe, userVars
<1>6. ItemSynced'
  BY <1>1 DEF Sound, Offers, ItemSynced, Synced, jobVars, draftVars
<1>7. RunHolds(l, payload[w][j], saw[w][j], j)' /\ FitsKind(l, KindOf(j))
  BY <1>1, <1>2, <1>3, <1>4 DEF RunHolds, FitsKind, Ends
<1> QED BY <1>1, <1>2, <1>3, <1>5, <1>6, <1>7, RemoteStep DEF Label

LEMMA PublishFacts ==
    ASSUME Scope, Sound, NEW w \in Worker, NEW j \in Job, pc[w][j] \notin {"idle", "complete"},
           KindOf(j) = "PUBLISH"
    PROVE  /\ j = <<"PUBLISH", version>> /\ offer.version = version /\ offer.approved
           /\ Synced(version) /\ Unrevised /\ \A o \in Op : ~Started(o)
           /\ Safe => offer.status = "PUBLISH_QUEUED" /\ ~offer.listed
<1>1. j = <<"PUBLISH", version>> /\ version \in Version /\ Started(j) /\ Unfinished(j)
  BY RunFacts DEF OpKinds
<1>2. /\ offer.version = version /\ offer.approved /\ Synced(version)
      /\ Safe => offer.status = "PUBLISH_QUEUED" /\ ~offer.listed
  BY <1>1 DEF Sound, Offers, Published
<1>3. Unrevised
  BY <1>2 DEF Unrevised, Scope, Safe
<1>4. \A o \in Op : ~Started(o)
  BY <1>3 DEF Unrevised, Sound, Offers, Operated
<1> QED BY <1>1, <1>2, <1>3, <1>4

LEMMA PublishOfferKeeps ==
    ASSUME Scope, Sound, NEW w \in Worker, NEW j \in Job, PublishOffer(w, j)
    PROVE  Sound'
<1>1. /\ pc[w][j] = "publish" /\ listing' = "active"
      /\ UNCHANGED <<env, draftVars, offer, jobVars, mandate, alive, payload, saw, userVars>>
      /\ UNCHANGED <<item, content, adopted>>
  BY DEF PublishOffer, At
<1>2. KindOf(j) = "PUBLISH" /\ KindOf(j)' = KindOf(j)
  BY <1>1, RunFacts DEF FitsKind, KindOf, jobVars
<1>3. PICK l \in {"published", "recheck"} : Go(w, j, l)
  BY DEF PublishOffer, Called
<1>4. /\ offer.approved /\ \A o \in Op : ~Started(o)
      /\ Safe => offer.status = "PUBLISH_QUEUED"
  BY <1>1, <1>2, PublishFacts
<1>5. Offered'
  BY <1>1, <1>4 DEF Sound, Offers, Offered, Unrevised, Faithful, Safe, userVars
<1>6. ItemSynced'
  BY <1>1 DEF Sound, Offers, ItemSynced, Synced, jobVars, draftVars
<1>7. RunHolds(l, payload[w][j], saw[w][j], j)' /\ FitsKind(l, KindOf(j))
  BY <1>2, <1>3 DEF RunHolds, FitsKind
<1> QED BY <1>1, <1>2, <1>3, <1>4, <1>5, <1>6, <1>7, RemoteStep DEF Label

LEMMA ReviseKeeps ==
    ASSUME Scope, Sound, NEW w \in Worker, NEW j \in Job, Revise(w, j)
    PROVE  Sound'
<1>1. /\ pc[w][j] = "revise" /\ content' = payload[w][j] /\ adopted' = FALSE
      /\ UNCHANGED <<env, draftVars, offer, jobVars, mandate, alive, payload, saw, userVars>>
      /\ UNCHANGED <<item, listing>>
  BY DEF Revise, At
<1>2. KindOf(j) = "REVISE" /\ KindOf(j)' = KindOf(j) /\ payload[w][j] = version
  BY <1>1, RunFacts DEF FitsKind, KindOf, jobVars, RunHolds, Ends
<1>3. PICK l \in {"after", "catch"} : Go(w, j, l)
  BY DEF Revise, Called
<1>4. offer.listed /\ "operations" \in env
  BY <1>1, <1>2, RunFacts DEF OpKinds
<1>5. Offered'
  BY <1>1, <1>4 DEF Sound, Offers, Offered, Unrevised, Faithful, Safe, userVars
<1>6. ItemSynced'
  BY <1>1 DEF Sound, Offers, ItemSynced, Synced, jobVars, draftVars
<1>7. RunHolds(l, payload[w][j], saw[w][j], j)' /\ FitsKind(l, KindOf(j))
  BY <1>1, <1>2, <1>3 DEF RunHolds, FitsKind, Ends, draftVars
<1> QED BY <1>1, <1>2, <1>3, <1>5, <1>6, <1>7, RemoteStep DEF Label

LEMMA WithdrawOfferKeeps ==
    ASSUME Scope, Sound, NEW w \in Worker, NEW j \in Job, WithdrawOffer(w, j)
    PROVE  Sound'
<1>1. /\ pc[w][j] = "withdraw" /\ listing' = "unpublished"
      /\ UNCHANGED <<env, draftVars, offer, jobVars, mandate, alive, payload, saw, userVars>>
      /\ UNCHANGED <<item, content, adopted>>
  BY DEF WithdrawOffer, At
<1>2. KindOf(j) = "WITHDRAW" /\ KindOf(j)' = KindOf(j)
  BY <1>1, RunFacts DEF FitsKind, KindOf, jobVars
<1>3. PICK l \in {"confirm", "recheck"} : Go(w, j, l)
  BY DEF WithdrawOffer, Called
<1>4. Offered'
  BY <1>1 DEF Sound, Offers, Offered, Unrevised, Faithful, Safe, userVars
<1>5. ItemSynced'
  BY <1>1 DEF Sound, Offers, ItemSynced, Synced, jobVars, draftVars
<1>6. RunHolds(l, payload[w][j], saw[w][j], j)' /\ FitsKind(l, KindOf(j))
  BY <1>1, <1>2, <1>3 DEF RunHolds, FitsKind
<1> QED BY <1>1, <1>2, <1>3, <1>4, <1>5, <1>6, RemoteStep DEF Label
-----------------------------------------------------------------------------
(* Steps of a run that write to the row of the offer.                         *)
LEMMA RowStep ==
    ASSUME Scope, Sound, NEW w \in Worker, NEW j \in Job, NEW l \in Label \ {"idle"},
           pc[w][j] \notin {"idle", "complete"}, Go(w, j, l), FitsKind(l, KindOf(j)),
           UNCHANGED <<env, draftVars, jobVars, mandate, item, listing, content, alive, payload,
                       saw, userVars>>,
           offer' \in OfferType, offer.listed => offer'.listed,
           offer'.version \in {offer.version, version},
           KindOf(j) = "PREPARE" \/ (offer'.remoteId = offer.remoteId /\ adopted' = adopted),
           Offered', Prepared', Published', Requested',
           RunHolds(l, payload[w][j], saw[w][j], j)'
    PROVE  Sound'
<1>1. /\ Types' /\ Advances(w, j) /\ pc'[w][j] = l
      /\ payload'[w][j] = payload[w][j] /\ saw'[w][j] = saw[w][j]
  BY WriteStep
<1>2. \A i \in Job : KindOf(i)' = KindOf(i) /\ Started(i)' = Started(i)
  BY <1>1, AdvanceKeepsJobs
<1>3. Operated'
  BY <1>2 DEF Sound, Offers, Operated, jobVars, draftVars, Job
<1>4. ItemSynced'
  BY DEF Sound, Offers, ItemSynced, Synced, jobVars, draftVars
<1>5. ASSUME NEW x \in Worker, NEW i \in Job, KindOf(i) # KindOf(j), Started(i),
             RunHolds(pc[x][i], payload[x][i], saw[x][i], i),
             pc'[x][i] = pc[x][i], payload'[x][i] = payload[x][i], saw'[x][i] = saw[x][i]
      PROVE  RunHolds(pc[x][i], payload[x][i], saw[x][i], i)'
  <2>1. KindOf(i)' = KindOf(i)
    BY <1>2
  <2>2. KindOf(i) = "PREPARE" /\ Faithful => Faithful'
    <3> SUFFICES ASSUME KindOf(i) = "PREPARE", Faithful PROVE Faithful'
      OBVIOUS
    <3>1. i \in VersionJob
      <4>1. i \in Op => opKind[i] \in OpKinds
        BY <1>5 DEF Sound, Offers, Operated
      <4> QED BY <4>1, JobShape DEF OpKinds, Job
    <3>2. offer.version = version
      BY <1>5, <3>1, JobShape DEF Sound, Offers, Prepared
    <3> QED BY <1>5, <3>2 DEF Faithful
  <2>3. version' = version
    BY DEF draftVars
  <2> QED BY <1>5, <2>1, <2>2, <2>3 DEF RunHolds, OpKinds
<1>6. RunHolds(pc[w][j], payload[w][j], saw[w][j], j)'
  BY <1>1 DEF RunHolds
<1>7. Offers'
  BY <1>3, <1>4 DEF Offers
<1> QED BY <1>1, <1>5, <1>6, <1>7, AdvanceKeeps

LEMMA RowUntouched ==
    ASSUME Scope, Sound, NEW w \in Worker, NEW j \in Job, NEW l \in Label \ {"idle"},
           pc[w][j] \notin {"idle", "complete"}, Go(w, j, l), FitsKind(l, KindOf(j)),
           UNCHANGED <<env, draftVars, jobVars, alive, payload, saw, userVars>>,
           offer' \in OfferType
    PROVE  /\ \A i \in Job : Started(i)' = Started(i) /\ (Unfinished(i)' => Unfinished(i))
           /\ l = "complete" => ~Unfinished(j)'
           /\ \A v : Synced(v)' = Synced(v)
           /\ NoActiveOperation' = NoActiveOperation
<1>1. Types' /\ Advances(w, j) /\ pc'[w][j] = l
  BY WriteStep
<1>2. \A i \in Job : Started(i)' = Started(i) /\ (Unfinished(i)' => Unfinished(i))
  BY <1>1, AdvanceKeepsJobs
<1>3. l = "complete" => ~Unfinished(j)'
  BY <1>1 DEF Unfinished
<1> QED BY <1>2, <1>3 DEF Synced, NoActiveOperation, jobVars

LEMMA RememberOfferKeeps ==
    ASSUME Scope, Sound, NEW w \in Worker, NEW j \in Job, RememberOffer(w, j)
    PROVE  Sound'
<1>1. /\ pc[w][j] = "remember" /\ Go(w, j, "fees")
      /\ offer' = [offer EXCEPT !.remoteId = TRUE]
      /\ adopted' = (content # payload[w][j])
      /\ UNCHANGED <<env, draftVars, jobVars, mandate, item, listing, content, alive, payload,
                     saw, userVars>>
  BY DEF RememberOffer, At
<1>2. /\ KindOf(j) = "PREPARE" /\ KindOf(j)' = KindOf(j) /\ ~offer.remoteId
      /\ FitsKind("fees", KindOf(j))
  BY <1>1, RunFacts DEF FitsKind, KindOf, jobVars, RunHolds
<1>3. payload[w][j] = version /\ offer.version = version /\ version' = version
  BY <1>1, <1>2, PrepareFacts DEF Ends, draftVars
<1>4. /\ offer' \in OfferType /\ offer'.remoteId
      /\ offer'.status = offer.status /\ offer'.version = offer.version
      /\ offer'.approved = offer.approved /\ offer'.listed = offer.listed
  BY <1>1 DEF Sound, Types, OfferType
<1>5. /\ \A i \in Job : Started(i)' = Started(i) /\ (Unfinished(i)' => Unfinished(i))
      /\ \A v : Synced(v)' = Synced(v)
      /\ NoActiveOperation' = NoActiveOperation
  BY <1>1, <1>2, <1>4, RowUntouched DEF Label
<1>6. Faithful'
  BY <1>1, <1>3, <1>4 DEF Faithful
<1>7. Offered'
  BY <1>1, <1>2, <1>4, <1>5, <1>6 DEF Sound, Offers, Offered, Unrevised, Safe
<1>8. Prepared'
  BY <1>1, <1>3, <1>4, <1>5, VersionJobs DEF Sound, Offers, Prepared, Safe
<1>9. Published'
  BY <1>1, <1>3, <1>4, <1>5, VersionJobs DEF Sound, Offers, Published, Safe, jobVars
<1>10. Requested'
  <2> SUFFICES ASSUME NEW u \in User PROVE RequestHolds(u)'
    BY DEF Requested
  <2>1. version \in Version => (~Unfinished(<<"PUBLISH", version>>) => ~Unfinished(<<"PUBLISH", version>>)')
    BY <1>1, <1>3, <1>5, VersionJobs DEF Unfinished, Started
  <2>2. RequestHolds(u)
    BY DEF Sound, Offers, Requested
  <2> QED BY <1>1, <1>3, <1>4, <1>5, <2>1, <2>2 DEF RequestHolds, Safe, Synced, jobVars, userVars
<1>11. RunHolds("fees", payload[w][j], saw[w][j], j)'
  BY <1>1, <1>2, <1>3, <1>4, <1>6 DEF RunHolds, Ends
<1> QED BY <1>1, <1>2, <1>4, <1>7, <1>8, <1>9, <1>10, <1>11, RowStep DEF Label

LEMMA RecordFeesKeeps ==
    ASSUME Scope, Sound, NEW w \in Worker, NEW j \in Job, RecordFees(w, j)
    PROVE  Sound'
<1>1. /\ pc[w][j] = "record" /\ Go(w, j, "complete")
      /\ offer' = [offer EXCEPT !.status = "FEES_READY", !.fees = TRUE]
      /\ UNCHANGED <<env, draftVars, jobVars, mandate, item, listing, content, alive, payload,
                     saw, userVars>>
      /\ adopted' = adopted
  BY DEF RecordFees, At, remoteVars
<1>2. /\ KindOf(j) = "PREPARE" /\ KindOf(j)' = KindOf(j) /\ offer.remoteId /\ Faithful
      /\ FitsKind("complete", KindOf(j)) /\ Started(j)
  BY <1>1, RunFacts DEF FitsKind, KindOf, jobVars, RunHolds
<1>3. /\ offer.version = version /\ version' = version /\ j = <<"PREPARE", version>>
      /\ version \in Version
      /\ Safe => ~offer.approved /\ offer.status # "FEES_READY"
  BY <1>1, <1>2, PrepareFacts DEF Ends, draftVars
<1>4. /\ offer' \in OfferType /\ offer'.status = "FEES_READY" /\ offer'.version = offer.version
      /\ offer'.approved = offer.approved /\ offer'.listed = offer.listed
      /\ offer'.remoteId = offer.remoteId
  BY <1>1 DEF Sound, Types, OfferType
<1>5. /\ \A i \in Job : Started(i)' = Started(i) /\ (Unfinished(i)' => Unfinished(i))
      /\ ~Unfinished(j)' /\ \A v : Synced(v)' = Synced(v)
      /\ NoActiveOperation' = NoActiveOperation
  BY <1>1, <1>2, <1>4, RowUntouched DEF Label
<1>6. Offered'
  <2>1. Faithful'
    BY <1>1, <1>2, <1>4 DEF Faithful
  <2> QED BY <1>1, <1>2, <1>3, <1>4, <1>5, <2>1 DEF Sound, Offers, Offered, Unrevised, Safe
<1>7. \A v \in Version : Started(<<"PREPARE", v>>) => v = version
  BY VersionJobs DEF Sound, Jobs, Drafted
<1>8. Prepared'
  <2> SUFFICES ASSUME NEW v \in Version, Started(<<"PREPARE", v>>)'
               PROVE  offer'.version = version' /\ ~Unfinished(<<"PREPARE", v>>)'
    BY DEF Prepared, Unfinished
  <2>1. v = version
    BY <1>5, <1>7, VersionJobs
  <2> QED BY <1>3, <1>4, <1>5, <2>1
<1>9. Published'
  BY <1>1, <1>3, <1>4, <1>5, VersionJobs DEF Sound, Offers, Published, Safe, jobVars, Unfinished
<1>10. Requested'
  <2> SUFFICES ASSUME NEW u \in User PROVE RequestHolds(u)'
    BY DEF Requested
  <2>1. RequestHolds(u) /\ jobStatus[<<"PREPARE", version>>] \in Active
    BY <1>2, <1>3 DEF Sound, Offers, Requested, Started
  <2> QED BY <1>1, <1>3, <1>4, <1>5, <2>1 DEF RequestHolds, Safe, Synced, jobVars, userVars, Active
<1>11. RunHolds("complete", payload[w][j], saw[w][j], j)'
  BY <1>2 DEF RunHolds, Ends
<1> QED BY <1>1, <1>2, <1>4, <1>6, <1>8, <1>9, <1>10, <1>11, RowStep DEF Label

LEMMA RecordListingKeeps ==
    ASSUME Scope, Sound, NEW w \in Worker, NEW j \in Job, RecordListing(w, j)
    PROVE  Sound'
<1>1. /\ pc[w][j] = "published" /\ Go(w, j, "complete")
      /\ offer' = [offer EXCEPT !.status = "PUBLISHED", !.listed = TRUE]
      /\ UNCHANGED <<env, draftVars, jobVars, mandate, item, listing, content, alive, payload,
                     saw, userVars>>
      /\ adopted' = adopted
  BY DEF RecordListing, At
<1>2. /\ KindOf(j) = "PUBLISH" /\ KindOf(j)' = KindOf(j)
      /\ FitsKind("complete", KindOf(j)) /\ Started(j) /\ Unfinished(j)
  BY <1>1, RunFacts DEF FitsKind, KindOf, jobVars
<1>3. /\ j = <<"PUBLISH", version>> /\ offer.version = version /\ offer.approved
      /\ Synced(version) /\ Unrevised
      /\ Safe => offer.status = "PUBLISH_QUEUED" /\ ~offer.listed
  BY <1>1, <1>2, PublishFacts
<1>4. /\ offer' \in OfferType /\ offer'.status = "PUBLISHED" /\ offer'.version = offer.version
      /\ offer'.approved = offer.approved /\ offer'.listed
      /\ offer'.remoteId = offer.remoteId
  BY <1>1 DEF Sound, Types, OfferType, Live
<1>5. /\ \A i \in Job : Started(i)' = Started(i) /\ (Unfinished(i)' => Unfinished(i))
      /\ ~Unfinished(j)' /\ \A v : Synced(v)' = Synced(v)
      /\ NoActiveOperation' = NoActiveOperation
  BY <1>1, <1>2, <1>4, RowUntouched DEF Label
<1>6. Offered'
  <2>1. Unrevised' => Unrevised
    BY <1>3
  <2>2. Faithful' = Faithful
    BY <1>1, <1>4 DEF Faithful
  <2> QED BY <1>1, <1>3, <1>4, <1>5, <2>1, <2>2 DEF Sound, Offers, Offered, Safe, Live
<1>7. version' = version
  BY <1>1 DEF draftVars
<1>8. Prepared'
  BY <1>1, <1>4, <1>5, <1>7, VersionJobs DEF Sound, Offers, Prepared, Safe
<1>9. Published'
  <2> SUFFICES ASSUME NEW v \in Version
               PROVE  /\ Started(<<"PUBLISH", v>>)' => offer'.approved /\ offer'.version = version' /\ Synced(version)'
                      /\ ~Unfinished(<<"PUBLISH", v>>)'
    BY <1>4 DEF Published
  <2>1. Started(<<"PUBLISH", v>>)' => v = version
    BY <1>5, VersionJobs DEF Sound, Jobs, Drafted
  <2>2. ~Unfinished(<<"PUBLISH", v>>)'
    BY <1>3, <1>5, <2>1 DEF Unfinished
  <2> QED BY <1>3, <1>4, <1>5, <1>7, <2>2 DEF Synced
<1>10. Requested'
  <2> SUFFICES ASSUME NEW u \in User PROVE RequestHolds(u)'
    BY DEF Requested
  <2>1. RequestHolds(u)
    BY DEF Sound, Offers, Requested
  <2>2. Safe => asking[u] # "queuePublish"
    BY <1>2, <1>3, <2>1 DEF RequestHolds
  <2> QED BY <1>1, <1>3, <1>4, <1>5, <1>7, <2>1, <2>2
          DEF RequestHolds, Safe, Synced, jobVars, userVars
<1>11. RunHolds("complete", payload[w][j], saw[w][j], j)'
  BY <1>2, <1>4 DEF RunHolds, Ends
<1> QED BY <1>1, <1>2, <1>4, <1>6, <1>8, <1>9, <1>10, <1>11, RowStep DEF Label

(* The three records of an operation.                                         *)
LEMMA RecordKeeps ==
    ASSUME Scope, Sound, NEW w \in Worker, NEW j \in Job,
           RecordRevision(w, j) \/ RecordWithdrawal(w, j) \/ PersistReconciliation(w, j)
    PROVE  Sound'
<1>1. /\ pc[w][j] \in {"revised", "withdrawn", "reconciled"} /\ Go(w, j, "complete")
      /\ UNCHANGED <<env, draftVars, jobVars, mandate, item, listing, content, alive, payload,
                     saw, userVars>>
      /\ adopted' = adopted
  BY DEF RecordRevision, RecordWithdrawal, PersistReconciliation, At, remoteVars
<1>2. /\ KindOf(j) \in OpKinds /\ KindOf(j)' = KindOf(j) /\ FitsKind("complete", KindOf(j))
      /\ FitsKind(pc[w][j], KindOf(j)) /\ RunHolds(pc[w][j], payload[w][j], saw[w][j], j)
      /\ offer.listed /\ offer.approved /\ "operations" \in env /\ Safe
  <2>1. /\ KindOf(j)' = KindOf(j) /\ FitsKind("complete", KindOf(j))
        /\ FitsKind(pc[w][j], KindOf(j)) /\ RunHolds(pc[w][j], payload[w][j], saw[w][j], j)
    BY <1>1, RunFacts DEF FitsKind, KindOf, jobVars
  <2>2. KindOf(j) \in OpKinds
    BY <1>1, <2>1 DEF FitsKind, OpKinds
  <2> QED BY <1>1, <2>1, <2>2, RunFacts
<1>3. PICK s \in Live, v \in {offer.version, version}, d \in BOOLEAN :
          /\ offer' = [offer EXCEPT !.status = s, !.version = v, !.drift = d]
          /\ s = "WITHDRAWN" => listing # "active"
  <2>0. /\ offer \in OfferType /\ offer = [offer EXCEPT !.version = offer.version]
        /\ offer.version \in {offer.version, version}
    BY DEF Sound, Types, OfferType
  <2>1. CASE RecordRevision(w, j)
    <3>1. pc[w][j] = "revised" /\ payload[w][j] = version /\ saw[w][j].differs \in BOOLEAN
      BY <1>2, <2>1 DEF RecordRevision, At, FitsKind, RunHolds, Ends, Sound, Types, Snapshots
    <3> QED BY <2>1, <3>1 DEF RecordRevision, Live
  <2>2. CASE RecordWithdrawal(w, j)
    <3>1. pc[w][j] = "withdrawn" /\ listing # "active"
      BY <1>2, <2>2 DEF RecordWithdrawal, At, FitsKind, RunHolds
    <3>2. offer' = [offer EXCEPT !.status = "WITHDRAWN", !.version = offer.version, !.drift = FALSE]
      BY <2>0, <2>2 DEF RecordWithdrawal, OfferType
    <3> QED BY <3>1, <3>2 DEF Live
  <2>3. CASE PersistReconciliation(w, j)
    <3>1. /\ pc[w][j] = "reconciled" /\ saw[w][j].differs \in BOOLEAN
          /\ ~saw[w][j].active => listing # "active"
      BY <1>2, <2>3 DEF PersistReconciliation, At, FitsKind, RunHolds, Sound, Types, Snapshots
    <3>2. PICK t : t = ResolvedStatus(saw[w][j])
      OBVIOUS
    <3>3. t \in Live /\ (t = "WITHDRAWN" => listing # "active")
      BY <3>1, <3>2 DEF ResolvedStatus, Live
    <3>4. offer' = [offer EXCEPT !.status = t, !.version = offer.version,
                                 !.drift = saw[w][j].differs]
      BY <2>0, <2>3, <3>2 DEF PersistReconciliation, OfferType
    <3> QED BY <2>0, <3>1, <3>3, <3>4
  <2> QED BY <2>1, <2>2, <2>3
<1>4. /\ offer' \in OfferType /\ offer'.status = s /\ offer'.version \in {offer.version, version}
      /\ offer'.approved = offer.approved /\ offer'.listed = offer.listed
      /\ offer'.remoteId = offer.remoteId
  BY <1>3 DEF Sound, Types, OfferType
<1>5. /\ \A i \in Job : Started(i)' = Started(i) /\ (Unfinished(i)' => Unfinished(i))
      /\ \A v1 : Synced(v1)' = Synced(v1)
      /\ NoActiveOperation' = NoActiveOperation
  BY <1>1, <1>2, <1>4, RowUntouched DEF Label
<1>6. Offered'
  BY <1>1, <1>2, <1>3, <1>4, <1>5 DEF Offered, Unrevised, Safe
<1>7. version' = version
  BY <1>1 DEF draftVars
<1>8. Prepared'
  BY <1>1, <1>2, <1>4, <1>5, <1>7, VersionJobs DEF Sound, Offers, Prepared, Safe
<1>9. Published'
  BY <1>1, <1>2, <1>4, <1>5, <1>7, VersionJobs DEF Sound, Offers, Published, Safe, jobVars
<1>10. Requested'
  <2> SUFFICES ASSUME NEW u \in User PROVE RequestHolds(u)'
    BY DEF Requested
  <2>1. RequestHolds(u)
    BY DEF Sound, Offers, Requested
  <2>2. asking[u] # "queuePublish"
    BY <1>2, <2>1 DEF RequestHolds
  <2> QED BY <1>1, <1>2, <1>4, <1>5, <1>7, <2>1, <2>2 DEF RequestHolds, Safe, jobVars, userVars
<1>11. RunHolds("complete", payload[w][j], saw[w][j], j)'
  BY <1>2 DEF RunHolds, Ends, OpKinds
<1> QED BY <1>1, <1>2, <1>4, <1>6, <1>8, <1>9, <1>10, <1>11, RowStep DEF Label
-----------------------------------------------------------------------------
(* The end of a run.                                                          *)
LEMMA EndFacts ==
    ASSUME Scope, Sound, NEW w \in Worker, NEW j \in Job, NEW s \in {"COMPLETED", "FAILED"},
           pc[w][j] # "idle", Settle(w, j, s), EndRun(w, j), offer' \in OfferType,
           UNCHANGED <<env, draftVars, opKind, opTarget, alive, userVars>>
    PROVE  /\ Types' /\ Jobs'
           /\ jobStatus[j] = "RUNNING" /\ jobStatus'[j] = s
           /\ \A i \in Job : KindOf(i)' = KindOf(i) /\ (i # j => jobStatus'[i] = jobStatus[i])
           /\ \A i \in Job : Started(i)' <=> Started(i) /\ i # j
           /\ \A i \in Job : Unfinished(i)' => Unfinished(i) /\ i # j
           /\ \A x \in Worker, i \in Job : pc'[x][i] # "idle" =>
                 /\ pc'[x][i] = pc[x][i] /\ payload'[x][i] = payload[x][i]
                 /\ saw'[x][i] = saw[x][i] /\ i # j
<1>1. /\ jobStatus[j] = "RUNNING" /\ leaseOwner[j] = w
      /\ \A x \in Worker : pc[x][j] # "idle" => x = w
  BY RunFacts
<1>2. /\ jobStatus' = [jobStatus EXCEPT ![j] = s]
      /\ leaseOwner' = [leaseOwner EXCEPT ![j] = NoWorker]
  BY <1>1 DEF Settle, Owns
<1>3. /\ jobStatus' \in [Job -> {"none", "QUEUED", "RUNNING", "COMPLETED", "FAILED"}]
      /\ leaseOwner' \in [Job -> Worker \cup {NoWorker}]
      /\ jobStatus'[j] = s
      /\ \A i \in Job : i # j => jobStatus'[i] = jobStatus[i] /\ leaseOwner'[i] = leaseOwner[i]
  BY <1>2 DEF Sound, Types
<1>4. /\ pc' \in [Worker -> [Job -> Label]] /\ pc'[w][j] = "idle"
      /\ \A x \in Worker, i \in Job : x # w \/ i # j => pc'[x][i] = pc[x][i]
  BY GoMoves DEF Sound, EndRun, Label
<1>5. /\ payload' \in [Worker -> [Job -> 0 .. MaxVersion]]
      /\ \A x \in Worker, i \in Job : x # w \/ i # j => payload'[x][i] = payload[x][i]
  BY PublicationAssumption DEF Sound, Types, EndRun
<1>6. /\ saw' \in [Worker -> [Job -> Snapshots]]
      /\ \A x \in Worker, i \in Job : x # w \/ i # j => saw'[x][i] = saw[x][i]
  <2>1. Unseen \in Snapshots
    BY DEF Unseen, Snapshots
  <2> QED BY <2>1 DEF Sound, Types, EndRun, See
<1>7. Types'
  BY <1>3, <1>4, <1>5, <1>6 DEF Sound, Types, OfferType, draftVars, userVars
<1>8. \A i \in Job : KindOf(i)' = KindOf(i)
  BY DEF KindOf
<1>9. \A i \in Job : Started(i)' <=> Started(i) /\ i # j
  BY <1>3 DEF Started, Active
<1>10. \A x \in Worker, i \in Job : pc'[x][i] # "idle" =>
          /\ pc'[x][i] = pc[x][i] /\ payload'[x][i] = payload[x][i]
          /\ saw'[x][i] = saw[x][i] /\ i # j
  BY <1>1, <1>4, <1>5, <1>6
<1>11. \A i \in Job : Unfinished(i)' => Unfinished(i) /\ i # j
  BY <1>1, <1>4, <1>9 DEF Unfinished
<1>12. Owned'
  BY <1>3, <1>10 DEF Sound, Jobs, Owned, Owns
<1>13. Tended'
  BY <1>3 DEF Sound, Jobs, Tended, Safe
<1>14. Placed'
  BY <1>8, <1>10 DEF Sound, Jobs, Placed, FitsKind
<1>15. Drafted'
  BY <1>1, <1>3, <1>9 DEF Sound, Jobs, Drafted, draftVars, Job
<1> QED BY <1>1, <1>3, <1>7, <1>8, <1>9, <1>10, <1>11, <1>12, <1>13, <1>14, <1>15 DEF Jobs

LEMMA EndKeeps ==
    ASSUME Scope, Sound, NEW w \in Worker, NEW j \in Job, NEW s \in {"COMPLETED", "FAILED"},
           pc[w][j] # "idle", Settle(w, j, s), EndRun(w, j),
           UNCHANGED <<env, draftVars, opKind, opTarget, mandate, remoteVars, alive, userVars>>,
           NEW k, offer' = [offer EXCEPT !.status = k], offer' \in OfferType,
           s = "COMPLETED" => pc[w][j] = "complete" /\ k = offer.status,
           s = "FAILED" => pc[w][j] # "complete",
           s = "FAILED" /\ KindOf(j) = "PREPARE" => k = "FAILED",
           \/ k = offer.status
           \/ s = "FAILED" /\ KindOf(j) = "PREPARE"
           \/ s = "FAILED" /\ KindOf(j) = "PUBLISH" /\ k = "FEES_READY"
           \/ KindOf(j) \in OpKinds /\ k \in {"PUBLISHED", "DRIFTED"}
    PROVE  Sound'
<1>1. /\ Types' /\ Jobs'
      /\ jobStatus[j] = "RUNNING" /\ jobStatus'[j] = s
      /\ \A i \in Job : KindOf(i)' = KindOf(i) /\ (i # j => jobStatus'[i] = jobStatus[i])
      /\ \A i \in Job : Started(i)' <=> Started(i) /\ i # j
      /\ \A i \in Job : Unfinished(i)' => Unfinished(i) /\ i # j
  BY EndFacts
<1>2. /\ offer'.status = k /\ offer'.version = offer.version /\ offer'.approved = offer.approved
      /\ offer'.listed = offer.listed /\ offer'.remoteId = offer.remoteId
      /\ version' = version
  BY DEF Sound, Types, OfferType, draftVars
<1>3. /\ Started(j) /\ (pc[w][j] # "complete" => Unfinished(j))
      /\ RunHolds(pc[w][j], payload[w][j], saw[w][j], j) /\ KindOf(j) \in Kinds
      /\ KindOf(j) \notin OpKinds =>
            j = <<KindOf(j), version>> /\ j \in VersionJob /\ version \in Version
      /\ KindOf(j) \in OpKinds => j \in Op /\ offer.listed /\ offer.approved /\ Safe /\ "operations" \in env
  BY RunFacts
<1>4. /\ KindOf(j) = "PREPARE" /\ Safe /\ s = "FAILED" => ~offer.approved
      /\ KindOf(j) = "PUBLISH" /\ s = "FAILED" =>
            /\ offer.approved /\ j = <<"PUBLISH", version>> /\ Unfinished(j)
            /\ (Safe => ~offer.listed)
  BY <1>3, PrepareFacts, PublishFacts DEF OpKinds
<1>5. Operated'
  BY <1>1, <1>2 DEF Sound, Offers, Operated, Job
<1>6. Offered'
  <2>1. Faithful' = Faithful
    BY <1>2 DEF Faithful, remoteVars
  <2> QED BY <1>2, <1>3, <1>4, <2>1
          DEF Sound, Offers, Offered, Unrevised, Safe, userVars, remoteVars, Live
<1>7. \A v : Synced(v) => Synced(v)'
  <2> SUFFICES ASSUME NEW v, v \in Version, jobStatus[<<"SYNC", v>>] = "COMPLETED"
               PROVE  jobStatus'[<<"SYNC", v>>] = "COMPLETED"
    BY DEF Synced
  <2> QED BY <1>1, VersionJobs
<1>8. ItemSynced'
  <2> SUFFICES ASSUME version \in Version, jobStatus'[<<"SYNC", version>>] = "COMPLETED"
               PROVE  item = version
    BY <1>2 DEF ItemSynced, Synced, remoteVars
  <2>1. CASE j = <<"SYNC", version>>
    <3>1. KindOf(j) = "SYNC"
      BY <2>1, VersionJobs, JobShape
    <3> QED BY <1>1, <1>3, <2>1, <3>1 DEF RunHolds
  <2>2. CASE j # <<"SYNC", version>>
    BY <1>1, <2>2, VersionJobs DEF Sound, Offers, ItemSynced, Synced
  <2> QED BY <2>1, <2>2
<1>9. Prepared'
  <2>1. \A v \in Version : Started(<<"PREPARE", v>>)' => Started(<<"PREPARE", v>>)
    BY <1>1, VersionJobs
  <2>2. \A v \in Version : Unfinished(<<"PREPARE", v>>)' => Unfinished(<<"PREPARE", v>>)
    BY <1>1, VersionJobs
  <2>3. ~offer.approved /\ offer.status # "FEES_READY" => k # "FEES_READY" \/ ~Safe
    BY <1>3, <1>4
  <2> QED BY <1>2, <2>1, <2>2, <2>3 DEF Sound, Offers, Prepared, Safe
<1>10. Published'
  <2> SUFFICES ASSUME NEW v \in Version
               PROVE  /\ Started(<<"PUBLISH", v>>)' =>
                            offer.approved /\ offer.version = version /\ Synced(version)
                      /\ Safe /\ Unfinished(<<"PUBLISH", v>>)' => k = "PUBLISH_QUEUED" /\ ~offer.listed
                      /\ jobStatus'[<<"PUBLISH", v>>] = "COMPLETED" => offer.listed
    BY <1>2, <1>7 DEF Published, Safe
  <2>1. /\ Started(<<"PUBLISH", v>>)' => Started(<<"PUBLISH", v>>) /\ v = version
        /\ Unfinished(<<"PUBLISH", v>>)' => Unfinished(<<"PUBLISH", v>>) /\ j # <<"PUBLISH", v>>
                                             /\ Started(<<"PUBLISH", v>>)
    BY <1>1, VersionJobs DEF Sound, Jobs, Drafted, Unfinished
  <2>2. jobStatus'[<<"PUBLISH", v>>] = "COMPLETED" => offer.listed
    <3>1. CASE j = <<"PUBLISH", v>>
      <4>1. KindOf(j) = "PUBLISH"
        BY <3>1, VersionJobs, JobShape
      <4> QED BY <1>1, <1>3, <3>1, <4>1 DEF RunHolds
    <3>2. CASE j # <<"PUBLISH", v>>
      BY <1>1, <3>2, VersionJobs DEF Sound, Offers, Published
    <3> QED BY <3>1, <3>2
  <2>3. ASSUME Safe, Unfinished(<<"PUBLISH", v>>)' PROVE k = "PUBLISH_QUEUED" /\ ~offer.listed
    <3>1. /\ offer.status = "PUBLISH_QUEUED" /\ ~offer.listed /\ offer.approved
          /\ j # <<"PUBLISH", version>>
      BY <2>1, <2>3, <1>1, VersionJobs DEF Sound, Offers, Published, Jobs, Drafted
    <3> QED BY <1>3, <1>4, <2>3, <3>1
  <2> QED BY <2>1, <2>2, <2>3 DEF Sound, Offers, Published
<1>11. Requested'
  <2> SUFFICES ASSUME NEW u \in User PROVE RequestHolds(u)'
    BY DEF Requested
  <2>1. RequestHolds(u)
    BY DEF Sound, Offers, Requested
  <2>2. version \in Version => (~Unfinished(<<"PUBLISH", version>>) => ~Unfinished(<<"PUBLISH", version>>)')
    BY <1>1, <1>2, VersionJobs DEF Unfinished, Started
  <2>3. ASSUME asking[u] = "queuePrepare", Safe,
               jobStatus'[<<"PREPARE", version>>] \in {"none", "FAILED"}
        PROVE  ~offer.approved /\ k # "FEES_READY"
    <3>1. version \in Version
      BY <2>1, <2>3 DEF RequestHolds
    <3>2. CASE j = <<"PREPARE", version>>
      <4>1. KindOf(j) = "PREPARE" /\ s = "FAILED"
        BY <1>1, <2>3, <3>1, <3>2, VersionJobs, JobShape
      <4> QED BY <1>4, <2>3, <4>1
    <3>3. CASE j # <<"PREPARE", version>>
      <4>1. ~offer.approved /\ offer.status # "FEES_READY"
        BY <1>1, <2>1, <2>3, <3>1, <3>3, VersionJobs DEF RequestHolds
      <4>2. KindOf(j) # "PREPARE"
        BY <1>3, <3>3 DEF OpKinds
      <4> QED BY <1>3, <1>4, <4>1, <4>2
    <3> QED BY <3>2, <3>3
  <2>4. asking[u] = "queuePublish" /\ Safe => k = "PUBLISH_QUEUED"
    BY <1>3, <1>4, <2>1 DEF RequestHolds
  <2> QED BY <1>2, <1>7, <2>1, <2>2, <2>3, <2>4 DEF RequestHolds, Safe, userVars
<1>12. Running'
  <2> SUFFICES ASSUME NEW x \in Worker, NEW i \in Job, pc'[x][i] # "idle"
               PROVE  RunHolds(pc[x][i], payload[x][i], saw[x][i], i)'
    BY DEF Running
  <2>1. /\ pc'[x][i] = pc[x][i] /\ payload'[x][i] = payload[x][i] /\ saw'[x][i] = saw[x][i]
        /\ KindOf(i)' = KindOf(i)
    BY <1>1, EndFacts
  <2>2. RunHolds(pc[x][i], payload[x][i], saw[x][i], i)
    BY <2>1, RunFacts
  <2> QED BY <1>2, <2>1, <2>2 DEF RunHolds, Faithful, remoteVars
<1> QED BY <1>1, <1>5, <1>6, <1>8, <1>9, <1>10, <1>11, <1>12 DEF Sound, Offers

LEMMA CompleteKeeps ==
    ASSUME Scope, Sound, NEW w \in Worker, NEW j \in Job, Complete(w, j)
    PROVE  Sound'
<1>1. /\ pc[w][j] = "complete" /\ Settle(w, j, "COMPLETED") /\ EndRun(w, j) /\ offer' = offer
      /\ UNCHANGED <<env, draftVars, opKind, opTarget, mandate, remoteVars, alive, userVars>>
  BY DEF Complete, At
<1>2. offer \in OfferType /\ offer' = [offer EXCEPT !.status = offer.status]
  BY <1>1 DEF Sound, Types, OfferType
<1> QED BY <1>1, <1>2, EndKeeps

LEMMA FailKeeps ==
    ASSUME Scope, Sound, NEW w \in Worker, NEW j \in Job, Fail(w, j)
    PROVE  Sound'
<1> DEFINE k == StatusAfterFailure(j)
<1>1. /\ pc[w][j] = "catch" /\ Settle(w, j, "FAILED") /\ EndRun(w, j)
      /\ offer' = [offer EXCEPT !.status = k]
      /\ UNCHANGED <<env, draftVars, opKind, opTarget, mandate, remoteVars, alive, userVars>>
  BY DEF Fail, At
<1>2. /\ KindOf(j) = "PREPARE" => k = "FAILED"
      /\ \/ k = offer.status
         \/ KindOf(j) = "PREPARE"
         \/ KindOf(j) = "PUBLISH" /\ k = "FEES_READY"
         \/ KindOf(j) \in OpKinds /\ k \in {"PUBLISHED", "DRIFTED"}
  BY DEF StatusAfterFailure, OpKinds
<1>3. offer' \in OfferType
  BY <1>1, <1>2 DEF Sound, Types, OfferType, Live
<1> HIDE DEF k
<1> QED BY <1>1, <1>2, <1>3, EndKeeps
-----------------------------------------------------------------------------
(* Jobs that get or lose a worker: which jobs are at work does not change.    *)
LEMMA WorkersKeepOffers ==
    ASSUME Scope, Sound,
           \A i \in Job : jobStatus'[i] = jobStatus[i] \/ {jobStatus[i], jobStatus'[i]} \subseteq Active,
           \A i \in Job : Safe => (Unfinished(i)' => Unfinished(i)),
           UNCHANGED <<env, draftVars, offer, opKind, opTarget, mandate, remoteVars, userVars>>
    PROVE  Offers' /\ Drafted' /\ \A i \in Job : KindOf(i)' = KindOf(i)
<1>1. \A i \in Job : Started(i)' = Started(i)
  BY DEF Started
<1>2. \A v : Synced(v)' = Synced(v)
  <2> SUFFICES ASSUME NEW v \in Version
               PROVE  (jobStatus'[<<"SYNC", v>>] = "COMPLETED") <=> (jobStatus[<<"SYNC", v>>] = "COMPLETED")
    BY DEF Synced
  <2> QED BY VersionJobs DEF Active
<1>3. Operated'
  BY <1>1 DEF Sound, Offers, Operated, Job, draftVars
<1>4. Offered'
  BY DEF Sound, Offers, Offered, Unrevised, Faithful, Safe, userVars, remoteVars
<1>5. ItemSynced'
  BY <1>2 DEF Sound, Offers, ItemSynced, draftVars, remoteVars
<1>6. Drafted'
  BY <1>1 DEF Sound, Jobs, Drafted, draftVars, Active, Job
<1>7. Prepared'
  BY <1>1, VersionJobs DEF Sound, Offers, Prepared, Safe, draftVars, userVars
<1>8. Published'
  BY <1>1, <1>2, VersionJobs DEF Sound, Offers, Published, Safe, draftVars, Active
<1>9. Requested'
  <2> SUFFICES ASSUME NEW u \in User PROVE RequestHolds(u)'
    BY DEF Requested
  <2>1. RequestHolds(u)
    BY DEF Sound, Offers, Requested
  <2>2. version' = version
    BY DEF draftVars
  <2>3. version \in Version /\ Safe =>
            (~Unfinished(<<"PUBLISH", version>>) => ~Unfinished(<<"PUBLISH", version>>)')
    BY <2>2, VersionJobs DEF Unfinished, Started
  <2>4. version \in Version => (jobStatus'[<<"PREPARE", version>>] \in {"none", "FAILED"} =>
                                    jobStatus'[<<"PREPARE", version>>] = jobStatus[<<"PREPARE", version>>])
    BY VersionJobs DEF Active
  <2>5. NoActiveOperation => NoActiveOperation'
    BY <1>1 DEF NoActiveOperation, Started, Job
  <2> QED BY <1>2, <2>1, <2>2, <2>3, <2>4, <2>5 DEF RequestHolds, Safe, userVars
<1> QED BY <1>3, <1>4, <1>5, <1>6, <1>7, <1>8, <1>9 DEF Offers, KindOf

LEMMA ClaimKeeps ==
    ASSUME Scope, Sound, NEW w \in Worker, NEW j \in Job, Claim(w, j)
    PROVE  Sound'
<1>1. /\ w \in alive /\ jobStatus[j] = "QUEUED"
      /\ UNCHANGED <<env, draftVars, offer, opKind, opTarget, mandate, remoteVars, alive, payload,
                     saw, userVars>>
  BY DEF Claim
<1>2. /\ jobStatus' \in [Job -> {"none", "QUEUED", "RUNNING", "COMPLETED", "FAILED"}]
      /\ leaseOwner' \in [Job -> Worker \cup {NoWorker}]
      /\ jobStatus'[j] = "RUNNING" /\ leaseOwner'[j] = w
      /\ \A i \in Job : i # j => jobStatus'[i] = jobStatus[i] /\ leaseOwner'[i] = leaseOwner[i]
  BY DEF Claim, Sound, Types
<1>3. /\ pc' \in [Worker -> [Job -> Label]] /\ pc'[w][j] = "load"
      /\ \A x \in Worker, i \in Job : x # w \/ i # j => pc'[x][i] = pc[x][i]
  BY DEF Claim, Sound, Types, Label
<1>4. \A x \in Worker : pc[x][j] = "idle"
  BY <1>1, RunFacts
<1>5. Types'
  BY <1>1, <1>2, <1>3 DEF Sound, Types, draftVars, userVars
<1>6. \A i \in Job : Unfinished(i)' => Unfinished(i)
  BY <1>1, <1>2, <1>3, <1>4 DEF Unfinished, Started, Active
<1>7. Offers' /\ Drafted' /\ \A i \in Job : KindOf(i)' = KindOf(i)
  BY <1>1, <1>2, <1>6, WorkersKeepOffers DEF Active
<1>8. Owned'
  BY <1>1, <1>2, <1>3, <1>4 DEF Sound, Jobs, Owned, Owns
<1>9. Tended'
  BY <1>1, <1>2 DEF Sound, Jobs, Tended, Safe
<1>10. Placed'
  BY <1>3, <1>7 DEF Sound, Jobs, Placed, FitsKind
<1>11. Running'
  <2> SUFFICES ASSUME NEW x \in Worker, NEW i \in Job, pc'[x][i] # "idle"
               PROVE  RunHolds(pc[x][i], payload[x][i], saw[x][i], i)'
    BY DEF Running
  <2>1. CASE x = w /\ i = j
    BY <1>3, <2>1 DEF RunHolds, Ends
  <2>2. CASE x # w \/ i # j
    <3>1. pc'[x][i] = pc[x][i] /\ RunHolds(pc[x][i], payload[x][i], saw[x][i], i)
      BY <1>3, <2>2, RunFacts
    <3> QED BY <1>1, <1>7, <3>1 DEF RunHolds, Faithful, remoteVars, draftVars
  <2> QED BY <2>1, <2>2
<1> QED BY <1>5, <1>7, <1>8, <1>9, <1>10, <1>11 DEF Sound, Jobs

LEMMA ReclaimKeeps ==
    ASSUME Scope, Sound, NEW w \in Worker, NEW j \in Job, Reclaim(w, j)
    PROVE  Sound'
<1>1. /\ jobStatus[j] = "RUNNING" /\ leaseOwner[j] \notin alive
      /\ UNCHANGED <<env, draftVars, offer, opKind, opTarget, mandate, remoteVars, alive, pc,
                     payload, saw, userVars>>
  BY DEF Reclaim, Reclaimable, runVars
<1>2. /\ jobStatus' \in [Job -> {"none", "QUEUED", "RUNNING", "COMPLETED", "FAILED"}]
      /\ leaseOwner' \in [Job -> Worker \cup {NoWorker}]
      /\ jobStatus'[j] = "QUEUED"
      /\ \A i \in Job : i # j => jobStatus'[i] = jobStatus[i] /\ leaseOwner'[i] = leaseOwner[i]
  BY DEF Reclaim, Sound, Types
<1>3. ~Safe
  BY <1>1 DEF Sound, Jobs, Tended
<1>4. \A x \in Worker : pc[x][j] = "idle"
  BY <1>1, RunFacts
<1>5. Types'
  BY <1>1, <1>2 DEF Sound, Types, draftVars, userVars
<1>6. Offers' /\ Drafted' /\ \A i \in Job : KindOf(i)' = KindOf(i)
  BY <1>1, <1>2, <1>3, WorkersKeepOffers DEF Active
<1>7. Owned'
  BY <1>1, <1>2, <1>4 DEF Sound, Jobs, Owned, Owns
<1>8. Tended'
  BY <1>1, <1>3 DEF Tended, Safe
<1>9. Placed'
  BY <1>1, <1>6 DEF Sound, Jobs, Placed, FitsKind
<1>10. Running'
  BY <1>1, <1>6 DEF Sound, Running, RunHolds, Faithful, remoteVars, draftVars
<1> QED BY <1>5, <1>6, <1>7, <1>8, <1>9, <1>10 DEF Sound, Jobs

LEMMA DieKeeps ==
    ASSUME Scope, Sound, NEW w \in Worker, Die(w)
    PROVE  Sound'
<1>1. /\ ~Safe /\ alive' = alive \ {w}
      /\ UNCHANGED <<env, draftVars, offer, jobStatus, leaseOwner, opKind, opTarget, mandate,
                     remoteVars, userVars>>
  BY DEF Die, Safe, jobVars
<1>2. /\ pc' \in [Worker -> [Job -> Label]] /\ \A i \in Job : pc'[w][i] = "idle"
      /\ \A x \in Worker : x # w => pc'[x] = pc[x]
  BY DEF Die, Sound, Types, Label
<1>3. /\ payload' \in [Worker -> [Job -> 0 .. MaxVersion]]
      /\ \A x \in Worker : x # w => payload'[x] = payload[x]
  <2>1. [i \in Job |-> 0] \in [Job -> 0 .. MaxVersion]
    BY PublicationAssumption
  <2> QED BY <2>1 DEF Die, Sound, Types
<1>4. /\ saw' \in [Worker -> [Job -> Snapshots]]
      /\ \A x \in Worker : x # w => saw'[x] = saw[x]
  <2>1. [i \in Job |-> Unseen] \in [Job -> Snapshots]
    BY DEF Unseen, Snapshots
  <2> QED BY <2>1 DEF Die, Sound, Types
<1>5. Types'
  BY <1>1, <1>2, <1>3, <1>4 DEF Sound, Types, draftVars, userVars
<1>6. Offers' /\ Drafted' /\ \A i \in Job : KindOf(i)' = KindOf(i)
  BY <1>1, WorkersKeepOffers
<1>7. \A x \in Worker, i \in Job : pc'[x][i] # "idle" =>
          /\ x # w /\ pc'[x][i] = pc[x][i] /\ payload'[x][i] = payload[x][i]
          /\ saw'[x][i] = saw[x][i]
  BY <1>2, <1>3, <1>4
<1>8. Owned'
  BY <1>1, <1>7 DEF Sound, Jobs, Owned, Owns
<1>9. Tended'
  BY <1>1 DEF Tended, Safe
<1>10. Placed'
  BY <1>6, <1>7 DEF Sound, Jobs, Placed, FitsKind
<1>11. Running'
  <2> SUFFICES ASSUME NEW x \in Worker, NEW i \in Job, pc'[x][i] # "idle"
               PROVE  RunHolds(pc[x][i], payload[x][i], saw[x][i], i)'
    BY DEF Running
  <2>1. RunHolds(pc[x][i], payload[x][i], saw[x][i], i)
    BY <1>7, RunFacts
  <2> QED BY <1>1, <1>6, <1>7, <2>1 DEF RunHolds, Faithful, remoteVars, draftVars
<1> QED BY <1>5, <1>6, <1>8, <1>9, <1>10, <1>11 DEF Sound, Jobs

-----------------------------------------------------------------------------
(* The draft, and the seller on eBay.                                         *)
LEMMA OutsiderKeeps ==
    ASSUME Scope, Sound, Outsider
    PROVE  Sound'
<1>1. /\ listing = "active" /\ listing' \in {"active", "unpublished"}
      /\ content' \in {content, Foreign}
      /\ UNCHANGED <<env, draftVars, offer, jobVars, mandate, item, adopted, alive, runVars, userVars>>
  BY DEF Outsider
<1>2. /\ \A i \in Job : KindOf(i)' = KindOf(i) /\ Started(i)' = Started(i)
      /\ \A i \in Job : Unfinished(i)' = Unfinished(i)
      /\ \A v : Synced(v)' = Synced(v)
  BY <1>1 DEF KindOf, Started, Unfinished, Synced, jobVars, runVars
<1>3. Types'
  BY <1>1 DEF Sound, Types, draftVars, jobVars, runVars, userVars
<1>4. Jobs'
  <2>1. Owned' /\ Tended'
    BY <1>1 DEF Sound, Jobs, Owned, Owns, Tended, Safe, jobVars, runVars
  <2>2. Placed'
    BY <1>1, <1>2 DEF Sound, Jobs, Placed, FitsKind, runVars
  <2>3. Drafted'
    BY <1>1, <1>2 DEF Sound, Jobs, Drafted, jobVars, draftVars, Job
  <2> QED BY <2>1, <2>2, <2>3 DEF Jobs
<1>5. Faithful => Faithful'
  BY <1>1 DEF Faithful
<1>6. Offers'
  <2>1. Operated'
    BY <1>1, <1>2 DEF Sound, Offers, Operated, jobVars, draftVars, Job
  <2>2. Offered'
    BY <1>1, <1>5 DEF Sound, Offers, Offered, Unrevised, Safe, userVars
  <2>3. ItemSynced'
    BY <1>1, <1>2 DEF Sound, Offers, ItemSynced, draftVars
  <2>4. Prepared'
    BY <1>1, <1>2, VersionJobs DEF Sound, Offers, Prepared, Safe, userVars, draftVars
  <2>5. Published'
    BY <1>1, <1>2, VersionJobs DEF Sound, Offers, Published, Safe, jobVars, draftVars
  <2>6. Requested'
    <3> SUFFICES ASSUME NEW u \in User PROVE RequestHolds(u)'
      BY DEF Requested
    <3>1. RequestHolds(u)
      BY DEF Sound, Offers, Requested
    <3> QED BY <1>1, <1>2, <3>1 DEF RequestHolds, Safe, NoActiveOperation, Unfinished, Started,
                 jobVars, draftVars, userVars, runVars
  <2> QED BY <2>1, <2>2, <2>3, <2>4, <2>5, <2>6 DEF Offers
<1>7. Running'
  <2> SUFFICES ASSUME NEW x \in Worker, NEW i \in Job, pc[x][i] # "idle"
               PROVE  RunHolds(pc[x][i], payload[x][i], saw[x][i], i)'
    BY <1>1 DEF Running, runVars
  <2>1. RunHolds(pc[x][i], payload[x][i], saw[x][i], i)
    BY RunFacts
  <2> QED BY <1>1, <1>2, <1>5, <2>1 DEF RunHolds, runVars, draftVars
<1> QED BY <1>3, <1>4, <1>6, <1>7 DEF Sound

LEMMA EditKeeps ==
    ASSUME Scope, Sound, EditListingDraft
    PROVE  Sound'
<1>1. /\ ready' = FALSE
      /\ UNCHANGED <<env, version, offer, jobVars, mandate, remoteVars, alive, runVars, userVars>>
  BY DEF EditListingDraft
<1>2. \A i \in Job : KindOf(i)' = KindOf(i) /\ Started(i)' = Started(i)
  BY <1>1 DEF KindOf, Started, jobVars
<1>3. Types'
  BY <1>1 DEF Sound, Types, jobVars, runVars, userVars
<1>4. Jobs'
  <2>1. Owned' /\ Tended'
    BY <1>1 DEF Sound, Jobs, Owned, Owns, Tended, Safe, jobVars, runVars
  <2>2. Placed'
    BY <1>1, <1>2 DEF Sound, Jobs, Placed, FitsKind, runVars
  <2>3. Drafted'
    BY <1>1, <1>2 DEF Sound, Jobs, Drafted, jobVars, Job
  <2> QED BY <2>1, <2>2, <2>3 DEF Jobs
<1>5. Operated'
  BY <1>1, <1>2 DEF Sound, Offers, Operated, jobVars, Job
<1>6. /\ Offered' = Offered /\ ItemSynced' = ItemSynced /\ Prepared' = Prepared
      /\ Published' = Published
  BY <1>1 DEF Offered, Unrevised, Faithful, Safe, ItemSynced, Synced, Prepared, Published,
       Unfinished, Started, jobVars, remoteVars, runVars, userVars
<1>7. Requested' = Requested
  BY <1>1 DEF Requested, RequestHolds, Safe, Synced, NoActiveOperation, Unfinished, Started,
       jobVars, runVars, userVars
<1>8. Running' = Running
  BY <1>1 DEF Running, RunHolds, KindOf, Faithful, jobVars, remoteVars, runVars
<1> QED BY <1>3, <1>4, <1>5, <1>6, <1>7, <1>8 DEF Sound, Offers

(* Nothing is at work when a new version is made.                             *)
LEMMA ValidateKeeps ==
    ASSUME Scope, Sound, ValidateListingDraftLive
    PROVE  Sound'
<1>1. /\ \A i \in Job : ~Started(i)
      /\ \A u \in User : asking[u] = "idle"
      /\ version' = version + 1 /\ version' <= MaxVersion /\ ready'
      /\ UNCHANGED <<env, offer, jobVars, mandate, remoteVars, alive, runVars, userVars>>
  BY PublicationAssumption
     DEF ValidateListingDraftLive, MayEdit, Scope, Started, Sound, Types
<1>2. \A i \in Job : ~Started(i)'
  BY <1>1 DEF Started, jobVars
<1>3. \A x \in Worker, i \in Job : pc'[x][i] = "idle"
  BY <1>1, RunFacts DEF runVars, Sound, Types
<1>4. Types'
  BY <1>1 DEF Sound, Types, jobVars, runVars, userVars
<1>5. Jobs'
  <2>1. Owned' /\ Placed'
    BY <1>3 DEF Owned, Placed
  <2>2. Tended'
    BY <1>1 DEF Sound, Jobs, Tended, Safe, jobVars
  <2>3. Drafted'
    BY <1>1, <1>2, <1>4 DEF Sound, Jobs, Drafted, jobVars, Job, VersionJob, Version, Types
  <2> QED BY <2>1, <2>2, <2>3 DEF Jobs
<1>6. Operated'
  BY <1>2 DEF Operated, Job
<1>7. Offered'
  BY <1>1 DEF Sound, Offers, Offered, Unrevised, Faithful, Safe, userVars, remoteVars
<1>8. ItemSynced'
  <2>1. version' \in Version => jobStatus[<<"SYNC", version'>>] = "none"
    BY <1>1, VersionJobs DEF Sound, Types, Jobs, Drafted
  <2> QED BY <1>1, <2>1 DEF ItemSynced, Synced, jobVars
<1>9. Prepared'
  BY <1>2, VersionJobs DEF Prepared, Unfinished
<1>10. Published'
  BY <1>1, <1>2, VersionJobs DEF Sound, Offers, Published, Unfinished, jobVars
<1>11. Requested'
  BY <1>1 DEF Requested, RequestHolds, userVars, OpKinds
<1>12. Running'
  BY <1>3 DEF Running
<1> QED BY <1>4, <1>5, <1>6, <1>7, <1>8, <1>9, <1>10, <1>11, <1>12 DEF Sound, Offers
-----------------------------------------------------------------------------
(* Requests that queue a job of the current version.                          *)
RequestTypes == asking \in [User -> Requests] /\ asked \in [User -> 0 .. MaxVersion]

LEMMA QueueFacts ==
    ASSUME Scope, Sound, NEW k \in {"STAGE", "SYNC", "PREPARE", "PUBLISH"}, version \in Version,
           NEW j, j = <<k, version>>, Queue(j), RequestTypes',
           UNCHANGED <<env, draftVars, offer, leaseOwner, opKind, opTarget, mandate, remoteVars,
                       alive, runVars>>
    PROVE  /\ Types' /\ Jobs' /\ Operated' /\ ItemSynced' /\ Running'
           /\ \A i \in Job : i # j => jobStatus'[i] = jobStatus[i]
           /\ jobStatus[j] \in {"none", "FAILED"} => jobStatus'[j] = "QUEUED"
           /\ jobStatus[j] \notin {"none", "FAILED"} => jobStatus'[j] = jobStatus[j]
           /\ \A i \in Job : i # j => (Started(i)' = Started(i) /\ Unfinished(i)' = Unfinished(i))
           /\ NoActiveOperation' = NoActiveOperation
           /\ \A v : Synced(v)' = Synced(v)
<1>1. /\ j \in VersionJob /\ j \in Job /\ j \notin Op /\ j[1] = k /\ j[2] = version
  BY VersionJobs
<1>2. /\ jobStatus' \in [Job -> {"none", "QUEUED", "RUNNING", "COMPLETED", "FAILED"}]
      /\ \A i \in Job : i # j => jobStatus'[i] = jobStatus[i]
      /\ jobStatus[j] \in {"none", "FAILED"} => jobStatus'[j] = "QUEUED"
      /\ jobStatus[j] \notin {"none", "FAILED"} => jobStatus'[j] = jobStatus[j]
  BY <1>1 DEF Queue, Sound, Types
<1>3. \A i \in Job : i # j => Started(i)' = Started(i) /\ Unfinished(i)' = Unfinished(i)
  BY <1>2 DEF Started, Unfinished, runVars
<1>4. \A v : Synced(v)' = Synced(v)
  <2> SUFFICES ASSUME NEW v \in Version
               PROVE  (jobStatus'[<<"SYNC", v>>] = "COMPLETED") <=> (jobStatus[<<"SYNC", v>>] = "COMPLETED")
    BY DEF Synced
  <2> QED BY <1>2, VersionJobs
<1>5. Types'
  BY <1>2 DEF Sound, Types, RequestTypes, draftVars, runVars
<1>6. \A i \in Job : KindOf(i)' = KindOf(i)
  BY DEF KindOf
<1>7. Owned'
  <2> SUFFICES ASSUME NEW w \in Worker, NEW i \in Job, pc[w][i] # "idle"
               PROVE  w \in alive /\ jobStatus'[i] = "RUNNING" /\ leaseOwner[i] = w
    BY DEF Owned, Owns, runVars
  <2> QED BY <1>2, RunFacts
<1>8. Tended'
  BY <1>2 DEF Sound, Jobs, Tended, Safe
<1>9. Placed'
  BY <1>6 DEF Sound, Jobs, Placed, FitsKind, runVars
<1>10. Drafted'
  BY <1>1, <1>2, <1>3 DEF Sound, Jobs, Drafted, draftVars, Job, Types
<1>11. \A o \in Op : Started(o)' = Started(o) /\ jobStatus'[o] = jobStatus[o]
  BY <1>1, <1>2, <1>3 DEF Job
<1>12. Operated'
  BY <1>11 DEF Sound, Offers, Operated, draftVars
<1>13. ItemSynced'
  BY <1>4 DEF Sound, Offers, ItemSynced, draftVars, remoteVars
<1>14. Running'
  BY <1>6 DEF Sound, Running, RunHolds, Faithful, draftVars, remoteVars, runVars
<1>15. NoActiveOperation' = NoActiveOperation
  BY <1>11 DEF NoActiveOperation
<1> QED BY <1>2, <1>3, <1>4, <1>5, <1>7, <1>8, <1>9, <1>10, <1>12, <1>13, <1>14, <1>15 DEF Jobs

LEMMA InventoryJobKeeps ==
    ASSUME Scope, Sound, NEW k \in {"STAGE", "SYNC"}, ready, Queue(<<k, version>>),
           UNCHANGED <<env, draftVars, offer, leaseOwner, opKind, opTarget, mandate, remoteVars,
                       alive, runVars, userVars>>
    PROVE  Sound'
<1>1. version \in Version
  BY DEF Sound, Types, Jobs, Drafted, Version
<1>2. RequestTypes'
  BY DEF Sound, Types, RequestTypes, userVars
<1>3. PICK j : j = <<k, version>>
  OBVIOUS
<1>4. /\ Types' /\ Jobs' /\ Operated' /\ ItemSynced' /\ Running'
      /\ \A i \in Job : i # j => jobStatus'[i] = jobStatus[i]
      /\ \A i \in Job : i # j => (Started(i)' = Started(i) /\ Unfinished(i)' = Unfinished(i))
      /\ NoActiveOperation' = NoActiveOperation
      /\ \A v : Synced(v)' = Synced(v)
  BY <1>1, <1>2, <1>3, QueueFacts
<1>5. /\ \A v \in Version : <<"PREPARE", v>> # j /\ <<"PUBLISH", v>> # j
      /\ version' = version
  BY <1>3 DEF draftVars
<1>6. Offered'
  BY DEF Sound, Offers, Offered, Unrevised, Faithful, Safe, userVars, remoteVars
<1>7. Prepared'
  BY <1>4, <1>5, VersionJobs DEF Sound, Offers, Prepared, Safe, userVars
<1>8. Published'
  BY <1>4, <1>5, VersionJobs DEF Sound, Offers, Published, Safe
<1>9. Requested'
  <2> SUFFICES ASSUME NEW u \in User PROVE RequestHolds(u)'
    BY DEF Requested
  <2>1. RequestHolds(u)
    BY DEF Sound, Offers, Requested
  <2>2. version \in Version =>
            /\ jobStatus'[<<"PREPARE", version>>] = jobStatus[<<"PREPARE", version>>]
            /\ ~Unfinished(<<"PUBLISH", version>>) => ~Unfinished(<<"PUBLISH", version>>)'
    BY <1>4, <1>5, VersionJobs DEF Unfinished, Started, runVars
  <2> QED BY <1>4, <1>5, <2>1, <2>2 DEF RequestHolds, Safe, userVars
<1> QED BY <1>4, <1>6, <1>7, <1>8, <1>9 DEF Sound, Offers

LEMMA AskTypes ==
    ASSUME Sound, NEW u \in User, NEW v \in 0 .. MaxVersion,
           NEW what \in Requests,
           Ask(u, what, v)
    PROVE  /\ RequestTypes' /\ asking'[u] = what /\ asked'[u] = v
           /\ \A x \in User : x # u => asking'[x] = asking[x] /\ asked'[x] = asked[x]
BY DEF Sound, Types, RequestTypes, Ask

LEMMA QueueOfferJobKeeps ==
    ASSUME Scope, Sound, NEW u \in User, QueueOfferJob(u)
    PROVE  Sound'
<1>1. /\ Ask(u, "idle", 0) /\ asking[u] \in {"queuePrepare", "queuePublish"}
      /\ UNCHANGED <<env, draftVars, offer, leaseOwner, opKind, opTarget, mandate, remoteVars,
                     alive, runVars>>
  BY DEF QueueOfferJob
<1>2. RequestHolds(u) /\ asked[u] = version /\ version \in Version
  BY <1>1 DEF Sound, Offers, Requested, RequestHolds
<1>3. PICK k \in {"PREPARE", "PUBLISH"} :
          /\ Queue(<<k, version>>)
          /\ k = "PREPARE" => asking[u] = "queuePrepare"
          /\ k = "PUBLISH" => asking[u] = "queuePublish"
  BY <1>2 DEF QueueOfferJob
<1>4. PICK j : j = <<k, version>>
  OBVIOUS
<1>5. 0 \in 0 .. MaxVersion
  BY PublicationAssumption
<1>6. /\ RequestTypes' /\ asking'[u] = "idle"
      /\ \A x \in User : x # u => asking'[x] = asking[x] /\ asked'[x] = asked[x]
  BY <1>1, <1>5, AskTypes DEF Requests
<1>7. /\ Types' /\ Jobs' /\ Operated' /\ ItemSynced' /\ Running'
      /\ \A i \in Job : i # j => jobStatus'[i] = jobStatus[i]
      /\ jobStatus[j] \in {"none", "FAILED"} => jobStatus'[j] = "QUEUED"
      /\ jobStatus[j] \notin {"none", "FAILED"} => jobStatus'[j] = jobStatus[j]
      /\ \A i \in Job : i # j => (Started(i)' = Started(i) /\ Unfinished(i)' = Unfinished(i))
      /\ \A v : Synced(v)' = Synced(v)
  BY <1>1, <1>2, <1>3, <1>4, <1>6, QueueFacts
<1>8. version' = version
  BY <1>1 DEF draftVars
<1>9. Offered'
  BY <1>1, <1>8 DEF Sound, Offers, Offered, Unrevised, Faithful, Safe, remoteVars
<1>10. j \in Job /\ (Unfinished(j)' => Unfinished(j) \/ jobStatus[j] \in {"none", "FAILED"})
  BY <1>1, <1>2, <1>4, <1>7, VersionJobs DEF Unfinished, Started, runVars
<1>11. Prepared'
  <2> SUFFICES ASSUME NEW v \in Version
               PROVE  /\ Started(<<"PREPARE", v>>)' => offer.version = version
                      /\ Safe /\ Unfinished(<<"PREPARE", v>>)' =>
                            ~offer.approved /\ offer.status # "FEES_READY"
    BY <1>1, <1>8 DEF Prepared, Safe
  <2>1. CASE j # <<"PREPARE", v>>
    BY <1>7, <2>1, VersionJobs DEF Sound, Offers, Prepared
  <2>2. CASE j = <<"PREPARE", v>>
    <3>1. k = "PREPARE" /\ v = version
      BY <1>4, <2>2
    <3> QED BY <1>2, <1>3, <1>10, <2>2, <3>1 DEF RequestHolds, Sound, Offers, Prepared
  <2> QED BY <2>1, <2>2
<1>12. Published'
  <2> SUFFICES ASSUME NEW v \in Version
               PROVE  /\ Started(<<"PUBLISH", v>>)' =>
                            offer.approved /\ offer.version = version /\ Synced(version)
                      /\ Safe /\ Unfinished(<<"PUBLISH", v>>)' =>
                            offer.status = "PUBLISH_QUEUED" /\ ~offer.listed
                      /\ jobStatus'[<<"PUBLISH", v>>] = "COMPLETED" => offer.listed
    BY <1>1, <1>7, <1>8 DEF Published, Safe
  <2>1. CASE j # <<"PUBLISH", v>>
    BY <1>7, <2>1, VersionJobs DEF Sound, Offers, Published
  <2>2. CASE j = <<"PUBLISH", v>>
    <3>1. k = "PUBLISH" /\ v = version
      BY <1>4, <2>2
    <3> QED BY <1>2, <1>3, <1>7, <2>2, <3>1 DEF RequestHolds, Sound, Offers, Published
  <2> QED BY <2>1, <2>2
<1>13. Requested'
  <2> SUFFICES ASSUME NEW x \in User PROVE RequestHolds(x)'
    BY DEF Requested
  <2>1. CASE x = u
    BY <1>6, <2>1 DEF RequestHolds, OpKinds
  <2>2. CASE x # u
    <3>1. RequestHolds(x) /\ asking'[x] = asking[x] /\ asked'[x] = asked[x]
      BY <1>6, <2>2 DEF Sound, Offers, Requested
    <3>2. jobStatus'[<<"PREPARE", version>>] \in {"none", "FAILED"} =>
              jobStatus[<<"PREPARE", version>>] \in {"none", "FAILED"}
      BY <1>2, <1>4, <1>7, VersionJobs
    <3>3. asking[x] = "queuePublish" /\ Safe =>
              k = "PREPARE" /\ \A y \in User : asking'[y] = "queuePublish" => y = x
      BY <1>2, <1>3, <1>6, <2>2, <3>1 DEF RequestHolds
    <3>4. k = "PREPARE" =>
              (~Unfinished(<<"PUBLISH", version>>) => ~Unfinished(<<"PUBLISH", version>>)')
      <4>1. k = "PREPARE" => <<"PUBLISH", version>> \in Job /\ <<"PUBLISH", version>> # j
        BY <1>2, <1>4, VersionJobs
      <4>2. k = "PREPARE" => jobStatus'[<<"PUBLISH", version>>] = jobStatus[<<"PUBLISH", version>>]
        BY <1>7, <4>1
      <4> QED BY <1>1, <1>8, <4>2 DEF Unfinished, Started, runVars
    <3> QED BY <1>1, <1>7, <1>8, <3>1, <3>2, <3>3, <3>4 DEF RequestHolds, Safe
  <2> QED BY <2>1, <2>2
<1> QED BY <1>7, <1>9, <1>11, <1>12, <1>13 DEF Sound, Offers
(* Requests that only read, and what they then know.                          *)
LEMMA AskKeeps ==
    ASSUME Scope, Sound, NEW u \in User, NEW v \in 0 .. MaxVersion,
           NEW what \in Requests,
           Ask(u, what, v),
           UNCHANGED <<env, draftVars, offer, jobVars, mandate, remoteVars, alive, runVars>>,
           what # "queuePublish", RequestHolds(u)'
    PROVE  Sound'
<1>1. /\ RequestTypes' /\ asking'[u] = what
      /\ \A x \in User : x # u => asking'[x] = asking[x] /\ asked'[x] = asked[x]
  BY AskTypes
<1>2. \A i \in Job : /\ KindOf(i)' = KindOf(i) /\ Started(i)' = Started(i)
                     /\ Unfinished(i)' = Unfinished(i)
  BY DEF KindOf, Started, Unfinished, jobVars, runVars
<1>3. Types'
  BY <1>1 DEF Sound, Types, RequestTypes, draftVars, jobVars, runVars
<1>4. Jobs'
  <2>1. Owned' /\ Tended'
    BY DEF Sound, Jobs, Owned, Owns, Tended, Safe, jobVars, runVars
  <2>2. Placed'
    BY <1>2 DEF Sound, Jobs, Placed, FitsKind, runVars
  <2>3. Drafted'
    BY <1>2 DEF Sound, Jobs, Drafted, jobVars, draftVars, Job
  <2> QED BY <2>1, <2>2, <2>3 DEF Jobs
<1>5. Operated'
  BY <1>2 DEF Sound, Offers, Operated, jobVars, draftVars, Job
<1>6. Offered'
  BY DEF Sound, Offers, Offered, Unrevised, Faithful, Safe, remoteVars
<1>7. ItemSynced'
  BY DEF Sound, Offers, ItemSynced, Synced, draftVars, jobVars, remoteVars
<1>8. Prepared'
  BY <1>2, VersionJobs DEF Sound, Offers, Prepared, Safe, draftVars
<1>9. Published'
  BY <1>2, VersionJobs DEF Sound, Offers, Published, Synced, Safe, jobVars, draftVars
<1>10. Requested'
  <2> SUFFICES ASSUME NEW x \in User, x # u PROVE RequestHolds(x)'
    BY DEF Requested
  <2>1. RequestHolds(x) /\ asking'[x] = asking[x] /\ asked'[x] = asked[x]
    BY <1>1 DEF Sound, Offers, Requested
  <2>2. /\ version' = version /\ offer' = offer /\ jobStatus' = jobStatus
        /\ \A v1 : Synced(v1)' = Synced(v1)
    BY DEF draftVars, jobVars, Synced
  <2>3. Unfinished(<<"PUBLISH", version>>)' = Unfinished(<<"PUBLISH", version>>)
    BY <2>2 DEF Unfinished, Started, runVars
  <2>4. \A y \in User : asking'[y] = "queuePublish" => asking[y] = "queuePublish"
    BY <1>1
  <2> QED BY <2>1, <2>2, <2>3, <2>4 DEF RequestHolds, Safe
<1>11. Running'
  BY <1>2 DEF Sound, Running, RunHolds, Faithful, draftVars, remoteVars, runVars
<1> QED BY <1>3, <1>4, <1>5, <1>6, <1>7, <1>8, <1>9, <1>10, <1>11 DEF Sound, Offers

LEMMA ChecksKeep ==
    ASSUME Scope, Sound, NEW u \in User,
           CheckPreparation(u) \/ CheckPublication(u) \/ CheckOperation(u) \/ Abandon(u)
    PROVE  Sound'
<1>1. UNCHANGED <<env, draftVars, offer, jobVars, mandate, remoteVars, alive, runVars>>
  BY DEF CheckPreparation, CheckPublication, CheckOperation, Abandon
<1>2. version' = version /\ offer' = offer /\ \A v : Synced(v)' = Synced(v)
  BY <1>1 DEF draftVars, jobVars, Synced
<1>3. version \in 0 .. MaxVersion /\ offer.version \in 0 .. MaxVersion /\ 0 \in 0 .. MaxVersion
  BY PublicationAssumption DEF Sound, Types, OfferType
<1>4. CASE CheckPreparation(u)
  <2>1. Ask(u, "prepare", version) /\ Synced(version)
    BY <1>4 DEF CheckPreparation, Preparable
  <2>2. asking'[u] = "prepare" /\ asked'[u] = version
    BY <1>3, <2>1, AskTypes DEF Requests
  <2>3. RequestHolds(u)'
    BY <1>2, <2>1, <2>2 DEF RequestHolds, OpKinds, Synced
  <2> QED BY <1>1, <1>3, <2>1, <2>3, AskKeeps DEF Requests
<1>5. CASE CheckPublication(u)
  <2>1. Ask(u, "publish", offer.version) /\ Synced(offer.version) /\ offer.version = version
    BY <1>5 DEF CheckPublication, Approvable, Current
  <2>2. asking'[u] = "publish" /\ asked'[u] = version
    BY <1>3, <2>1, AskTypes DEF Requests
  <2>3. RequestHolds(u)'
    BY <1>2, <2>1, <2>2 DEF RequestHolds, OpKinds, Synced
  <2> QED BY <1>1, <1>3, <2>1, <2>3, AskKeeps DEF Requests
<1>6. CASE CheckOperation(u)
  <2>1. PICK kind \in OpKinds :
            Operable(kind) /\ Ask(u, kind, IF kind = "REVISE" THEN version ELSE offer.version)
    BY <1>6 DEF CheckOperation, OpKinds
  <2>2. PICK v \in 0 .. MaxVersion : Ask(u, kind, v) /\ (kind = "REVISE" => v = version)
    BY <1>3, <2>1
  <2>3. asking'[u] = kind /\ asked'[u] = v
    BY <2>2, AskTypes DEF Requests
  <2>4. "operations" \in env'
    BY <1>1, <1>6 DEF CheckOperation
  <2>5. kind = "REVISE" => Synced(version)
    BY <2>1 DEF Operable
  <2>6. RequestHolds(u)'
    BY <1>2, <2>2, <2>3, <2>4, <2>5 DEF RequestHolds, OpKinds, Synced
  <2> QED BY <1>1, <2>2, <2>6, AskKeeps DEF OpKinds, Requests
<1>7. CASE Abandon(u)
  <2>1. Ask(u, "idle", 0)
    BY <1>7 DEF Abandon
  <2>2. asking'[u] = "idle"
    BY <1>3, <2>1, AskTypes DEF Requests
  <2>3. RequestHolds(u)'
    BY <2>2 DEF RequestHolds, OpKinds
  <2> QED BY <1>1, <1>3, <2>1, <2>3, AskKeeps DEF Requests
<1> QED BY <1>4, <1>5, <1>6, <1>7

(* Requests that write to the offer.                                          *)
LEMMA OfferWriteKeeps ==
    ASSUME Scope, Sound, NEW u \in User, NEW v \in 0 .. MaxVersion,
           NEW what \in Requests,
           Ask(u, what, v),
           UNCHANGED <<env, draftVars, jobVars, remoteVars, alive, runVars>>,
           offer' \in OfferType, offer'.version = offer.version \/ offer'.version = version,
           offer'.remoteId = offer.remoteId, offer'.listed = offer.listed,
           mandate' = mandate \/ mandate' = version,
           Offered', Prepared', Published', Requested'
    PROVE  Sound'
<1>1. RequestTypes'
  BY AskTypes
<1>2. \A i \in Job : /\ KindOf(i)' = KindOf(i) /\ Started(i)' = Started(i)
                     /\ Unfinished(i)' = Unfinished(i)
  BY DEF KindOf, Started, Unfinished, jobVars, runVars
<1>3. Types'
  BY <1>1 DEF Sound, Types, OfferType, RequestTypes, draftVars, jobVars, runVars
<1>4. Jobs'
  <2>1. Owned' /\ Tended'
    BY DEF Sound, Jobs, Owned, Owns, Tended, Safe, jobVars, runVars
  <2>2. Placed'
    BY <1>2 DEF Sound, Jobs, Placed, FitsKind, runVars
  <2>3. Drafted'
    BY <1>2 DEF Sound, Jobs, Drafted, jobVars, draftVars, Job
  <2> QED BY <2>1, <2>2, <2>3 DEF Jobs
<1>5. Operated'
  BY <1>2 DEF Sound, Offers, Operated, jobVars, draftVars, Job
<1>6. ItemSynced'
  BY DEF Sound, Offers, ItemSynced, Synced, draftVars, jobVars, remoteVars
<1>7. Running'
  <2> SUFFICES ASSUME NEW x \in Worker, NEW i \in Job, pc[x][i] # "idle"
               PROVE  RunHolds(pc[x][i], payload[x][i], saw[x][i], i)'
    BY DEF Running, runVars
  <2>1. RunHolds(pc[x][i], payload[x][i], saw[x][i], i)
    BY RunFacts
  <2>2. KindOf(i) = "PREPARE" => (Faithful => Faithful')
    <3> SUFFICES ASSUME KindOf(i) = "PREPARE", Faithful PROVE Faithful'
      OBVIOUS
    <3>1. offer.version = version
      BY PrepareFacts
    <3> QED BY <3>1 DEF Faithful, remoteVars
  <2> QED BY <1>2, <2>1, <2>2 DEF RunHolds, draftVars, remoteVars, runVars
<1> QED BY <1>3, <1>4, <1>5, <1>6, <1>7 DEF Sound, Offers

LEMMA UpsertOfferKeeps ==
    ASSUME Scope, Scope', Sound, NEW u \in User, UpsertOffer(u)
    PROVE  Sound'
<1>1. /\ asking[u] = "prepare" /\ Ask(u, "queuePrepare", asked[u])
      /\ offer' = [offer EXCEPT !.status = "PREPARING", !.version = asked[u],
                                !.fees = FALSE, !.approved = FALSE]
      /\ UNCHANGED <<env, draftVars, jobVars, mandate, remoteVars, alive, runVars>>
  BY DEF UpsertOffer
<1>2. asked[u] = version /\ version \in Version /\ ~offer.approved /\ asked[u] \in 0 .. MaxVersion
  <2>1. ~offer.approved
    BY DEF UpsertOffer, Overtake, Preparable, Scope
  <2> QED BY <1>1, <2>1 DEF Sound, Offers, Requested, RequestHolds, Types
<1>3. /\ offer' \in OfferType /\ offer'.status = "PREPARING" /\ offer'.version = version
      /\ ~offer'.approved /\ offer'.listed = offer.listed /\ offer'.remoteId = offer.remoteId
  BY <1>1, <1>2 DEF Sound, Types, OfferType
<1>4. /\ asking'[u] = "queuePrepare" /\ asked'[u] = version /\ version' = version
      /\ \A x \in User : x # u => asking'[x] = asking[x] /\ asked'[x] = asked[x]
  BY <1>1, <1>2, AskTypes DEF Requests, draftVars
<1>5. \A i \in Job : Started(i)' = Started(i) /\ Unfinished(i)' = Unfinished(i)
  BY <1>1 DEF Started, Unfinished, jobVars, runVars
<1>6. Offered'
  BY <1>1, <1>2, <1>3, <1>4 DEF Sound, Offers, Offered, Unrevised, Safe, remoteVars
<1>7. Prepared'
  BY <1>3, <1>4 DEF Prepared
<1>8. Published'
  <2>1. \A x \in Version : ~Started(<<"PUBLISH", x>>)'
    BY <1>2, <1>5, VersionJobs DEF Sound, Offers, Published
  <2> QED BY <1>1, <1>3, <2>1 DEF Sound, Offers, Published, Unfinished, jobVars
<1>9. Requested'
  <2> SUFFICES ASSUME NEW x \in User PROVE RequestHolds(x)'
    BY DEF Requested
  <2>1. CASE x = u
    BY <1>2, <1>3, <1>4, <2>1 DEF RequestHolds, OpKinds
  <2>2. CASE x # u
    <3>1. RequestHolds(x) /\ asking'[x] = asking[x] /\ asked'[x] = asked[x]
      BY <1>4, <2>2 DEF Sound, Offers, Requested
    <3>2. asking[x] # "queuePublish"
      BY <1>2, <3>1 DEF RequestHolds
    <3> QED BY <1>1, <1>3, <1>4, <3>1, <3>2 DEF RequestHolds
  <2> QED BY <2>1, <2>2
<1> QED BY <1>1, <1>2, <1>3, <1>6, <1>7, <1>8, <1>9, OfferWriteKeeps DEF Requests

LEMMA ApproveKeeps ==
    ASSUME Scope, Scope', Sound, NEW u \in User, Approve(u)
    PROVE  Sound'
<1>1. /\ asking[u] = "publish" /\ Ask(u, "queuePublish", asked[u]) /\ mandate' = asked[u]
      /\ offer' = [offer EXCEPT !.status = "PUBLISH_QUEUED", !.approved = TRUE]
      /\ UNCHANGED <<env, draftVars, jobVars, remoteVars, alive, runVars>>
  BY DEF Approve
<1>2. /\ asked[u] = version /\ version \in Version /\ asked[u] \in 0 .. MaxVersion
      /\ offer.version = version /\ Synced(version) /\ offer.status = "FEES_READY"
      /\ Safe => ~offer.listed
  <2>1. Approvable
    BY DEF Approve, Overtake, Scope
  <2>2. offer.version = version /\ Synced(version) /\ offer.status = "FEES_READY"
    BY <2>1 DEF Approvable, FeesReady, Current
  <2> QED BY <1>1, <2>2 DEF Sound, Offers, Offered, Live, Requested, RequestHolds, Types
<1>3. /\ offer' \in OfferType /\ offer'.status = "PUBLISH_QUEUED" /\ offer'.version = version
      /\ offer'.approved /\ offer'.listed = offer.listed /\ offer'.remoteId = offer.remoteId
  BY <1>1, <1>2 DEF Sound, Types, OfferType
<1>4. /\ asking'[u] = "queuePublish" /\ asked'[u] = version /\ version' = version
      /\ \A x \in User : x # u => asking'[x] = asking[x] /\ asked'[x] = asked[x]
  BY <1>1, <1>2, AskTypes DEF Requests, draftVars
<1>5. /\ \A i \in Job : Started(i)' = Started(i) /\ Unfinished(i)' = Unfinished(i)
      /\ Synced(version)' /\ Synced(version)
  BY <1>1, <1>2, <1>4 DEF Started, Unfinished, jobVars, runVars, Synced
<1>6. Offered'
  <2>1. Unrevised' = Unrevised /\ (Unrevised => Faithful /\ Faithful' /\ offer.remoteId)
    BY <1>1, <1>2, <1>3, <1>4 DEF Sound, Offers, Offered, Unrevised, Faithful, remoteVars
  <2> QED BY <1>1, <1>2, <1>3, <2>1 DEF Sound, Offers, Offered, Safe, remoteVars
<1>7. Prepared'
  BY <1>1, <1>2, <1>3, <1>4, <1>5, VersionJobs DEF Sound, Offers, Prepared, Safe
<1>8. Published'
  BY <1>1, <1>2, <1>3, <1>4, <1>5, VersionJobs DEF Sound, Offers, Published, Safe, jobVars
<1>9. Safe => ~Unfinished(<<"PUBLISH", version>>)'
  <2>1. Safe => ~Unfinished(<<"PUBLISH", version>>)
    BY <1>2 DEF Sound, Offers, Published
  <2> QED BY <1>1, <1>4, <2>1 DEF Unfinished, Started, jobVars, runVars
<1>10. Safe => \A x \in User : asking[x] # "queuePublish"
  BY <1>2 DEF Sound, Offers, Requested, RequestHolds
<1>11. Requested'
  <2> SUFFICES ASSUME NEW x \in User PROVE RequestHolds(x)'
    BY DEF Requested
  <2>1. CASE x = u
    <3>1. Safe => \A y \in User : asking'[y] = "queuePublish" => y = u
      BY <1>4, <1>10
    <3> QED BY <1>1, <1>2, <1>3, <1>4, <1>5, <1>9, <2>1, <3>1 DEF RequestHolds, OpKinds, Safe
  <2>2. CASE x # u
    <3>1. RequestHolds(x) /\ asking'[x] = asking[x] /\ asked'[x] = asked[x]
      BY <1>4, <2>2 DEF Sound, Offers, Requested
    <3>2. jobStatus' = jobStatus
      BY <1>1 DEF jobVars
    <3> QED BY <1>1, <1>2, <1>3, <1>4, <1>5, <1>10, <3>1, <3>2 DEF RequestHolds, Safe
  <2> QED BY <2>1, <2>2
<1> QED BY <1>1, <1>2, <1>3, <1>6, <1>7, <1>8, <1>11, OfferWriteKeeps DEF Requests

LEMMA CreateOperationJobKeeps ==
    ASSUME Scope, Scope', Sound, NEW u \in User, CreateOperationJob(u)
    PROVE  Sound'
<1> DEFINE kind == asking[u]
<1>1. /\ kind \in OpKinds /\ Ask(u, "idle", 0)
      /\ UNCHANGED <<env, draftVars, staged, leaseOwner, remoteVars, alive, runVars>>
  BY DEF CreateOperationJob, OpKinds
<1>2. PICK o \in Op : /\ jobStatus[o] = "none"
                      /\ jobStatus' = [jobStatus EXCEPT ![o] = "QUEUED"]
                      /\ opKind' = [opKind EXCEPT ![o] = kind]
                      /\ opTarget' = [opTarget EXCEPT ![o] = asked[u]]
  BY DEF CreateOperationJob
<1>3. /\ "operations" \in env /\ offer.listed /\ offer.approved /\ Safe
      /\ \A p \in Op : ~Started(p)
      /\ kind = "REVISE" => asked[u] = version
      /\ asked[u] \in 0 .. MaxVersion
  <2>1. RequestHolds(u) /\ (offer.listed => offer.approved) /\ asked[u] \in 0 .. MaxVersion
    BY DEF Sound, Offers, Requested, Offered, Types
  <2>2. Operable(kind)
    BY DEF CreateOperationJob, Overtake, Scope
  <2>3. offer.listed /\ NoActiveOperation
    BY <2>2 DEF Operable
  <2> QED BY <1>1, <2>1, <2>3 DEF RequestHolds, NoActiveOperation, Started, Safe, Scope
<1>4. /\ \/ offer' = offer
         \/ offer' = [offer EXCEPT !.status = "REVISION_QUEUED"]
         \/ offer' = [offer EXCEPT !.status = "WITHDRAW_QUEUED"]
      /\ kind = "REVISE" => mandate' = asked[u]
  BY <1>1 DEF CreateOperationJob, OpKinds
<1>5. /\ offer' \in OfferType /\ offer'.version = offer.version /\ offer'.remoteId = offer.remoteId
      /\ offer'.listed = offer.listed /\ offer'.approved = offer.approved
      /\ offer'.status \in {offer.status, "REVISION_QUEUED", "WITHDRAW_QUEUED"}
  <2>1. offer \in OfferType
    BY DEF Sound, Types, OfferType
  <2>2. CASE offer' = offer
    BY <2>1, <2>2
  <2>3. CASE offer' = [offer EXCEPT !.status = "REVISION_QUEUED"]
    BY <2>1, <2>3 DEF OfferType, Live
  <2>4. CASE offer' = [offer EXCEPT !.status = "WITHDRAW_QUEUED"]
    BY <2>1, <2>4 DEF OfferType, Live
  <2> QED BY <1>4, <2>2, <2>3, <2>4
<1>6. o \in Job /\ o \notin VersionJob
  BY JobShape DEF Job
<1>7. /\ jobStatus' \in [Job -> {"none", "QUEUED", "RUNNING", "COMPLETED", "FAILED"}]
      /\ jobStatus'[o] = "QUEUED" /\ \A i \in Job : i # o => jobStatus'[i] = jobStatus[i]
  BY <1>2, <1>6 DEF Sound, Types
<1>8. /\ opKind' \in [Op -> OpKinds \cup {"none"}] /\ opKind'[o] = kind
      /\ \A p \in Op : p # o => opKind'[p] = opKind[p]
  BY <1>1, <1>2 DEF Sound, Types
<1>9. opTarget' \in [Op -> 0 .. MaxVersion] /\ opTarget'[o] = asked[u]
  BY <1>2, <1>3 DEF Sound, Types
<1>10. 0 \in 0 .. MaxVersion
  BY PublicationAssumption
<1>11. /\ RequestTypes' /\ asking'[u] = "idle"
       /\ \A x \in User : x # u => asking'[x] = asking[x] /\ asked'[x] = asked[x]
  BY <1>1, <1>10, AskTypes DEF Requests
<1>12. Types'
  BY <1>1, <1>5, <1>7, <1>8, <1>9, <1>11 DEF Sound, Types, OfferType, RequestTypes, draftVars, runVars
<1>13. \A x \in Worker : pc[x][o] = "idle"
  BY <1>2, <1>6, RunFacts
<1>14. \A i \in Job : i # o => /\ KindOf(i)' = KindOf(i) /\ Started(i)' = Started(i)
                               /\ Unfinished(i)' = Unfinished(i)
  BY <1>1, <1>7, <1>8 DEF KindOf, Started, Unfinished, runVars
<1>15. /\ version' = version /\ \A v : Synced(v)' = Synced(v)
  <2>1. \A v \in Version : jobStatus'[<<"SYNC", v>>] = jobStatus[<<"SYNC", v>>]
    BY <1>7, <1>6, VersionJobs
  <2> QED BY <1>1, <2>1 DEF draftVars, Synced
<1>16. Jobs'
  <2>1. Owned'
    BY <1>1, <1>7, <1>13 DEF Sound, Jobs, Owned, Owns, runVars
  <2>2. Tended'
    BY <1>1, <1>7 DEF Sound, Jobs, Tended, Safe
  <2>3. Placed'
    BY <1>1, <1>13, <1>14 DEF Sound, Jobs, Placed, FitsKind, runVars
  <2>4. Drafted'
    <3>1. \A i \in VersionJob : i \in Job /\ i # o
      BY <1>6 DEF Job
    <3> QED BY <1>1, <1>7, <1>14, <3>1 DEF Sound, Jobs, Drafted, draftVars
  <2> QED BY <2>1, <2>2, <2>3, <2>4 DEF Jobs
<1>17. Operated'
  <2>1. \A p \in Op : Started(p)' => p = o
    BY <1>3, <1>14 DEF Job
  <2>2. "operations" \in env' /\ offer'.listed /\ opKind'[o] \in OpKinds
    BY <1>1, <1>3, <1>5, <1>8
  <2>3. opKind'[o] = "REVISE" => opTarget'[o] = version' /\ mandate' = version'
    BY <1>3, <1>4, <1>8, <1>9, <1>15
  <2> QED BY <2>1, <2>2, <2>3 DEF Operated
<1>18. Offered'
  BY <1>1, <1>3, <1>5 DEF Sound, Offers, Offered, Unrevised, Safe, remoteVars, Live
<1>19. ItemSynced'
  BY <1>1, <1>15 DEF Sound, Offers, ItemSynced, remoteVars
<1>20. \A v \in Version : <<"PREPARE", v>> # o /\ <<"PUBLISH", v>> # o
  BY <1>6, VersionJobs
<1>21. Prepared'
  BY <1>1, <1>5, <1>14, <1>15, <1>20, VersionJobs DEF Sound, Offers, Prepared, Safe
<1>22. Published'
  BY <1>1, <1>3, <1>5, <1>7, <1>14, <1>15, <1>20, VersionJobs DEF Sound, Offers, Published, Safe
<1>23. Requested'
  <2> SUFFICES ASSUME NEW x \in User PROVE RequestHolds(x)'
    BY DEF Requested
  <2>1. CASE x = u
    BY <1>11, <2>1 DEF RequestHolds, OpKinds
  <2>2. CASE x # u
    <3>1. RequestHolds(x) /\ asking'[x] = asking[x] /\ asked'[x] = asked[x]
      BY <1>11, <2>2 DEF Sound, Offers, Requested
    <3>2. asking[x] # "queuePublish"
      BY <1>3, <3>1 DEF RequestHolds
    <3>3. version \in Version => jobStatus'[<<"PREPARE", version>>] = jobStatus[<<"PREPARE", version>>]
      BY <1>7, <1>20, VersionJobs
    <3> QED BY <1>1, <1>3, <1>5, <1>15, <3>1, <3>2, <3>3 DEF RequestHolds, Safe
  <2> QED BY <2>1, <2>2
<1>24. Running'
  <2> SUFFICES ASSUME NEW x \in Worker, NEW i \in Job, pc[x][i] # "idle"
               PROVE  RunHolds(pc[x][i], payload[x][i], saw[x][i], i)'
    BY <1>1 DEF Running, runVars
  <2>1. RunHolds(pc[x][i], payload[x][i], saw[x][i], i) /\ KindOf(i)' = KindOf(i)
    BY <1>13, <1>14, RunFacts
  <2> QED BY <1>1, <1>5, <2>1 DEF RunHolds, Faithful, draftVars, remoteVars, runVars
<1> QED BY <1>12, <1>16, <1>17, <1>18, <1>19, <1>21, <1>22, <1>23, <1>24 DEF Sound, Offers

-----------------------------------------------------------------------------
LEMMA InitSound == Init => Sound
<1> SUFFICES ASSUME Init PROVE Sound
  OBVIOUS
<1>1. 0 \in 0 .. MaxVersion /\ 0 \notin Version
  BY PublicationAssumption DEF Version
<1>2. Types
  <2>1. /\ pc \in [Worker -> [Job -> Label]] /\ payload \in [Worker -> [Job -> 0 .. MaxVersion]]
        /\ saw \in [Worker -> [Job -> Snapshots]]
    BY <1>1 DEF Init, Label, Unseen, Snapshots
  <2>2. alive \subseteq Worker
    BY DEF Init
  <2> QED BY <1>1, <2>1, <2>2 DEF Init, Types, OfferType, Requests
<1>3. /\ \A w \in Worker, j \in Job : pc[w][j] = "idle"
      /\ \A j \in Job : jobStatus[j] = "none" /\ ~Started(j)
  BY DEF Init, Started, Active
<1>4. Jobs
  BY <1>3 DEF Jobs, Owned, Tended, Placed, Drafted, Init, Job
<1>5. Running
  BY <1>3 DEF Running
<1>6. Operated
  BY <1>3 DEF Operated, Job
<1>7. Offered
  BY DEF Init, Offered
<1>8. ItemSynced
  BY <1>1 DEF Init, ItemSynced, Synced
<1>9. Prepared /\ Published
  BY <1>3, VersionJobs DEF Prepared, Published, Unfinished
<1>10. Requested
  BY DEF Init, Requested, RequestHolds, OpKinds
<1> QED BY <1>2, <1>4, <1>5, <1>6, <1>7, <1>8, <1>9, <1>10 DEF Sound, Offers

LEMMA RunStepKeeps ==
    ASSUME Scope, Sound, NEW w \in Worker, NEW j \in Job, RunStep(w, j) \/ CallError(w, j)
    PROVE  Sound'
BY LoadKeeps, LooksKeep, LookAfterKeeps, PeekKeeps, PutItemKeeps, UpdateOfferKeeps,
   CreateOfferKeeps, RememberOfferKeeps, RecordFeesKeeps, PublishOfferKeeps, RecordListingKeeps,
   ReviseKeeps, WithdrawOfferKeeps, RecordKeeps, CompleteKeeps, FailKeeps DEF RunStep

LEMMA RequestStepKeeps ==
    ASSUME Scope, Scope', Sound, NEW u \in User, Begin(u) \/ Continue(u) \/ Abandon(u)
    PROVE  Sound'
<1>1. CASE CreateInventoryPreparationJob(u)
  BY <1>1, InventoryJobKeeps DEF CreateInventoryPreparationJob
<1>2. CASE CreateEbayInventorySyncJob(u)
  BY <1>2, InventoryJobKeeps DEF CreateEbayInventorySyncJob
<1>3. CASE CheckPreparation(u) \/ CheckPublication(u) \/ CheckOperation(u) \/ Abandon(u)
  BY <1>3, ChecksKeep
<1>4. CASE UpsertOffer(u) \/ Approve(u) \/ QueueOfferJob(u) \/ CreateOperationJob(u)
  BY <1>4, UpsertOfferKeeps, ApproveKeeps, QueueOfferJobKeeps, CreateOperationJobKeeps
<1> QED BY <1>1, <1>2, <1>3, <1>4 DEF Begin, Continue

LEMMA NextKeepsSound ==
    ASSUME Scope, Scope', Sound, Next
    PROVE  Sound'
BY EditKeeps, ValidateKeeps, OutsiderKeeps, RequestStepKeeps, ReclaimKeeps, ClaimKeeps,
   RunStepKeeps, DieKeeps DEF Next, Work

LEMMA StutterKeepsSound ==
    ASSUME Sound, UNCHANGED vars
    PROVE  Sound'
<1>1. /\ UNCHANGED <<env, draftVars, offer, jobVars, mandate, remoteVars, alive, runVars, userVars>>
  BY DEF vars
<1>2. Types'
  BY <1>1 DEF Sound, Types, draftVars, jobVars, runVars, userVars
<1>3. Jobs'
  BY <1>1 DEF Sound, Jobs, Owned, Owns, Tended, Safe, Placed, FitsKind, KindOf, Drafted, Started,
       draftVars, jobVars, runVars
<1>4. Operated'
  BY <1>1 DEF Sound, Offers, Operated, Started, jobVars, draftVars
<1>5. Offered'
  BY <1>1 DEF Sound, Offers, Offered, Unrevised, Faithful, Safe, userVars, remoteVars
<1>6. ItemSynced'
  BY <1>1 DEF Sound, Offers, ItemSynced, Synced, draftVars, jobVars, remoteVars
<1>7. Prepared'
  BY <1>1 DEF Sound, Offers, Prepared, Started, Unfinished, Safe, draftVars, jobVars,
       runVars, userVars
<1>8. Published'
  BY <1>1 DEF Sound, Offers, Published, Started, Unfinished, Synced, Safe, draftVars, jobVars,
       runVars
<1>9. Requested'
  BY <1>1 DEF Sound, Offers, Requested, RequestHolds, Synced, Safe, Started, Unfinished,
       NoActiveOperation, draftVars, jobVars, runVars, userVars
<1>10. Running'
  BY <1>1 DEF Sound, Running, RunHolds, KindOf, Faithful, draftVars, jobVars, remoteVars, runVars
<1> QED BY <1>2, <1>3, <1>4, <1>5, <1>6, <1>7, <1>8, <1>9, <1>10 DEF Sound, Offers

LEMMA ScopeStays ==
    ASSUME [Next]_vars, Scope'
    PROVE  Scope /\ (Safe' => Safe)
<1> DEFINE stays == UNCHANGED <<env, overtaken>>
<1> DEFINE kept == Scope /\ (Safe' => Safe)
<1>0. stays => kept
  BY DEF Scope, Safe
<1>1. CASE EditListingDraft \/ ValidateListingDraftLive \/ Outsider \/ UNCHANGED vars
  BY <1>0, <1>1 DEF EditListingDraft, ValidateListingDraftLive, Outsider, vars, userVars
<1>2. ASSUME NEW u \in User, Begin(u) \/ QueueOfferJob(u) \/ Abandon(u)
      PROVE  kept
  <2>1. stays
    BY <1>2 DEF Begin, QueueOfferJob, Abandon, CreateInventoryPreparationJob,
         CreateEbayInventorySyncJob, CheckPreparation, CheckPublication, CheckOperation, userVars
  <2> QED BY <1>0, <2>1
<1>3. ASSUME NEW u \in User, UpsertOffer(u) \/ Approve(u) \/ CreateOperationJob(u)
      PROVE  kept
  <2>1. env' = env /\ \E holds \in BOOLEAN : overtaken' = (overtaken \/ ~holds)
    <3>1. CASE UpsertOffer(u)
      <4>1. Preparable \in BOOLEAN
        BY DEF Preparable
      <4> QED BY <3>1, <4>1 DEF UpsertOffer, Overtake
    <3>2. CASE Approve(u)
      BY <3>2 DEF Approve, Overtake
    <3>3. CASE CreateOperationJob(u)
      BY <3>3 DEF CreateOperationJob, Overtake
    <3> QED BY <1>3, <3>1, <3>2, <3>3
  <2> QED BY <2>1 DEF Scope, Safe
<1>4. CASE \E w \in Worker : Die(w)
  BY <1>0, <1>4 DEF Die, userVars
<1>5. ASSUME NEW w \in Worker, NEW j \in Job, Work(w, j) \/ CallError(w, j)
      PROVE  kept
  <2>1. CASE Reclaim(w, j) \/ Claim(w, j) \/ CallError(w, j)
    BY <1>0, <2>1 DEF Reclaim, Claim, CallError, userVars
  <2>2. CASE RunStep(w, j)
    <3>1. stays
      BY <2>2 DEF RunStep, Load, Stage, PutItem, UpdateOffer, FindOffer, CreateOffer,
           RememberOffer, GetListingFees, RecordFees, LookForListing, PublishOffer,
           RecordListing, LookBefore, Revise, LookAfter, RecordRevision, Peek, WithdrawOffer,
           Confirm, RecordWithdrawal, PersistReconciliation, Recheck, Complete, Fail, userVars
    <3> QED BY <1>0, <3>1
  <2> QED BY <1>5, <2>1, <2>2 DEF Work
<1> QED BY <1>1, <1>2, <1>3, <1>4, <1>5 DEF Next, Continue

LEMMA InvIsInductive == (Init => PublicationInv) /\ (PublicationInv /\ [Next]_vars => PublicationInv')
<1>1. Init => PublicationInv
  BY InitSound DEF PublicationInv
<1>2. ASSUME PublicationInv, [Next]_vars PROVE PublicationInv'
  <2> SUFFICES ASSUME Scope' PROVE Sound'
    BY DEF PublicationInv
  <2>1. Scope /\ Sound
    BY <1>2, ScopeStays DEF PublicationInv
  <2> QED BY <1>2, <2>1, NextKeepsSound, StutterKeepsSound
<1> QED BY <1>1, <1>2

LEMMA AlwaysSound == Spec => []PublicationInv
<1>1. Init => PublicationInv
  BY InvIsInductive
<1>2. PublicationInv /\ [Next]_vars => PublicationInv'
  BY InvIsInductive
<1> QED BY <1>1, <1>2, PTL DEF Spec

-----------------------------------------------------------------------------
(* What is known of a live listing, given all of the above.                   *)
LEMMA LandedStays ==
    ASSUME Scope, Safe, Sound, Landed, NEW w \in Worker, NEW j \in Job,
           \A x \in Worker, i \in Job : x # w \/ i # j => pc'[x][i] = pc[x][i],
           offer'.version = offer.version, offer'.listed = offer.listed,
           listing' = "active" => listing = "active", unheard => unheard',
           KindOf(j) = "PUBLISH" /\ pc[w][j] \in {"recheck", "published"} /\ listing = "active" =>
               pc'[w][j] = "published" \/ unheard'
    PROVE  Landed'
<1> SUFFICES ASSUME listing = "active", ~offer.listed, ~unheard' PROVE Landing'
  BY DEF Landed
<1>1. offer.version \in Version
  BY DEF Sound, Offers, Offered, Unrevised
<1>2. PICK i : i = <<"PUBLISH", offer.version>>
  OBVIOUS
<1>3. i \in Job /\ KindOf(i) = "PUBLISH"
  BY <1>1, <1>2, VersionJobs, JobShape
<1>4. PICK x \in Worker : pc[x][i] \in {"recheck", "published"}
  BY <1>2 DEF Landed, Landing
<1>5. pc'[x][i] \in {"recheck", "published"}
  <2>1. CASE x = w /\ i = j
    BY <1>3, <1>4, <2>1
  <2>2. CASE x # w \/ i # j
    BY <1>3, <1>4, <2>2
  <2> QED BY <2>1, <2>2
<1> QED BY <1>2, <1>5 DEF Landing

LEMMA KnownIfUnmoved ==
    ASSUME Known, UNCHANGED <<pc, unheard>>, offer'.version = offer.version,
           offer'.listed = offer.listed, listing' = "active" => listing = "active",
           Priced', Waiting'
    PROVE  Known'
BY DEF Known, Landed, Landing

(* Runs that leave the row as it is.                                          *)
LEMMA CallsKeepKnown ==
    ASSUME Scope, Safe, Sound, Known, NEW w \in Worker, NEW j \in Job, NEW l \in Label,
           Go(w, j, l), UNCHANGED offer,
           listing' = "active" => listing = "active", unheard => unheard',
           KindOf(j) = "PUBLISH" /\ pc[w][j] \in {"recheck", "published"} /\ listing = "active" =>
               l = "published" \/ unheard'
    PROVE  Known'
<1>1. /\ pc'[w][j] = l
      /\ \A x \in Worker, i \in Job : x # w \/ i # j => pc'[x][i] = pc[x][i]
  BY GoMoves DEF Sound
<1>2. Landed'
  BY <1>1, LandedStays DEF Known
<1> QED BY <1>2 DEF Known, Priced, Waiting

LEMMA QuietRunsKeepKnown ==
    ASSUME Scope, Safe, Sound, Known, NEW w \in Worker, NEW j \in Job,
           \/ Load(w, j) \/ Stage(w, j) \/ PutItem(w, j) \/ UpdateOffer(w, j)
           \/ FindOffer(w, j) \/ CreateOffer(w, j) \/ GetListingFees(w, j)
           \/ LookForListing(w, j) \/ LookBefore(w, j) \/ Revise(w, j) \/ LookAfter(w, j)
           \/ Peek(w, j) \/ WithdrawOffer(w, j) \/ Confirm(w, j) \/ Complete(w, j)
    PROVE  Known'
<1>1. /\ pc[w][j] \notin {"recheck", "published"} /\ UNCHANGED <<offer, unheard>>
      /\ listing' = "active" => listing = "active"
  BY DEF Load, Stage, PutItem, UpdateOffer, FindOffer, CreateOffer, GetListingFees,
     LookForListing, LookBefore, Revise, LookAfter, Peek, WithdrawOffer, Confirm, Complete, At,
     remoteVars
<1>2. \A x \in Worker, i \in Job : x # w \/ i # j => pc'[x][i] = pc[x][i]
  <2>1. \E l : Go(w, j, l)
    <3>1. CASE Load(w, j)
      <4>1. KindOf(j) \in Kinds
        BY <3>1, RunFacts DEF Load, At
      <4>2. \/ KindOf(j) = "STAGE"    \/ KindOf(j) = "SYNC"   \/ KindOf(j) = "PREPARE"
            \/ KindOf(j) = "PUBLISH"  \/ KindOf(j) = "REVISE" \/ KindOf(j) = "WITHDRAW"
            \/ KindOf(j) = "RECONCILE"
        BY <4>1 DEF Kinds, OpKinds
      <4>3. KindOf(j) = "STAGE" => \E l : Go(w, j, l)
        BY <3>1 DEF Load
      <4>4. KindOf(j) = "SYNC" => \E l : Go(w, j, l)
        BY <3>1 DEF Load
      <4>5. KindOf(j) = "PREPARE" => \E l : Go(w, j, l)
        BY <3>1 DEF Load
      <4>6. KindOf(j) = "PUBLISH" => \E l : Go(w, j, l)
        BY <3>1 DEF Load
      <4>7. KindOf(j) = "REVISE" => \E l : Go(w, j, l)
        BY <3>1 DEF Load
      <4>8. KindOf(j) \in {"WITHDRAW", "RECONCILE"} => \E l : Go(w, j, l)
        BY <3>1 DEF Load
      <4> QED BY <4>2, <4>3, <4>4, <4>5, <4>6, <4>7, <4>8
    <3>2. CASE PutItem(w, j) \/ UpdateOffer(w, j) \/ CreateOffer(w, j) \/ Revise(w, j)
               \/ WithdrawOffer(w, j)
      BY <3>2 DEF PutItem, UpdateOffer, CreateOffer, Revise, WithdrawOffer, Called
    <3>3. CASE \/ Stage(w, j) \/ FindOffer(w, j) \/ GetListingFees(w, j)
               \/ LookForListing(w, j) \/ LookBefore(w, j) \/ LookAfter(w, j) \/ Peek(w, j)
               \/ Confirm(w, j) \/ Complete(w, j)
      BY <3>3 DEF Stage, FindOffer, GetListingFees, LookForListing, LookBefore, LookAfter, Peek,
         Confirm, Complete, EndRun
    <3> QED BY <3>1, <3>2, <3>3
  <2> QED BY <2>1 DEF Go, Sound, Types
<1>3. Landed'
  BY <1>1, <1>2, LandedStays DEF Known
<1> QED BY <1>1, <1>3 DEF Known, Priced, Waiting

LEMMA PublishingKeepsKnown ==
    ASSUME Scope, Safe, Sound, Known, NEW w \in Worker, NEW j \in Job,
           PublishOffer(w, j) \/ Recheck(w, j) \/ CallError(w, j)
    PROVE  Known'
<1>1. CASE PublishOffer(w, j)
  <2>1. pc[w][j] = "publish" /\ UNCHANGED <<offer, unheard>>
    BY <1>1 DEF PublishOffer, At
  <2>2. KindOf(j) = "PUBLISH"
    BY <2>1, RunFacts DEF FitsKind
  <2>3. j = <<"PUBLISH", offer.version>>
    BY <2>1, <2>2, PublishFacts
  <2>4. PICK l \in {"published", "recheck"} : Go(w, j, l)
    BY <1>1 DEF PublishOffer, Called
  <2>5. pc'[w][j] \in {"published", "recheck"}
    BY <2>4 DEF Go, Sound, Types
  <2>6. Landing'
    BY <2>1, <2>3, <2>5 DEF Landing
  <2> QED BY <2>1, <2>6 DEF Known, Priced, Waiting, Landed
<1>2. CASE Recheck(w, j)
  <2>1. /\ pc[w][j] = "recheck" /\ UNCHANGED <<offer, listing, unheard>>
        /\ Go(w, j, AfterRecheck(j))
    BY <1>2 DEF Recheck, At, remoteVars
  <2>2. KindOf(j) \in {"PREPARE", "PUBLISH", "WITHDRAW"}
    BY <2>1, RunFacts DEF FitsKind
  <2>3. AfterRecheck(j) \in Label
    BY <2>2 DEF AfterRecheck, Label
  <2>4. KindOf(j) = "PUBLISH" /\ listing = "active" => AfterRecheck(j) = "published"
    BY DEF AfterRecheck
  <2> QED BY <2>1, <2>3, <2>4, CallsKeepKnown
<1>3. CASE CallError(w, j)
  <2>1. /\ UNCHANGED <<offer, listing>> /\ pc[w][j] # "published"
        /\ unheard' = (unheard \/ (/\ pc[w][j] = "recheck" /\ KindOf(j) = "PUBLISH"
                                   /\ listing = "active"))
    BY <1>3 DEF CallError
  <2>2. PICK l \in Label : Go(w, j, l)
    BY <1>3 DEF CallError, Label
  <2>3. /\ unheard => unheard'
        /\ KindOf(j) = "PUBLISH" /\ pc[w][j] = "recheck" /\ listing = "active" => unheard'
    BY <2>1
  <2> QED BY <2>1, <2>2, <2>3, CallsKeepKnown
<1> QED BY <1>1, <1>2, <1>3

(* Runs that write to the row.                                                *)
LEMMA RecordsKeepKnown ==
    ASSUME Scope, Safe, Sound, Known, NEW w \in Worker, NEW j \in Job,
           \/ RememberOffer(w, j) \/ RecordFees(w, j) \/ RecordListing(w, j)
           \/ RecordRevision(w, j) \/ RecordWithdrawal(w, j) \/ PersistReconciliation(w, j)
    PROVE  Known'
<1>1. offer \in OfferType
  BY DEF Sound, Types
<1>2. CASE RememberOffer(w, j)
  <2>1. /\ pc[w][j] = "remember" /\ UNCHANGED <<listing, unheard>> /\ Go(w, j, "fees")
        /\ offer' = [offer EXCEPT !.remoteId = TRUE]
    BY <1>2 DEF RememberOffer, At
  <2>2. /\ offer'.status = offer.status /\ offer'.version = offer.version
        /\ offer'.approved = offer.approved /\ offer'.listed = offer.listed
        /\ offer'.fees = offer.fees
    BY <1>1, <2>1 DEF OfferType
  <2>3. \A x \in Worker, i \in Job : x # w \/ i # j => pc'[x][i] = pc[x][i]
    BY <2>1 DEF Go, Sound, Types
  <2>4. Landed'
    BY <2>1, <2>2, <2>3, LandedStays DEF Known
  <2> QED BY <2>2, <2>4 DEF Known, Priced, Waiting
<1>3. CASE RecordFees(w, j)
  <2>1. /\ pc[w][j] = "record" /\ listing' = listing
        /\ offer' = [offer EXCEPT !.status = "FEES_READY", !.fees = TRUE]
    BY <1>3 DEF RecordFees, At, remoteVars
  <2>2. KindOf(j) = "PREPARE"
    BY <2>1, RunFacts DEF FitsKind
  <2>3. listing # "active"
    BY <2>1, <2>2, PrepareFacts DEF Sound, Offers, Offered
  <2>4. offer'.status = "FEES_READY" /\ offer'.fees
    BY <1>1, <2>1 DEF OfferType
  <2> QED BY <2>1, <2>3, <2>4 DEF Known, Priced, Waiting, Landed
<1>4. CASE RecordListing(w, j)
  <2>1. /\ pc[w][j] = "published"
        /\ offer' = [offer EXCEPT !.status = "PUBLISHED", !.listed = TRUE]
    BY <1>4 DEF RecordListing, At
  <2>2. KindOf(j) = "PUBLISH"
    BY <2>1, RunFacts DEF FitsKind
  <2>3. offer.fees
    BY <2>1, <2>2, PublishFacts DEF Known, Priced
  <2>4. offer'.listed /\ offer'.fees
    BY <1>1, <2>1, <2>3 DEF OfferType
  <2> QED BY <2>4 DEF Known, Priced, Waiting, Landed
<1>5. CASE RecordRevision(w, j) \/ RecordWithdrawal(w, j) \/ PersistReconciliation(w, j)
  <2>1. /\ pc[w][j] \in {"revised", "withdrawn", "reconciled"}
        /\ offer'.listed = offer.listed /\ offer'.fees = offer.fees
    <3>1. CASE RecordRevision(w, j)
      <4>1. PICK s : s = IF saw[w][j].differs THEN "DRIFTED" ELSE "PUBLISHED"
        OBVIOUS
      <4>2. /\ pc[w][j] = "revised"
            /\ offer' = [offer EXCEPT !.status = s, !.version = payload[w][j],
                                      !.drift = saw[w][j].differs]
        BY <3>1, <4>1 DEF RecordRevision, At
      <4> QED BY <1>1, <4>2 DEF OfferType
    <3>2. CASE RecordWithdrawal(w, j)
      <4>1. /\ pc[w][j] = "withdrawn"
            /\ offer' = [offer EXCEPT !.status = "WITHDRAWN", !.drift = FALSE]
        BY <3>2 DEF RecordWithdrawal, At
      <4> QED BY <1>1, <4>1 DEF OfferType
    <3>3. CASE PersistReconciliation(w, j)
      <4>1. PICK s : s = ResolvedStatus(saw[w][j])
        OBVIOUS
      <4>2. /\ pc[w][j] = "reconciled"
            /\ offer' = [offer EXCEPT !.status = s, !.drift = saw[w][j].differs]
        BY <3>3, <4>1 DEF PersistReconciliation, At
      <4> QED BY <1>1, <4>2 DEF OfferType
    <3> QED BY <1>5, <3>1, <3>2, <3>3
  <2>2. KindOf(j) \in OpKinds
    BY <2>1, RunFacts DEF FitsKind, OpKinds
  <2>3. offer.listed /\ offer.fees
    BY <2>1, <2>2, RunFacts DEF Known, Priced
  <2>4. offer'.listed /\ offer'.fees
    BY <1>1, <2>1, <2>3 DEF OfferType
  <2> QED BY <2>4 DEF Known, Priced, Waiting, Landed
<1> QED BY <1>2, <1>3, <1>4, <1>5

LEMMA FailKeepsKnown ==
    ASSUME Scope, Safe, Sound, Known, NEW w \in Worker, NEW j \in Job, Fail(w, j)
    PROVE  Known'
<1> DEFINE k == StatusAfterFailure(j)
<1>1. /\ pc[w][j] = "catch" /\ Go(w, j, "idle") /\ UNCHANGED <<listing, unheard>>
      /\ offer' = [offer EXCEPT !.status = k]
  BY DEF Fail, At, EndRun, remoteVars
<1>2. /\ offer'.status = k /\ offer'.version = offer.version /\ offer'.approved = offer.approved
      /\ offer'.listed = offer.listed /\ offer'.fees = offer.fees
  BY <1>1 DEF Sound, Types, OfferType
<1>3. /\ KindOf(j) = "PREPARE" => k = "FAILED" /\ ~offer.approved
      /\ KindOf(j) = "PUBLISH" => k = "FEES_READY" /\ offer.approved
      /\ KindOf(j) \in OpKinds => offer.listed /\ offer.approved
      /\ KindOf(j) \in {"PREPARE", "PUBLISH"} \cup OpKinds \/ k = offer.status
  <2>1. KindOf(j) = "PREPARE" => ~offer.approved
    BY <1>1, PrepareFacts
  <2>2. KindOf(j) = "PUBLISH" => offer.approved
    BY <1>1, PublishFacts
  <2>3. KindOf(j) \in OpKinds => offer.listed /\ offer.approved
    BY <1>1, RunFacts
  <2> QED BY <2>1, <2>2, <2>3 DEF StatusAfterFailure, OpKinds
<1>4. \A x \in Worker, i \in Job : x # w \/ i # j => pc'[x][i] = pc[x][i]
  BY <1>1 DEF Go, Sound, Types
<1>5. Landed'
  BY <1>1, <1>2, <1>4, LandedStays DEF Known
<1> HIDE DEF k
<1>6. Priced' /\ Waiting'
  BY <1>2, <1>3 DEF Known, Priced, Waiting
<1> QED BY <1>5, <1>6 DEF Known

(* Requests that write to the row.                                            *)
LEMMA RequestsKeepKnown ==
    ASSUME Scope, Scope', Safe, Sound, Known, NEW u \in User,
           UpsertOffer(u) \/ Approve(u) \/ CreateOperationJob(u)
    PROVE  Known'
<1>1. offer \in OfferType
  BY DEF Sound, Types
<1>2. CASE UpsertOffer(u)
  <2>1. ~offer.approved /\ listing' = listing
    BY <1>2 DEF UpsertOffer, Overtake, Preparable, Scope, remoteVars
  <2>2. listing # "active"
    BY <2>1 DEF Sound, Offers, Offered
  <2>3. ~offer'.approved /\ offer'.status = "PREPARING"
    BY <1>1, <1>2 DEF UpsertOffer, OfferType
  <2> QED BY <2>1, <2>2, <2>3 DEF Known, Priced, Waiting, Landed
<1>3. CASE Approve(u)
  <2>1. offer.fees
    BY <1>3 DEF Approve, Overtake, Scope, Approvable, FeesReady
  <2>2. /\ offer'.status = "PUBLISH_QUEUED" /\ offer'.version = offer.version
        /\ offer'.listed = offer.listed /\ offer'.fees = offer.fees
    BY <1>1, <1>3 DEF Approve, OfferType
  <2>3. UNCHANGED <<pc, unheard, listing>>
    BY <1>3 DEF Approve, runVars, remoteVars
  <2> QED BY <2>1, <2>2, <2>3, KnownIfUnmoved DEF Priced, Waiting
<1>4. CASE CreateOperationJob(u)
  <2>1. offer.listed
    BY <1>4 DEF CreateOperationJob, Overtake, Scope, Operable
  <2>2. offer.fees
    BY <2>1 DEF Known, Priced, Sound, Offers, Offered
  <2>3. offer'.listed = offer.listed /\ offer'.fees = offer.fees
    <3>1. \/ offer' = offer \/ offer' = [offer EXCEPT !.status = "REVISION_QUEUED"]
          \/ offer' = [offer EXCEPT !.status = "WITHDRAW_QUEUED"]
      BY <1>4 DEF CreateOperationJob
    <3> QED BY <1>1, <3>1 DEF OfferType
  <2> QED BY <2>1, <2>2, <2>3 DEF Known, Priced, Waiting, Landed
<1> QED BY <1>2, <1>3, <1>4

LEMMA NextKeepsKnown ==
    ASSUME Scope, Scope', Safe, Sound, Known, Next
    PROVE  Known'
<1> DEFINE unseen == /\ UNCHANGED <<offer, pc, unheard>>
                     /\ listing' = "active" => listing = "active"
<1>1. unseen => Known'
  BY KnownIfUnmoved DEF Known, Priced, Waiting
<1>2. CASE EditListingDraft \/ ValidateListingDraftLive \/ Outsider
  BY <1>1, <1>2 DEF EditListingDraft, ValidateListingDraftLive, Outsider, remoteVars, runVars
<1>3. ASSUME NEW u \in User, Begin(u) \/ Continue(u) \/ Abandon(u)
      PROVE  Known'
  <2>1. CASE Begin(u) \/ QueueOfferJob(u) \/ Abandon(u)
    <3>1. unseen
      BY <2>1 DEF Begin, QueueOfferJob, Abandon, CreateInventoryPreparationJob,
           CreateEbayInventorySyncJob, CheckPreparation, CheckPublication, CheckOperation,
           remoteVars, runVars
    <3> QED BY <1>1, <3>1
  <2> QED BY <1>3, <2>1, RequestsKeepKnown DEF Continue
<1>4. \A w \in Worker : ~Die(w)
  BY DEF Die, Safe
<1>5. ASSUME NEW w \in Worker, NEW j \in Job, Work(w, j) \/ CallError(w, j)
      PROVE  Known'
  <2>1. CASE Reclaim(w, j)
    BY <1>1, <2>1 DEF Reclaim, remoteVars, runVars
  <2>2. CASE Claim(w, j)
    <3>1. /\ pc[w][j] = "idle" /\ UNCHANGED <<offer, unheard, listing>>
          /\ pc' = [pc EXCEPT ![w][j] = "load"]
      BY <2>2 DEF Claim, remoteVars
    <3> QED BY <3>1, CallsKeepKnown DEF Go, Label
  <2>3. CASE RunStep(w, j)
    BY <2>3, QuietRunsKeepKnown, PublishingKeepsKnown, RecordsKeepKnown, FailKeepsKnown
       DEF RunStep
  <2>4. CASE CallError(w, j)
    BY <2>4, PublishingKeepsKnown
  <2> QED BY <1>5, <2>1, <2>2, <2>3, <2>4 DEF Work
<1> QED BY <1>2, <1>3, <1>4, <1>5 DEF Next

LEMMA AlwaysKnown == Spec => []KnownInv
<1>1. Init => KnownInv
  BY DEF Init, KnownInv, Known, Priced, Waiting, Landed
<1>2. PublicationInv /\ KnownInv /\ [Next]_vars => KnownInv'
  <2> SUFFICES ASSUME PublicationInv, KnownInv, [Next]_vars, Scope', Safe' PROVE Known'
    BY DEF KnownInv
  <2>1. Scope /\ Safe
    BY ScopeStays
  <2>2. Sound /\ Known
    BY <2>1 DEF PublicationInv, KnownInv
  <2>3. CASE Next
    BY <2>1, <2>2, <2>3, NextKeepsKnown
  <2>4. CASE UNCHANGED vars
    <3>1. UNCHANGED <<offer, pc, unheard, listing>>
      BY <2>4 DEF vars, runVars, remoteVars
    <3> QED BY <2>2, <3>1 DEF Known, Priced, Waiting, Landed, Landing
  <2> QED BY <2>3, <2>4
<1> QED BY <1>1, <1>2, AlwaysSound, PTL DEF Spec

\* However many users ask at one time, as long as none writes on a check that another made
\* untrue, and where no worker dies and nobody edits behind running jobs: a live listing is
\* recorded as live or as being operated on, or the run that published it is about to
\* record it, unless neither its publication nor the second look was answered; then the row
\* keeps its approval and is one whose publication can be asked for again, or is queued.
THEOREM NoListingIsLost == Spec => []LiveIsKnown
<1>1. PublicationInv /\ KnownInv => LiveIsKnown
  <2> SUFFICES ASSUME PublicationInv, KnownInv, env \cap {"hastyEdits", "crashes"} = {},
                      ~overtaken, listing = "active"
               PROVE  LiveIsKnown
    BY DEF LiveIsKnown
  <2>1. Scope /\ Safe
    BY DEF Scope, Safe
  <2>2. Sound /\ Known
    BY <2>1 DEF PublicationInv, KnownInv
  <2>3. offer.approved
    BY <2>2 DEF Sound, Offers, Offered
  <2>4. CASE offer.listed
    <3>1. offer.status \in Live /\ offer.status # "WITHDRAWN"
      BY <2>1, <2>2, <2>4 DEF Sound, Offers, Offered
    <3> QED BY <3>1 DEF LiveIsKnown, Live
  <2>5. CASE ~offer.listed
    <3>1. offer.version \in Version /\ offer.remoteId /\ offer.fees
      BY <2>2, <2>3, <2>5 DEF Sound, Offers, Offered, Unrevised, Known, Priced
    <3>2. offer.status \in {"FEES_READY", "PUBLISH_QUEUED"}
      BY <2>2, <2>3, <2>5 DEF Known, Waiting
    <3>3. CASE unheard
      BY <2>3, <3>1, <3>2, <3>3 DEF LiveIsKnown, FeesReady
    <3>4. CASE Landing
      <4>1. PICK x \in Worker : pc[x][<<"PUBLISH", offer.version>>] \in {"recheck", "published"}
        BY <3>4 DEF Landing
      <4>2. PICK i : i = <<"PUBLISH", offer.version>>
        OBVIOUS
      <4>3. i \in Job /\ KindOf(i) = "PUBLISH" /\ pc[x][i] \notin {"idle", "complete"}
        BY <3>1, <4>1, <4>2, VersionJobs, JobShape
      <4>4. offer.status = "PUBLISH_QUEUED"
        BY <2>1, <2>2, <4>3, PublishFacts
      <4> QED BY <4>1, <4>4 DEF LiveIsKnown
    <3> QED BY <2>2, <2>5, <3>3, <3>4 DEF Known, Landed
  <2> QED BY <2>4, <2>5
<1> QED BY <1>1, AlwaysSound, AlwaysKnown, PTL

-----------------------------------------------------------------------------
(* What LiveAsApproved says of a step.                                        *)
Granted ==
    /\ listing # "active" /\ listing' = "active" =>
           (content \in {mandate, Foreign} \/ adopted) /\ item = mandate
    /\ listing = "active" /\ content' # content => content' \in {mandate, Foreign}

LEMMA GrantedIfUnseen ==
    ASSUME UNCHANGED <<listing, content>> PROVE Granted
BY DEF Granted

LEMMA RunStepIsGranted ==
    ASSUME Scope, Sound, NEW w \in Worker, NEW j \in Job, RunStep(w, j) \/ CallError(w, j)
    PROVE  Granted
<1>1. CASE UpdateOffer(w, j)
  <2>1. /\ pc[w][j] = "update" /\ content' = payload[w][j] /\ listing' = listing
    BY <1>1 DEF UpdateOffer, At
  <2>2. KindOf(j) = "PREPARE"
    BY <2>1, RunFacts DEF FitsKind
  <2>3. /\ content' = version /\ offer.version = version
        /\ Safe => ~offer.approved
    BY <2>1, <2>2, PrepareFacts DEF Ends
  <2>4. listing = "active" => offer.approved /\ mandate = offer.version
    BY <2>3 DEF Sound, Offers, Offered, Unrevised, Scope, Safe
  <2> QED BY <2>1, <2>3, <2>4 DEF Granted
<1>2. CASE CreateOffer(w, j)
  BY <1>2 DEF CreateOffer, Granted
<1>3. CASE PublishOffer(w, j)
  <2>1. pc[w][j] = "publish" /\ content' = content
    BY <1>3 DEF PublishOffer, At
  <2>2. KindOf(j) = "PUBLISH"
    BY <2>1, RunFacts DEF FitsKind
  <2>3. offer.version = version /\ offer.approved /\ Synced(version) /\ Unrevised
    BY <2>1, <2>2, PublishFacts
  <2>4. Faithful /\ mandate = offer.version /\ item = version
    BY <2>3 DEF Sound, Offers, Offered, ItemSynced
  <2> QED BY <2>1, <2>3, <2>4 DEF Granted, Faithful
<1>4. CASE Revise(w, j)
  <2>1. pc[w][j] = "revise" /\ content' = payload[w][j] /\ listing' = listing
    BY <1>4 DEF Revise, At
  <2>2. KindOf(j) = "REVISE" /\ payload[w][j] = version /\ mandate = version
    BY <2>1, RunFacts DEF FitsKind, RunHolds, Ends
  <2> QED BY <2>1, <2>2 DEF Granted
<1>5. CASE WithdrawOffer(w, j)
  BY <1>5 DEF WithdrawOffer, Granted
<1>6. CASE \/ Load(w, j) \/ Stage(w, j) \/ PutItem(w, j) \/ FindOffer(w, j)
           \/ RememberOffer(w, j) \/ GetListingFees(w, j) \/ RecordFees(w, j)
           \/ LookForListing(w, j) \/ RecordListing(w, j) \/ LookBefore(w, j)
           \/ LookAfter(w, j) \/ RecordRevision(w, j) \/ Peek(w, j) \/ Confirm(w, j)
           \/ RecordWithdrawal(w, j) \/ PersistReconciliation(w, j) \/ Recheck(w, j)
           \/ Complete(w, j) \/ Fail(w, j) \/ CallError(w, j)
  <2>1. UNCHANGED <<listing, content>>
    BY <1>6 DEF remoteVars, Load, Stage, PutItem, FindOffer, RememberOffer, GetListingFees,
         RecordFees, LookForListing, RecordListing, LookBefore, LookAfter, RecordRevision, Peek,
         Confirm, RecordWithdrawal, PersistReconciliation, Recheck, Complete, Fail, CallError
  <2> QED BY <2>1, GrantedIfUnseen
<1> QED BY <1>1, <1>2, <1>3, <1>4, <1>5, <1>6 DEF RunStep

LEMMA StepIsGranted ==
    ASSUME Scope, Sound, Next
    PROVE  Granted
<1>1. CASE Outsider
  BY <1>1 DEF Outsider, Granted
<1>2. CASE EditListingDraft \/ ValidateListingDraftLive
  BY <1>2, GrantedIfUnseen DEF EditListingDraft, ValidateListingDraftLive, remoteVars
<1>3. CASE \E u \in User : Begin(u) \/ Continue(u) \/ Abandon(u)
  <2>1. UNCHANGED <<listing, content>>
    BY <1>3 DEF remoteVars, Begin, Continue, Abandon, CreateInventoryPreparationJob,
         CreateEbayInventorySyncJob, CheckPreparation, CheckPublication, CheckOperation,
         UpsertOffer, Approve, QueueOfferJob, CreateOperationJob
  <2> QED BY <2>1, GrantedIfUnseen
<1>4. CASE \E w \in Worker : Die(w)
  BY <1>4, GrantedIfUnseen DEF Die, remoteVars
<1>5. ASSUME NEW w \in Worker, NEW j \in Job, Work(w, j) \/ CallError(w, j)
      PROVE  Granted
  <2>1. CASE Reclaim(w, j) \/ Claim(w, j)
    BY <2>1, GrantedIfUnseen DEF Reclaim, Claim, remoteVars
  <2> QED BY <1>5, <2>1, RunStepIsGranted DEF Work
<1> QED BY <1>1, <1>2, <1>3, <1>4, <1>5 DEF Next

\* However many users ask at one time, as long as none writes on a check that another made
\* untrue, and where nobody edits behind running jobs, nothing goes live that users did
\* not approve last, whatever calls fail and whoever changes the listing on eBay; with
\* operations also only where no process dies.
THEOREM OnlyApprovedGoesLive == Spec => LiveAsApproved
<1>1. PublicationInv /\ [Next]_vars =>
        [("hastyEdits" \notin env /\ ~({"crashes", "operations"} \subseteq env) /\ ~overtaken) =>
            /\ listing # "active" /\ listing' = "active" =>
                   (content \in {mandate, Foreign} \/ adopted) /\ item = mandate
            /\ listing = "active" /\ content' # content => content' \in {mandate, Foreign}]_vars
  BY StepIsGranted DEF PublicationInv, Scope, Granted
<1> QED BY <1>1, AlwaysSound, PTL DEF Spec, LiveAsApproved
=============================================================================
