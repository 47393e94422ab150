----------------------------- MODULE Idempotency -----------------------------
(* executeIdempotent of idempotency-service.ts, around the commands that     *)
(* create jobs, drafts, offers and listing operations: HTTP requests of one  *)
(* organization and operation, some with the same Idempotency-Key.  The      *)
(* command itself is a transaction that takes effect or does not; a request  *)
(* hash is the body (requestHash is injective for what matters here).        *)
CONSTANTS
    Request, Key, NoKey, NoRecord,
    KeyOf,          \* the Idempotency-Key of each request, or NoKey
    BodyOf,         \* the body of each request
    Mortal,         \* requests whose API process may die under them
    CommandErrors,  \* may a command fail?
    Expiry,         \* do 24 hours pass?
    FaultSets       \* the sets of faults to consider, see faults

ASSUME IdempotencyAssumption ==
    /\ KeyOf \in [Request -> Key \cup {NoKey}]
    /\ NoKey \notin Key /\ NoRecord \notin Request
    /\ Mortal \subseteq Request
    /\ {"conflict", "error"} \cap Request = {}
    /\ {CommandErrors, Expiry} \subseteq BOOLEAN
    /\ FaultSets \subseteq SUBSET {"dbErrors", "slowCommands"}

(* The faults a behaviour may meet, fixed from its start: statements on the  *)
(* record that fail, commands that take longer than the 24 hours of a record.*)
VARIABLE faults

VARIABLES
    holder,     \* the request that created the IdempotencyRecord of each key
    completed,  \* the keys whose record is COMPLETED, with its response
    expired,    \* the keys whose record is past expiresAt
    performed,  \* the requests whose command took effect
    pc, found,  \* executeIdempotent of each request
    reply       \* the request whose response it returned, or the error it threw

recordVars == <<holder, completed, expired>>
vars == <<faults, recordVars, performed, pc, found, reply>>

TypeOK ==
    /\ faults \in FaultSets
    /\ holder \in [Key -> Request \cup {NoRecord}]
    /\ completed \in SUBSET Key
    /\ expired \in SUBSET Key
    /\ \A k \in Key : holder[k] = NoRecord => k \notin completed \cup expired
    /\ performed \in SUBSET Request
    /\ pc \in [Request -> {"new", "direct", "drop", "reserve", "lookup", "execute",
                           "complete", "release", "done", "lost"}]
    /\ found \in [Request -> Request \cup {NoRecord}]
    /\ reply \in [Request -> {{}} \cup {{x} : x \in Request \cup {"conflict", "error"}}]

Init ==
    /\ faults \in FaultSets
    /\ holder = [k \in Key |-> NoRecord]
    /\ completed = {}
    /\ expired = {}
    /\ performed = {}
    /\ pc = [r \in Request |-> "new"]
    /\ found = [r \in Request |-> NoRecord]
    /\ reply = [r \in Request |-> {}]

Goto(r, label) == pc' = [pc EXCEPT ![r] = label]

Return(r, x) ==
    /\ reply' = [reply EXCEPT ![r] = {x}]
    /\ pc' = [pc EXCEPT ![r] = "done"]

DeleteRecord(k) ==
    /\ holder' = [holder EXCEPT ![k] = NoRecord]
    /\ completed' = completed \ {k}
    /\ expired' = expired \ {k}

-----------------------------------------------------------------------------
(* replay, on a record just read.                                            *)
ReplayAnyBody(r, k) ==   \* mutant: the hash is not compared
    Return(r, IF k \in completed THEN holder[k] ELSE "conflict")
Replay(r, k) ==
    Return(r, IF k \in completed /\ BodyOf[holder[k]] = BodyOf[r]
              THEN holder[k] ELSE "conflict")

Find(r) ==
    LET k == KeyOf[r] IN
    /\ pc[r] = "new"
    /\ \/ k = NoKey /\ Goto(r, "direct") /\ UNCHANGED <<found, reply>>
       \/ /\ k \in Key
          /\ found' = [found EXCEPT ![r] = holder[k]]
          /\ \/ holder[k] = NoRecord /\ Goto(r, "reserve") /\ UNCHANGED reply
             \/ k \in expired /\ Goto(r, "drop") /\ UNCHANGED reply
             \/ holder[k] # NoRecord /\ k \notin expired /\ Replay(r, k)
    /\ UNCHANGED <<faults, recordVars, performed>>

(* A request without a key just runs its command.                            *)
Direct(r) ==
    /\ pc[r] = "direct"
    /\ \/ Return(r, r) /\ performed' = performed \cup {r}
       \/ CommandErrors /\ Return(r, "error") /\ UNCHANGED performed
    /\ UNCHANGED <<faults, recordVars, found>>

(* The delete asks for the id that was read, and for its expiry again.       *)
StaleByKey(r) == holder[KeyOf[r]] # NoRecord   \* mutant: deletes by the key
Stale(r) == holder[KeyOf[r]] = found[r] /\ KeyOf[r] \in expired

Drop(r) ==
    /\ pc[r] = "drop"
    /\ IF Stale(r) THEN DeleteRecord(KeyOf[r]) ELSE UNCHANGED recordVars
    /\ Goto(r, "reserve")
    /\ UNCHANGED <<faults, performed, found, reply>>

(* The unique key admits one record; the others look it up.                  *)
Reserve(r) ==
    LET k == KeyOf[r] IN
    /\ pc[r] = "reserve"
    /\ IF holder[k] = NoRecord THEN holder' = [holder EXCEPT ![k] = r] /\ Goto(r, "execute")
                  ELSE UNCHANGED holder /\ Goto(r, "lookup")
    /\ UNCHANGED <<faults, completed, expired, performed, found, reply>>

(* This time the record is replayed whether or not it has expired.           *)
Lookup(r) ==
    LET k == KeyOf[r] IN
    /\ pc[r] = "lookup"
    /\ IF holder[k] = NoRecord THEN Return(r, "error") ELSE Replay(r, k)
    /\ UNCHANGED <<faults, recordVars, performed, found>>

Execute(r) ==
    /\ pc[r] = "execute"
    /\ \/ performed' = performed \cup {r} /\ Goto(r, "complete")
       \/ CommandErrors /\ Goto(r, "release") /\ UNCHANGED performed
    /\ UNCHANGED <<faults, recordVars, found, reply>>

(* The update by id fails when the record has been deleted.  A failed        *)
(* statement may have taken effect before its connection was lost.           *)
HoldsAnyway(r) == TRUE   \* mutant: the update does not ask whose record it is
Holds(r) == holder[KeyOf[r]] = r

Complete(r) ==
    LET k == KeyOf[r] IN
    /\ pc[r] = "complete"
    /\ \/ /\ Holds(r)
          /\ completed' = completed \cup {k}
          /\ Return(r, r) \/ ("dbErrors" \in faults /\ Goto(r, "release") /\ UNCHANGED reply)
       \/ /\ ~Holds(r) \/ "dbErrors" \in faults
          /\ Goto(r, "release")
          /\ UNCHANGED <<completed, reply>>
    /\ UNCHANGED <<faults, holder, expired, performed, found>>

NeverReleases(r) == FALSE   \* mutant: the catch block only rethrows
Releases(r) == Holds(r) /\ KeyOf[r] \notin completed

(* The catch block, which throws the error on whether or not it released.    *)
Release(r) ==
    /\ pc[r] = "release"
    /\ \/ IF Releases(r) THEN DeleteRecord(KeyOf[r]) ELSE UNCHANGED recordVars
       \/ "dbErrors" \in faults /\ UNCHANGED recordVars
    /\ Return(r, "error")
    /\ UNCHANGED <<faults, performed, found>>

(* A statement before the command fails: the request fails with it.          *)
DbError(r) ==
    /\ "dbErrors" \in faults
    /\ KeyOf[r] \in Key
    /\ pc[r] \in {"new", "drop", "reserve", "lookup"}
    /\ Return(r, "error")
    /\ UNCHANGED <<faults, recordVars, performed, found>>

Die(r) ==
    /\ r \in Mortal
    /\ pc[r] \notin {"done", "lost"}
    /\ Goto(r, "lost")
    /\ UNCHANGED <<faults, recordVars, performed, found, reply>>

(* 24 hours after the reservation, if need be with the command still running.*)
Expire(k) ==
    /\ Expiry
    /\ holder[k] # NoRecord
    /\ k \notin expired
    /\ "slowCommands" \in faults \/ pc[holder[k]] \in {"done", "lost"}
    /\ expired' = expired \cup {k}
    /\ UNCHANGED <<faults, holder, completed, performed, pc, found, reply>>

(* A retention run deletes expired records (retention-service.ts).           *)
Purge(k) ==
    /\ k \in expired
    /\ DeleteRecord(k)
    /\ UNCHANGED <<faults, performed, pc, found, reply>>

-----------------------------------------------------------------------------
RequestStep(r) ==
    \/ Find(r)   \/ Direct(r)  \/ Drop(r)     \/ Reserve(r)
    \/ Lookup(r) \/ Execute(r) \/ Complete(r) \/ Release(r)

Next ==
    \/ \E r \in Request : RequestStep(r) \/ DbError(r) \/ Die(r)
    \/ \E k \in Key : Expire(k) \/ Purge(k)

Spec == Init /\ [][Next]_vars

(* A process runs the requests it accepted.                                  *)
FairSpec == Spec /\ \A r \in Request : WF_vars(RequestStep(r))

-----------------------------------------------------------------------------
\* The key keeps the promise of IdempotentCommand: between two expiries of its record
\* one command takes effect at most, also when the client repeats the request while
\* another is running, after a failure or after a crash.  It is claimed of behaviours
\* without the two faults; of the others the promise is shown nothing.
Orderly == faults = {}

Promise == INSTANCE IdempotentCommand WITH
    Refusals <- {"conflict", "error"},
    stands <- [k \in Key |-> IF Orderly THEN {holder[k]} \cap performed ELSE {}],
    performed <- IF Orderly THEN performed ELSE {},
    answer <- IF Orderly THEN reply ELSE [r \in Request |-> {}]

OncePerKey == Promise!Spec

\* Whatever fails or expires, a response that is replayed belongs to a command that
\* took effect, for the same key and the same body.
AnswersAreBacked ==
    \A r \in Request : \A x \in reply[r] \cap Request :
        x \in performed /\ KeyOf[x] = KeyOf[r] /\ BodyOf[x] = BodyOf[r]

\* A key does not stay reserved: its request completes the record, releases it or dies.
ReservationsSettle ==
    "dbErrors" \notin faults =>
        \A k \in Key : holder[k] # NoRecord /\ k \notin completed ~>
            \/ holder[k] = NoRecord \/ k \in completed
            \/ \E r \in Request : holder[k] = r /\ pc[r] = "lost"
=============================================================================
