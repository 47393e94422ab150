-------------------------- MODULE Idempotency_proofs --------------------------
(* Proofs about Idempotency.  BackedInv, which holds whatever fails, says where *)
(* the answers come from; OrderInv adds what holds while a record outlives the  *)
(* request that made it and its completion does not fail.                       *)
EXTENDS Idempotency, TLAPS

BeforeEffect == {"new", "direct", "drop", "reserve", "lookup", "execute"}
OnRecord     == {"drop", "reserve", "lookup", "execute", "complete", "release"}

\* A record belongs to a request with its key, a COMPLETED one to one that took effect.
RecordsAreOwn ==
    \A k \in Key :
        /\ holder[k] # NoRecord => KeyOf[holder[k]] = k
        /\ k \in completed => holder[k] \in performed

RequestsAreOrdered ==
    \A r \in Request :
        /\ pc[r] = "complete" => r \in performed
        /\ pc[r] \in BeforeEffect => r \notin performed
        /\ pc[r] # "done" => reply[r] = {}
        /\ pc[r] \in OnRecord => KeyOf[r] \in Key
        /\ pc[r] = "direct" => KeyOf[r] = NoKey

BackedInv == TypeOK /\ RecordsAreOwn /\ RequestsAreOrdered /\ AnswersAreBacked

LEMMA BackedInit == Init => BackedInv
  BY IdempotencyAssumption
     DEF IdempotencyAssumption, Init, BackedInv, TypeOK, RecordsAreOwn, RequestsAreOrdered,
         AnswersAreBacked, BeforeEffect, OnRecord

\* An answer is a set of one thing that was there to be told.
LEMMA ReturnType ==
  ASSUME TypeOK, NEW r \in Request, NEW x \in Request \cup {"conflict", "error"}, Return(r, x)
  PROVE  /\ reply' \in [Request -> {{}} \cup {{y} : y \in Request \cup {"conflict", "error"}}]
         /\ pc' \in [Request -> {"new", "direct", "drop", "reserve", "lookup", "execute",
                                 "complete", "release", "done", "lost"}]
         /\ reply'[r] = {x} /\ pc'[r] = "done"
         /\ \A q \in Request \ {r} : reply'[q] = reply[q] /\ pc'[q] = pc[q]
  BY DEF TypeOK, Return

LEMMA GotoType ==
  ASSUME TypeOK, NEW r \in Request,
         NEW l \in {"direct", "drop", "reserve", "lookup", "execute", "complete", "release",
                    "lost"},
         Goto(r, l)
  PROVE  /\ pc' \in [Request -> {"new", "direct", "drop", "reserve", "lookup", "execute",
                                 "complete", "release", "done", "lost"}]
         /\ pc'[r] = l
         /\ \A q \in Request \ {r} : pc'[q] = pc[q]
  BY DEF TypeOK, Goto

LEMMA BackedStep == BackedInv /\ [Next]_vars => BackedInv'
<1> SUFFICES ASSUME BackedInv, [Next]_vars PROVE BackedInv'
  OBVIOUS
<1> USE IdempotencyAssumption DEF IdempotencyAssumption
<1>1. ASSUME UNCHANGED vars PROVE BackedInv'
  BY <1>1 DEF BackedInv, TypeOK, RecordsAreOwn, RequestsAreOrdered, AnswersAreBacked,
              vars, recordVars
<1>2. ASSUME NEW r \in Request, Find(r) PROVE BackedInv'
  <2>1. CASE Goto(r, "direct") /\ KeyOf[r] = NoKey /\ UNCHANGED <<found, reply>>
    BY <1>2, <2>1, GotoType DEF Find, BackedInv, TypeOK, RecordsAreOwn, RequestsAreOrdered,
       AnswersAreBacked, recordVars, BeforeEffect, OnRecord
  <2>2. ASSUME NEW l \in {"reserve", "drop"}, Goto(r, l), KeyOf[r] \in Key, UNCHANGED reply,
               found' = [found EXCEPT ![r] = holder[KeyOf[r]]]
        PROVE  BackedInv'
    BY <1>2, <2>2, GotoType DEF Find, BackedInv, TypeOK, RecordsAreOwn, RequestsAreOrdered,
       AnswersAreBacked, recordVars, BeforeEffect, OnRecord
  <2>3. ASSUME KeyOf[r] \in Key, holder[KeyOf[r]] # NoRecord, Replay(r, KeyOf[r]),
               found' = [found EXCEPT ![r] = holder[KeyOf[r]]]
        PROVE  BackedInv'
    <3> DEFINE k == KeyOf[r]
               x == IF k \in completed /\ BodyOf[holder[k]] = BodyOf[r]
                    THEN holder[k] ELSE "conflict"
    <3>1. x \in Request \cup {"conflict", "error"} /\ Return(r, x)
      BY <2>3 DEF Replay, BackedInv, TypeOK
    <3>2. x \in Request => x \in performed /\ KeyOf[x] = KeyOf[r] /\ BodyOf[x] = BodyOf[r]
      BY <2>3 DEF BackedInv, RecordsAreOwn
    <3> HIDE DEF x
    <3> QED
      BY <1>2, <2>3, <3>1, <3>2, ReturnType, SMTT(30) DEF Find, BackedInv, TypeOK, RecordsAreOwn,
         RequestsAreOrdered, AnswersAreBacked, recordVars, BeforeEffect, OnRecord
  <2> QED
    BY <1>2, <2>1, <2>2, <2>3 DEF Find
<1>3. ASSUME NEW r \in Request, Direct(r) PROVE BackedInv'
  <2>1. CASE Return(r, r) /\ performed' = performed \cup {r}
    BY <1>3, <2>1, ReturnType, SMTT(30) DEF Direct, BackedInv, TypeOK, RecordsAreOwn,
       RequestsAreOrdered, AnswersAreBacked, recordVars, BeforeEffect, OnRecord
  <2>2. CASE Return(r, "error") /\ UNCHANGED performed
    BY <1>3, <2>2, ReturnType, SMTT(30) DEF Direct, BackedInv, TypeOK, RecordsAreOwn,
       RequestsAreOrdered, AnswersAreBacked, recordVars, BeforeEffect, OnRecord
  <2> QED
    BY <1>3, <2>1, <2>2 DEF Direct
<1>4. ASSUME NEW r \in Request, Drop(r) PROVE BackedInv'
  BY <1>4, GotoType DEF Drop, DeleteRecord, BackedInv, TypeOK, RecordsAreOwn,
     RequestsAreOrdered, AnswersAreBacked, recordVars, BeforeEffect, OnRecord
<1>5. ASSUME NEW r \in Request, Reserve(r) PROVE BackedInv'
  <2>1. KeyOf[r] \in Key
    BY <1>5 DEF Reserve, BackedInv, RequestsAreOrdered, OnRecord
  <2> QED
    BY <1>5, <2>1, GotoType DEF Reserve, BackedInv, TypeOK, RecordsAreOwn,
       RequestsAreOrdered, AnswersAreBacked, BeforeEffect, OnRecord
<1>6. ASSUME NEW r \in Request, Lookup(r) PROVE BackedInv'
  <2> DEFINE k == KeyOf[r]
  <2>1. k \in Key
    BY <1>6 DEF Lookup, BackedInv, RequestsAreOrdered, OnRecord
  <2> DEFINE x == IF holder[k] = NoRecord THEN "error"
                  ELSE IF k \in completed /\ BodyOf[holder[k]] = BodyOf[r]
                       THEN holder[k] ELSE "conflict"
  <2>2. x \in Request \cup {"conflict", "error"} /\ Return(r, x)
    BY <1>6, <2>1 DEF Lookup, Replay, BackedInv, TypeOK
  <2>3. x \in Request => x \in performed /\ KeyOf[x] = KeyOf[r] /\ BodyOf[x] = BodyOf[r]
    BY <2>1 DEF BackedInv, RecordsAreOwn
  <2> HIDE DEF x, k
  <2> QED
    BY <1>6, <2>2, <2>3, ReturnType DEF Lookup, BackedInv, TypeOK, RecordsAreOwn,
       RequestsAreOrdered, AnswersAreBacked, recordVars, BeforeEffect, OnRecord
<1>7. ASSUME NEW r \in Request, Execute(r) PROVE BackedInv'
  BY <1>7, GotoType DEF Execute, BackedInv, TypeOK, RecordsAreOwn, RequestsAreOrdered,
     AnswersAreBacked, recordVars, BeforeEffect, OnRecord
<1>8. ASSUME NEW r \in Request, Complete(r) PROVE BackedInv'
  <2>1. KeyOf[r] \in Key /\ r \in performed
    BY <1>8 DEF Complete, BackedInv, RequestsAreOrdered, OnRecord
  <2>2. ASSUME completed' = completed \cup {KeyOf[r]}, Holds(r), Return(r, r) PROVE BackedInv'
    BY <1>8, <2>1, <2>2, ReturnType DEF Complete, Holds, BackedInv, TypeOK, RecordsAreOwn,
       RequestsAreOrdered, AnswersAreBacked, BeforeEffect, OnRecord
  <2>3. ASSUME completed' = completed \cup {KeyOf[r]}, Holds(r), Goto(r, "release"),
               UNCHANGED reply
        PROVE  BackedInv'
    BY <1>8, <2>1, <2>3, GotoType DEF Complete, Holds, BackedInv, TypeOK, RecordsAreOwn,
       RequestsAreOrdered, AnswersAreBacked, BeforeEffect, OnRecord
  <2>4. ASSUME Goto(r, "release"), UNCHANGED <<completed, reply>> PROVE BackedInv'
    BY <1>8, <2>1, <2>4, GotoType DEF Complete, BackedInv, TypeOK, RecordsAreOwn,
       RequestsAreOrdered, AnswersAreBacked, BeforeEffect, OnRecord
  <2> QED
    BY <1>8, <2>2, <2>3, <2>4 DEF Complete
<1>9. ASSUME NEW r \in Request, Release(r) PROVE BackedInv'
  <2>1. Return(r, "error") /\ pc[r] = "release" /\ UNCHANGED <<faults, performed, found>>
    BY <1>9 DEF Release
  <2>2. DeleteRecord(KeyOf[r]) \/ UNCHANGED recordVars
    BY <1>9 DEF Release
  <2> QED
    BY <2>1, <2>2, ReturnType DEF DeleteRecord, BackedInv, TypeOK, RecordsAreOwn,
       RequestsAreOrdered, AnswersAreBacked, recordVars, BeforeEffect, OnRecord
<1>10. ASSUME NEW r \in Request, DbError(r) PROVE BackedInv'
  BY <1>10, ReturnType DEF DbError, BackedInv, TypeOK, RecordsAreOwn, RequestsAreOrdered,
     AnswersAreBacked, recordVars, BeforeEffect, OnRecord
<1>11. ASSUME NEW r \in Request, Die(r) PROVE BackedInv'
  BY <1>11, GotoType DEF Die, BackedInv, TypeOK, RecordsAreOwn, RequestsAreOrdered,
     AnswersAreBacked, recordVars, BeforeEffect, OnRecord
<1>12. ASSUME NEW k \in Key, Expire(k) PROVE BackedInv'
  BY <1>12 DEF Expire, BackedInv, TypeOK, RecordsAreOwn, RequestsAreOrdered, AnswersAreBacked
<1>13. ASSUME NEW k \in Key, Purge(k) PROVE BackedInv'
  BY <1>13 DEF Purge, DeleteRecord, BackedInv, TypeOK, RecordsAreOwn, RequestsAreOrdered,
     AnswersAreBacked
<1> QED
  BY <1>1, <1>2, <1>3, <1>4, <1>5, <1>6, <1>7, <1>8, <1>9, <1>10, <1>11, <1>12, <1>13
     DEF Next, RequestStep

LEMMA BackedAlways == Spec => []BackedInv
  BY BackedInit, BackedStep, PTL DEF Spec

\* The records and the requests always have their types.
THEOREM RequestTypes == Spec => []TypeOK
<1>1. BackedInv => TypeOK
  BY DEF BackedInv
<1> QED
  BY <1>1, BackedAlways, PTL

\* However requests, crashes, errors and expiries interleave, a client is only ever
\* given the response of a command with its own key and body that took effect.
THEOREM AnswersBacked == Spec => []AnswersAreBacked
<1>1. BackedInv => AnswersAreBacked
  BY DEF BackedInv
<1> QED
  BY <1>1, BackedAlways, PTL

-----------------------------------------------------------------------------
(* With statements that do not fail and commands that end within a day         *)
(* (Orderly), the request at work on a record still holds it, so nobody can    *)
(* make another.                                                               *)
HoldersAtWork ==
    \A r \in Request :
        /\ pc[r] \in {"execute", "complete"} => Holds(r)
        /\ pc[r] = "release" => Holds(r) /\ r \notin performed

ExpiredAreOver == \A k \in expired : pc[holder[k]] \in {"done", "lost"}

OrderInv == HoldersAtWork /\ ExpiredAreOver

LEMMA OrderStep == Orderly /\ BackedInv /\ OrderInv /\ [Next]_vars => OrderInv'
<1> SUFFICES ASSUME Orderly, BackedInv, OrderInv, [Next]_vars PROVE OrderInv'
  OBVIOUS
<1> USE IdempotencyAssumption DEF IdempotencyAssumption, OrderInv, HoldersAtWork,
        ExpiredAreOver, Holds
<1>0. TypeOK
  BY DEF BackedInv
<1>1. CASE UNCHANGED vars
  BY <1>1 DEF vars, recordVars
<1>2. ASSUME NEW r \in Request, Find(r) PROVE OrderInv'
  BY <1>0, <1>2 DEF Find, Replay, Return, Goto, recordVars, TypeOK
<1>3. ASSUME NEW r \in Request, Direct(r) PROVE OrderInv'
  <2>1. \A q \in Request : pc[q] = "release" => q # r
    BY <1>3 DEF Direct
  <2> QED
    BY <1>0, <1>3, <2>1 DEF Direct, Return, recordVars, TypeOK
<1>4. ASSUME NEW r \in Request, Drop(r) PROVE OrderInv'
  <2>1. KeyOf[r] \in Key
    BY <1>4 DEF Drop, BackedInv, RequestsAreOrdered, OnRecord
  <2>2. CASE Stale(r)
    <3>1. \A q \in Request : pc[q] \in {"execute", "complete", "release"} => KeyOf[q] # KeyOf[r]
      BY <2>1, <2>2 DEF Stale
    <3> QED
      BY <1>0, <1>4, <2>1, <2>2, <3>1 DEF Drop, DeleteRecord, Goto, TypeOK, BackedInv,
         RequestsAreOrdered, OnRecord
  <2>3. CASE ~Stale(r)
    BY <1>0, <1>4, <2>3 DEF Drop, Goto, recordVars, TypeOK
  <2> QED
    BY <2>2, <2>3
<1>5. ASSUME NEW r \in Request, Reserve(r) PROVE OrderInv'
  <2>1. KeyOf[r] \in Key
    BY <1>5 DEF Reserve, BackedInv, RequestsAreOrdered, OnRecord
  <2>2. CASE holder[KeyOf[r]] = NoRecord
    <3>1. KeyOf[r] \notin expired
      BY <1>0, <2>1, <2>2 DEF TypeOK
    <3>2. \A q \in Request : pc[q] \in {"execute", "complete", "release"}
                              => KeyOf[q] \in Key \ {KeyOf[r]}
      BY <1>0, <2>2 DEF BackedInv, RequestsAreOrdered, OnRecord, TypeOK
    <3>3. \A k \in expired : holder[k] # r
      BY <1>5 DEF Reserve
    <3> QED
      BY <1>0, <1>5, <2>1, <2>2, <3>1, <3>2, <3>3 DEF Reserve, Goto, TypeOK
  <2>3. CASE holder[KeyOf[r]] # NoRecord
    BY <1>0, <1>5, <2>3 DEF Reserve, Goto, TypeOK
  <2> QED
    BY <2>2, <2>3
<1>6. ASSUME NEW r \in Request, Lookup(r) PROVE OrderInv'
  BY <1>0, <1>6 DEF Lookup, Replay, Return, recordVars, TypeOK
<1>7. ASSUME NEW r \in Request, Execute(r) PROVE OrderInv'
  BY <1>0, <1>7 DEF Execute, Goto, recordVars, TypeOK, BackedInv, RequestsAreOrdered, BeforeEffect
<1>8. ASSUME NEW r \in Request, Complete(r) PROVE OrderInv'
  BY <1>0, <1>8 DEF Complete, Return, Goto, TypeOK, Orderly
<1>9. ASSUME NEW r \in Request, Release(r) PROVE OrderInv'
  <2>1. KeyOf[r] \in Key
    BY <1>9 DEF Release, BackedInv, RequestsAreOrdered, OnRecord
  <2>2. CASE Releases(r) /\ DeleteRecord(KeyOf[r])
    <3>1. \A q \in Request \ {r} :
            pc[q] \in {"execute", "complete", "release"} => KeyOf[q] # KeyOf[r]
      BY <2>2 DEF Releases
    <3> QED
      BY <1>0, <1>9, <2>1, <2>2, <3>1 DEF Release, DeleteRecord, Return, TypeOK
  <2>3. CASE UNCHANGED recordVars
    BY <1>0, <1>9, <2>3 DEF Release, Return, recordVars, TypeOK
  <2> QED
    BY <1>9, <2>2, <2>3 DEF Release
<1>10. ASSUME NEW r \in Request, DbError(r) PROVE OrderInv'
  BY <1>10 DEF DbError, Orderly
<1>11. ASSUME NEW r \in Request, Die(r) PROVE OrderInv'
  BY <1>0, <1>11 DEF Die, Goto, recordVars, TypeOK
<1>12. ASSUME NEW k \in Key, Expire(k) PROVE OrderInv'
  BY <1>0, <1>12 DEF Expire, TypeOK, Orderly
<1>13. ASSUME NEW k \in Key, Purge(k) PROVE OrderInv'
  BY <1>0, <1>13 DEF Purge, DeleteRecord, TypeOK
<1> QED
  BY <1>1, <1>2, <1>3, <1>4, <1>5, <1>6, <1>7, <1>8, <1>9, <1>10, <1>11, <1>12, <1>13
     DEF Next, RequestStep

(* Every step is a step of IdempotentCommand or leaves what it speaks of alone.*)
Stands    == [k \in Key |-> IF Orderly THEN {holder[k]} \cap performed ELSE {}]
Performed == IF Orderly THEN performed ELSE {}
Answer    == IF Orderly THEN reply ELSE [r \in Request |-> {}]

LEMMA FaultsFixed == [Next]_vars => faults' = faults
  BY DEF Next, RequestStep, Find, Direct, Drop, Reserve, Lookup, Execute, Complete, Release,
         DbError, Die, Expire, Purge, vars

LEMMA OrderlyPromiseStep ==
  Orderly /\ BackedInv /\ OrderInv /\ [Next]_vars
    => [Promise!Next]_<<Stands, Performed, Answer>>
<1> SUFFICES ASSUME Orderly, BackedInv, OrderInv, [Next]_vars
             PROVE  [Promise!Next]_<<Stands, Performed, Answer>>
  OBVIOUS
<1> USE IdempotencyAssumption DEF IdempotencyAssumption
<1>0. TypeOK /\ NoRecord \notin performed
  BY DEF BackedInv, TypeOK
<1>o. Orderly'
  BY FaultsFixed DEF Orderly
<1> USE <1>o
<1> DEFINE S == [k \in Key |-> IF Orderly THEN {holder[k]} \cap performed ELSE {}]
           Stutter == UNCHANGED <<S, performed, reply>>
<1>a. ASSUME NEW r \in Request, NEW x, Return(r, x), pc[r] # "done",
             x \in {"conflict", "error"} \/
               (x \in performed' /\ KeyOf[x] = KeyOf[r] /\ BodyOf[x] = BodyOf[r])
      PROVE  Promise!Tell(r)
  <2>1. reply[r] = {}
    BY <1>a DEF BackedInv, RequestsAreOrdered
  <2> QED
    BY <1>a, <2>1 DEF Promise!Tell, Return
<1>b. ASSUME NEW k \in Key, DeleteRecord(k), UNCHANGED <<performed, reply>>
      PROVE  Promise!Forget(k) \/ Stutter
  <2>1. \A m \in Key : holder'[m] = IF m = k THEN NoRecord ELSE holder[m]
    BY <1>0, <1>b DEF DeleteRecord, TypeOK
  <2>2. \A m \in Key : S'[m] = IF m = k THEN {} ELSE S[m]
    BY <1>0, <1>b, <2>1
  <2>3. S' = [S EXCEPT ![k] = {}]
    BY <2>2
  <2>4. S[k] = {} => S' = S
    BY <2>2
  <2> QED
    BY <1>b, <2>3, <2>4 DEF Promise!Forget
<1>1. ASSUME UNCHANGED vars PROVE Stutter
  BY <1>1 DEF vars, recordVars
<1>2. ASSUME NEW r \in Request, Find(r) PROVE Stutter \/ (Promise!Tell(r) /\ UNCHANGED <<S, performed>>)
  <2>1. CASE UNCHANGED reply
    BY <1>2, <2>1 DEF Find, recordVars
  <2>2. CASE KeyOf[r] \in Key /\ Replay(r, KeyOf[r])
    <3>1. KeyOf[r] \in completed => holder[KeyOf[r]] \in performed /\ KeyOf[holder[KeyOf[r]]] = KeyOf[r]
      BY <1>0, <2>2 DEF BackedInv, RecordsAreOwn
    <3>2. Promise!Tell(r)
      BY <1>2, <1>a, <2>2, <3>1 DEF Find, Replay
    <3> QED
      BY <1>2, <3>2 DEF Find, recordVars
  <2> QED
    BY <1>2, <2>1, <2>2 DEF Find
<1>3. ASSUME NEW r \in Request, Direct(r)
      PROVE  \/ Promise!Perform(r) /\ Promise!Tell(r)
             \/ Promise!Tell(r) /\ UNCHANGED <<S, performed>>
  <2>1. r \notin performed /\ KeyOf[r] = NoKey
    BY <1>3 DEF Direct, BackedInv, RequestsAreOrdered, BeforeEffect
  <2>2. CASE Return(r, r) /\ performed' = performed \cup {r}
    <3>1. \A k \in Key : holder[k] # r
      BY <1>0, <2>1 DEF BackedInv, RecordsAreOwn, TypeOK
    <3>2. S' = S
      BY <1>3, <2>2, <3>1 DEF Direct, recordVars
    <3> QED
      BY <1>3, <1>a, <2>1, <2>2, <3>2 DEF Direct, Promise!Perform
  <2>3. CASE Return(r, "error") /\ UNCHANGED performed
    BY <1>3, <1>a, <2>3 DEF Direct, recordVars
  <2> QED
    BY <1>3, <2>2, <2>3 DEF Direct
<1>4. ASSUME NEW r \in Request, Drop(r) PROVE Stutter \/ (Promise!Forget(KeyOf[r]) /\ KeyOf[r] \in Key)
  <2>1. KeyOf[r] \in Key
    BY <1>4 DEF Drop, BackedInv, RequestsAreOrdered, OnRecord
  <2> QED
    BY <1>4, <1>b, <2>1 DEF Drop, recordVars
<1>5. ASSUME NEW r \in Request, Reserve(r) PROVE Stutter
  <2>1. KeyOf[r] \in Key /\ r \notin performed
    BY <1>5 DEF Reserve, BackedInv, RequestsAreOrdered, BeforeEffect, OnRecord
  <2> QED
    BY <1>0, <1>5, <2>1 DEF Reserve, TypeOK
<1>6. ASSUME NEW r \in Request, Lookup(r) PROVE Promise!Tell(r) /\ UNCHANGED <<S, performed>>
  <2>1. KeyOf[r] \in Key
    BY <1>6 DEF Lookup, BackedInv, RequestsAreOrdered, OnRecord
  <2>2. KeyOf[r] \in completed => holder[KeyOf[r]] \in performed /\ KeyOf[holder[KeyOf[r]]] = KeyOf[r]
    BY <1>0, <2>1 DEF BackedInv, RecordsAreOwn
  <2>3. Promise!Tell(r)
    BY <1>6, <1>a, <2>2 DEF Lookup, Replay
  <2> QED
    BY <1>6, <2>3 DEF Lookup, recordVars
<1>7. ASSUME NEW r \in Request, Execute(r)
      PROVE  Stutter \/ (Promise!Perform(r) /\ UNCHANGED reply)
  <2>1. KeyOf[r] \in Key /\ r \notin performed /\ holder[KeyOf[r]] = r
    BY <1>7 DEF Execute, BackedInv, RequestsAreOrdered, BeforeEffect, OnRecord, OrderInv,
       HoldersAtWork, Holds
  <2>2. CASE performed' = performed \cup {r}
    <3>1. \A k \in Key : holder[k] = r => k = KeyOf[r]
      BY <1>0 DEF BackedInv, RecordsAreOwn, TypeOK
    <3>2. S = [k \in Key |-> {holder[k]} \cap performed]
      OBVIOUS
    <3>3. S' = [k \in Key |-> {holder[k]} \cap (performed \cup {r})]
      BY <1>7, <2>2 DEF Execute, recordVars
    <3>4. \A k \in Key : {holder[k]} \cap (performed \cup {r})
                          = IF k = KeyOf[r] THEN {r} ELSE {holder[k]} \cap performed
      BY <2>1, <3>1
    <3>5. {holder[KeyOf[r]]} \cap performed = {}
      BY <2>1
    <3> HIDE DEF S
    <3>6. S[KeyOf[r]] = {} /\ S' = [S EXCEPT ![KeyOf[r]] = {r}]
      BY <2>1, <3>2, <3>3, <3>4, <3>5
    <3>7. r \notin performed /\ performed' = performed \cup {r} /\ UNCHANGED reply
      BY <1>7, <2>1, <2>2 DEF Execute
    <3> QED
      BY <2>1, <3>6, <3>7 DEF Promise!Perform, S
  <2>3. CASE UNCHANGED performed
    BY <1>7, <2>3 DEF Execute, recordVars
  <2> QED
    BY <1>7, <2>2, <2>3 DEF Execute
<1>8. ASSUME NEW r \in Request, Complete(r) PROVE Promise!Tell(r) /\ UNCHANGED <<S, performed>>
  <2>1. Return(r, r) /\ r \in performed /\ UNCHANGED <<holder, performed>>
    BY <1>8 DEF Complete, Orderly, OrderInv, HoldersAtWork, BackedInv, RequestsAreOrdered
  <2> QED
    BY <1>8, <1>a, <2>1 DEF Complete
<1>9. ASSUME NEW r \in Request, Release(r) PROVE Promise!Tell(r) /\ UNCHANGED <<S, performed>>
  <2>1. r \notin performed /\ Holds(r) /\ KeyOf[r] \in Key
    BY <1>9 DEF Release, OrderInv, HoldersAtWork, BackedInv, RequestsAreOrdered, OnRecord
  <2>2. UNCHANGED <<S, performed>>
    BY <1>0, <1>9, <2>1 DEF Release, DeleteRecord, Holds, recordVars, TypeOK
  <2>3. Promise!Tell(r)
    BY <1>9, <1>a DEF Release
  <2> QED
    BY <2>2, <2>3
<1>10. ASSUME NEW r \in Request, DbError(r) PROVE FALSE
  BY <1>10 DEF DbError, Orderly
<1>11. ASSUME NEW r \in Request, Die(r) PROVE Stutter
  BY <1>11 DEF Die, recordVars
<1>12. ASSUME NEW k \in Key, Expire(k) PROVE Stutter
  BY <1>12 DEF Expire
<1>13. ASSUME NEW k \in Key, Purge(k) PROVE Stutter \/ Promise!Forget(k)
  BY <1>13, <1>b DEF Purge
<1> HIDE DEF Stutter, S
<1>14. Stutter \/ Promise!Next
  BY <1>1, <1>2, <1>3, <1>4, <1>5, <1>6, <1>7, <1>8, <1>9, <1>10, <1>11, <1>12, <1>13
     DEF Next, RequestStep, Promise!Next, S
<1> QED
  BY <1>14 DEF Stutter, S, Stands, Performed, Answer

\* Behaviours with faults map to one that does nothing.
LEMMA PromiseStep ==
  BackedInv /\ (Orderly => OrderInv) /\ [Next]_vars
    => [Promise!Next]_<<Stands, Performed, Answer>>
<1>1. ASSUME ~Orderly, [Next]_vars PROVE UNCHANGED <<Stands, Performed, Answer>>
  BY <1>1, FaultsFixed DEF Orderly, Stands, Performed, Answer
<1> QED
  BY <1>1, OrderlyPromiseStep

\* While a record outlives its request, and completing it does not fail, a key performs
\* one command between two expiries, whichever requests repeat, race or die.
THEOREM KeyPerformsOnce == Spec => OncePerKey
<1>1. Init => (Orderly => OrderInv)
  BY IdempotencyAssumption DEF IdempotencyAssumption, Init, OrderInv, HoldersAtWork, ExpiredAreOver
<1>2. Init => Promise!Init
  BY IdempotencyAssumption DEF IdempotencyAssumption, Init, Promise!Init
<1>3. BackedInv /\ (Orderly => OrderInv) /\ [Next]_vars => (Orderly => OrderInv)'
  BY OrderStep, FaultsFixed DEF Orderly
<1>4. BackedInv /\ (Orderly => OrderInv) /\ [Next]_vars
        => [Promise!Next]_<<[k \in Key |-> IF Orderly THEN {holder[k]} \cap performed ELSE {}],
                           IF Orderly THEN performed ELSE {},
                           IF Orderly THEN reply ELSE [r \in Request |-> {}]>>
  BY PromiseStep DEF Stands, Performed, Answer
<1> QED
  BY <1>1, <1>2, <1>3, <1>4, BackedAlways, PTL DEF Spec, OncePerKey, Promise!Spec
=============================================================================
