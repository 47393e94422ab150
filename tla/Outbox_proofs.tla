---------------------------- MODULE Outbox_proofs ----------------------------
(* Proofs about the outbox, for every set of events, members, workers and    *)
(* polls: it implements EventDelivery whatever fails, and it does not repeat *)
(* an e-mail when failing e-mail is all that goes wrong.                     *)
EXTENDS Outbox, TLAPS

AtMember == {"send", "mark", "markFailed"}
AtEvent  == AtMember \cup {"upsert", "ack", "fail"}
Labels   == AtEvent \cup {"idle", "next"}

RowsTyped ==
    /\ status \in [Event -> {"none", "PENDING", "PROCESSING", "PUBLISHED", "FAILED"}]
    /\ attempts \in [Event -> Nat]
    /\ owner \in [Event -> Worker \cup {NoWorker}]
    /\ lease \in [Event -> {"none", "live", "expired"}]
    /\ due \in [Event -> BOOLEAN]
    /\ email \in [Event -> [User -> {"none", "NOT_REQUESTED", "PENDING", "SENT", "FAILED"}]]
    /\ sent \in [Event -> [User -> 0 .. 2]]

PollsTyped ==
    /\ alive \in [Worker -> BOOLEAN]
    /\ pc \in [Poll -> Labels]
    /\ batch \in [Poll -> SUBSET Event]
    /\ event \in [Poll -> Event \cup {NoEvent}]
    /\ members \in [Poll -> SUBSET User]
    /\ member \in [Poll -> User \cup {NoUser}]
    /\ \A p \in Poll : /\ event[p] \in Event <=> pc[p] \in AtEvent
                       /\ pc[p] \in AtMember => member[p] \in User

TypeInv == RowsTyped /\ PollsTyped

-----------------------------------------------------------------------------
(* What a poll knows of its event, in spite of everything that may fail.      *)

\* An event that nobody enqueued was not attempted, and one at work was.
Begun ==
    /\ \A e \in Event : status[e] = "none" => attempts[e] = 0
    /\ \A p \in Poll : pc[p] \in AtEvent => attempts[event[p]] > 0

\* A row says SENT only after an e-mail.
SentIsTrue == \A e \in Event, u \in User : email[e][u] = "SENT" => sent[e][u] > 0

\* A poll that has not failed has served everybody but the members it still has to visit
\* and the one it is about to write to.
ServedBy(p) ==
    pc[p] \in {"upsert", "send", "mark", "ack"} =>
        /\ \A u \in Audience[event[p]] \ members[p] :
              /\ email[event[p]][u] # "none"
              /\ \/ u \notin Wants \/ ~EmailConfigured
                 \/ sent[event[p]][u] > 0
                 \/ pc[p] = "send" /\ u = member[p]
        /\ pc[p] = "mark" => sent[event[p]][member[p]] > 0
        /\ pc[p] = "ack" => members[p] = {}

Served == \A p \in Poll : ServedBy(p)

PromiseInv == Begun /\ SentIsTrue /\ Served

-----------------------------------------------------------------------------
(* With failing e-mail only, who is at an event holds it, so nobody else is.  *)
Calm == faults \subseteq {"emailErrors"}

OnePoll == \A p, q \in Poll : p # q /\ WorkerOf[p] = WorkerOf[q] => pc[p] = "idle" \/ pc[q] = "idle"

HoldersLive == \A p \in Poll : pc[p] \in AtEvent => Holds(p, event[p]) /\ lease[event[p]] = "live"

BeingMarked(e, u) == \E p \in Poll : pc[p] = "mark" /\ event[p] = e /\ member[p] = u

\* An e-mail that was sent is on its row, or is being put there; who is about to send or
\* failed to send has not sent.
MailsAreRecorded ==
    /\ \A e \in Event, u \in User :
          /\ sent[e][u] < 2
          /\ \/ sent[e][u] = 0 \/ email[e][u] = "SENT"
             \/ BeingMarked(e, u)
    /\ \A p \in Poll : pc[p] \in {"send", "markFailed"} => sent[event[p]][member[p]] = 0

CalmInv == OnePoll /\ HoldersLive /\ MailsAreRecorded
-----------------------------------------------------------------------------
(* Types.                                                                     *)
LEMMA InitType == Init => TypeInv
BY OutboxAssumption DEF OutboxAssumption, Init, TypeInv, RowsTyped, PollsTyped, Labels, AtEvent,
   AtMember

\* What the update of a row does, held or not.
LEMMA CloseType ==
    ASSUME TypeInv, NEW p \in Poll, NEW e \in Event, NEW s \in {"PUBLISHED", "FAILED"},
           Close(p, e, s)
    PROVE  /\ status' \in [Event -> {"none", "PENDING", "PROCESSING", "PUBLISHED", "FAILED"}]
           /\ owner' \in [Event -> Worker \cup {NoWorker}]
           /\ lease' \in [Event -> {"none", "live", "expired"}]
           /\ due' \in [Event -> BOOLEAN]
<1> USE DEF TypeInv, RowsTyped
<1>1. CASE Holds(p, e)
  BY <1>1 DEF Close
<1>2. CASE ~Holds(p, e)
  BY <1>2 DEF Close
<1> QED
  BY <1>1, <1>2

LEMMA PollType ==
    ASSUME TypeInv, NEW p \in Poll, PollStep(p) \/ DbError(p)
    PROVE  TypeInv'
<1> USE OutboxAssumption DEF OutboxAssumption, TypeInv, RowsTyped, PollsTyped, Labels, AtEvent,
        AtMember, rowVars, noteVars
<1>1. CASE ReadBatch(p)
  BY <1>1 DEF ReadBatch
<1>2. CASE ClaimEvent(p)
  <2>1. PICK e \in batch[p] :
           /\ batch' = [batch EXCEPT ![p] = @ \ {e}]
           /\ status' = [status EXCEPT ![e] = "PROCESSING"]
           /\ attempts' = [attempts EXCEPT ![e] = @ + 1]
           /\ owner' = [owner EXCEPT ![e] = WorkerOf[p]]
           /\ lease' = [lease EXCEPT ![e] = "live"]
           /\ event' = [event EXCEPT ![p] = e]
           /\ members' = [members EXCEPT ![p] = Audience[e]]
    BY <1>2 DEF ClaimEvent
  <2>2. RowsTyped'
    BY <1>2, <2>1 DEF ClaimEvent
  <2>3. PollsTyped'
    BY <1>2, <2>1 DEF ClaimEvent
  <2> QED
    BY <2>2, <2>3
<1>3. CASE SkipEvent(p)
  BY <1>3 DEF SkipEvent
<1>4. CASE EndPoll(p)
  BY <1>4 DEF EndPoll
<1>5. CASE Upsert(p)
  <2>1. PICK u \in members[p] :
           /\ members' = [members EXCEPT ![p] = Remaining(p, u)]
           /\ email' = [email EXCEPT ![event[p]][u] =
                         IF u \in Wants /\ ~EmailConfigured /\ @ # "SENT" THEN "FAILED"
                         ELSE IF @ # "none" THEN @
                         ELSE IF u \in Wants THEN "PENDING" ELSE "NOT_REQUESTED"]
           /\ IF u \in Wants /\ EmailConfigured /\ ~AlreadySent(event[p], u)
              THEN /\ member' = [member EXCEPT ![p] = u]
                   /\ pc' = [pc EXCEPT ![p] = "send"]
              ELSE UNCHANGED <<member, pc>>
    BY <1>5 DEF Upsert
  <2>2. RowsTyped'
    BY <1>5, <2>1 DEF Upsert
  <2>3. PollsTyped'
    <3>1. \/ UNCHANGED <<member, pc>>
          \/ member' = [member EXCEPT ![p] = u] /\ pc' = [pc EXCEPT ![p] = "send"]
      BY <2>1 DEF AlreadySent
    <3>2. u \in User /\ members' \in [Poll -> SUBSET User]
      BY <2>1 DEF Remaining
    <3>3. pc[p] = "upsert" /\ UNCHANGED <<alive, batch, event>>
      BY <1>5 DEF Upsert
    <3>4. CASE UNCHANGED <<member, pc>>
      BY <3>2, <3>3, <3>4
    <3>5. CASE member' = [member EXCEPT ![p] = u] /\ pc' = [pc EXCEPT ![p] = "send"]
      BY <3>2, <3>3, <3>5
    <3> QED
      BY <3>1, <3>4, <3>5
  <2> QED
    BY <2>2, <2>3
<1>6. CASE SendEmail(p)
  <2>1. event[p] \in Event /\ member[p] \in User
    BY <1>6 DEF SendEmail
  <2>2. CASE /\ sent' = [sent EXCEPT ![event[p]][member[p]] = IF @ < 2 THEN @ + 1 ELSE @]
             /\ pc' = [pc EXCEPT ![p] = "mark"]
    BY <1>6, <2>1, <2>2 DEF SendEmail
  <2>3. CASE pc' = [pc EXCEPT ![p] = "markFailed"] /\ UNCHANGED sent
    BY <1>6, <2>3 DEF SendEmail
  <2> QED
    BY <1>6, <2>2, <2>3 DEF SendEmail, OnSendError
<1>7. CASE MarkSent(p)
  BY <1>7 DEF MarkSent
<1>8. CASE MarkFailed(p)
  BY <1>8 DEF MarkFailed, AfterFailure
<1>9. CASE EndConsume(p)
  BY <1>9 DEF EndConsume
<1>10. CASE Acknowledge(p)
  BY <1>10, CloseType DEF Acknowledge, LeaveEvent
<1>11. CASE FailEvent(p)
  BY <1>11, CloseType DEF FailEvent, LeaveEvent
<1>12. CASE DbError(p)
  <2>1. CASE /\ pc[p] = "mark" /\ pc' = [pc EXCEPT ![p] = "markFailed"]
             /\ UNCHANGED <<batch, event, members, member>>
    BY <1>12, <2>1 DEF DbError
  <2>2. CASE /\ pc[p] \in {"upsert", "markFailed", "ack"} /\ pc' = [pc EXCEPT ![p] = "fail"]
             /\ UNCHANGED <<batch, event, members, member>>
    BY <1>12, <2>2 DEF DbError
  <2>3. CASE LeaveEvent(p, "idle") /\ batch' = [batch EXCEPT ![p] = {}]
    BY <1>12, <2>3 DEF DbError, LeaveEvent
  <2> QED
    BY <1>12, <2>1, <2>2, <2>3 DEF DbError
<1> QED
  BY <1>1, <1>2, <1>3, <1>4, <1>5, <1>6, <1>7, <1>8, <1>9, <1>10, <1>11, <1>12 DEF PollStep

LEMMA NextType == TypeInv /\ [Next]_vars => TypeInv'
<1> SUFFICES ASSUME TypeInv, [Next]_vars PROVE TypeInv'
  OBVIOUS
<1> USE OutboxAssumption DEF OutboxAssumption, TypeInv, RowsTyped, PollsTyped, Labels, AtEvent,
        AtMember, rowVars, noteVars, workerVars
<1>1. ASSUME NEW e \in Event, Enqueue(e) \/ LeaseExpires(e) \/ BackoffPasses(e) PROVE TypeInv'
  <2>1. RowsTyped'
    <3>1. CASE Enqueue(e)
      BY <3>1 DEF Enqueue
    <3>2. CASE LeaseExpires(e)
      BY <3>2 DEF LeaseExpires
    <3>3. CASE BackoffPasses(e)
      <4>1. due' \in [Event -> BOOLEAN]
        BY <3>3, Zenon DEF BackoffPasses
      <4> QED
        BY <3>3, <4>1 DEF BackoffPasses
    <3> QED
      BY <1>1, <3>1, <3>2, <3>3
  <2>2. UNCHANGED workerVars
    BY <1>1 DEF Enqueue, LeaseExpires, BackoffPasses
  <2>3. PollsTyped'
    BY <2>2
  <2> QED
    BY <2>1, <2>3
<1>2. ASSUME NEW p \in Poll, PollStep(p) \/ DbError(p) PROVE TypeInv'
  BY <1>2, PollType
<1>3. ASSUME NEW w \in Worker, Die(w) PROVE TypeInv'
  BY <1>3 DEF Die
<1>4. CASE UNCHANGED vars
  BY <1>4 DEF vars
<1> QED
  BY <1>1, <1>2, <1>3, <1>4 DEF Next

LEMMA TypeInvariant == Spec => []TypeInv
<1> QED
  BY InitType, NextType, PTL DEF Spec
-----------------------------------------------------------------------------
(* What no step takes back.                                                   *)
Grows ==
    /\ faults' = faults
    /\ \A e \in Event :
          /\ status[e] # "none" => status'[e] # "none"
          /\ attempts[e] > 0 => attempts'[e] > 0
          /\ \A u \in User : /\ email[e][u] # "none" => email'[e][u] # "none"
                             /\ sent[e][u] > 0 => sent'[e][u] > 0

\* Visiting a member: where the row and the poll go.
LEMMA UpsertEffect ==
    ASSUME TypeInv, NEW p \in Poll, Upsert(p)
    PROVE  \E u \in members[p] :
              /\ pc[p] = "upsert" /\ event[p] \in Event /\ u \in User
              /\ members' = [members EXCEPT ![p] = @ \ {u}]
              /\ \A e \in Event, x \in User :
                    e # event[p] \/ x # u => email'[e][x] = email[e][x]
              /\ email'[event[p]][u] # "none"
              /\ email'[event[p]][u] = "SENT" <=> email[event[p]][u] = "SENT"
              /\ \/ /\ pc' = [pc EXCEPT ![p] = "send"] /\ member' = [member EXCEPT ![p] = u]
                    /\ email[event[p]][u] # "SENT"
                 \/ /\ UNCHANGED <<pc, member>>
                    /\ u \notin Wants \/ ~EmailConfigured \/ email[event[p]][u] = "SENT"
              /\ UNCHANGED <<faults, rowVars, sent, alive, batch, event>>
<1> USE DEF TypeInv, RowsTyped, PollsTyped, AtEvent, AtMember
<1>1. PICK u \in members[p] :
         /\ members' = [members EXCEPT ![p] = Remaining(p, u)]
         /\ email' = [email EXCEPT ![event[p]][u] =
                       IF u \in Wants /\ ~EmailConfigured /\ @ # "SENT" THEN "FAILED"
                       ELSE IF @ # "none" THEN @
                       ELSE IF u \in Wants THEN "PENDING" ELSE "NOT_REQUESTED"]
         /\ IF u \in Wants /\ EmailConfigured /\ ~AlreadySent(event[p], u)
            THEN /\ member' = [member EXCEPT ![p] = u]
                 /\ pc' = [pc EXCEPT ![p] = "send"]
            ELSE UNCHANGED <<member, pc>>
  BY DEF Upsert
<1>2. pc[p] = "upsert" /\ event[p] \in Event /\ u \in User
  BY DEF Upsert
<1>3. /\ \A e \in Event, x \in User : e # event[p] \/ x # u => email'[e][x] = email[e][x]
      /\ email'[event[p]][u] # "none"
      /\ email'[event[p]][u] = "SENT" <=> email[event[p]][u] = "SENT"
  BY <1>1, <1>2
<1>4. \/ /\ pc' = [pc EXCEPT ![p] = "send"] /\ member' = [member EXCEPT ![p] = u]
         /\ email[event[p]][u] # "SENT"
      \/ /\ UNCHANGED <<pc, member>>
         /\ u \notin Wants \/ ~EmailConfigured \/ email[event[p]][u] = "SENT"
  BY <1>1 DEF AlreadySent
<1>5. members' = [members EXCEPT ![p] = @ \ {u}]
  BY <1>1 DEF Remaining
<1>6. UNCHANGED <<faults, rowVars, sent, alive, batch, event>>
  BY DEF Upsert
<1> QED
  BY <1>2, <1>3, <1>4, <1>5, <1>6

LEMMA SendEffect ==
    ASSUME TypeInv, NEW p \in Poll, SendEmail(p)
    PROVE  /\ pc[p] = "send" /\ event[p] \in Event /\ member[p] \in User
           /\ \/ /\ pc' = [pc EXCEPT ![p] = "mark"]
                 /\ sent'[event[p]][member[p]] > 0
                 /\ sent[event[p]][member[p]] = 0 => sent'[event[p]][member[p]] = 1
                 /\ \A e \in Event, x \in User :
                       e # event[p] \/ x # member[p] => sent'[e][x] = sent[e][x]
              \/ pc' = [pc EXCEPT ![p] = "markFailed"] /\ UNCHANGED sent
           /\ UNCHANGED <<faults, rowVars, email, alive, batch, event, members, member>>
<1> USE DEF TypeInv, RowsTyped, PollsTyped, AtEvent, AtMember
<1>1. pc[p] = "send" /\ event[p] \in Event /\ member[p] \in User
  BY DEF SendEmail
<1>2. CASE /\ sent' = [sent EXCEPT ![event[p]][member[p]] = IF @ < 2 THEN @ + 1 ELSE @]
           /\ pc' = [pc EXCEPT ![p] = "mark"]
  BY <1>1, <1>2 DEF SendEmail
<1>3. CASE pc' = [pc EXCEPT ![p] = OnSendError] /\ UNCHANGED sent
  BY <1>1, <1>3 DEF SendEmail, OnSendError
<1> QED
  BY <1>2, <1>3 DEF SendEmail

LEMMA GrowsStep == TypeInv /\ [Next]_vars => Grows
<1> SUFFICES ASSUME TypeInv, [Next]_vars PROVE Grows
  OBVIOUS
<1> USE DEF TypeInv, RowsTyped, PollsTyped, AtEvent, AtMember, Grows, rowVars, noteVars
<1>1. ASSUME NEW e \in Event, Enqueue(e) PROVE Grows
  BY <1>1 DEF Enqueue
<1>2. ASSUME NEW p \in Poll, ClaimEvent(p) PROVE Grows
  <2>1. PICK e \in batch[p] :
           /\ status' = [status EXCEPT ![e] = "PROCESSING"]
           /\ attempts' = [attempts EXCEPT ![e] = @ + 1]
    BY <1>2 DEF ClaimEvent
  <2> QED
    BY <1>2, <2>1 DEF ClaimEvent
<1>3. ASSUME NEW p \in Poll, Upsert(p) PROVE Grows
  <2>1. PICK u \in members[p] :
           /\ \A e \in Event, x \in User : e # event[p] \/ x # u => email'[e][x] = email[e][x]
           /\ email'[event[p]][u] # "none"
    BY <1>3, UpsertEffect
  <2> QED
    BY <1>3, <2>1 DEF Upsert
<1>4. ASSUME NEW p \in Poll, SendEmail(p) PROVE Grows
  <2>1. \/ UNCHANGED sent
        \/ /\ sent'[event[p]][member[p]] > 0
           /\ \A e \in Event, x \in User :
                 e # event[p] \/ x # member[p] => sent'[e][x] = sent[e][x]
    BY <1>4, SendEffect
  <2>2. ASSUME NEW e \in Event, NEW x \in User, sent[e][x] > 0 PROVE sent'[e][x] > 0
    BY <2>1, <2>2
  <2> QED
    BY <1>4, <2>2 DEF SendEmail
<1>5. ASSUME NEW p \in Poll, MarkSent(p) PROVE Grows
  BY <1>5 DEF MarkSent
<1>6. ASSUME NEW p \in Poll, MarkFailed(p) PROVE Grows
  BY <1>6 DEF MarkFailed
<1>7. ASSUME NEW p \in Poll, Acknowledge(p) \/ FailEvent(p) PROVE Grows
  <2>1. \A e \in Event : status[e] # "none" => status'[e] # "none"
    BY <1>7 DEF Acknowledge, FailEvent, Close
  <2> QED
    BY <1>7, <2>1 DEF Acknowledge, FailEvent
<1>8. CASE UNCHANGED <<faults, status, attempts, noteVars>>
  BY <1>8
<1> QED
  BY <1>1, <1>2, <1>3, <1>4, <1>5, <1>6, <1>7, <1>8 DEF Next, PollStep, LeaseExpires, BackoffPasses,
     ReadBatch, SkipEvent, EndPoll, EndConsume, DbError, Die, vars

-----------------------------------------------------------------------------
(* The invariant behind the promise.                                          *)
LEMMA BegunStep == TypeInv /\ Begun /\ [Next]_vars => Begun'
<1> SUFFICES ASSUME TypeInv, Begun, [Next]_vars PROVE Begun'
  OBVIOUS
<1> USE DEF TypeInv, RowsTyped, PollsTyped, Begun, AtEvent, AtMember, rowVars, noteVars
<1>1. Grows
  BY GrowsStep
<1>2. ASSUME NEW p \in Poll, ClaimEvent(p) PROVE Begun'
  <2>1. PICK e \in batch[p] :
           /\ status' = [status EXCEPT ![e] = "PROCESSING"]
           /\ attempts' = [attempts EXCEPT ![e] = @ + 1]
           /\ event' = [event EXCEPT ![p] = e]
    BY <1>2 DEF ClaimEvent
  <2> QED
    BY <1>2, <2>1 DEF ClaimEvent
<1>3. ASSUME \A e \in Event : status'[e] = "none" => status[e] = "none",
             UNCHANGED attempts,
             \A p \in Poll : pc'[p] \in AtEvent => pc[p] \in AtEvent /\ event'[p] = event[p]
      PROVE  Begun'
  BY <1>3
<1>4. ASSUME NEW p \in Poll, NEW q \in Poll, pc'[p] \in AtEvent, ~ClaimEvent(q),
             PollStep(q) \/ DbError(q)
      PROVE  pc[p] \in AtEvent /\ event'[p] = event[p]
  <2>1. CASE Upsert(q)
    BY <1>4, <2>1, UpsertEffect
  <2>2. CASE SendEmail(q)
    BY <1>4, <2>2, SendEffect
  <2>3. CASE ReadBatch(q) \/ SkipEvent(q) \/ EndPoll(q)
    BY <1>4, <2>3 DEF ReadBatch, SkipEvent, EndPoll
  <2>4. CASE MarkSent(q) \/ MarkFailed(q) \/ EndConsume(q)
    BY <1>4, <2>4 DEF MarkSent, MarkFailed, EndConsume
  <2>5. CASE Acknowledge(q) \/ FailEvent(q)
    BY <1>4, <2>5 DEF Acknowledge, FailEvent, LeaveEvent
  <2>6. CASE DbError(q)
    BY <1>4, <2>6 DEF DbError, LeaveEvent
  <2> QED
    BY <1>4, <2>1, <2>2, <2>3, <2>4, <2>5, <2>6 DEF PollStep
<1>5. ASSUME NEW q \in Poll, ~ClaimEvent(q), PollStep(q) \/ DbError(q) PROVE Begun'
  <2>1. \A e \in Event : status'[e] = "none" => status[e] = "none"
    BY <1>1 DEF Grows
  <2>2. UNCHANGED attempts
    BY <1>5 DEF PollStep, ReadBatch, SkipEvent, EndPoll, Upsert, SendEmail, MarkSent, MarkFailed,
       EndConsume, Acknowledge, FailEvent, DbError
  <2> QED
    BY <1>3, <1>4, <1>5, <2>1, <2>2
<1>6. ASSUME NEW w \in Worker, Die(w) PROVE Begun'
  BY <1>6 DEF Die
<1>7. ASSUME NEW e \in Event, Enqueue(e) \/ LeaseExpires(e) \/ BackoffPasses(e) PROVE Begun'
  BY <1>7 DEF Enqueue, LeaseExpires, BackoffPasses, workerVars
<1>8. CASE UNCHANGED vars
  BY <1>8 DEF vars, workerVars
<1> QED
  BY <1>2, <1>5, <1>6, <1>7, <1>8 DEF Next

LEMMA SentIsTrueStep == TypeInv /\ SentIsTrue /\ Served /\ [Next]_vars => SentIsTrue'
<1> SUFFICES ASSUME TypeInv, SentIsTrue, Served, [Next]_vars,
                    NEW e \in Event, NEW u \in User, email'[e][u] = "SENT"
             PROVE  sent'[e][u] > 0
  BY DEF SentIsTrue
<1> USE DEF TypeInv, RowsTyped, PollsTyped, AtEvent, AtMember
<1>1. email[e][u] = "SENT" => sent'[e][u] > 0
  BY GrowsStep DEF SentIsTrue, Grows
<1>2. ASSUME NEW p \in Poll, Upsert(p) PROVE email[e][u] = "SENT"
  <2>1. PICK x \in members[p] :
           /\ \A f \in Event, y \in User : f # event[p] \/ y # x => email'[f][y] = email[f][y]
           /\ email'[event[p]][x] = "SENT" <=> email[event[p]][x] = "SENT"
    BY <1>2, UpsertEffect
  <2> QED
    BY <2>1
<1>3. ASSUME NEW p \in Poll, MarkSent(p) PROVE sent'[e][u] > 0
  <2>1. CASE e = event[p] /\ u = member[p]
    BY <1>3, <2>1 DEF MarkSent, Served, ServedBy
  <2>2. CASE ~(e = event[p] /\ u = member[p])
    BY <1>1, <1>3, <2>2 DEF MarkSent
  <2> QED
    BY <2>1, <2>2
<1>4. ASSUME NEW p \in Poll, MarkFailed(p) PROVE email[e][u] = "SENT"
  BY <1>4 DEF MarkFailed
<1>5. CASE UNCHANGED email
  BY <1>1, <1>5
<1> QED
  BY <1>1, <1>2, <1>3, <1>4, <1>5 DEF Next, PollStep, Enqueue, LeaseExpires, BackoffPasses, ReadBatch,
     ClaimEvent, SkipEvent, EndPoll, SendEmail, EndConsume, Acknowledge, FailEvent, DbError, Die,
     noteVars, vars

\* A poll's step leaves the memory of the others alone.
LEMMA OthersStay ==
    ASSUME TypeInv, NEW p \in Poll, PollStep(p) \/ DbError(p), NEW q \in Poll, q # p
    PROVE  pc'[q] = pc[q] /\ event'[q] = event[q] /\ members'[q] = members[q] /\ member'[q] = member[q]
<1> USE DEF TypeInv, PollsTyped
<1>1. CASE Upsert(p)
  BY <1>1, UpsertEffect
<1>2. CASE SendEmail(p)
  BY <1>2, SendEffect
<1>3. CASE ReadBatch(p) \/ ClaimEvent(p) \/ SkipEvent(p) \/ EndPoll(p)
  BY <1>3 DEF ReadBatch, ClaimEvent, SkipEvent, EndPoll
<1>4. CASE MarkSent(p) \/ MarkFailed(p) \/ EndConsume(p)
  BY <1>4 DEF MarkSent, MarkFailed, EndConsume
<1>5. CASE Acknowledge(p) \/ FailEvent(p)
  BY <1>5 DEF Acknowledge, FailEvent, LeaveEvent
<1>6. CASE DbError(p)
  BY <1>6 DEF DbError, LeaveEvent
<1> QED
  BY <1>1, <1>2, <1>3, <1>4, <1>5, <1>6 DEF PollStep

LEMMA ServedKept ==
    ASSUME TypeInv, Grows, NEW p \in Poll, ServedBy(p), pc'[p] = pc[p], event'[p] = event[p],
           members'[p] = members[p], member'[p] = member[p]
    PROVE  ServedBy(p)'
<1>1. SUFFICES ASSUME pc[p] \in {"upsert", "send", "mark", "ack"} PROVE ServedBy(p)'
  BY DEF ServedBy
<1>2. event[p] \in Event /\ Audience[event[p]] \subseteq User /\ (pc[p] = "mark" => member[p] \in User)
  BY <1>1, OutboxAssumption DEF OutboxAssumption, TypeInv, PollsTyped, AtEvent, AtMember
<1>3. /\ \A u \in User : email[event[p]][u] # "none" => email'[event[p]][u] # "none"
      /\ \A u \in User : sent[event[p]][u] > 0 => sent'[event[p]][u] > 0
      /\ EmailConfigured' <=> EmailConfigured
  BY <1>2 DEF Grows, EmailConfigured
<1> HIDE DEF EmailConfigured
<1> QED
  BY <1>1, <1>2, <1>3 DEF ServedBy

LEMMA ServedPoll ==
    ASSUME TypeInv, SentIsTrue, NEW p \in Poll, ServedBy(p), Grows, PollStep(p) \/ DbError(p)
    PROVE  ServedBy(p)'
<1> USE OutboxAssumption DEF OutboxAssumption, TypeInv, RowsTyped, PollsTyped, AtEvent, AtMember
<1>1. CASE ReadBatch(p) \/ SkipEvent(p) \/ EndPoll(p)
  BY <1>1 DEF ReadBatch, SkipEvent, EndPoll, ServedBy
<1>2. CASE ClaimEvent(p)
  <2>1. PICK e \in batch[p] : /\ event' = [event EXCEPT ![p] = e]
                             /\ members' = [members EXCEPT ![p] = Audience[e]]
    BY <1>2 DEF ClaimEvent
  <2>2. event'[p] = e /\ members'[p] = Audience[e] /\ pc'[p] = "upsert"
    BY <1>2, <2>1 DEF ClaimEvent
  <2> QED
    BY <2>2 DEF ServedBy
<1>3. CASE Upsert(p)
  <2>1. PICK u \in members[p] :
              /\ pc[p] = "upsert" /\ event[p] \in Event /\ u \in User
              /\ members' = [members EXCEPT ![p] = @ \ {u}]
              /\ \A e \in Event, x \in User :
                    e # event[p] \/ x # u => email'[e][x] = email[e][x]
              /\ email'[event[p]][u] # "none"
              /\ email'[event[p]][u] = "SENT" <=> email[event[p]][u] = "SENT"
              /\ \/ /\ pc' = [pc EXCEPT ![p] = "send"] /\ member' = [member EXCEPT ![p] = u]
                    /\ email[event[p]][u] # "SENT"
                 \/ /\ UNCHANGED <<pc, member>>
                    /\ u \notin Wants \/ ~EmailConfigured \/ email[event[p]][u] = "SENT"
              /\ UNCHANGED <<faults, rowVars, sent, alive, batch, event>>
    BY <1>3, UpsertEffect
  <2>2. /\ event'[p] = event[p] /\ sent' = sent /\ (EmailConfigured' <=> EmailConfigured)
        /\ members'[p] = members[p] \ {u}
        /\ pc'[p] \in {"upsert", "send"} /\ (pc'[p] = "send" => member'[p] = u)
        /\ pc'[p] = "upsert" => u \notin Wants \/ ~EmailConfigured \/ email[event[p]][u] = "SENT"
    BY <2>1 DEF EmailConfigured
  <2>3. ASSUME NEW x \in Audience[event[p]] \ members[p]
        PROVE  /\ email'[event[p]][x] # "none"
               /\ x \notin Wants \/ ~EmailConfigured \/ sent[event[p]][x] > 0
    <3>1. x \in User /\ x # u /\ pc[p] = "upsert" /\ event[p] \in Event
      BY <2>1, <2>3
    <3>2. email'[event[p]][x] = email[event[p]][x]
      BY <2>1, <3>1
    <3>3. /\ email[event[p]][x] # "none"
          /\ x \notin Wants \/ ~EmailConfigured \/ sent[event[p]][x] > 0
      BY <2>3, <3>1 DEF ServedBy
    <3> QED
      BY <3>2, <3>3
  <2>4. /\ email'[event[p]][u] # "none"
        /\ u \notin Wants \/ ~EmailConfigured \/ sent[event[p]][u] > 0 \/ pc'[p] = "send"
    BY <2>1, <2>2 DEF SentIsTrue
  <2> HIDE DEF EmailConfigured
  <2> QED
    BY <2>2, <2>3, <2>4 DEF ServedBy
<1>4. CASE SendEmail(p)
  <2>1. CASE pc' = [pc EXCEPT ![p] = "markFailed"]
    BY <2>1 DEF ServedBy
  <2>2. CASE pc' = [pc EXCEPT ![p] = "mark"] /\ sent'[event[p]][member[p]] > 0
    <3>1. /\ pc[p] = "send" /\ event[p] \in Event /\ member[p] \in User /\ pc'[p] = "mark"
          /\ UNCHANGED <<event, members, member, email, faults>>
      BY <1>4, <2>2 DEF SendEmail
    <3>2. \A u \in User : sent[event[p]][u] > 0 => sent'[event[p]][u] > 0
      BY <3>1 DEF Grows
    <3> QED
      BY <2>2, <3>1, <3>2 DEF ServedBy, EmailConfigured
  <2> QED
    BY <1>4, <2>1, <2>2, SendEffect
<1>5. CASE MarkSent(p)
  <2>1. /\ pc[p] = "mark" /\ pc'[p] = "upsert" /\ event'[p] = event[p] /\ members'[p] = members[p]
        /\ sent' = sent /\ (EmailConfigured' <=> EmailConfigured) /\ event[p] \in Event
    BY <1>5 DEF MarkSent, EmailConfigured
  <2>2. \A u \in User : email[event[p]][u] # "none" => email'[event[p]][u] # "none"
    BY <2>1 DEF Grows
  <2> QED
    BY <2>1, <2>2 DEF ServedBy
<1>6. CASE MarkFailed(p) \/ DbError(p)
  BY <1>6 DEF MarkFailed, AfterFailure, DbError, LeaveEvent, ServedBy
<1>7. CASE EndConsume(p)
  BY <1>7 DEF EndConsume, ServedBy, EmailConfigured, noteVars
<1>8. CASE Acknowledge(p) \/ FailEvent(p)
  BY <1>8 DEF Acknowledge, FailEvent, LeaveEvent, ServedBy
<1> QED
  BY <1>1, <1>2, <1>3, <1>4, <1>5, <1>6, <1>7, <1>8 DEF PollStep

LEMMA PromiseInvStep == TypeInv /\ PromiseInv /\ [Next]_vars => PromiseInv'
<1> SUFFICES ASSUME TypeInv, PromiseInv, [Next]_vars PROVE PromiseInv'
  OBVIOUS
<1>1. Grows
  BY GrowsStep
<1>2. Begun' /\ SentIsTrue'
  BY BegunStep, SentIsTrueStep DEF PromiseInv
<1>3. \A q \in Poll : ServedBy(q)
  BY DEF PromiseInv, Served
<1>4. ASSUME NEW q \in Poll PROVE ServedBy(q)'
  <2>1. ASSUME NEW p \in Poll, PollStep(p) \/ DbError(p) PROVE ServedBy(q)'
    <3>1. CASE p = q
      BY <1>1, <1>3, <2>1, <3>1, ServedPoll DEF PromiseInv
    <3>2. CASE p # q
      BY <1>1, <1>3, <2>1, <3>2, OthersStay, ServedKept
    <3> QED
      BY <3>1, <3>2
  <2>2. ASSUME NEW w \in Worker, Die(w) PROVE ServedBy(q)'
    <3>1. CASE pc'[q] = "idle"
      BY <3>1 DEF ServedBy
    <3>2. CASE UNCHANGED <<pc[q], event[q], members[q], member[q]>>
      BY <1>1, <1>3, <3>2, ServedKept
    <3> QED
      BY <2>2, <3>1, <3>2 DEF Die, TypeInv, PollsTyped
  <2>3. CASE UNCHANGED workerVars
    BY <1>1, <1>3, <2>3, ServedKept DEF workerVars
  <2> QED
    BY <2>1, <2>2, <2>3 DEF Next, Enqueue, LeaseExpires, BackoffPasses, vars
<1> QED
  BY <1>2, <1>4 DEF PromiseInv, Served

LEMMA PromiseInvariant == Spec => []PromiseInv
<1>1. Init => PromiseInv
  BY DEF Init, PromiseInv, Begun, SentIsTrue, Served, ServedBy, AtEvent, AtMember
<1> QED
  BY <1>1, PromiseInvStep, TypeInvariant, PTL DEF Spec
-----------------------------------------------------------------------------
(* The refinement.                                                            *)
Phases == [e \in Event |-> Phase(e)]
Handed == {e \in Event : Delivered(e)}

\* A step that touches one event and leaves the phases alone delivers it or stutters.
LEMMA TouchStep ==
    ASSUME NEW x \in Event, status[x] # "none", Phases' = Phases,
           \A e \in Event \ {x} : Delivered(e)' <=> Delivered(e),
           Delivered(x) => Delivered(x)'
    PROVE  [Delivery!Next]_<<Phases, Handed>>
<1>1. CASE Delivered(x)'
  <2>1. Handed' = Handed \cup {x}
    BY <1>1 DEF Handed
  <2>2. Phases[x] # "none"
    BY DEF Phases, Phase
  <2> QED
    BY <2>1, <2>2 DEF Delivery!Next, Delivery!Deliver, Phases, Handed
<1>2. CASE ~Delivered(x)'
  <2>1. Handed' = Handed
    BY <1>2 DEF Handed
  <2> QED
    BY <2>1
<1> QED
  BY <1>1, <1>2

\* Delivered depends on the event's own row and notes, which only grow.
LEMMA DeliveredStays ==
    ASSUME TypeInv, Grows, NEW e \in Event, Delivered(e)
    PROVE  Delivered(e)'
<1>1. Audience[e] \subseteq User
  BY OutboxAssumption DEF OutboxAssumption
<1>2. EmailConfigured' <=> EmailConfigured
  BY DEF Grows, EmailConfigured
<1> HIDE DEF EmailConfigured
<1> QED
  BY <1>1, <1>2 DEF Grows, Delivered

LEMMA DeliveredSame ==
    ASSUME TypeInv, Grows, NEW e \in Event, attempts'[e] = attempts[e],
           \A u \in User : email'[e][u] = email[e][u] /\ sent'[e][u] = sent[e][u]
    PROVE  Delivered(e)' <=> Delivered(e)
<1>1. Audience[e] \subseteq User
  BY OutboxAssumption DEF OutboxAssumption
<1>2. EmailConfigured' <=> EmailConfigured
  BY DEF Grows, EmailConfigured
<1> HIDE DEF EmailConfigured
<1> QED
  BY <1>1, <1>2 DEF Delivered

\* A poll gets to the acknowledgement only when everybody was served.
LEMMA ReadyIsDelivered ==
    ASSUME TypeInv, PromiseInv, NEW p \in Poll, pc[p] = "ack"
    PROVE  event[p] \in Event /\ Delivered(event[p])
<1>1. event[p] \in Event /\ attempts[event[p]] > 0
  BY DEF TypeInv, PollsTyped, PromiseInv, Begun, AtEvent
<1>2. \A u \in Audience[event[p]] :
         /\ email[event[p]][u] # "none"
         /\ u \notin Wants \/ ~EmailConfigured \/ sent[event[p]][u] > 0
  BY DEF PromiseInv, Served, ServedBy
<1> QED
  BY <1>1, <1>2 DEF Delivered

LEMMA DeliveryStep ==
    TypeInv /\ PromiseInv /\ [Next]_vars => [Delivery!Next]_<<Phases, Handed>>
<1> SUFFICES ASSUME TypeInv, PromiseInv, [Next]_vars PROVE [Delivery!Next]_<<Phases, Handed>>
  OBVIOUS
<1> DEFINE Goal == [Delivery!Next]_<<Phases, Handed>>
<1>1. Grows
  BY GrowsStep
<1>2. \A e \in Event : Delivered(e) => Delivered(e)'
  BY <1>1, DeliveredStays
<1>3. ASSUME UNCHANGED <<attempts, email, sent>> PROVE Handed' = Handed
  <2>1. \A e \in Event : Delivered(e)' <=> Delivered(e)
    BY <1>1, <1>3, DeliveredSame
  <2> QED
    BY <2>1 DEF Handed
<1>4. ASSUME UNCHANGED status PROVE Phases' = Phases
  BY <1>4 DEF Phases, Phase
<1> USE DEF TypeInv, RowsTyped, PollsTyped, AtEvent, AtMember
<1>5. ASSUME NEW e \in Event, Enqueue(e) PROVE Goal
  <2>1. Handed' = Handed
    BY <1>3, <1>5 DEF Enqueue, noteVars
  <2>2. Phases[e] = "none" /\ Phases' = [Phases EXCEPT ![e] = "pending"]
    BY <1>5 DEF Enqueue, Phases, Phase
  <2> QED
    BY <2>1, <2>2 DEF Delivery!Next, Delivery!Enqueue, Phases, Handed
<1>6. ASSUME NEW p \in Poll, ClaimEvent(p) PROVE Goal
  <2>1. PICK x \in batch[p] :
           /\ Claimable(x)
           /\ status' = [status EXCEPT ![x] = "PROCESSING"]
           /\ attempts' = [attempts EXCEPT ![x] = @ + 1]
    BY <1>6 DEF ClaimEvent
  <2>2. x \in Event /\ status[x] \in {"PENDING", "FAILED", "PROCESSING"}
    BY <2>1 DEF Claimable, Publishable
  <2>3. Phases' = Phases
    BY <2>1, <2>2 DEF Phases, Phase
  <2>4. \A e \in Event \ {x} : Delivered(e)' <=> Delivered(e)
    BY <1>1, <1>6, <2>1, <2>2, DeliveredSame DEF ClaimEvent, noteVars
  <2> QED
    BY <1>2, <2>2, <2>3, <2>4, TouchStep
<1>7. ASSUME NEW p \in Poll, Upsert(p) \/ SendEmail(p) \/ MarkSent(p) \/ MarkFailed(p) PROVE Goal
  <2> DEFINE x == event[p]
  <2>1. x \in Event /\ UNCHANGED <<status, attempts>> /\ attempts[x] > 0
    BY <1>7 DEF Upsert, SendEmail, MarkSent, MarkFailed, rowVars, PromiseInv, Begun
  <2>2. \A e \in Event \ {x}, u \in User : email'[e][u] = email[e][u] /\ sent'[e][u] = sent[e][u]
    <3>1. CASE Upsert(p)
      BY <3>1, UpsertEffect
    <3>2. CASE SendEmail(p)
      BY <3>2, SendEffect
    <3>3. CASE MarkSent(p) \/ MarkFailed(p)
      BY <3>3 DEF MarkSent, MarkFailed
    <3> QED
      BY <1>7, <3>1, <3>2, <3>3
  <2>3. status[x] # "none"
    BY <2>1 DEF PromiseInv, Begun
  <2>4. \A e \in Event \ {x} : Delivered(e)' <=> Delivered(e)
    BY <1>1, <2>1, <2>2, DeliveredSame
  <2> QED
    BY <1>2, <1>4, <2>1, <2>3, <2>4, TouchStep
<1>8. ASSUME NEW p \in Poll, Acknowledge(p) PROVE Goal
  <2> DEFINE x == event[p]
  <2>1. Handed' = Handed
    BY <1>3, <1>8 DEF Acknowledge, noteVars
  <2>2. x \in Event /\ Delivered(x)
    BY <1>8, ReadyIsDelivered DEF Acknowledge
  <2>3. CASE Holds(p, x)
    <3>1. status[x] = "PROCESSING" /\ status' = [status EXCEPT ![x] = "PUBLISHED"]
      BY <1>8, <2>3 DEF Acknowledge, Close, Holds
    <3>2. Phases[x] = "pending" /\ Phases' = [Phases EXCEPT ![x] = "acknowledged"]
      BY <2>2, <3>1 DEF Phases, Phase
    <3>3. x \in Handed
      BY <2>2 DEF Handed
    <3> QED
      BY <2>1, <2>2, <3>2, <3>3 DEF Delivery!Next, Delivery!Acknowledge, Phases, Handed
  <2>4. CASE ~Holds(p, x)
    BY <1>4, <1>8, <2>1, <2>4 DEF Acknowledge, Close
  <2> QED
    BY <2>3, <2>4
<1>9. ASSUME NEW p \in Poll, FailEvent(p) PROVE Goal
  <2> DEFINE x == event[p]
  <2>1. Handed' = Handed
    BY <1>3, <1>9 DEF FailEvent, noteVars
  <2>2. Phases' = Phases
    <3>1. CASE Holds(p, x)
      BY <1>9, <3>1 DEF FailEvent, Close, Holds, Phases, Phase
    <3>2. CASE ~Holds(p, x)
      BY <1>4, <1>9, <3>2 DEF FailEvent, Close
    <3> QED
      BY <3>1, <3>2
  <2> QED
    BY <2>1, <2>2
<1>10. CASE UNCHANGED <<status, attempts, noteVars>>
  BY <1>3, <1>4, <1>10 DEF noteVars
<1> QED
  BY <1>5, <1>6, <1>7, <1>8, <1>9, <1>10 DEF Next, PollStep, LeaseExpires, BackoffPasses,
     ReadBatch, SkipEvent, EndPoll, EndConsume, DbError, Die, rowVars, vars

\* Whatever fails, and however many polls share the attempts at an event, it is acknowledged
\* only after everybody it concerns was notified and mailed, and stays acknowledged: the
\* outbox implements EventDelivery.
THEOREM OutboxDelivers == Spec => KeepsPromise
<1>1. Init => Delivery!Init
  <2> SUFFICES ASSUME Init PROVE Phases = [e \in Event |-> "none"] /\ Handed = {}
    BY DEF Delivery!Init, Phases, Handed
  <2> QED
    BY DEF Init, Phases, Phase, Handed, Delivered
<1>2. TypeInv /\ PromiseInv /\ [Next]_vars =>
         [Delivery!Next]_<<[e \in Event |-> Phase(e)], {e \in Event : Delivered(e)}>>
  BY DeliveryStep DEF Phases, Handed
<1> QED
  BY <1>1, <1>2, TypeInvariant, PromiseInvariant, PTL DEF Spec, KeepsPromise, Delivery!Spec
-----------------------------------------------------------------------------
(* With failing e-mail only.                                                  *)
LEMMA AloneAtEvent ==
    ASSUME TypeInv, CalmInv, NEW p \in Poll, NEW q \in Poll,
           pc[p] \in AtEvent, pc[q] \in AtEvent, event[p] = event[q]
    PROVE  p = q
BY DEF CalmInv, OnePoll, HoldersLive, Holds, AtEvent, AtMember

LEMMA OnePollStep == Calm /\ TypeInv /\ OnePoll /\ [Next]_vars => OnePoll'
<1> SUFFICES ASSUME Calm, TypeInv, OnePoll, [Next]_vars PROVE OnePoll'
  OBVIOUS
<1> USE DEF TypeInv, PollsTyped, OnePoll, Calm
<1>1. ASSUME NEW p \in Poll, ReadBatch(p) PROVE OnePoll'
  BY <1>1 DEF ReadBatch
<1>2. ASSUME NEW p \in Poll, PollStep(p) \/ DbError(p), ~ReadBatch(p) PROVE OnePoll'
  <2>1. pc[p] # "idle"
    BY <1>2 DEF PollStep, ClaimEvent, SkipEvent, EndPoll, Upsert, SendEmail, MarkSent, MarkFailed,
       EndConsume, Acknowledge, FailEvent, DbError
  <2>2. \A q \in Poll \ {p} : pc'[q] = pc[q]
    BY <1>2, OthersStay
  <2> QED
    BY <2>1, <2>2
<1>3. ASSUME NEW w \in Worker, Die(w) PROVE OnePoll'
  BY <1>3 DEF Die
<1>4. CASE UNCHANGED pc
  BY <1>4
<1> QED
  BY <1>1, <1>2, <1>3, <1>4 DEF Next, Enqueue, LeaseExpires, BackoffPasses, workerVars, vars

LEMMA HoldersLivePoll ==
    ASSUME Calm, TypeInv, CalmInv, NEW p \in Poll, PollStep(p)
    PROVE  HoldersLive'
<1> SUFFICES ASSUME NEW q \in Poll, pc'[q] \in AtEvent
             PROVE  /\ status'[event'[q]] = "PROCESSING" /\ owner'[event'[q]] = WorkerOf[q]
                    /\ lease'[event'[q]] = "live"
  BY DEF HoldersLive, Holds
<1> DEFINE Goal == /\ status'[event'[q]] = "PROCESSING" /\ owner'[event'[q]] = WorkerOf[q]
                   /\ lease'[event'[q]] = "live"
<1> USE DEF TypeInv, RowsTyped, PollsTyped, AtEvent, AtMember
<1>1. q # p => pc[q] \in AtEvent /\ event'[q] = event[q]
  BY OthersStay
<1>2. pc[q] \in AtEvent =>
         /\ event[q] \in Event /\ status[event[q]] = "PROCESSING" /\ owner[event[q]] = WorkerOf[q]
         /\ lease[event[q]] = "live"
  BY DEF CalmInv, HoldersLive, Holds
<1>3. CASE ClaimEvent(p)
  <2>1. PICK e \in batch[p] :
           /\ Claimable(e)
           /\ status' = [status EXCEPT ![e] = "PROCESSING"]
           /\ owner' = [owner EXCEPT ![e] = WorkerOf[p]]
           /\ lease' = [lease EXCEPT ![e] = "live"]
           /\ event' = [event EXCEPT ![p] = e]
    BY <1>3 DEF ClaimEvent
  <2>2. CASE q = p
    BY <2>1, <2>2
  <2>3. CASE q # p
    <3>1. e # event[q]
      BY <1>1, <1>2, <2>1, <2>3 DEF Claimable, Publishable
    <3> QED
      BY <1>1, <1>2, <2>1, <2>3, <3>1
  <2> QED
    BY <2>2, <2>3
<1>4. CASE Acknowledge(p) \/ FailEvent(p)
  <2>1. q # p /\ pc[p] \in AtEvent
    BY <1>4 DEF Acknowledge, FailEvent, LeaveEvent
  <2>2. event[q] # event[p]
    BY <1>1, <2>1, AloneAtEvent
  <2>3. \A e \in Event \ {event[p]} :
           status'[e] = status[e] /\ owner'[e] = owner[e] /\ lease'[e] = lease[e]
    BY <1>4 DEF Acknowledge, FailEvent, Close
  <2> QED
    BY <1>1, <1>2, <2>1, <2>2, <2>3
<1>5. ASSUME UNCHANGED rowVars, pc[q] \in AtEvent, event'[q] = event[q] PROVE Goal
  BY <1>2, <1>5 DEF rowVars
<1>6. CASE ReadBatch(p) \/ SkipEvent(p) \/ EndPoll(p) \/ EndConsume(p)
  BY <1>5, <1>6 DEF ReadBatch, SkipEvent, EndPoll, EndConsume
<1>7. CASE Upsert(p)
  BY <1>5, <1>7, UpsertEffect
<1>8. CASE SendEmail(p)
  BY <1>5, <1>8, SendEffect
<1>9. CASE MarkSent(p) \/ MarkFailed(p)
  BY <1>5, <1>9 DEF MarkSent, MarkFailed
<1> QED
  BY <1>3, <1>4, <1>6, <1>7, <1>8, <1>9 DEF PollStep

\* The e-mails a poll is at; no other poll is at the same.
LEMMA MailsPoll ==
    ASSUME Calm, TypeInv, CalmInv, NEW p \in Poll, PollStep(p)
    PROVE  MailsAreRecorded'
<1> USE DEF TypeInv, RowsTyped, PollsTyped, AtEvent, AtMember
<1>1. \A q \in Poll \ {p} : pc'[q] = pc[q] /\ event'[q] = event[q] /\ member'[q] = member[q]
  BY OthersStay
<1>2. /\ \A e \in Event, u \in User :
            /\ sent[e][u] < 2
            /\ sent[e][u] = 0 \/ email[e][u] = "SENT" \/ BeingMarked(e, u)
      /\ \A q \in Poll : pc[q] \in {"send", "markFailed"} => sent[event[q]][member[q]] = 0
  BY DEF CalmInv, MailsAreRecorded
<1>3. ASSUME UNCHANGED noteVars, pc[p] # "mark", pc'[p] \notin {"send", "markFailed"}
      PROVE  MailsAreRecorded'
  <2>1. sent' = sent /\ email' = email
    BY <1>3 DEF noteVars
  <2>2. ASSUME NEW q \in Poll, pc[q] = "mark" PROVE pc'[q] = "mark" /\ event'[q] = event[q] /\ member'[q] = member[q]
    BY <1>1, <1>3, <2>2
  <2>3. ASSUME NEW q \in Poll, pc'[q] \in {"send", "markFailed"} PROVE sent'[event'[q]][member'[q]] = 0
    BY <1>1, <1>2, <1>3, <2>1, <2>3
  <2>4. ASSUME NEW e \in Event, NEW u \in User, BeingMarked(e, u) PROVE BeingMarked(e, u)'
    BY <2>2, <2>4 DEF BeingMarked
  <2> QED
    BY <1>2, <2>1, <2>3, <2>4 DEF MailsAreRecorded
<1>4. CASE Upsert(p)
  <2>1. PICK u \in members[p] :
              /\ pc[p] = "upsert" /\ event[p] \in Event /\ u \in User
              /\ \A e \in Event, x \in User :
                    e # event[p] \/ x # u => email'[e][x] = email[e][x]
              /\ email'[event[p]][u] = "SENT" <=> email[event[p]][u] = "SENT"
              /\ \/ /\ pc' = [pc EXCEPT ![p] = "send"] /\ member' = [member EXCEPT ![p] = u]
                    /\ email[event[p]][u] # "SENT"
                 \/ UNCHANGED <<pc, member>>
              /\ UNCHANGED <<sent, event>>
    BY <1>4, UpsertEffect
  <2>2. \A e \in Event, x \in User : email'[e][x] = "SENT" <=> email[e][x] = "SENT"
    BY <2>1
  <2>3. ASSUME NEW q \in Poll, pc[q] = "mark"
        PROVE  pc'[q] = "mark" /\ event'[q] = event[q] /\ member'[q] = member[q]
    BY <1>1, <2>1, <2>3
  <2>4. ASSUME NEW q \in Poll, pc'[q] \in {"send", "markFailed"}
        PROVE  sent'[event'[q]][member'[q]] = 0
    <3>1. CASE q # p
      BY <1>1, <1>2, <2>1, <2>4, <3>1
    <3>2. CASE q = p
      <4>1. member'[p] = u /\ email[event[p]][u] # "SENT" /\ event'[p] = event[p]
        BY <2>1, <2>4, <3>2
      <4>2. ~BeingMarked(event[p], u)
        BY <2>1, AloneAtEvent DEF BeingMarked
      <4>3. sent[event[p]][u] = 0
        BY <1>2, <2>1, <4>1, <4>2
      <4> QED
        BY <2>1, <3>2, <4>1, <4>3
    <3> QED
      BY <3>1, <3>2
  <2>5. sent' = sent
    BY <2>1
  <2>6. ASSUME NEW e \in Event, NEW x \in User, BeingMarked(e, x) PROVE BeingMarked(e, x)'
    BY <2>3, <2>6 DEF BeingMarked
  <2> QED
    BY <1>2, <2>2, <2>4, <2>5, <2>6 DEF MailsAreRecorded
<1>5. CASE SendEmail(p)
  <2>1. /\ pc[p] = "send" /\ event[p] \in Event /\ member[p] \in User
        /\ UNCHANGED <<email, event, member>> /\ sent[event[p]][member[p]] = 0
    BY <1>2, <1>5, SendEffect
  <2>2. CASE pc' = [pc EXCEPT ![p] = "markFailed"] /\ UNCHANGED sent
    <3>1. ASSUME NEW e \in Event, NEW u \in User, BeingMarked(e, u) PROVE BeingMarked(e, u)'
      BY <2>1, <2>2, <3>1 DEF BeingMarked
    <3>2. ASSUME NEW q \in Poll, pc'[q] \in {"send", "markFailed"}
          PROVE  sent'[event'[q]][member'[q]] = 0
      BY <1>2, <2>1, <2>2, <3>2
    <3> QED
      BY <1>2, <2>1, <2>2, <3>1, <3>2 DEF MailsAreRecorded
  <2>3. CASE /\ pc' = [pc EXCEPT ![p] = "mark"]
             /\ sent'[event[p]][member[p]] = 1
             /\ \A e \in Event, x \in User :
                       e # event[p] \/ x # member[p] => sent'[e][x] = sent[e][x]
    <3>1. ASSUME NEW e \in Event, NEW u \in User
          PROVE  /\ sent'[e][u] < 2
                 /\ sent'[e][u] = 0 \/ email'[e][u] = "SENT" \/ BeingMarked(e, u)'
      <4>1. CASE e = event[p] /\ u = member[p]
        BY <2>1, <2>3, <4>1 DEF BeingMarked
      <4>2. CASE ~(e = event[p] /\ u = member[p])
        <5>1. sent'[e][u] = sent[e][u] /\ email'[e][u] = email[e][u]
          BY <2>1, <2>3, <4>2
        <5>2. \A q \in Poll : pc[q] = "mark" => pc'[q] = "mark" /\ event'[q] = event[q] /\ member'[q] = member[q]
          BY <1>1, <2>1
        <5>3. BeingMarked(e, u) => BeingMarked(e, u)'
          BY <5>2 DEF BeingMarked
        <5> QED
          BY <1>2, <5>1, <5>3
      <4> QED
        BY <4>1, <4>2
    <3>2. ASSUME NEW q \in Poll, pc'[q] \in {"send", "markFailed"}
          PROVE  sent'[event'[q]][member'[q]] = 0
      <4>1. q # p /\ pc[q] = pc'[q] /\ event'[q] = event[q] /\ member'[q] = member[q]
        BY <1>1, <2>3, <3>2
      <4>2. event[q] \in Event /\ member[q] \in User /\ event[q] # event[p]
        BY <2>1, <3>2, <4>1, AloneAtEvent
      <4> QED
        BY <1>2, <2>3, <3>2, <4>1, <4>2
    <3> QED
      BY <3>1, <3>2 DEF MailsAreRecorded
  <2> QED
    BY <1>5, <2>1, <2>2, <2>3, SendEffect
<1>6. CASE MarkSent(p) \/ MarkFailed(p)
  <2>1. /\ pc[p] \in {"mark", "markFailed"} /\ event[p] \in Event /\ member[p] \in User
        /\ pc'[p] \in {"upsert", "fail"} /\ sent' = sent
        /\ \A e \in Event, x \in User : e # event[p] \/ x # member[p] => email'[e][x] = email[e][x]
        /\ email'[event[p]][member[p]] = "SENT" \/ sent[event[p]][member[p]] = 0
    BY <1>2, <1>6 DEF MarkSent, MarkFailed, AfterFailure
  <2>2. ASSUME NEW e \in Event, NEW u \in User
        PROVE  sent'[e][u] = 0 \/ email'[e][u] = "SENT" \/ BeingMarked(e, u)'
    <3>1. CASE e = event[p] /\ u = member[p]
      BY <2>1, <3>1
    <3>2. CASE ~(e = event[p] /\ u = member[p])
      <4>1. email'[e][u] = email[e][u]
        BY <2>1, <3>2
      <4>2. ASSUME NEW q \in Poll, pc[q] = "mark", event[q] = e, member[q] = u
            PROVE  pc'[q] = "mark" /\ event'[q] = e /\ member'[q] = u
        BY <1>1, <3>2, <4>2
      <4>3. BeingMarked(e, u) => BeingMarked(e, u)'
        BY <4>2 DEF BeingMarked
      <4> QED
        BY <1>2, <2>1, <4>1, <4>3
    <3> QED
      BY <3>1, <3>2
  <2>3. ASSUME NEW q \in Poll, pc'[q] \in {"send", "markFailed"}
        PROVE  sent'[event'[q]][member'[q]] = 0
    BY <1>1, <1>2, <2>1, <2>3
  <2> QED
    BY <1>2, <2>1, <2>2, <2>3 DEF MailsAreRecorded
<1>7. CASE ReadBatch(p) \/ ClaimEvent(p) \/ SkipEvent(p) \/ EndPoll(p) \/ EndConsume(p)
  BY <1>3, <1>7 DEF ReadBatch, ClaimEvent, SkipEvent, EndPoll, EndConsume
<1>8. CASE Acknowledge(p) \/ FailEvent(p)
  BY <1>3, <1>8 DEF Acknowledge, FailEvent, LeaveEvent
<1> QED
  BY <1>4, <1>5, <1>6, <1>7, <1>8 DEF PollStep

LEMMA CalmInvStep == Calm /\ TypeInv /\ CalmInv /\ [Next]_vars => CalmInv'
<1> SUFFICES ASSUME Calm, TypeInv, CalmInv, [Next]_vars PROVE CalmInv'
  OBVIOUS
<1>1. OnePoll'
  BY OnePollStep DEF CalmInv
<1> USE DEF TypeInv, RowsTyped, PollsTyped, AtEvent, AtMember
<1>2. ASSUME NEW p \in Poll, PollStep(p) PROVE CalmInv'
  BY <1>1, <1>2, HoldersLivePoll, MailsPoll DEF CalmInv
<1>3. ASSUME NEW e \in Event, Enqueue(e) PROVE CalmInv'
  <2>1. HoldersLive'
    BY <1>3 DEF Enqueue, CalmInv, HoldersLive, Holds, workerVars
  <2>2. MailsAreRecorded'
    BY <1>3 DEF Enqueue, CalmInv, MailsAreRecorded, BeingMarked, workerVars, noteVars
  <2> QED
    BY <1>1, <2>1, <2>2 DEF CalmInv
<1>4. ASSUME NEW e \in Event, LeaseExpires(e) PROVE CalmInv'
  <2>1. \A p \in Poll : WorkerOf[p] = owner[e] => event[p] # e
    BY <1>4 DEF LeaseExpires, Calm
  <2>2. HoldersLive'
    BY <1>4, <2>1 DEF LeaseExpires, CalmInv, HoldersLive, Holds, workerVars
  <2>3. MailsAreRecorded'
    BY <1>4 DEF LeaseExpires, CalmInv, MailsAreRecorded, BeingMarked, workerVars, noteVars
  <2> QED
    BY <1>1, <2>2, <2>3 DEF CalmInv
<1>5. ASSUME NEW e \in Event, BackoffPasses(e) PROVE CalmInv'
  BY <1>1, <1>5 DEF BackoffPasses, CalmInv, HoldersLive, Holds, MailsAreRecorded, BeingMarked, workerVars, noteVars
<1>6. CASE UNCHANGED vars
  BY <1>1, <1>6 DEF vars, CalmInv, HoldersLive, Holds, MailsAreRecorded, BeingMarked, rowVars, workerVars, noteVars
<1> QED
  BY <1>2, <1>3, <1>4, <1>5, <1>6 DEF Next, DbError, Die, Calm

\* A retry does not repeat an e-mail when failing e-mail is all that goes wrong: whoever is at
\* an event holds it under a live lease, so the row of a member already written to says SENT
\* before anybody visits the member again.
THEOREM MailedOnce == Spec => []NoDuplicateEmail
<1>1. Init => (Calm => CalmInv)
  BY DEF Init, CalmInv, OnePoll, HoldersLive, MailsAreRecorded, AtEvent, AtMember
<1>2. TypeInv /\ (Calm => CalmInv) /\ [Next]_vars => (Calm => CalmInv)'
  BY CalmInvStep, GrowsStep DEF Calm, Grows
<1>3. (Calm => CalmInv) => NoDuplicateEmail
  BY DEF NoDuplicateEmail, Calm, CalmInv, MailsAreRecorded
<1> QED
  BY <1>1, <1>2, <1>3, TypeInvariant, PTL DEF Spec
=============================================================================
