------------------------------- MODULE Outbox -------------------------------
(* The transactional outbox and its only consumer: publishOutboxEvents of  *)
(* outbox-service.ts, called by every poll of a worker, and                *)
(* consumeNotificationEvent of notification-service.ts, which turns an     *)
(* event into notifications and e-mails for the members of a role.         *)
(*                                                                         *)
(* The steps are the database statements and the e-mails of a poll.  A     *)
(* worker means to run one poll at a time (pollInProgress), but Promise.all*)
(* gives up on the outbox when a recovery beside it fails, and the next    *)
(* poll may then start while the batch is still going on under the same    *)
(* instance id.  The order within a batch and the length of a backoff are  *)
(* left open; event.attemptCount, read with the batch, only sets that      *)
(* length.  Roles and preferences are those of the first attempt.          *)
EXTENDS Naturals

CONSTANTS
    Event, User, Worker, NoWorker, NoEvent, NoUser,
    Poll,            \* polls that may run at one time
    WorkerOf,        \* the worker each of them runs in
    Audience,        \* the members each event's roles reach
    Wants,           \* the members who want e-mail for it
    MaxAttempts,     \* OUTBOX_MAX_ATTEMPTS
    FaultSets        \* the sets of faults to consider, see faults

ASSUME OutboxAssumption ==
    /\ WorkerOf \in [Poll -> Worker]
    /\ NoWorker \notin Worker /\ NoEvent \notin Event /\ NoUser \notin User
    /\ Audience \in [Event -> SUBSET User]
    /\ Wants \subseteq User
    /\ MaxAttempts \in Nat \ {0}
    /\ FaultSets \subseteq SUBSET
          {"noEmail", "emailErrors", "dbErrors", "slowPublishers", "crashes"}

(* The faults a behaviour may meet, fixed from its start: no e-mail provider,*)
(* e-mails or database statements that fail, publishing that outlasts its    *)
(* lease, workers that die.                                                  *)
VARIABLE faults
EmailConfigured == "noEmail" \notin faults

VARIABLES
    status, attempts, owner, lease, due,   \* the OutboxEvent rows
    email,        \* UserNotification.emailStatus, "none" without a row
    sent,         \* how many e-mails each member got for each event, up to 2
    alive,        \* the workers
    pc, batch, event, members, member   \* a poll and the event it publishes

rowVars    == <<status, attempts, owner, lease, due>>
noteVars   == <<email, sent>>
workerVars == <<alive, pc, batch, event, members, member>>
vars       == <<faults, rowVars, noteVars, workerVars>>

Init ==
    /\ faults \in FaultSets
    /\ status = [e \in Event |-> "none"]
    /\ attempts = [e \in Event |-> 0]
    /\ owner = [e \in Event |-> NoWorker]
    /\ lease = [e \in Event |-> "none"]
    /\ due = [e \in Event |-> TRUE]
    /\ email = [e \in Event |-> [u \in User |-> "none"]]
    /\ sent = [e \in Event |-> [u \in User |-> 0]]
    /\ alive = [w \in Worker |-> TRUE]
    /\ pc = [p \in Poll |-> "idle"]
    /\ batch = [p \in Poll |-> {}]
    /\ event = [p \in Poll |-> NoEvent]
    /\ members = [p \in Poll |-> {}]
    /\ member = [p \in Poll |-> NoUser]

-----------------------------------------------------------------------------
(* enqueueOutboxEvent, in the transaction of whatever the event reports.   *)
Enqueue(e) ==
    /\ status[e] = "none"
    /\ status' = [status EXCEPT ![e] = "PENDING"]
    /\ UNCHANGED <<faults, attempts, owner, lease, due, noteVars, workerVars>>

PublishableOnce(e) ==   \* mutant: failed events are not looked for
    /\ attempts[e] < MaxAttempts
    /\ \/ status[e] = "PENDING" /\ due[e]
       \/ status[e] = "PROCESSING" /\ lease[e] = "expired"
Publishable(e) ==
    /\ attempts[e] < MaxAttempts
    /\ \/ status[e] \in {"PENDING", "FAILED"} /\ due[e]
       \/ status[e] = "PROCESSING" /\ lease[e] = "expired"

ReadBatch(p) ==
    /\ alive[WorkerOf[p]]
    /\ pc[p] = "idle"
    /\ "dbErrors" \in faults \/ \A q \in Poll : WorkerOf[q] = WorkerOf[p] => pc[q] = "idle"
    /\ \E e \in Event : Publishable(e)
    /\ batch' = [batch EXCEPT ![p] = {e \in Event : Publishable(e)}]
    /\ pc' = [pc EXCEPT ![p] = "next"]
    /\ UNCHANGED <<faults, rowVars, noteVars, alive, event, members, member>>

(* The claim repeats the conditions of the read, which may be stale.       *)
Claimable(e) == Publishable(e)

ClaimEvent(p) ==
    /\ alive[WorkerOf[p]]
    /\ pc[p] = "next"
    /\ \E e \in batch[p] :
          /\ Claimable(e)
          /\ batch' = [batch EXCEPT ![p] = @ \ {e}]
          /\ status' = [status EXCEPT ![e] = "PROCESSING"]
          /\ attempts' = [attempts EXCEPT ![e] = @ + 1]
          /\ owner' = [owner EXCEPT ![e] = WorkerOf[p]]
          /\ lease' = [lease EXCEPT ![e] = "live"]
          /\ event' = [event EXCEPT ![p] = e]
          /\ members' = [members EXCEPT ![p] = Audience[e]]
    /\ pc' = [pc EXCEPT ![p] = "upsert"]
    /\ UNCHANGED <<faults, due, noteVars, alive, member>>

SkipEvent(p) ==
    /\ alive[WorkerOf[p]]
    /\ pc[p] = "next"
    /\ \E e \in batch[p] :
          /\ ~Claimable(e)
          /\ batch' = [batch EXCEPT ![p] = @ \ {e}]
    /\ UNCHANGED <<faults, rowVars, noteVars, alive, pc, event, members, member>>

EndPoll(p) ==
    /\ alive[WorkerOf[p]]
    /\ pc[p] = "next"
    /\ batch[p] = {}
    /\ pc' = [pc EXCEPT ![p] = "idle"]
    /\ UNCHANGED <<faults, rowVars, noteVars, alive, batch, event, members, member>>

-----------------------------------------------------------------------------
(* consumeNotificationEvent, one member after the other.  The upsert keeps *)
(* a row that exists, and its emailStatus decides whether to send.         *)
SentAgain(e, u) == FALSE   \* mutant: a retry does not look at the row
AlreadySent(e, u) == email[e][u] = "SENT"

Remaining(p, u) == members[p] \ {u}

Upsert(p) ==
    LET e == event[p] IN
    /\ alive[WorkerOf[p]]
    /\ pc[p] = "upsert"
    /\ \E u \in members[p] :
          /\ members' = [members EXCEPT ![p] = Remaining(p, u)]
          /\ email' = [email EXCEPT ![e][u] =
                         IF u \in Wants /\ ~EmailConfigured /\ @ # "SENT" THEN "FAILED"
                         ELSE IF @ # "none" THEN @
                         ELSE IF u \in Wants THEN "PENDING" ELSE "NOT_REQUESTED"]
          /\ IF u \in Wants /\ EmailConfigured /\ ~AlreadySent(e, u)
             THEN /\ member' = [member EXCEPT ![p] = u]
                  /\ pc' = [pc EXCEPT ![p] = "send"]
             ELSE UNCHANGED <<member, pc>>
    /\ UNCHANGED <<faults, rowVars, sent, alive, batch, event>>

OnSendError == "markFailed"

SendEmail(p) ==
    /\ alive[WorkerOf[p]]
    /\ pc[p] = "send"
    /\ \/ /\ sent' = [sent EXCEPT ![event[p]][member[p]] = IF @ < 2 THEN @ + 1 ELSE @]
          /\ pc' = [pc EXCEPT ![p] = "mark"]
       \/ /\ "emailErrors" \in faults
          /\ pc' = [pc EXCEPT ![p] = OnSendError]
          /\ UNCHANGED sent
    /\ UNCHANGED <<faults, rowVars, email, alive, batch, event, members, member>>

MarkSent(p) ==
    /\ alive[WorkerOf[p]]
    /\ pc[p] = "mark"
    /\ email' = [email EXCEPT ![event[p]][member[p]] = "SENT"]
    /\ member' = [member EXCEPT ![p] = NoUser]
    /\ pc' = [pc EXCEPT ![p] = "upsert"]
    /\ UNCHANGED <<faults, rowVars, sent, alive, batch, event, members>>

\* The catch block: the row records the failure and the event fails with it.
AfterFailure == "fail"

MarkFailed(p) ==
    /\ alive[WorkerOf[p]]
    /\ pc[p] = "markFailed"
    /\ email' = [email EXCEPT ![event[p]][member[p]] = "FAILED"]
    /\ member' = [member EXCEPT ![p] = NoUser]
    /\ pc' = [pc EXCEPT ![p] = AfterFailure]
    /\ UNCHANGED <<faults, rowVars, sent, alive, batch, event, members>>

EndConsume(p) ==
    /\ alive[WorkerOf[p]]
    /\ pc[p] = "upsert"
    /\ members[p] = {}
    /\ pc' = [pc EXCEPT ![p] = "ack"]
    /\ UNCHANGED <<faults, rowVars, noteVars, alive, batch, event, members, member>>

-----------------------------------------------------------------------------
HoldsById(p, e) == owner[e] # NoWorker \/ status[e] = "PUBLISHED"   \* mutant
Holds(p, e) == status[e] = "PROCESSING" /\ owner[e] = WorkerOf[p]

Close(p, e, s) ==
    IF Holds(p, e)
    THEN /\ status' = [status EXCEPT ![e] = s]
         /\ owner' = [owner EXCEPT ![e] = NoWorker]
         /\ lease' = [lease EXCEPT ![e] = "none"]
         /\ due' = [due EXCEPT ![e] = (s = "PUBLISHED")]
    ELSE UNCHANGED <<status, owner, lease, due>>

LeaveEvent(p, next) ==
    /\ pc' = [pc EXCEPT ![p] = next]
    /\ event' = [event EXCEPT ![p] = NoEvent]
    /\ members' = [members EXCEPT ![p] = {}]
    /\ member' = [member EXCEPT ![p] = NoUser]

Acknowledge(p) ==
    /\ alive[WorkerOf[p]]
    /\ pc[p] = "ack"
    /\ Close(p, event[p], "PUBLISHED")
    /\ LeaveEvent(p, "next")
    /\ UNCHANGED <<faults, attempts, noteVars, alive, batch>>

FailEvent(p) ==
    /\ alive[WorkerOf[p]]
    /\ pc[p] = "fail"
    /\ Close(p, event[p], "FAILED")
    /\ LeaveEvent(p, "next")
    /\ UNCHANGED <<faults, attempts, noteVars, alive, batch>>

(* A statement of the poll fails.  Within publish, or the acknowledgement, *)
(* it fails the event; the failure's own update, the batch query and the   *)
(* claim end the poll, and the event waits for its lease.                  *)
DbError(p) ==
    /\ "dbErrors" \in faults
    /\ alive[WorkerOf[p]]
    /\ \/ /\ pc[p] = "mark"
          /\ pc' = [pc EXCEPT ![p] = "markFailed"]
          /\ UNCHANGED <<batch, event, members, member>>
       \/ /\ pc[p] \in {"upsert", "markFailed", "ack"}
          /\ pc' = [pc EXCEPT ![p] = "fail"]
          /\ UNCHANGED <<batch, event, members, member>>
       \/ /\ pc[p] \in {"next", "fail"}
          /\ LeaveEvent(p, "idle")
          /\ batch' = [batch EXCEPT ![p] = {}]
    /\ UNCHANGED <<faults, rowVars, noteVars, alive>>

Die(w) ==
    LET Lost(q) == WorkerOf[q] = w IN
    /\ "crashes" \in faults
    /\ alive[w]
    /\ alive' = [alive EXCEPT ![w] = FALSE]
    /\ pc' = [q \in Poll |-> IF Lost(q) THEN "idle" ELSE pc[q]]
    /\ batch' = [q \in Poll |-> IF Lost(q) THEN {} ELSE batch[q]]
    /\ event' = [q \in Poll |-> IF Lost(q) THEN NoEvent ELSE event[q]]
    /\ members' = [q \in Poll |-> IF Lost(q) THEN {} ELSE members[q]]
    /\ member' = [q \in Poll |-> IF Lost(q) THEN NoUser ELSE member[q]]
    /\ UNCHANGED <<faults, rowVars, noteVars>>

(* The clock: nobody renews the lease of an event.                         *)
LeaseExpires(e) ==
    /\ lease[e] = "live"
    /\ "slowPublishers" \in faults \/ \A p \in Poll : WorkerOf[p] = owner[e] => event[p] # e
    /\ lease' = [lease EXCEPT ![e] = "expired"]
    /\ UNCHANGED <<faults, status, attempts, owner, due, noteVars, workerVars>>

BackoffPasses(e) ==
    /\ ~due[e]
    /\ due' = [due EXCEPT ![e] = TRUE]
    /\ UNCHANGED <<faults, status, attempts, owner, lease, noteVars, workerVars>>

-----------------------------------------------------------------------------
PollStep(p) ==
    \/ ReadBatch(p)  \/ ClaimEvent(p)  \/ SkipEvent(p)   \/ EndPoll(p)
    \/ Upsert(p)     \/ SendEmail(p)   \/ MarkSent(p)    \/ MarkFailed(p)
    \/ EndConsume(p) \/ Acknowledge(p) \/ FailEvent(p)

Next ==
    \/ \E e \in Event : Enqueue(e) \/ LeaseExpires(e) \/ BackoffPasses(e)
    \/ \E p \in Poll : PollStep(p) \/ DbError(p)
    \/ \E w \in Worker : Die(w)

Spec == Init /\ [][Next]_vars

(* Workers poll for as long as they live, and time passes.                 *)
Fairness ==
    /\ \A p \in Poll : WF_vars(PollStep(p))
    /\ \A e \in Event : WF_vars(LeaseExpires(e)) /\ WF_vars(BackoffPasses(e))

FairSpec == Spec /\ Fairness

-----------------------------------------------------------------------------
\* The outbox keeps the promise of EventDelivery.  An event counts as delivered when it was
\* attempted (an event may concern nobody), every member of its audience has a notification
\* and who wants e-mail got one: it is PUBLISHED only after that, whichever workers shared
\* the attempts, and a late failure of a slower worker does not undo the acknowledgement.
Phase(e) == CASE status[e] = "none" -> "none"
              [] status[e] = "PUBLISHED" -> "acknowledged"
              [] OTHER -> "pending"

Delivered(e) ==
    /\ attempts[e] > 0
    /\ \A u \in Audience[e] :
          /\ email[e][u] # "none"
          /\ u \in Wants /\ EmailConfigured => sent[e][u] > 0

Delivery == INSTANCE EventDelivery WITH
    phase     <- [e \in Event |-> Phase(e)],
    delivered <- {e \in Event : Delivered(e)}

KeepsPromise == Delivery!Spec

\* Retries do not repeat e-mails: an attempt that fails at one member does not write
\* again to the members before, when failing e-mail is the only fault.
NoDuplicateEmail ==
    faults \subseteq {"emailErrors"} => \A e \in Event, u \in User : sent[e][u] < 2

\* Every event is published or ends FAILED with its attempts used up, unless workers
\* crash or lose statements; a worker that takes too long does not prevent it.
EventsSettle ==
    faults \cap {"crashes", "dbErrors"} = {} =>
        \A e \in Event : status[e] = "PENDING" ~>
            status[e] = "PUBLISHED" \/ (status[e] = "FAILED" /\ attempts[e] = MaxAttempts)
=============================================================================
