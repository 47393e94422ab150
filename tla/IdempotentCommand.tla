-------------------------- MODULE IdempotentCommand --------------------------
(* What an idempotency key promises its clients: while the key stands for a  *)
(* command, no other request with the key performs one, and a request is     *)
(* only ever answered with a command of its own key and body.                *)
CONSTANTS Request, Key, KeyOf, BodyOf, Refusals

VARIABLES
    stands,      \* the request whose command each key stands for, at most one
    performed,   \* the requests whose command took effect
    answer       \* what each request was told, at most one thing

Init ==
    /\ stands = [k \in Key |-> {}]
    /\ performed = {}
    /\ answer = [r \in Request |-> {}]

\* A request without a key performs its command and stands for nothing.
Perform(r) ==
    /\ r \notin performed
    /\ performed' = performed \cup {r}
    /\ IF KeyOf[r] \in Key
       THEN /\ stands[KeyOf[r]] = {}
            /\ stands' = [stands EXCEPT ![KeyOf[r]] = {r}]
       ELSE UNCHANGED stands

Forget(k) ==
    /\ stands[k] # {}
    /\ stands' = [stands EXCEPT ![k] = {}]
    /\ UNCHANGED <<performed, answer>>

Tell(r) ==
    /\ answer[r] = {}
    /\ \E x \in performed' \cup Refusals :
          /\ x \in Refusals \/ (KeyOf[x] = KeyOf[r] /\ BodyOf[x] = BodyOf[r])
          /\ answer' = [answer EXCEPT ![r] = {x}]

Next ==
    \/ \E r \in Request : Perform(r) /\ (UNCHANGED answer \/ Tell(r))
    \/ \E r \in Request : Tell(r) /\ UNCHANGED <<stands, performed>>
    \/ \E k \in Key : Forget(k)

Spec == Init /\ [][Next]_<<stands, performed, answer>>
=============================================================================
