----------------------------- MODULE Completion -----------------------------
(***************************************************************************)
(* What publishTransaction:completion: promises the one who asks: a        *)
(* request is refused at once, or it waits until it is told the outcome.   *)
(* Having been told that time ran out it may still be told the outcome,    *)
(* late; having been told the outcome it is never told anything again.  A  *)
(* waiting request may also be forgotten, and then hears nothing.          *)
(***************************************************************************)
EXTENDS Integers

CONSTANT Requests

VARIABLE outcome

Outcomes == {"idle", "refused", "waiting", "timedOut", "answered", "forgotten"}

Waiting == {r \in Requests : outcome[r] = "waiting"}

Init == outcome = [r \in Requests |-> "idle"]

Refuse(r) ==
  /\ outcome[r] = "idle"
  /\ outcome' = [outcome EXCEPT ![r] = "refused"]

\* A request takes the place of at most one that still waits.
Ask(r) ==
  /\ outcome[r] = "idle"
  /\ \/ outcome' = [outcome EXCEPT ![r] = "waiting"]
     \/ \E q \in Waiting : outcome' = [outcome EXCEPT ![r] = "waiting", ![q] = "forgotten"]

TimeOut(r) ==
  /\ outcome[r] = "waiting"
  /\ outcome' = [outcome EXCEPT ![r] = "timedOut"]

Answer(r) ==
  /\ outcome[r] \in {"waiting", "timedOut"}
  /\ outcome' = [outcome EXCEPT ![r] = "answered"]

Forget(S) ==
  /\ S # {}
  /\ outcome' = [r \in Requests |-> IF r \in S THEN "forgotten" ELSE outcome[r]]

Next ==
  \/ \E r \in Requests : Refuse(r) \/ Ask(r) \/ TimeOut(r) \/ Answer(r)
  \/ \E S \in SUBSET Waiting : Forget(S)

Spec == Init /\ [][Next]_outcome
=============================================================================
