------------------------------- MODULE Domain -------------------------------
(***************************************************************************)
(* The controller's pure core, controller/domain.py: the six-step          *)
(* activation predicate and the session state machine, as operators.       *)
(***************************************************************************)
EXTENDS Integers

KNOWN_SERVICE_TYPES == {0, 1}   \* 0 = bandwidth, 1 = telemetry

ACTION_KINDS == [bandwidth |-> 0, telemetry |-> 1]

SessionStates == {"requested", "authorized", "active", "torn_down", "failed"}

\* Mutant: the check for a live session is missing.
PredicateWithoutConflict(view, owner, requester, now, activeIds, kind) ==
  IF \/ requester # owner \/ now < view.terms.start \/ now >= view.terms.end
     \/ view.revoked \/ ACTION_KINDS[kind] # view.terms.service
  THEN "refused" ELSE "ok"

(***************************************************************************)
(* The FIRST failing check, or "ok".  view is the ticket as the chain      *)
(* returned it, now is chain time, activeIds the tickets with a session in *)
(* state "active", kind the action the requester names.                    *)
(***************************************************************************)
Predicate(view, owner, requester, now, activeIds, kind) ==
  IF requester # owner                               THEN "E_NOT_OWNER"
  ELSE IF now < view.terms.start                     THEN "E_NOT_STARTED"
  ELSE IF now >= view.terms.end                      THEN "E_EXPIRED"
  ELSE IF view.revoked                               THEN "E_REVOKED"
  ELSE IF view.terms.service \notin KNOWN_SERVICE_TYPES THEN "E_SCOPE"
  ELSE IF ACTION_KINDS[kind] # view.terms.service    THEN "E_SCOPE"
  ELSE IF view.id \in activeIds                      THEN "E_CONFLICT"
  ELSE "ok"

\* A pair the diagram does not draw raises IllegalTransition.
Illegal == "illegal"

\* Mutant: the absorbing self-loops of the final states are missing.
TransitionWithoutAbsorbed(state, event) ==
  CASE state = "requested"  /\ event = "authorize"        -> "authorized"
    [] state = "requested"  /\ event = "deny"             -> "failed"
    [] state = "authorized" /\ event = "provision_ok"     -> "active"
    [] state = "authorized" /\ event = "provision_failed" -> "failed"
    [] state = "active"     /\ event = "teardown"         -> "torn_down"
    [] OTHER -> Illegal

Transition(state, event) ==
  CASE state \in {"torn_down", "failed"} /\ event = "teardown" -> state
    [] state = "requested"  /\ event = "authorize"        -> "authorized"
    [] state = "requested"  /\ event = "deny"             -> "failed"
    [] state = "authorized" /\ event = "provision_ok"     -> "active"
    [] state = "authorized" /\ event = "provision_failed" -> "failed"
    [] state = "active"     /\ event = "teardown"         -> "torn_down"
    [] OTHER -> Illegal
=============================================================================
