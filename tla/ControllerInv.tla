---------------------------- MODULE ControllerInv ----------------------------
(***************************************************************************)
(* The inductive invariants behind Controller's properties: what a thread  *)
(* at each label knows, how session ids and nonces are kept apart, and     *)
(* what holds between a removal on the routers and its record.             *)
(***************************************************************************)
EXTENDS Controller

\* Between Admit and the record of the outcome.
InFlight == {"apply", "record", "undo", "record_failed"}

\* The locals of a thread at the label it has reached are set.
FrameOK(t) ==
  LET f == frame[t]
      Requested(op) == pc[t] \in {"owner", "time", "verify"} /\ f.op = op
  IN  /\ pc[t] \in {"owner", "time", "issue", "verify", "admit"} \cup InFlight
           => f.id \in DOMAIN tickets
      /\ pc[t] \in {"owner", "verify"} => f.op \in {"activate", "teardown"}
      /\ pc[t] = "time" => f.op \in {"challenge", "activate", "teardown"}
      /\ pc[t] = "time" /\ f.op # "challenge" => f.owner \in Agents
      /\ pc[t] \in {"issue", "verify", "admit"} \cup InFlight => f.now \in Nat
      /\ pc[t] \in {"verify", "admit"} => f.owner \in Agents
      /\ Requested("activate") \/ pc[t] \in {"admit"} \cup InFlight
           => f.op = "activate" /\ f.view \in Views /\ f.view.id = f.id
      /\ pc[t] \in {"admit"} \cup InFlight => f.nonce \in Nonces /\ f.signer \in Agents
      /\ pc[t] \in InFlight => f.sid \in Sids /\ Entitlement(f.sid) = f.id
      /\ Requested("teardown") \/ pc[t] \in {"net_down", "mark"}
           => f.sid \in DOMAIN sessions
      /\ pc[t] \in {"list", "loop"} \/ (t \in Daemons /\ pc[t] # "idle")
           => \/ f.op = "expiry" /\ f.now \in Nat
              \/ f.op = "revocation" /\ f.id \in Ids
      /\ f.todo \subseteq DOMAIN sessions

FramesOK == \A t \in Threads : FrameOK(t)

SessionsOK ==
  \A s \in DOMAIN sessions : /\ sessions[s].state \in {"active", "torn_down", "failed"}
                             /\ Entitlement(s) \in DOMAIN tickets

TypeInv == TypeOK /\ FramesOK /\ SessionsOK

\* A request the predicate let through still finds no live session.
AdmittedAlone ==
  \A w \in Workers :
    pc[w] \in {"apply", "record"} => frame[w].id \notin ActiveIds

\* Numbers below seq are spent; every admitted request has one of its own.
SidsApart ==
  /\ \A s \in DOMAIN sessions : s[2] < seq
  /\ \A w \in Workers :
       pc[w] \in InFlight => frame[w].sid[2] < seq /\ frame[w].sid \notin DOMAIN sessions
  /\ \A v, w \in Workers :
       pc[v] \in InFlight /\ pc[w] \in InFlight /\ frame[v].sid = frame[w].sid => v = w

\* A nonce in the table, or one that was accepted, was issued.
NoncesIssued ==
  /\ DOMAIN open \subseteq DOMAIN issued
  /\ \A n \in Nonces : Spenders(n) # {} => n \in DOMAIN issued

\* What a request applied stays until the request records it.
AppliedIsConfigured ==
  \A w \in Workers : pc[w] = "record" => frame[w].sid \in net

\* Needs a network that does remove what it is told to remove.
MarkedIsRemoved ==
  \A t \in Threads : pc[t] = "mark" => frame[t].sid \notin net

\* One request at a time: "the controller serializes (v0)".
Serialized == \A v, w \in Workers : v = w
=============================================================================
