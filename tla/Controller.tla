----------------------------- MODULE Controller -----------------------------
(***************************************************************************)
(* ControllerService with its AuthStore, the Revoked watcher and the       *)
(* expiry timer that start_watchers runs, and the provisioner's answers.   *)
(*                                                                         *)
(* A thread takes one step per access to something shared: a chain read    *)
(* (each is an RPC), the nonce table, the session table, the network.      *)
(* Request data is bound when the code first looks at it, not when the     *)
(* request arrives; a request refused before it changed anything leaves no *)
(* trace, so its early refusals are guards.                                *)
(***************************************************************************)
EXTENDS EntitlementChain, Domain

CONSTANTS Workers,    \* request threads: FastAPI's pool, or one caller in process
          Daemons,    \* which of the background threads were started
          Nonces,     \* fresh nonces the controller may draw (bounds challenges)
          NonceTTL,   \* NONCE_TTL_S
          Failures,   \* calls that may fail: "apply", "teardown", "callback"
          CanRestart, \* whether the controller process may die and come back
          Null        \* an unset field of a frame

Timer == "timer"
Watcher == "watcher"
Threads == Workers \cup Daemons

ASSUME DaemonsAssumption == /\ Daemons \subseteq {Timer, Watcher}
                            /\ Workers \cap {Timer, Watcher} = {}
                            /\ Workers \cap (Ids \X Nat) = {}
ASSUME ConfigAssumption == /\ NonceTTL \in Nat
                           /\ Failures \subseteq {"apply", "teardown", "callback"}
                           /\ CanRestart \in BOOLEAN
ASSUME NullAssumption == /\ Null \notin Nonces
                         /\ Null \notin Agents
                         /\ Null \notin Ids \X Nat

VARIABLES
  open,         \* AuthStore._open: nonce -> [id, expires]
  sessions,     \* ControllerService._sessions: session id -> record
  seq,          \* ControllerService._seq
  net,          \* session ids whose config is on the routers
  undelivered,  \* tickets with a Revoked event the watcher has not taken
  pc,           \* where each thread is
  frame,        \* each thread's local variables
  issued        \* history: nonce -> entry of every challenge (none is drawn twice)

controllerVars == <<open, sessions, seq, net, undelivered, pc, frame, issued>>
vars == <<chainVars, controllerVars>>

-----------------------------------------------------------------------------
\* A session id is "ent<id>-a<seq>".
Sids == Ids \X Nat
Entitlement(sid) == sid[1]

\* The last two fields are history: the nonce the request was let through with,
\* and whether the ticket was revoked after the request read it and before the
\* session was recorded.
Session == [state : SessionStates, since : Nat, expires : Nat,
            nonce : Nonces, late : BOOLEAN]

Views == [id : Ids, terms : Terms, revoked : BOOLEAN]

Frames == [op     : {Null, "challenge", "activate", "teardown", "expiry", "revocation"},
           id     : Ids \cup {Null},
           view   : Views \cup {Null},
           owner  : Agents \cup {Null},
           now    : Nat \cup {Null},
           nonce  : Nonces \cup {Null},
           signer : Agents \cup {Null},
           sid    : Sids \cup {Null},
           todo   : SUBSET Sids]

EmptyFrame == [op |-> Null, id |-> Null, view |-> Null, owner |-> Null,
               now |-> Null, nonce |-> Null, signer |-> Null, sid |-> Null,
               todo |-> {}]

Labels == {"idle", "owner", "time", "issue", "verify", "admit", "apply", "record",
           "undo", "record_failed", "net_down", "mark", "list", "loop"}

Active(sid) == sid \in DOMAIN sessions /\ sessions[sid].state = "active"

ActiveIds == {Entitlement(s) : s \in {x \in DOMAIN sessions : Active(x)}}

Put(f, k, v) == [x \in DOMAIN f \cup {k} |-> IF x = k THEN v ELSE f[x]]

Drop(f, k) == [x \in DOMAIN f \ {k} |-> f[x]]

\* Thread t is at label `at`, and goes to `to` with local variables f.
Step(t, at, to, f) == /\ pc[t] = at
                      /\ pc' = [pc EXCEPT ![t] = to]
                      /\ frame' = [frame EXCEPT ![t] = f]

\* Thread t is at label `at` and answers its request (or ends its round).
Answer(t, at) == Step(t, at, "idle", EmptyFrame)

TypeOK ==
  /\ ChainTypeOK
  /\ DOMAIN open \subseteq Nonces
  /\ \A n \in DOMAIN open : open[n] \in [id : Ids, expires : Nat]
  /\ DOMAIN sessions \subseteq Sids
  /\ \A s \in DOMAIN sessions : sessions[s] \in Session
  /\ seq \in Nat
  /\ net \subseteq Sids
  /\ undelivered \subseteq Ids
  /\ pc \in [Threads -> Labels]
  /\ frame \in [Threads -> Frames]
  /\ DOMAIN issued \subseteq Nonces
  /\ \A n \in DOMAIN issued : issued[n] \in [id : Ids, expires : Nat]

Init ==
  /\ ChainInit
  /\ open = [n \in {} |-> 0]
  /\ sessions = [s \in {} |-> 0]
  /\ seq = 0
  /\ net = {}
  /\ undelivered = {}
  /\ pc = [t \in Threads |-> "idle"]
  /\ frame = [t \in Threads |-> EmptyFrame]
  /\ issued = [n \in {} |-> 0]

-----------------------------------------------------------------------------
(* Requests: POST /v0/challenge, /v0/activate and /v0/teardown. *)

\* What get answers for: E_UNKNOWN_ENTITLEMENT for a ticket never minted, and
\* an error for a service type the reader has no decoder for.
Readable(id) ==
  id \in DOMAIN tickets /\ tickets[id].terms.service \in KNOWN_SERVICE_TYPES

BeginChallenge(w, id) ==
  /\ Readable(id)
  /\ Step(w, "idle", "time", [EmptyFrame EXCEPT !.op = "challenge", !.id = id])
  /\ UNCHANGED <<chainVars, open, sessions, seq, net, undelivered, issued>>

BeginActivate(w, id) ==
  /\ Readable(id)
  /\ Step(w, "idle", "owner", [EmptyFrame EXCEPT !.op = "activate", !.id = id,
                                                 !.view = View(id)])
  /\ UNCHANGED <<chainVars, open, sessions, seq, net, undelivered, issued>>

\* An unknown session id answers torn_down without touching anything.
BeginTeardown(w, sid) ==
  /\ sid \in DOMAIN sessions
  /\ Step(w, "idle", "owner", [EmptyFrame EXCEPT !.op = "teardown", !.sid = sid,
                                                 !.id = Entitlement(sid)])
  /\ UNCHANGED <<chainVars, open, sessions, seq, net, undelivered, issued>>

ReadOwner(w) ==
  /\ Step(w, "owner", "time", [frame[w] EXCEPT !.owner = tickets[frame[w].id].owner])
  /\ UNCHANGED <<chainVars, open, sessions, seq, net, undelivered, issued>>

ReadTime(w) ==
  /\ Step(w, "time", IF frame[w].op = "challenge" THEN "issue" ELSE "verify",
          [frame[w] EXCEPT !.now = time])
  /\ UNCHANGED <<chainVars, open, sessions, seq, net, undelivered, issued>>

IssueChallenge(w, n) ==
  /\ n \in Nonces \ DOMAIN issued
  /\ Answer(w, "issue")
  /\ LET entry == [id |-> frame[w].id, expires |-> frame[w].now + NonceTTL]
     IN  open' = Put(open, n, entry) /\ issued' = Put(issued, n, entry)
  /\ UNCHANGED <<chainVars, sessions, seq, net, undelivered>>

\* Mutants: a stale challenge will do; anybody's signature will do.
ProofBindsStale(f, n, signer, verb) ==
  n \in DOMAIN open /\ open[n].id = f.id /\ signer = f.owner /\ verb = f.op

ProofBindsAnySigner(f, n, signer, verb) ==
  n \in DOMAIN open /\ open[n].id = f.id /\ f.now <= open[n].expires /\ verb = f.op

\* The proof names nonce n and carries signer's signature over the string for
\* `verb`; over any other string the recovered address is a stranger's.
ProofBinds(f, n, signer, verb) ==
  /\ n \in DOMAIN open
  /\ open[n].id = f.id
  /\ f.now <= open[n].expires
  /\ signer = f.owner
  /\ verb = f.op

\* Mutant: the nonce is looked up and stays in the table.
VerifyPeeks(w, n, signer, verb) ==
  /\ pc[w] = "verify"
  /\ ProofBinds(frame[w], n, signer, verb)
  /\ Step(w, "verify", IF verb = "activate" THEN "admit" ELSE "net_down",
          [frame[w] EXCEPT !.nonce = n, !.signer = signer])
  /\ UNCHANGED <<chainVars, open, sessions, seq, net, undelivered, issued>>

\* The nonce burns on ANY verification attempt.
Verify(w, n, signer, verb) ==
  /\ pc[w] = "verify"
  /\ open' = Drop(open, n)
  /\ IF ProofBinds(frame[w], n, signer, verb)
     THEN Step(w, "verify", IF verb = "activate" THEN "admit" ELSE "net_down",
               [frame[w] EXCEPT !.nonce = n, !.signer = signer])
     ELSE Answer(w, "verify")
  /\ UNCHANGED <<chainVars, sessions, seq, net, undelivered, issued>>

\* The scan for active sessions, the predicate, the session id and the
\* translation.  The sequence number is spent even when translate refuses.
Admit(w, kind) ==
  LET f == frame[w]
      allowed == Predicate(f.view, f.owner, f.owner, f.now, ActiveIds, kind) = "ok"
  IN  /\ pc[w] = "admit"
      /\ IF allowed /\ f.view.terms.mapped
         THEN Step(w, "admit", "apply", [f EXCEPT !.sid = <<f.id, seq>>])
         ELSE Answer(w, "admit")
      /\ seq' = IF allowed THEN seq + 1 ELSE seq
      /\ UNCHANGED <<chainVars, open, sessions, net, undelivered, issued>>

\* Mutant: the answer of apply is ignored.
ApplyAssumesOk(w) ==
  /\ Step(w, "apply", "record", frame[w])
  /\ \/ net' = net \cup {frame[w].sid}
     \/ "apply" \in Failures /\ net' = net
  /\ UNCHANGED <<chainVars, open, sessions, seq, undelivered, issued>>

Apply(w) ==
  LET sid == frame[w].sid
  IN  /\ \/ /\ Step(w, "apply", "record", frame[w])
            /\ net' = net \cup {sid}
         \/ /\ "apply" \in Failures    \* refused, or done and the answer lost
            /\ Step(w, "apply", "undo", frame[w])
            /\ net' \in {net, net \cup {sid}}
      /\ UNCHANGED <<chainVars, open, sessions, seq, undelivered, issued>>

NewSession(f, event) ==
  [state |-> Transition(Transition("requested", "authorize"), event),
   since |-> f.now, expires |-> f.view.terms.end,
   nonce |-> f.nonce,
   late |-> tickets[f.id].revoked /\ ~f.view.revoked]

Record(w) ==
  /\ Answer(w, "record")
  /\ sessions' = Put(sessions, frame[w].sid, NewSession(frame[w], "provision_ok"))
  /\ UNCHANGED <<chainVars, open, seq, net, undelivered, issued>>

\* NetworkProvisioner.teardown: what it leaves; the callers ignore its answer.
NetTeardown(sid) == \/ net' = net \ {sid}
                    \/ "teardown" \in Failures /\ net' = net

\* Mutant: a failed apply is recorded and not undone.
UndoSkipped(w) ==
  /\ Step(w, "undo", "record_failed", frame[w])
  /\ UNCHANGED <<chainVars, open, sessions, seq, net, undelivered, issued>>

Undo(w) ==
  /\ Step(w, "undo", "record_failed", frame[w])
  /\ NetTeardown(frame[w].sid)
  /\ UNCHANGED <<chainVars, open, sessions, seq, undelivered, issued>>

RecordFailed(w) ==
  /\ Answer(w, "record_failed")
  /\ sessions' = Put(sessions, frame[w].sid, NewSession(frame[w], "provision_failed"))
  /\ UNCHANGED <<chainVars, open, seq, net, undelivered, issued>>

\* teardown(session_id), for every caller: the network, then the record.
TearDownNet(t) ==
  /\ Step(t, "net_down", "mark", frame[t])
  /\ NetTeardown(frame[t].sid)
  /\ UNCHANGED <<chainVars, open, sessions, seq, undelivered, issued>>

\* Mutant: the record is overwritten without asking the state machine.
MarkBlindly(t) ==
  LET sid == frame[t].sid
  IN  /\ IF t \in Workers THEN Answer(t, "mark")
                          ELSE Step(t, "mark", "loop", [frame[t] EXCEPT !.sid = Null])
      /\ sessions' = [sessions EXCEPT ![sid].state = "torn_down"]
      /\ UNCHANGED <<chainVars, open, seq, net, undelivered, issued>>

Mark(t) ==
  LET sid == frame[t].sid
  IN  /\ IF t \in Workers THEN Answer(t, "mark")
                          ELSE Step(t, "mark", "loop", [frame[t] EXCEPT !.sid = Null])
      /\ sessions' = [sessions EXCEPT ![sid].state = Transition(@, "teardown")]
      /\ UNCHANGED <<chainVars, open, seq, net, undelivered, issued>>

WorkerBegins(w) ==
  \/ \E id \in Ids : BeginChallenge(w, id) \/ BeginActivate(w, id)
  \/ \E sid \in DOMAIN sessions : BeginTeardown(w, sid)

WorkerContinues(w) ==
  \/ ReadOwner(w)
  \/ ReadTime(w)
  \/ \E n \in Nonces : IssueChallenge(w, n)
  \/ \E n \in Nonces, signer \in Agents, verb \in {"activate", "teardown"} :
       Verify(w, n, signer, verb)
  \/ \E kind \in DOMAIN ACTION_KINDS : Admit(w, kind)
  \/ Apply(w) \/ Record(w)
  \/ Undo(w) \/ RecordFailed(w)
  \/ TearDownNet(w) \/ Mark(w)

-----------------------------------------------------------------------------
(* The two autonomous teardown paths. *)

\* ExpiryTimer wakes and tick reads chain time.  A wake whose read fails
\* changes nothing and is retried at the next poll.
Wake ==
  /\ Step(Timer, "idle", "list", [EmptyFrame EXCEPT !.op = "expiry", !.now = time])
  /\ UNCHANGED <<chainVars, open, sessions, seq, net, undelivered, issued>>

\* The watcher hands Revoked(id) to handle_revoked, which re-reads the ticket.
Deliver(id) ==
  /\ id \in undelivered
  /\ undelivered' = undelivered \ {id}
  /\ Readable(id) /\ tickets[id].revoked
  /\ Step(Watcher, "idle", "list", [EmptyFrame EXCEPT !.op = "revocation", !.id = id])
  /\ UNCHANGED <<chainVars, open, sessions, seq, net, issued>>

\* handle_revoked raised (its read failed): the watch loop drops the event.
DeliveryFails(id) ==
  /\ "callback" \in Failures \/ ~Readable(id)
  /\ id \in undelivered
  /\ pc[Watcher] = "idle"
  /\ undelivered' = undelivered \ {id}
  /\ UNCHANGED <<chainVars, open, sessions, seq, net, pc, frame, issued>>

\* Mutant: expiry is due one tick early.
RipeEarly(d, sid) ==
  /\ Active(sid)
  /\ \/ frame[d].op = "expiry" /\ frame[d].now + 1 >= sessions[sid].expires
     \/ frame[d].op = "revocation" /\ Entitlement(sid) = frame[d].id

\* The session the daemon's loop would end.
Ripe(d, sid) ==
  /\ Active(sid)
  /\ CASE frame[d].op = "expiry"     -> frame[d].now >= sessions[sid].expires
       [] frame[d].op = "revocation" -> Entitlement(sid) = frame[d].id
       [] OTHER                      -> FALSE

\* list(self._sessions.values()), less the entries the loop would skip anyway.
List(d) ==
  /\ Step(d, "list", "loop",
          [frame[d] EXCEPT !.todo = {s \in DOMAIN sessions : Ripe(d, s)}])
  /\ UNCHANGED <<chainVars, open, sessions, seq, net, undelivered, issued>>

Visit(d, sid) ==
  /\ sid \in frame[d].todo
  /\ LET rest == [frame[d] EXCEPT !.todo = @ \ {sid}]
     IN  IF Ripe(d, sid) THEN Step(d, "loop", "net_down", [rest EXCEPT !.sid = sid])
                         ELSE Step(d, "loop", "loop", rest)
  /\ UNCHANGED <<chainVars, open, sessions, seq, net, undelivered, issued>>

\* Mutant: the loop returns before it has seen every session.
EndRoundEarly(d) ==
  /\ Answer(d, "loop")
  /\ UNCHANGED <<chainVars, open, sessions, seq, net, undelivered, issued>>

EndRound(d) ==
  /\ frame[d].todo = {}
  /\ Answer(d, "loop")
  /\ UNCHANGED <<chainVars, open, sessions, seq, net, undelivered, issued>>

DaemonContinues(d) ==
  \/ List(d)
  \/ \E sid \in frame[d].todo : Visit(d, sid)
  \/ EndRound(d)
  \/ TearDownNet(d) \/ Mark(d)

TimerStep == Timer \in Daemons /\ (Wake \/ DaemonContinues(Timer))

WatcherStep ==
  /\ Watcher \in Daemons
  /\ \/ \E id \in Ids : Deliver(id) \/ DeliveryFails(id)
     \/ DaemonContinues(Watcher)

-----------------------------------------------------------------------------
(* The chain moves on its own, and the process may be restarted. *)

ChainStep ==
  /\ \/ /\ \/ \E id \in Ids, a \in Agents, t \in Terms : Mint(id, a, t)
           \/ \E id \in Ids, a \in Agents : Transfer(id, a)
           \/ Advance
        /\ UNCHANGED undelivered
     \/ \E id \in Ids :
          /\ Revoke(id)
          /\ undelivered' = IF Watcher \in Daemons THEN undelivered \cup {id}
                                                   ELSE undelivered
  /\ UNCHANGED <<open, sessions, seq, net, pc, frame, issued>>

\* Everything the controller knows is in memory; a new watcher starts from
\* the chain's head.  What is on the routers stays.
Restart ==
  /\ CanRestart
  /\ open' = [n \in {} |-> 0]
  /\ sessions' = [s \in {} |-> 0]
  /\ seq' = 0
  /\ undelivered' = {}
  /\ pc' = [t \in Threads |-> "idle"]
  /\ frame' = [t \in Threads |-> EmptyFrame]
  /\ UNCHANGED <<chainVars, net, issued>>

Next == \/ \E w \in Workers : WorkerBegins(w) \/ WorkerContinues(w)
        \/ TimerStep
        \/ WatcherStep
        \/ ChainStep
        \/ Restart

Spec == Init /\ [][Next]_vars

\* Blocks keep coming and the expiry timer keeps polling; nobody has to ask for
\* anything, and no request has to make progress.
FairSpec == /\ Spec
            /\ WF_vars(Advance /\ UNCHANGED controllerVars)
            /\ WF_vars(TimerStep)

-----------------------------------------------------------------------------
(* Properties. *)

\* A ticket backs at most one live session: the check of active_ids made
\* before the network call still holds when the session is recorded after it.
NoDoubleBooking ==
  \A s1, s2 \in DOMAIN sessions :
    Active(s1) /\ Active(s2) /\ Entitlement(s1) = Entitlement(s2) => s1 = s2

\* One nonce authorises one request: neither a retry, nor a second thread, nor
\* the other verb gets anything out of a proof that was used once.
Spenders(n) ==
  {s \in DOMAIN sessions : sessions[s].nonce = n}
    \cup {w \in Workers : frame[w].nonce = n}

NonceAuthorisesOnce ==
  \A n \in Nonces : /\ \A x, y \in Spenders(n) : x = y
                    /\ Spenders(n) # {} => n \notin DOMAIN open

\* A session stands on a challenge issued for its own ticket and not yet stale
\* when it was admitted, and that was inside the window of the terms it will
\* expire under.
StandsOnItsTicket ==
  \A s \in DOMAIN sessions :
    LET terms == tickets[Entitlement(s)].terms
        challenge == issued[sessions[s].nonce]
    IN  /\ challenge.id = Entitlement(s) /\ sessions[s].since <= challenge.expires
        /\ terms.start <= sessions[s].since /\ sessions[s].since < terms.end
        /\ sessions[s].expires = terms.end
        /\ terms.mapped /\ terms.service \in KNOWN_SERVICE_TYPES

\* Router config exists only for a session that is live, or that a request is
\* still setting up or undoing: nothing is left behind when a session ends.
NoOrphanConfig ==
  \A s \in net : \/ Active(s)
                 \/ \E w \in Workers : /\ frame[w].sid = s
                                       /\ pc[w] \in {"record", "undo"}

\* A session shown as active has its config on the routers, unless a thread is
\* between removing the config and updating the record.
ActiveIsConfigured ==
  \A s \in DOMAIN sessions :
    Active(s) => s \in net \/ \E t \in Threads : pc[t] = "mark" /\ frame[t].sid = s

\* The watcher's blind spot, exactly: once the watcher has dealt with a
\* revocation, a session of that ticket can be live only if its request was
\* already in flight and it was recorded after the revocation.
DealingWith(id) == \/ id \in undelivered
                   \/ frame[Watcher].op = "revocation" /\ frame[Watcher].id = id

RevocationMissesOnlyLateSessions ==
  \A s \in DOMAIN sessions :
    Active(s) /\ tickets[Entitlement(s)].revoked /\ ~DealingWith(Entitlement(s))
      => sessions[s].late

\* Nothing ends a session but its expiry, its revocation, or a teardown proof
\* signed by the owner the controller read.
Cause(s) ==
  \/ time >= sessions[s].expires
  \/ tickets[Entitlement(s)].revoked
  \/ \E w \in Workers : /\ frame[w].op = "teardown"
                        /\ frame[w].sid = s
                        /\ frame[w].signer # Null
                        /\ frame[w].signer = frame[w].owner

EndsOnlyForCause ==
  [][\A s \in DOMAIN sessions :
       Active(s) /\ sessions'[s].state # "active" => Cause(s)]_vars

\* An ended session never comes back, whichever threads still hold its id.
EndedStaysEnded ==
  [][\A s \in DOMAIN sessions :
       ~Active(s) => s \in DOMAIN sessions' /\ sessions'[s] = sessions[s]]_vars

\* The expiry backstop: whatever the watcher missed, no ticket keeps a live
\* session for ever.
SessionsEnd ==
  \A id \in Ids : (id \in ActiveIds) ~> (id \notin ActiveIds)

\* What the teardown triggers promise of a revocation: once the watcher has
\* observed Revoked(id) and acted on it, the ticket has no live session.
RevocationEnforced ==
  \A s \in DOMAIN sessions :
    Active(s) /\ tickets[Entitlement(s)].revoked => DealingWith(Entitlement(s))
=============================================================================
