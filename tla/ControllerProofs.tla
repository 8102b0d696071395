-------------------------- MODULE ControllerProofs --------------------------
(***************************************************************************)
(* Proofs about Controller, for every number of workers, tickets, nonces   *)
(* and every bound on time: its types, and its safety properties about     *)
(* session records and the config behind them.                             *)
(***************************************************************************)
EXTENDS ControllerInv, TLAPS

LEMMA EmptyFrameType == EmptyFrame \in Frames
BY DEF EmptyFrame, Frames

\* A step of thread t moves t and nobody else.
LEMMA StepMoves ==
  ASSUME TypeOK, NEW t \in Threads, NEW at, NEW to \in Labels, NEW f \in Frames,
         Step(t, at, to, f)
  PROVE  /\ pc[t] = at /\ pc'[t] = to /\ frame'[t] = f
         /\ pc' \in [Threads -> Labels] /\ frame' \in [Threads -> Frames]
         /\ \A u \in Threads \ {t} : pc'[u] = pc[u] /\ frame'[u] = frame[u]
BY DEF TypeOK, Step

\* What an idle thread's, or an unmoved thread's, frame must satisfy survives.
LEMMA FrameStable ==
  ASSUME NEW u \in Threads, FrameOK(u), pc'[u] = pc[u], frame'[u] = frame[u],
         DOMAIN tickets \subseteq DOMAIN tickets',
         DOMAIN sessions \subseteq DOMAIN sessions'
  PROVE  FrameOK(u)'
BY DEF FrameOK, InFlight

LEMMA StepFrames ==
  ASSUME TypeInv, NEW t \in Threads, NEW at, NEW to \in Labels, NEW f \in Frames,
         Step(t, at, to, f),
         DOMAIN tickets \subseteq DOMAIN tickets',
         DOMAIN sessions \subseteq DOMAIN sessions',
         FrameOK(t)'
  PROVE  /\ pc' \in [Threads -> Labels] /\ frame' \in [Threads -> Frames]
         /\ FramesOK'
<1>1. /\ pc' \in [Threads -> Labels] /\ frame' \in [Threads -> Frames]
      /\ \A u \in Threads \ {t} : pc'[u] = pc[u] /\ frame'[u] = frame[u]
  BY StepMoves DEF TypeInv
<1>2. ASSUME NEW u \in Threads, u # t PROVE FrameOK(u)'
  BY <1>1, <1>2, FrameStable DEF TypeInv, FramesOK
<1>3. QED BY <1>1, <1>2 DEF FramesOK

LEMMA AnswerFrames ==
  ASSUME TypeInv, NEW t \in Threads, NEW at, Answer(t, at),
         DOMAIN tickets \subseteq DOMAIN tickets',
         DOMAIN sessions \subseteq DOMAIN sessions'
  PROVE  /\ pc' \in [Threads -> Labels] /\ frame' \in [Threads -> Frames]
         /\ FramesOK'
<1>1. "idle" \in Labels BY DEF Labels
<1>2. Step(t, at, "idle", EmptyFrame) BY DEF Answer
<1>3. pc'[t] = "idle" /\ frame'[t] = EmptyFrame
  BY <1>1, <1>2, StepMoves, EmptyFrameType DEF TypeInv
<1>4. FrameOK(t)' BY <1>3 DEF FrameOK, EmptyFrame, InFlight
<1>5. QED BY <1>1, <1>2, <1>4, StepFrames, EmptyFrameType

-----------------------------------------------------------------------------
(* Type correctness. *)

LEMMA InitTypeInv == Init => TypeInv
<1> SUFFICES ASSUME Init PROVE TypeInv OBVIOUS
<1> USE DEF Init, ChainInit
<1>1. ChainTypeOK BY TimeAssumption DEF ChainTypeOK
<1>2. /\ pc \in [Threads -> Labels] /\ frame \in [Threads -> Frames]
  BY EmptyFrameType DEF Labels
<1>3. TypeOK BY <1>1, <1>2 DEF TypeOK
<1>4. FramesOK BY DEF FramesOK, FrameOK, EmptyFrame, InFlight
<1>5. SessionsOK BY DEF SessionsOK
<1>6. QED BY <1>3, <1>4, <1>5 DEF TypeInv

\* Steps that only read: a thread moves and learns something.
LEMMA ReadStep ==
  ASSUME TypeInv, pc' \in [Threads -> Labels], frame' \in [Threads -> Frames],
         FramesOK', UNCHANGED <<chainVars, open, sessions, seq, net, undelivered, issued>>
  PROVE  TypeInv'
BY DEF TypeInv, TypeOK, ChainTypeOK, chainVars, SessionsOK

LEMMA BeginTypeInv ==
  ASSUME TypeInv, NEW w \in Workers, WorkerBegins(w) PROVE TypeInv'
<1> w \in Threads BY DEF Threads
<1> w \notin Daemons BY DaemonsAssumption
<1> USE DEF chainVars
<1>1. ASSUME NEW id \in Ids, BeginChallenge(w, id) PROVE TypeInv'
  <2> DEFINE f == [EmptyFrame EXCEPT !.op = "challenge", !.id = id]
  <2>1. f \in Frames /\ "time" \in Labels BY EmptyFrameType DEF Frames, Labels
  <2> HIDE DEF f
  <2>2. Step(w, "idle", "time", f) BY <1>1 DEF BeginChallenge, f
  <2>3. pc'[w] = "time" /\ frame'[w] = f BY <2>1, <2>2, StepMoves DEF TypeInv
  <2>4. FrameOK(w)' BY <1>1, <2>3 DEF FrameOK, EmptyFrame, InFlight, BeginChallenge, Readable, f
  <2>5. QED BY <1>1, <2>1, <2>2, <2>4, StepFrames, ReadStep DEF BeginChallenge
<1>2. ASSUME NEW id \in Ids, BeginActivate(w, id) PROVE TypeInv'
  <2> DEFINE f == [EmptyFrame EXCEPT !.op = "activate", !.id = id, !.view = View(id)]
  <2>1. id \in DOMAIN tickets /\ View(id) \in Views /\ View(id).id = id
    BY <1>2 DEF BeginActivate, Readable, View, Views, TypeInv, TypeOK, ChainTypeOK, Ticket
  <2>2. f \in Frames /\ "owner" \in Labels BY <2>1, EmptyFrameType DEF Frames, Labels
  <2> HIDE DEF f
  <2>3. Step(w, "idle", "owner", f) BY <1>2 DEF BeginActivate, f
  <2>4. pc'[w] = "owner" /\ frame'[w] = f BY <2>2, <2>3, StepMoves DEF TypeInv
  <2>5. FrameOK(w)' BY <1>2, <2>1, <2>4 DEF FrameOK, EmptyFrame, InFlight, BeginActivate, f
  <2>6. QED BY <1>2, <2>2, <2>3, <2>5, StepFrames, ReadStep DEF BeginActivate
<1>3. ASSUME NEW sid \in DOMAIN sessions, BeginTeardown(w, sid) PROVE TypeInv'
  <2> DEFINE f == [EmptyFrame EXCEPT !.op = "teardown", !.sid = sid,
                                     !.id = Entitlement(sid)]
  <2>1. sid \in Sids /\ Entitlement(sid) \in Ids /\ Entitlement(sid) \in DOMAIN tickets
    BY DEF TypeInv, TypeOK, SessionsOK, Sids, Entitlement
  <2>2. f \in Frames /\ "owner" \in Labels BY <2>1, EmptyFrameType DEF Frames, Labels
  <2> HIDE DEF f
  <2>3. Step(w, "idle", "owner", f) BY <1>3 DEF BeginTeardown, f
  <2>4. pc'[w] = "owner" /\ frame'[w] = f BY <2>2, <2>3, StepMoves DEF TypeInv
  <2>5. FrameOK(w)' BY <1>3, <2>1, <2>4 DEF FrameOK, EmptyFrame, InFlight, BeginTeardown, f
  <2>6. QED BY <1>3, <2>2, <2>3, <2>5, StepFrames, ReadStep DEF BeginTeardown
<1>4. QED BY <1>1, <1>2, <1>3 DEF WorkerBegins

LEMMA ReadOwnerTypeInv ==
  ASSUME TypeInv, NEW w \in Workers, ReadOwner(w) PROVE TypeInv'
<1> DEFINE f == [frame[w] EXCEPT !.owner = tickets[frame[w].id].owner]
<1>0. w \in Threads /\ w \notin Daemons BY DaemonsAssumption DEF Threads
<1>1. pc[w] = "owner" /\ frame[w] \in Frames /\ FrameOK(w)
  BY <1>0 DEF ReadOwner, Step, TypeInv, TypeOK, FramesOK
<1>2. tickets[frame[w].id].owner \in Agents
  BY <1>1 DEF FrameOK, TypeInv, TypeOK, ChainTypeOK, Ticket
<1>3. f \in Frames /\ "time" \in Labels BY <1>1, <1>2 DEF Frames, Labels
<1>4. /\ f.op = frame[w].op /\ f.id = frame[w].id /\ f.view = frame[w].view
      /\ f.sid = frame[w].sid /\ f.todo = frame[w].todo /\ f.owner \in Agents
  BY <1>1, <1>2 DEF Frames
<1> HIDE DEF f
<1>5. Step(w, "owner", "time", f) BY DEF ReadOwner, f
<1>6. pc'[w] = "time" /\ frame'[w] = f BY <1>0, <1>3, <1>5, StepMoves DEF TypeInv
<1>7. FrameOK(w)' BY <1>0, <1>1, <1>4, <1>6 DEF FrameOK, InFlight, ReadOwner, chainVars
<1>8. QED BY <1>0, <1>3, <1>5, <1>7, StepFrames, ReadStep DEF ReadOwner, chainVars

LEMMA ReadTimeTypeInv ==
  ASSUME TypeInv, NEW w \in Workers, ReadTime(w) PROVE TypeInv'
<1> DEFINE f == [frame[w] EXCEPT !.now = time]
           to == IF frame[w].op = "challenge" THEN "issue" ELSE "verify"
<1>0. w \in Threads /\ w \notin Daemons BY DaemonsAssumption DEF Threads
<1>1. pc[w] = "time" /\ frame[w] \in Frames /\ FrameOK(w)
  BY <1>0 DEF ReadTime, Step, TypeInv, TypeOK, FramesOK
<1>2. time \in Nat BY TimeAssumption DEF TypeInv, TypeOK, ChainTypeOK
<1>3. f \in Frames /\ to \in Labels BY <1>1, <1>2 DEF Frames, Labels
<1>4. /\ f.op = frame[w].op /\ f.id = frame[w].id /\ f.view = frame[w].view
      /\ f.sid = frame[w].sid /\ f.todo = frame[w].todo /\ f.owner = frame[w].owner
      /\ f.now \in Nat
  BY <1>1, <1>2 DEF Frames
<1>5. (to = "issue") \/ (to = "verify" /\ frame[w].op # "challenge") OBVIOUS
<1> HIDE DEF f, to
<1>6. Step(w, "time", to, f) BY DEF ReadTime, f, to
<1>7. pc'[w] = to /\ frame'[w] = f BY <1>0, <1>3, <1>6, StepMoves DEF TypeInv
<1>8. FrameOK(w)'
  BY <1>0, <1>1, <1>4, <1>5, <1>7 DEF FrameOK, InFlight, ReadTime, chainVars
<1>9. QED BY <1>0, <1>3, <1>6, <1>8, StepFrames, ReadStep DEF ReadTime, chainVars

LEMMA IssueTypeInv ==
  ASSUME TypeInv, NEW w \in Workers, NEW n \in Nonces, IssueChallenge(w, n)
  PROVE  TypeInv'
<1>0. w \in Threads BY DEF Threads
<1>1. Answer(w, "issue") /\ UNCHANGED <<tickets, time, sessions, seq, net, undelivered>>
  BY DEF IssueChallenge, chainVars
<1>2. /\ pc' \in [Threads -> Labels] /\ frame' \in [Threads -> Frames] /\ FramesOK'
  BY <1>0, <1>1, AnswerFrames
<1>3. frame[w].id \in Ids /\ frame[w].now + NonceTTL \in Nat
  BY <1>0, <1>1, ConfigAssumption
  DEF Answer, Step, TypeInv, TypeOK, ChainTypeOK, FramesOK, FrameOK
<1>4. /\ DOMAIN open' \subseteq Nonces
      /\ \A m \in DOMAIN open' : open'[m] \in [id : Ids, expires : Nat]
      /\ DOMAIN issued' \subseteq Nonces
      /\ \A m \in DOMAIN issued' : issued'[m] \in [id : Ids, expires : Nat]
  BY <1>3 DEF IssueChallenge, Put, TypeInv, TypeOK
<1>5. QED BY <1>1, <1>2, <1>4 DEF TypeInv, TypeOK, ChainTypeOK, SessionsOK

LEMMA VerifyTypeInv ==
  ASSUME TypeInv, NEW w \in Workers, NEW n \in Nonces, NEW signer \in Agents,
         NEW verb \in {"activate", "teardown"}, Verify(w, n, signer, verb)
  PROVE  TypeInv'
<1> DEFINE f == [frame[w] EXCEPT !.nonce = n, !.signer = signer]
           to == IF verb = "activate" THEN "admit" ELSE "net_down"
<1>0. w \in Threads /\ w \notin Daemons BY DaemonsAssumption DEF Threads
<1>1. /\ pc[w] = "verify" /\ frame[w] \in Frames /\ FrameOK(w)
      /\ UNCHANGED <<tickets, time, sessions, seq, net, undelivered, issued>>
  BY <1>0 DEF Verify, TypeInv, TypeOK, FramesOK, chainVars
<1>2. /\ DOMAIN open' \subseteq Nonces
      /\ \A m \in DOMAIN open' : open'[m] \in [id : Ids, expires : Nat]
  BY DEF Verify, Drop, TypeInv, TypeOK
<1>3. f \in Frames /\ to \in Labels BY <1>1 DEF Frames, Labels
<1>4. /\ f.op = frame[w].op /\ f.id = frame[w].id /\ f.view = frame[w].view
      /\ f.sid = frame[w].sid /\ f.todo = frame[w].todo /\ f.owner = frame[w].owner
      /\ f.now = frame[w].now /\ f.nonce = n /\ f.signer = signer
  BY <1>1 DEF Frames
<1>5. \/ to = "admit" /\ verb = "activate"
      \/ to = "net_down" /\ verb = "teardown"
  OBVIOUS
<1> HIDE DEF f, to
<1>6. /\ pc' \in [Threads -> Labels] /\ frame' \in [Threads -> Frames] /\ FramesOK'
  <2>1. CASE Answer(w, "verify") BY <1>0, <1>1, <2>1, AnswerFrames
  <2>2. CASE Step(w, "verify", to, f) /\ verb = frame[w].op
    <3>1. pc'[w] = to /\ frame'[w] = f BY <1>0, <1>3, <2>2, StepMoves DEF TypeInv
    <3>2. FrameOK(w)'
      BY <1>0, <1>1, <1>4, <1>5, <2>2, <3>1 DEF FrameOK, InFlight
    <3>3. QED BY <1>0, <1>1, <1>3, <2>2, <3>2, StepFrames
  <2>3. QED BY <2>1, <2>2 DEF Verify, ProofBinds, f, to
<1>7. QED BY <1>1, <1>2, <1>6 DEF TypeInv, TypeOK, ChainTypeOK, SessionsOK

LEMMA AdmitTypeInv ==
  ASSUME TypeInv, NEW w \in Workers, NEW kind, Admit(w, kind) PROVE TypeInv'
<1> DEFINE f == [frame[w] EXCEPT !.sid = <<frame[w].id, seq>>]
<1>0. w \in Threads /\ w \notin Daemons BY DaemonsAssumption DEF Threads
<1>1. /\ pc[w] = "admit" /\ frame[w] \in Frames /\ FrameOK(w)
      /\ UNCHANGED <<tickets, time, open, sessions, net, undelivered, issued>>
      /\ seq' \in {seq, seq + 1} /\ seq \in Nat
  BY <1>0 DEF Admit, TypeInv, TypeOK, FramesOK, chainVars
<1>2. <<frame[w].id, seq>> \in Sids
  BY <1>1 DEF FrameOK, Sids, TypeInv, TypeOK, ChainTypeOK
<1>3. f \in Frames /\ "apply" \in Labels BY <1>1, <1>2 DEF Frames, Labels
<1>4. /\ f.op = frame[w].op /\ f.id = frame[w].id /\ f.view = frame[w].view
      /\ f.todo = frame[w].todo /\ f.owner = frame[w].owner /\ f.now = frame[w].now
      /\ f.nonce = frame[w].nonce /\ f.signer = frame[w].signer
      /\ f.sid \in Sids /\ Entitlement(f.sid) = f.id
  BY <1>1, <1>2 DEF Frames, Entitlement
<1> HIDE DEF f
<1>5. /\ pc' \in [Threads -> Labels] /\ frame' \in [Threads -> Frames] /\ FramesOK'
  <2>1. CASE Answer(w, "admit") BY <1>0, <1>1, <2>1, AnswerFrames
  <2>2. CASE Step(w, "admit", "apply", f)
    <3>1. pc'[w] = "apply" /\ frame'[w] = f BY <1>0, <1>3, <2>2, StepMoves DEF TypeInv
    <3>2. FrameOK(w)' BY <1>0, <1>1, <1>4, <2>2, <3>1 DEF FrameOK, InFlight
    <3>3. QED BY <1>0, <1>1, <1>3, <2>2, <3>2, StepFrames
  <2>3. QED BY <2>1, <2>2 DEF Admit, f
<1>6. QED BY <1>1, <1>5 DEF TypeInv, TypeOK, ChainTypeOK, SessionsOK

\* Apply and Undo: the request moves on with the frame it has.
LEMMA MoveOnTypeInv ==
  ASSUME TypeInv, NEW w \in Workers, NEW at \in InFlight, NEW to \in InFlight,
         Step(w, at, to, frame[w]), net' \subseteq net \cup {frame[w].sid},
         UNCHANGED <<chainVars, open, sessions, seq, undelivered, issued>>
  PROVE  TypeInv'
<1>0. w \in Threads /\ w \notin Daemons BY DaemonsAssumption DEF Threads
<1>1. /\ pc[w] = at /\ frame[w] \in Frames /\ FrameOK(w) /\ to \in Labels
  BY <1>0 DEF Step, TypeInv, TypeOK, FramesOK, InFlight, Labels
<1>2. pc'[w] = to /\ frame'[w] = frame[w] BY <1>0, <1>1, StepMoves DEF TypeInv
<1>3. FrameOK(w)' BY <1>0, <1>1, <1>2 DEF FrameOK, InFlight, chainVars
<1>4. /\ pc' \in [Threads -> Labels] /\ frame' \in [Threads -> Frames] /\ FramesOK'
  BY <1>0, <1>1, <1>3, StepFrames DEF chainVars
<1>5. net' \subseteq Sids BY <1>1 DEF FrameOK, TypeInv, TypeOK
<1>6. QED BY <1>4, <1>5 DEF TypeInv, TypeOK, ChainTypeOK, SessionsOK, chainVars

LEMMA ApplyTypeInv ==
  ASSUME TypeInv, NEW w \in Workers, Apply(w) PROVE TypeInv'
<1>1. PICK to \in {"record", "undo"} : Step(w, "apply", to, frame[w])
  BY DEF Apply
<1>2. net' \subseteq net \cup {frame[w].sid} BY DEF Apply
<1>3. QED BY <1>1, <1>2, MoveOnTypeInv DEF Apply, InFlight

LEMMA UndoTypeInv ==
  ASSUME TypeInv, NEW w \in Workers, Undo(w) PROVE TypeInv'
<1>1. Step(w, "undo", "record_failed", frame[w]) BY DEF Undo
<1>2. net' \subseteq net \cup {frame[w].sid} BY DEF Undo, NetTeardown
<1>3. QED BY <1>1, <1>2, MoveOnTypeInv DEF Undo, InFlight

LEMMA NewSessionType ==
  ASSUME TypeInv, NEW w \in Workers, pc[w] \in InFlight,
         NEW event \in {"provision_ok", "provision_failed"}
  PROVE  /\ frame[w].sid \in Sids /\ Entitlement(frame[w].sid) \in DOMAIN tickets
         /\ NewSession(frame[w], event) \in Session
         /\ NewSession(frame[w], event).state
              = IF event = "provision_ok" THEN "active" ELSE "failed"
<1>0. w \in Threads BY DEF Threads
<1>1. FrameOK(w) BY <1>0 DEF TypeInv, FramesOK
<1>2. /\ frame[w].sid \in Sids /\ Entitlement(frame[w].sid) = frame[w].id
      /\ frame[w].id \in DOMAIN tickets
      /\ frame[w].now \in Nat /\ frame[w].nonce \in Nonces /\ frame[w].signer \in Agents
      /\ frame[w].view \in Views
  BY <1>1 DEF FrameOK
<1>3. frame[w].view.terms.end \in Nat BY <1>2, TermsAssumption DEF Views
<1>4. tickets[frame[w].id].revoked \in BOOLEAN
  BY <1>2 DEF TypeInv, TypeOK, ChainTypeOK, Ticket
<1>5. Transition(Transition("requested", "authorize"), event)
        = IF event = "provision_ok" THEN "active" ELSE "failed"
  <2>1. Transition("requested", "authorize") = "authorized" BY DEF Transition
  <2>2. QED BY <2>1 DEF Transition
<1>6. QED BY <1>2, <1>3, <1>4, <1>5 DEF NewSession, Session, SessionStates

LEMMA RecordTypeInv ==
  ASSUME TypeInv, NEW w \in Workers, Record(w) \/ RecordFailed(w) PROVE TypeInv'
<1>0. w \in Threads BY DEF Threads
<1>1. PICK at \in InFlight, event \in {"provision_ok", "provision_failed"} :
        /\ Answer(w, at)
        /\ sessions' = Put(sessions, frame[w].sid, NewSession(frame[w], event))
  BY DEF Record, RecordFailed, InFlight
<1>2. UNCHANGED <<tickets, time, open, seq, net, undelivered, issued>>
  BY DEF Record, RecordFailed, chainVars
<1>3. pc[w] = at BY <1>1 DEF Answer, Step
<1> DEFINE new == NewSession(frame[w], event)
<1>4. /\ frame[w].sid \in Sids /\ Entitlement(frame[w].sid) \in DOMAIN tickets
      /\ new \in Session /\ new.state \in {"active", "torn_down", "failed"}
  BY <1>1, <1>3, NewSessionType
<1>4a. sessions' = Put(sessions, frame[w].sid, new) BY <1>1
<1> HIDE DEF new
<1>5. /\ DOMAIN sessions \subseteq DOMAIN sessions'
      /\ DOMAIN sessions' = DOMAIN sessions \cup {frame[w].sid}
      /\ \A s \in DOMAIN sessions' : \/ s \in DOMAIN sessions /\ sessions'[s] = sessions[s]
                                     \/ s = frame[w].sid /\ sessions'[s] = new
  BY <1>4a DEF Put
<1>6. /\ pc' \in [Threads -> Labels] /\ frame' \in [Threads -> Frames] /\ FramesOK'
  BY <1>0, <1>1, <1>2, <1>5, AnswerFrames
<1>7. /\ DOMAIN sessions' \subseteq Sids /\ \A s \in DOMAIN sessions' : sessions'[s] \in Session
      /\ SessionsOK'
  BY <1>2, <1>4, <1>5 DEF TypeInv, TypeOK, SessionsOK
<1>8. QED BY <1>2, <1>6, <1>7 DEF TypeInv, TypeOK, ChainTypeOK

LEMMA TearDownNetTypeInv ==
  ASSUME TypeInv, NEW t \in Threads, TearDownNet(t) PROVE TypeInv'
<1>1. /\ pc[t] = "net_down" /\ frame[t] \in Frames /\ FrameOK(t) /\ "mark" \in Labels
      /\ Step(t, "net_down", "mark", frame[t])
      /\ UNCHANGED <<tickets, time, open, sessions, seq, undelivered, issued>>
      /\ net' \subseteq net
  BY DEF TearDownNet, NetTeardown, Step, TypeInv, TypeOK, FramesOK, Labels, chainVars
<1>2. pc'[t] = "mark" /\ frame'[t] = frame[t] BY <1>1, StepMoves DEF TypeInv
<1>3. FrameOK(t)' BY <1>1, <1>2 DEF FrameOK, InFlight
<1>4. /\ pc' \in [Threads -> Labels] /\ frame' \in [Threads -> Frames] /\ FramesOK'
  BY <1>1, <1>3, StepFrames
<1>5. QED BY <1>1, <1>4 DEF TypeInv, TypeOK, ChainTypeOK, SessionsOK

\* Ending a session only turns "active" into "torn_down".
LEMMA MarkSessions ==
  ASSUME TypeInv, NEW t \in Threads, Mark(t)
  PROVE  /\ frame[t].sid \in DOMAIN sessions /\ pc[t] = "mark"
         /\ DOMAIN sessions' = DOMAIN sessions
         /\ \A s \in DOMAIN sessions \ {frame[t].sid} : sessions'[s] = sessions[s]
         /\ sessions'[frame[t].sid] =
              [sessions[frame[t].sid] EXCEPT
                 !.state = IF @ = "active" THEN "torn_down" ELSE @]
<1>1. pc[t] = "mark" /\ FrameOK(t) BY DEF Mark, Answer, Step, TypeInv, FramesOK
<1>2. frame[t].sid \in DOMAIN sessions BY <1>1 DEF FrameOK
<1>3. sessions[frame[t].sid].state \in {"active", "torn_down", "failed"}
  BY <1>2 DEF TypeInv, SessionsOK
<1>4. Transition(sessions[frame[t].sid].state, "teardown")
        = IF sessions[frame[t].sid].state = "active" THEN "torn_down"
          ELSE sessions[frame[t].sid].state
  BY <1>3 DEF Transition
<1>5. QED BY <1>1, <1>2, <1>4 DEF Mark

LEMMA MarkTypeInv ==
  ASSUME TypeInv, NEW t \in Threads, Mark(t) PROVE TypeInv'
<1> DEFINE f == [frame[t] EXCEPT !.sid = Null]
<1>1. /\ pc[t] = "mark" /\ frame[t] \in Frames /\ FrameOK(t) /\ "loop" \in Labels
      /\ UNCHANGED <<tickets, time, open, seq, net, undelivered, issued>>
  BY MarkSessions DEF Mark, TypeInv, TypeOK, FramesOK, Labels, chainVars
<1>2. f \in Frames BY <1>1 DEF Frames
<1>3. f.op = frame[t].op /\ f.id = frame[t].id /\ f.now = frame[t].now
      /\ f.todo = frame[t].todo
  BY <1>1 DEF Frames
<1> HIDE DEF f
<1>4. DOMAIN sessions' = DOMAIN sessions BY MarkSessions
<1>5. /\ pc' \in [Threads -> Labels] /\ frame' \in [Threads -> Frames] /\ FramesOK'
  <2>1. CASE Answer(t, "mark") BY <1>1, <1>4, <2>1, AnswerFrames
  <2>2. CASE t \in Daemons /\ Step(t, "mark", "loop", f)
    <3>1. pc'[t] = "loop" /\ frame'[t] = f BY <1>1, <1>2, <2>2, StepMoves DEF TypeInv
    <3>2. FrameOK(t)' BY <1>1, <1>3, <1>4, <2>2, <3>1 DEF FrameOK, InFlight
    <3>3. QED BY <1>1, <1>2, <1>4, <2>2, <3>2, StepFrames
  <2>3. QED BY <2>1, <2>2 DEF Mark, f, Threads
<1>6. \A s \in DOMAIN sessions' : /\ sessions'[s] \in Session
                                  /\ sessions'[s].state \in {"active", "torn_down", "failed"}
  <2>1. \A s \in DOMAIN sessions : /\ sessions[s] \in Session
                                   /\ sessions[s].state \in {"active", "torn_down", "failed"}
    BY DEF TypeInv, TypeOK, SessionsOK
  <2> DEFINE old == sessions[frame[t].sid]
             ended == IF old.state = "active" THEN "torn_down" ELSE old.state
  <2>2. old \in Session /\ ended \in {"torn_down", "failed"} BY <2>1, MarkSessions
  <2>3. sessions'[frame[t].sid] = [old EXCEPT !.state = ended] BY MarkSessions
  <2> HIDE DEF old, ended
  <2>4. /\ [old EXCEPT !.state = ended] \in Session
        /\ [old EXCEPT !.state = ended].state = ended
    BY <2>2 DEF Session, SessionStates
  <2>5. QED BY <1>4, <2>1, <2>2, <2>3, <2>4, MarkSessions
<1>7. QED BY <1>1, <1>4, <1>5, <1>6 DEF TypeInv, TypeOK, ChainTypeOK, SessionsOK

\* The daemons' steps that touch no session.
LEMMA DaemonStep ==
  ASSUME TypeInv, NEW d \in Daemons, NEW at, NEW to \in Labels, NEW f \in Frames,
         Step(d, at, to, f), FrameOK(d)', undelivered' \subseteq undelivered,
         UNCHANGED <<chainVars, open, sessions, seq, net, issued>>
  PROVE  TypeInv'
<1>0. d \in Threads BY DEF Threads
<1>1. /\ pc' \in [Threads -> Labels] /\ frame' \in [Threads -> Frames] /\ FramesOK'
  BY <1>0, StepFrames DEF chainVars
<1>2. QED BY <1>1 DEF TypeInv, TypeOK, ChainTypeOK, chainVars, SessionsOK

LEMMA WakeTypeInv ==
  ASSUME TypeInv, Timer \in Daemons, Wake PROVE TypeInv'
<1> DEFINE f == [EmptyFrame EXCEPT !.op = "expiry", !.now = time]
<1>0. Timer \in Threads BY DEF Threads
<1>1. time \in Nat BY TimeAssumption DEF TypeInv, TypeOK, ChainTypeOK
<1>2. f \in Frames /\ "list" \in Labels BY <1>1, EmptyFrameType DEF Frames, Labels
<1>3. f.op = "expiry" /\ f.now = time /\ f.todo = {} BY DEF EmptyFrame
<1> HIDE DEF f
<1>4. Step(Timer, "idle", "list", f) BY DEF Wake, f
<1>5. pc'[Timer] = "list" /\ frame'[Timer] = f
  BY <1>0, <1>2, <1>4, StepMoves DEF TypeInv
<1>6. FrameOK(Timer)' BY <1>1, <1>3, <1>5 DEF FrameOK, InFlight
<1>7. QED BY <1>2, <1>4, <1>6, DaemonStep DEF Wake

LEMMA DeliverTypeInv ==
  ASSUME TypeInv, Watcher \in Daemons, NEW id \in Ids, Deliver(id) PROVE TypeInv'
<1> DEFINE f == [EmptyFrame EXCEPT !.op = "revocation", !.id = id]
<1>0. Watcher \in Threads BY DEF Threads
<1>1. f \in Frames /\ "list" \in Labels BY EmptyFrameType DEF Frames, Labels
<1>2. f.op = "revocation" /\ f.id = id /\ f.todo = {} BY DEF EmptyFrame
<1> HIDE DEF f
<1>3. Step(Watcher, "idle", "list", f) BY DEF Deliver, f
<1>4. pc'[Watcher] = "list" /\ frame'[Watcher] = f
  BY <1>0, <1>1, <1>3, StepMoves DEF TypeInv
<1>5. FrameOK(Watcher)' BY <1>2, <1>4 DEF FrameOK, InFlight
<1>6. undelivered' \subseteq undelivered BY DEF Deliver
<1>7. QED BY <1>1, <1>3, <1>5, <1>6, DaemonStep DEF Deliver

LEMMA DeliveryFailsTypeInv ==
  ASSUME TypeInv, NEW id \in Ids, DeliveryFails(id) PROVE TypeInv'
<1> USE DEF DeliveryFails, chainVars
<1>1. FramesOK' BY FrameStable DEF TypeInv, FramesOK
<1>2. QED BY <1>1 DEF TypeInv, TypeOK, ChainTypeOK, SessionsOK

LEMMA ListTypeInv ==
  ASSUME TypeInv, NEW d \in Daemons, List(d) PROVE TypeInv'
<1> DEFINE ripe == {s \in DOMAIN sessions : Ripe(d, s)}
           f == [frame[d] EXCEPT !.todo = ripe]
<1>0. d \in Threads BY DEF Threads
<1>1. pc[d] = "list" /\ frame[d] \in Frames /\ FrameOK(d)
  BY <1>0 DEF List, Step, TypeInv, TypeOK, FramesOK
<1>2. ripe \subseteq DOMAIN sessions /\ ripe \subseteq Sids
  BY DEF TypeInv, TypeOK
<1> HIDE DEF ripe
<1>3. f \in Frames /\ "loop" \in Labels BY <1>1, <1>2 DEF Frames, Labels
<1>4. f.op = frame[d].op /\ f.id = frame[d].id /\ f.now = frame[d].now /\ f.todo = ripe
  BY <1>1 DEF Frames
<1> HIDE DEF f
<1>5. Step(d, "list", "loop", f) BY DEF List, f, ripe
<1>6. pc'[d] = "loop" /\ frame'[d] = f BY <1>0, <1>3, <1>5, StepMoves DEF TypeInv
<1>7. FrameOK(d)' BY <1>1, <1>2, <1>4, <1>6 DEF FrameOK, InFlight, List
<1>8. QED BY <1>3, <1>5, <1>7, DaemonStep DEF List

LEMMA VisitTypeInv ==
  ASSUME TypeInv, NEW d \in Daemons, NEW sid, Visit(d, sid) PROVE TypeInv'
<1> DEFINE rest == [frame[d] EXCEPT !.todo = @ \ {sid}]
           named == [rest EXCEPT !.sid = sid]
<1>0. d \in Threads BY DEF Threads
<1>1. pc[d] = "loop" /\ frame[d] \in Frames /\ FrameOK(d)
  BY <1>0 DEF Visit, Step, TypeInv, TypeOK, FramesOK
<1>2. sid \in DOMAIN sessions /\ sid \in Sids
  BY <1>1 DEF Visit, FrameOK, TypeInv, TypeOK
<1>3. rest \in Frames /\ named \in Frames /\ "loop" \in Labels /\ "net_down" \in Labels
  BY <1>1, <1>2 DEF Frames, Labels
<1>4. \A f \in {rest, named} :
        /\ f.op = frame[d].op /\ f.id = frame[d].id /\ f.now = frame[d].now
        /\ f.todo \subseteq frame[d].todo
  BY <1>1 DEF Frames
<1>5. named.sid = sid BY <1>1 DEF Frames
<1>6. Step(d, "loop", "net_down", named) \/ Step(d, "loop", "loop", rest) BY DEF Visit
<1> HIDE DEF rest, named
<1>7. CASE Step(d, "loop", "net_down", named)
  <2>1. pc'[d] = "net_down" /\ frame'[d] = named
    BY <1>0, <1>3, <1>7, StepMoves DEF TypeInv
  <2>2. FrameOK(d)'
    BY <1>1, <1>2, <1>4, <1>5, <2>1 DEF FrameOK, InFlight, Visit
  <2>3. QED BY <1>3, <1>7, <2>2, DaemonStep DEF Visit
<1>8. CASE Step(d, "loop", "loop", rest)
  <2>1. pc'[d] = "loop" /\ frame'[d] = rest
    BY <1>0, <1>3, <1>8, StepMoves DEF TypeInv
  <2>2. FrameOK(d)' BY <1>1, <1>4, <2>1 DEF FrameOK, InFlight, Visit
  <2>3. QED BY <1>3, <1>8, <2>2, DaemonStep DEF Visit
<1>9. QED BY <1>6, <1>7, <1>8

LEMMA EndRoundTypeInv ==
  ASSUME TypeInv, NEW d \in Daemons, EndRound(d) PROVE TypeInv'
<1>1. /\ pc' \in [Threads -> Labels] /\ frame' \in [Threads -> Frames] /\ FramesOK'
  BY AnswerFrames DEF EndRound, Threads, chainVars
<1>2. QED BY <1>1, ReadStep DEF EndRound

LEMMA ChainTypeInv ==
  ASSUME TypeInv, ChainStep PROVE TypeInv'
<1> USE DEF Ticket
<1>1. /\ ChainTypeOK' /\ DOMAIN tickets \subseteq DOMAIN tickets'
  <2>1. ASSUME NEW id \in Ids, NEW a \in Agents, NEW t \in Terms, Mint(id, a, t)
        PROVE  ChainTypeOK' /\ DOMAIN tickets \subseteq DOMAIN tickets'
    BY <2>1 DEF Mint, ChainTypeOK, TypeInv, TypeOK
  <2>2. ASSUME NEW id \in Ids, NEW a \in Agents, Transfer(id, a)
        PROVE  ChainTypeOK' /\ DOMAIN tickets \subseteq DOMAIN tickets'
    BY <2>2 DEF Transfer, ChainTypeOK, TypeInv, TypeOK
  <2>3. CASE Advance BY <2>3, TimeAssumption DEF Advance, ChainTypeOK, TypeInv, TypeOK
  <2>4. ASSUME NEW id \in Ids, Revoke(id)
        PROVE  ChainTypeOK' /\ DOMAIN tickets \subseteq DOMAIN tickets'
    BY <2>4 DEF Revoke, ChainTypeOK, TypeInv, TypeOK
  <2>5. QED BY <2>1, <2>2, <2>3, <2>4 DEF ChainStep
<1>2. undelivered' \subseteq Ids BY DEF ChainStep, TypeInv, TypeOK
<1>3. FramesOK' BY <1>1, FrameStable DEF ChainStep, TypeInv, FramesOK
<1>4. QED BY <1>1, <1>2, <1>3 DEF ChainStep, TypeInv, TypeOK, SessionsOK

LEMMA RestartTypeInv ==
  ASSUME TypeInv, Restart PROVE TypeInv'
<1> USE DEF Restart, chainVars
<1>1. /\ pc' \in [Threads -> Labels] /\ frame' \in [Threads -> Frames]
  BY EmptyFrameType DEF Labels
<1>2. TypeOK' BY <1>1 DEF TypeInv, TypeOK, ChainTypeOK
<1>3. FramesOK' BY DEF FramesOK, FrameOK, EmptyFrame, InFlight
<1>4. SessionsOK' BY DEF SessionsOK
<1>5. QED BY <1>2, <1>3, <1>4 DEF TypeInv

LEMMA StutterTypeInv == TypeInv /\ UNCHANGED vars => TypeInv'
BY DEF TypeInv, TypeOK, ChainTypeOK, FramesOK, FrameOK, SessionsOK, vars,
       chainVars, controllerVars

LEMMA NextTypeInv == TypeInv /\ [Next]_vars => TypeInv'
<1> SUFFICES ASSUME TypeInv, [Next]_vars PROVE TypeInv' OBVIOUS
<1>1. ASSUME NEW w \in Workers, WorkerBegins(w) PROVE TypeInv'
  BY <1>1, BeginTypeInv
<1>2. ASSUME NEW w \in Workers, WorkerContinues(w) PROVE TypeInv'
  BY <1>2, ReadOwnerTypeInv, ReadTimeTypeInv, IssueTypeInv, VerifyTypeInv,
     AdmitTypeInv, ApplyTypeInv, RecordTypeInv, UndoTypeInv, TearDownNetTypeInv,
     MarkTypeInv
  DEF WorkerContinues, Threads
<1>3. ASSUME NEW d \in Daemons, DaemonContinues(d) PROVE TypeInv'
  BY <1>3, ListTypeInv, VisitTypeInv, EndRoundTypeInv, TearDownNetTypeInv, MarkTypeInv
  DEF DaemonContinues, Threads
<1>4. CASE TimerStep BY <1>3, <1>4, WakeTypeInv DEF TimerStep
<1>5. CASE WatcherStep
  BY <1>3, <1>5, DeliverTypeInv, DeliveryFailsTypeInv DEF WatcherStep
<1>6. CASE ChainStep BY <1>6, ChainTypeInv
<1>7. CASE Restart BY <1>7, RestartTypeInv
<1>8. CASE UNCHANGED vars BY <1>8, StutterTypeInv
<1>9. QED BY <1>1, <1>2, <1>4, <1>5, <1>6, <1>7, <1>8 DEF Next

LEMMA TypeInvariant == Spec => []TypeInv
BY InitTypeInv, NextTypeInv, PTL DEF Spec

\* Every reachable state is well typed, with threads, failures and restarts
\* interleaved in any way; the locals a thread relies on are set where it does.
THEOREM TypeCorrect == Spec => []TypeOK
<1>1. TypeInv => TypeOK BY DEF TypeInv
<1>2. QED BY <1>1, TypeInvariant, PTL

-----------------------------------------------------------------------------
(* Sessions.  Most steps are quiet: they leave records, routers and every  *)
(* thread past its admission alone.  The others are few.                   *)

Busy == InFlight \cup {"mark"}

Unmoved(t) == pc'[t] = pc[t] /\ frame'[t] = frame[t]

Quiet == /\ sessions' = sessions /\ net' = net
         /\ seq' \in {seq, seq + 1}
         /\ \A t \in Threads : pc[t] \in Busy \/ pc'[t] \in Busy => Unmoved(t)

Loud == \/ \E w \in Workers : \/ \E kind \in DOMAIN ACTION_KINDS : Admit(w, kind)
                              \/ Apply(w) \/ Record(w) \/ Undo(w) \/ RecordFailed(w)
        \/ \E t \in Threads : TearDownNet(t) \/ Mark(t)
        \/ Restart

LEMMA StepEffect ==
  ASSUME TypeOK, NEW t \in Threads, NEW at, NEW to, NEW f, Step(t, at, to, f)
  PROVE  /\ pc[t] = at /\ pc'[t] = to /\ frame'[t] = f
         /\ \A u \in Threads \ {t} : Unmoved(u)
BY DEF TypeOK, Step, Unmoved

LEMMA QuietStep ==
  ASSUME TypeOK, NEW t \in Threads, NEW at, NEW to, NEW f, Step(t, at, to, f),
         at \notin Busy, to \notin Busy, UNCHANGED <<sessions, net, seq>>
  PROVE  Quiet
BY StepEffect DEF Quiet, TypeOK

LEMMA QuietOrLoud ==
  ASSUME TypeInv, [Next]_vars PROVE Quiet \/ Loud
<1> USE DEF Busy, InFlight
<1>0. TypeOK BY DEF TypeInv
<1>1. ASSUME NEW w \in Workers, WorkerBegins(w) PROVE Quiet
  <2> USE <1>0 DEF Threads
  <2>1. ASSUME NEW id \in Ids, BeginChallenge(w, id) PROVE Quiet
    BY <2>1, QuietStep DEF BeginChallenge
  <2>2. ASSUME NEW id \in Ids, BeginActivate(w, id) PROVE Quiet
    BY <2>2, QuietStep DEF BeginActivate
  <2>3. ASSUME NEW sid \in DOMAIN sessions, BeginTeardown(w, sid) PROVE Quiet
    BY <2>3, QuietStep DEF BeginTeardown
  <2>4. QED BY <1>1, <2>1, <2>2, <2>3 DEF WorkerBegins
<1>2. ASSUME NEW w \in Workers, WorkerContinues(w) PROVE Quiet \/ Loud
  <2> USE <1>0 DEF Threads
  <2>1. CASE ReadOwner(w) BY <2>1, QuietStep DEF ReadOwner
  <2>2. CASE ReadTime(w)
    <3>1. PICK to, f : to \in {"issue", "verify"} /\ Step(w, "time", to, f)
      BY <2>2 DEF ReadTime
    <3>2. QED BY <2>2, <3>1, QuietStep DEF ReadTime
  <2>3. ASSUME NEW n \in Nonces, IssueChallenge(w, n) PROVE Quiet
    BY <2>3, QuietStep DEF IssueChallenge, Answer
  <2>4. ASSUME NEW n \in Nonces, NEW signer \in Agents,
               NEW verb \in {"activate", "teardown"}, Verify(w, n, signer, verb)
        PROVE  Quiet
    <3>1. PICK to, f : to \in {"admit", "net_down", "idle"} /\ Step(w, "verify", to, f)
      BY <2>4 DEF Verify, Answer
    <3>2. QED BY <2>4, <3>1, QuietStep DEF Verify
  <2>5. QED BY <1>2, <2>1, <2>2, <2>3, <2>4 DEF WorkerContinues, Loud
<1>3. ASSUME NEW d \in Daemons, DaemonContinues(d) PROVE Quiet \/ Loud
  <2> USE <1>0 DEF Threads
  <2>1. CASE List(d) BY <2>1, QuietStep DEF List
  <2>2. ASSUME NEW sid, Visit(d, sid) PROVE Quiet
    <3>1. PICK to, f : to \in {"loop", "net_down"} /\ Step(d, "loop", to, f)
      BY <2>2 DEF Visit
    <3>2. QED BY <2>2, <3>1, QuietStep DEF Visit
  <2>3. CASE EndRound(d) BY <2>3, QuietStep DEF EndRound, Answer
  <2>4. QED BY <1>3, <2>1, <2>2, <2>3 DEF DaemonContinues, Loud
<1>4. CASE TimerStep
  <2>1. CASE Wake BY <1>0, <1>4, <2>1, QuietStep DEF TimerStep, Wake, Threads
  <2>2. QED BY <1>3, <1>4, <2>1 DEF TimerStep
<1>5. CASE WatcherStep
  <2>1. ASSUME NEW id \in Ids, Deliver(id) PROVE Quiet
    <3>1. PICK f : Step(Watcher, "idle", "list", f) BY <2>1 DEF Deliver
    <3>2. UNCHANGED <<sessions, net, seq>> /\ Watcher \in Threads
      BY <1>5, <2>1 DEF Deliver, WatcherStep, Threads
    <3>3. QED BY <1>0, <3>1, <3>2, QuietStep
  <2>2. ASSUME NEW id \in Ids, DeliveryFails(id) PROVE Quiet
    BY <2>2 DEF DeliveryFails, Quiet, Unmoved
  <2>3. QED BY <1>3, <1>5, <2>1, <2>2 DEF WatcherStep
<1>6. CASE ChainStep BY <1>6 DEF ChainStep, Quiet, Unmoved
<1>7. CASE UNCHANGED vars BY <1>7 DEF vars, controllerVars, Quiet, Unmoved
<1>8. QED BY <1>1, <1>2, <1>4, <1>5, <1>6, <1>7 DEF Next, Loud

-----------------------------------------------------------------------------
(* What the loud steps do. *)

OthersUnmoved(t) == \A u \in Threads \ {t} : Unmoved(u)

Admits(w) ==
  /\ pc[w] = "admit" /\ pc'[w] = "apply" /\ OthersUnmoved(w)
  /\ frame'[w].id = frame[w].id /\ frame'[w].sid = <<frame[w].id, seq>>
  /\ frame[w].id \notin ActiveIds
  /\ seq' = seq + 1 /\ UNCHANGED <<sessions, net>>

LEMMA AdmitEffect ==
  ASSUME TypeInv, NEW w \in Workers, NEW kind, Admit(w, kind)
  PROVE  Quiet \/ Admits(w)
<1>0. w \in Threads /\ TypeOK BY DEF Threads, TypeInv
<1>1. CASE Answer(w, "admit")
  <2>1. pc[w] = "admit" /\ pc'[w] = "idle" /\ OthersUnmoved(w)
    BY <1>0, <1>1, StepEffect DEF Answer, OthersUnmoved
  <2>2. QED BY <2>1 DEF Admit, Quiet, OthersUnmoved, Busy, InFlight
<1>2. CASE ~Answer(w, "admit")
  <2> DEFINE f == [frame[w] EXCEPT !.sid = <<frame[w].id, seq>>]
  <2>1. Step(w, "admit", "apply", f) BY <1>2 DEF Admit
  <2>2. /\ frame[w] \in Frames /\ pc[w] = "admit" /\ pc'[w] = "apply"
        /\ frame'[w] = f /\ OthersUnmoved(w)
    BY <1>0, <2>1, StepEffect DEF TypeOK, OthersUnmoved
  <2>3. f.id = frame[w].id /\ f.sid = <<frame[w].id, seq>> BY <2>2 DEF Frames
  <2> HIDE DEF f
  <2>4. /\ Predicate(frame[w].view, frame[w].owner, frame[w].owner, frame[w].now,
                     ActiveIds, kind) = "ok"
        /\ seq' = seq + 1 /\ UNCHANGED <<sessions, net>>
    BY <1>2 DEF Admit
  <2>5. frame[w].view.id \notin ActiveIds BY <2>4 DEF Predicate
  <2>6. frame[w].view.id = frame[w].id BY <1>0, <2>2 DEF TypeInv, FramesOK, FrameOK, InFlight
  <2>7. QED BY <2>2, <2>3, <2>4, <2>5, <2>6 DEF Admits
<1>3. QED BY <1>1, <1>2

Records(w, event) ==
  /\ pc[w] = (IF event = "provision_ok" THEN "record" ELSE "record_failed")
  /\ pc'[w] = "idle" /\ OthersUnmoved(w)
  /\ DOMAIN sessions' = DOMAIN sessions \cup {frame[w].sid}
  /\ \A s \in DOMAIN sessions \ {frame[w].sid} : sessions'[s] = sessions[s]
  /\ sessions'[frame[w].sid].state = IF event = "provision_ok" THEN "active" ELSE "failed"
  /\ UNCHANGED <<net, seq>>

LEMMA RecordEffect ==
  ASSUME TypeInv, NEW w \in Workers, Record(w) \/ RecordFailed(w)
  PROVE  \E event \in {"provision_ok", "provision_failed"} : Records(w, event)
<1>0. w \in Threads /\ TypeOK BY DEF Threads, TypeInv
<1>1. PICK event \in {"provision_ok", "provision_failed"} :
        /\ Answer(w, IF event = "provision_ok" THEN "record" ELSE "record_failed")
        /\ sessions' = Put(sessions, frame[w].sid, NewSession(frame[w], event))
        /\ UNCHANGED <<net, seq>>
  <2>1. CASE Record(w) BY <2>1 DEF Record
  <2>2. CASE RecordFailed(w) BY <2>2 DEF RecordFailed
  <2>3. QED BY <2>1, <2>2
<1>2. /\ pc[w] = (IF event = "provision_ok" THEN "record" ELSE "record_failed")
      /\ pc'[w] = "idle" /\ OthersUnmoved(w)
  BY <1>0, <1>1, StepEffect DEF Answer, OthersUnmoved
<1>3. NewSession(frame[w], event).state
        = IF event = "provision_ok" THEN "active" ELSE "failed"
  BY <1>2, NewSessionType DEF InFlight
<1> DEFINE new == NewSession(frame[w], event)
<1> HIDE DEF new
<1>4. sessions' = Put(sessions, frame[w].sid, new) BY <1>1 DEF new
<1>5. /\ DOMAIN sessions' = DOMAIN sessions \cup {frame[w].sid}
      /\ \A s \in DOMAIN sessions \ {frame[w].sid} : sessions'[s] = sessions[s]
      /\ sessions'[frame[w].sid] = new
  BY <1>4 DEF Put
<1>6. QED BY <1>1, <1>2, <1>3, <1>5 DEF Records, new

Marks(t) ==
  /\ pc[t] = "mark" /\ pc'[t] \notin Busy /\ OthersUnmoved(t)
  /\ DOMAIN sessions' = DOMAIN sessions
  /\ \A s \in DOMAIN sessions : sessions[s].state # "active" => sessions'[s] = sessions[s]
  /\ \A s \in DOMAIN sessions \ {frame[t].sid} : sessions'[s] = sessions[s]
  /\ sessions'[frame[t].sid].state # "active"
  /\ frame[t].sid \in DOMAIN sessions
  /\ UNCHANGED <<net, seq>>

LEMMA MarkEffect ==
  ASSUME TypeInv, NEW t \in Threads, Mark(t) PROVE Marks(t)
<1>0. TypeOK BY DEF TypeInv
<1>1. PICK to, f : to \in {"idle", "loop"} /\ Step(t, "mark", to, f) BY DEF Mark, Answer
<1>2. pc'[t] \notin Busy /\ OthersUnmoved(t)
  BY <1>0, <1>1, StepEffect DEF OthersUnmoved, Busy, InFlight
<1> DEFINE old == sessions[frame[t].sid]
           ended == IF old.state = "active" THEN "torn_down" ELSE old.state
<1>3. old \in Session BY MarkSessions DEF TypeInv, TypeOK
<1>4. sessions'[frame[t].sid] = [old EXCEPT !.state = ended] BY MarkSessions
<1>5. ended # "active" /\ (old.state # "active" => ended = old.state) OBVIOUS
<1> HIDE DEF old, ended
<1>6. /\ [old EXCEPT !.state = ended].state = ended
      /\ ended = old.state => [old EXCEPT !.state = ended] = old
  BY <1>3 DEF Session
<1>7. /\ sessions'[frame[t].sid].state # "active"
      /\ old.state # "active" => sessions'[frame[t].sid] = old
  BY <1>4, <1>5, <1>6
<1>8. QED BY <1>2, <1>7, MarkSessions DEF Marks, Mark, old

-----------------------------------------------------------------------------
(* One request at a time: a ticket backs at most one live session. *)

Booking == AdmittedAlone /\ NoDoubleBooking

\* No session comes alive and no request is newly admitted.
LEMMA BookingStable ==
  ASSUME Booking,
         \A s \in DOMAIN sessions' : Active(s)' => Active(s),
         \A w \in Workers : pc'[w] \in {"apply", "record"} =>
           pc[w] \in {"apply", "record"} /\ frame'[w].id = frame[w].id
  PROVE  Booking'
<1>1. ActiveIds' \subseteq ActiveIds BY DEF ActiveIds, Active
<1>2. AdmittedAlone' BY <1>1 DEF Booking, AdmittedAlone
<1>3. NoDoubleBooking' BY DEF Booking, NoDoubleBooking, Active
<1>4. QED BY <1>2, <1>3 DEF Booking

LEMMA NextBooking ==
  ASSUME Serialized, TypeInv, Booking, [Next]_vars PROVE Booking'
<1> USE DEF Threads
<1>0. TypeOK BY DEF TypeInv
<1>1. CASE Quiet
  BY <1>1, BookingStable DEF Quiet, Active, Unmoved, Busy, InFlight
<1>2. ASSUME NEW w \in Workers, Admits(w) PROVE Booking'
  <2>1. ActiveIds' = ActiveIds BY <1>2 DEF Admits, ActiveIds, Active
  <2>2. AdmittedAlone'
    BY <1>2, <2>1 DEF Serialized, AdmittedAlone, Admits
  <2>3. NoDoubleBooking' BY <1>2 DEF Booking, NoDoubleBooking, Active, Admits
  <2>4. QED BY <2>2, <2>3 DEF Booking
<1>3. ASSUME NEW w \in Workers, Apply(w) \/ Undo(w) PROVE Booking'
  <2>1. PICK at, to : Step(w, at, to, frame[w])
                      /\ (to \in {"apply", "record"} => at \in {"apply", "record"})
    BY <1>3 DEF Apply, Undo
  <2>2. sessions' = sessions BY <1>3 DEF Apply, Undo
  <2>3. QED BY <1>0, <2>1, <2>2, StepEffect, BookingStable DEF Active, Unmoved
<1>4. ASSUME NEW w \in Workers, NEW event \in {"provision_ok", "provision_failed"},
             Records(w, event)
      PROVE  Booking'
  <2>1. FrameOK(w) /\ frame[w].sid \in Sids /\ Entitlement(frame[w].sid) = frame[w].id
    BY <1>4 DEF TypeInv, FramesOK, FrameOK, Records, InFlight
  <2>2. AdmittedAlone'
    BY <1>4 DEF Serialized, AdmittedAlone, Records
  <2>3. CASE event = "provision_ok"
    <3>1. frame[w].id \notin ActiveIds
      BY <1>4, <2>3 DEF Booking, AdmittedAlone, Records
    <3>2. ASSUME NEW s \in DOMAIN sessions', Active(s)', s # frame[w].sid
          PROVE  Active(s) /\ Entitlement(s) # frame[w].id
      BY <1>4, <3>1, <3>2 DEF Records, Active, ActiveIds
    <3>3. NoDoubleBooking'
      BY <2>1, <3>2 DEF Booking, NoDoubleBooking, Active
    <3>4. QED BY <2>2, <3>3 DEF Booking
  <2>4. CASE event = "provision_failed"
    <3>1. \A s \in DOMAIN sessions' : Active(s)' => Active(s)
      BY <1>4, <2>4 DEF Records, Active
    <3>2. QED BY <2>2, <3>1 DEF Booking, NoDoubleBooking, Active
  <2>5. QED BY <2>3, <2>4
<1>5. ASSUME NEW t \in Threads, TearDownNet(t) PROVE Booking'
  <2>1. sessions' = sessions /\ Step(t, "net_down", "mark", frame[t])
    BY <1>5 DEF TearDownNet
  <2>2. QED BY <1>0, <2>1, StepEffect, BookingStable DEF Active, Unmoved
<1>6. ASSUME NEW t \in Threads, Marks(t) PROVE Booking'
  <2>1. \A s \in DOMAIN sessions' : Active(s)' => Active(s)
    BY <1>6 DEF Marks, Active
  <2>2. QED
    BY <1>6, <2>1, BookingStable DEF Marks, OthersUnmoved, Unmoved, Busy, InFlight
<1>7. CASE Restart
  BY <1>7, BookingStable DEF Restart, Active
<1>8. QED
  BY <1>1, <1>2, <1>3, <1>4, <1>5, <1>6, <1>7, QuietOrLoud, AdmitEffect,
     RecordEffect, MarkEffect
  DEF Loud

\* When requests come one at a time, as a ticket's in-process owner sends them,
\* no ticket ever backs two live sessions: whatever fails, however the daemons
\* and the chain interleave, and across restarts.
THEOREM SerialBooking == Serialized => (Spec => []NoDoubleBooking)
<1> SUFFICES ASSUME Serialized PROVE Spec => []NoDoubleBooking OBVIOUS
<1>1. Init => Booking
  BY DEF Init, Booking, AdmittedAlone, NoDoubleBooking, Active, Threads
<1>2. TypeInv /\ Booking /\ [Next]_vars => Booking' BY NextBooking
<1>3. Booking => NoDoubleBooking BY DEF Booking
<1>4. QED BY <1>1, <1>2, <1>3, TypeInvariant, PTL DEF Spec

-----------------------------------------------------------------------------
(* Session ids are never reused while their process lives. *)

LEMMA NextApart ==
  ASSUME TypeInv, SidsApart, [Next]_vars PROVE SidsApart'
<1> USE DEF Threads
<1>0. TypeOK /\ seq \in Nat BY DEF TypeInv, TypeOK
<1>00. \A s \in Sids : s[2] \in Nat BY DEF Sids
<1>01. \A s \in DOMAIN sessions : s \in Sids BY DEF TypeInv, TypeOK
<1>02. \A w \in Workers : pc[w] \in InFlight => frame[w].sid \in Sids
  BY DEF TypeInv, FramesOK, FrameOK
<1>1. CASE Quiet
  BY <1>0, <1>00, <1>01, <1>02, <1>1 DEF Quiet, SidsApart, Unmoved, Busy
<1>2. ASSUME NEW w \in Workers, Admits(w) PROVE SidsApart'
  <2>1. /\ sessions' = sessions /\ seq' = seq + 1 /\ frame'[w].sid[2] = seq
        /\ \A v \in Workers \ {w} : Unmoved(v)
    BY <1>2 DEF Admits, OthersUnmoved
  <2>2. \A s \in DOMAIN sessions : s[2] < seq /\ s[2] \in Nat
    BY <1>00, <1>01 DEF SidsApart
  <2>3. \A v \in Workers \ {w} : pc[v] \in InFlight =>
          /\ frame[v].sid[2] < seq /\ frame[v].sid[2] \in Nat
          /\ frame[v].sid \notin DOMAIN sessions
    BY <1>00, <1>02 DEF SidsApart
  <2>4. QED BY <1>0, <2>1, <2>2, <2>3 DEF SidsApart, Unmoved
<1>3. ASSUME NEW w \in Workers, Apply(w) \/ Undo(w) PROVE SidsApart'
  <2>1. PICK at \in InFlight, to \in InFlight : Step(w, at, to, frame[w])
    BY <1>3 DEF Apply, Undo, InFlight
  <2>2. sessions' = sessions /\ seq' = seq BY <1>3 DEF Apply, Undo
  <2>3. QED BY <1>0, <2>1, <2>2, StepEffect DEF SidsApart, Unmoved
<1>4. ASSUME NEW w \in Workers, NEW event \in {"provision_ok", "provision_failed"},
             Records(w, event)
      PROVE  SidsApart'
  <2>1. pc[w] \in InFlight /\ pc'[w] \notin InFlight BY <1>4 DEF Records, InFlight
  <2>2. frame[w].sid[2] < seq BY <2>1 DEF SidsApart
  <2>3. QED BY <1>4, <2>1, <2>2 DEF SidsApart, Records, OthersUnmoved, Unmoved
<1>5. ASSUME NEW t \in Threads, TearDownNet(t) PROVE SidsApart'
  <2>1. /\ sessions' = sessions /\ seq' = seq /\ Step(t, "net_down", "mark", frame[t])
    BY <1>5 DEF TearDownNet
  <2>2. QED BY <1>0, <2>1, StepEffect DEF SidsApart, Unmoved, InFlight
<1>6. ASSUME NEW t \in Threads, Marks(t) PROVE SidsApart'
  BY <1>6 DEF Marks, SidsApart, OthersUnmoved, Unmoved, Busy
<1>7. CASE Restart BY <1>7 DEF Restart, SidsApart, InFlight
<1>8. QED
  BY <1>1, <1>2, <1>3, <1>4, <1>5, <1>6, <1>7, QuietOrLoud, AdmitEffect,
     RecordEffect, MarkEffect
  DEF Loud

LEMMA SidsApartInvariant == Spec => []SidsApart
<1>1. Init => SidsApart BY DEF Init, SidsApart, InFlight, Threads
<1>2. TypeInv /\ SidsApart /\ [Next]_vars => SidsApart' BY NextApart
<1>3. QED BY <1>1, <1>2, TypeInvariant, PTL DEF Spec

\* Without restarts a session that has ended keeps its record for good, also
\* when several threads hold its id: no later request is given the same one.
THEOREM EndedForGood == ~CanRestart => (Spec => EndedStaysEnded)
<1> SUFFICES ASSUME ~CanRestart PROVE Spec => EndedStaysEnded OBVIOUS
<1> DEFINE Kept == \A s \in DOMAIN sessions :
                     ~Active(s) => s \in DOMAIN sessions' /\ sessions'[s] = sessions[s]
<1>1. ASSUME TypeInv, SidsApart, [Next]_vars PROVE Kept
  <2>1. CASE Quiet BY <2>1 DEF Quiet
  <2>2. ASSUME NEW w \in Workers, Admits(w) PROVE Kept BY <2>2 DEF Admits
  <2>3. ASSUME NEW w \in Workers, Apply(w) \/ Undo(w) PROVE Kept
    BY <2>3 DEF Apply, Undo
  <2>4. ASSUME NEW w \in Workers, NEW event \in {"provision_ok", "provision_failed"},
               Records(w, event)
        PROVE  Kept
    <3>1. frame[w].sid \notin DOMAIN sessions
      BY <1>1, <2>4 DEF Records, SidsApart, InFlight
    <3>2. QED BY <2>4, <3>1 DEF Records
  <2>5. ASSUME NEW t \in Threads, TearDownNet(t) PROVE Kept BY <2>5 DEF TearDownNet
  <2>6. ASSUME NEW t \in Threads, Marks(t) PROVE Kept BY <2>6 DEF Marks, Active
  <2>7. QED
    BY <1>1, <2>1, <2>2, <2>3, <2>4, <2>5, <2>6, QuietOrLoud, AdmitEffect,
       RecordEffect, MarkEffect
    DEF Loud, Restart
<1>2. TypeInv /\ SidsApart /\ [Next]_vars => [Kept]_vars BY <1>1
<1>3. QED BY <1>2, TypeInvariant, SidsApartInvariant, PTL DEF Spec, EndedStaysEnded

-----------------------------------------------------------------------------
(* What the records say is on the routers is there. *)

Configured == AppliedIsConfigured /\ ActiveIsConfigured

LEMMA NextConfigured ==
  ASSUME TypeInv, SidsApart, Configured, [Next]_vars PROVE Configured'
<1> USE DEF Threads, Configured, AppliedIsConfigured, ActiveIsConfigured
<1>0. TypeOK BY DEF TypeInv
<1>00. \A t \in Threads : pc[t] \in {"net_down", "mark"} => frame[t].sid \in DOMAIN sessions
  BY DEF TypeInv, FramesOK, FrameOK
<1>01. \A w \in Workers : pc[w] \in InFlight => frame[w].sid \notin DOMAIN sessions
  BY DEF SidsApart
<1>1. CASE Quiet BY <1>1 DEF Quiet, Active, Unmoved, Busy, InFlight
<1>2. ASSUME NEW w \in Workers, Admits(w) PROVE Configured'
  BY <1>2 DEF Admits, Active, OthersUnmoved, Unmoved
<1>3. ASSUME NEW w \in Workers, Apply(w) PROVE Configured'
  <2>1. /\ pc[w] = "apply" /\ frame'[w] = frame[w] /\ OthersUnmoved(w)
        /\ \/ pc'[w] = "record" /\ net' = net \cup {frame[w].sid}
           \/ pc'[w] = "undo" /\ net \subseteq net'
    <3>1. CASE Step(w, "apply", "record", frame[w]) /\ net' = net \cup {frame[w].sid}
      BY <1>0, <3>1, StepEffect DEF OthersUnmoved
    <3>2. CASE Step(w, "apply", "undo", frame[w]) /\ net \subseteq net'
      BY <1>0, <3>2, StepEffect DEF OthersUnmoved
    <3>3. QED BY <1>3, <3>1, <3>2 DEF Apply
  <2>2. sessions' = sessions /\ net \subseteq net' BY <1>3, <2>1 DEF Apply
  <2>3. AppliedIsConfigured' BY <2>1, <2>2 DEF OthersUnmoved, Unmoved
  <2>4. ActiveIsConfigured' BY <2>1, <2>2 DEF Active, OthersUnmoved, Unmoved
  <2>5. QED BY <2>3, <2>4
<1>4. ASSUME NEW w \in Workers, Undo(w) PROVE Configured'
  <2>1. /\ pc[w] = "undo" /\ pc'[w] = "record_failed" /\ OthersUnmoved(w)
        /\ sessions' = sessions /\ net \ {frame[w].sid} \subseteq net'
    BY <1>0, <1>4, StepEffect DEF Undo, NetTeardown, OthersUnmoved
  <2>2. AppliedIsConfigured'
    BY <2>1 DEF SidsApart, InFlight, OthersUnmoved, Unmoved
  <2>3. frame[w].sid \notin DOMAIN sessions BY <1>01, <2>1 DEF InFlight
  <2>4. ActiveIsConfigured' BY <2>1, <2>3 DEF Active, OthersUnmoved, Unmoved
  <2>5. QED BY <2>2, <2>4
<1>5. ASSUME NEW w \in Workers, NEW event \in {"provision_ok", "provision_failed"},
             Records(w, event)
      PROVE  Configured'
  <2>1. frame[w].sid \notin DOMAIN sessions BY <1>01, <1>5 DEF Records, InFlight
  <2>2. AppliedIsConfigured' BY <1>5 DEF Records, OthersUnmoved, Unmoved
  <2>3. ASSUME NEW s \in DOMAIN sessions', Active(s)'
        PROVE  s \in net' \/ \E t \in Threads : pc'[t] = "mark" /\ frame'[t].sid = s
    <3>1. CASE s = frame[w].sid
      <4>1. event = "provision_ok" BY <1>5, <2>3, <3>1 DEF Records, Active
      <4>2. QED BY <1>5, <3>1, <4>1 DEF Records
    <3>2. CASE s # frame[w].sid
      <4>1. Active(s) BY <1>5, <2>3, <3>2 DEF Records, Active
      <4>2. QED BY <1>5, <4>1 DEF Active, Records, OthersUnmoved, Unmoved
    <3>3. QED BY <3>1, <3>2
  <2>4. ActiveIsConfigured' BY <2>3 DEF Active
  <2>5. QED BY <2>2, <2>4
<1>6. ASSUME NEW t \in Threads, TearDownNet(t) PROVE Configured'
  <2>1. /\ pc[t] = "net_down" /\ pc'[t] = "mark" /\ frame'[t] = frame[t]
        /\ OthersUnmoved(t) /\ sessions' = sessions /\ net \ {frame[t].sid} \subseteq net'
    BY <1>0, <1>6, StepEffect DEF TearDownNet, NetTeardown, OthersUnmoved
  <2>2. AppliedIsConfigured'
    BY <1>00, <1>01, <2>1 DEF InFlight, OthersUnmoved, Unmoved
  <2>3. ActiveIsConfigured' BY <2>1 DEF Active, OthersUnmoved, Unmoved
  <2>4. QED BY <2>2, <2>3
<1>7. ASSUME NEW t \in Threads, Marks(t) PROVE Configured'
  <2>1. AppliedIsConfigured' BY <1>7 DEF Marks, OthersUnmoved, Unmoved, Busy, InFlight
  <2>2. ActiveIsConfigured' BY <1>7 DEF Marks, Active, OthersUnmoved, Unmoved
  <2>3. QED BY <2>1, <2>2
<1>8. CASE Restart BY <1>8 DEF Restart, Active
<1>9. QED
  BY <1>1, <1>2, <1>3, <1>4, <1>5, <1>6, <1>7, <1>8, QuietOrLoud, AdmitEffect,
     RecordEffect, MarkEffect
  DEF Loud

\* A session shown as active has its config on the routers, or is being ended:
\* for any number of threads, with failures and restarts.
THEOREM ActiveOnRouters == Spec => []ActiveIsConfigured
<1>1. Init => Configured
  BY DEF Init, Configured, AppliedIsConfigured, ActiveIsConfigured, Threads
<1>2. TypeInv /\ SidsApart /\ Configured /\ [Next]_vars => Configured'
  BY NextConfigured
<1>3. Configured => ActiveIsConfigured BY DEF Configured
<1>4. QED BY <1>1, <1>2, <1>3, TypeInvariant, SidsApartInvariant, PTL DEF Spec

-----------------------------------------------------------------------------
(* What is on the routers belongs to a record, when removals succeed. *)

Removed == MarkedIsRemoved /\ NoOrphanConfig

LEMMA NextRemoved ==
  ASSUME ~CanRestart, "teardown" \notin Failures, TypeInv, SidsApart, Removed,
         [Next]_vars
  PROVE  Removed'
<1> USE DEF Threads, Removed, MarkedIsRemoved, NoOrphanConfig
<1>0. TypeOK BY DEF TypeInv
<1>00. \A t \in Threads : pc[t] \in {"net_down", "mark"} => frame[t].sid \in DOMAIN sessions
  BY DEF TypeInv, FramesOK, FrameOK
<1>01. \A w \in Workers : pc[w] \in InFlight => frame[w].sid \notin DOMAIN sessions
  BY DEF SidsApart
<1>1. CASE Quiet BY <1>1 DEF Quiet, Active, Unmoved, Busy, InFlight
<1>2. ASSUME NEW w \in Workers, Admits(w) PROVE Removed'
  BY <1>2 DEF Admits, Active, OthersUnmoved, Unmoved
<1>3. ASSUME NEW w \in Workers, Apply(w) PROVE Removed'
  <2>1. PICK to \in {"record", "undo"} : Step(w, "apply", to, frame[w])
    BY <1>3 DEF Apply
  <2>2. /\ pc[w] = "apply" /\ pc'[w] = to /\ frame'[w] = frame[w] /\ OthersUnmoved(w)
    BY <1>0, <2>1, StepEffect DEF OthersUnmoved
  <2>3. sessions' = sessions /\ net' \subseteq net \cup {frame[w].sid}
    BY <1>3 DEF Apply
  <2>4. frame[w].sid \notin DOMAIN sessions BY <1>01, <2>2 DEF InFlight
  <2>5. MarkedIsRemoved'
    BY <1>00, <2>2, <2>3, <2>4 DEF OthersUnmoved, Unmoved
  <2>6. NoOrphanConfig' BY <2>2, <2>3 DEF Active, OthersUnmoved, Unmoved
  <2>7. QED BY <2>5, <2>6
<1>4. ASSUME NEW w \in Workers, Undo(w) PROVE Removed'
  <2>1. /\ pc[w] = "undo" /\ pc'[w] = "record_failed" /\ OthersUnmoved(w)
        /\ sessions' = sessions /\ net' = net \ {frame[w].sid}
    BY <1>0, <1>4, StepEffect DEF Undo, NetTeardown, OthersUnmoved
  <2>2. MarkedIsRemoved' BY <2>1 DEF OthersUnmoved, Unmoved
  <2>3. NoOrphanConfig' BY <2>1 DEF Active, OthersUnmoved, Unmoved
  <2>4. QED BY <2>2, <2>3
<1>5. ASSUME NEW w \in Workers, NEW event \in {"provision_ok", "provision_failed"},
             Records(w, event)
      PROVE  Removed'
  <2>1. frame[w].sid \notin DOMAIN sessions BY <1>01, <1>5 DEF Records, InFlight
  <2>2. MarkedIsRemoved' BY <1>5 DEF Records, OthersUnmoved, Unmoved
  <2>3. ASSUME NEW s \in net'
        PROVE  \/ Active(s)'
               \/ \E v \in Workers : frame'[v].sid = s /\ pc'[v] \in {"record", "undo"}
    <3>1. CASE Active(s)
      BY <1>5, <2>1, <3>1 DEF Records, Active
    <3>2. CASE \E v \in Workers \ {w} : frame[v].sid = s /\ pc[v] \in {"record", "undo"}
      BY <1>5, <3>2 DEF Records, OthersUnmoved, Unmoved
    <3>3. CASE frame[w].sid = s /\ pc[w] \in {"record", "undo"}
      BY <1>5, <3>3 DEF Records, Active
    <3>4. s \in net BY <1>5 DEF Records
    <3>5. QED BY <3>1, <3>2, <3>3, <3>4
  <2>4. NoOrphanConfig' BY <2>3 DEF Active
  <2>5. QED BY <2>2, <2>4
<1>6. ASSUME NEW t \in Threads, TearDownNet(t) PROVE Removed'
  <2>1. /\ pc[t] = "net_down" /\ pc'[t] = "mark" /\ frame'[t] = frame[t]
        /\ OthersUnmoved(t) /\ sessions' = sessions /\ net' = net \ {frame[t].sid}
    BY <1>0, <1>6, StepEffect DEF TearDownNet, NetTeardown, OthersUnmoved
  <2>2. MarkedIsRemoved' BY <2>1 DEF OthersUnmoved, Unmoved
  <2>3. NoOrphanConfig' BY <2>1 DEF Active, OthersUnmoved, Unmoved
  <2>4. QED BY <2>2, <2>3
<1>7. ASSUME NEW t \in Threads, Marks(t) PROVE Removed'
  <2>1. MarkedIsRemoved' BY <1>7 DEF Marks, OthersUnmoved, Unmoved, Busy
  <2>2. frame[t].sid \notin net BY <1>7 DEF Marks
  <2>3. NoOrphanConfig'
    BY <1>7, <2>2 DEF Marks, Active, OthersUnmoved, Unmoved
  <2>4. QED BY <2>1, <2>3
<1>8. QED
  BY <1>1, <1>2, <1>3, <1>4, <1>5, <1>6, <1>7, QuietOrLoud, AdmitEffect,
     RecordEffect, MarkEffect
  DEF Loud, Restart

\* If the network removes what it is told to remove and the process lives, no
\* config is left without a live session or a request at work on it: this is
\* what the undo after a failed apply buys.
THEOREM NothingLeftBehind ==
  ~CanRestart /\ "teardown" \notin Failures => (Spec => []NoOrphanConfig)
<1> SUFFICES ASSUME ~CanRestart, "teardown" \notin Failures
             PROVE  Spec => []NoOrphanConfig
  OBVIOUS
<1>1. Init => Removed
  BY DEF Init, Removed, MarkedIsRemoved, NoOrphanConfig, Threads
<1>2. TypeInv /\ SidsApart /\ Removed /\ [Next]_vars => Removed' BY NextRemoved
<1>3. Removed => NoOrphanConfig BY DEF Removed
<1>4. QED BY <1>1, <1>2, <1>3, TypeInvariant, SidsApartInvariant, PTL DEF Spec
=============================================================================
