----------------------------- MODULE TicketProofs -----------------------------
(***************************************************************************)
(* Proofs of what ties Controller's sessions to the chain and to who asked *)
(* for them: a nonce authorises one request, the terms a session stands    *)
(* on, what may end it, and how a revocation can miss it.                  *)
(***************************************************************************)
EXTENDS ControllerProofs

-----------------------------------------------------------------------------
(* Only issued nonces are in the table or in anybody's hands, so that a    *)
(* fresh one starts with no spender.                                       *)

NonceInv == NonceAuthorisesOnce /\ NoncesIssued

\* Nobody gets a nonce, and the table does not grow.
LEMMA NonceStable ==
  ASSUME NonceInv,
         DOMAIN open' \subseteq DOMAIN open, DOMAIN issued \subseteq DOMAIN issued',
         \A s \in DOMAIN sessions' :
           s \in DOMAIN sessions /\ sessions'[s].nonce = sessions[s].nonce,
         \A w \in Workers : frame'[w].nonce \in {frame[w].nonce, Null}
  PROVE  NonceInv'
<1>1. \A n \in Nonces : Spenders(n)' \subseteq Spenders(n)
  BY NullAssumption DEF Spenders
<1>2. NonceAuthorisesOnce' BY <1>1 DEF NonceInv, NonceAuthorisesOnce
<1>3. NoncesIssued' BY <1>1 DEF NonceInv, NoncesIssued
<1>4. QED BY <1>2, <1>3 DEF NonceInv

LEMMA NonceKept ==
  ASSUME TypeOK, NonceInv, NEW t \in Threads, NEW at, NEW to, NEW f,
         Step(t, at, to, f), t \in Workers => f.nonce \in {frame[t].nonce, Null},
         UNCHANGED <<open, sessions, issued>>
  PROVE  NonceInv'
BY StepEffect, NonceStable DEF Threads, Unmoved

LEMMA MarkNonces ==
  ASSUME TypeInv, NEW t \in Threads, Mark(t)
  PROVE  \A s \in DOMAIN sessions' :
           s \in DOMAIN sessions /\ sessions'[s].nonce = sessions[s].nonce
<1> DEFINE old == sessions[frame[t].sid]
           ended == IF old.state = "active" THEN "torn_down" ELSE old.state
<1>1. old \in Session BY MarkSessions DEF TypeInv, TypeOK
<1>2. sessions'[frame[t].sid] = [old EXCEPT !.state = ended] BY MarkSessions
<1> HIDE DEF ended
<1>3. sessions'[frame[t].sid].nonce = old.nonce BY <1>1, <1>2 DEF Session
<1>4. QED BY <1>3, MarkSessions

LEMMA WorkerNonce ==
  ASSUME TypeInv, NonceInv, NEW w \in Workers, WorkerBegins(w) \/ WorkerContinues(w)
  PROVE  NonceInv'
<1> USE DEF Threads
<1>0. TypeOK /\ frame[w] \in Frames BY DEF TypeInv, TypeOK
<1>00. EmptyFrame.nonce = Null BY DEF EmptyFrame
<1>1. CASE WorkerBegins(w)
  <2>1. PICK to, f : Step(w, "idle", to, f) /\ f.nonce = Null
    <3> DEFINE Begun == \E to, f : Step(w, "idle", to, f) /\ f.nonce = Null
    <3>1. ASSUME NEW id \in Ids, BeginChallenge(w, id) PROVE Begun
      <4> DEFINE f == [EmptyFrame EXCEPT !.op = "challenge", !.id = id]
      <4>1. f.nonce = Null BY DEF EmptyFrame
      <4>2. Step(w, "idle", "time", f) BY <3>1 DEF BeginChallenge
      <4> HIDE DEF f
      <4>3. QED BY <4>1, <4>2
    <3>2. ASSUME NEW id \in Ids, BeginActivate(w, id) PROVE Begun
      <4> DEFINE f == [EmptyFrame EXCEPT !.op = "activate", !.id = id, !.view = View(id)]
      <4>1. f.nonce = Null BY DEF EmptyFrame
      <4>2. Step(w, "idle", "owner", f) BY <3>2 DEF BeginActivate
      <4> HIDE DEF f
      <4>3. QED BY <4>1, <4>2
    <3>3. ASSUME NEW sid \in DOMAIN sessions, BeginTeardown(w, sid) PROVE Begun
      <4> DEFINE f == [EmptyFrame EXCEPT !.op = "teardown", !.sid = sid,
                                         !.id = Entitlement(sid)]
      <4>1. f.nonce = Null BY DEF EmptyFrame
      <4>2. Step(w, "idle", "owner", f) BY <3>3 DEF BeginTeardown
      <4> HIDE DEF f
      <4>3. QED BY <4>1, <4>2
    <3> HIDE DEF Begun
    <3>4. Begun BY <1>1, <3>1, <3>2, <3>3 DEF WorkerBegins
    <3>5. QED BY <3>4 DEF Begun
  <2>2. UNCHANGED <<open, sessions, issued>>
    BY <1>1 DEF WorkerBegins, BeginChallenge, BeginActivate, BeginTeardown
  <2>3. QED BY <1>0, <2>1, <2>2, NonceKept
<1>2. CASE ReadOwner(w) \/ ReadTime(w)
  <2>1. PICK at, to, f : Step(w, at, to, f) /\ f.nonce = frame[w].nonce
    BY <1>0, <1>2 DEF ReadOwner, ReadTime, Frames
  <2>2. UNCHANGED <<open, sessions, issued>> BY <1>2 DEF ReadOwner, ReadTime
  <2>3. QED BY <1>0, <2>1, <2>2, NonceKept
<1>3. ASSUME NEW n \in Nonces, IssueChallenge(w, n) PROVE NonceInv'
  <2>1. frame'[w] = EmptyFrame /\ \A u \in Workers \ {w} : frame'[u] = frame[u]
    BY <1>0, <1>3, StepEffect DEF IssueChallenge, Answer, Unmoved
  <2>2. \A m \in Nonces : Spenders(m)' \subseteq Spenders(m)
    BY <1>00, <1>3, <2>1, NullAssumption DEF Spenders, IssueChallenge
  <2>3. /\ n \notin DOMAIN issued
        /\ DOMAIN open' = DOMAIN open \cup {n} /\ DOMAIN issued' = DOMAIN issued \cup {n}
    BY <1>3 DEF IssueChallenge, Put
  <2>4. Spenders(n) = {} BY <2>3 DEF NonceInv, NoncesIssued
  <2>5. NonceAuthorisesOnce' BY <2>2, <2>3, <2>4 DEF NonceInv, NonceAuthorisesOnce
  <2>6. NoncesIssued' BY <2>2, <2>3 DEF NonceInv, NoncesIssued
  <2>7. QED BY <2>5, <2>6 DEF NonceInv
<1>4. ASSUME NEW n \in Nonces, NEW signer \in Agents,
             NEW verb \in {"activate", "teardown"}, Verify(w, n, signer, verb)
      PROVE  NonceInv'
  <2>1. DOMAIN open' = DOMAIN open \ {n} /\ UNCHANGED <<sessions, issued>>
    BY <1>4 DEF Verify, Drop
  <2>2. CASE Answer(w, "verify")
    <3>1. frame'[w] = EmptyFrame /\ \A u \in Workers \ {w} : frame'[u] = frame[u]
      BY <1>0, <2>2, StepEffect DEF Answer, Unmoved
    <3>2. QED BY <1>00, <2>1, <3>1, NonceStable
  <2>3. CASE ~Answer(w, "verify")
    <3> DEFINE f == [frame[w] EXCEPT !.nonce = n, !.signer = signer]
    <3>1. PICK to : Step(w, "verify", to, f) BY <1>4, <2>3 DEF Verify
    <3>0. f.nonce = n BY <1>0 DEF Frames
    <3> HIDE DEF f
    <3>2. n \in DOMAIN open BY <1>4, <2>3 DEF Verify, ProofBinds
    <3>3. frame'[w].nonce = n /\ \A u \in Workers \ {w} : frame'[u] = frame[u]
      BY <1>0, <3>1, <3>0, StepEffect DEF Unmoved
    <3>4. Spenders(n) = {} BY <3>2 DEF NonceInv, NonceAuthorisesOnce
    <3>5. Spenders(n)' \subseteq {w} BY <2>1, <3>3, <3>4 DEF Spenders
    <3>6. \A m \in Nonces \ {n} : Spenders(m)' \subseteq Spenders(m)
      BY <2>1, <3>3 DEF Spenders
    <3>7. NonceAuthorisesOnce' BY <2>1, <3>5, <3>6 DEF NonceInv, NonceAuthorisesOnce
    <3>8. NoncesIssued' BY <2>1, <3>2, <3>6 DEF NonceInv, NoncesIssued
    <3>9. QED BY <3>7, <3>8 DEF NonceInv
  <2>4. QED BY <2>2, <2>3
<1>5. ASSUME NEW kind, Admit(w, kind) PROVE NonceInv'
  <2>1. PICK to, f : Step(w, "admit", to, f) /\ f.nonce \in {frame[w].nonce, Null}
    BY <1>0, <1>00, <1>5 DEF Admit, Answer, Frames
  <2>2. UNCHANGED <<open, sessions, issued>> BY <1>5 DEF Admit
  <2>3. QED BY <1>0, <2>1, <2>2, NonceKept
<1>6. CASE Apply(w) \/ Undo(w) \/ TearDownNet(w)
  <2>1. PICK at, to : Step(w, at, to, frame[w]) BY <1>6 DEF Apply, Undo, TearDownNet
  <2>2. UNCHANGED <<open, sessions, issued>> BY <1>6 DEF Apply, Undo, TearDownNet
  <2>3. QED BY <1>0, <2>1, <2>2, NonceKept
<1>7. CASE Record(w) \/ RecordFailed(w)
  <2>1. PICK at, event : /\ Answer(w, at)
                         /\ sessions' = Put(sessions, frame[w].sid, NewSession(frame[w], event))
    BY <1>7 DEF Record, RecordFailed
  <2>2. UNCHANGED <<open, issued>> BY <1>7 DEF Record, RecordFailed
  <2>3. /\ frame'[w].nonce = Null /\ \A u \in Workers \ {w} : frame'[u] = frame[u]
    BY <1>0, <1>00, <2>1, StepEffect DEF Answer, Unmoved
  <2>4. PICK sid, m : sid = frame[w].sid /\ m = frame[w].nonce OBVIOUS
  <2>5. /\ DOMAIN sessions' = DOMAIN sessions \cup {sid}
        /\ \A s \in DOMAIN sessions \ {sid} : sessions'[s] = sessions[s]
        /\ sessions'[sid].nonce = m
    BY <2>1, <2>4 DEF Put, NewSession
  <2>6. pc[w] \in InFlight
    BY <1>0, <1>7, StepEffect DEF Record, RecordFailed, Answer, InFlight
  <2>7. sid \in Sids /\ m \in Nonces BY <2>4, <2>6 DEF TypeInv, FramesOK, FrameOK
  <2>8. w \in Spenders(m) BY <2>4 DEF Spenders
  <2>9. \A x \in Spenders(m) : x = w
    BY <2>7, <2>8 DEF NonceInv, NonceAuthorisesOnce
  <2>10. \A s \in DOMAIN sessions' : s \notin Workers
    BY <2>5, <2>7, DaemonsAssumption DEF TypeInv, TypeOK, Sids
  <2>11. ASSUME NEW x \in Spenders(m)' PROVE x = sid
    <3>1. CASE x \in DOMAIN sessions' /\ x # sid
      <4>1. x \notin Workers /\ x # w BY <2>10, <3>1
      <4>2. sessions'[x].nonce = m BY <2>11, <4>1 DEF Spenders
      <4>3. x \in DOMAIN sessions /\ sessions[x].nonce = m BY <2>5, <3>1, <4>2
      <4>4. x \in Spenders(m) BY <4>3 DEF Spenders
      <4>5. QED BY <2>9, <4>1, <4>4
    <3>2. CASE x \notin DOMAIN sessions'
      <4>1. x \in Workers /\ frame'[x].nonce = m BY <2>11, <3>2 DEF Spenders
      <4>2. x # w BY <2>3, <2>7, <4>1, NullAssumption
      <4>3. x \in Spenders(m) BY <2>3, <4>1, <4>2 DEF Spenders
      <4>4. QED BY <2>9, <4>2, <4>3
    <3>3. QED BY <3>1, <3>2
  <2>12. \A n \in Nonces \ {m} : Spenders(n)' \subseteq Spenders(n)
    BY <2>3, <2>5, NullAssumption DEF Spenders
  <2>13. m \notin DOMAIN open /\ m \in DOMAIN issued
    BY <2>7, <2>8 DEF NonceInv, NonceAuthorisesOnce, NoncesIssued
  <2>14. NonceAuthorisesOnce'
    <3>1. ASSUME NEW n \in Nonces
          PROVE  /\ \A x, y \in Spenders(n)' : x = y
                 /\ Spenders(n)' # {} => n \notin DOMAIN open'
      <4>1. CASE n = m BY <2>2, <2>11, <2>13, <4>1
      <4>2. CASE n # m
        BY <2>2, <2>12, <4>2 DEF NonceInv, NonceAuthorisesOnce
      <4>3. QED BY <4>1, <4>2
    <3>2. QED BY <3>1 DEF NonceAuthorisesOnce
  <2>15. NoncesIssued' BY <2>2, <2>12, <2>13 DEF NonceInv, NoncesIssued
  <2>16. QED BY <2>14, <2>15 DEF NonceInv
<1>8. CASE Mark(w)
  <2>1. PICK to, f : Step(w, "mark", to, f) /\ f.nonce = Null
    BY <1>00, <1>8 DEF Mark, Answer
  <2>2. frame'[w].nonce = Null /\ \A u \in Workers \ {w} : frame'[u] = frame[u]
    BY <1>0, <2>1, StepEffect DEF Unmoved
  <2>3. QED BY <1>8, <2>2, MarkNonces, NonceStable DEF Mark
<1>9. QED
  BY <1>1, <1>2, <1>3, <1>4, <1>5, <1>6, <1>7, <1>8 DEF WorkerContinues

LEMMA DaemonNonce ==
  ASSUME TypeInv, NonceInv, TimerStep \/ WatcherStep PROVE NonceInv'
<1>0. TypeOK /\ Daemons \subseteq Threads BY DEF TypeInv, Threads
<1>1. ASSUME NEW d \in Daemons, NEW at, NEW to, NEW f, Step(d, at, to, f)
      PROVE  \A w \in Workers : frame'[w] = frame[w]
  BY <1>0, <1>1, StepEffect, DaemonsAssumption DEF Unmoved, Threads
<1>2. ASSUME NEW d \in Daemons, DaemonContinues(d) PROVE NonceInv'
  <2>1. PICK at, to, f : Step(d, at, to, f)
    BY <1>2 DEF DaemonContinues, List, Visit, EndRound, TearDownNet, Mark, Answer
  <2>2. UNCHANGED <<open, issued>>
    BY <1>2 DEF DaemonContinues, List, Visit, EndRound, TearDownNet, Mark
  <2>3. \A s \in DOMAIN sessions' :
          s \in DOMAIN sessions /\ sessions'[s].nonce = sessions[s].nonce
    <3>1. CASE Mark(d) BY <1>0, <3>1, MarkNonces
    <3>2. CASE sessions' = sessions BY <3>2
    <3>3. QED
      BY <1>2, <3>1, <3>2 DEF DaemonContinues, List, Visit, EndRound, TearDownNet
  <2>4. \A w \in Workers : frame'[w] = frame[w] BY <1>1, <2>1
  <2>5. QED BY <2>2, <2>3, <2>4, NonceStable
<1>3. ASSUME Timer \in Daemons, Wake PROVE NonceInv'
  <2>1. PICK f : Step(Timer, "idle", "list", f) BY <1>3 DEF Wake
  <2>2. \A w \in Workers : frame'[w] = frame[w] BY <1>1, <1>3, <2>1
  <2>3. QED BY <1>3, <2>2, NonceStable DEF Wake
<1>4. ASSUME Watcher \in Daemons, NEW id \in Ids, Deliver(id) PROVE NonceInv'
  <2>1. PICK f : Step(Watcher, "idle", "list", f) BY <1>4 DEF Deliver
  <2>2. \A w \in Workers : frame'[w] = frame[w] BY <1>1, <1>4, <2>1
  <2>3. QED BY <1>4, <2>2, NonceStable DEF Deliver
<1>5. ASSUME NEW id \in Ids, DeliveryFails(id) PROVE NonceInv'
  BY <1>5, NonceStable DEF DeliveryFails
<1>6. QED BY <1>2, <1>3, <1>4, <1>5 DEF TimerStep, WatcherStep

LEMMA NextNonce ==
  ASSUME TypeInv, NonceInv, [Next]_vars PROVE NonceInv'
<1>1. CASE ChainStep BY <1>1, NonceStable DEF ChainStep
<1>2. CASE Restart BY <1>2, NonceStable DEF Restart, EmptyFrame, Threads
<1>3. CASE UNCHANGED vars BY <1>3, NonceStable DEF vars, controllerVars
<1>4. QED BY <1>1, <1>2, <1>3, WorkerNonce, DaemonNonce DEF Next

\* A nonce gets one request through, once, whatever the number of threads that
\* present it, whichever verb they present it for, and across restarts.
THEOREM NonceOnce == Spec => []NonceAuthorisesOnce
<1>1. Init => NonceInv
  BY NullAssumption
  DEF Init, NonceInv, NonceAuthorisesOnce, NoncesIssued, Spenders, EmptyFrame, Threads
<1>2. TypeInv /\ NonceInv /\ [Next]_vars => NonceInv' BY NextNonce
<1>3. NonceInv => NonceAuthorisesOnce BY DEF NonceInv
<1>4. QED BY <1>1, <1>2, <1>3, TypeInvariant, PTL DEF Spec

-----------------------------------------------------------------------------
(* The chain and the challenges issued only grow, so what a thread learnt  *)
(* from them stays true while it is at work.                               *)

-----------------------------------------------------------------------------
(* What any step does to the chain, to the sessions and to the threads. *)

Grows ==
  /\ \A id \in DOMAIN tickets :
       /\ id \in DOMAIN tickets'
       /\ tickets'[id].terms = tickets[id].terms
       /\ tickets[id].revoked => tickets'[id].revoked
  /\ \A n \in DOMAIN issued : n \in DOMAIN issued' /\ issued'[n] = issued[n]
  /\ time \in Nat /\ time' \in Nat /\ time <= time'

LEMMA TicketsGrow ==
  ASSUME TypeInv, ChainNext
  PROVE  \A id \in DOMAIN tickets :
           /\ id \in DOMAIN tickets'
           /\ tickets'[id].terms = tickets[id].terms
           /\ tickets[id].revoked => tickets'[id].revoked
<1> SUFFICES ASSUME NEW id \in DOMAIN tickets
             PROVE  /\ id \in DOMAIN tickets'
                    /\ tickets'[id].terms = tickets[id].terms
                    /\ tickets[id].revoked => tickets'[id].revoked
  OBVIOUS
<1> DEFINE sold(a) == [tickets[id] EXCEPT !.owner = a]
           lifted == [tickets[id] EXCEPT !.revoked = TRUE]
<1>0. tickets[id] \in Ticket BY DEF TypeInv, TypeOK, ChainTypeOK
<1>1. ASSUME NEW i \in Ids, NEW a \in Agents, NEW t \in Terms, Mint(i, a, t)
      PROVE  id \in DOMAIN tickets' /\ tickets'[id] = tickets[id]
  BY <1>1 DEF Mint
<1>2. ASSUME NEW i \in Ids, NEW a \in Agents, Transfer(i, a)
      PROVE  /\ id \in DOMAIN tickets'
             /\ tickets'[id] = tickets[id] \/ tickets'[id] = sold(a)
  BY <1>2 DEF Transfer
<1>3. ASSUME NEW i \in Ids, Revoke(i)
      PROVE  /\ id \in DOMAIN tickets'
             /\ tickets'[id] = tickets[id] \/ tickets'[id] = lifted
  BY <1>3 DEF Revoke
<1>4. ASSUME NEW a
      PROVE  sold(a).terms = tickets[id].terms /\ sold(a).revoked = tickets[id].revoked
  BY <1>0 DEF Ticket
<1>5. lifted.terms = tickets[id].terms /\ lifted.revoked
  BY <1>0 DEF Ticket
<1> HIDE DEF sold, lifted
<1>6. CASE Advance BY <1>6 DEF Advance
<1>7. CASE \E i \in Ids, a \in Agents, t \in Terms : Mint(i, a, t) BY <1>1, <1>7
<1>8. CASE \E i \in Ids, a \in Agents : Transfer(i, a)
  <2>1. PICK i \in Ids, a \in Agents : Transfer(i, a) BY <1>8
  <2>2. QED BY <1>2, <1>4, <2>1
<1>9. CASE \E i \in Ids : Revoke(i)
  <2>1. PICK i \in Ids : Revoke(i) BY <1>9
  <2>2. QED BY <1>3, <1>5, <2>1
<1>10. QED BY <1>6, <1>7, <1>8, <1>9 DEF ChainNext

LEMMA GroundGrows == ASSUME TypeInv, [Next]_vars PROVE Grows
<1>0. time \in Nat BY TimeAssumption DEF TypeInv, TypeOK, ChainTypeOK
<1>1. CASE ChainStep
  <2>1. ChainNext /\ issued' = issued BY <1>1 DEF ChainStep, ChainNext
  <2>2. time' \in {time, time + 1}
    BY <1>1 DEF ChainStep, Mint, Transfer, Advance, Revoke
  <2>3. QED BY <1>0, <2>1, <2>2, TicketsGrow DEF Grows
<1>2. CASE UNCHANGED <<tickets, time, issued>> BY <1>0, <1>2 DEF Grows
<1>3. ASSUME NEW w \in Workers, NEW n \in Nonces, IssueChallenge(w, n) PROVE Grows
  BY <1>0, <1>3 DEF IssueChallenge, Put, chainVars, Grows
<1>4. ASSUME NEW w \in Workers, WorkerBegins(w) \/ WorkerContinues(w) PROVE Grows
  BY <1>2, <1>3, <1>4
  DEF WorkerBegins, WorkerContinues, BeginChallenge, BeginActivate, BeginTeardown,
      ReadOwner, ReadTime, Verify, Admit, Apply, Record, Undo, RecordFailed,
      TearDownNet, Mark, chainVars
<1>5. ASSUME NEW d \in Daemons, DaemonContinues(d) PROVE Grows
  BY <1>2, <1>5 DEF DaemonContinues, List, Visit, EndRound, TearDownNet, Mark, chainVars
<1>6. CASE TimerStep BY <1>2, <1>5, <1>6 DEF TimerStep, Wake, chainVars
<1>7. CASE WatcherStep
  BY <1>2, <1>5, <1>7 DEF WatcherStep, Deliver, DeliveryFails, chainVars
<1>8. CASE Restart BY <1>2, <1>8 DEF Restart, chainVars
<1>9. CASE UNCHANGED vars BY <1>2, <1>9 DEF vars, chainVars, controllerVars
<1>10. QED BY <1>1, <1>4, <1>6, <1>7, <1>8, <1>9 DEF Next

\* What a record keeps when its session ends.
Same(s) ==
  /\ sessions'[s].since = sessions[s].since
  /\ sessions'[s].expires = sessions[s].expires
  /\ sessions'[s].nonce = sessions[s].nonce
  /\ sessions'[s].late = sessions[s].late
  /\ sessions'[s].state = "active" => sessions[s].state = "active"

\* A record made by this step.
Fresh(s) ==
  \E w \in Workers, event \in {"provision_ok", "provision_failed"} :
    /\ pc[w] \in InFlight /\ s = frame[w].sid
    /\ sessions'[s] = NewSession(frame[w], event)
    /\ tickets' = tickets

LEMMA MarkSame ==
  ASSUME TypeInv, NEW t \in Threads, Mark(t)
  PROVE  \A s \in DOMAIN sessions' : s \in DOMAIN sessions /\ Same(s)
<1> DEFINE old == sessions[frame[t].sid]
           ended == IF old.state = "active" THEN "torn_down" ELSE old.state
<1>1. old \in Session BY MarkSessions DEF TypeInv, TypeOK
<1>2. sessions'[frame[t].sid] = [old EXCEPT !.state = ended] BY MarkSessions
<1>3. ended = "active" => old.state = "active" OBVIOUS
<1> HIDE DEF ended
<1>4. Same(frame[t].sid) BY <1>1, <1>2, <1>3 DEF Session, Same
<1>5. QED BY <1>4, MarkSessions DEF Same

LEMMA Origin ==
  ASSUME TypeInv, [Next]_vars
  PROVE  \A s \in DOMAIN sessions' : (s \in DOMAIN sessions /\ Same(s)) \/ Fresh(s)
<1>1. CASE sessions' = sessions BY <1>1 DEF Same
<1>2. ASSUME NEW w \in Workers, Record(w) \/ RecordFailed(w)
      PROVE  \A s \in DOMAIN sessions' : (s \in DOMAIN sessions /\ Same(s)) \/ Fresh(s)
  <2>0. w \in Threads /\ TypeOK BY DEF Threads, TypeInv
  <2>1. PICK at \in InFlight, event \in {"provision_ok", "provision_failed"} :
          /\ Answer(w, at)
          /\ sessions' = Put(sessions, frame[w].sid, NewSession(frame[w], event))
          /\ tickets' = tickets
    <3>1. CASE Record(w) BY <3>1 DEF Record, chainVars, InFlight
    <3>2. CASE RecordFailed(w) BY <3>2 DEF RecordFailed, chainVars, InFlight
    <3>3. QED BY <1>2, <3>1, <3>2
  <2>2. pc[w] \in InFlight BY <2>0, <2>1, StepEffect DEF Answer
  <2>3. PICK new : new = NewSession(frame[w], event) OBVIOUS
  <2>4. /\ DOMAIN sessions' = DOMAIN sessions \cup {frame[w].sid}
        /\ \A s \in DOMAIN sessions \ {frame[w].sid} : sessions'[s] = sessions[s]
        /\ sessions'[frame[w].sid] = new
    BY <2>1, <2>3 DEF Put
  <2>5. Fresh(frame[w].sid) BY <2>1, <2>2, <2>3, <2>4 DEF Fresh
  <2>6. QED BY <2>4, <2>5 DEF Same
<1>3. CASE Loud
  <2>1. CASE Restart BY <2>1 DEF Restart
  <2>2. ASSUME NEW w \in Workers, NEW kind \in DOMAIN ACTION_KINDS, Admit(w, kind)
        PROVE  sessions' = sessions
    BY <2>2 DEF Admit
  <2>3. ASSUME NEW w \in Workers, Apply(w) \/ Undo(w) PROVE sessions' = sessions
    BY <2>3 DEF Apply, Undo
  <2>4. ASSUME NEW t \in Threads, TearDownNet(t) PROVE sessions' = sessions
    BY <2>4 DEF TearDownNet
  <2>5. QED BY <1>1, <1>2, <1>3, <2>1, <2>2, <2>3, <2>4, MarkSame DEF Loud
<1>4. QED BY <1>1, <1>3, QuietOrLoud DEF Quiet

\* While the process lives no record disappears and none is replaced.
LEMMA Lasting ==
  ASSUME TypeInv, SidsApart, [Next]_vars, ~Restart
  PROVE  \A s \in DOMAIN sessions : s \in DOMAIN sessions' /\ Same(s)
<1>1. DOMAIN sessions \subseteq DOMAIN sessions'
  <2>1. CASE Quiet BY <2>1 DEF Quiet
  <2>2. CASE Loud
    <3>1. ASSUME NEW w \in Workers, NEW kind \in DOMAIN ACTION_KINDS, Admit(w, kind)
          PROVE  sessions' = sessions
      BY <3>1 DEF Admit
    <3>2. ASSUME NEW w \in Workers, Apply(w) \/ Undo(w) PROVE sessions' = sessions
      BY <3>2 DEF Apply, Undo
    <3>3. ASSUME NEW t \in Threads, TearDownNet(t) PROVE sessions' = sessions
      BY <3>3 DEF TearDownNet
    <3>4. ASSUME NEW w \in Workers, Record(w) \/ RecordFailed(w)
          PROVE  DOMAIN sessions \subseteq DOMAIN sessions'
      BY <3>4, RecordEffect DEF Records
    <3>5. ASSUME NEW t \in Threads, Mark(t) PROVE DOMAIN sessions' = DOMAIN sessions
      BY <3>5, MarkEffect DEF Marks
    <3>6. QED BY <2>2, <3>1, <3>2, <3>3, <3>4, <3>5 DEF Loud
  <2>3. QED BY <2>1, <2>2, QuietOrLoud
<1>2. \A s \in DOMAIN sessions : ~Fresh(s) BY DEF Fresh, SidsApart
<1>3. QED BY <1>1, <1>2, Origin

\* A thread that moves makes a step of its own; the others stay where they are.
LEMMA WhoMoves ==
  ASSUME TypeInv, [Next]_vars, ~Restart
  PROVE  /\ \A w \in Workers : Unmoved(w) \/ WorkerBegins(w) \/ WorkerContinues(w)
         /\ \A d \in Daemons : \/ Unmoved(d) \/ DaemonContinues(d)
                               \/ d = Timer /\ Wake
                               \/ d = Watcher /\ \E id \in Ids : Deliver(id)
<1> USE DEF Threads
<1>0. TypeOK /\ Workers \cap Daemons = {} BY DaemonsAssumption DEF TypeInv
<1>1. ASSUME NEW w \in Workers, WorkerBegins(w) \/ WorkerContinues(w)
      PROVE  \A t \in Threads \ {w} : Unmoved(t)
  <2>1. \E at, to, f : Step(w, at, to, f)
    BY <1>1 DEF WorkerBegins, WorkerContinues, BeginChallenge, BeginActivate,
                BeginTeardown, ReadOwner, ReadTime, IssueChallenge, Verify, Admit,
                Apply, Record, Undo, RecordFailed, TearDownNet, Mark, Answer
  <2>2. QED BY <1>0, <2>1, StepEffect
<1>2. ASSUME NEW d \in Daemons, DaemonContinues(d) PROVE \A t \in Threads \ {d} : Unmoved(t)
  <2>1. \E at, to, f : Step(d, at, to, f)
    BY <1>2 DEF DaemonContinues, List, Visit, EndRound, TearDownNet, Mark, Answer
  <2>2. QED BY <1>0, <2>1, StepEffect
<1>3. ASSUME Timer \in Daemons, Wake PROVE \A t \in Threads \ {Timer} : Unmoved(t)
  BY <1>0, <1>3, StepEffect DEF Wake
<1>4. ASSUME Watcher \in Daemons, NEW id \in Ids, Deliver(id)
      PROVE  \A t \in Threads \ {Watcher} : Unmoved(t)
  BY <1>0, <1>4, StepEffect DEF Deliver
<1>5. ASSUME UNCHANGED <<pc, frame>> PROVE \A t \in Threads : Unmoved(t)
  BY <1>5 DEF Unmoved
<1>6. CASE \E w \in Workers : WorkerBegins(w) \/ WorkerContinues(w)
  BY <1>0, <1>1, <1>6
<1>7. CASE TimerStep BY <1>0, <1>2, <1>3, <1>7 DEF TimerStep
<1>8. CASE WatcherStep
  <2>1. CASE \E id \in Ids : DeliveryFails(id) BY <1>5, <2>1 DEF DeliveryFails
  <2>2. QED BY <1>0, <1>2, <1>4, <1>8, <2>1 DEF WatcherStep
<1>9. CASE ChainStep \/ UNCHANGED vars
  BY <1>5, <1>9 DEF ChainStep, vars, controllerVars
<1>10. QED BY <1>6, <1>7, <1>8, <1>9 DEF Next

-----------------------------------------------------------------------------
(* What a request has found out, by the label it has reached. *)

Granted(view, now) ==
  /\ view.terms.start <= now /\ now < view.terms.end
  /\ ~view.revoked
  /\ view.terms.mapped /\ view.terms.service \in KNOWN_SERVICE_TYPES

Viewing(w) == \/ pc[w] \in {"owner", "time", "verify"} /\ frame[w].op = "activate"
              \/ pc[w] \in {"admit"} \cup InFlight

Knows(w) ==
  LET f == frame[w]
  IN  /\ Viewing(w) => f.view.terms = tickets[f.id].terms
      /\ pc[w] \in {"admit"} \cup InFlight => /\ f.nonce \in DOMAIN issued
                                            /\ issued[f.nonce].id = f.id
                                            /\ f.now <= issued[f.nonce].expires
      /\ pc[w] \in InFlight => Granted(f.view, f.now)
      /\ pc[w] \in {"net_down", "mark"}
           => f.op = "teardown" /\ f.signer \in Agents /\ f.signer = f.owner

ChallengesIssued ==
  \A n \in DOMAIN open : n \in DOMAIN issued /\ issued[n] = open[n]

Standing ==
  /\ StandsOnItsTicket
  /\ \A s \in DOMAIN sessions : sessions[s].nonce \in DOMAIN issued

TicketInv == (\A w \in Workers : Knows(w)) /\ ChallengesIssued /\ Standing

LEMMA KnowsStable ==
  ASSUME TypeInv, NEW w \in Workers, Knows(w), Unmoved(w), Grows PROVE Knows(w)'
<1>1. Viewing(w) => frame[w].id \in DOMAIN tickets
  BY DEF Threads, TypeInv, FramesOK, FrameOK, Viewing
<1>2. QED BY <1>1 DEF Knows, Viewing, Grows, Unmoved

LEMMA AnswerKnows ==
  ASSUME TypeInv, NEW w \in Workers, NEW at, Answer(w, at) PROVE Knows(w)'
<1>1. pc'[w] = "idle" BY StepEffect DEF Answer, TypeInv, Threads
<1>2. QED BY <1>1 DEF Knows, Viewing, InFlight

LEMMA KnowsStep ==
  ASSUME TypeInv, NEW w \in Workers, Knows(w), ChallengesIssued,
         WorkerBegins(w) \/ WorkerContinues(w)
  PROVE  Knows(w)'
<1> USE DEF Threads
<1>0. TypeOK /\ frame[w] \in Frames /\ FrameOK(w) BY DEF TypeInv, TypeOK, FramesOK
<1>1. ASSUME NEW id \in Ids, BeginChallenge(w, id) PROVE Knows(w)'
  <2> DEFINE f == [EmptyFrame EXCEPT !.op = "challenge", !.id = id]
  <2>1. f.op = "challenge" BY DEF EmptyFrame
  <2>2. pc'[w] = "time" /\ frame'[w] = f BY <1>0, <1>1, StepEffect DEF BeginChallenge
  <2> HIDE DEF f
  <2>3. QED BY <2>1, <2>2 DEF Knows, Viewing, InFlight
<1>2. ASSUME NEW id \in Ids, BeginActivate(w, id) PROVE Knows(w)'
  <2> DEFINE f == [EmptyFrame EXCEPT !.op = "activate", !.id = id, !.view = View(id)]
  <2>1. f.id = id /\ f.view.terms = tickets[id].terms BY DEF EmptyFrame, View
  <2>2. pc'[w] = "owner" /\ frame'[w] = f /\ tickets' = tickets
    BY <1>0, <1>2, StepEffect DEF BeginActivate, chainVars
  <2> HIDE DEF f
  <2>3. QED BY <2>1, <2>2 DEF Knows, Viewing, InFlight
<1>3. ASSUME NEW sid \in DOMAIN sessions, BeginTeardown(w, sid) PROVE Knows(w)'
  <2> DEFINE f == [EmptyFrame EXCEPT !.op = "teardown", !.sid = sid,
                                     !.id = Entitlement(sid)]
  <2>1. f.op = "teardown" BY DEF EmptyFrame
  <2>2. pc'[w] = "owner" /\ frame'[w] = f BY <1>0, <1>3, StepEffect DEF BeginTeardown
  <2> HIDE DEF f
  <2>3. QED BY <2>1, <2>2 DEF Knows, Viewing, InFlight
<1>4. CASE ReadOwner(w)
  <2> DEFINE f == [frame[w] EXCEPT !.owner = tickets[frame[w].id].owner]
  <2>1. f.op = frame[w].op /\ f.id = frame[w].id /\ f.view = frame[w].view
    BY <1>0 DEF Frames
  <2>2. pc[w] = "owner" /\ pc'[w] = "time" /\ frame'[w] = f /\ tickets' = tickets
    BY <1>0, <1>4, StepEffect DEF ReadOwner, chainVars
  <2> HIDE DEF f
  <2>3. QED BY <2>1, <2>2 DEF Knows, Viewing, InFlight
<1>5. CASE ReadTime(w)
  <2> DEFINE f == [frame[w] EXCEPT !.now = time]
  <2>1. f.op = frame[w].op /\ f.id = frame[w].id /\ f.view = frame[w].view
    BY <1>0 DEF Frames
  <2>2. PICK to \in {"issue", "verify"} : Step(w, "time", to, f) BY <1>5 DEF ReadTime
  <2>3. pc[w] = "time" /\ pc'[w] = to /\ frame'[w] = f /\ tickets' = tickets
    BY <1>0, <1>5, <2>2, StepEffect DEF ReadTime, chainVars
  <2> HIDE DEF f
  <2>4. QED BY <2>1, <2>3 DEF Knows, Viewing, InFlight
<1>6. ASSUME NEW n \in Nonces, IssueChallenge(w, n) PROVE Knows(w)'
  BY <1>6, AnswerKnows DEF IssueChallenge
<1>7. ASSUME NEW n \in Nonces, NEW signer \in Agents,
             NEW verb \in {"activate", "teardown"}, Verify(w, n, signer, verb)
      PROVE  Knows(w)'
  <2>1. CASE Answer(w, "verify") BY <2>1, AnswerKnows
  <2>2. CASE ~Answer(w, "verify")
    <3> DEFINE f == [frame[w] EXCEPT !.nonce = n, !.signer = signer]
               to == IF verb = "activate" THEN "admit" ELSE "net_down"
    <3>1. /\ f.op = frame[w].op /\ f.id = frame[w].id /\ f.view = frame[w].view
          /\ f.owner = frame[w].owner /\ f.now = frame[w].now
          /\ f.nonce = n /\ f.signer = signer
      BY <1>0 DEF Frames
    <3>2. Step(w, "verify", to, f) /\ ProofBinds(frame[w], n, signer, verb)
      BY <1>7, <2>2 DEF Verify
    <3>3. /\ pc[w] = "verify" /\ pc'[w] = to /\ frame'[w] = f
          /\ tickets' = tickets /\ issued' = issued
      BY <1>0, <1>7, <3>2, StepEffect DEF Verify, chainVars
    <3>4. \/ to = "admit" /\ verb = "activate"
          \/ to = "net_down" /\ verb = "teardown"
      OBVIOUS
    <3> HIDE DEF f, to
    <3>5. /\ n \in DOMAIN issued /\ issued[n].id = frame[w].id
          /\ frame[w].now <= issued[n].expires
          /\ signer = frame[w].owner /\ verb = frame[w].op
      BY <3>2 DEF ProofBinds, ChallengesIssued
    <3>6. CASE to = "admit" /\ verb = "activate"
      <4>1. frame[w].view.terms = tickets[frame[w].id].terms
        BY <3>3, <3>5, <3>6 DEF Knows, Viewing
      <4>2. QED BY <3>1, <3>3, <3>5, <3>6, <4>1 DEF Knows, Viewing, InFlight
    <3>7. CASE to = "net_down" /\ verb = "teardown"
      BY <3>1, <3>3, <3>5, <3>7 DEF Knows, Viewing, InFlight
    <3>8. QED BY <3>4, <3>6, <3>7
  <2>3. QED BY <2>1, <2>2
<1>8. ASSUME NEW kind \in DOMAIN ACTION_KINDS, Admit(w, kind) PROVE Knows(w)'
  <2>1. CASE Answer(w, "admit") BY <2>1, AnswerKnows
  <2>2. CASE ~Answer(w, "admit")
    <3> DEFINE f == [frame[w] EXCEPT !.sid = <<frame[w].id, seq>>]
    <3>1. /\ f.id = frame[w].id /\ f.view = frame[w].view /\ f.nonce = frame[w].nonce
          /\ f.now = frame[w].now
      BY <1>0 DEF Frames
    <3>2. /\ Step(w, "admit", "apply", f) /\ frame[w].view.terms.mapped
          /\ Predicate(frame[w].view, frame[w].owner, frame[w].owner, frame[w].now,
                       ActiveIds, kind) = "ok"
      BY <1>8, <2>2 DEF Admit
    <3>3. /\ pc[w] = "admit" /\ pc'[w] = "apply" /\ frame'[w] = f
          /\ tickets' = tickets /\ issued' = issued
      BY <1>0, <1>8, <3>2, StepEffect DEF Admit, chainVars
    <3> HIDE DEF f
    <3>4. frame[w].view \in Views /\ frame[w].now \in Nat
      BY <1>0, <3>3 DEF FrameOK
    <3>5. frame[w].view.terms.start \in Nat /\ frame[w].view.terms.end \in Nat
      BY <3>4, TermsAssumption DEF Views
    <3>6. Granted(frame[w].view, frame[w].now)
      BY <3>2, <3>4, <3>5 DEF Predicate, Granted
    <3>7. QED BY <3>1, <3>3, <3>6 DEF Knows, Viewing, InFlight
  <2>3. QED BY <2>1, <2>2
<1>9. CASE Apply(w) \/ Undo(w) \/ TearDownNet(w)
  <2>1. PICK at, to : /\ Step(w, at, to, frame[w])
                      /\ \/ at \in InFlight /\ to \in InFlight
                         \/ at = "net_down" /\ to = "mark"
    BY <1>9 DEF Apply, Undo, TearDownNet, InFlight
  <2>2. /\ pc[w] = at /\ pc'[w] = to /\ frame'[w] = frame[w]
        /\ tickets' = tickets /\ issued' = issued
    BY <1>0, <1>9, <2>1, StepEffect DEF Apply, Undo, TearDownNet, chainVars
  <2>3. QED BY <2>1, <2>2 DEF Knows, Viewing, InFlight
<1>10. CASE Record(w) BY <1>10, AnswerKnows DEF Record
<1>11. CASE RecordFailed(w) BY <1>11, AnswerKnows DEF RecordFailed
<1>12. CASE Mark(w) BY <1>12, AnswerKnows DEF Mark
<1>13. QED
  BY <1>1, <1>2, <1>3, <1>4, <1>5, <1>6, <1>7, <1>8, <1>9, <1>10, <1>11, <1>12
  DEF WorkerBegins, WorkerContinues

LEMMA ChallengesStep ==
  ASSUME TypeInv, ChallengesIssued, [Next]_vars PROVE ChallengesIssued'
<1>1. CASE UNCHANGED <<open, issued>> BY <1>1 DEF ChallengesIssued
<1>2. ASSUME NEW w \in Workers, NEW n \in Nonces, IssueChallenge(w, n)
      PROVE  ChallengesIssued'
  BY <1>2 DEF IssueChallenge, Put, ChallengesIssued
<1>3. ASSUME NEW w \in Workers, NEW n \in Nonces, NEW signer \in Agents,
             NEW verb \in {"activate", "teardown"}, Verify(w, n, signer, verb)
      PROVE  ChallengesIssued'
  BY <1>3 DEF Verify, Drop, ChallengesIssued
<1>4. ASSUME NEW w \in Workers, WorkerBegins(w) \/ WorkerContinues(w)
      PROVE  ChallengesIssued'
  BY <1>1, <1>2, <1>3, <1>4
  DEF WorkerBegins, WorkerContinues, BeginChallenge, BeginActivate, BeginTeardown,
      ReadOwner, ReadTime, Admit, Apply, Record, Undo, RecordFailed, TearDownNet, Mark
<1>5. ASSUME NEW d \in Daemons, DaemonContinues(d) PROVE ChallengesIssued'
  BY <1>1, <1>5 DEF DaemonContinues, List, Visit, EndRound, TearDownNet, Mark
<1>6. CASE TimerStep BY <1>1, <1>5, <1>6 DEF TimerStep, Wake
<1>7. CASE WatcherStep BY <1>1, <1>5, <1>7 DEF WatcherStep, Deliver, DeliveryFails
<1>8. CASE ChainStep BY <1>1, <1>8 DEF ChainStep
<1>9. CASE Restart BY <1>9 DEF Restart, ChallengesIssued
<1>10. CASE UNCHANGED vars BY <1>1, <1>10 DEF vars, controllerVars
<1>11. QED BY <1>4, <1>6, <1>7, <1>8, <1>9, <1>10 DEF Next

LEMMA StandingStep ==
  ASSUME TypeInv, TicketInv, [Next]_vars PROVE Standing'
<1> DEFINE Stands(s) ==
      LET terms == tickets[Entitlement(s)].terms
      IN  /\ sessions[s].nonce \in DOMAIN issued
          /\ issued[sessions[s].nonce].id = Entitlement(s)
          /\ sessions[s].since <= issued[sessions[s].nonce].expires
          /\ terms.start <= sessions[s].since /\ sessions[s].since < terms.end
          /\ sessions[s].expires = terms.end
          /\ terms.mapped /\ terms.service \in KNOWN_SERVICE_TYPES
<1>0. Grows BY GroundGrows
<1>1. ASSUME NEW s \in DOMAIN sessions, s \in DOMAIN sessions', Same(s) PROVE Stands(s)'
  <2>1. Stands(s) BY DEF TicketInv, Standing, StandsOnItsTicket
  <2>2. Entitlement(s) \in DOMAIN tickets BY DEF TypeInv, SessionsOK
  <2>3. tickets'[Entitlement(s)].terms = tickets[Entitlement(s)].terms
    BY <1>0, <2>2 DEF Grows
  <2>4. /\ sessions[s].nonce \in DOMAIN issued'
        /\ issued'[sessions[s].nonce] = issued[sessions[s].nonce]
    BY <1>0, <2>1 DEF Grows
  <2>5. QED BY <1>1, <2>1, <2>3, <2>4 DEF Same
<1>2. ASSUME NEW s \in DOMAIN sessions', Fresh(s) PROVE Stands(s)'
  <2>1. PICK w \in Workers, event \in {"provision_ok", "provision_failed"} :
          /\ pc[w] \in InFlight /\ s = frame[w].sid
          /\ sessions'[s] = NewSession(frame[w], event)
          /\ tickets' = tickets
    BY <1>2 DEF Fresh
  <2>2. /\ Entitlement(s) = frame[w].id
        /\ frame[w].id \in DOMAIN tickets
    BY <2>1 DEF Threads, TypeInv, FramesOK, FrameOK
  <2>3. /\ frame[w].view.terms = tickets[frame[w].id].terms
        /\ frame[w].nonce \in DOMAIN issued /\ issued[frame[w].nonce].id = frame[w].id
        /\ frame[w].now <= issued[frame[w].nonce].expires
        /\ Granted(frame[w].view, frame[w].now)
    BY <2>1 DEF TicketInv, Knows, Viewing
  <2>4. /\ frame[w].nonce \in DOMAIN issued'
        /\ issued'[frame[w].nonce].id = frame[w].id
        /\ frame[w].now <= issued'[frame[w].nonce].expires
    BY <1>0, <2>3 DEF Grows
  <2>5. /\ sessions'[s].nonce = frame[w].nonce /\ sessions'[s].since = frame[w].now
        /\ sessions'[s].expires = frame[w].view.terms.end
    BY <2>1 DEF NewSession
  <2>6. QED BY <2>1, <2>2, <2>3, <2>4, <2>5 DEF Granted
<1>3. \A s \in DOMAIN sessions' : Stands(s)' BY <1>1, <1>2, Origin
<1>4. QED BY <1>3 DEF Standing, StandsOnItsTicket

LEMMA TicketStep ==
  ASSUME TypeInv, TicketInv, [Next]_vars PROVE TicketInv'
<1>1. ASSUME NEW w \in Workers PROVE Knows(w)'
  <2>1. CASE Restart BY <2>1 DEF Restart, Threads, Knows, Viewing, InFlight
  <2>2. CASE ~Restart
    BY <2>2, WhoMoves, GroundGrows, KnowsStable, KnowsStep DEF TicketInv
  <2>3. QED BY <2>1, <2>2
<1>2. QED BY <1>1, ChallengesStep, StandingStep DEF TicketInv

LEMMA TicketInvariant == Spec => []TicketInv
<1>1. Init => TicketInv
  BY DEF Init, TicketInv, Knows, Viewing, InFlight, Threads, ChallengesIssued,
         Standing, StandsOnItsTicket
<1>2. TypeInv /\ TicketInv /\ [Next]_vars => TicketInv' BY TicketStep
<1>3. QED BY <1>1, <1>2, TypeInvariant, PTL DEF Spec

\* Every session was admitted with a challenge issued for its own ticket and not
\* yet stale, at a time inside the window of the terms the chain has for it, and
\* expires when that window does: with any number of threads, failures and restarts.
THEOREM TermsFromChain == Spec => []StandsOnItsTicket
<1>1. TicketInv => StandsOnItsTicket BY DEF TicketInv, Standing
<1>2. QED BY <1>1, TicketInvariant, PTL

-----------------------------------------------------------------------------
(* What a daemon has found out, and why it ends a session. *)

Ending(d) == pc[d] \in {"net_down", "mark"}

DaemonKnows(d) ==
  LET f == frame[d]
  IN  pc[d] # "idle" =>
        /\ f.op = "expiry" => /\ f.now \in Nat /\ f.now <= time
                              /\ Ending(d) => f.now >= sessions[f.sid].expires
        /\ f.op = "revocation" => /\ f.id \in DOMAIN tickets /\ tickets[f.id].revoked
                                  /\ Ending(d) => Entitlement(f.sid) = f.id

LEMMA DaemonStable ==
  ASSUME TypeInv, SidsApart, [Next]_vars, ~Restart,
         NEW d \in Daemons, DaemonKnows(d), Unmoved(d)
  PROVE  DaemonKnows(d)'
<1>1. Grows BY GroundGrows
<1>2. Ending(d) => /\ frame[d].sid \in DOMAIN sessions
                   /\ sessions'[frame[d].sid].expires = sessions[frame[d].sid].expires
  BY Lasting DEF Ending, Threads, TypeInv, FramesOK, FrameOK, Same
<1>3. QED BY <1>1, <1>2 DEF DaemonKnows, Ending, Unmoved, Grows

LEMMA DaemonGoesOn ==
  ASSUME TypeInv, SidsApart, [Next]_vars, ~Restart,
         NEW d \in Daemons, DaemonKnows(d), DaemonContinues(d)
  PROVE  DaemonKnows(d)'
<1> USE DEF Threads
<1>0. TypeOK /\ frame[d] \in Frames /\ FrameOK(d) BY DEF TypeInv, TypeOK, FramesOK
<1>00. d \notin Workers BY DaemonsAssumption
<1>1. CASE EndRound(d)
  <2>1. pc'[d] = "idle" BY <1>0, <1>1, StepEffect DEF EndRound, Answer
  <2>2. QED BY <2>1 DEF DaemonKnows
<1>2. CASE List(d)
  <2> DEFINE f == [frame[d] EXCEPT !.todo = {s \in DOMAIN sessions : Ripe(d, s)}]
  <2>1. f.op = frame[d].op /\ f.id = frame[d].id /\ f.now = frame[d].now
    BY <1>0 DEF Frames
  <2>2. /\ pc[d] = "list" /\ pc'[d] = "loop" /\ frame'[d] = f
        /\ tickets' = tickets /\ time' = time
    BY <1>0, <1>2, StepEffect DEF List, chainVars
  <2> HIDE DEF f
  <2>3. QED BY <2>1, <2>2 DEF DaemonKnows, Ending
<1>3. ASSUME NEW sid, Visit(d, sid) PROVE DaemonKnows(d)'
  <2> DEFINE rest == [frame[d] EXCEPT !.todo = @ \ {sid}]
             named == [rest EXCEPT !.sid = sid]
  <2>1. \A f \in {rest, named} : /\ f.op = frame[d].op /\ f.id = frame[d].id
                                 /\ f.now = frame[d].now
    BY <1>0 DEF Frames
  <2>2. named.sid = sid BY <1>0 DEF Frames
  <2>3. \/ Ripe(d, sid) /\ Step(d, "loop", "net_down", named)
        \/ Step(d, "loop", "loop", rest)
    BY <1>3 DEF Visit
  <2>4. tickets' = tickets /\ time' = time /\ sessions' = sessions
    BY <1>3 DEF Visit, chainVars
  <2> HIDE DEF rest, named
  <2>5. CASE Ripe(d, sid) /\ Step(d, "loop", "net_down", named)
    <3>1. pc[d] = "loop" /\ pc'[d] = "net_down" /\ frame'[d] = named
      BY <1>0, <2>5, StepEffect
    <3>2. /\ frame[d].op = "expiry" => frame[d].now >= sessions[sid].expires
          /\ frame[d].op = "revocation" => Entitlement(sid) = frame[d].id
      BY <2>5 DEF Ripe
    <3>3. QED BY <2>1, <2>2, <2>4, <3>1, <3>2 DEF DaemonKnows, Ending
  <2>6. CASE Step(d, "loop", "loop", rest)
    <3>1. pc[d] = "loop" /\ pc'[d] = "loop" /\ frame'[d] = rest
      BY <1>0, <2>6, StepEffect
    <3>2. QED BY <2>1, <2>4, <3>1 DEF DaemonKnows, Ending
  <2>7. QED BY <2>3, <2>5, <2>6
<1>4. CASE TearDownNet(d)
  <2>1. /\ pc[d] = "net_down" /\ pc'[d] = "mark" /\ frame'[d] = frame[d]
        /\ tickets' = tickets /\ time' = time /\ sessions' = sessions
    BY <1>0, <1>4, StepEffect DEF TearDownNet, chainVars
  <2>2. QED BY <2>1 DEF DaemonKnows, Ending
<1>5. CASE Mark(d)
  <2> DEFINE f == [frame[d] EXCEPT !.sid = Null]
  <2>1. f.op = frame[d].op /\ f.id = frame[d].id /\ f.now = frame[d].now
    BY <1>0 DEF Frames
  <2>2. Step(d, "mark", "loop", f) /\ tickets' = tickets /\ time' = time
    BY <1>00, <1>5 DEF Mark, chainVars
  <2>3. pc[d] = "mark" /\ pc'[d] = "loop" /\ frame'[d] = f BY <1>0, <2>2, StepEffect
  <2> HIDE DEF f
  <2>4. QED BY <2>1, <2>2, <2>3 DEF DaemonKnows, Ending
<1>6. QED BY <1>1, <1>2, <1>3, <1>4, <1>5 DEF DaemonContinues

LEMMA DaemonBegins ==
  ASSUME TypeInv, NEW d \in Daemons,
         (d = Timer /\ Wake) \/ (d = Watcher /\ \E id \in Ids : Deliver(id))
  PROVE  DaemonKnows(d)'
<1> USE DEF Threads
<1>0. TypeOK /\ time \in Nat
  BY TimeAssumption DEF TypeInv, TypeOK, ChainTypeOK
<1>1. CASE d = Timer /\ Wake
  <2> DEFINE f == [EmptyFrame EXCEPT !.op = "expiry", !.now = time]
  <2>1. f.op = "expiry" /\ f.now = time BY DEF EmptyFrame
  <2>2. pc'[d] = "list" /\ frame'[d] = f /\ time' = time
    BY <1>0, <1>1, StepEffect DEF Wake, chainVars
  <2> HIDE DEF f
  <2>3. QED BY <1>0, <2>1, <2>2 DEF DaemonKnows, Ending
<1>2. ASSUME d = Watcher, NEW id \in Ids, Deliver(id) PROVE DaemonKnows(d)'
  <2> DEFINE f == [EmptyFrame EXCEPT !.op = "revocation", !.id = id]
  <2>1. f.op = "revocation" /\ f.id = id BY DEF EmptyFrame
  <2>2. /\ pc'[d] = "list" /\ frame'[d] = f /\ tickets' = tickets
        /\ id \in DOMAIN tickets /\ tickets[id].revoked
    BY <1>0, <1>2, StepEffect DEF Deliver, Readable, chainVars
  <2> HIDE DEF f
  <2>3. QED BY <2>1, <2>2 DEF DaemonKnows, Ending
<1>3. QED BY <1>1, <1>2

DaemonsKnow == \A d \in Daemons : DaemonKnows(d)

LEMMA DaemonsStep ==
  ASSUME TypeInv, SidsApart, DaemonsKnow, [Next]_vars PROVE DaemonsKnow'
<1>1. CASE Restart BY <1>1 DEF Restart, Threads, DaemonsKnow, DaemonKnows
<1>2. ASSUME ~Restart, NEW d \in Daemons PROVE DaemonKnows(d)'
  BY <1>2, WhoMoves, DaemonStable, DaemonGoesOn, DaemonBegins DEF DaemonsKnow
<1>3. QED BY <1>1, <1>2 DEF DaemonsKnow

LEMMA DaemonsInvariant == Spec => []DaemonsKnow
<1>1. Init => DaemonsKnow BY DEF Init, DaemonsKnow, DaemonKnows, Threads
<1>2. TypeInv /\ SidsApart /\ DaemonsKnow /\ [Next]_vars => DaemonsKnow'
  BY DaemonsStep
<1>3. QED BY <1>1, <1>2, TypeInvariant, SidsApartInvariant, PTL DEF Spec

LEMMA MarkHasCause ==
  ASSUME TypeInv, TicketInv, DaemonsKnow, NEW t \in Threads, pc[t] = "mark"
  PROVE  Cause(frame[t].sid)
<1>0. FrameOK(t) /\ frame[t].sid \in DOMAIN sessions
  BY DEF TypeInv, FramesOK, FrameOK
<1>1. CASE t \in Workers
  BY <1>1, NullAssumption DEF TicketInv, Knows, Cause
<1>2. CASE t \in Daemons
  <2>1. DaemonKnows(t) BY <1>2 DEF DaemonsKnow
  <2>2. frame[t].op \in {"expiry", "revocation"} BY <1>0, <1>2 DEF FrameOK
  <2>3. CASE frame[t].op = "expiry"
    <3>1. /\ frame[t].now \in Nat /\ frame[t].now <= time
          /\ frame[t].now >= sessions[frame[t].sid].expires
      BY <2>1, <2>3 DEF DaemonKnows, Ending
    <3>2. sessions[frame[t].sid].expires \in Nat /\ time \in Nat
      BY <1>0, TimeAssumption DEF TypeInv, TypeOK, ChainTypeOK, Session
    <3>3. QED BY <3>1, <3>2 DEF Cause
  <2>4. CASE frame[t].op = "revocation"
    BY <2>1, <2>4 DEF DaemonKnows, Ending, Cause
  <2>5. QED BY <2>2, <2>3, <2>4
<1>3. QED BY <1>1, <1>2 DEF Threads

\* While the process lives, a session ends because its window is over, its
\* ticket is revoked, or the owner the controller read signed a teardown of it:
\* never for what another ticket, another owner or an old reading said.
THEOREM NoOtherCause == ~CanRestart => (Spec => EndsOnlyForCause)
<1> SUFFICES ASSUME ~CanRestart PROVE Spec => EndsOnlyForCause OBVIOUS
<1> DEFINE ForCause == \A s \in DOMAIN sessions :
                         Active(s) /\ sessions'[s].state # "active" => Cause(s)
<1>1. ASSUME TypeInv, SidsApart, TicketInv, DaemonsKnow, [Next]_vars PROVE ForCause
  <2>1. CASE sessions' = sessions BY <2>1 DEF Active
  <2>2. ASSUME NEW w \in Workers, NEW event \in {"provision_ok", "provision_failed"},
               Records(w, event)
        PROVE  ForCause
    <3>1. frame[w].sid \notin DOMAIN sessions
      BY <1>1, <2>2 DEF Records, SidsApart, InFlight
    <3>2. QED BY <2>2, <3>1 DEF Records, Active
  <2>3. ASSUME NEW t \in Threads, Marks(t) PROVE ForCause
    <3>1. Cause(frame[t].sid) BY <1>1, <2>3, MarkHasCause DEF Marks
    <3>2. \A s \in DOMAIN sessions \ {frame[t].sid} : sessions'[s] = sessions[s]
      BY <2>3 DEF Marks
    <3>3. QED BY <3>1, <3>2 DEF Active
  <2>4. ASSUME NEW w \in Workers, NEW kind \in DOMAIN ACTION_KINDS, Admit(w, kind)
        PROVE  sessions' = sessions
    BY <2>4 DEF Admit
  <2>5. ASSUME NEW w \in Workers, Apply(w) \/ Undo(w) PROVE sessions' = sessions
    BY <2>5 DEF Apply, Undo
  <2>6. ASSUME NEW t \in Threads, TearDownNet(t) PROVE sessions' = sessions
    BY <2>6 DEF TearDownNet
  <2>7. CASE Quiet BY <2>1, <2>7 DEF Quiet
  <2> HIDE DEF ForCause
  <2>8. CASE Loud
    BY <1>1, <2>1, <2>2, <2>3, <2>4, <2>5, <2>6, <2>8, RecordEffect, MarkEffect
    DEF Loud, Restart
  <2>9. QED BY <1>1, <2>7, <2>8, QuietOrLoud
<1>2. TypeInv /\ SidsApart /\ TicketInv /\ DaemonsKnow /\ [Next]_vars => [ForCause]_vars
  BY <1>1
<1>3. QED
  BY <1>2, TypeInvariant, SidsApartInvariant, TicketInvariant, DaemonsInvariant, PTL
  DEF Spec, EndsOnlyForCause

-----------------------------------------------------------------------------
(* Where a revocation is on its way to the sessions of its ticket. *)

Pending(s) ==
  \/ Entitlement(s) \in undelivered
  \/ /\ frame[Watcher].op = "revocation" /\ frame[Watcher].id = Entitlement(s)
     /\ \/ pc[Watcher] = "list"
        \/ pc[Watcher] \in {"loop", "net_down", "mark"} /\ s \in frame[Watcher].todo
        \/ pc[Watcher] \in {"net_down", "mark"} /\ frame[Watcher].sid = s

Missed(s) == Active(s) /\ tickets[Entitlement(s)].revoked /\ ~sessions[s].late

Tracked == \A s \in DOMAIN sessions : Missed(s) => Pending(s)

Heard == Watcher \in Daemons /\ "callback" \notin Failures

\* A new session is not missed: the request saw the ticket unrevoked.
LEMMA FreshIsLate ==
  ASSUME TypeInv, TicketInv, NEW s, Fresh(s), tickets'[Entitlement(s)].revoked
  PROVE  sessions'[s].late
<1>1. PICK w \in Workers, event \in {"provision_ok", "provision_failed"} :
        /\ pc[w] \in InFlight /\ s = frame[w].sid
        /\ sessions'[s] = NewSession(frame[w], event)
        /\ tickets' = tickets
  BY DEF Fresh
<1>2. Entitlement(s) = frame[w].id BY <1>1 DEF Threads, TypeInv, FramesOK, FrameOK
<1>3. ~frame[w].view.revoked BY <1>1 DEF TicketInv, Knows, Granted
<1>4. tickets[frame[w].id].revoked BY <1>1, <1>2
<1>5. tickets[frame[w].id].revoked /\ ~frame[w].view.revoked BY <1>3, <1>4
<1> DEFINE fresh == tickets[frame[w].id].revoked /\ ~frame[w].view.revoked
<1>6. NewSession(frame[w], event).late = fresh BY DEF NewSession
<1>7. sessions'[s].late = fresh BY <1>1, <1>6
<1>8. QED BY <1>5, <1>7

\* A ticket that has a session can be read, so its events are not dropped.
LEMMA SessionReadable ==
  ASSUME TypeInv, TicketInv, NEW s \in DOMAIN sessions
  PROVE  Readable(Entitlement(s))
BY DEF TypeInv, SessionsOK, TicketInv, Standing, StandsOnItsTicket, Readable

\* The watcher does not lose a session between the event and its end.
LEMMA WatcherPasses ==
  ASSUME TypeInv, Heard, NEW s \in DOMAIN sessions, Active(s),
         s \in DOMAIN sessions', Active(s)', Pending(s), Entitlement(s) \notin undelivered,
         DaemonContinues(Watcher)
  PROVE  Pending(s)'
<1> USE DEF Threads, Heard
<1>0. /\ TypeOK /\ frame[Watcher] \in Frames /\ Watcher \notin Workers
  BY DaemonsAssumption DEF TypeInv, TypeOK
<1>1. /\ frame[Watcher].op = "revocation" /\ frame[Watcher].id = Entitlement(s)
      /\ \/ pc[Watcher] = "list"
         \/ pc[Watcher] \in {"loop", "net_down", "mark"} /\ s \in frame[Watcher].todo
         \/ pc[Watcher] \in {"net_down", "mark"} /\ frame[Watcher].sid = s
  BY DEF Pending
<1>2. CASE List(Watcher)
  <2> DEFINE ripe == {x \in DOMAIN sessions : Ripe(Watcher, x)}
             f == [frame[Watcher] EXCEPT !.todo = ripe]
  <2>1. s \in ripe BY <1>1 DEF Ripe
  <2> HIDE DEF ripe
  <2>2. f.op = frame[Watcher].op /\ f.id = frame[Watcher].id /\ f.todo = ripe
    BY <1>0 DEF Frames
  <2>3. Step(Watcher, "list", "loop", f) BY <1>2 DEF List, ripe
  <2> HIDE DEF f
  <2>4. pc'[Watcher] = "loop" /\ frame'[Watcher] = f BY <1>0, <2>3, StepEffect
  <2>5. QED BY <1>1, <2>1, <2>2, <2>4 DEF Pending
<1>3. ASSUME NEW sid \in frame[Watcher].todo, Visit(Watcher, sid) PROVE Pending(s)'
  <2> DEFINE rest == [frame[Watcher] EXCEPT !.todo = @ \ {sid}]
             named == [rest EXCEPT !.sid = sid]
  <2>1. \A f \in {rest, named} : /\ f.op = frame[Watcher].op /\ f.id = frame[Watcher].id
                                 /\ f.todo = frame[Watcher].todo \ {sid}
    BY <1>0 DEF Frames
  <2>2. named.sid = sid BY <1>0 DEF Frames
  <2>3. \/ Step(Watcher, "loop", "net_down", named)
        \/ ~Ripe(Watcher, sid) /\ Step(Watcher, "loop", "loop", rest)
    BY <1>3 DEF Visit
  <2> HIDE DEF rest, named
  <2>4. CASE Step(Watcher, "loop", "net_down", named)
    <3>1. pc[Watcher] = "loop" /\ pc'[Watcher] = "net_down" /\ frame'[Watcher] = named
      BY <1>0, <2>4, StepEffect
    <3>2. QED BY <1>1, <2>1, <2>2, <3>1 DEF Pending
  <2>5. CASE ~Ripe(Watcher, sid) /\ Step(Watcher, "loop", "loop", rest)
    <3>1. pc[Watcher] = "loop" /\ pc'[Watcher] = "loop" /\ frame'[Watcher] = rest
      BY <1>0, <2>5, StepEffect
    <3>2. sid # s BY <1>1, <2>5 DEF Ripe
    <3>3. QED BY <1>1, <2>1, <3>1, <3>2 DEF Pending
  <2>6. QED BY <2>3, <2>4, <2>5
<1>4. CASE EndRound(Watcher)
  <2>1. pc[Watcher] = "loop" /\ frame[Watcher].todo = {}
    BY <1>0, <1>4, StepEffect DEF EndRound, Answer
  <2>2. QED BY <1>1, <2>1
<1>5. CASE TearDownNet(Watcher)
  <2>1. pc[Watcher] = "net_down" /\ pc'[Watcher] = "mark" /\ frame'[Watcher] = frame[Watcher]
    BY <1>0, <1>5, StepEffect DEF TearDownNet
  <2>2. QED BY <1>1, <2>1 DEF Pending
<1>6. CASE Mark(Watcher)
  <2> DEFINE f == [frame[Watcher] EXCEPT !.sid = Null]
  <2>1. f.op = frame[Watcher].op /\ f.id = frame[Watcher].id /\ f.todo = frame[Watcher].todo
    BY <1>0 DEF Frames
  <2>2. Step(Watcher, "mark", "loop", f) BY <1>0, <1>6 DEF Mark
  <2>3. pc[Watcher] = "mark" /\ pc'[Watcher] = "loop" /\ frame'[Watcher] = f
    BY <1>0, <2>2, StepEffect
  <2> HIDE DEF f
  <2>4. s # frame[Watcher].sid BY <1>6, MarkEffect DEF Marks, Active
  <2>5. QED BY <1>1, <2>1, <2>3, <2>4 DEF Pending
<1>7. QED BY <1>2, <1>3, <1>4, <1>5, <1>6 DEF DaemonContinues

\* An event leaves the queue only for the watcher's hands.
LEMMA EventStays ==
  ASSUME TypeInv, Heard, [Next]_vars, ~Restart, NEW id \in undelivered, Readable(id)
  PROVE  \/ id \in undelivered'
         \/ /\ pc'[Watcher] = "list" /\ frame'[Watcher].op = "revocation"
            /\ frame'[Watcher].id = id
<1>1. CASE undelivered \subseteq undelivered' BY <1>1
<1>2. ASSUME NEW i \in Ids, DeliveryFails(i) PROVE id \in undelivered'
  BY <1>2 DEF DeliveryFails, Heard
<1>3. ASSUME NEW i \in Ids, Deliver(i)
      PROVE  \/ id \in undelivered'
             \/ /\ pc'[Watcher] = "list" /\ frame'[Watcher].op = "revocation"
                /\ frame'[Watcher].id = id
  <2> DEFINE f == [EmptyFrame EXCEPT !.op = "revocation", !.id = i]
  <2>1. f.op = "revocation" /\ f.id = i BY DEF EmptyFrame
  <2>2. Step(Watcher, "idle", "list", f) /\ undelivered' = undelivered \ {i}
    BY <1>3 DEF Deliver
  <2> HIDE DEF f
  <2>3. pc'[Watcher] = "list" /\ frame'[Watcher] = f
    BY <2>2, StepEffect DEF Heard, Threads, TypeInv
  <2>4. QED BY <2>1, <2>2, <2>3
<1>4. ASSUME NEW w \in Workers, WorkerBegins(w) \/ WorkerContinues(w)
      PROVE  undelivered' = undelivered
  BY <1>4
  DEF WorkerBegins, WorkerContinues, BeginChallenge, BeginActivate, BeginTeardown,
      ReadOwner, ReadTime, IssueChallenge, Verify, Admit, Apply, Record, Undo,
      RecordFailed, TearDownNet, Mark
<1>5. ASSUME NEW d \in Daemons, DaemonContinues(d) PROVE undelivered' = undelivered
  BY <1>5 DEF DaemonContinues, List, Visit, EndRound, TearDownNet, Mark
<1>6. CASE TimerStep BY <1>1, <1>5, <1>6 DEF TimerStep, Wake
<1>7. CASE WatcherStep BY <1>1, <1>2, <1>3, <1>5, <1>7 DEF WatcherStep
<1>8. CASE ChainStep BY <1>1, <1>8 DEF ChainStep
<1>9. CASE UNCHANGED vars BY <1>1, <1>9 DEF vars, controllerVars
<1>10. QED BY <1>1, <1>4, <1>6, <1>7, <1>8, <1>9 DEF Next

\* Whoever is revoked by this step is in the queue after it.
LEMMA RevokedIsQueued ==
  ASSUME TypeInv, Heard, [Next]_vars, NEW id \in DOMAIN tickets,
         ~tickets[id].revoked, tickets'[id].revoked
  PROVE  id \in undelivered'
<1>0. tickets[id] \in Ticket BY DEF TypeInv, TypeOK, ChainTypeOK
<1>1. tickets' # tickets OBVIOUS
<1>2. ChainStep
  BY <1>1
  DEF Next, vars, chainVars, controllerVars, WorkerBegins, WorkerContinues,
      BeginChallenge, BeginActivate, BeginTeardown, ReadOwner, ReadTime, IssueChallenge,
      Verify, Admit, Apply, Record, Undo, RecordFailed, TearDownNet, Mark, TimerStep,
      WatcherStep, Wake, Deliver, DeliveryFails, DaemonContinues, List, Visit, EndRound,
      Restart
<1>3. ASSUME NEW i \in Ids, NEW a \in Agents, NEW t \in Terms, Mint(i, a, t) PROVE FALSE
  BY <1>3 DEF Mint
<1>4. ASSUME NEW i \in Ids, NEW a \in Agents, Transfer(i, a) PROVE FALSE
  <2> DEFINE sold == [tickets[id] EXCEPT !.owner = a]
  <2>1. sold.revoked = tickets[id].revoked BY <1>0 DEF Ticket
  <2>2. tickets'[id] = tickets[id] \/ tickets'[id] = sold BY <1>4 DEF Transfer
  <2> HIDE DEF sold
  <2>3. QED BY <2>1, <2>2
<1>5. ASSUME NEW i \in Ids, Revoke(i) PROVE i = id
  BY <1>5 DEF Revoke
<1>6. CASE Advance BY <1>1, <1>6 DEF Advance
<1>7. QED BY <1>2, <1>3, <1>4, <1>5, <1>6 DEF ChainStep, Heard

LEMMA TrackedStep ==
  ASSUME Heard, TypeInv, TicketInv, Tracked, [Next]_vars PROVE Tracked'
<1> SUFFICES ASSUME NEW s \in DOMAIN sessions', Missed(s)' PROVE Pending(s)'
  BY DEF Tracked
<1>1. ~Restart BY DEF Restart
<1>2. s \in DOMAIN sessions /\ Same(s)
  BY Origin, FreshIsLate DEF Missed
<1>3. /\ Active(s) /\ Active(s)' /\ ~sessions[s].late
      /\ Entitlement(s) \in DOMAIN tickets /\ tickets'[Entitlement(s)].revoked
  BY <1>2 DEF Missed, Same, Active, TypeInv, SessionsOK
<1>4. CASE ~tickets[Entitlement(s)].revoked
  BY <1>3, <1>4, RevokedIsQueued DEF Pending
<1>5. CASE tickets[Entitlement(s)].revoked
  <2>1. Pending(s) BY <1>2, <1>3, <1>5 DEF Tracked, Missed
  <2>2. CASE Entitlement(s) \in undelivered
    BY <1>1, <1>2, <2>2, SessionReadable, EventStays DEF Pending
  <2>3. CASE Entitlement(s) \notin undelivered
    <3>1. pc[Watcher] # "idle" BY <2>1, <2>3 DEF Pending
    <3>2. CASE Unmoved(Watcher) BY <2>1, <2>3, <3>2 DEF Pending, Unmoved
    <3>3. CASE DaemonContinues(Watcher)
      BY <1>2, <1>3, <2>1, <2>3, <3>3, WatcherPasses
    <3>4. ~\E id \in Ids : Deliver(id) BY <3>1 DEF Deliver, Step
    <3>5. Watcher # Timer BY DEF Watcher, Timer
    <3>6. QED BY <1>1, <3>2, <3>3, <3>4, <3>5, WhoMoves DEF Heard
  <2>4. QED BY <2>2, <2>3
<1>6. QED BY <1>4, <1>5

\* If the watcher runs and no callback fails, a live session of a revoked ticket
\* either is about to be ended or comes of a request that read the ticket before
\* the revocation and recorded after it: for any number of threads, with failing
\* routers and across restarts.
THEOREM OnlyLateSessionsSlipThrough == Heard => (Spec => []RevocationMissesOnlyLateSessions)
<1> SUFFICES ASSUME Heard PROVE Spec => []RevocationMissesOnlyLateSessions OBVIOUS
<1>1. Init => Tracked BY DEF Init, Tracked
<1>2. TypeInv /\ TicketInv /\ Tracked /\ [Next]_vars => Tracked' BY TrackedStep
<1>3. Tracked => RevocationMissesOnlyLateSessions
  BY DEF Tracked, Missed, Pending, RevocationMissesOnlyLateSessions, DealingWith
<1>4. QED BY <1>1, <1>2, <1>3, TypeInvariant, TicketInvariant, PTL DEF Spec
=============================================================================
