--------------------------- MODULE ConsoleProofs ---------------------------
(***************************************************************************)
(* Proofs about Console: no slot is given back too early or twice, and a   *)
(* console that does one thing at a time loses no config.                  *)
(***************************************************************************)
EXTENDS Console, FiniteSetTheorems, SequenceTheorems, TLAPS

\* What the worker carries.
Job == [step : Steps, eid : 0..MaxTickets, session : Name \cup {NoSession}]

At(steps) == work.step \in steps

Of(S) == {s.eid : s \in S}

\* Without a stack there is nothing on it; session names follow the tickets.
StackInv ==
  /\ built => anvil
  /\ anvil => stacks >= 1
  /\ ~Up => minted = 0 /\ held = 0 /\ seq = 0 /\ active = {}
  /\ seq <= minted
  /\ Of(active) \subseteq 1..minted
  /\ \A s, t \in active : s.eid = t.eid => s = t

\* What the worker may count on at its step, as long as its stack is there.
WorkInv ==
  /\ work = Idle \/ work \in Job
  /\ At({"activate", "apply", "record", "revoke", "handle", "show", "forget", "release"}) =>
       work.eid >= 1
  /\ At({"apply", "record"}) => work.session \in Name /\ work.session.eid = work.eid
  /\ Up /\ At({"activate", "apply", "record"}) => work.eid = minted
  /\ Up /\ At({"activate"}) => seq < minted
  /\ Up /\ At({"activate", "apply"}) => work.eid \notin Of(active)
  /\ Up /\ At({"revoke"}) => work.eid \in Of(named)
  /\ Up /\ At({"handle", "show", "forget", "release"}) => work.eid <= minted
  /\ Up /\ At({"show", "forget", "release"}) => work.eid \notin Of(active)
  /\ Up /\ At({"release"}) => work.eid \notin Of(named)

\* The tickets that have a slot: what the console lists, what is active, and what
\* the worker is at.  An offer that waits for its buyer has one too.
Covered ==
  Of(active) \cup (Of(named) \cap 1..minted)
    \cup (IF Up /\ At({"activate", "apply", "record", "handle", "show", "forget", "release"})
          THEN {work.eid} ELSE {})

Pending == IF Up /\ At({"decide", "settle"}) THEN 1 ELSE 0

SlotsInv == Cardinality(Covered) + Pending <= held

\* Without a reset beside an action, the worker has the stack it began with.
AloneInv ==
  ~crossed =>
    /\ resetting = NoReset \/ work = Idle
    /\ ~Up => named = {}
    /\ At({"decide", "settle", "activate", "apply", "record",
           "handle", "show", "forget", "release"}) => Up
    /\ At({"apply", "record"}) => work.session.stack = stacks
    /\ \A s \in named : s.stack = stacks /\ s.eid <= minted
    /\ At({"activate", "apply", "record"}) => work.eid \notin Of(named)

\* And if the router does as it is told, what it has is active, and listed.
CleanInv ==
  ~crossed /\ ~refused =>
    /\ router \subseteq active
    /\ router \subseteq named \cup (IF At({"record"}) THEN {work.session} ELSE {})
    /\ resetting # NoReset => router = {}

ConsoleInv == TypeOK /\ StackInv /\ WorkInv /\ SlotsInv /\ AloneInv /\ CleanInv

-----------------------------------------------------------------------------
(* Facts about the parts. *)

LEMMA IdleIs ==
  ASSUME WorkInv
  PROVE  /\ work = Idle <=> work.step = "idle"
         /\ work # Idle => work \in Job
BY DEF WorkInv, Idle, Job, Steps

LEMMA JobTo ==
  ASSUME work \in Job, NEW step \in Steps, To(step)
  PROVE  /\ work' \in Job /\ work'.step = step
         /\ work'.eid = work.eid /\ work'.session = work.session
BY DEF Job, To

\* The console lists an id once it knows it.
LEMMA ListedFacts ==
  ASSUME known \in Seq(1..MaxTickets), NEW eid \in 1..MaxTickets
  PROVE  /\ Listed(eid) \in Seq(1..MaxTickets)
         /\ {known[i] : i \in DOMAIN known} \cup {eid}
              \subseteq {Listed(eid)[i] : i \in DOMAIN Listed(eid)}
<1>1. CASE \E i \in DOMAIN known : known[i] = eid
  BY <1>1 DEF Listed
<1>2. CASE ~ \E i \in DOMAIN known : known[i] = eid
  <2>1. Listed(eid) = Append(known, eid) BY <1>2 DEF Listed
  <2>2. PICK n : n = Len(known) + 1 OBVIOUS
  <2>3. /\ Append(known, eid) \in Seq(1..MaxTickets)
        /\ DOMAIN Append(known, eid) = 1..n
        /\ Append(known, eid)[n] = eid
        /\ n \in Nat \ {0}
        /\ \A i \in DOMAIN known : i \in 1..n /\ Append(known, eid)[i] = known[i]
    BY <2>2
  <2>4. QED BY <2>1, <2>3
<1>3. QED BY <1>1, <1>2

LEMMA CoveredFacts ==
  ASSUME TypeOK, StackInv, WorkInv
  PROVE  /\ Covered \subseteq 1..minted
         /\ IsFiniteSet(Covered) /\ Cardinality(Covered) \in Nat
         /\ Pending \in {0, 1} /\ held \in Nat /\ minted \in Nat
<1>1. minted \in Nat /\ held \in Nat BY ConsoleAssumption DEF TypeOK
<1>2. Up /\ At({"activate", "apply", "record", "handle", "show", "forget", "release"})
        => work.eid \in 1..minted
  <2>1. ASSUME Up, At({"activate", "apply", "record", "handle", "show", "forget", "release"})
        PROVE  work.eid \in 1..minted
    <3>1. work \in Job BY <2>1, IdleIs DEF At
    <3>2. work.eid >= 1 /\ work.eid <= minted BY <1>1, <2>1, <3>1 DEF WorkInv, At, Job
    <3>3. work.eid \in Int BY <3>1 DEF Job
    <3>4. QED BY <1>1, <3>2, <3>3
  <2>2. QED BY <2>1
<1>3. Covered \subseteq 1..minted BY <1>2 DEF Covered, StackInv
<1>4. IsFiniteSet(1..minted) BY <1>1, FS_Interval
<1>5. QED BY <1>1, <1>3, <1>4, FS_Subset, FS_CardinalityType DEF Pending

\* Steps that give no slot away.
LEMMA SlotsKept ==
  ASSUME TypeOK, StackInv, WorkInv, SlotsInv,
         Covered' \subseteq Covered, Pending' <= Pending, held' = held
  PROVE  SlotsInv'
<1>1. PICK c : c = Covered OBVIOUS
<1>2. PICK d : d = Covered' OBVIOUS
<1>3. /\ IsFiniteSet(c) /\ d \subseteq c /\ Cardinality(c) \in Nat
      /\ Cardinality(c) + Pending <= held
  BY <1>1, <1>2, CoveredFacts DEF SlotsInv
<1>4. Cardinality(d) <= Cardinality(c) /\ Cardinality(d) \in Nat
  BY <1>3, FS_Subset, FS_CardinalityType
<1>5. Pending \in {0, 1} /\ Pending' \in {0, 1} BY DEF Pending
<1>6. Cardinality(d) + Pending' <= held'
  BY <1>3, <1>4, <1>5, CoveredFacts
<1>7. QED BY <1>2, <1>6 DEF SlotsInv

LEMMA BeginKeeps ==
  ASSUME ConsoleInv, NEW step \in {"start", "choose"}, Begin(step)
  PROVE  ConsoleInv'
<1> USE DEF ConsoleInv
<1>1. /\ work = Idle /\ work.step = "idle"
      /\ work' = [step |-> step, eid |-> 0, session |-> NoSession]
      /\ UNCHANGED <<stacks, anvil, built, minted, revoked, held, seq, active, router,
                     known, named, resetting, refused>>
      /\ crossed' = (crossed \/ resetting # NoReset)
  BY DEF Begin, stackVars, chainVars, consoleVars, Idle
<1>2. work' \in Job /\ work'.step = step
  <2>1. 0 \in 0..MaxTickets BY ConsoleAssumption
  <2>2. QED BY <1>1, <2>1 DEF Job, Steps
<1>3. TypeOK' BY <1>1, <1>2 DEF TypeOK, Job
<1>4. StackInv' BY <1>1 DEF StackInv, Up
<1>5. WorkInv' BY <1>1, <1>2 DEF WorkInv, At
<1>6. SlotsInv'
  <2>1. Covered' \subseteq Covered BY <1>1, <1>2 DEF Covered, Up, At, Of
  <2>2. Pending' <= Pending BY <1>1, <1>2 DEF Pending, Up, At
  <2>3. QED BY <1>1, <2>1, <2>2, SlotsKept
<1>7. AloneInv' BY <1>1, <1>2 DEF AloneInv, At, Up
<1>8. CleanInv' BY <1>1, <1>2 DEF CleanInv, AloneInv, At
<1>9. QED BY <1>3, <1>4, <1>5, <1>6, <1>7, <1>8

\* The worker stops, and nothing else happens.
LEMMA StopKeeps ==
  ASSUME ConsoleInv, work' = Idle, work.step # "record",
         UNCHANGED <<stackVars, chainVars, router, consoleVars, resetting, history>>
  PROVE  ConsoleInv'
<1> USE DEF ConsoleInv
<1>1. /\ work' = Idle /\ work'.step = "idle"
      /\ UNCHANGED <<stacks, anvil, built, minted, revoked, held, seq, active, router,
                     known, named, resetting, crossed, refused>>
  BY DEF stackVars, chainVars, consoleVars, history, Idle
<1>2. TypeOK' BY <1>1 DEF TypeOK
<1>3. StackInv' BY <1>1 DEF StackInv, Up
<1>4. WorkInv' BY <1>1 DEF WorkInv, At
<1>5. SlotsInv'
  <2>1. Covered' \subseteq Covered BY <1>1 DEF Covered, Up, At, Of
  <2>2. Pending' <= Pending BY <1>1 DEF Pending, Up, At
  <2>3. QED BY <1>1, <2>1, <2>2, SlotsKept
<1>6. AloneInv' BY <1>1 DEF AloneInv, At, Up
<1>7. CleanInv' BY <1>1 DEF CleanInv, At
<1>8. QED BY <1>2, <1>3, <1>4, <1>5, <1>6, <1>7

\* The worker goes on to a step that asks no more than the one it was at.
LEMMA GoKeeps ==
  ASSUME ConsoleInv, work.step = "decide" \/ work.step = "show",
         To(IF work.step = "decide" THEN "settle" ELSE "forget"),
         UNCHANGED <<stackVars, chainVars, router, consoleVars, resetting, history>>
  PROVE  ConsoleInv'
<1> USE DEF ConsoleInv
<1>1. PICK step \in {"settle", "forget"} :
        /\ step = IF work.step = "decide" THEN "settle" ELSE "forget"
        /\ To(step)
  OBVIOUS
<1>2. work \in Job BY IdleIs
<1>3. /\ work' \in Job /\ work'.step = step
      /\ work'.eid = work.eid /\ work'.session = work.session
      /\ UNCHANGED <<stacks, anvil, built, minted, revoked, held, seq, active, router,
                     known, named, resetting, crossed, refused>>
  BY <1>1, <1>2, JobTo DEF Steps, stackVars, chainVars, consoleVars, history
<1>4. TypeOK' BY <1>3 DEF TypeOK, Job
<1>5. StackInv' BY <1>3 DEF StackInv, Up
<1>6. WorkInv' BY <1>1, <1>3 DEF WorkInv, At, Up
<1>7. SlotsInv'
  <2>1. Covered' \subseteq Covered BY <1>1, <1>3 DEF Covered, Up, At, Of
  <2>2. Pending' <= Pending BY <1>1, <1>3 DEF Pending, Up, At
  <2>3. QED BY <1>3, <2>1, <2>2, SlotsKept
<1>8. AloneInv' BY <1>1, <1>2, <1>3 DEF AloneInv, At, Up, Job, Idle
<1>9. CleanInv' BY <1>1, <1>3 DEF CleanInv, At
<1>10. QED BY <1>4, <1>5, <1>6, <1>7, <1>8, <1>9

LEMMA AbortKeeps == ASSUME ConsoleInv, Abort PROVE ConsoleInv'
BY StopKeeps DEF Abort

LEMMA DecideKeeps == ASSUME ConsoleInv, Decide PROVE ConsoleInv'
BY StopKeeps, GoKeeps DEF Decide

LEMMA ShowKeeps == ASSUME ConsoleInv, Show PROVE ConsoleInv'
BY GoKeeps DEF Show

LEMMA EnsureStartedKeeps == ASSUME ConsoleInv, EnsureStarted PROVE ConsoleInv'
<1> USE DEF ConsoleInv
<1>1. /\ work.step = "start" /\ resetting = NoReset
      /\ UNCHANGED <<minted, revoked, held, seq, active, router, known, named, resetting,
                     crossed, refused>>
  BY DEF EnsureStarted, chainVars, consoleVars, history
<1>2. work \in Job /\ work # Idle BY <1>1, IdleIs DEF Idle
<1>3. \/ work' = Idle /\ work'.step = "idle"
      \/ /\ work' \in Job /\ work'.step = "negotiate"
         /\ work'.eid = work.eid /\ work'.session = work.session
  BY <1>2, JobTo DEF EnsureStarted, Steps, Idle
<1>4. \/ anvil /\ UNCHANGED <<stacks, anvil, built>>
      \/ /\ ~anvil /\ stacks < MaxStacks /\ stacks' = stacks + 1
         /\ anvil' = TRUE
         /\ built' = TRUE \/ built' = built
  BY <1>1 DEF EnsureStarted, stackVars
<1>5. TypeOK'
  <2>1. stacks' \in 0..MaxStacks BY <1>4, ConsoleAssumption DEF TypeOK
  <2>2. anvil' \in BOOLEAN /\ built' \in BOOLEAN BY <1>4 DEF TypeOK
  <2>3. QED BY <1>1, <1>3, <2>1, <2>2 DEF TypeOK, Job
<1>6. StackInv' BY <1>1, <1>4, ConsoleAssumption DEF StackInv, Up, TypeOK
<1>7. WorkInv' BY <1>3 DEF WorkInv, At
<1>8. SlotsInv'
  <2>1. Of(active)' = Of(active) /\ Of(named)' = Of(named) BY <1>1 DEF Of
  <2>2. Covered' \subseteq Covered BY <1>1, <1>3, <2>1 DEF Covered, At
  <2>3. Pending' <= Pending BY <1>1, <1>3 DEF Pending, At
  <2>4. QED BY <1>1, <2>2, <2>3, SlotsKept
<1>9. AloneInv'
  <2>1. ASSUME ~crossed, ~anvil PROVE named = {} BY <2>1 DEF AloneInv, Up
  <2>2. QED BY <1>1, <1>3, <1>4, <2>1 DEF AloneInv, At, Up
<1>10. CleanInv' BY <1>1, <1>3 DEF CleanInv, At
<1>11. QED BY <1>5, <1>6, <1>7, <1>8, <1>9, <1>10

LEMMA NegotiateKeeps == ASSUME ConsoleInv, Negotiate PROVE ConsoleInv'
<1> USE DEF ConsoleInv
<1>1. CASE work' = Idle /\ UNCHANGED held
  BY <1>1, StopKeeps DEF Negotiate, chainVars
<1>2. CASE held < Slots /\ held' = held + 1 /\ To("decide")
  <2>1. work.step = "negotiate" /\ Up /\ work \in Job
    BY IdleIs DEF Negotiate, Idle
  <2>2. /\ work' \in Job /\ work'.step = "decide"
        /\ UNCHANGED <<stacks, anvil, built, minted, revoked, seq, active, router,
                       known, named, resetting, crossed, refused>>
    BY <1>2, <2>1, JobTo DEF Negotiate, Steps, stackVars, consoleVars, history
  <2>3. TypeOK'
    <3>1. held' \in 0..Slots BY <1>2, ConsoleAssumption DEF TypeOK
    <3>2. QED BY <2>2, <3>1 DEF TypeOK, Job
  <2>4. StackInv' BY <2>1, <2>2 DEF StackInv, Up
  <2>5. WorkInv' BY <2>2 DEF WorkInv, At
  <2>6. SlotsInv'
    <3>1. Covered' = Covered BY <2>1, <2>2 DEF Covered, Up, At, Of
    <3>2. Pending = 0 /\ Pending' = 1 BY <2>1, <2>2 DEF Pending, Up, At
    <3>3. QED BY <1>2, <3>1, <3>2, CoveredFacts DEF SlotsInv
  <2>7. AloneInv' BY <2>1, <2>2 DEF AloneInv, At, Up, Idle
  <2>8. CleanInv' BY <2>1, <2>2 DEF CleanInv, At
  <2>9. QED BY <2>3, <2>4, <2>5, <2>6, <2>7, <2>8
<1>3. QED BY <1>1, <1>2 DEF Negotiate

\* The hold of the offer becomes the hold of the ticket.
LEMMA SettleKeeps == ASSUME ConsoleInv, Settle PROVE ConsoleInv'
<1> USE DEF ConsoleInv
<1>1. PICK e : e = minted + 1 OBVIOUS
<1>2. /\ work.step = "settle" /\ Up /\ work \in Job
      /\ minted' = e /\ known' = Listed(e) /\ minted \in Nat
      /\ e \in 1..MaxTickets
      /\ UNCHANGED <<stacks, anvil, built, revoked, held, seq, active, router, named,
                     resetting, crossed, refused>>
  BY <1>1, IdleIs, ConsoleAssumption DEF Settle, Idle, TypeOK, stackVars, history
<1>3. work' \in Job /\ work'.step = "activate" /\ work'.eid = e
  <2>1. work' = [work EXCEPT !.step = "activate", !.eid = e] BY <1>1 DEF Settle
  <2>2. PICK w : w = [work EXCEPT !.step = "activate"] OBVIOUS
  <2>3. w \in Job /\ w.step = "activate" BY <1>2, <2>2 DEF Job, Steps
  <2>4. work' = [w EXCEPT !.eid = e] BY <2>1, <2>2
  <2>5. e \in 0..MaxTickets BY <1>2
  <2>6. QED BY <2>3, <2>4, <2>5 DEF Job
<1>4. TypeOK'
  <2>1. /\ known' \in Seq(1..MaxTickets)
        /\ {known[i] : i \in DOMAIN known} \subseteq {known'[i] : i \in DOMAIN known'}
    BY <1>2, ListedFacts DEF TypeOK
  <2>2. Of(named) \subseteq {known'[i] : i \in DOMAIN known'}
    BY <2>1 DEF TypeOK, Of
  <2>3. minted' \in 0..MaxTickets /\ revoked' \subseteq 1..minted'
    BY <1>1, <1>2 DEF TypeOK
  <2>4. QED BY <1>2, <1>3, <2>1, <2>2, <2>3 DEF TypeOK, Job, Of
<1>5. StackInv'
  <2>1. Of(active) \subseteq 1..minted' /\ seq <= minted' /\ seq \in Nat
    BY <1>1, <1>2 DEF StackInv, TypeOK
  <2>2. QED BY <1>2, <2>1 DEF StackInv, Up, Of
<1>6. WorkInv'
  <2>1. e \notin Of(active) /\ seq < e /\ e >= 1
    BY <1>1, <1>2 DEF StackInv, TypeOK
  <2>2. QED BY <1>2, <1>3, <2>1 DEF WorkInv, At, Of
<1>7. SlotsInv'
  <2>1. PICK c : c = Covered OBVIOUS
  <2>2. PICK d : d = Covered' OBVIOUS
  <2>3. Of(active)' = Of(active) /\ Of(named)' = Of(named) BY <1>2 DEF Of
  <2>4. d \subseteq c \cup {e}
    BY <1>1, <1>2, <1>3, <2>1, <2>2, <2>3 DEF Covered, At, Up
  <2>5. Pending = 1 /\ Pending' = 0 BY <1>2, <1>3 DEF Pending, At, Up
  <2>6. IsFiniteSet(c) /\ Cardinality(c) \in Nat /\ Cardinality(c) + 1 <= held /\ held \in Nat
    BY <2>1, <2>5, CoveredFacts DEF SlotsInv
  <2>7. /\ IsFiniteSet(c \cup {e})
        /\ Cardinality(c \cup {e}) = Cardinality(c) \/ Cardinality(c \cup {e}) = Cardinality(c) + 1
    BY <2>6, FS_AddElement
  <2>8. Cardinality(d) <= Cardinality(c \cup {e}) /\ Cardinality(d) \in Nat
    BY <2>4, <2>7, FS_Subset, FS_CardinalityType
  <2>9. Cardinality(d) <= held BY <2>6, <2>7, <2>8
  <2>10. QED BY <1>2, <2>2, <2>5, <2>8, <2>9 DEF SlotsInv
<1>8. AloneInv'
  <2>1. ASSUME ~crossed
        PROVE  /\ resetting = NoReset
               /\ \A s \in named : s.stack = stacks /\ s.eid <= minted' /\ s.eid # e
    <3>1. \A s \in named : s.eid \in Int BY DEF TypeOK, Name
    <3>2. QED BY <1>1, <1>2, <2>1, <3>1 DEF AloneInv, Idle
  <2>2. QED BY <1>2, <1>3, <2>1 DEF AloneInv, At, Up, Of
<1>9. CleanInv' BY <1>2, <1>3 DEF CleanInv, At
<1>10. QED BY <1>4, <1>5, <1>6, <1>7, <1>8, <1>9

LEMMA ActivateKeeps == ASSUME ConsoleInv, Activate PROVE ConsoleInv'
<1> USE DEF ConsoleInv
<1>1. CASE work' = Idle /\ UNCHANGED seq
  BY <1>1, StopKeeps DEF Activate, chainVars
<1>2. CASE /\ seq' = seq + 1
           /\ work' = [work EXCEPT !.step = "apply",
                         !.session = [eid |-> work.eid, seq |-> seq, stack |-> stacks]]
  <2>1. PICK s : s = [eid |-> work.eid, seq |-> seq, stack |-> stacks] OBVIOUS
  <2>2. work.step = "activate" /\ Up /\ work \in Job
    BY IdleIs DEF Activate, Idle
  <2>3. /\ work.eid = minted /\ minted \in 1..MaxTickets
        /\ seq \in 0..MaxTickets /\ seq + 1 \in 0..minted /\ stacks \in 1..MaxStacks
        /\ work.eid \notin Of(active)
    BY <2>2, ConsoleAssumption DEF WorkInv, StackInv, At, Up, TypeOK
  <2>4. s \in Name /\ s.eid = work.eid /\ s.stack = stacks BY <2>1, <2>3 DEF Name
  <2>5. work' \in Job /\ work'.step = "apply" /\ work'.eid = work.eid /\ work'.session = s
    <3>1. PICK w : w = [work EXCEPT !.step = "apply"] OBVIOUS
    <3>2. w \in Job /\ w.step = "apply" /\ w.eid = work.eid
      BY <2>2, <3>1 DEF Job, Steps
    <3>3. work' = [w EXCEPT !.session = s] BY <1>2, <2>1, <3>1
    <3>4. QED BY <2>4, <3>2, <3>3 DEF Job
  <2>6. UNCHANGED <<stacks, anvil, built, minted, revoked, held, active, router,
                    known, named, resetting, crossed, refused>>
    BY DEF Activate, stackVars, consoleVars, history
  <2>7. TypeOK'
    <3>1. seq' \in 0..MaxTickets BY <1>2, <2>3, ConsoleAssumption
    <3>2. QED BY <2>5, <2>6, <3>1 DEF TypeOK, Job
  <2>8. StackInv' BY <1>2, <2>2, <2>3, <2>6 DEF StackInv, Up, Of
  <2>9. WorkInv' BY <2>2, <2>3, <2>4, <2>5, <2>6 DEF WorkInv, At, Of
  <2>10. SlotsInv'
    <3>1. Covered' \subseteq Covered BY <2>2, <2>5, <2>6 DEF Covered, Up, At, Of
    <3>2. Pending' <= Pending BY <2>2, <2>5, <2>6 DEF Pending, Up, At
    <3>3. QED BY <2>6, <3>1, <3>2, SlotsKept
  <2>11. AloneInv' BY <2>2, <2>4, <2>5, <2>6 DEF AloneInv, At, Up, Of, Idle
  <2>12. CleanInv' BY <2>2, <2>5, <2>6 DEF CleanInv, At
  <2>13. QED BY <2>7, <2>8, <2>9, <2>10, <2>11, <2>12
<1>3. QED BY <1>1, <1>2 DEF Activate

LEMMA ApplyKeeps == ASSUME ConsoleInv, Apply PROVE ConsoleInv'
<1> USE DEF ConsoleInv
<1>0. /\ work.step = "apply" /\ work \in Job
      /\ work.session \in Name /\ work.session.eid = work.eid
      /\ UNCHANGED <<stacks, anvil, built, minted, revoked, held, seq, known, named,
                     resetting, crossed>>
  BY IdleIs DEF Apply, Idle, WorkInv, At, stackVars, consoleVars
<1>1. Without(work.session) \subseteq router BY DEF Without
<1>2. ASSUME router' = Without(work.session) \cup {work.session},
             active' = IF Up THEN active \cup {work.session} ELSE active,
             To("record"), UNCHANGED refused
      PROVE  ConsoleInv'
  <2>1. PICK s : s = work.session OBVIOUS
  <2>2. /\ work' \in Job /\ work'.step = "record" /\ work'.eid = work.eid
        /\ work'.session = s
    BY <1>0, <1>2, <2>1, JobTo DEF Steps
  <2>3. TypeOK'
    <3>1. active' \subseteq Name /\ router' \subseteq Name
      BY <1>0, <1>1, <1>2 DEF TypeOK
    <3>2. QED BY <1>0, <1>2, <2>2, <3>1 DEF TypeOK, Job
  <2>4. Up => s.eid = minted /\ s.eid \in 1..minted /\ s.eid \notin Of(active)
    <3>1. minted \in Nat BY ConsoleAssumption DEF TypeOK
    <3>2. QED BY <1>0, <2>1, <3>1 DEF WorkInv, At
  <2>5. StackInv'
    <3>1. CASE Up
      <4>1. active' = active \cup {s} BY <1>2, <2>1, <3>1
      <4>2. \A x, y \in active' : x.eid = y.eid => x = y
        BY <2>4, <3>1, <4>1 DEF StackInv, Of
      <4>3. \A x \in active' : x.eid \in 1..minted
        BY <2>4, <3>1, <4>1 DEF StackInv, Of
      <4>4. QED BY <1>0, <3>1, <4>2, <4>3 DEF StackInv, Up, Of
    <3>2. CASE ~Up BY <1>0, <1>2, <3>2 DEF StackInv, Up, Of
    <3>3. QED BY <3>1, <3>2
  <2>6. WorkInv' BY <1>0, <2>1, <2>2 DEF WorkInv, At, Up
  <2>7. SlotsInv'
    <3>1. Of(active)' \subseteq Of(active) \cup (IF Up THEN {work.eid} ELSE {})
      BY <1>0, <1>2 DEF Of
    <3>2. Of(named)' = Of(named) BY <1>0 DEF Of
    <3>3. Covered' \subseteq Covered
      BY <1>0, <2>2, <3>1, <3>2 DEF Covered, Up, At
    <3>4. Pending' <= Pending BY <1>0, <2>2 DEF Pending, Up, At
    <3>5. QED BY <1>0, <3>3, <3>4, SlotsKept
  <2>8. AloneInv' BY <1>0, <2>1, <2>2 DEF AloneInv, At, Up, Of, Idle
  <2>9. CleanInv'
    <3>1. ASSUME ~crossed, ~refused
          PROVE  router' \subseteq active' /\ router' \subseteq named \cup {s}
                 /\ resetting = NoReset
      <4>1. Up /\ resetting = NoReset BY <1>0, <3>1 DEF AloneInv, At, Idle
      <4>2. router \subseteq active /\ router \subseteq named
        BY <1>0, <3>1 DEF CleanInv, At
      <4>3. QED BY <1>1, <1>2, <2>1, <4>1, <4>2
    <3>2. QED BY <1>0, <1>2, <2>2, <3>1 DEF CleanInv, At
  <2>10. QED BY <2>3, <2>5, <2>6, <2>7, <2>8, <2>9
<1>3. ASSUME \/ router' = Without(work.session)
             \/ router' = Without(work.session) \cup {work.session},
             work' = Idle, refused' = TRUE, UNCHANGED active
      PROVE  ConsoleInv'
  <2>1. work'.step = "idle" BY <1>3 DEF Idle
  <2>2. router' \subseteq Name BY <1>0, <1>1, <1>3 DEF TypeOK
  <2>3. TypeOK' BY <1>0, <1>3, <2>2 DEF TypeOK
  <2>4. StackInv' BY <1>0, <1>3 DEF StackInv, Up
  <2>5. WorkInv' BY <1>3, <2>1 DEF WorkInv, At
  <2>6. SlotsInv'
    <3>1. Covered' \subseteq Covered BY <1>0, <1>3, <2>1 DEF Covered, Up, At, Of
    <3>2. Pending' <= Pending BY <1>0, <2>1 DEF Pending, Up, At
    <3>3. QED BY <1>0, <3>1, <3>2, SlotsKept
  <2>7. AloneInv' BY <1>0, <1>3, <2>1 DEF AloneInv, At, Up
  <2>8. CleanInv' BY <1>3 DEF CleanInv
  <2>9. QED BY <2>3, <2>4, <2>5, <2>6, <2>7, <2>8
<1>4. QED BY <1>2, <1>3 DEF Apply

LEMMA RecordKeeps == ASSUME ConsoleInv, Record PROVE ConsoleInv'
<1> USE DEF ConsoleInv
<1>1. /\ work.step = "record" /\ work \in Job
      /\ work.session \in Name /\ work.session.eid = work.eid
      /\ work.eid \in 1..MaxTickets
      /\ work' = Idle /\ work'.step = "idle"
      /\ known' = Listed(work.eid)
      /\ named' = {s \in named : s.eid # work.eid} \cup {work.session}
      /\ UNCHANGED <<stacks, anvil, built, minted, revoked, held, seq, active, router,
                     resetting, crossed, refused>>
  BY IdleIs DEF Record, Idle, WorkInv, At, Name, stackVars, chainVars, history
<1>2. TypeOK'
  <2>1. /\ known' \in Seq(1..MaxTickets)
        /\ {known[i] : i \in DOMAIN known} \cup {work.eid}
             \subseteq {known'[i] : i \in DOMAIN known'}
    <3>1. PICK e \in 1..MaxTickets : e = work.eid BY <1>1
    <3>2. /\ Listed(e) \in Seq(1..MaxTickets)
          /\ {known[i] : i \in DOMAIN known} \cup {e}
               \subseteq {Listed(e)[i] : i \in DOMAIN Listed(e)}
      BY ListedFacts DEF TypeOK
    <3>3. known' = Listed(e) BY <1>1, <3>1
    <3>4. {known[i] : i \in DOMAIN known} \cup {e} \subseteq {known'[i] : i \in DOMAIN known'}
      BY <3>2, <3>3
    <3>5. QED BY <3>1, <3>2, <3>3, <3>4
  <2>2. Of(named') \subseteq {known'[i] : i \in DOMAIN known'}
    BY <1>1, <2>1 DEF TypeOK, Of
  <2>3. QED BY <1>1, <2>1, <2>2 DEF TypeOK, Of
<1>3. StackInv' BY <1>1 DEF StackInv, Up
<1>4. WorkInv' BY <1>1 DEF WorkInv, At
<1>5. SlotsInv'
  <2>1. Of(named') \subseteq Of(named) \cup {work.eid} BY <1>1 DEF Of
  <2>2. Of(active') = Of(active) BY <1>1
  <2>3. Covered' \subseteq Covered
    <3>1. CASE Up BY <1>1, <2>1, <2>2, <3>1 DEF Covered, Up, At
    <3>2. CASE ~Up
      <4>1. minted = 0 /\ active = {} BY <3>2 DEF StackInv
      <4>2. Covered' = {} BY <1>1, <3>2, <4>1 DEF Covered, Up, At, Of
      <4>3. QED BY <4>2
    <3>3. QED BY <3>1, <3>2
  <2>4. Pending' <= Pending BY <1>1 DEF Pending, Up, At
  <2>5. QED BY <1>1, <2>3, <2>4, SlotsKept
<1>6. AloneInv'
  <2>1. ASSUME ~crossed
        PROVE  Up /\ work.session.stack = stacks /\ work.session.eid <= minted
    <3>1. Up /\ work.session.stack = stacks BY <1>1, <2>1 DEF AloneInv, At
    <3>2. work.eid = minted /\ minted \in Nat
      BY <1>1, <3>1, ConsoleAssumption DEF WorkInv, At, TypeOK
    <3>3. QED BY <1>1, <3>1, <3>2
  <2>2. QED BY <1>1, <2>1 DEF AloneInv, At, Up
<1>7. CleanInv'
  <2>1. ASSUME ~crossed, ~refused PROVE router \subseteq named'
    BY <1>1, <2>1 DEF CleanInv, AloneInv, At, Of
  <2>2. QED BY <1>1, <2>1 DEF CleanInv, At
<1>8. QED BY <1>2, <1>3, <1>4, <1>5, <1>6, <1>7

LEMMA ChooseKeeps == ASSUME ConsoleInv, Choose PROVE ConsoleInv'
<1> USE DEF ConsoleInv
<1>0. /\ work.step = "choose" /\ work \in Job
      /\ UNCHANGED <<stackVars, chainVars, router, consoleVars, resetting, history>>
  BY IdleIs DEF Choose, Idle
<1>1. CASE work' = Idle BY <1>0, <1>1, StopKeeps
<1>2. ASSUME NEW s \in named, work' = [step |-> "revoke", eid |-> s.eid, session |-> s]
      PROVE  ConsoleInv'
  <2>1. s \in Name /\ s.eid \in 1..MaxTickets BY DEF TypeOK, Name
  <2>2. /\ work' \in Job /\ work'.step = "revoke" /\ work'.eid = s.eid
        /\ work'.session = s
    <3>1. s.eid \in 0..MaxTickets BY <2>1
    <3>2. QED BY <1>2, <2>1, <3>1 DEF Job, Steps
  <2>3. UNCHANGED <<stacks, anvil, built, minted, revoked, held, seq, active, router,
                    known, named, resetting, crossed, refused>>
    BY <1>0 DEF stackVars, chainVars, consoleVars, history
  <2>4. TypeOK' BY <2>2, <2>3 DEF TypeOK, Job
  <2>5. StackInv' BY <2>3 DEF StackInv, Up
  <2>6. WorkInv' BY <2>1, <2>2, <2>3 DEF WorkInv, At, Of
  <2>7. SlotsInv'
    <3>1. Covered' \subseteq Covered BY <2>2, <2>3 DEF Covered, Up, At, Of
    <3>2. Pending' <= Pending BY <1>0, <2>2, <2>3 DEF Pending, Up, At
    <3>3. QED BY <2>3, <3>1, <3>2, SlotsKept
  <2>8. AloneInv' BY <1>0, <2>2, <2>3 DEF AloneInv, At, Up, Idle
  <2>9. CleanInv' BY <1>0, <2>2, <2>3 DEF CleanInv, At
  <2>10. QED BY <2>4, <2>5, <2>6, <2>7, <2>8, <2>9
<1>3. QED BY <1>1, <1>2 DEF Choose

LEMMA RevokeKeeps == ASSUME ConsoleInv, Revoke PROVE ConsoleInv'
<1> USE DEF ConsoleInv
<1>1. CASE work' = Idle /\ UNCHANGED revoked
  <2>1. work.step = "revoke" BY DEF Revoke
  <2>2. UNCHANGED <<stackVars, chainVars, router, consoleVars, resetting, history>>
    BY <1>1 DEF Revoke, chainVars
  <2>3. QED BY <1>1, <2>1, <2>2, StopKeeps
<1>2. CASE work.eid <= minted /\ revoked' = revoked \cup {work.eid} /\ To("handle")
  <2>1. work.step = "revoke" /\ Up /\ work \in Job BY IdleIs DEF Revoke, Idle
  <2>2. /\ work' \in Job /\ work'.step = "handle" /\ work'.eid = work.eid
        /\ work'.session = work.session
        /\ UNCHANGED <<stacks, anvil, built, minted, held, seq, active, router,
                       known, named, resetting, crossed, refused>>
    BY <1>2, <2>1, JobTo DEF Revoke, Steps, stackVars, consoleVars, history
  <2>3. work.eid \in 1..minted /\ work.eid \in Of(named)
    <3>1. work.eid \in Nat /\ minted \in Nat BY <2>1, ConsoleAssumption DEF Job, TypeOK
    <3>2. QED BY <1>2, <2>1, <3>1 DEF WorkInv, At
  <2>4. TypeOK' BY <1>2, <2>2, <2>3 DEF TypeOK, Job
  <2>5. StackInv' BY <2>2 DEF StackInv, Up
  <2>6. WorkInv' BY <1>2, <2>1, <2>2, <2>3 DEF WorkInv, At, Up
  <2>7. SlotsInv'
    <3>1. Covered' \subseteq Covered BY <2>2, <2>3 DEF Covered, Up, At, Of
    <3>2. Pending' <= Pending BY <2>1, <2>2 DEF Pending, Up, At
    <3>3. QED BY <2>2, <3>1, <3>2, SlotsKept
  <2>8. AloneInv' BY <2>1, <2>2 DEF AloneInv, At, Up, Idle
  <2>9. CleanInv' BY <2>1, <2>2 DEF CleanInv, At
  <2>10. QED BY <2>4, <2>5, <2>6, <2>7, <2>8, <2>9
<1>3. QED BY <1>1, <1>2 DEF Revoke

LEMMA HandleKeeps == ASSUME ConsoleInv, Handle PROVE ConsoleInv'
<1> USE DEF ConsoleInv
<1>1. PICK ended : ended = {s \in active : s.eid = work.eid} OBVIOUS
<1>2. /\ work.step = "handle" /\ Up /\ work \in Job
      /\ active' = active \ ended
      /\ \/ router' = {r \in router : \A s \in ended : ~Same(r, s)} /\ UNCHANGED refused
         \/ refused' = TRUE /\ UNCHANGED router
      /\ To("show")
      /\ UNCHANGED <<stacks, anvil, built, minted, revoked, held, seq, known, named,
                     resetting, crossed>>
  BY <1>1, IdleIs DEF Handle, Idle, stackVars, consoleVars
<1>3. /\ work' \in Job /\ work'.step = "show" /\ work'.eid = work.eid
      /\ work'.session = work.session
  BY <1>2, JobTo DEF Steps
<1>4. router' \subseteq router /\ active' \subseteq active BY <1>2
<1>5. TypeOK'
  <2>1. refused' \in BOOLEAN BY <1>2 DEF TypeOK
  <2>2. QED BY <1>2, <1>3, <1>4, <2>1 DEF TypeOK, Job
<1>6. Of(active') \subseteq Of(active) /\ work.eid \notin Of(active')
  BY <1>1, <1>2 DEF Of
<1>7. StackInv'
  <2>1. Of(active') \subseteq 1..minted /\ \A s, t \in active' : s.eid = t.eid => s = t
    BY <1>4, <1>6 DEF StackInv
  <2>2. QED BY <1>2, <2>1 DEF StackInv, Up
<1>8. WorkInv' BY <1>2, <1>3, <1>6 DEF WorkInv, At, Up
<1>9. SlotsInv'
  <2>1. Covered' \subseteq Covered BY <1>2, <1>3, <1>6 DEF Covered, Up, At
  <2>2. Pending' <= Pending BY <1>2, <1>3 DEF Pending, Up, At
  <2>3. QED BY <1>2, <2>1, <2>2, SlotsKept
<1>10. AloneInv' BY <1>2, <1>3 DEF AloneInv, At, Up, Idle
<1>11. CleanInv'
  <2>1. ASSUME ~crossed, ~refused'
        PROVE  router' \subseteq active' /\ router' \subseteq named /\ resetting = NoReset
    <3>1. ~refused /\ router' = {r \in router : \A s \in ended : ~Same(r, s)}
      BY <1>2, <2>1
    <3>2. router \subseteq active /\ router \subseteq named
      BY <1>2, <2>1, <3>1 DEF CleanInv, At
    <3>3. \A r \in router' : r \notin ended BY <3>1 DEF Same
    <3>4. resetting = NoReset BY <1>2, <2>1 DEF AloneInv, Idle
    <3>5. QED BY <1>2, <1>4, <3>2, <3>3, <3>4
  <2>2. QED BY <1>2, <1>3, <2>1 DEF CleanInv, At
<1>12. QED BY <1>5, <1>7, <1>8, <1>9, <1>10, <1>11

LEMMA ForgetKeeps == ASSUME ConsoleInv, Forget PROVE ConsoleInv'
<1> USE DEF ConsoleInv
<1>1. /\ work.step = "forget" /\ work \in Job /\ work.eid \in 1..MaxTickets
      /\ known' = Listed(work.eid)
      /\ named' = {s \in named : s.eid # work.eid}
      /\ To("release")
      /\ UNCHANGED <<stacks, anvil, built, minted, revoked, held, seq, active, router,
                     resetting, crossed, refused>>
  BY IdleIs, ConsoleAssumption DEF Forget, Idle, WorkInv, At, Job, stackVars, chainVars, history
<1>2. /\ work' \in Job /\ work'.step = "release" /\ work'.eid = work.eid
      /\ work'.session = work.session
  BY <1>1, JobTo DEF Steps
<1>3. named' \subseteq named /\ Of(named') \subseteq Of(named) /\ work.eid \notin Of(named')
  BY <1>1 DEF Of
<1>4. TypeOK'
  <2>1. /\ known' \in Seq(1..MaxTickets)
        /\ {known[i] : i \in DOMAIN known} \subseteq {known'[i] : i \in DOMAIN known'}
    <3>1. PICK e \in 1..MaxTickets : e = work.eid BY <1>1
    <3>2. /\ Listed(e) \in Seq(1..MaxTickets)
          /\ {known[i] : i \in DOMAIN known}
               \subseteq {Listed(e)[i] : i \in DOMAIN Listed(e)}
      BY ListedFacts DEF TypeOK
    <3>3. known' = Listed(e) BY <1>1, <3>1
    <3>4. QED BY <3>2, <3>3
  <2>2. Of(named') \subseteq {known'[i] : i \in DOMAIN known'}
    BY <1>3, <2>1 DEF TypeOK, Of
  <2>3. QED BY <1>1, <1>2, <1>3, <2>1, <2>2 DEF TypeOK, Job, Of
<1>5. StackInv' BY <1>1 DEF StackInv, Up
<1>6. WorkInv' BY <1>1, <1>2, <1>3 DEF WorkInv, At, Up
<1>7. SlotsInv'
  <2>1. Of(active') = Of(active) BY <1>1
  <2>2. Covered' \subseteq Covered BY <1>1, <1>2, <1>3, <2>1 DEF Covered, Up, At
  <2>3. Pending' <= Pending BY <1>1, <1>2 DEF Pending, Up, At
  <2>4. QED BY <1>1, <2>2, <2>3, SlotsKept
<1>8. AloneInv' BY <1>1, <1>2, <1>3 DEF AloneInv, At, Up, Idle
<1>9. CleanInv'
  <2>1. ASSUME ~crossed, ~refused
        PROVE  router \subseteq active /\ router \subseteq named' /\ resetting = NoReset
    <3>1. /\ router \subseteq active /\ router \subseteq named /\ resetting = NoReset
          /\ Up
      BY <1>1, <2>1 DEF CleanInv, AloneInv, At, Idle
    <3>2. work.eid \notin Of(active) BY <1>1, <3>1 DEF WorkInv, At
    <3>3. QED BY <1>1, <3>1, <3>2 DEF Of
  <2>2. QED BY <1>1, <1>2, <2>1 DEF CleanInv, At
<1>10. QED BY <1>4, <1>5, <1>6, <1>7, <1>8, <1>9

\* The slot that is given back is that of a ticket no one else counts on.
LEMMA ReleaseKeeps == ASSUME ConsoleInv, Release PROVE ConsoleInv'
<1> USE DEF ConsoleInv
<1>1. /\ work.step = "release" /\ Up /\ held' = held - 1
      /\ work' = Idle /\ work'.step = "idle"
      /\ UNCHANGED <<stacks, anvil, built, minted, revoked, seq, active, router,
                     known, named, resetting, crossed, refused>>
  BY DEF Release, Idle, stackVars, consoleVars, history
<1>2. PICK c : c = Covered OBVIOUS
<1>3. work.eid \in c /\ Covered' \subseteq c \ {work.eid}
  <2>1. work.eid \notin Of(active) /\ work.eid \notin Of(named) BY <1>1 DEF WorkInv, At
  <2>2. Of(active') = Of(active) /\ Of(named') = Of(named) BY <1>1
  <2>3. QED BY <1>1, <1>2, <2>1, <2>2 DEF Covered, Up, At
<1>4. Pending = 0 /\ Pending' = 0 BY <1>1 DEF Pending, At
<1>5. /\ IsFiniteSet(c) /\ Cardinality(c) \in Nat /\ Cardinality(c) <= held /\ held \in Nat
  BY <1>2, <1>4, CoveredFacts DEF SlotsInv
<1>6. IsFiniteSet(c \ {work.eid}) /\ Cardinality(c \ {work.eid}) = Cardinality(c) - 1
  BY <1>3, <1>5, FS_RemoveElement
<1>7. Cardinality(c \ {work.eid}) \in Nat BY <1>6, FS_CardinalityType
<1>8. PICK d : d = Covered' OBVIOUS
<1>9. Cardinality(d) <= Cardinality(c \ {work.eid}) /\ Cardinality(d) \in Nat
  BY <1>3, <1>6, <1>8, FS_Subset, FS_CardinalityType
<1>10. SlotsInv'
  <2>1. Cardinality(d) <= held - 1 BY <1>5, <1>6, <1>7, <1>9
  <2>2. QED BY <1>1, <1>4, <1>8, <1>9, <2>1 DEF SlotsInv
<1>11. TypeOK'
  <2>1. held' \in 0..Slots BY <1>1, <1>5, <1>6, <1>7, ConsoleAssumption DEF TypeOK
  <2>2. QED BY <1>1, <2>1 DEF TypeOK
<1>12. StackInv' BY <1>1 DEF StackInv, Up
<1>13. WorkInv' BY <1>1 DEF WorkInv, At
<1>14. AloneInv' BY <1>1 DEF AloneInv, At, Up
<1>15. CleanInv' BY <1>1 DEF CleanInv, At
<1>16. QED BY <1>10, <1>11, <1>12, <1>13, <1>14, <1>15

LEMMA ResetTearsKeeps == ASSUME ConsoleInv, ResetTears PROVE ConsoleInv'
<1> USE DEF ConsoleInv
<1>1. /\ resetting' = Len(known) /\ Len(known) \in Nat
      /\ crossed' = (crossed \/ work # Idle)
      /\ UNCHANGED <<stacks, anvil, built, minted, revoked, held, seq, active,
                     known, named, work>>
  BY DEF ResetTears, TypeOK, stackVars, chainVars, consoleVars
<1>2. PICK kept \in SUBSET named :
        IF built THEN /\ router' = {r \in router : \A s \in named \ kept : ~Same(r, s)}
                      /\ refused' = (refused \/ kept # {})
                 ELSE UNCHANGED <<router, refused>>
  BY DEF ResetTears
<1>3. router' \subseteq router BY <1>2
<1>4. TypeOK'
  <2>1. crossed' \in BOOLEAN /\ refused' \in BOOLEAN BY <1>1, <1>2 DEF TypeOK
  <2>2. QED BY <1>1, <1>3, <2>1 DEF TypeOK
<1>5. StackInv' BY <1>1 DEF StackInv, Up
<1>6. WorkInv' BY <1>1 DEF WorkInv, At, Up
<1>7. SlotsInv'
  <2>1. Covered' \subseteq Covered BY <1>1 DEF Covered, Up, At, Of
  <2>2. Pending' <= Pending BY <1>1 DEF Pending, Up, At
  <2>3. QED BY <1>1, <2>1, <2>2, SlotsKept
<1>8. AloneInv' BY <1>1 DEF AloneInv, At, Up
<1>9. CleanInv'
  <2>1. ASSUME ~crossed', ~refused' PROVE router' = {} /\ work = Idle
    <3>1. ~crossed /\ ~refused /\ work = Idle BY <1>1, <1>2, <2>1
    <3>2. router \subseteq named BY <3>1 DEF CleanInv, At, Idle
    <3>3. CASE built
      <4>1. kept = {} BY <1>2, <2>1, <3>3
      <4>2. \A r \in router : Same(r, r) BY DEF Same
      <4>3. QED BY <1>2, <3>1, <3>2, <3>3, <4>1, <4>2
    <3>4. CASE ~built
      <4>1. named = {} BY <3>1, <3>4 DEF AloneInv, Up
      <4>2. QED BY <1>2, <3>1, <3>2, <3>4, <4>1
    <3>5. QED BY <3>3, <3>4
  <2>2. QED BY <1>1, <2>1 DEF CleanInv, At
<1>10. QED BY <1>4, <1>5, <1>6, <1>7, <1>8, <1>9

LEMMA ResetClearsKeeps == ASSUME ConsoleInv, ResetClears PROVE ConsoleInv'
<1> USE DEF ConsoleInv
<1>1. /\ resetting # NoReset /\ resetting' = NoReset
      /\ anvil' = FALSE /\ built' = FALSE
      /\ minted' = 0 /\ revoked' = {} /\ held' = 0 /\ seq' = 0 /\ active' = {}
      /\ known' = <<>> /\ named' = {}
      /\ UNCHANGED <<stacks, router, work, crossed, refused>>
  BY DEF ResetClears, history
<1>2. TypeOK'
  <2>1. <<>> \in Seq(1..MaxTickets) BY EmptySeq
  <2>2. 0 \in 0..MaxTickets /\ 0 \in 0..Slots BY ConsoleAssumption
  <2>3. QED BY <1>1, <2>1, <2>2 DEF TypeOK
<1>3. StackInv' BY <1>1 DEF StackInv, Up, Of
<1>4. WorkInv' BY <1>1 DEF WorkInv, At, Up
<1>5. SlotsInv'
  <2>1. Of(active') = {} /\ Of(named') = {} BY <1>1 DEF Of
  <2>2. Covered' \subseteq Covered BY <1>1, <2>1 DEF Covered, Up
  <2>3. Covered' = {} /\ Pending' = 0 BY <1>1, <2>1 DEF Covered, Pending, Up
  <2>4. QED BY <1>1, <2>3, FS_EmptySet DEF SlotsInv
<1>6. AloneInv'
  <2>1. ~crossed => work = Idle BY <1>1 DEF AloneInv
  <2>2. QED BY <1>1, <2>1 DEF AloneInv, At, Up, Idle
<1>7. CleanInv' BY <1>1 DEF CleanInv
<1>8. QED BY <1>2, <1>3, <1>4, <1>5, <1>6, <1>7

LEMMA ResetBreaksKeeps == ASSUME ConsoleInv, ResetBreaks PROVE ConsoleInv'
<1> USE DEF ConsoleInv
<1>1. /\ resetting' = NoReset
      /\ UNCHANGED <<stacks, anvil, built, minted, revoked, held, seq, active, router,
                     known, named, work, crossed, refused>>
  BY DEF ResetBreaks, stackVars, chainVars, consoleVars, history
<1>2. TypeOK' BY <1>1 DEF TypeOK
<1>3. StackInv' BY <1>1 DEF StackInv, Up
<1>4. WorkInv' BY <1>1 DEF WorkInv, At, Up
<1>5. SlotsInv'
  <2>1. Covered' \subseteq Covered BY <1>1 DEF Covered, Up, At, Of
  <2>2. Pending' <= Pending BY <1>1 DEF Pending, Up, At
  <2>3. QED BY <1>1, <2>1, <2>2, SlotsKept
<1>6. AloneInv' BY <1>1 DEF AloneInv, At, Up
<1>7. CleanInv' BY <1>1 DEF CleanInv, At
<1>8. QED BY <1>2, <1>3, <1>4, <1>5, <1>6, <1>7

-----------------------------------------------------------------------------
(* The theorems. *)

LEMMA ConsoleBegins == Init => ConsoleInv
<1> SUFFICES ASSUME Init PROVE ConsoleInv OBVIOUS
<1>1. TypeOK
  <2>1. <<>> \in Seq(1..MaxTickets) BY EmptySeq
  <2>2. 0 \in 0..MaxTickets /\ 0 \in 0..Slots /\ 0 \in 0..MaxStacks BY ConsoleAssumption
  <2>3. QED BY <2>1, <2>2 DEF Init, TypeOK
<1>2. StackInv BY DEF Init, StackInv, Up, Of
<1>3. WorkInv BY DEF Init, WorkInv, At, Idle
<1>4. SlotsInv
  <2>1. Covered = {} /\ Pending = 0 BY DEF Init, Covered, Pending, Up, Of
  <2>2. QED BY <2>1, FS_EmptySet DEF Init, SlotsInv
<1>5. AloneInv BY DEF Init, AloneInv, At, Up, Idle
<1>6. CleanInv BY DEF Init, CleanInv
<1>7. QED BY <1>1, <1>2, <1>3, <1>4, <1>5, <1>6 DEF ConsoleInv

LEMMA ConsoleStep == ConsoleInv /\ [Next]_vars => ConsoleInv'
<1> SUFFICES ASSUME ConsoleInv, [Next]_vars PROVE ConsoleInv' OBVIOUS
<1>1. CASE UNCHANGED vars
  <2>1. UNCHANGED <<stacks, anvil, built, minted, revoked, held, seq, active, router,
                    known, named, work, resetting, crossed, refused>>
    BY <1>1 DEF vars, stackVars, chainVars, consoleVars, history
  <2>2. /\ TypeOK'
        /\ StackInv'
        /\ WorkInv'
    <3>1. TypeOK' BY <2>1 DEF ConsoleInv, TypeOK
    <3>2. StackInv' BY <2>1 DEF ConsoleInv, StackInv, Up
    <3>3. WorkInv' BY <2>1 DEF ConsoleInv, WorkInv, At, Up
    <3>4. QED BY <3>1, <3>2, <3>3
  <2>3. Covered' = Covered /\ Pending' = Pending
    BY <2>1 DEF Covered, Pending, Up, At, Of
  <2>4. SlotsInv' BY <2>1, <2>3 DEF ConsoleInv, SlotsInv
  <2>5. AloneInv' /\ CleanInv' BY <2>1 DEF ConsoleInv, AloneInv, CleanInv, At, Up
  <2>6. QED BY <2>2, <2>4, <2>5 DEF ConsoleInv
<1>2. CASE Provision
  BY <1>2, EnsureStartedKeeps, NegotiateKeeps, DecideKeeps, SettleKeeps, ActivateKeeps,
     ApplyKeeps, RecordKeeps DEF Provision
<1>3. CASE RevokeAction
  BY <1>3, ChooseKeeps, RevokeKeeps, HandleKeeps, ShowKeeps, ForgetKeeps, ReleaseKeeps
     DEF RevokeAction
<1>4. QED
  BY <1>1, <1>2, <1>3, BeginKeeps, AbortKeeps, ResetTearsKeeps, ResetClearsKeeps,
     ResetBreaksKeeps DEF Next, Worker

LEMMA ConsoleAlways == Spec => []ConsoleInv
BY ConsoleBegins, ConsoleStep, PTL DEF Spec

\* Every reachable state of the console is well typed: no slot count below zero or
\* above the pool, no session listed under an id that is not.
THEOREM ConsoleTypes == Spec => []TypeOK
<1>1. ConsoleInv => TypeOK BY DEF ConsoleInv
<1>2. QED BY <1>1, ConsoleAlways, PTL

\* Every session the controller has active has its slot, whatever failed, was tried
\* again or was reset in between, for any pool and any number of stacks.
THEOREM SlotsCoverSessions == Spec => []PoolCovers
<1>1. ConsoleInv => PoolCovers
  <2>1. SUFFICES ASSUME ConsoleInv PROVE Cardinality(active) <= held
    BY DEF PoolCovers
  <2>2. PICK c : c = Covered OBVIOUS
  <2>3. IsFiniteSet(c) /\ Cardinality(c) \in Nat /\ Cardinality(c) <= held /\ held \in Nat
    BY <2>1, <2>2, CoveredFacts DEF ConsoleInv, SlotsInv
  <2>4. Of(active) \subseteq c BY <2>2 DEF Covered
  <2>5. PICK f : f = [s \in active |-> s.eid] OBVIOUS
  <2>6. f \in Injection(active, c)
    BY <2>1, <2>4, <2>5 DEF Injection, IsInjective, ConsoleInv, StackInv, Of
  <2>7. IsFiniteSet(active) /\ Cardinality(active) <= Cardinality(c)
    BY <2>3, <2>6, FS_Injection
  <2>8. Cardinality(active) \in Nat BY <2>7, FS_CardinalityType
  <2>9. QED BY <2>3, <2>7, <2>8
<1>2. QED BY <1>1, ConsoleAlways, PTL

\* As long as no reset runs beside an action, what the console lists was started on
\* the stack it has.
THEOREM OneActionAtATime == Spec => []ListedAreCurrent
<1>1. ConsoleInv => ListedAreCurrent BY DEF ConsoleInv, AloneInv, ListedAreCurrent
<1>2. QED BY <1>1, ConsoleAlways, PTL

\* And as long as the router does what it is asked, nothing stays on it that neither
\* revoke nor reset will reach.
THEOREM NothingIsStranded == Spec => []RouterIsListed
<1>1. ConsoleInv => RouterIsListed
  <2>1. SUFFICES ASSUME ConsoleInv, ~crossed, ~refused, NEW r \in router
                 PROVE  \/ \E s \in named : Same(r, s)
                        \/ work # Idle /\ work.session = r
    BY DEF RouterIsListed
  <2>2. r \in named \/ (work.step = "record" /\ work.session = r)
    BY <2>1 DEF ConsoleInv, CleanInv, At
  <2>3. Same(r, r) BY DEF Same
  <2>4. QED BY <2>2, <2>3 DEF Idle
<1>2. QED BY <1>1, ConsoleAlways, PTL
=============================================================================
