--------------------------- MODULE WatcherProofs ---------------------------
(***************************************************************************)
(* Proofs about ChainWatcher, for any number of callbacks, registrations,  *)
(* blocks, failing calls and crashes.                                      *)
(***************************************************************************)
EXTENDS ChainWatcher, SequenceTheorems, TLAPS

\* Later blocks count no fewer events.
Growing == \A a, b \in 0..Height : a <= b => UpTo(a) <= UpTo(b)

\* Where the thread is, against its cursor and the list of callbacks.
PollOK ==
  /\ ~running => poll = Idle /\ \A w \in Watchers : since[w] = Never
  /\ poll # Idle => lastSeen < poll.head
  /\ poll.phase = "deliver" => /\ UpTo(lastSeen) < poll.event
                               /\ poll.event <= UpTo(poll.head) + 1
                               /\ poll.who <= Len(listening) + 1
                               /\ Delivering \/ poll.who = 1

PollInv == TypeOK /\ Growing /\ PollOK

\* The callbacks that were called with the event in hand.
Called == {listening[i] : i \in 1..(poll.who - 1)}

\* What the thread is done with: the blocks behind the cursor, and in them the
\* events before the one in hand.
GivenInv ==
  \A w \in Watchers : since[w] # Never =>
    /\ since[w] \in 0..Height
    /\ \E i \in DOMAIN listening : listening[i] = w
    /\ \A e \in Nat : UpTo(since[w]) < e /\ e <= UpTo(lastSeen) => e \in Given(w)
    /\ poll.phase = "deliver" =>
         \A e \in Nat : UpTo(since[w]) < e /\ e < poll.event => e \in Given(w)
    /\ Delivering /\ UpTo(since[w]) < poll.event /\ w \in Called
         => poll.event \in Given(w)

\* What a callback was called with is behind the cursor, or before the event
\* in hand, or is that event and its turn is over.
Behind(w) ==
  \A j \in DOMAIN handed[w] :
    \/ handed[w][j] <= UpTo(lastSeen)
    \/ /\ poll.phase = "deliver"
       /\ \/ handed[w][j] < poll.event
          \/ handed[w][j] = poll.event /\ w \in Called

Sorted(w) == \A i, j \in DOMAIN handed[w] : i < j => handed[w][i] < handed[w][j]

OrderInv == \A w \in Watchers : ListedOnce(w) => Sorted(w) /\ Behind(w)

-----------------------------------------------------------------------------
(* Types and positions. *)

LEMMA UpToNat == ASSUME TypeOK, NEW b \in 0..Height PROVE UpTo(b) \in Nat
BY DEF TypeOK, UpTo, Height

LEMMA PollFacts ==
  ASSUME TypeOK
  PROVE  /\ poll.phase \in {"idle", "logs", "deliver"}
         /\ poll.phase = "idle" <=> poll = Idle
         /\ poll.phase \in {"logs", "deliver"} => poll.head \in 1..Height
         /\ poll.phase = "logs" => poll = [phase |-> "logs", head |-> poll.head]
         /\ poll.phase = "deliver" =>
              /\ poll.event \in Nat \ {0} /\ poll.who \in Nat \ {0}
              /\ poll = [phase |-> "deliver", head |-> poll.head, event |-> poll.event,
                         who |-> poll.who]
BY DEF TypeOK, Idle

LEMMA MineFacts ==
  ASSUME TypeOK, NEW n \in 0..MaxPerBlock, Mine(n)
  PROVE  /\ chain' \in Seq(Nat) /\ Height' = Height + 1 /\ Height' <= MaxBlocks
         /\ \A b \in 0..Height : UpTo(b)' = UpTo(b)
         /\ UpTo(Height)' = UpTo(Height) + n
<1>1. Height \in Nat /\ chain \in Seq(Nat) BY DEF TypeOK, Height
<1>2. UpTo(Height) \in Nat BY <1>1, UpToNat
<1>3. n \in Nat BY BoundsAssumption
<1>4. UpTo(Height) + n \in Nat BY <1>2, <1>3
<1>5. chain' = Append(chain, UpTo(Height) + n) /\ Height < MaxBlocks BY DEF Mine
<1>6. /\ Len(chain') = Len(chain) + 1
      /\ \A i \in 1..Len(chain) : chain'[i] = chain[i]
      /\ chain'[Len(chain) + 1] = UpTo(Height) + n
  BY <1>1, <1>4, <1>5
<1>7. chain' \in Seq(Nat) BY <1>1, <1>4, <1>5
<1>8. Height' = Height + 1 /\ Height' <= MaxBlocks
  BY <1>1, <1>5, <1>6, BoundsAssumption DEF Height
<1>9. \A b \in 0..Height : UpTo(b)' = UpTo(b) BY <1>1, <1>6 DEF Height, UpTo
<1>10. UpTo(Height)' = UpTo(Height) + n BY <1>1, <1>6, <1>8 DEF Height, UpTo
<1>11. QED BY <1>7, <1>8, <1>9, <1>10

LEMMA RegisterFacts ==
  ASSUME TypeOK, NEW w \in Watchers, Register(w) \/ RegisterFails(w)
  PROVE  /\ listening' \in Seq(Watchers) /\ Len(listening') = Len(listening) + 1
         /\ Len(listening') <= MaxCalls
         /\ \A i \in 1..Len(listening) : listening'[i] = listening[i]
         /\ listening'[Len(listening) + 1] = w
<1>1. listening \in Seq(Watchers) BY DEF TypeOK
<1>2. listening' = Append(listening, w) /\ Len(listening) < MaxCalls
  BY DEF Register, RegisterFails
<1>3. QED BY <1>1, <1>2, BoundsAssumption

LEMMA HandFacts ==
  ASSUME TypeOK, Hand
  PROVE  LET w == listening[poll.who]
         IN  /\ w \in Watchers
             /\ handed' = [handed EXCEPT ![w] = Append(@, poll.event)]
             /\ poll.who \in DOMAIN listening
             /\ handed' \in [Watchers -> Seq(Nat)]
             /\ Len(handed'[w]) = Len(handed[w]) + 1
             /\ \A i \in 1..Len(handed[w]) : handed'[w][i] = handed[w][i]
             /\ handed'[w][Len(handed[w]) + 1] = poll.event
             /\ poll' = [phase |-> "deliver", head |-> poll.head,
                         event |-> poll.event, who |-> poll.who + 1]
<1> DEFINE w == listening[poll.who]
<1>1. Delivering /\ poll.who <= Len(listening) BY DEF Hand
<1>2. poll.event \in Nat /\ poll.who \in Nat \ {0} BY <1>1, PollFacts DEF Delivering
<1>3. poll.who \in DOMAIN listening /\ w \in Watchers BY <1>1, <1>2 DEF TypeOK
<1>4. handed' = [handed EXCEPT ![w] = Append(@, poll.event)] BY DEF Hand
<1>5. handed[w] \in Seq(Nat) BY <1>3 DEF TypeOK
<1>6. handed'[w] = Append(handed[w], poll.event) BY <1>3, <1>4 DEF TypeOK
<1>7. handed' \in [Watchers -> Seq(Nat)] BY <1>2, <1>3, <1>4, <1>5 DEF TypeOK
<1>8. poll' = [poll EXCEPT !.who = @ + 1] BY DEF Hand
<1>9. poll' = [phase |-> "deliver", head |-> poll.head, event |-> poll.event,
               who |-> poll.who + 1]
  BY <1>1, <1>8, PollFacts DEF Delivering
<1>10. QED BY <1>2, <1>3, <1>4, <1>5, <1>6, <1>7, <1>9

LEMMA TypeStep == ASSUME TypeOK, [Next]_vars PROVE TypeOK'
<1> DEFINE Logs(h) == [phase : {"logs"}, head : 1..h]
           Handing(h) == [phase : {"deliver"}, head : 1..h, event : Nat \ {0},
                          who : Nat \ {0}]
<1> USE DEF history
<1>0. /\ Height \in Nat /\ lastSeen \in 0..Height /\ crashes \in 0..MaxCrashes
      /\ poll \in {Idle} \cup Logs(Height) \cup Handing(Height)
  BY DEF TypeOK, Height
<1>1. ASSUME NEW n \in 0..MaxPerBlock, Mine(n) PROVE TypeOK'
  <2>1. Logs(Height) \subseteq Logs(Height') /\ Handing(Height) \subseteq Handing(Height')
    BY <1>0, <1>1, MineFacts
  <2>2. poll' = poll BY <1>1 DEF Mine
  <2>3. poll' \in {Idle} \cup Logs(Height') \cup Handing(Height') BY <1>0, <2>1, <2>2
  <2>4. lastSeen' \in 0..Height' BY <1>0, <1>1, MineFacts DEF Mine
  <2>5. QED BY <1>1, <2>3, <2>4, MineFacts DEF Mine, TypeOK
<1>2. ASSUME NEW w \in Watchers, Register(w) \/ RegisterFails(w) PROVE TypeOK'
  <2>0. since' \in [Watchers -> Nat \cup {Never}]
    <3>1. since' = since \/ since' = [since EXCEPT ![w] = IF @ = Never THEN Height ELSE @]
      BY <1>2 DEF Register, RegisterFails
    <3>2. since \in [Watchers -> Nat \cup {Never}] BY DEF TypeOK
    <3>3. QED BY <1>0, <3>1, <3>2
  <2>1. lastSeen' \in 0..Height BY <1>0, <1>2 DEF Register, RegisterFails
  <2>2. running' \in BOOLEAN BY <1>2 DEF Register, RegisterFails, TypeOK
  <2>3. UNCHANGED <<chain, poll, stopped, crashes, handed, owed>>
    BY <1>2 DEF Register, RegisterFails
  <2>4. QED BY <1>2, <2>0, <2>1, <2>2, <2>3, RegisterFacts DEF TypeOK, Height
<1>3. CASE ReadHead
  <2>1. Height \in 1..Height BY <1>0, <1>3 DEF ReadHead
  <2>2. poll' \in Logs(Height) BY <1>3, <2>1 DEF ReadHead
  <2>3. QED BY <1>3, <2>2 DEF ReadHead, TypeOK, Height
<1>4. CASE GetLogs
  <2>1. UpTo(lastSeen) + 1 \in Nat \ {0} BY <1>0, UpToNat
  <2>2. poll.head \in 1..Height BY <1>4, PollFacts DEF GetLogs
  <2>3. poll' \in Handing(Height) BY <1>4, <2>1, <2>2 DEF GetLogs
  <2>4. QED BY <1>4, <2>3 DEF GetLogs, TypeOK, Height
<1>5. CASE GetLogsFails BY <1>5 DEF GetLogsFails, TypeOK, Height
<1>6. CASE Hand
  <2>1. poll.head \in 1..Height /\ poll.event \in Nat \ {0} /\ poll.who \in Nat \ {0}
    BY <1>6, PollFacts DEF Hand, Delivering
  <2>2. poll' \in Handing(Height) BY <1>6, <2>1, HandFacts
  <2>3. owed' \subseteq owed BY <1>6 DEF Hand
  <2>4. QED BY <1>6, <2>2, <2>3, HandFacts DEF Hand, TypeOK, Height
<1>7. CASE NextEvent
  <2>1. /\ poll.head \in 1..Height /\ poll.event \in Nat \ {0}
        /\ poll = [phase |-> "deliver", head |-> poll.head, event |-> poll.event,
                   who |-> poll.who]
    BY <1>7, PollFacts DEF NextEvent, Delivering
  <2>2. poll' = [poll EXCEPT !.event = poll.event + 1, !.who = 1]
    BY <1>7 DEF NextEvent
  <2>21. poll' = [phase |-> "deliver", head |-> poll.head, event |-> poll.event + 1,
                  who |-> 1]
    <3> DEFINE h == poll.head  e == poll.event  k == poll.who
    <3>1. poll = [phase |-> "deliver", head |-> h, event |-> e, who |-> k] BY <2>1
    <3>2. poll' = [poll EXCEPT !.event = e + 1, !.who = 1] BY <2>2
    <3> HIDE DEF h, e, k
    <3>3. poll' = [phase |-> "deliver", head |-> h, event |-> e + 1, who |-> 1]
      BY <3>1, <3>2
    <3>4. QED BY <3>3 DEF h, e
  <2>3. poll' \in Handing(Height) BY <2>1, <2>21
  <2>4. QED BY <1>7, <2>3 DEF NextEvent, TypeOK, Height
<1>8. CASE Done
  <2>1. poll.head \in 0..Height BY <1>0, <1>8, PollFacts DEF Done
  <2>2. QED BY <1>8, <2>1 DEF Done, TypeOK, Height
<1>9. CASE Close BY <1>9 DEF Close, TypeOK, Height
<1>10. CASE Crash
  <2>1. owed' \subseteq Watchers \X Nat
    <3>1. ASSUME Delivering PROVE InHand \subseteq Watchers \X Nat
      <4>1. poll.event \in Nat /\ UpTo(poll.head) \in Nat
        BY <1>0, <3>1, PollFacts, UpToNat DEF Delivering
      <4>2. \A i \in DOMAIN listening : listening[i] \in Watchers BY DEF TypeOK
      <4>3. QED BY <4>1, <4>2 DEF InHand
    <3>2. QED BY <1>10, <3>1 DEF Crash, TypeOK
  <2>2. crashes' \in 0..MaxCrashes BY <1>0, <1>10, BoundsAssumption DEF Crash
  <2>3. <<>> \in Seq(Nat) /\ <<>> \in Seq(Watchers) /\ Len(<<>>) = 0 OBVIOUS
  <2>31. handed' \in [Watchers -> Seq(Nat)] /\ listening' \in Seq(Watchers)
    BY <1>10, <2>3 DEF Crash
  <2>32. listening' = <<>> BY <1>10 DEF Crash
  <2>4. Len(listening') <= MaxCalls BY <2>3, <2>32, BoundsAssumption
  <2>5. since' \in [Watchers -> Nat \cup {Never}] BY <1>10 DEF Crash
  <2>6. /\ running' = FALSE /\ lastSeen' = 0 /\ poll' = Idle /\ stopped' = FALSE
        /\ chain' = chain /\ 0 \in 0..Height
    BY <1>0, <1>10 DEF Crash
  <2>7. QED BY <2>1, <2>2, <2>31, <2>4, <2>5, <2>6 DEF TypeOK, Height
<1>11. CASE UNCHANGED vars BY <1>11 DEF vars, TypeOK, Height
<1>12. QED BY <1>1, <1>2, <1>3, <1>4, <1>5, <1>6, <1>7, <1>8, <1>9, <1>10, <1>11
       DEF Next, Deliver

LEMMA GrowingStep == ASSUME TypeOK, Growing, [Next]_vars PROVE Growing'
<1>1. CASE \E n \in 0..MaxPerBlock : Mine(n)
  <2>1. PICK n \in 0..MaxPerBlock : Mine(n) BY <1>1
  <2>2. Height \in Nat /\ n \in Nat BY BoundsAssumption DEF TypeOK, Height
  <2>3. \A b \in 0..Height : UpTo(b)' = UpTo(b) /\ UpTo(b) \in Nat /\ UpTo(b) <= UpTo(Height)
    BY <2>1, <2>2, MineFacts, UpToNat DEF Growing
  <2>4. UpTo(Height)' = UpTo(Height) + n /\ Height' = Height + 1 BY <2>1, MineFacts
  <2>5. SUFFICES ASSUME NEW a \in 0..(Height + 1), NEW b \in 0..(Height + 1), a <= b
                 PROVE  UpTo(a)' <= UpTo(b)'
    BY <2>4 DEF Growing
  <2>6. CASE b <= Height
    <3>1. a \in 0..Height /\ b \in 0..Height BY <2>2, <2>5, <2>6
    <3>2. QED BY <2>3, <2>5, <3>1 DEF Growing
  <2>7. CASE ~(b <= Height)
    <3>1. b = Height' BY <2>2, <2>4, <2>7
    <3>2. UpTo(b)' = UpTo(Height) + n BY <2>4, <3>1
    <3>3. CASE a <= Height
      <4>1. a \in 0..Height BY <2>2, <3>3
      <4>2. UpTo(a)' = UpTo(a) /\ UpTo(a) \in Nat /\ UpTo(a) <= UpTo(Height) BY <2>3, <4>1
      <4>3. UpTo(Height) \in Nat BY <2>2, <2>3
      <4>4. QED BY <2>2, <3>2, <4>2, <4>3
    <3>4. CASE ~(a <= Height)
      <4>1. a = b BY <2>2, <2>5, <3>1, <3>4, <2>4
      <4>2. UpTo(Height) + n \in Nat BY <2>2, <2>3
      <4>3. QED BY <3>2, <4>1, <4>2
    <3>5. QED BY <3>3, <3>4
  <2>8. QED BY <2>6, <2>7
<1>2. CASE UNCHANGED chain BY <1>2 DEF Growing, UpTo, Height
<1>3. QED BY <1>1, <1>2
      DEF Next, vars, Register, RegisterFails, ReadHead, GetLogs, GetLogsFails, Deliver,
          Hand, NextEvent, Done, Close, Crash

\* A block that was mined stays as it is.
LEMMA BlocksStay ==
  ASSUME TypeOK, [Next]_vars
  PROVE  /\ Height \in Nat /\ Height' \in Nat /\ Height <= Height'
         /\ \A b \in 0..Height : UpTo(b)' = UpTo(b) /\ UpTo(b) \in Nat
<1>0. Height \in Nat BY DEF TypeOK, Height
<1>1. CASE \E n \in 0..MaxPerBlock : Mine(n) BY <1>0, <1>1, MineFacts, UpToNat
<1>2. CASE UNCHANGED chain BY <1>0, <1>2, UpToNat DEF UpTo, Height
<1>3. QED BY <1>1, <1>2
      DEF Next, vars, Register, RegisterFails, ReadHead, GetLogs, GetLogsFails, Deliver,
          Hand, NextEvent, Done, Close, Crash

\* The event in hand, while the thread and the blocks stay.
LEMMA SamePoll ==
  ASSUME TypeOK, [Next]_vars, poll' = poll
  PROVE  Delivering' <=> Delivering
<1>1. ASSUME poll.phase = "deliver" PROVE UpTo(poll.head)' = UpTo(poll.head)
  <2>1. poll.head \in 0..Height /\ poll'.head = poll.head BY <1>1, PollFacts
  <2>2. QED BY <2>1, BlocksStay
<1>2. QED BY <1>1 DEF Delivering

LEMMA PollStep == ASSUME PollInv, [Next]_vars PROVE PollOK'
<1>0. TypeOK /\ Growing /\ PollOK BY DEF PollInv
<1>00. lastSeen \in 0..Height /\ UpTo(lastSeen) \in Nat BY <1>0, UpToNat DEF TypeOK
<1>01. Idle.phase = "idle" BY DEF Idle
<1> DEFINE AtEvent == /\ UpTo(lastSeen) < poll.event
                      /\ poll.event <= UpTo(poll.head) + 1
                      /\ poll.who <= Len(listening) + 1
                      /\ Delivering \/ poll.who = 1
<1>1. ASSUME poll' = poll, running => lastSeen' = lastSeen /\ running',
             ~running' => since' = since, Len(listening') >= Len(listening)
      PROVE  PollOK'
  <2>1. poll # Idle => running BY <1>0 DEF PollOK
  <2>2. ~running' => poll' = Idle /\ \A w \in Watchers : since'[w] = Never
    BY <1>0, <1>1 DEF PollOK
  <2>3. poll' # Idle => lastSeen' < poll'.head BY <1>0, <1>1, <2>1 DEF PollOK
  <2>4. ASSUME poll.phase = "deliver" PROVE AtEvent'
    <3>1. lastSeen' = lastSeen /\ AtEvent BY <1>0, <1>1, <2>1, <2>4, PollFacts DEF PollOK
    <3>2. poll.head \in 0..Height BY <1>0, <2>4, PollFacts
    <3>3. UpTo(lastSeen)' = UpTo(lastSeen) /\ UpTo(poll.head)' = UpTo(poll.head)
      BY <1>0, <1>00, <1>1, <3>1, <3>2, BlocksStay
    <3>4. Delivering' <=> Delivering BY <1>0, <1>1, SamePoll
    <3>5. poll.who <= Len(listening')  + 1
      <4>1. Len(listening) \in Nat /\ Len(listening') \in Nat
        BY <1>0, TypeStep DEF TypeOK
      <4>2. poll.who \in Nat BY <1>0, <2>4, PollFacts
      <4>3. QED BY <1>1, <3>1, <4>1, <4>2
    <3>6. QED BY <1>1, <3>1, <3>3, <3>4, <3>5
  <2>5. QED BY <1>1, <2>2, <2>3, <2>4 DEF PollOK
<1>2. ASSUME NEW n \in 0..MaxPerBlock, Mine(n) PROVE PollOK'
  BY <1>0, <1>1, <1>2 DEF Mine, history, TypeOK
<1>3. ASSUME NEW w \in Watchers, Register(w) \/ RegisterFails(w) PROVE PollOK'
  <2>1. Len(listening') >= Len(listening) BY <1>0, <1>3, RegisterFacts DEF TypeOK
  <2>2. poll' = poll /\ (running => lastSeen' = lastSeen /\ running')
    BY <1>3 DEF Register, RegisterFails
  <2>3. ~running' => since' = since BY <1>3 DEF Register, RegisterFails, history
  <2>4. QED BY <1>1, <2>1, <2>2, <2>3
<1>4. CASE ReadHead
  <2>1. /\ running' /\ poll'.phase = "logs" /\ poll'.head = Height
        /\ lastSeen' < Height
    BY <1>4 DEF ReadHead
  <2>2. QED BY <2>1, <1>01 DEF PollOK
<1>5. CASE GetLogs
  <2>1. poll.phase = "logs" /\ poll.head \in 0..Height /\ lastSeen < poll.head /\ running
    BY <1>0, <1>01, <1>5, PollFacts DEF GetLogs, PollOK
  <2>2. /\ poll'.phase = "deliver" /\ poll'.head = poll.head /\ poll'.who = 1
        /\ poll'.event = UpTo(lastSeen) + 1 /\ lastSeen' = lastSeen /\ running'
        /\ listening' = listening
    BY <1>5, <2>1 DEF GetLogs
  <2>3. UpTo(lastSeen) <= UpTo(poll.head) /\ UpTo(poll.head) \in Nat
    BY <1>0, <1>00, <2>1, UpToNat DEF Growing
  <2>4. UpTo(lastSeen)' = UpTo(lastSeen) /\ UpTo(poll.head)' = UpTo(poll.head)
    BY <1>0, <1>00, <2>1, <2>2, BlocksStay
  <2>5. Len(listening) \in Nat BY <1>0 DEF TypeOK
  <2>6. AtEvent' BY <1>00, <2>2, <2>3, <2>4, <2>5
  <2>7. QED BY <2>1, <2>2, <2>6 DEF PollOK
<1>6. CASE Hand
  <2>1. /\ Delivering /\ poll.phase = "deliver" /\ poll.who <= Len(listening)
        /\ poll.who \in Nat /\ AtEvent /\ lastSeen < poll.head /\ running
    BY <1>0, <1>01, <1>6, PollFacts DEF Hand, Delivering, PollOK
  <2>2. /\ poll'.phase = "deliver" /\ poll'.head = poll.head /\ poll'.who = poll.who + 1
        /\ poll'.event = poll.event
    BY <1>0, <1>6, HandFacts
  <2>3. UNCHANGED <<chain, lastSeen, running, listening>> BY <1>6 DEF Hand
  <2>4. poll.who + 1 <= Len(listening) + 1 BY <1>0, <2>1 DEF TypeOK
  <2>5. AtEvent' /\ Delivering' BY <2>1, <2>2, <2>3, <2>4 DEF Delivering, UpTo
  <2>6. QED BY <2>1, <2>2, <2>3, <2>5 DEF PollOK
<1>7. CASE NextEvent
  <2>1. /\ Delivering /\ poll.phase = "deliver" /\ AtEvent /\ lastSeen < poll.head /\ running
    BY <1>0, <1>01, <1>7, PollFacts DEF NextEvent, Delivering, PollOK
  <2>2. /\ poll'.phase = "deliver" /\ poll'.head = poll.head /\ poll'.who = 1
        /\ poll'.event = poll.event + 1
    BY <1>0, <1>7, PollFacts DEF NextEvent, Delivering
  <2>3. UNCHANGED <<chain, lastSeen, running, listening>> BY <1>7 DEF NextEvent
  <2>4. poll.event \in Nat /\ poll.head \in 0..Height BY <1>0, <2>1, PollFacts
  <2>5. UpTo(poll.head) \in Nat /\ Len(listening) \in Nat BY <1>0, <2>4, UpToNat DEF TypeOK
  <2>6. poll.event <= UpTo(poll.head) BY <2>1 DEF Delivering
  <2>7. AtEvent'
    <3>1. UpTo(lastSeen)' = UpTo(lastSeen) /\ UpTo(poll.head)' = UpTo(poll.head)
      BY <2>2, <2>3 DEF UpTo
    <3>2. QED BY <1>00, <2>1, <2>2, <2>3, <2>4, <2>5, <2>6, <3>1
  <2>8. QED BY <2>1, <2>2, <2>3, <2>7 DEF PollOK
<1>8. CASE Done \/ GetLogsFails
  <2>1. poll' = Idle /\ running' = running BY <1>8 DEF Done, GetLogsFails
  <2>2. since' = since BY <1>8 DEF Done, GetLogsFails, history
  <2>3. QED BY <1>0, <1>01, <2>1, <2>2 DEF PollOK
<1>9. CASE Close BY <1>0, <1>1, <1>9 DEF Close, history, TypeOK
<1>10. CASE Crash BY <1>01, <1>10 DEF Crash, PollOK
<1>11. CASE UNCHANGED vars BY <1>0, <1>1, <1>11 DEF vars, TypeOK
<1>12. QED BY <1>2, <1>3, <1>4, <1>5, <1>6, <1>7, <1>8, <1>9, <1>10, <1>11
       DEF Next, Deliver

LEMMA PollInvariant == Spec => []PollInv
<1>1. Init => PollInv
  <2>1. ASSUME Init PROVE Height = 0 BY <2>1 DEF Init, Height
  <2>2. <<>> \in Seq(Nat) /\ <<>> \in Seq(Watchers) /\ Len(<<>>) = 0 OBVIOUS
  <2>3. ASSUME Init PROVE TypeOK
    <3>1. chain \in Seq(Nat) /\ listening \in Seq(Watchers) /\ Len(listening) <= MaxCalls
      BY <2>2, <2>3, BoundsAssumption DEF Init
    <3>2. handed \in [Watchers -> Seq(Nat)] BY <2>2, <2>3 DEF Init
    <3>30. Height = 0 BY <2>1, <2>3
    <3>31. lastSeen = 0 /\ crashes = 0 /\ owed = {} BY <2>3 DEF Init
    <3>32. since = [w \in Watchers |-> Never] BY <2>3 DEF Init
    <3>3. /\ Height <= MaxBlocks /\ lastSeen \in 0..Height /\ crashes \in 0..MaxCrashes
          /\ since \in [Watchers -> Nat \cup {Never}] /\ owed \subseteq Watchers \X Nat
      BY <3>30, <3>31, <3>32, BoundsAssumption
    <3>4. poll = Idle /\ running \in BOOLEAN /\ stopped \in BOOLEAN BY <2>3 DEF Init
    <3>5. QED BY <3>1, <3>2, <3>3, <3>4 DEF TypeOK
  <2>4. ASSUME Init PROVE Growing
    <3>1. 0..Height = {0} BY <2>1, <2>4
    <3>2. QED BY <3>1 DEF Growing, UpTo
  <2>5. ASSUME Init PROVE PollOK BY <2>5 DEF Init, PollOK, Idle
  <2>6. QED BY <2>3, <2>4, <2>5 DEF PollInv
<1>2. PollInv /\ [Next]_vars => PollInv'
  BY TypeStep, GrowingStep, PollStep DEF PollInv
<1>3. QED BY <1>1, <1>2, PTL DEF Spec

-----------------------------------------------------------------------------
(* What the cursor has passed was handed out. *)

\* A thread that does not move, and callbacks that stay where they are.
LEMMA GivenStable ==
  ASSUME PollInv, GivenInv, [Next]_vars, poll' = poll, UNCHANGED <<since, handed>>,
         running => lastSeen' = lastSeen,
         \A i \in DOMAIN listening : i \in DOMAIN listening' /\ listening'[i] = listening[i]
  PROVE  GivenInv'
<1>0. TypeOK /\ PollOK BY DEF PollInv
<1> SUFFICES ASSUME NEW w \in Watchers, since[w] # Never
             PROVE  /\ since[w] \in 0..Height'
                    /\ \E i \in DOMAIN listening' : listening'[i] = w
                    /\ \A e \in Nat : UpTo(since[w])' < e /\ e <= UpTo(lastSeen)'
                                        => e \in Given(w)'
                    /\ poll.phase = "deliver" =>
                         \A e \in Nat : UpTo(since[w])' < e /\ e < poll.event
                                          => e \in Given(w)'
                    /\ Delivering' /\ UpTo(since[w])' < poll.event /\ w \in Called'
                         => poll.event \in Given(w)'
  BY DEF GivenInv
<1>1. running /\ lastSeen' = lastSeen BY <1>0 DEF PollOK
<1>2. since[w] \in 0..Height /\ lastSeen \in 0..Height BY <1>0 DEF GivenInv, TypeOK
<1>3. UpTo(since[w])' = UpTo(since[w]) /\ UpTo(lastSeen)' = UpTo(lastSeen)
  BY <1>0, <1>1, <1>2, BlocksStay
<1>4. Given(w)' = Given(w) BY DEF Given
<1>5. Delivering' <=> Delivering BY <1>0, SamePoll
<1>6. ASSUME Delivering PROVE Called' = Called
  <2>1. poll.who \in Nat \ {0} /\ poll.who <= Len(listening) + 1
    BY <1>0, <1>6, PollFacts DEF PollOK, Delivering
  <2>2. Len(listening) \in Nat /\ DOMAIN listening = 1..Len(listening) BY <1>0 DEF TypeOK
  <2>3. \A i \in 1..(poll.who - 1) : i \in DOMAIN listening BY <2>1, <2>2
  <2>4. QED BY <2>3 DEF Called
<1>7. since[w] \in 0..Height' BY <1>0, <1>2, BlocksStay
<1>8. QED BY <1>1, <1>3, <1>4, <1>5, <1>6, <1>7 DEF GivenInv

LEMMA GivenStep == ASSUME PollInv, GivenInv, [Next]_vars PROVE GivenInv'
<1>0. TypeOK /\ Growing /\ PollOK BY DEF PollInv
<1>00. /\ lastSeen \in 0..Height /\ UpTo(lastSeen) \in Nat /\ Height \in Nat
       /\ Len(listening) \in Nat /\ DOMAIN listening = 1..Len(listening)
  BY <1>0, UpToNat, BlocksStay DEF TypeOK
<1>01. Idle.phase = "idle" BY DEF Idle
<1>1. ASSUME NEW n \in 0..MaxPerBlock, Mine(n) PROVE GivenInv'
  BY <1>0, <1>1, GivenStable DEF Mine, history
<1>2. ASSUME NEW w \in Watchers, Register(w) PROVE GivenInv'
  <2>1. /\ poll' = poll /\ handed' = handed /\ (running => lastSeen' = lastSeen)
        /\ lastSeen' \in 0..Height /\ chain' = chain
    BY <1>00, <1>2 DEF Register
  <2>2. \A i \in DOMAIN listening : i \in DOMAIN listening' /\ listening'[i] = listening[i]
    <3>1. /\ listening' \in Seq(Watchers) /\ Len(listening') = Len(listening) + 1
          /\ \A i \in 1..Len(listening) : listening'[i] = listening[i]
      BY <1>0, <1>2, RegisterFacts
    <3>2. DOMAIN listening' = 1..(Len(listening) + 1) BY <3>1
    <3>3. QED BY <1>00, <3>1, <3>2
  <2>3. CASE since[w] # Never
    BY <1>0, <1>2, <2>1, <2>2, <2>3, GivenStable DEF Register, TypeOK
  <2>4. CASE since[w] = Never
    <3>1. since' = [since EXCEPT ![w] = Height] BY <1>2, <2>4 DEF Register
    <3>2. since'[w] = Height BY <1>0, <3>1 DEF TypeOK
    <3>3. Len(listening') \in DOMAIN listening' /\ listening'[Len(listening')] = w
      BY <1>0, <1>00, <1>2, RegisterFacts
    <3>4. \A b \in 0..Height : UpTo(b)' = UpTo(b) /\ UpTo(b) <= UpTo(Height)
                               /\ UpTo(b) \in Nat
      BY <1>0, <1>00, <2>1, UpToNat DEF Growing, UpTo
    <3>5. UpTo(lastSeen)' <= UpTo(Height) /\ UpTo(lastSeen)' \in Nat
      BY <2>1, <3>4
    <3>6. ASSUME poll.phase = "deliver" PROVE UpTo(poll.head) <= UpTo(Height)
      BY <1>0, <3>4, <3>6, PollFacts
    <3>7. UpTo(Height) \in Nat /\ UpTo(Height)' = UpTo(Height) BY <1>00, <2>1, <3>4 DEF UpTo, Height
    <3>8. ASSUME NEW v \in Watchers, since'[v] # Never
          PROVE  /\ since'[v] \in 0..Height'
                 /\ \E i \in DOMAIN listening' : listening'[i] = v
                 /\ \A e \in Nat : UpTo(since[v])' < e /\ e <= UpTo(lastSeen)'
                                     => e \in Given(v)'
                 /\ poll.phase = "deliver" =>
                      \A e \in Nat : UpTo(since[v])' < e /\ e < poll.event
                                       => e \in Given(v)'
                 /\ Delivering' /\ UpTo(since[v])' < poll.event /\ v \in Called'
                      => poll.event \in Given(v)'
      <4>1. CASE v = w
        <5>1. UpTo(since[v])' = UpTo(Height) BY <1>00, <3>2, <3>4, <4>1 DEF UpTo
        <5>2. since'[v] \in 0..Height' BY <1>00, <2>1, <3>2, <4>1 DEF Height
        <5>3. \A e \in Nat : ~(UpTo(since[v])' < e /\ e <= UpTo(lastSeen)')
          BY <3>5, <3>7, <5>1
        <5>4. poll.phase = "deliver" =>
                /\ poll.event \in Nat /\ UpTo(poll.head) \in Nat
                /\ poll.event <= UpTo(poll.head) + 1
          BY <1>0, <1>01, PollFacts, UpToNat DEF PollOK
        <5>5. poll.phase = "deliver" =>
                \A e \in Nat : ~(UpTo(since[v])' < e /\ e < poll.event)
          BY <3>6, <3>7, <5>1, <5>4
        <5>6. Delivering' <=> Delivering BY <1>0, <2>1, SamePoll
        <5>7. Delivering => ~(UpTo(since[v])' < poll.event)
          BY <3>6, <3>7, <5>1, <5>4 DEF Delivering
        <5>8. QED BY <3>3, <4>1, <5>2, <5>3, <5>5, <5>6, <5>7
      <4>2. CASE v # w
        <5>1. since'[v] = since[v] /\ since[v] # Never BY <1>0, <3>1, <3>8, <4>2 DEF TypeOK
        <5>2. since[v] \in 0..Height BY <5>1 DEF GivenInv
        <5>3. UpTo(since[v])' = UpTo(since[v]) BY <2>1, <5>1 DEF UpTo
        <5>4. lastSeen' = lastSeen BY <1>0, <2>1, <5>1 DEF PollOK
        <5>5. UpTo(lastSeen)' = UpTo(lastSeen) BY <2>1, <5>4 DEF UpTo
        <5>6. Given(v)' = Given(v) BY <2>1 DEF Given
        <5>7. Delivering' <=> Delivering BY <1>0, <2>1, SamePoll
        <5>8. ASSUME Delivering PROVE Called' = Called
          <6>1. poll.who \in Nat \ {0} /\ poll.who <= Len(listening) + 1
            BY <1>0, <1>01, <5>8, PollFacts DEF PollOK, Delivering
          <6>2. \A i \in 1..(poll.who - 1) : i \in DOMAIN listening BY <1>00, <6>1
          <6>3. QED BY <2>1, <2>2, <6>2 DEF Called
        <5>9. \E i \in DOMAIN listening' : listening'[i] = v
          BY <2>2, <5>1 DEF GivenInv
        <5>10. QED BY <2>1, <5>1, <5>2, <5>3, <5>5, <5>6, <5>7, <5>8, <5>9
               DEF GivenInv, Height
      <4>3. QED BY <4>1, <4>2
    <3>9. QED BY <2>1, <3>8 DEF GivenInv
  <2>5. QED BY <2>3, <2>4
<1>3. ASSUME NEW w \in Watchers, RegisterFails(w) PROVE GivenInv'
  <2>1. \A v \in Watchers : since'[v] = Never
    BY <1>0, <1>3 DEF RegisterFails, history, PollOK
  <2>2. QED BY <2>1 DEF GivenInv
<1>4. CASE ReadHead \/ GetLogsFails
  <2>1. /\ poll.phase # "deliver" /\ poll'.phase # "deliver"
        /\ UNCHANGED <<chain, listening, lastSeen, since, handed>>
    BY <1>4, <1>01 DEF ReadHead, GetLogsFails, history
  <2>2. QED BY <2>1 DEF GivenInv, Delivering, Given, UpTo, Height
<1>5. CASE GetLogs
  <2>1. UNCHANGED <<chain, listening, lastSeen, since, handed>>
    BY <1>5 DEF GetLogs, history
  <2>2. poll'.phase = "deliver" /\ poll'.who = 1 /\ poll'.event = UpTo(lastSeen) + 1
    BY <1>5 DEF GetLogs
  <2>3. Called' = {} BY <2>2 DEF Called
  <2>4. \A e \in Nat : e < poll'.event => e <= UpTo(lastSeen) BY <1>00, <2>2
  <2>5. QED BY <2>1, <2>2, <2>3, <2>4 DEF GivenInv, Given, UpTo, Height
<1>6. CASE Hand
  <2>0. PICK h \in Watchers : h = listening[poll.who] BY <1>0, <1>6, HandFacts
  <2>1. UNCHANGED <<chain, listening, lastSeen, since>> BY <1>6 DEF Hand
  <2>2. /\ Delivering /\ poll.phase = "deliver" /\ poll.who \in Nat \ {0}
        /\ poll.event \in Nat
    BY <1>0, <1>6, PollFacts DEF Hand, Delivering
  <2>3. /\ poll'.phase = "deliver" /\ poll'.head = poll.head /\ poll'.event = poll.event
        /\ poll'.who = poll.who + 1
    BY <1>0, <1>6, HandFacts
  <2>4. \A w \in Watchers : Given(w) \subseteq Given(w)'
    <3>1. h \in Watchers /\ handed' = [handed EXCEPT ![h] = Append(@, poll.event)]
      BY <1>0, <1>6, <2>0, HandFacts
    <3>2. Given(h) \subseteq Given(h)'
      <4>1. /\ Len(handed'[h]) = Len(handed[h]) + 1
            /\ \A i \in 1..Len(handed[h]) : handed'[h][i] = handed[h][i]
            /\ handed[h] \in Seq(Nat) /\ handed'[h] \in Seq(Nat)
        BY <1>0, <1>6, <2>0, HandFacts DEF TypeOK
      <4>2. /\ Len(handed[h]) \in Nat /\ DOMAIN handed[h] = 1..Len(handed[h])
            /\ DOMAIN handed'[h] = 1..(Len(handed[h]) + 1)
        BY <4>1
      <4>3. QED BY <4>1, <4>2 DEF Given
    <3>3. ASSUME NEW w \in Watchers, w # h PROVE Given(w)' = Given(w)
      BY <1>0, <3>1, <3>3 DEF TypeOK, Given
    <3>4. QED BY <3>2, <3>3
  <2>5. poll.event \in Given(h)'
    <3>1. /\ handed'[h] \in Seq(Nat) /\ Len(handed'[h]) = Len(handed[h]) + 1
          /\ handed'[h][Len(handed[h]) + 1] = poll.event /\ handed[h] \in Seq(Nat)
      BY <1>0, <1>6, <2>0, HandFacts DEF TypeOK
    <3>2. Len(handed[h]) + 1 \in DOMAIN handed'[h] BY <3>1
    <3>3. QED BY <3>1, <3>2 DEF Given
  <2>6. Called' = Called \cup {h}
    <3>1. 1..poll.who = 1..(poll.who - 1) \cup {poll.who} BY <2>2
    <3>2. poll'.who - 1 = poll.who BY <2>2, <2>3
    <3>3. QED BY <2>0, <2>1, <3>1, <3>2 DEF Called
  <2>7. ASSUME NEW w \in Watchers, UpTo(since[w]) < poll.event, w \in Called', since[w] # Never
        PROVE  poll.event \in Given(w)'
    BY <2>2, <2>4, <2>5, <2>6, <2>7 DEF GivenInv
  <2>8. QED BY <2>1, <2>2, <2>3, <2>4, <2>7 DEF GivenInv, UpTo, Height
<1>7. CASE NextEvent
  <2>1. UNCHANGED <<chain, listening, lastSeen, since, handed>>
    BY <1>7 DEF NextEvent, history
  <2>2. /\ Delivering /\ poll.phase = "deliver" /\ poll.event \in Nat
        /\ poll.who > Len(listening) /\ poll.who \in Nat
    BY <1>0, <1>7, PollFacts DEF NextEvent, Delivering
  <2>3. /\ poll'.phase = "deliver" /\ poll'.event = poll.event + 1 /\ poll'.who = 1
    BY <1>0, <1>7, PollFacts DEF NextEvent, Delivering
  <2>4. Called' = {} BY <2>3 DEF Called
  <2>5. ASSUME NEW w \in Watchers, since[w] # Never, UpTo(since[w]) < poll.event
        PROVE  poll.event \in Given(w)
    <3>1. PICK i \in DOMAIN listening : listening[i] = w BY <2>5 DEF GivenInv
    <3>2. i \in 1..(poll.who - 1) BY <1>00, <2>2
    <3>3. QED BY <2>2, <2>5, <3>1, <3>2 DEF GivenInv, Called
  <2>6. ASSUME NEW w \in Watchers, since[w] # Never, NEW e \in Nat,
               UpTo(since[w]) < e, e < poll.event + 1
        PROVE  e \in Given(w)
    <3>1. CASE e = poll.event BY <2>5, <2>6, <3>1
    <3>2. CASE e # poll.event
      <4>1. e < poll.event BY <2>2, <2>6, <3>2
      <4>2. QED BY <2>2, <2>6, <4>1 DEF GivenInv
    <3>3. QED BY <3>1, <3>2
  <2>7. QED BY <2>1, <2>3, <2>4, <2>6 DEF GivenInv, Given, UpTo, Height
<1>8. CASE Done
  <2>1. UNCHANGED <<chain, listening, since, handed>> BY <1>8 DEF Done, history
  <2>2. /\ lastSeen' = poll.head /\ poll.phase = "deliver" /\ ~Delivering /\ poll'.phase = "idle"
    BY <1>01, <1>8 DEF Done
  <2>3. poll.event \in Nat /\ poll.head \in 0..Height /\ UpTo(poll.head) \in Nat
    BY <1>0, <2>2, PollFacts, UpToNat
  <2>4. UpTo(poll.head) < poll.event BY <2>2, <2>3 DEF Delivering
  <2>5. UpTo(lastSeen)' = UpTo(poll.head) BY <2>1, <2>2 DEF UpTo
  <2>6. ASSUME NEW w \in Watchers, since[w] # Never, NEW e \in Nat,
               UpTo(since[w]) < e, e <= UpTo(poll.head)
        PROVE  e \in Given(w)
    <3>1. e < poll.event BY <2>3, <2>4, <2>6
    <3>2. QED BY <2>2, <2>6, <3>1 DEF GivenInv
  <2>7. ~Delivering' BY <2>2 DEF Delivering
  <2>8. ASSUME NEW w \in Watchers
        PROVE  Given(w)' = Given(w) /\ UpTo(since[w])' = UpTo(since[w])
    BY <2>1 DEF Given, UpTo
  <2>9. Height' = Height BY <2>1 DEF Height
  <2>10. QED BY <2>1, <2>2, <2>5, <2>6, <2>7, <2>8, <2>9 DEF GivenInv
<1>9. CASE Close BY <1>0, <1>9, GivenStable DEF Close, history
<1>10. CASE Crash
  <2>1. \A v \in Watchers : since'[v] = Never BY <1>10 DEF Crash
  <2>2. QED BY <2>1 DEF GivenInv
<1>11. CASE UNCHANGED vars BY <1>0, <1>11, GivenStable DEF vars
<1>12. QED BY <1>1, <1>2, <1>3, <1>4, <1>5, <1>6, <1>7, <1>8, <1>9, <1>10, <1>11
       DEF Next, Deliver

\* "Deliver every Revoked(id) after this call", for what the cursor has passed.
THEOREM CursorSkipsNothing == Spec => []NothingSkipped
<1>1. Init => GivenInv BY DEF Init, GivenInv
<1>2. PollInv /\ GivenInv /\ [Next]_vars => GivenInv' BY GivenStep
<1>3. PollInv /\ GivenInv => NothingSkipped
  <2>1. SUFFICES ASSUME PollInv, GivenInv, NEW w \in Watchers, since[w] # Never,
                        NEW e \in (UpTo(since[w]) + 1)..UpTo(lastSeen)
                 PROVE  e \in Given(w)
    BY DEF NothingSkipped
  <2>2. since[w] \in 0..Height /\ lastSeen \in 0..Height /\ TypeOK
    BY <2>1 DEF GivenInv, PollInv, TypeOK
  <2>3. UpTo(since[w]) \in Nat /\ UpTo(lastSeen) \in Nat BY <2>2, UpToNat
  <2>4. e \in Nat /\ UpTo(since[w]) < e /\ e <= UpTo(lastSeen) BY <2>1, <2>3
  <2>5. QED BY <2>1, <2>4 DEF GivenInv
<1>4. QED BY <1>1, <1>2, <1>3, PollInvariant, PTL DEF Spec

-----------------------------------------------------------------------------
(* Events are handed out in order and once. *)

\* Nothing was handed out, the event in hand stays, and the cursor does not go
\* back.
LEMMA OrderStable ==
  ASSUME PollInv, OrderInv, [Next]_vars, handed' = handed, poll' = poll,
         lastSeen' \in lastSeen..Height,
         \A i \in DOMAIN listening : i \in DOMAIN listening' /\ listening'[i] = listening[i]
  PROVE  OrderInv'
<1>0. TypeOK /\ Growing /\ PollOK BY DEF PollInv
<1>1. lastSeen \in 0..Height /\ lastSeen' \in 0..Height /\ Height \in Nat
  BY <1>0, BlocksStay DEF TypeOK
<1>2. /\ UpTo(lastSeen) \in Nat /\ UpTo(lastSeen)' \in Nat
      /\ UpTo(lastSeen) <= UpTo(lastSeen)'
  <2>1. PICK b \in 0..Height : b = lastSeen' BY <1>1
  <2>2. UpTo(b)' = UpTo(b) /\ UpTo(b) \in Nat BY <1>0, BlocksStay
  <2>3. UpTo(lastSeen)' = UpTo(b) BY <2>1, <2>2 DEF UpTo
  <2>4. UpTo(lastSeen) <= UpTo(b) BY <1>1, <2>1 DEF Growing, PollInv
  <2>5. QED BY <1>0, <1>1, <2>2, <2>3, <2>4, UpToNat
<1>3. poll.phase = "deliver" => Called \subseteq Called'
  <2>1. poll.phase = "deliver" => poll.who \in Nat \ {0} /\ poll.who <= Len(listening) + 1
    BY <1>0, PollFacts DEF PollOK, Idle
  <2>2. Len(listening) \in Nat /\ DOMAIN listening = 1..Len(listening) BY <1>0 DEF TypeOK
  <2>3. poll.phase = "deliver" => \A i \in 1..(poll.who - 1) : i \in DOMAIN listening
    BY <2>1, <2>2
  <2>4. QED BY <2>3 DEF Called
<1>4. SUFFICES ASSUME NEW w \in Watchers, ListedOnce(w)' PROVE Sorted(w)' /\ Behind(w)'
  BY DEF OrderInv
<1>5. ListedOnce(w) BY <1>4 DEF ListedOnce
<1>6. Sorted(w) /\ Behind(w) BY <1>5 DEF OrderInv
<1>7. \A j \in DOMAIN handed[w] : handed[w][j] \in Nat BY <1>0 DEF TypeOK
<1>8. Behind(w)' BY <1>2, <1>3, <1>6, <1>7 DEF Behind
<1>9. QED BY <1>6, <1>8 DEF Sorted

LEMMA OrderStep == ASSUME PollInv, OrderInv, [Next]_vars PROVE OrderInv'
<1>0. TypeOK /\ Growing /\ PollOK BY DEF PollInv
<1>00. /\ lastSeen \in 0..Height /\ UpTo(lastSeen) \in Nat /\ Height \in Nat
       /\ Len(listening) \in Nat /\ DOMAIN listening = 1..Len(listening)
  BY <1>0, UpToNat, BlocksStay DEF TypeOK
<1>01. Idle.phase = "idle" BY DEF Idle
<1>02. \A w \in Watchers : /\ handed[w] \in Seq(Nat)
                           /\ \A j \in DOMAIN handed[w] : handed[w][j] \in Nat
  BY <1>0 DEF TypeOK
<1>1. ASSUME NEW n \in 0..MaxPerBlock, Mine(n) PROVE OrderInv'
  BY <1>00, <1>1, OrderStable DEF Mine, history
<1>2. ASSUME NEW w \in Watchers, Register(w) \/ RegisterFails(w) PROVE OrderInv'
  <2>1. poll' = poll /\ handed' = handed /\ lastSeen' \in lastSeen..Height
    BY <1>00, <1>2 DEF Register, RegisterFails, history
  <2>2. \A i \in DOMAIN listening : i \in DOMAIN listening' /\ listening'[i] = listening[i]
    <3>1. /\ listening' \in Seq(Watchers) /\ Len(listening') = Len(listening) + 1
          /\ \A i \in 1..Len(listening) : listening'[i] = listening[i]
      BY <1>0, <1>2, RegisterFacts
    <3>2. DOMAIN listening' = 1..(Len(listening) + 1) BY <3>1
    <3>3. QED BY <1>00, <3>1, <3>2
  <2>3. QED BY <2>1, <2>2, OrderStable
<1>3. CASE ReadHead \/ GetLogsFails
  <2>1. /\ poll.phase # "deliver" /\ UNCHANGED <<chain, listening, lastSeen, handed>>
    BY <1>3, <1>01 DEF ReadHead, GetLogsFails, history
  <2>2. QED BY <2>1 DEF OrderInv, ListedOnce, Sorted, Behind, UpTo
<1>4. CASE GetLogs
  <2>1. /\ poll.phase = "logs" /\ UNCHANGED <<chain, listening, lastSeen, handed>>
    BY <1>4 DEF GetLogs, history
  <2>2. QED BY <2>1 DEF OrderInv, ListedOnce, Sorted, Behind, UpTo
<1>5. CASE Hand
  <2>0. PICK h \in Watchers : h = listening[poll.who] BY <1>0, <1>5, HandFacts
  <2>1. UNCHANGED <<chain, listening, lastSeen>> BY <1>5 DEF Hand
  <2>2. /\ Delivering /\ poll.phase = "deliver" /\ poll.who \in Nat \ {0}
        /\ poll.event \in Nat /\ poll.who \in DOMAIN listening
        /\ UpTo(lastSeen) < poll.event
    BY <1>0, <1>01, <1>5, PollFacts, HandFacts DEF Hand, Delivering, PollOK
  <2>3. /\ poll'.phase = "deliver" /\ poll'.event = poll.event
        /\ poll'.who = poll.who + 1
    BY <1>0, <1>5, HandFacts
  <2>4. Called' = Called \cup {h}
    <3>1. 1..poll.who = 1..(poll.who - 1) \cup {poll.who} BY <2>2
    <3>2. poll'.who - 1 = poll.who BY <2>2, <2>3
    <3>3. QED BY <2>0, <2>1, <3>1, <3>2 DEF Called
  <2>5. UpTo(lastSeen)' = UpTo(lastSeen) BY <2>1 DEF UpTo
  <2>6. ASSUME NEW w \in Watchers, ListedOnce(w) PROVE Sorted(w)' /\ Behind(w)'
    <3>1. Sorted(w) /\ Behind(w) BY <2>6 DEF OrderInv
    <3>2. CASE w # h
      <4>1. handed'[w] = handed[w] BY <1>0, <1>5, <2>0, <3>2, HandFacts DEF TypeOK
      <4>2. QED BY <2>2, <2>3, <2>4, <2>5, <3>1, <4>1 DEF Sorted, Behind
    <3>3. CASE w = h
      <4>1. w \notin Called
        <5>1. \A i \in 1..(poll.who - 1) : i \in DOMAIN listening /\ i # poll.who
          BY <1>00, <2>2
        <5>2. QED BY <2>0, <2>2, <2>6, <3>3, <5>1 DEF ListedOnce, Called
      <4>2. \A j \in DOMAIN handed[w] : handed[w][j] < poll.event
        BY <1>00, <1>02, <2>2, <3>1, <4>1 DEF Behind
      <4>3. /\ Len(handed'[w]) = Len(handed[w]) + 1 /\ handed'[w] \in Seq(Nat)
            /\ \A i \in 1..Len(handed[w]) : handed'[w][i] = handed[w][i]
            /\ handed'[w][Len(handed[w]) + 1] = poll.event
        BY <1>0, <1>5, <2>0, <3>3, HandFacts
      <4>4. /\ Len(handed[w]) \in Nat /\ DOMAIN handed[w] = 1..Len(handed[w])
            /\ DOMAIN handed'[w] = 1..(Len(handed[w]) + 1)
        BY <1>02, <4>3
      <4>5. Sorted(w)'
        <5>1. SUFFICES ASSUME NEW i \in DOMAIN handed'[w], NEW j \in DOMAIN handed'[w], i < j
                       PROVE  handed'[w][i] < handed'[w][j]
          BY DEF Sorted
        <5>2. i \in DOMAIN handed[w] BY <4>4, <5>1
        <5>3. CASE j \in DOMAIN handed[w] BY <3>1, <4>3, <4>4, <5>1, <5>2, <5>3 DEF Sorted
        <5>4. CASE j = Len(handed[w]) + 1 BY <4>2, <4>3, <4>4, <5>2, <5>4
        <5>5. QED BY <4>4, <5>3, <5>4
      <4>6. Behind(w)'
        <5>1. SUFFICES ASSUME NEW j \in DOMAIN handed'[w]
                       PROVE  handed'[w][j] < poll.event \/ handed'[w][j] = poll.event
          BY <2>3, <2>4, <3>3 DEF Behind
        <5>2. CASE j \in DOMAIN handed[w] BY <4>2, <4>3, <4>4, <5>2
        <5>3. CASE j = Len(handed[w]) + 1 BY <4>3, <5>3
        <5>4. QED BY <4>4, <5>2, <5>3
      <4>7. QED BY <4>5, <4>6
    <3>4. QED BY <3>2, <3>3
  <2>7. QED BY <2>1, <2>6 DEF OrderInv, ListedOnce
<1>6. CASE NextEvent
  <2>1. UNCHANGED <<chain, listening, lastSeen, handed>>
    BY <1>6 DEF NextEvent, history
  <2>2. poll.phase = "deliver" /\ poll.event \in Nat
    BY <1>0, <1>6, PollFacts DEF NextEvent, Delivering
  <2>3. poll'.phase = "deliver" /\ poll'.event = poll.event + 1
    BY <1>0, <1>6, PollFacts DEF NextEvent, Delivering
  <2>4. ASSUME NEW w \in Watchers, ListedOnce(w) PROVE Sorted(w)' /\ Behind(w)'
    <3>1. Sorted(w) /\ Behind(w) BY <2>4 DEF OrderInv
    <3>2. \A x \in Nat : x < poll.event \/ x = poll.event => x < poll'.event
      BY <2>2, <2>3
    <3>3. UpTo(lastSeen)' = UpTo(lastSeen) BY <2>1 DEF UpTo
    <3>4. Behind(w)' BY <1>02, <2>1, <2>3, <3>1, <3>2, <3>3 DEF Behind
    <3>5. QED BY <2>1, <3>1, <3>4 DEF Sorted
  <2>5. QED BY <2>1, <2>4 DEF OrderInv, ListedOnce
<1>7. CASE Done
  <2>1. UNCHANGED <<chain, listening, handed>> BY <1>7 DEF Done, history
  <2>2. /\ lastSeen' = poll.head /\ poll.phase = "deliver" /\ ~Delivering
    BY <1>7 DEF Done
  <2>3. /\ poll.event \in Nat /\ poll.head \in 0..Height /\ UpTo(poll.head) \in Nat
        /\ poll.event <= UpTo(poll.head) + 1 /\ poll.who = 1 /\ UpTo(lastSeen) < poll.event
    BY <1>0, <1>01, <2>2, PollFacts, UpToNat DEF PollOK
  <2>4. Called = {} BY <2>3 DEF Called
  <2>5. UpTo(lastSeen)' = UpTo(poll.head) BY <2>1, <2>2 DEF UpTo
  <2>6. ASSUME NEW w \in Watchers, ListedOnce(w) PROVE Sorted(w)' /\ Behind(w)'
    <3>1. Sorted(w) /\ Behind(w) BY <2>6 DEF OrderInv
    <3>2. \A j \in DOMAIN handed[w] : handed[w][j] <= UpTo(poll.head)
      <4>1. SUFFICES ASSUME NEW j \in DOMAIN handed[w] PROVE handed[w][j] <= UpTo(poll.head)
        OBVIOUS
      <4>2. handed[w][j] \in Nat BY <1>02
      <4>3. handed[w][j] <= UpTo(lastSeen) \/ handed[w][j] < poll.event
        BY <2>4, <3>1 DEF Behind
      <4>4. QED BY <1>00, <2>3, <4>2, <4>3
    <3>3. Behind(w)' BY <2>1, <2>5, <3>2 DEF Behind
    <3>4. QED BY <2>1, <3>1, <3>3 DEF Sorted
  <2>7. QED BY <2>1, <2>6 DEF OrderInv, ListedOnce
<1>8. CASE Close BY <1>00, <1>8, OrderStable DEF Close, history
<1>9. CASE Crash
  <2>1. \A w \in Watchers : handed'[w] = <<>> BY <1>9 DEF Crash
  <2>2. QED BY <2>1 DEF OrderInv, Sorted, Behind
<1>10. CASE UNCHANGED vars BY <1>00, <1>10, OrderStable DEF vars
<1>11. QED BY <1>1, <1>2, <1>3, <1>4, <1>5, <1>6, <1>7, <1>8, <1>9, <1>10
       DEF Next, Deliver

\* A callback that is listed once gets every event at most once and in the
\* order of the chain, however often a poll fails and starts over.
THEOREM OneInOrder == Spec => []OnceInOrder
<1>1. Init => OrderInv BY DEF Init, OrderInv, Sorted, Behind
<1>2. PollInv /\ OrderInv /\ [Next]_vars => OrderInv' BY OrderStep
<1>3. OrderInv => OnceInOrder BY DEF OrderInv, Sorted, OnceInOrder
<1>4. QED BY <1>1, <1>2, <1>3, PollInvariant, PTL DEF Spec

\* Every reachable state is well typed, for any callbacks, blocks and crashes.
THEOREM TypeCorrect == Spec => []TypeOK
<1>1. PollInv => TypeOK BY DEF PollInv
<1>2. QED BY <1>1, PollInvariant, PTL
=============================================================================
