--------------------------- MODULE SettlementProofs ---------------------------
(***************************************************************************)
(* Proofs about Settlement: its types, that an offer is sold once, that    *)
(* every sale is paid, that what was promised is kept, and that it         *)
(* implements EntitlementChain.                                            *)
(***************************************************************************)
EXTENDS Settlement, FiniteSetTheorems, SequenceTheorems, TLAPS

Frame == [offer : External, buyer : Accounts, saved : Worlds]

-----------------------------------------------------------------------------
(* Sequences of tickets and of frames: what a push and a pop do. *)

LEMMA Push ==
  ASSUME NEW S, NEW s \in Seq(S), NEW e \in S
  PROVE  /\ Append(s, e) \in Seq(S)
         /\ Len(Append(s, e)) = Len(s) + 1
         /\ DOMAIN Append(s, e) = 1..(Len(s) + 1)
         /\ \A i \in DOMAIN s : Append(s, e)[i] = s[i]
         /\ Append(s, e)[Len(s) + 1] = e
OBVIOUS

LEMMA PushOffers ==
  ASSUME NEW S, NEW s \in Seq(S), NEW e \in S
  PROVE  /\ OffersOf(Append(s, e)) = OffersOf(s) \cup {e.offer}
         /\ Apart(s) /\ e.offer \notin OffersOf(s) => Apart(Append(s, e))
<1>1. DOMAIN s = 1..Len(s) /\ Len(s) \in Nat OBVIOUS
<1>2. OffersOf(Append(s, e)) = OffersOf(s) \cup {e.offer}
  BY <1>1, Push DEF OffersOf
<1>3. ASSUME Apart(s), e.offer \notin OffersOf(s) PROVE Apart(Append(s, e))
  BY <1>1, <1>3, Push DEF OffersOf, Apart
<1>4. QED BY <1>2, <1>3

LEMMA Pop ==
  ASSUME NEW S, NEW s \in Seq(S), s # <<>>
  PROVE  LET p == SubSeq(s, 1, Len(s) - 1)
         IN  /\ p \in Seq(S)
             /\ Len(p) = Len(s) - 1
             /\ DOMAIN p = 1..(Len(s) - 1)
             /\ \A i \in 1..(Len(s) - 1) : p[i] = s[i]
             /\ s[Len(s)] \in S /\ Len(s) \in Nat \ {0}
             /\ DOMAIN s = 1..Len(s)
<1>1. Len(s) \in Nat \ {0} /\ DOMAIN s = 1..Len(s) /\ s[Len(s)] \in S
  BY EmptySeq
<1>2. \A i \in 1..(Len(s) - 1) : s[i] \in S BY <1>1
<1>3. QED BY <1>1, <1>2, SubSeqProperties

LEMMA PopOffers ==
  ASSUME NEW S, NEW s \in Seq(S), s # <<>>
  PROVE  LET p == SubSeq(s, 1, Len(s) - 1)
         IN  /\ OffersOf(s) = OffersOf(p) \cup {s[Len(s)].offer}
             /\ Apart(s) => Apart(p) /\ s[Len(s)].offer \notin OffersOf(p)
<1>0. PICK p : /\ p = SubSeq(s, 1, Len(s) - 1)
               /\ DOMAIN p = 1..(Len(s) - 1) /\ DOMAIN s = 1..Len(s)
               /\ \A i \in 1..(Len(s) - 1) : p[i] = s[i]
               /\ Len(s) \in Nat \ {0}
  BY Pop
<1>1. OffersOf(s) = OffersOf(p) \cup {s[Len(s)].offer}
  <2>1. \A i : i \in DOMAIN s <=> i \in DOMAIN p \/ i = Len(s) BY <1>0
  <2>2. \A i \in DOMAIN p : p[i] = s[i] BY <1>0
  <2>3. QED BY <2>1, <2>2, Zenon DEF OffersOf
<1>2. ASSUME Apart(s) PROVE Apart(p) /\ s[Len(s)].offer \notin OffersOf(p)
  <2>1. Apart(p) BY <1>0, <1>2 DEF Apart
  <2>2. ASSUME NEW i \in DOMAIN p, p[i].offer = s[Len(s)].offer PROVE FALSE
    BY <1>0, <1>2, <2>2 DEF Apart
  <2>3. QED BY <2>1, <2>2 DEF OffersOf
<1>3. QED BY <1>0, <1>1, <1>2

LEMMA SameOffers ==
  ASSUME NEW s, NEW t, DOMAIN s = DOMAIN t, \A i \in DOMAIN s : s[i].offer = t[i].offer
  PROVE  OffersOf(s) = OffersOf(t) /\ (Apart(s) <=> Apart(t))
BY DEF OffersOf, Apart

-----------------------------------------------------------------------------
(* Types. *)

LEMMA TypeFacts ==
  ASSUME TypeOK
  PROVE  /\ balance \in [Accounts -> Nat] /\ allowance \in [Accounts -> Nat]
         /\ consumed \subseteq Offers /\ entitlements \in Seq(Entitlement)
         /\ signed \subseteq Offers /\ frames \in Seq(Frame)
         /\ Len(frames) <= MaxDepth /\ time \in 0..MaxTime
         /\ funded \in [Accounts -> Int]
BY DEF TypeOK, World, Worlds, Frame

LEMMA TypeFromFacts ==
  ASSUME balance' \in [Accounts -> Nat], allowance' \in [Accounts -> Nat],
         consumed' \subseteq Offers, entitlements' \in Seq(Entitlement),
         signed' \subseteq Offers, frames' \in Seq(Frame),
         Len(frames') <= MaxDepth, time' \in 0..MaxTime,
         funded' \in [Accounts -> Int]
  PROVE  TypeOK'
BY DEF TypeOK, World, Worlds, Frame

LEMMA Senders ==
  ASSUME TypeOK, NEW a, MaySend(a) PROVE a \in Accounts
<1>1. CASE frames = <<>> BY <1>1 DEF MaySend, Accounts
<1>2. CASE frames # <<>>
  <2>1. Top \in Frame BY <1>2, TypeFacts, Pop DEF Top
  <2>2. QED BY <1>2, <2>1 DEF MaySend, Frame, External, Accounts
<1>3. QED BY <1>1, <1>2

LEMMA TopFacts ==
  ASSUME TypeOK, frames # <<>>
  PROVE  Top \in Frame /\ Len(frames) \in Nat \ {0} /\ Top = frames[Len(frames)]
BY TypeFacts, Pop DEF Top

LEMMA IssueFacts ==
  ASSUME TypeOK, NEW a \in Accounts, NEW o \in Offers
  PROVE  /\ Issue(a, o) \in Seq(Entitlement)
         /\ \E e \in Entitlement : /\ Issue(a, o) = Append(entitlements, e)
                                  /\ e.offer = o /\ e.issuer = o.provider
                                  /\ e.terms = o.terms /\ e.owner = a
                                  /\ ~e.revoked /\ e.buyer = a
<1> DEFINE e == [issuer |-> o.provider, owner |-> a, terms |-> o.terms,
                 revoked |-> FALSE, buyer |-> a, offer |-> o]
<1>1. e \in Entitlement
  BY OffersAssumption DEF Entitlement, TermsOnOffer
<1>2. Issue(a, o) = Append(entitlements, e) BY DEF Issue
<1>3. e.offer = o /\ e.issuer = o.provider /\ e.terms = o.terms
      /\ e.owner = a /\ ~e.revoked /\ e.buyer = a
  OBVIOUS
<1> HIDE DEF e
<1>4. Issue(a, o) \in Seq(Entitlement) BY <1>1, <1>2, TypeFacts
<1>5. QED BY <1>1, <1>2, <1>3, <1>4

LEMMA EditFacts ==
  ASSUME TypeOK, NEW i \in DOMAIN entitlements, NEW e \in Entitlement
  PROVE  [entitlements EXCEPT ![i] = e] \in Seq(Entitlement)
BY TypeFacts

LEMMA PopFrame ==
  ASSUME TypeOK, frames # <<>>
  PROVE  /\ SubSeq(frames, 1, Len(frames) - 1) \in Seq(Frame)
         /\ Len(SubSeq(frames, 1, Len(frames) - 1)) = Len(frames) - 1
         /\ Len(frames) - 1 <= MaxDepth
BY TypeFacts, TopFacts, Pop, BoundsAssumption

\* What moves between accounts keeps their type, if the payer has it.
LEMMA MovedFacts ==
  ASSUME NEW held \in [Accounts -> Int], NEW from \in Accounts, NEW to \in Accounts,
         NEW n \in Nat
  PROVE  /\ Moved(held, from, to, n) \in [Accounts -> Int]
         /\ held \in [Accounts -> Nat] /\ held[from] >= n
              => Moved(held, from, to, n) \in [Accounts -> Nat]
         /\ \A x \in Accounts : Moved(held, from, to, n)[x] =
              held[x] - (IF x = from THEN n ELSE 0) + (IF x = to THEN n ELSE 0)
<1>1. ASSUME NEW x \in Accounts
      PROVE  held[x] - (IF x = from THEN n ELSE 0) + (IF x = to THEN n ELSE 0) \in Int
  OBVIOUS
<1>2. ASSUME NEW x \in Accounts, held \in [Accounts -> Nat], held[from] >= n
      PROVE  held[x] - (IF x = from THEN n ELSE 0) + (IF x = to THEN n ELSE 0) \in Nat
  <2>1. CASE x = from BY <1>2, <2>1
  <2>2. CASE x # from BY <1>2, <2>2
  <2>3. QED BY <2>1, <2>2
<1>3. QED BY <1>1, <1>2 DEF Moved

LEMMA TypeStep ==
  ASSUME TypeOK, [Next]_vars PROVE TypeOK'
<1> USE TypeFacts, TypeFromFacts
<1>1. ASSUME NEW a \in Accounts, NEW n \in Amounts, Approve(a, n) PROVE TypeOK'
  BY <1>1, BoundsAssumption DEF Approve
<1>2. ASSUME NEW a \in Accounts, NEW to \in Accounts, NEW n \in Amounts,
             Faucet(a, to, n)
      PROVE  TypeOK'
  BY <1>2, BoundsAssumption DEF Faucet
<1>2a. ASSUME NEW from \in Accounts, NEW to \in Accounts, NEW n \in Amounts,
              TransferTok(from, to, n)
       PROVE  TypeOK'
  <2>1. n \in Nat /\ balance \in [Accounts -> Int] BY BoundsAssumption
  <2>2. balance' \in [Accounts -> Nat] /\ funded' \in [Accounts -> Int]
    BY <1>2a, <2>1, MovedFacts DEF TransferTok
  <2>3. QED BY <1>2a, <2>2 DEF TransferTok
<1>3. CASE TokenReturns
  <2>1. Issue(Top.buyer, Top.offer) \in Seq(Entitlement)
    BY <1>3, TopFacts, IssueFacts DEF TokenReturns, External, Frame
  <2>2. QED BY <1>3, <2>1, PopFrame DEF TokenReturns
<1>4. CASE TokenReverts
  <2>1. Top.saved \in Worlds BY <1>4, TopFacts DEF TokenReverts, Frame
  <2>2. QED BY <1>4, <2>1, PopFrame DEF TokenReverts, Worlds
<1>5. ASSUME NEW a \in Accounts, NEW o \in Offers, Fulfill(a, o) PROVE TypeOK'
  <2>1. Issue(a, o) \in Seq(Entitlement) BY IssueFacts
  <2>2. o.price \in Nat /\ o.provider \in Accounts
    BY OffersAssumption DEF Accounts
  <2>3. balance' \in [Accounts -> Nat]
    <3>1. balance \in [Accounts -> Int] OBVIOUS
    <3>2. QED BY <1>5, <2>2, <3>1, MovedFacts DEF Fulfill
  <2>4. allowance' \in [Accounts -> Nat] BY <1>5, <2>2 DEF Fulfill
  <2>5. QED BY <1>5, <2>1, <2>3, <2>4 DEF Fulfill
<1>6. ASSUME NEW a \in Accounts, NEW o \in Offers, CallToken(a, o) PROVE TypeOK'
  <2>1. [offer |-> o, buyer |-> a, saved |-> World] \in Frame
    BY <1>6 DEF CallToken, Frame, World, Worlds
  <2>2. frames' \in Seq(Frame) /\ Len(frames') <= MaxDepth
    BY <1>6, <2>1, Push, BoundsAssumption DEF CallToken
  <2>3. QED BY <1>6, <2>2 DEF CallToken
<1>7. ASSUME NEW a \in Accounts, NEW i \in DOMAIN entitlements, Revoke(a, i)
      PROVE  TypeOK'
  <2>1. entitlements[i] \in Entitlement OBVIOUS
  <2>2. [entitlements[i] EXCEPT !.revoked = TRUE] \in Entitlement
    BY <2>1 DEF Entitlement
  <2>3. entitlements' \in Seq(Entitlement)
    BY <1>7, <2>2, EditFacts DEF Revoke
  <2>4. QED BY <1>7, <2>3 DEF Revoke
<1>8. ASSUME NEW a \in Accounts, NEW i \in DOMAIN entitlements,
             NEW to \in Accounts, Transfer(a, i, to)
      PROVE  TypeOK'
  <2>1. entitlements[i] \in Entitlement OBVIOUS
  <2>2. [entitlements[i] EXCEPT !.owner = to] \in Entitlement
    BY <2>1 DEF Entitlement
  <2>3. entitlements' \in Seq(Entitlement)
    BY <1>8, <2>2, EditFacts DEF Transfer
  <2>4. QED BY <1>8, <2>3 DEF Transfer
<1>9. ASSUME NEW o \in Offers, SignOffer(o) PROVE TypeOK'
  BY <1>9 DEF SignOffer
<1>10. CASE Advance
  BY <1>10, BoundsAssumption DEF Advance
<1>11. CASE UNCHANGED vars
  BY <1>11 DEF vars
<1>12. QED
  BY <1>1, <1>2, <1>2a, <1>3, <1>4, <1>5, <1>6, <1>7, <1>8, <1>9, <1>10, <1>11
     DEF Next, TokenStep, ContractStep

\* Every reachable state is well typed, and no call is nested too deep.
THEOREM TypeCorrect == Spec => []TypeOK
<1>1. Init => TypeOK
  BY BoundsAssumption, EmptySeq DEF Init, TypeOK, World, Worlds
<1>2. TypeOK /\ [Next]_vars => TypeOK'
  BY TypeStep
<1>3. QED BY <1>1, <1>2, PTL DEF Spec

-----------------------------------------------------------------------------
(* An offer is sold once. *)

\* What the steps are to the ledger of offers and tickets.
Given == \/ \E a, to \in Accounts, n \in Amounts : Faucet(a, to, n)
         \/ \E from, to \in Accounts, n \in Amounts : TransferTok(from, to, n)

Idle == /\ UNCHANGED <<consumed, entitlements, frames>>
        /\ Given \/ UNCHANGED <<balance, funded>>

Edit == /\ UNCHANGED <<consumed, frames, balance, funded>>
        /\ DOMAIN entitlements' = DOMAIN entitlements
        /\ \A i \in DOMAIN entitlements : /\ entitlements'[i].offer = entitlements[i].offer
                                          /\ entitlements'[i].buyer = entitlements[i].buyer
        /\ Keeps(entitlements, entitlements')

LEMMA Cases ==
  ASSUME TypeOK, [Next]_vars
  PROVE  \/ Idle \/ Edit \/ TokenReturns \/ TokenReverts
         \/ \E a \in Accounts, o \in Offers : Fulfill(a, o) \/ CallToken(a, o)
<1> USE TypeFacts
<1>1. ASSUME NEW a \in Accounts, NEW i \in DOMAIN entitlements, Revoke(a, i)
      PROVE  Edit
  <2>1. entitlements[i] \in Entitlement OBVIOUS
  <2> DEFINE e == [entitlements[i] EXCEPT !.revoked = TRUE]
  <2>2. /\ e.offer = entitlements[i].offer /\ e.terms = entitlements[i].terms
        /\ e.issuer = entitlements[i].issuer /\ e.revoked
        /\ e.buyer = entitlements[i].buyer
    BY <2>1 DEF Entitlement
  <2>3. entitlements' = [entitlements EXCEPT ![i] = e]
    BY <1>1 DEF Revoke
  <2> HIDE DEF e
  <2>4. QED BY <1>1, <2>2, <2>3 DEF Revoke, Edit, Keeps
<1>2. ASSUME NEW a \in Accounts, NEW i \in DOMAIN entitlements,
             NEW to \in Accounts, Transfer(a, i, to)
      PROVE  Edit
  <2>1. entitlements[i] \in Entitlement OBVIOUS
  <2> DEFINE e == [entitlements[i] EXCEPT !.owner = to]
  <2>2. /\ e.offer = entitlements[i].offer /\ e.terms = entitlements[i].terms
        /\ e.issuer = entitlements[i].issuer /\ e.revoked = entitlements[i].revoked
        /\ e.buyer = entitlements[i].buyer
    BY <2>1 DEF Entitlement
  <2>3. entitlements' = [entitlements EXCEPT ![i] = e]
    BY <1>2 DEF Transfer
  <2> HIDE DEF e
  <2>4. QED BY <1>2, <2>2, <2>3 DEF Transfer, Edit, Keeps
<1>3. ASSUME NEW a \in Accounts, NEW n \in Amounts, Approve(a, n) PROVE Idle
  BY <1>3 DEF Approve, Idle
<1>4. ASSUME NEW a \in Accounts, NEW to \in Accounts, NEW n \in Amounts,
             Faucet(a, to, n)
      PROVE  Idle
  BY <1>4 DEF Faucet, Idle, Given
<1>4a. ASSUME NEW from \in Accounts, NEW to \in Accounts, NEW n \in Amounts,
              TransferTok(from, to, n)
       PROVE  Idle
  BY <1>4a DEF TransferTok, Idle, Given
<1>5. ASSUME NEW o \in Offers, SignOffer(o) PROVE Idle
  BY <1>5 DEF SignOffer, Idle
<1>6. CASE Advance BY <1>6 DEF Advance, Idle
<1>7. CASE UNCHANGED vars BY <1>7 DEF vars, Idle
<1>8. QED
  BY <1>1, <1>2, <1>3, <1>4, <1>4a, <1>5, <1>6, <1>7 DEF Next, TokenStep, ContractStep

Below(k) == {frames[m].offer : m \in 1..(k - 1)}

\* The books were in order in every state a revert may go back to.
SavedBooks ==
  \A k \in DOMAIN frames :
    LET w == frames[k].saved
    IN  /\ w.consumed = OffersOf(w.entitlements) \cup Below(k)
        /\ OffersOf(w.entitlements) \cap Below(k) = {}
        /\ Apart(w.entitlements)

SoldInv == TypeOK /\ SoldOnce /\ SavedBooks

LEMMA BelowTop ==
  ASSUME TypeOK, frames # <<>>
  PROVE  Below(Len(frames)) = OffersOf(SubSeq(frames, 1, Len(frames) - 1))
<1>1. PICK p : /\ p = SubSeq(frames, 1, Len(frames) - 1)
               /\ DOMAIN p = 1..(Len(frames) - 1)
               /\ \A i \in 1..(Len(frames) - 1) : p[i] = frames[i]
  BY TypeFacts, Pop
<1>2. Below(Len(frames)) = OffersOf(p) BY <1>1 DEF Below, OffersOf
<1>3. QED BY <1>1, <1>2

\* A push or a pop does not disturb what the remaining frames saved.
LEMMA SavedSurvives ==
  ASSUME TypeOK, SavedBooks, TypeOK', Len(frames') <= Len(frames),
         \A k \in 1..Len(frames') : frames'[k] = frames[k]
  PROVE  SavedBooks'
<1>1. /\ DOMAIN frames = 1..Len(frames) /\ DOMAIN frames' = 1..Len(frames')
      /\ Len(frames) \in Nat /\ Len(frames') \in Nat
  BY DEF TypeOK
<1>2. SUFFICES ASSUME NEW k \in 1..Len(frames')
      PROVE  /\ k \in 1..Len(frames) /\ frames'[k] = frames[k]
             /\ Below(k)' = Below(k)
  BY <1>1, <1>2 DEF SavedBooks
<1>3. \A m \in 1..(k - 1) : frames'[m] = frames[m] BY <1>1
<1>4. QED BY <1>1, <1>3 DEF Below

LEMMA SoldStep ==
  ASSUME SoldInv, [Next]_vars PROVE SoldInv'
<1>0. TypeOK /\ TypeOK' BY TypeStep DEF SoldInv
<1>1. CASE Idle
  BY <1>0, <1>1, SavedSurvives DEF Idle, SoldInv, SoldOnce
<1>2. CASE Edit
  BY <1>0, <1>2, SameOffers, SavedSurvives DEF Edit, SoldInv, SoldOnce, Books
<1>3. ASSUME TokenReturns \/ TokenReverts
      PROVE  /\ SavedBooks'
             /\ OffersOf(frames) = OffersOf(frames') \cup {Top.offer}
             /\ Apart(frames) => Apart(frames') /\ Top.offer \notin OffersOf(frames')
  <2>1. frames # <<>> /\ frames' = SubSeq(frames, 1, Len(frames) - 1)
    BY <1>3 DEF TokenReturns, TokenReverts
  <2>2. frames \in Seq(Frame) BY <1>0, TypeFacts
  <2>3. SavedBooks'
    BY <1>0, <2>1, <2>2, SavedSurvives, Pop DEF SoldInv
  <2>4. QED BY <2>1, <2>2, <2>3, PopOffers DEF Top
<1>4. CASE TokenReturns
  <2>1. Top.buyer \in Accounts /\ Top.offer \in Offers /\ entitlements \in Seq(Entitlement)
    BY <1>0, <1>4, TopFacts, TypeFacts DEF TokenReturns, Frame, External
  <2>2. PICK e \in Entitlement : /\ Issue(Top.buyer, Top.offer) = Append(entitlements, e)
                                 /\ e.offer = Top.offer
    BY <1>0, <2>1, IssueFacts
  <2>3. /\ OffersOf(entitlements') = OffersOf(entitlements) \cup {Top.offer}
        /\ Apart(entitlements) /\ Top.offer \notin OffersOf(entitlements)
             => Apart(entitlements')
    BY <1>4, <2>1, <2>2, PushOffers DEF TokenReturns
  <2>4. SoldOnce' BY <1>3, <1>4, <2>3 DEF TokenReturns, SoldInv, SoldOnce, Books
  <2>5. QED BY <1>0, <1>3, <1>4, <2>4 DEF SoldInv
<1>5. CASE TokenReverts
  <2>1. /\ consumed' = OffersOf(entitlements') \cup Below(Len(frames))
        /\ OffersOf(entitlements') \cap Below(Len(frames)) = {}
        /\ Apart(entitlements')
    BY <1>0, <1>5, TopFacts, TypeFacts DEF TokenReverts, SoldInv, SavedBooks
  <2>2. Below(Len(frames)) = OffersOf(frames')
    BY <1>0, <1>5, BelowTop DEF TokenReverts
  <2>3. SoldOnce' BY <1>3, <1>5, <2>1, <2>2 DEF SoldInv, SoldOnce, Books
  <2>4. QED BY <1>0, <1>3, <1>5, <2>3 DEF SoldInv
<1>6. ASSUME NEW a \in Accounts, NEW o \in Offers, Fulfill(a, o) PROVE SoldInv'
  <2>1. PICK e \in Entitlement : Issue(a, o) = Append(entitlements, e) /\ e.offer = o
    BY <1>0, IssueFacts
  <2>2. o \notin OffersOf(entitlements) /\ o \notin OffersOf(frames)
    BY <1>6 DEF Fulfill, Redeemable, SoldInv, SoldOnce, Books
  <2>3. /\ OffersOf(entitlements') = OffersOf(entitlements) \cup {o}
        /\ Apart(entitlements) => Apart(entitlements')
    BY <1>0, <1>6, <2>1, <2>2, PushOffers, TypeFacts DEF Fulfill
  <2>4. SoldOnce' BY <1>6, <2>2, <2>3 DEF Fulfill, SoldInv, SoldOnce, Books
  <2>5. SavedBooks' BY <1>0, <1>6, SavedSurvives, TypeFacts DEF Fulfill, SoldInv
  <2>6. QED BY <1>0, <2>4, <2>5 DEF SoldInv
<1>7. ASSUME NEW a \in Accounts, NEW o \in Offers, CallToken(a, o) PROVE SoldInv'
  <2> DEFINE f == [offer |-> o, buyer |-> a, saved |-> World]
  <2>1. f \in Frame /\ frames' = Append(frames, f) /\ f.offer = o /\ f.saved = World
    BY <1>0, <1>7, TypeFacts DEF CallToken, Frame, World, Worlds
  <2> HIDE DEF f
  <2>2. o \notin OffersOf(entitlements) /\ o \notin OffersOf(frames)
    BY <1>7 DEF CallToken, Redeemable, SoldInv, SoldOnce, Books
  <2>3. /\ OffersOf(frames') = OffersOf(frames) \cup {o}
        /\ Apart(frames) => Apart(frames')
    BY <1>0, <2>1, <2>2, PushOffers, TypeFacts
  <2>4. SoldOnce' BY <1>7, <2>2, <2>3 DEF CallToken, SoldInv, SoldOnce, Books
  <2>5. SavedBooks'
    <3>0. PICK n : n = Len(frames) OBVIOUS
    <3>1. /\ DOMAIN frames' = 1..(n + 1) /\ n \in Nat
          /\ DOMAIN frames = 1..n
          /\ \A k \in 1..n : frames'[k] = frames[k]
          /\ frames'[n + 1] = f
      BY <1>0, <2>1, <3>0, TypeFacts, Push
    <3>2. ASSUME NEW k \in 1..(n + 1)
          PROVE  Below(k)' = Below(k)
      <4>1. \A m \in 1..(k - 1) : frames'[m] = frames[m] BY <3>1
      <4>2. QED BY <4>1 DEF Below
    <3>3. Below(n + 1) = OffersOf(frames) BY <3>1 DEF Below, OffersOf
    <3>4. ASSUME NEW k \in 1..n
          PROVE  /\ frames'[k] = frames[k] /\ Below(k)' = Below(k)
                 /\ k \in DOMAIN frames
      BY <3>1, <3>2
    <3>5. /\ f.saved.consumed = OffersOf(f.saved.entitlements) \cup OffersOf(frames)
          /\ OffersOf(f.saved.entitlements) \cap OffersOf(frames) = {}
          /\ Apart(f.saved.entitlements)
      BY <2>1 DEF World, SoldInv, SoldOnce, Books
    <3>6. \A k \in DOMAIN frames' : k \in 1..n \/ k = n + 1
      BY <3>1
    <3>7. Below(n + 1)' = OffersOf(frames)
      BY <3>1, <3>2, <3>3
    <3>8. QED BY <3>1, <3>4, <3>5, <3>6, <3>7 DEF SoldInv, SavedBooks
  <2>6. QED BY <1>0, <2>4, <2>5 DEF SoldInv
<1>8. QED BY <1>0, <1>1, <1>2, <1>4, <1>5, <1>6, <1>7, Cases DEF SoldInv

LEMMA SoldBegins == Init => SoldInv
<1> SUFFICES ASSUME Init PROVE SoldInv OBVIOUS
<1>1. TypeOK BY BoundsAssumption, EmptySeq DEF Init, TypeOK, World, Worlds
<1>2. DOMAIN entitlements = {} /\ DOMAIN frames = {} /\ consumed = {}
  BY DEF Init
<1>3. QED BY <1>1, <1>2 DEF SoldInv, SoldOnce, Books, SavedBooks, OffersOf, Apart

\* An offer is marked used exactly when its one ticket exists or is being paid
\* for, whatever the tokens do, for any accounts, offers and depth of calls.
THEOREM OneTicketPerOffer == Spec => []SoldOnce
<1>1. SoldInv /\ [Next]_vars => SoldInv'
  BY SoldStep
<1>2. SoldInv => SoldOnce BY DEF SoldInv
<1>3. QED BY <1>1, <1>2, SoldBegins, PTL DEF Spec

-----------------------------------------------------------------------------
(* Sums. *)

Sum(fun, S) == FoldFunctionOnSet(+, 0, fun, S)

-----------------------------------------------------------------------------
(* Induction over the subsets of a finite set: of those that are bad there *)
(* is one all of whose proper subsets are good.                            *)

LEMMA Smallest ==
  ASSUME NEW S, IsFiniteSet(S), NEW Bad, Bad \subseteq SUBSET S, Bad # {}
  PROVE  \E x \in Bad : \A y \in SUBSET x : y # x => y \notin Bad
<1> DEFINE R == StrictSubsetOrdering(S)
<1>1. IsWellFoundedOn(R, SUBSET S)
  BY FS_StrictSubsetOrderingWellFounded, FS_FiniteSubsetsOfFinite
<1>2. PICK x \in Bad : \A y \in Bad : ~(<<y, x>> \in R)
  <2> HIDE DEF R
  <2>1. QED BY <1>1, WFMin
<1>3. QED BY <1>2 DEF StrictSubsetOrdering

-----------------------------------------------------------------------------
(* The recursive function a sum is defined by exists. *)

Pick(s) == CHOOSE x \in s : TRUE

Rest(s) == s \ {Pick(s)}

\* g is the sum of every subset of S.
Sums(fun, g, S) ==
  g = [s \in SUBSET S |-> IF s = {} THEN 0 ELSE fun[Pick(s)] + g[Rest(s)]]

LEMMA PickIn ==
  ASSUME NEW s, s # {}
  PROVE  Pick(s) \in s /\ Rest(s) \subseteq s /\ Rest(s) # s
BY DEF Pick, Rest

LEMMA SumIs ==
  ASSUME NEW fun, NEW S
  PROVE  Sum(fun, S) = (CHOOSE g : Sums(fun, g, S))[S]
BY DEF Sum, FoldFunctionOnSet, MapThenFoldSet, Sums, Pick, Rest

LEMMA SumsAt ==
  ASSUME NEW fun, NEW g, NEW S, Sums(fun, g, S), NEW s \in SUBSET S
  PROVE  g[s] = IF s = {} THEN 0 ELSE fun[Pick(s)] + g[Rest(s)]
<1>1. PICK h : h = [x \in SUBSET S |-> IF x = {} THEN 0 ELSE fun[Pick(x)] + g[Rest(x)]]
  OBVIOUS
<1>2. g = h BY <1>1 DEF Sums
<1>3. h[s] = IF s = {} THEN 0 ELSE fun[Pick(s)] + g[Rest(s)] BY <1>1
<1>4. QED BY <1>2, <1>3

LEMMA SumsAgree ==
  ASSUME NEW fun, NEW S, IsFiniteSet(S), NEW U \in SUBSET S, NEW V \in SUBSET S,
         NEW g, NEW h, Sums(fun, g, U), Sums(fun, h, V), NEW s \in SUBSET (U \cap V)
  PROVE  g[s] = h[s]
<1> DEFINE Bad == {x \in SUBSET (U \cap V) : g[x] # h[x]}
<1>1. SUFFICES ASSUME Bad # {} PROVE FALSE OBVIOUS
<1>2. PICK x \in Bad : \A y \in SUBSET x : y # x => y \notin Bad
  <2>1. Bad \subseteq SUBSET S OBVIOUS
  <2> HIDE DEF Bad
  <2>2. QED BY <1>1, <2>1, Smallest
<1>3. /\ g[x] = IF x = {} THEN 0 ELSE fun[Pick(x)] + g[Rest(x)]
      /\ h[x] = IF x = {} THEN 0 ELSE fun[Pick(x)] + h[Rest(x)]
  BY SumsAt
<1>4. CASE x = {} BY <1>3, <1>4
<1>5. CASE x # {}
  <2>1. g[Rest(x)] = h[Rest(x)] BY <1>2, <1>5, PickIn
  <2>2. QED BY <1>3, <1>5, <2>1
<1>6. QED BY <1>4, <1>5

\* The sum of s by a function of its own.
Own(fun, s) == (CHOOSE g : Sums(fun, g, s))[s]

LEMMA SumsExist ==
  ASSUME NEW fun, NEW S, IsFiniteSet(S) PROVE \E g : Sums(fun, g, S)
<1> DEFINE Bad == {x \in SUBSET S : ~ \E g : Sums(fun, g, x)}
<1>1. SUFFICES ASSUME Bad # {} PROVE FALSE OBVIOUS
<1>2. PICK x \in Bad : \A y \in SUBSET x : y # x => y \notin Bad
  <2>1. Bad \subseteq SUBSET S OBVIOUS
  <2> HIDE DEF Bad
  <2>2. QED BY <1>1, <2>1, Smallest
<1>3. ASSUME NEW y \in SUBSET x, y # x, y # {}
      PROVE  Own(fun, y) = fun[Pick(y)] + Own(fun, Rest(y))
  <2>1. PICK g : g = CHOOSE f : Sums(fun, f, y) OBVIOUS
  <2>2. PICK h : h = CHOOSE f : Sums(fun, f, Rest(y)) OBVIOUS
  <2>3. Sums(fun, g, y) BY <1>2, <1>3, <2>1
  <2>4. Rest(y) \subseteq y /\ Rest(y) \subseteq x /\ Rest(y) # x BY <1>3, PickIn
  <2>5. Sums(fun, h, Rest(y)) BY <1>2, <2>2, <2>4
  <2>6. g[y] = fun[Pick(y)] + g[Rest(y)] BY <1>3, <2>3, SumsAt
  <2>7. g[Rest(y)] = h[Rest(y)] BY <1>2, <1>3, <2>3, <2>4, <2>5, SumsAgree
  <2>8. QED BY <2>1, <2>2, <2>6, <2>7 DEF Own
<1>4. Own(fun, {}) = 0
  <2>1. PICK g : g = CHOOSE f : Sums(fun, f, {}) OBVIOUS
  <2>2. PICK f : f = [s \in SUBSET {} |-> 0] OBVIOUS
  <2>3. Sums(fun, f, {}) BY <2>2 DEF Sums
  <2>4. Sums(fun, g, {}) BY <2>1, <2>3
  <2>5. g[{}] = 0 BY <2>4, SumsAt
  <2>6. QED BY <2>1, <2>5 DEF Own
<1>5. PICK f : f = [s \in SUBSET x |-> IF s = {} THEN 0 ELSE fun[Pick(s)] + Own(fun, Rest(s))]
  OBVIOUS
<1>6. ASSUME NEW s \in SUBSET x, s # {} PROVE f[Rest(s)] = Own(fun, Rest(s))
  <2>1. Rest(s) \in SUBSET x /\ Rest(s) # x BY <1>6, PickIn
  <2>2. CASE Rest(s) = {} BY <1>4, <1>5, <2>1, <2>2
  <2>3. CASE Rest(s) # {}
    <3>1. Own(fun, Rest(s)) = fun[Pick(Rest(s))] + Own(fun, Rest(Rest(s)))
      BY <1>3, <2>1, <2>3
    <3>2. QED BY <1>5, <2>1, <2>3, <3>1
  <2>4. QED BY <2>2, <2>3
<1>7. f = [s \in SUBSET x |-> IF s = {} THEN 0 ELSE fun[Pick(s)] + f[Rest(s)]]
  BY <1>5, <1>6
<1>8. Sums(fun, f, x) BY <1>7 DEF Sums
<1>9. QED BY <1>2, <1>8

LEMMA OwnSum ==
  ASSUME NEW fun, NEW S PROVE Sum(fun, S) = Own(fun, S)
BY SumIs DEF Own

-----------------------------------------------------------------------------
(* What a sum is. *)

LEMMA SumEmpty == ASSUME NEW fun PROVE Sum(fun, {}) = 0
<1>1. PICK g : g = CHOOSE f : Sums(fun, f, {}) OBVIOUS
<1>2. Sums(fun, g, {}) BY <1>1, SumsExist, FS_EmptySet
<1>3. g[{}] = 0 BY <1>2, SumsAt
<1>4. QED BY <1>1, <1>3, SumIs

LEMMA SumUnfold ==
  ASSUME NEW fun, NEW S, IsFiniteSet(S), S # {}
  PROVE  Sum(fun, S) = fun[Pick(S)] + Sum(fun, Rest(S))
<1>1. PICK g : g = CHOOSE f : Sums(fun, f, S) OBVIOUS
<1>2. PICK h : h = CHOOSE f : Sums(fun, f, Rest(S)) OBVIOUS
<1>3. Rest(S) \subseteq S /\ IsFiniteSet(Rest(S)) BY PickIn, FS_Subset
<1>4. Sums(fun, g, S) /\ Sums(fun, h, Rest(S)) BY <1>1, <1>2, <1>3, SumsExist
<1>5. g[S] = fun[Pick(S)] + g[Rest(S)] BY <1>4, SumsAt
<1>6. g[Rest(S)] = h[Rest(S)] BY <1>3, <1>4, SumsAgree
<1>7. QED BY <1>1, <1>2, <1>5, <1>6, SumIs

LEMMA SumType ==
  ASSUME NEW fun, NEW S, IsFiniteSet(S), \A x \in S : fun[x] \in Nat
  PROVE  Sum(fun, S) \in Nat
<1> DEFINE Bad == {s \in SUBSET S : Sum(fun, s) \notin Nat}
<1>1. SUFFICES ASSUME Bad # {} PROVE FALSE OBVIOUS
<1>2. PICK s \in Bad : \A y \in SUBSET s : y # s => y \notin Bad
  <2>1. Bad \subseteq SUBSET S OBVIOUS
  <2> HIDE DEF Bad
  <2>2. QED BY <1>1, <2>1, Smallest
<1>3. s # {}
  <2>1. Sum(fun, {}) \in Nat BY SumEmpty
  <2>2. QED BY <1>2, <2>1
<1>4. Sum(fun, Rest(s)) \in Nat /\ fun[Pick(s)] \in Nat BY <1>2, <1>3, PickIn
<1>5. Sum(fun, s) = fun[Pick(s)] + Sum(fun, Rest(s)) BY <1>3, SumUnfold, FS_Subset
<1>6. QED BY <1>4, <1>5

\* The sum depends on the summands only.
LEMMA SumSame ==
  ASSUME NEW f, NEW g, NEW S, IsFiniteSet(S), \A x \in S : f[x] = g[x]
  PROVE  Sum(f, S) = Sum(g, S)
<1> DEFINE Bad == {s \in SUBSET S : Sum(f, s) # Sum(g, s)}
<1>1. SUFFICES ASSUME Bad # {} PROVE FALSE OBVIOUS
<1>2. PICK s \in Bad : \A y \in SUBSET s : y # s => y \notin Bad
  <2>1. Bad \subseteq SUBSET S OBVIOUS
  <2> HIDE DEF Bad
  <2>2. QED BY <1>1, <2>1, Smallest
<1>3. s # {} BY <1>2, SumEmpty
<1>4. Sum(f, Rest(s)) = Sum(g, Rest(s)) /\ f[Pick(s)] = g[Pick(s)] BY <1>2, <1>3, PickIn
<1>5. /\ Sum(f, s) = f[Pick(s)] + Sum(f, Rest(s))
      /\ Sum(g, s) = g[Pick(s)] + Sum(g, Rest(s))
  BY <1>3, SumUnfold, FS_Subset
<1>6. QED BY <1>2, <1>4, <1>5

\* Any summand may be taken out first.
LEMMA SumTakeOut ==
  ASSUME NEW fun, NEW S, IsFiniteSet(S), \A x \in S : fun[x] \in Nat, NEW z \in S
  PROVE  Sum(fun, S) = fun[z] + Sum(fun, S \ {z})
<1> DEFINE Bad == {s \in SUBSET S : \E x \in s : Sum(fun, s) # fun[x] + Sum(fun, s \ {x})}
<1>1. SUFFICES ASSUME Bad # {} PROVE FALSE OBVIOUS
<1>2. PICK s \in Bad : \A y \in SUBSET s : y # s => y \notin Bad
  <2>1. Bad \subseteq SUBSET S OBVIOUS
  <2> HIDE DEF Bad
  <2>2. QED BY <1>1, <2>1, Smallest
<1>3. PICK x \in s : Sum(fun, s) # fun[x] + Sum(fun, s \ {x}) BY <1>2
<1>4. PICK c : c = Pick(s) OBVIOUS
<1>5. c \in s /\ Rest(s) = s \ {c} BY <1>3, <1>4, PickIn DEF Rest
<1>6. Sum(fun, s) = fun[c] + Sum(fun, s \ {c}) BY <1>4, <1>5, SumUnfold, FS_Subset
<1>7. x # c BY <1>3, <1>6
<1>8. Sum(fun, s \ {c}) = fun[x] + Sum(fun, (s \ {c}) \ {x}) BY <1>2, <1>3, <1>5, <1>7
<1>9. Sum(fun, s \ {x}) = fun[c] + Sum(fun, (s \ {x}) \ {c}) BY <1>2, <1>3, <1>5, <1>7
<1>10. (s \ {c}) \ {x} = (s \ {x}) \ {c} OBVIOUS
<1>11. Sum(fun, (s \ {x}) \ {c}) \in Nat /\ fun[x] \in Nat /\ fun[c] \in Nat
  BY <1>2, <1>3, <1>5, SumType, FS_Subset
<1>12. PICK n \in Nat, k \in Nat, l \in Nat :
          n = Sum(fun, (s \ {x}) \ {c}) /\ k = fun[x] /\ l = fun[c]
  BY <1>11
<1>13. Sum(fun, s) = l + (k + n) BY <1>6, <1>8, <1>10, <1>12
<1>14. fun[x] + Sum(fun, s \ {x}) = k + (l + n) BY <1>9, <1>12
<1>15. l + (k + n) = k + (l + n) OBVIOUS
<1>16. QED BY <1>3, <1>13, <1>14, <1>15

LEMMA SumAdd ==
  ASSUME NEW fun, NEW S, IsFiniteSet(S), NEW z, z \notin S,
         \A x \in S \cup {z} : fun[x] \in Nat
  PROVE  Sum(fun, S \cup {z}) = Sum(fun, S) + fun[z]
<1>1. IsFiniteSet(S \cup {z}) /\ (S \cup {z}) \ {z} = S BY FS_AddElement
<1>2. Sum(fun, S \cup {z}) = fun[z] + Sum(fun, S) BY <1>1, SumTakeOut
<1>3. QED BY <1>2, SumType

-----------------------------------------------------------------------------
(* A payment is made exactly when its ticket is minted. *)

Prices(seq) == [i \in DOMAIN seq |-> seq[i].offer.price]

Sold(seq, a) == {i \in DOMAIN seq : seq[i].offer.token = TOK /\ seq[i].issuer = a}

Bought(seq, a) == {i \in DOMAIN seq : seq[i].offer.token = TOK /\ seq[i].buyer = a}

Income(seq, a) == Sum(Prices(seq), Sold(seq, a))

Spending(seq, a) == Sum(Prices(seq), Bought(seq, a))

Paid(held, given, seq) ==
  \A a \in Accounts : held[a] = given[a] + Income(seq, a) - Spending(seq, a)

PaidIn(w) == Paid(w.balance, w.funded, w.entitlements)

\* The books were balanced in every state a revert may go back to.
SavedPaid ==
  \A k \in DOMAIN frames : PaidIn(frames[k].saved)

PaidInv == Paid(balance, funded, entitlements) /\ SavedPaid

LEMMA PaidMeans ==
  PaidIffMinted <=> Paid(balance, funded, entitlements)
<1>1. ASSUME NEW ids PROVE PricesOf(ids) = Sum(Prices(entitlements), ids)
  BY DEF PricesOf, Sum, Prices
<1>2. ASSUME NEW a \in Accounts
      PROVE  LET InTok == {i \in DOMAIN entitlements : entitlements[i].offer.token = TOK}
             IN  /\ {i \in InTok : entitlements[i].issuer = a} = Sold(entitlements, a)
                 /\ {i \in InTok : entitlements[i].buyer = a} = Bought(entitlements, a)
  BY DEF Sold, Bought
<1>3. QED BY <1>1, <1>2 DEF PaidIffMinted, Paid, Income, Spending

LEMMA TicketFacts ==
  ASSUME NEW s \in Seq(Entitlement)
  PROVE  /\ IsFiniteSet(DOMAIN s) /\ DOMAIN s = 1..Len(s) /\ Len(s) \in Nat
         /\ \A i \in DOMAIN s : s[i] \in Entitlement /\ s[i].offer.price \in Nat
<1>1. DOMAIN s = 1..Len(s) /\ Len(s) \in Nat OBVIOUS
<1>2. IsFiniteSet(DOMAIN s) BY <1>1, FS_Interval
<1>3. \A i \in DOMAIN s : s[i] \in Entitlement OBVIOUS
<1>4. \A e \in Entitlement : e.offer.price \in Nat
  BY OffersAssumption DEF Entitlement
<1>5. QED BY <1>1, <1>2, <1>3, <1>4

LEMMA SumsAreNat ==
  ASSUME NEW s \in Seq(Entitlement), NEW a
  PROVE  /\ Income(s, a) \in Nat /\ Spending(s, a) \in Nat
<1>1. \A i \in DOMAIN s : Prices(s)[i] \in Nat BY TicketFacts DEF Prices
<1>2. /\ Sold(s, a) \subseteq DOMAIN s /\ Bought(s, a) \subseteq DOMAIN s
      /\ IsFiniteSet(Sold(s, a)) /\ IsFiniteSet(Bought(s, a))
  BY TicketFacts, FS_Subset DEF Sold, Bought
<1>3. QED BY <1>1, <1>2, SumType DEF Income, Spending

\* The prices of some tickets, after one was minted.
LEMMA PricesPush ==
  ASSUME NEW s \in Seq(Entitlement), NEW e \in Entitlement, NEW S \in SUBSET DOMAIN s
  PROVE  /\ Sum(Prices(Append(s, e)), S) = Sum(Prices(s), S)
         /\ Sum(Prices(Append(s, e)), S \cup {Len(s) + 1}) = Sum(Prices(s), S) + e.offer.price
<1>1. PICK t : t = Append(s, e) OBVIOUS
<1>2. PICK n : n = Len(s) + 1 OBVIOUS
<1>3. /\ t \in Seq(Entitlement) /\ DOMAIN t = 1..n /\ n \notin DOMAIN s
      /\ DOMAIN s \subseteq DOMAIN t /\ n \in DOMAIN t
      /\ \A i \in DOMAIN s : t[i] = s[i]
      /\ t[n] = e
  BY <1>1, <1>2, Push, TicketFacts
<1>4. \A i \in S : Prices(t)[i] = Prices(s)[i] BY <1>3 DEF Prices
<1>5. IsFiniteSet(S) BY TicketFacts, FS_Subset
<1>6. Sum(Prices(t), S) = Sum(Prices(s), S) BY <1>4, <1>5, SumSame
<1>7. Prices(t)[n] = e.offer.price BY <1>3 DEF Prices
<1>8. \A i \in S \cup {n} : Prices(t)[i] \in Nat BY <1>3, TicketFacts DEF Prices
<1>9. n \notin S BY <1>3
<1>10. Sum(Prices(t), S \cup {n}) = Sum(Prices(t), S) + Prices(t)[n]
  BY <1>5, <1>8, <1>9, SumAdd
<1>11. QED BY <1>1, <1>2, <1>6, <1>7, <1>10

\* What an account earned and spent, after a ticket was minted.
LEMMA MoneyPush ==
  ASSUME NEW s \in Seq(Entitlement), NEW e \in Entitlement, NEW a
  PROVE  /\ Income(Append(s, e), a) =
              Income(s, a) + (IF e.offer.token = TOK /\ e.issuer = a
                              THEN e.offer.price ELSE 0)
         /\ Spending(Append(s, e), a) =
              Spending(s, a) + (IF e.offer.token = TOK /\ e.buyer = a
                                THEN e.offer.price ELSE 0)
<1>1. PICK t : t = Append(s, e) OBVIOUS
<1>2. PICK n : n = Len(s) + 1 OBVIOUS
<1>3. /\ DOMAIN t = DOMAIN s \cup {n} /\ n \notin DOMAIN s
      /\ \A i \in DOMAIN s : t[i] = s[i]
      /\ t[n] = e
  BY <1>1, <1>2, Push, TicketFacts
<1>4. /\ Sold(t, a) = IF e.offer.token = TOK /\ e.issuer = a
                      THEN Sold(s, a) \cup {n} ELSE Sold(s, a)
      /\ Bought(t, a) = IF e.offer.token = TOK /\ e.buyer = a
                        THEN Bought(s, a) \cup {n} ELSE Bought(s, a)
  BY <1>3 DEF Sold, Bought
<1>5. Sold(s, a) \subseteq DOMAIN s /\ Bought(s, a) \subseteq DOMAIN s
  BY DEF Sold, Bought
<1>6. ASSUME NEW S \in SUBSET DOMAIN s
      PROVE  /\ Sum(Prices(t), S) = Sum(Prices(s), S)
             /\ Sum(Prices(t), S \cup {n}) = Sum(Prices(s), S) + e.offer.price
  BY <1>1, <1>2, PricesPush
<1>7. Income(t, a) = Income(s, a) + (IF e.offer.token = TOK /\ e.issuer = a
                                     THEN e.offer.price ELSE 0)
  <2>1. CASE e.offer.token = TOK /\ e.issuer = a
    BY <1>4, <1>5, <1>6, <2>1 DEF Income
  <2>2. CASE ~(e.offer.token = TOK /\ e.issuer = a)
    <3>1. Income(t, a) = Income(s, a) BY <1>4, <1>5, <1>6, <2>2 DEF Income
    <3>2. QED BY <2>2, <3>1, SumsAreNat
  <2>3. QED BY <2>1, <2>2
<1>8. Spending(t, a) = Spending(s, a) + (IF e.offer.token = TOK /\ e.buyer = a
                                         THEN e.offer.price ELSE 0)
  <2>1. CASE e.offer.token = TOK /\ e.buyer = a
    BY <1>4, <1>5, <1>6, <2>1 DEF Spending
  <2>2. CASE ~(e.offer.token = TOK /\ e.buyer = a)
    <3>1. Spending(t, a) = Spending(s, a) BY <1>4, <1>5, <1>6, <2>2 DEF Spending
    <3>2. QED BY <2>2, <3>1, SumsAreNat
  <2>3. QED BY <2>1, <2>2
<1>9. QED BY <1>1, <1>7, <1>8

\* Revocations and transfers are not about money.
LEMMA MoneySame ==
  ASSUME NEW s, NEW t, DOMAIN s = DOMAIN t, NEW a,
         \A i \in DOMAIN s : /\ s[i].offer = t[i].offer /\ s[i].issuer = t[i].issuer
                             /\ s[i].buyer = t[i].buyer
  PROVE  Income(s, a) = Income(t, a) /\ Spending(s, a) = Spending(t, a)
<1>1. Prices(s) = Prices(t) BY DEF Prices
<1>2. Sold(s, a) = Sold(t, a) /\ Bought(s, a) = Bought(t, a) BY DEF Sold, Bought
<1>3. QED BY <1>1, <1>2 DEF Income, Spending

\* The faucet and those who send TOK give as much as they note.
LEMMA FundedStep ==
  ASSUME TypeOK, Given, NEW s \in Seq(Entitlement), Paid(balance, funded, s)
  PROVE  Paid(balance', funded', s)
<1> SUFFICES ASSUME NEW x \in Accounts
             PROVE  balance'[x] = funded'[x] + Income(s, x) - Spending(s, x)
  BY DEF Paid
<1>1. /\ balance[x] \in Nat /\ funded[x] \in Int
      /\ Income(s, x) \in Nat /\ Spending(s, x) \in Nat
  BY TypeFacts, SumsAreNat
<1>2. balance[x] = funded[x] + Income(s, x) - Spending(s, x) BY DEF Paid
<1>3. PICK d \in Int : balance'[x] = balance[x] + d /\ funded'[x] = funded[x] + d
  <2>1. ASSUME NEW a \in Accounts, NEW to \in Accounts, NEW n \in Amounts, Faucet(a, to, n)
        PROVE  \E d \in Int : balance'[x] = balance[x] + d /\ funded'[x] = funded[x] + d
    <3>1. n \in Int /\ balance \in [Accounts -> Int] /\ funded \in [Accounts -> Int]
      BY TypeFacts, BoundsAssumption
    <3>2. CASE x = to
      <4>1. balance'[x] = balance[x] + n /\ funded'[x] = funded[x] + n
        BY <2>1, <3>1, <3>2 DEF Faucet
      <4>2. QED BY <3>1, <4>1
    <3>3. CASE x # to
      <4>1. balance'[x] = balance[x] + 0 /\ funded'[x] = funded[x] + 0
        BY <2>1, <3>1, <3>3 DEF Faucet
      <4>2. QED BY <4>1
    <3>4. QED BY <3>2, <3>3
  <2>2. ASSUME NEW from \in Accounts, NEW to \in Accounts, NEW n \in Amounts,
               TransferTok(from, to, n)
        PROVE  \E d \in Int : balance'[x] = balance[x] + d /\ funded'[x] = funded[x] + d
    <3>1. n \in Nat /\ balance \in [Accounts -> Int] /\ funded \in [Accounts -> Int]
      BY TypeFacts, BoundsAssumption
    <3>2. PICK in \in {0, n}, out \in {0, n} :
            /\ balance'[x] = balance[x] - out + in
            /\ funded'[x] = funded[x] - out + in
      <4>1. /\ balance'[x] = balance[x] - (IF x = from THEN n ELSE 0)
                                        + (IF x = to THEN n ELSE 0)
            /\ funded'[x] = funded[x] - (IF x = from THEN n ELSE 0)
                                      + (IF x = to THEN n ELSE 0)
        <5>1. balance' = Moved(balance, from, to, n) /\ funded' = Moved(funded, from, to, n)
          BY <2>2 DEF TransferTok
        <5>2. QED BY <5>1 DEF Moved
      <4>2. PICK in, out : /\ in = (IF x = to THEN n ELSE 0) /\ in \in {0, n}
                           /\ out = (IF x = from THEN n ELSE 0) /\ out \in {0, n}
        OBVIOUS
      <4>3. balance'[x] = balance[x] - out + in /\ funded'[x] = funded[x] - out + in
        BY <4>1, <4>2
      <4>4. QED BY <4>2, <4>3
    <3>3. in - out \in Int BY <3>1
    <3>4. PICK b \in Int, f \in Int : b = balance[x] /\ f = funded[x] BY <1>1
    <3>5. balance'[x] = b + (in - out) /\ funded'[x] = f + (in - out)
      BY <3>1, <3>2, <3>4
    <3>6. QED BY <3>3, <3>4, <3>5
  <2>3. QED BY <2>1, <2>2 DEF Given
<1>4. QED BY <1>1, <1>2, <1>3

\* What fulfill moves is what the new ticket adds to the sums.
LEMMA FulfillPays ==
  ASSUME TypeOK, NEW a \in Accounts, NEW o \in Offers, Fulfill(a, o),
         Paid(balance, funded, entitlements)
  PROVE  Paid(balance, funded, entitlements)'
<1>1. PICK e \in Entitlement : /\ entitlements' = Append(entitlements, e)
                               /\ e.offer = o /\ e.issuer = o.provider /\ e.buyer = a
  BY IssueFacts DEF Fulfill
<1>2. SUFFICES ASSUME NEW x \in Accounts
               PROVE  balance'[x] = funded[x] + Income(entitlements', x)
                                              - Spending(entitlements', x)
  BY DEF Paid, Fulfill
<1>3. PICK p : p = o.price OBVIOUS
<1>4. PICK inc, spend : inc = Income(entitlements, x) /\ spend = Spending(entitlements, x)
  OBVIOUS
<1>5. /\ balance[x] \in Nat /\ funded[x] \in Int /\ p \in Nat
      /\ inc \in Nat /\ spend \in Nat
  BY <1>3, <1>4, TypeFacts, SumsAreNat, OffersAssumption
<1>6. balance[x] = funded[x] + inc - spend BY <1>4 DEF Paid
<1>7. /\ Income(entitlements', x) = inc + (IF x = o.provider THEN p ELSE 0)
      /\ Spending(entitlements', x) = spend + (IF x = a THEN p ELSE 0)
  BY <1>1, <1>3, <1>4, TypeFacts, MoneyPush DEF Fulfill
<1>8. balance'[x] = balance[x] - (IF x = a THEN p ELSE 0)
                               + (IF x = o.provider THEN p ELSE 0)
  BY <1>3 DEF Fulfill, Moved
<1>9. PICK out \in {0, p}, in \in {0, p} :
        /\ Income(entitlements', x) = inc + in
        /\ Spending(entitlements', x) = spend + out
        /\ balance'[x] = balance[x] - out + in
  <2>1. CASE x = a BY <1>7, <1>8, <2>1
  <2>2. CASE x # a BY <1>7, <1>8, <2>2
  <2>3. QED BY <2>1, <2>2
<1>10. PICK b \in Nat, g \in Int : b = balance[x] /\ g = funded[x] BY <1>5
<1>11. QED BY <1>5, <1>6, <1>9, <1>10

LEMMA PaidStep ==
  ASSUME TypeOK, PaidInv, [Next]_vars PROVE PaidInv'
<1>0. TypeOK' /\ entitlements \in Seq(Entitlement) BY TypeStep, TypeFacts
<1>1. CASE Idle
  <2>1. CASE Given
    <3>1. Paid(balance', funded', entitlements)
      BY <1>0, <2>1, FundedStep DEF PaidInv
    <3>2. Paid(balance, funded, entitlements)' BY <1>1, <3>1 DEF Idle
    <3>3. SavedPaid' BY <1>1 DEF Idle, PaidInv, SavedPaid
    <3>4. QED BY <3>2, <3>3 DEF PaidInv
  <2>2. CASE UNCHANGED <<balance, funded>>
    BY <1>1, <2>2 DEF Idle, PaidInv, SavedPaid, Paid
  <2>3. QED BY <1>1, <2>1, <2>2 DEF Idle
<1>2. CASE Edit
  <2>1. \A i \in DOMAIN entitlements : entitlements'[i].issuer = entitlements[i].issuer
    BY <1>2 DEF Edit, Keeps
  <2>2. ASSUME NEW a \in Accounts
        PROVE  /\ Income(entitlements', a) = Income(entitlements, a)
               /\ Spending(entitlements', a) = Spending(entitlements, a)
    BY <1>2, <2>1, MoneySame DEF Edit
  <2>3. Paid(balance, funded, entitlements)' BY <1>2, <2>2 DEF Edit, PaidInv, Paid
  <2>4. SavedPaid' BY <1>2 DEF Edit, PaidInv, SavedPaid, Paid
  <2>5. QED BY <2>3, <2>4 DEF PaidInv
<1>3. ASSUME TokenReturns \/ TokenReverts
      PROVE  /\ SavedPaid' /\ Top \in Frame
             /\ PaidIn(Top.saved)
  <2>1. frames # <<>> /\ frames' = SubSeq(frames, 1, Len(frames) - 1)
    BY <1>3 DEF TokenReturns, TokenReverts
  <2>2. PICK p : /\ p = SubSeq(frames, 1, Len(frames) - 1)
                 /\ DOMAIN p = 1..(Len(frames) - 1)
                 /\ \A i \in 1..(Len(frames) - 1) : p[i] = frames[i]
                 /\ Len(frames) \in Nat \ {0} /\ DOMAIN frames = 1..Len(frames)
    BY <2>1, TypeFacts, Pop
  <2>3. SavedPaid' BY <2>1, <2>2 DEF PaidInv, SavedPaid
  <2>4. PaidIn(Top.saved)
    BY <2>2 DEF PaidInv, SavedPaid, Top
  <2>5. QED BY <2>1, <2>3, <2>4, TopFacts
<1>4. CASE TokenReturns
  <2>1. Top.buyer \in Accounts /\ Top.offer \in Offers /\ Top.offer.token # TOK
    BY <1>3, <1>4, AccountsAssumption DEF Frame, External
  <2>2. PICK e \in Entitlement : /\ entitlements' = Append(entitlements, e)
                                 /\ e.offer = Top.offer
    BY <1>4, <2>1, IssueFacts DEF TokenReturns
  <2>3. ASSUME NEW a \in Accounts
        PROVE  /\ Income(entitlements', a) = Income(entitlements, a)
               /\ Spending(entitlements', a) = Spending(entitlements, a)
    <3>1. /\ Income(entitlements', a) = Income(entitlements, a) + 0
          /\ Spending(entitlements', a) = Spending(entitlements, a) + 0
      BY <1>0, <2>1, <2>2, MoneyPush
    <3>2. QED BY <1>0, <3>1, SumsAreNat
  <2>4. Paid(balance, funded, entitlements)' BY <1>4, <2>3 DEF TokenReturns, PaidInv, Paid
  <2>5. QED BY <1>3, <1>4, <2>4 DEF PaidInv
<1>5. CASE TokenReverts
  BY <1>3, <1>5 DEF TokenReverts, PaidInv, PaidIn
<1>6. ASSUME NEW a \in Accounts, NEW o \in Offers, Fulfill(a, o) PROVE PaidInv'
  <2>1. Paid(balance, funded, entitlements)' BY <1>6, FulfillPays DEF PaidInv
  <2>2. SavedPaid' BY <1>6 DEF Fulfill, PaidInv, SavedPaid, Paid
  <2>3. QED BY <2>1, <2>2 DEF PaidInv
<1>7. ASSUME NEW a \in Accounts, NEW o \in Offers, CallToken(a, o) PROVE PaidInv'
  <2> DEFINE f == [offer |-> o, buyer |-> a, saved |-> World]
  <2>1. /\ f \in Frame /\ f.saved.balance = balance /\ f.saved.entitlements = entitlements
        /\ f.saved.funded = funded
    BY <1>7, TypeFacts DEF CallToken, Frame, World, Worlds
  <2>2. frames' = Append(frames, f) BY <1>7 DEF CallToken
  <2> HIDE DEF f
  <2>3. /\ DOMAIN frames' = 1..(Len(frames) + 1) /\ DOMAIN frames = 1..Len(frames)
        /\ Len(frames) \in Nat
        /\ \A k \in DOMAIN frames : frames'[k] = frames[k]
        /\ frames'[Len(frames) + 1] = f
    BY <2>1, <2>2, TypeFacts, Push
  <2>4. /\ balance' = balance /\ entitlements' = entitlements /\ funded' = funded
    BY <1>7 DEF CallToken
  <2>5. ASSUME NEW k \in DOMAIN frames'
        PROVE  PaidIn(frames'[k].saved)
    <3>1. CASE k \in DOMAIN frames BY <2>3, <3>1 DEF PaidInv, SavedPaid
    <3>2. CASE k = Len(frames) + 1 BY <2>1, <2>3, <3>2 DEF PaidInv, PaidIn
    <3>3. QED BY <2>3, <3>1, <3>2
  <2>6. SavedPaid' BY <2>4, <2>5 DEF SavedPaid, Paid
  <2>7. Paid(balance, funded, entitlements)' BY <2>4 DEF PaidInv, Paid
  <2>8. QED BY <2>6, <2>7 DEF PaidInv
<1>8. QED BY <1>1, <1>2, <1>4, <1>5, <1>6, <1>7, Cases

\* Beyond what the faucet and others gave it and what it sent, an account has the
\* price of every ticket it issued, less the price of every one it bought: no call
\* of fulfill, however nested and undone and whatever TOK moves beside it, moves
\* money without a ticket or the other way.
THEOREM PaymentIsMint == Spec => []PaidIffMinted
<1>1. Init => PaidInv
  <2> SUFFICES ASSUME Init PROVE PaidInv OBVIOUS
  <2>1. /\ entitlements = <<>> /\ frames = <<>> /\ DOMAIN entitlements = {}
        /\ DOMAIN frames = {}
        /\ \A a \in Accounts : balance[a] = 0 /\ funded[a] = 0
    BY DEF Init
  <2>2. ASSUME NEW a \in Accounts
        PROVE  Income(entitlements, a) = 0 /\ Spending(entitlements, a) = 0
    <3>1. Sold(entitlements, a) = {} /\ Bought(entitlements, a) = {}
      BY <2>1 DEF Sold, Bought
    <3>2. QED BY <3>1, SumEmpty DEF Income, Spending
  <2>3. QED BY <2>1, <2>2 DEF PaidInv, Paid, SavedPaid
<1>2. TypeOK /\ PaidInv /\ [Next]_vars => PaidInv'
  BY PaidStep
<1>3. PaidInv => PaidIffMinted BY PaidMeans DEF PaidInv
<1>4. QED BY <1>1, <1>2, <1>3, TypeCorrect, PTL DEF Spec

-----------------------------------------------------------------------------
(* What was promised is kept. *)

\* A transaction in progress only adds to what was there when it began.
GrowsInv ==
  frames # <<>> =>
    LET first == frames[1].saved.entitlements
    IN  /\ Keeps(first, entitlements)
        /\ \A k \in DOMAIN frames : Keeps(first, frames[k].saved.entitlements)

KeptInv == TypeOK /\ GrowsInv

LEMMA KeepsTransitive ==
  ASSUME NEW s, NEW t, NEW u, Keeps(s, t), Keeps(t, u) PROVE Keeps(s, u)
BY DEF Keeps

LEMMA KeepsSelf == ASSUME NEW s PROVE Keeps(s, s)
BY DEF Keeps

LEMMA IssueKeeps ==
  ASSUME TypeOK, NEW a \in Accounts, NEW o \in Offers
  PROVE  Keeps(entitlements, Issue(a, o))
<1>1. PICK e \in Entitlement : Issue(a, o) = Append(entitlements, e) BY IssueFacts
<1>2. QED BY <1>1, TypeFacts, Push DEF Keeps

LEMMA KeptStep ==
  ASSUME KeptInv, [Next]_vars PROVE KeptInv' /\ Keeps(Committed, Committed')
<1>0. TypeOK /\ TypeOK' BY TypeStep DEF KeptInv
<1>1. ASSUME UNCHANGED frames, Keeps(entitlements, entitlements')
      PROVE  GrowsInv' /\ Keeps(Committed, Committed')
  <2>1. CASE frames = <<>>
    BY <1>1, <2>1 DEF GrowsInv, Committed
  <2>2. CASE frames # <<>>
    BY <1>1, <2>2, KeepsTransitive, KeepsSelf DEF KeptInv, GrowsInv, Committed
  <2>3. QED BY <2>1, <2>2
<1>2. CASE Idle BY <1>0, <1>1, <1>2, KeepsSelf DEF Idle, KeptInv
<1>3. CASE Edit BY <1>0, <1>1, <1>3 DEF Edit, KeptInv
<1>4. ASSUME NEW a \in Accounts, NEW o \in Offers, Fulfill(a, o)
      PROVE  KeptInv' /\ Keeps(Committed, Committed')
  BY <1>0, <1>1, <1>4, IssueKeeps DEF Fulfill, KeptInv
<1>5. ASSUME NEW a \in Accounts, NEW o \in Offers, CallToken(a, o)
      PROVE  KeptInv' /\ Keeps(Committed, Committed')
  <2> DEFINE f == [offer |-> o, buyer |-> a, saved |-> World]
  <2>1. f \in Frame /\ frames' = Append(frames, f) /\ f.saved.entitlements = entitlements
    BY <1>0, <1>5, TypeFacts DEF CallToken, Frame, World, Worlds
  <2> HIDE DEF f
  <2>2. /\ frames' # <<>> /\ DOMAIN frames' = 1..(Len(frames) + 1)
        /\ Len(frames) \in Nat /\ DOMAIN frames = 1..Len(frames)
        /\ \A k \in 1..Len(frames) : frames'[k] = frames[k]
        /\ frames'[Len(frames) + 1] = f
        /\ frames = <<>> => Len(frames) = 0
    <3>1. frames \in Seq(Frame) BY <1>0, TypeFacts
    <3>2. Append(frames, f) # <<>> BY <2>1, <3>1, AppendProperties
    <3>3. DOMAIN frames = 1..Len(frames) /\ Len(frames) \in Nat BY <3>1
    <3>4. QED BY <2>1, <3>1, <3>2, <3>3, Push, EmptySeq
  <2>3. entitlements' = entitlements BY <1>5 DEF CallToken
  <2>4. CASE frames = <<>>
    <3>1. frames'[1] = f /\ \A k \in DOMAIN frames' : k = 1 BY <2>2, <2>4
    <3>2. f.saved.entitlements = entitlements BY <2>1
    <3>3. Keeps(Committed, Committed')
      BY <2>2, <2>4, <3>1, <3>2, KeepsSelf DEF Committed
    <3>4. GrowsInv' BY <2>3, <3>1, <3>2, KeepsSelf DEF GrowsInv
    <3>5. QED BY <1>0, <3>3, <3>4 DEF KeptInv
  <2>5. CASE frames # <<>>
    <3>1. Len(frames) # 0 BY <1>0, <2>5, TypeFacts, EmptySeq
    <3>2. frames'[1] = frames[1] BY <2>2, <3>1
    <3>3. Keeps(Committed, Committed')
      BY <2>2, <2>5, <3>2, KeepsSelf DEF Committed
    <3>4. \A k \in DOMAIN frames' : k \in DOMAIN frames \/ k = Len(frames) + 1
      BY <2>2
    <3>5. GrowsInv'
      BY <2>1, <2>2, <2>3, <2>5, <3>2, <3>4 DEF KeptInv, GrowsInv
    <3>6. QED BY <1>0, <3>3, <3>5 DEF KeptInv
  <2>6. QED BY <2>4, <2>5
<1>6. ASSUME TokenReturns \/ TokenReverts
      PROVE  KeptInv' /\ Keeps(Committed, Committed')
  <2>1. /\ frames # <<>> /\ frames \in Seq(Frame)
        /\ frames' = SubSeq(frames, 1, Len(frames) - 1)
    BY <1>0, <1>6, TypeFacts DEF TokenReturns, TokenReverts
  <2>2. /\ DOMAIN frames' = 1..(Len(frames) - 1) /\ Len(frames) \in Nat \ {0}
        /\ DOMAIN frames = 1..Len(frames)
        /\ \A k \in 1..(Len(frames) - 1) : frames'[k] = frames[k]
    BY <2>1, Pop
  <2> DEFINE first == frames[1].saved.entitlements
  <2>3. Keeps(first, entitlements')
    <3>1. CASE TokenReturns
      <4>1. Keeps(entitlements, entitlements')
        BY <1>0, <3>1, TopFacts, IssueKeeps DEF TokenReturns, Frame, External
      <4>2. QED BY <2>1, <4>1, KeepsTransitive DEF KeptInv, GrowsInv
    <3>2. CASE TokenReverts
      <4>1. entitlements' = frames[Len(frames)].saved.entitlements
        BY <3>2 DEF TokenReverts, Top
      <4>2. Len(frames) \in DOMAIN frames BY <2>2
      <4>3. QED BY <2>1, <4>1, <4>2 DEF KeptInv, GrowsInv
    <3>3. QED BY <1>6, <3>1, <3>2
  <2>4. CASE frames' = <<>>
    BY <1>0, <2>1, <2>3, <2>4 DEF KeptInv, GrowsInv, Committed
  <2>5. CASE frames' # <<>>
    <3>1. 1 \in DOMAIN frames' BY <1>0, <2>5, EmptySeq DEF TypeOK
    <3>2. frames'[1] = frames[1] BY <2>2, <3>1
    <3>3. \A k \in DOMAIN frames' : k \in DOMAIN frames /\ frames'[k] = frames[k]
      BY <2>2
    <3>4. GrowsInv' BY <2>1, <2>3, <2>5, <3>2, <3>3 DEF KeptInv, GrowsInv
    <3>5. Keeps(Committed, Committed')
      BY <2>1, <2>5, <3>2, KeepsSelf DEF Committed
    <3>6. QED BY <1>0, <3>4, <3>5 DEF KeptInv
  <2>6. QED BY <2>4, <2>5
<1>7. QED BY <1>0, <1>2, <1>3, <1>4, <1>5, <1>6, Cases

\* A ticket anyone has seen keeps its issuer, its terms and its revocation,
\* also through transactions that call back and are undone in part.
THEOREM TermsAreForGood == Spec => PromisesKept
<1>1. Init => KeptInv
  BY BoundsAssumption, EmptySeq DEF Init, TypeOK, World, Worlds, KeptInv, GrowsInv
<1>2. KeptInv /\ [Next]_vars => KeptInv' /\ [Keeps(Committed, Committed')]_vars
  BY KeptStep
<1>3. QED BY <1>1, <1>2, PTL DEF Spec, PromisesKept

-----------------------------------------------------------------------------
(* With tokens that do not call back the contract implements the chain that *)
(* the controller was verified against.                                     *)

\* The map of ids to what the reader port shows.
Shown(es) == [i \in DOMAIN es |-> ViewOf(es[i])]

\* No payment in an external token is ever under way.
TokOnly == HookedTokens = {} \/ MaxDepth = 0

LEMMA NoFrames ==
  ASSUME TokOnly, NEW fs \in Seq(Frame), Len(fs) <= MaxDepth PROVE fs = <<>>
<1>1. CASE HookedTokens = {}
  <2>1. Frame = {} BY <1>1 DEF Frame, External
  <2>2. fs \in Seq({}) BY <2>1
  <2>3. QED BY <2>2, EmptySeq, ElementOfSeq
<1>2. CASE MaxDepth = 0
  <2>1. Len(fs) = 0 BY <1>2
  <2>2. QED BY <2>1, EmptySeq
<1>3. QED BY <1>1, <1>2 DEF TokOnly

\* Every ticket was paid for with an offer of its own, so ids cannot run out.
LEMMA IdsSuffice ==
  ASSUME NEW es \in Seq(Entitlement), Apart(es)
  PROVE  /\ Len(es) \in Nat /\ DOMAIN es = 1..Len(es)
         /\ DOMAIN es \subseteq 1..Cardinality(Offers)
<1>1. DOMAIN es = 1..Len(es) /\ Len(es) \in Nat OBVIOUS
<1>2. ASSUME NEW i \in 1..Len(es) PROVE es[i].offer \in Offers
  <2>1. es[i] \in Entitlement BY <1>1
  <2>2. QED BY <2>1 DEF Entitlement
<1> DEFINE f == [i \in 1..Len(es) |-> es[i].offer]
<1>3. f \in Injection(1..Len(es), Offers)
  <2>1. f \in [1..Len(es) -> Offers] BY <1>2
  <2>2. ASSUME NEW i \in 1..Len(es), NEW j \in 1..Len(es), f[i] = f[j] PROVE i = j
    BY <1>1, <2>2 DEF Apart
  <2>3. QED BY <2>1, <2>2 DEF Injection, IsInjective
<1> HIDE DEF f
<1>4. Cardinality(1..Len(es)) <= Cardinality(Offers)
  BY <1>3, FiniteOffers, FS_Injection
<1>5. Cardinality(1..Len(es)) = Len(es) BY <1>1, FS_Interval
<1>6. Cardinality(Offers) \in Nat BY FiniteOffers, FS_CardinalityType
<1>7. Len(es) <= Cardinality(Offers) BY <1>4, <1>5
<1>8. 1..Len(es) \subseteq 1..Cardinality(Offers) BY <1>1, <1>6, <1>7
<1>9. QED BY <1>1, <1>8

LEMMA ShownEdit ==
  ASSUME NEW es \in Seq(Entitlement), NEW i \in DOMAIN es, NEW e
  PROVE  Shown([es EXCEPT ![i] = e]) = [Shown(es) EXCEPT ![i] = ViewOf(e)]
<1> DEFINE d == [es EXCEPT ![i] = e]
<1>1. /\ DOMAIN d = DOMAIN es
      /\ d[i] = e
      /\ \A j \in DOMAIN es : j # i => d[j] = es[j]
  OBVIOUS
<1> HIDE DEF d
<1>2. Shown(d) = [Shown(es) EXCEPT ![i] = ViewOf(e)]
  BY <1>1 DEF Shown
<1>3. QED BY <1>2 DEF d

LEMMA ViewRevoked ==
  ASSUME NEW x, NEW y, y.owner = x.owner, y.terms = x.terms, y.revoked = TRUE
  PROVE  ViewOf(y) = [ViewOf(x) EXCEPT !.revoked = TRUE]
<1> DEFINE v == [ViewOf(x) EXCEPT !.revoked = TRUE]
<1>1. /\ DOMAIN v = {"owner", "terms", "revoked"}
      /\ v = [k \in {"owner", "terms", "revoked"} |-> v[k]]
      /\ v.owner = x.owner /\ v.terms = x.terms /\ v.revoked = TRUE
  BY DEF ViewOf
<1> HIDE DEF v
<1>2. ViewOf(y) = [owner |-> x.owner, terms |-> x.terms, revoked |-> TRUE]
  BY DEF ViewOf
<1>3. v = [owner |-> x.owner, terms |-> x.terms, revoked |-> TRUE]
  BY <1>1
<1>4. QED BY <1>2, <1>3 DEF v

LEMMA ViewMoved ==
  ASSUME NEW x, NEW y, NEW a, y.owner = a, y.terms = x.terms, y.revoked = x.revoked
  PROVE  ViewOf(y) = [ViewOf(x) EXCEPT !.owner = a]
<1>1. ViewOf(y) = [owner |-> a, terms |-> x.terms, revoked |-> x.revoked]
  BY DEF ViewOf
<1>2. [ViewOf(x) EXCEPT !.owner = a]
        = [owner |-> a, terms |-> x.terms, revoked |-> x.revoked]
  BY DEF ViewOf
<1>3. QED BY <1>1, <1>2

LEMMA ShownPush ==
  ASSUME NEW es \in Seq(Entitlement), NEW e \in Entitlement
  PROVE  Shown(Append(es, e)) =
           [x \in DOMAIN Shown(es) \cup {Len(es) + 1} |->
              IF x = Len(es) + 1 THEN ViewOf(e) ELSE Shown(es)[x]]
<1> DEFINE d == Append(es, e)
           n == Len(es) + 1
<1>1. /\ DOMAIN d = DOMAIN es \cup {n}
      /\ d[n] = e
      /\ \A j \in DOMAIN es : j # n /\ d[j] = es[j]
  <2>1. DOMAIN es = 1..Len(es) /\ Len(es) \in Nat OBVIOUS
  <2>2. 1..n = 1..Len(es) \cup {n} BY <2>1
  <2>3. DOMAIN d = 1..n /\ d[n] = e BY Push
  <2>4. \A j \in DOMAIN es : d[j] = es[j] BY Push
  <2>5. \A j \in DOMAIN es : j # n BY <2>1
  <2>6. QED BY <2>1, <2>2, <2>3, <2>4, <2>5
<1> HIDE DEF d, n
<1>2. Shown(d) = [x \in DOMAIN Shown(es) \cup {n} |->
                   IF x = n THEN ViewOf(e) ELSE Shown(es)[x]]
  BY <1>1 DEF Shown
<1>3. QED BY <1>2 DEF d, n

\* Under the books the abstract state is the ticket list itself.
LEMMA Between ==
  ASSUME SoldInv, frames = <<>>
  PROVE  /\ Committed = entitlements
         /\ Committed \in Seq(Entitlement)
         /\ DOMAIN entitlements = 1..Len(entitlements) /\ Len(entitlements) \in Nat
         /\ DOMAIN entitlements \subseteq 1..Cardinality(Offers)
         /\ [i \in DOMAIN Committed |-> ViewOf(Committed[i])] = Shown(entitlements)
<1>1. Committed = entitlements BY DEF Committed
<1>2. entitlements \in Seq(Entitlement) BY TypeFacts DEF SoldInv
<1>3. Apart(entitlements) BY DEF SoldInv, SoldOnce, Books
<1>4. QED BY <1>1, <1>2, <1>3, IdsSuffice DEF Shown

LEMMA ChainStep ==
  ASSUME SoldInv, frames = <<>>, frames' = <<>>, [Next]_vars
  PROVE  [Chain!ChainNext]_(Chain!chainVars)
<1> DEFINE tickets == [i \in DOMAIN Committed |-> ViewOf(Committed[i])]
           ids == 1..Cardinality(Offers)
<1>0. /\ TypeOK /\ frames = <<>> /\ entitlements \in Seq(Entitlement)
      /\ DOMAIN entitlements = 1..Len(entitlements) /\ Len(entitlements) \in Nat
      /\ DOMAIN entitlements \subseteq ids
      /\ tickets = Shown(entitlements)
      /\ DOMAIN tickets = DOMAIN entitlements
      /\ \A i \in DOMAIN entitlements : tickets[i] = ViewOf(entitlements[i])
  BY Between, TypeFacts DEF SoldInv, Shown
<1>1. /\ frames' = <<>> /\ entitlements' \in Seq(Entitlement)
      /\ DOMAIN entitlements' \subseteq ids
      /\ DOMAIN entitlements' = 1..Len(entitlements')
      /\ tickets' = Shown(entitlements')
  <2>1. SoldInv' BY SoldStep
  <2>2. /\ Committed' = entitlements'
        /\ entitlements' \in Seq(Entitlement)
        /\ Apart(entitlements')
    <3>1. entitlements' \in Seq(Entitlement)
      BY <2>1 DEF SoldInv, TypeOK, World, Worlds
    <3>2. QED BY <2>1, <3>1 DEF SoldInv, SoldOnce, Books, Committed
  <2>3. QED BY <2>1, <2>2, IdsSuffice DEF Shown
<1> HIDE DEF tickets
<1>2. CASE UNCHANGED <<entitlements, time>>
  <2>1. tickets' = tickets BY <1>0, <1>1, <1>2
  <2>2. QED BY <1>2, <2>1 DEF tickets, Chain!chainVars
<1>3. CASE Advance
  <2>1. tickets' = tickets BY <1>0, <1>1, <1>3 DEF Advance
  <2>2. Chain!Advance BY <1>3, <2>1 DEF Advance, Chain!Advance, tickets
  <2>3. QED BY <2>2 DEF Chain!ChainNext
<1>4. ASSUME NEW a \in Accounts, NEW i \in DOMAIN entitlements, Revoke(a, i)
      PROVE  Chain!ChainNext
  <2>1. entitlements[i] \in Entitlement BY <1>0
  <2> DEFINE e == [entitlements[i] EXCEPT !.revoked = TRUE]
  <2>2. /\ e.revoked = TRUE /\ e.terms = entitlements[i].terms
        /\ e.owner = entitlements[i].owner
    BY <2>1 DEF Entitlement
  <2>3. entitlements' = [entitlements EXCEPT ![i] = e] BY <1>4 DEF Revoke
  <2> HIDE DEF e
  <2>4. tickets' = [tickets EXCEPT ![i] = ViewOf(e)]
    <3>1. Shown(entitlements') = [Shown(entitlements) EXCEPT ![i] = ViewOf(e)]
      BY <1>0, <2>3, ShownEdit
    <3>2. tickets' = Shown(entitlements') /\ tickets = Shown(entitlements)
      BY <1>0, <1>1
    <3>3. QED BY <3>1, <3>2
  <2>5. tickets' = [tickets EXCEPT ![i].revoked = TRUE]
    <3>1. ViewOf(e) = [ViewOf(entitlements[i]) EXCEPT !.revoked = TRUE]
      BY <2>2, ViewRevoked
    <3>2. QED BY <1>0, <2>4, <3>1
  <2>6. time' = time /\ i \in ids /\ i \in DOMAIN tickets
    BY <1>0, <1>4 DEF Revoke
  <2>7. Chain!Revoke(i) BY <2>5, <2>6 DEF Chain!Revoke, tickets
  <2>8. QED BY <2>6, <2>7 DEF Chain!ChainNext
<1>5. ASSUME NEW a \in Accounts, NEW i \in DOMAIN entitlements,
             NEW to \in Accounts, Transfer(a, i, to)
      PROVE  Chain!ChainNext
  <2>1. entitlements[i] \in Entitlement BY <1>0
  <2> DEFINE e == [entitlements[i] EXCEPT !.owner = to]
  <2>2. /\ e.owner = to /\ e.terms = entitlements[i].terms
        /\ e.revoked = entitlements[i].revoked
    BY <2>1 DEF Entitlement
  <2>3. entitlements' = [entitlements EXCEPT ![i] = e] BY <1>5 DEF Transfer
  <2> HIDE DEF e
  <2>4. tickets' = [tickets EXCEPT ![i] = ViewOf(e)]
    <3>1. Shown(entitlements') = [Shown(entitlements) EXCEPT ![i] = ViewOf(e)]
      BY <1>0, <2>3, ShownEdit
    <3>2. tickets' = Shown(entitlements') /\ tickets = Shown(entitlements)
      BY <1>0, <1>1
    <3>3. QED BY <3>1, <3>2
  <2>5. tickets' = [tickets EXCEPT ![i].owner = to]
    <3>1. ViewOf(e) = [ViewOf(entitlements[i]) EXCEPT !.owner = to]
      BY <2>2, ViewMoved
    <3>2. QED BY <1>0, <2>4, <3>1
  <2>6. time' = time /\ i \in ids /\ i \in DOMAIN tickets
    BY <1>0, <1>5 DEF Transfer
  <2>7. Chain!Transfer(i, to) BY <2>5, <2>6 DEF Chain!Transfer, tickets
  <2>8. QED BY <2>6, <2>7 DEF Chain!ChainNext
<1>6. ASSUME NEW a \in Accounts, NEW o \in Offers, Fulfill(a, o)
      PROVE  Chain!ChainNext
  <2> DEFINE id == Len(entitlements) + 1
  <2>1. PICK e \in Entitlement : /\ entitlements' = Append(entitlements, e)
                                 /\ e.terms = o.terms /\ e.owner = a /\ ~e.revoked
    BY <1>0, <1>6, IssueFacts DEF Fulfill
  <2>2. id \in ids /\ id \notin DOMAIN tickets
    BY <1>0, <1>1, <2>1, Push
  <2>3. ViewOf(e) = [owner |-> a, terms |-> o.terms, revoked |-> FALSE]
    <3>1. e.revoked = FALSE BY <2>1 DEF Entitlement
    <3>2. QED BY <2>1, <3>1 DEF ViewOf
  <2>4. tickets' = [x \in DOMAIN tickets \cup {id} |->
                      IF x = id
                      THEN [owner |-> a, terms |-> o.terms, revoked |-> FALSE]
                      ELSE tickets[x]]
    <3>1. tickets' = Shown(Append(entitlements, e)) /\ tickets = Shown(entitlements)
      BY <1>0, <1>1, <2>1
    <3>2. Shown(Append(entitlements, e)) =
            [x \in DOMAIN Shown(entitlements) \cup {id} |->
               IF x = id THEN ViewOf(e) ELSE Shown(entitlements)[x]]
      BY <1>0, ShownPush
    <3>3. QED BY <2>3, <3>1, <3>2
  <2>5. time' = time /\ o.terms \in TermsOnOffer
    <3>1. time' = time BY <1>6 DEF Fulfill
    <3>2. o.terms \in TermsOnOffer BY DEF TermsOnOffer
    <3>3. QED BY <3>1, <3>2
  <2> HIDE DEF id
  <2>6. Chain!Mint(id, a, o.terms) BY <2>2, <2>4, <2>5 DEF Chain!Mint, tickets
  <2>7. QED BY <2>2, <2>5, <2>6 DEF Chain!ChainNext
<1>7. ~TokenReturns /\ ~TokenReverts BY <1>0 DEF TokenReturns, TokenReverts
<1>8. ASSUME NEW a \in Accounts, NEW o \in Offers PROVE ~CallToken(a, o)
  <2>1. ASSUME NEW f PROVE Append(frames, f) # <<>> BY <1>0
  <2>2. QED BY <1>1, <2>1 DEF CallToken
<1>9. QED
  BY <1>2, <1>3, <1>4, <1>5, <1>6, <1>7, <1>8
     DEF Next, TokenStep, ContractStep, Approve, Faucet, TransferTok, SignOffer, vars

LEMMA ChainBegins == Init => SoldInv /\ Chain!ChainInit
<1> SUFFICES ASSUME Init PROVE SoldInv /\ Chain!ChainInit OBVIOUS
<1>1. SoldInv BY SoldBegins
<1>2. Committed = <<>> /\ time = 0 BY DEF Init, Committed
<1>3. DOMAIN Committed = {} BY <1>2, EmptySeq
<1>4. [i \in DOMAIN Committed |-> ViewOf(Committed[i])] = [id \in {} |-> 0]
  BY <1>3
<1>5. Chain!ChainInit BY <1>2, <1>4 DEF Chain!ChainInit
<1>6. QED BY <1>1, <1>5

\* As long as offers are paid in TOK, whatever the contract does
\* is something EntitlementChain allows: what Controller assumes of the chain
\* is what the contract delivers, for any number of accounts and offers.
THEOREM ContractImplementsChain == TokOnly => (Spec => ImplementsChain)
<1> SUFFICES ASSUME TokOnly PROVE Spec => ImplementsChain
  OBVIOUS
<1>1. SoldInv => frames = <<>> BY NoFrames, TypeFacts DEF SoldInv
<1>2. SoldInv' => frames' = <<>>
  <2>1. SoldInv' => frames' \in Seq(Frame) /\ Len(frames') <= MaxDepth
    BY DEF SoldInv, TypeOK, World, Worlds, Frame
  <2>2. QED BY <2>1, NoFrames
<1>3. SoldInv /\ [Next]_vars => SoldInv' /\ [Chain!ChainNext]_(Chain!chainVars)
  BY <1>1, <1>2, SoldStep, ChainStep
<1>4. QED BY <1>3, ChainBegins, PTL DEF Spec, ImplementsChain, Chain!ChainSpec
=============================================================================
