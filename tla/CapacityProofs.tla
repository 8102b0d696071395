--------------------------- MODULE CapacityProofs ---------------------------
(***************************************************************************)
(* Proofs about CapacityLedger: the pool is never overbooked, and a ledger *)
(* without a clock keeps its books and every promise, for any number of    *)
(* requests of any size, handled in any order.                             *)
(***************************************************************************)
EXTENDS CapacityLedger, FiniteSetTheorems, TLAPS

Holding == In({"quoting", "signed", "offered", "failed"})

-----------------------------------------------------------------------------
(* Slots and how many there are. *)

LEMMA HoldSize ==
  ASSUME NEW r \in Requests
  PROVE  IsFiniteSet(Hold(r)) /\ Cardinality(Hold(r)) = Demand[r] /\ Demand[r] \in Nat
<1>1. Demand[r] \in Nat BY RequestsAssumption
<1>2. IsFiniteSet(1..Demand[r]) /\ Cardinality(1..Demand[r]) = Demand[r]
  BY <1>1, FS_Interval
<1>3. IsFiniteSet({r}) /\ Cardinality({r}) = 1 BY FS_Singleton
<1>4. IsFiniteSet(Hold(r)) /\ Cardinality(Hold(r)) = 1 * Demand[r]
  BY <1>2, <1>3, FS_Product DEF Hold
<1>5. QED BY <1>1, <1>4

LEMMA UnitsFinite ==
  ASSUME NEW R \in SUBSET Requests PROVE IsFiniteSet(Units(R))
<1> DEFINE T == {Hold(r) : r \in R}
           f == [r \in R |-> Hold(r)]
<1>1. IsFiniteSet(R) BY RequestsAssumption, FS_Subset
<1>2. f \in Surjection(R, T) BY DEF Surjection
<1>3. IsFiniteSet(T) BY <1>1, <1>2, FS_Surjection
<1>4. \A S \in T : IsFiniteSet(S) BY HoldSize
<1>5. QED BY <1>3, <1>4, FS_UNION DEF Units

LEMMA UnitsIn ==
  ASSUME NEW R \in SUBSET Requests, NEW s
  PROVE  s \in Units(R) <=> \E r \in R : s \in Hold(r)
BY DEF Units

\* A slot names its request.
LEMMA SlotOf ==
  ASSUME NEW r, NEW s \in Hold(r) PROVE s[1] = r
BY DEF Hold

LEMMA UnitsMore ==
  ASSUME NEW R \in SUBSET Requests, NEW r \in Requests, r \notin R
  PROVE  /\ Units(R \cup {r}) = Units(R) \cup Hold(r)
         /\ Units(R) \cap Hold(r) = {}
         /\ Cardinality(Units(R \cup {r})) = Cardinality(Units(R)) + Demand[r]
<1>1. Units(R \cup {r}) = Units(R) \cup Hold(r) BY DEF Units
<1>2. Units(R) \cap Hold(r) = {}
  <2>1. SUFFICES ASSUME NEW s \in Units(R), s \in Hold(r) PROVE FALSE OBVIOUS
  <2>2. PICK q \in R : s \in Hold(q) BY UnitsIn
  <2>3. QED BY <2>1, <2>2, SlotOf
<1>3. IsFiniteSet(Units(R)) BY UnitsFinite
<1>4. Cardinality(Units(R) \cup Hold(r)) = Cardinality(Units(R)) + Cardinality(Hold(r)) - 0
  BY <1>2, <1>3, HoldSize, FS_Union, FS_EmptySet
<1>5. Cardinality(Units(R)) \in Nat BY <1>3, FS_CardinalityType
<1>6. /\ Cardinality(Units(R \cup {r})) = Cardinality(Units(R)) + Cardinality(Hold(r)) - 0
      /\ Cardinality(Hold(r)) = Demand[r] /\ Demand[r] \in Nat
  BY <1>1, <1>4, HoldSize
<1>7. Cardinality(Units(R \cup {r})) = Cardinality(Units(R)) + Demand[r]
  BY <1>5, <1>6
<1>8. QED BY <1>1, <1>2, <1>7

LEMMA UnitsLess ==
  ASSUME NEW R \in SUBSET Requests, NEW r \in R
  PROVE  Cardinality(Units(R \ {r})) = Cardinality(Units(R)) - Demand[r]
<1> DEFINE Q == R \ {r}
<1>1. R = Q \cup {r} /\ r \notin Q /\ Q \in SUBSET Requests /\ r \in Requests
  OBVIOUS
<1> HIDE DEF Q
<1>2. Cardinality(Units(R)) = Cardinality(Units(Q)) + Demand[r]
  BY <1>1, UnitsMore
<1> USE DEF Q
<1>3. Cardinality(Units(R \ {r})) \in Nat BY UnitsFinite, FS_CardinalityType
<1>4. QED BY <1>2, <1>3, HoldSize

-----------------------------------------------------------------------------
(* Types. *)

LEMMA SweptFacts ==
  ASSUME TypeOK
  PROVE  /\ Swept \subseteq slots /\ IsFiniteSet(slots) /\ IsFiniteSet(Swept)
         /\ Cardinality(Swept) \in Nat /\ Cardinality(slots) \in Nat
         /\ Cardinality(Swept) <= Cardinality(slots)
<1>1. IsFiniteSet(slots) BY UnitsFinite, FS_Subset DEF TypeOK
<1>2. Swept \subseteq slots BY DEF Swept
<1>3. QED BY <1>1, <1>2, FS_Subset, FS_CardinalityType

LEMMA TypeStep ==
  ASSUME TypeOK, [Next]_vars PROVE TypeOK'
<1> USE LedgerAssumption
<1>0. Swept \subseteq slots BY DEF Swept
<1>1. ASSUME NEW r \in Requests, Refuse(r) PROVE TypeOK'
  BY <1>0, <1>1 DEF Refuse, Arrives, TypeOK
<1>2. ASSUME NEW r \in Requests, NEW now \in {time, time + 1}, Reserve(r, now)
      PROVE  TypeOK'
  <2> DEFINE n == Cardinality({q \in Requests : turn[q] > 0})
  <2>1. n \in Nat BY RequestsAssumption, FS_Subset, FS_CardinalityType
  <2>2. turn' = [turn EXCEPT ![r] = 1 + n] BY <1>2 DEF Reserve
  <2> HIDE DEF n
  <2>3. turn' \in [Requests -> Nat] /\ turn'[r] > 0
        /\ \A q \in Requests : turn[q] > 0 => turn'[q] > 0
    BY <2>1, <2>2 DEF TypeOK
  <2>4. slots' \subseteq Units(Requests)
    <3>1. Hold(r) \subseteq Units(Requests) BY DEF Units
    <3>2. QED BY <1>0, <1>2, <3>1 DEF Reserve, TypeOK
  <2>5. ASSUME NEW s \in slots' PROVE turn'[s[1]] > 0 /\ st'[s[1]] # "new"
    <3>1. CASE s \in Swept
      <4>1. s[1] \in Requests
        <5>1. PICK q \in Requests : s \in Hold(q)
          BY <1>0, <3>1, UnitsIn DEF TypeOK
        <5>2. QED BY <5>1, SlotOf
      <4>2. turn[s[1]] > 0 /\ st[s[1]] # "new" BY <1>0, <3>1 DEF TypeOK
      <4>3. QED BY <1>2, <2>3, <4>1, <4>2 DEF Reserve, TypeOK
    <3>2. CASE s \in Hold(r)
      <4>1. s[1] = r BY <3>2, SlotOf
      <4>2. QED BY <1>2, <2>3, <4>1 DEF Reserve, TypeOK
    <3>3. QED BY <1>2, <2>5, <3>1, <3>2 DEF Reserve
  <2>6. QED BY <1>2, <2>3, <2>4, <2>5 DEF Reserve, TypeOK
<1>3. ASSUME NEW r \in Requests, Sign(r) PROVE TypeOK'
  BY <1>3 DEF Sign, TypeOK
<1>4. ASSUME NEW r \in Requests, HoldUntil(r) PROVE TypeOK'
  BY <1>0, <1>4 DEF HoldUntil, TypeOK
<1>5. ASSUME NEW r \in Requests, DeclineQuote(r) PROVE TypeOK'
  BY <1>0, <1>5 DEF DeclineQuote, TypeOK
<1>6. ASSUME NEW r \in Requests, Raise(r) PROVE TypeOK'
  BY <1>6 DEF Raise, TypeOK
<1>7. CASE Advance BY <1>7 DEF Advance, TypeOK
<1>8. CASE UNCHANGED vars BY <1>8 DEF vars, TypeOK
<1>9. QED BY <1>1, <1>2, <1>3, <1>4, <1>5, <1>6, <1>7, <1>8 DEF Next

LEMMA InitTypes == Init => TypeOK /\ slots = {}
BY DEF Init, TypeOK

\* Every reachable state is well typed, and every reserved unit has a place in
\* the list.
THEOREM TypeCorrect == Spec => []TypeOK
BY InitTypes, TypeStep, PTL DEF Spec

-----------------------------------------------------------------------------
(* The pool is never overbooked. *)

LEMMA ReserveAdds ==
  ASSUME TypeOK, NEW r \in Requests, NEW now, Reserve(r, now)
  PROVE  /\ Cardinality(slots') = Cardinality(Swept) + Demand[r]
         /\ Cardinality(slots') <= Capacity
<1>1. Swept \cap Hold(r) = {}
  <2>1. SUFFICES ASSUME NEW s \in Swept, s \in Hold(r) PROVE FALSE OBVIOUS
  <2>2. st[s[1]] # "new" BY SweptFacts DEF TypeOK
  <2>3. QED BY <2>1, <2>2, SlotOf DEF Reserve, Arrives
<1>2. Cardinality(Swept \cup Hold(r)) = Cardinality(Swept) + Cardinality(Hold(r)) - 0
  BY <1>1, SweptFacts, HoldSize, FS_Union, FS_EmptySet
<1>3. Cardinality(slots') = Cardinality(Swept) + Demand[r]
  BY <1>2, SweptFacts, HoldSize DEF Reserve
<1>4. QED BY <1>3, SweptFacts, HoldSize, LedgerAssumption DEF Reserve, Fits

\* Only an admission makes the list longer.
LEMMA OthersShrink ==
  ASSUME TypeOK, [Next]_vars, ~\E r \in Requests, now \in {time, time + 1} : Reserve(r, now)
  PROVE  slots' \subseteq slots
BY SweptFacts
   DEF Next, vars, Refuse, Sign, HoldUntil, DeclineQuote, Raise, Advance

LEMMA CapacityStep ==
  ASSUME TypeOK, WithinCapacity, [Next]_vars PROVE WithinCapacity'
<1>1. CASE \E r \in Requests, now \in {time, time + 1} : Reserve(r, now)
  BY <1>1, ReserveAdds DEF WithinCapacity
<1>2. CASE ~\E r \in Requests, now \in {time, time + 1} : Reserve(r, now)
  <2>1. slots' \subseteq slots BY <1>2, OthersShrink
  <2>2. Cardinality(slots') <= Cardinality(slots) /\ Cardinality(slots') \in Nat
    BY <2>1, SweptFacts, FS_Subset, FS_CardinalityType
  <2>3. QED BY <2>2, SweptFacts, LedgerAssumption DEF WithinCapacity
<1>3. QED BY <1>1, <1>2

\* Whatever requests race, and whether or not holds expire, the ledger never
\* books more than the pool.
THEOREM NeverOverbooked == Spec => []WithinCapacity
<1>1. Init => TypeOK /\ WithinCapacity
  BY InitTypes, FS_EmptySet, LedgerAssumption DEF WithinCapacity
<1>2. TypeOK /\ WithinCapacity /\ [Next]_vars => (TypeOK /\ WithinCapacity)'
  BY TypeStep, CapacityStep
<1>3. QED BY <1>1, <1>2, PTL DEF Spec

-----------------------------------------------------------------------------
(* Without a clock the books balance, and so every promise fits. *)

LEMMA NoSweep == ~clocked => Swept = slots
BY DEF Swept

LEMMA HoldingFacts ==
  ASSUME TypeOK
  PROVE  /\ Holding \subseteq Requests /\ In({"offered"}) \subseteq Holding
         /\ IsFiniteSet(Units(Holding)) /\ Cardinality(Units(Holding)) \in Nat
<1>1. Holding \subseteq Requests /\ In({"offered"}) \subseteq Holding
  BY DEF Holding, In
<1>2. QED BY <1>1, UnitsFinite, FS_CardinalityType

LEMMA BalanceStep ==
  ASSUME ~clocked, TypeOK, BooksBalance, [Next]_vars PROVE BooksBalance'
<1>0. /\ Swept = slots /\ Cardinality(slots) = Cardinality(Units(Holding))
      /\ (Cardinality(slots') = Cardinality(Units(Holding'))) => BooksBalance'
  BY NoSweep DEF BooksBalance, Holding
<1>1. ASSUME slots' = slots, Holding' = Holding PROVE BooksBalance'
  BY <1>0, <1>1
<1>2. ASSUME NEW r \in Requests, Refuse(r) PROVE BooksBalance'
  <2>1. Holding' = Holding
    BY <1>2 DEF Refuse, Arrives, Holding, In, TypeOK
  <2>2. QED BY <1>0, <1>1, <1>2, <2>1 DEF Refuse
<1>3. ASSUME NEW r \in Requests, NEW now \in {time, time + 1}, Reserve(r, now)
      PROVE  BooksBalance'
  <2>1. Holding' = Holding \cup {r} /\ r \notin Holding
    BY <1>3 DEF Reserve, Arrives, Holding, In, TypeOK
  <2>2. Cardinality(Units(Holding \cup {r})) = Cardinality(Units(Holding)) + Demand[r]
    BY <2>1, HoldingFacts, UnitsMore
  <2>3. QED BY <1>0, <1>3, <2>1, <2>2, ReserveAdds
<1>4. ASSUME NEW r \in Requests, DeclineQuote(r) PROVE BooksBalance'
  <2>1. Holding' = Holding \ {r} /\ r \in Holding
    BY <1>4 DEF DeclineQuote, Holding, In, TypeOK
  <2>2. PICK gone \in Released(Demand[r]) : slots' = slots \ gone
    BY <1>0, <1>4 DEF DeclineQuote
  <2>3. Demand[r] <= Cardinality(slots)
    <3>1. Hold(r) \subseteq Units(Holding) BY <2>1 DEF Units
    <3>2. Cardinality(Hold(r)) <= Cardinality(Units(Holding))
      BY <3>1, HoldingFacts, FS_Subset
    <3>3. QED BY <1>0, <3>2, HoldSize
  <2>4. gone \subseteq slots /\ Cardinality(gone) = Demand[r]
    <3>1. gone \subseteq slots /\ Cardinality(gone) = Min({Demand[r], Cardinality(slots)})
      BY <1>0, <2>2 DEF Released
    <3>2. Demand[r] \in Nat /\ Cardinality(slots) \in Nat BY HoldSize, SweptFacts
    <3>3. Min({Demand[r], Cardinality(slots)}) = Demand[r]
      BY <2>3, <3>2 DEF Min
    <3>4. QED BY <3>1, <3>3
  <2>5. Cardinality(slots') = Cardinality(slots) - Demand[r]
    <3>1. slots \cap gone = gone BY <2>4
    <3>2. IsFiniteSet(slots) BY SweptFacts
    <3>3. Cardinality(slots \ gone) = Cardinality(slots) - Cardinality(slots \cap gone)
      BY <3>2, FS_Difference
    <3>4. QED BY <2>2, <2>4, <3>1, <3>3
  <2>6. Cardinality(Units(Holding \ {r})) = Cardinality(Units(Holding)) - Demand[r]
    BY <2>1, HoldingFacts, UnitsLess
  <2>7. QED BY <1>0, <2>1, <2>5, <2>6
<1>5. ASSUME NEW r \in Requests, Sign(r) \/ Raise(r) \/ HoldUntil(r) PROVE BooksBalance'
  <2>1. slots' = slots BY <1>0, <1>5 DEF Sign, Raise, HoldUntil
  <2>2. Holding' = Holding
    BY <1>5 DEF Sign, Raise, HoldUntil, Holding, In, TypeOK
  <2>3. QED BY <1>1, <2>1, <2>2
<1>6. CASE Advance \/ UNCHANGED vars
  BY <1>1, <1>6 DEF Advance, vars, Holding, In
<1>7. QED BY <1>2, <1>3, <1>4, <1>5, <1>6 DEF Next

LEMMA ClockStep == ASSUME [Next]_vars PROVE clocked' = clocked
BY DEF Next, vars, Refuse, Reserve, Sign, HoldUntil, DeclineQuote, Raise, Advance

LEMMA BooksStep ==
  ASSUME TypeOK, BooksBalance, [Next]_vars PROVE BooksBalance'
<1>1. CASE ~clocked BY <1>1, BalanceStep
<1>2. CASE clocked BY <1>2, ClockStep DEF BooksBalance
<1>3. QED BY <1>1, <1>2

LEMMA BalanceInit == Init => BooksBalance
<1> SUFFICES ASSUME Init PROVE BooksBalance OBVIOUS
<1>1. Holding = {} BY DEF Init, Holding, In
<1>2. Units({}) = {} BY DEF Units
<1>3. QED BY <1>1, <1>2 DEF Init, BooksBalance, Holding

\* The ledger of the evaluated stack, which has no clock, books exactly what
\* was admitted and not given back.
THEOREM NothingIsLost == Spec => []BooksBalance
<1>1. Init => TypeOK /\ BooksBalance BY InitTypes, BalanceInit
<1>2. TypeOK /\ BooksBalance /\ [Next]_vars => (TypeOK /\ BooksBalance)'
  BY TypeStep, BooksStep
<1>3. QED BY <1>1, <1>2, PTL DEF Spec

\* Without a clock no set of live offers exceeds the pool, in whatever order
\* requests are admitted, quoted, declined and given up.
THEOREM NoOverselling == Spec => [](~clocked => PromisesFit)
<1>1. Init => TypeOK /\ WithinCapacity /\ BooksBalance
  BY InitTypes, BalanceInit, FS_EmptySet, LedgerAssumption DEF WithinCapacity
<1>2. TypeOK /\ WithinCapacity /\ BooksBalance /\ [Next]_vars
        => (TypeOK /\ WithinCapacity /\ BooksBalance)'
  BY TypeStep, CapacityStep, BooksStep
<1>3. TypeOK /\ WithinCapacity /\ BooksBalance => (~clocked => PromisesFit)
  <2>1. SUFFICES ASSUME TypeOK, WithinCapacity, BooksBalance, ~clocked
                 PROVE  PromisesFit
    OBVIOUS
  <2>2. Units(In({"offered"})) \subseteq Units(Holding)
    BY <2>1, HoldingFacts DEF Units
  <2>3. /\ Cardinality(Units(In({"offered"}))) <= Cardinality(Units(Holding))
        /\ Cardinality(Units(In({"offered"}))) \in Nat
    BY <2>1, <2>2, HoldingFacts, FS_Subset, FS_CardinalityType
  <2>4. Cardinality(Units(Holding)) <= Capacity /\ Cardinality(Units(Holding)) \in Nat
    BY <2>1, HoldingFacts DEF WithinCapacity, BooksBalance, Holding
  <2>5. QED BY <2>3, <2>4, LedgerAssumption DEF PromisesFit
<1>4. QED BY <1>1, <1>2, <1>3, PTL DEF Spec
=============================================================================
