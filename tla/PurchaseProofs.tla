--------------------------- MODULE PurchaseProofs ---------------------------
(***************************************************************************)
(* Proofs about Purchase: that purchases are a use of Settlement, so that  *)
(* what is proved of the contract holds for them, what a purchase leaves   *)
(* behind, and that a client knows what it bought.                         *)
(***************************************************************************)
EXTENDS Purchase, SettlementProofs

Deal == [step : Steps, offer : Offers \cup {NoOffer}, receipt : {"none", "ok", "reverted"}]

\* The transactions a client sends.
Call == [call : {"approve"}, amount : Amounts] \cup [call : {"fulfill"}, offer : Offers]

Chosen == Waiting \cup {"quoted", "accepted", "approved", "refused"}

BuyInv ==
  /\ PurchaseTypeOK
  /\ pool \in [Consumers -> Seq(Call)]
  /\ \A a \in Consumers : deal[a].step \in Chosen => deal[a].offer \in Offers

-----------------------------------------------------------------------------
(* What the steps of a client do to its purchase and to the others'. *)

LEMMA BuyFacts ==
  ASSUME BuyInv
  PROVE  /\ TypeOK
         /\ deal \in [Consumers -> Deal] /\ pool \in [Consumers -> Seq(Call)]
         /\ rounds \in [Consumers -> Nat] /\ won \in [Consumers -> Nat]
         /\ faulty \subseteq Consumers
         /\ allowance \in [Accounts -> Nat] /\ Consumers \subseteq Accounts
         /\ entitlements \in Seq(Entitlement)
BY ConsumersAssumption, TypeFacts DEF BuyInv, PurchaseTypeOK, Deal, Accounts

\* The updates of a purchase, written out.
LEMMA DealMoved ==
  ASSUME NEW d \in Deal, NEW s, NEW r
  PROVE  [d EXCEPT !.step = s, !.receipt = r]
           = [step |-> s, offer |-> d.offer, receipt |-> r]
<1>1. PICK e : e = [d EXCEPT !.step = s] OBVIOUS
<1>2. e = [step |-> s, offer |-> d.offer, receipt |-> d.receipt] BY <1>1 DEF Deal
<1>3. [e EXCEPT !.receipt = r] = [step |-> s, offer |-> d.offer, receipt |-> r]
  BY <1>2
<1>4. QED BY <1>1, <1>3

LEMMA DealQuoted ==
  ASSUME NEW d \in Deal, NEW s, NEW o
  PROVE  [d EXCEPT !.step = s, !.offer = o]
           = [step |-> s, offer |-> o, receipt |-> d.receipt]
<1>1. PICK e : e = [d EXCEPT !.step = s] OBVIOUS
<1>2. e = [step |-> s, offer |-> d.offer, receipt |-> d.receipt] BY <1>1 DEF Deal
<1>3. [e EXCEPT !.offer = o] = [step |-> s, offer |-> o, receipt |-> d.receipt]
  BY <1>2
<1>4. QED BY <1>1, <1>3

LEMMA DealAnswered ==
  ASSUME NEW d \in Deal, NEW r
  PROVE  [d EXCEPT !.receipt = r]
           = [step |-> d.step, offer |-> d.offer, receipt |-> r]
BY DEF Deal

LEMMA GotoEffect ==
  ASSUME BuyInv, NEW a \in Consumers, NEW step, Goto(a, step)
  PROVE  /\ deal'[a] = [step |-> step, offer |-> deal[a].offer, receipt |-> "none"]
         /\ \A b \in Consumers \ {a} : deal'[b] = deal[b]
         /\ step \in Steps => deal' \in [Consumers -> Deal]
<1>1. deal \in [Consumers -> Deal] BY BuyFacts
<1>2. PICK d : d = [step |-> step, offer |-> deal[a].offer, receipt |-> "none"] OBVIOUS
<1>3. deal' = [deal EXCEPT ![a] = d]
  <2>1. PICK e : e = [deal[a] EXCEPT !.step = step, !.receipt = "none"] OBVIOUS
  <2>0. deal[a] \in Deal BY <1>1
  <2>2. e = d
    <3>1. PICK c : c = deal[a] OBVIOUS
    <3>2. [c EXCEPT !.step = step, !.receipt = "none"]
            = [step |-> step, offer |-> c.offer, receipt |-> "none"]
      BY <2>0, <3>1, DealMoved
    <3>3. QED BY <1>2, <2>1, <3>1, <3>2
  <2>3. deal' = [deal EXCEPT ![a] = e] BY <1>1, <2>1 DEF Goto
  <2>4. QED BY <2>2, <2>3
<1>4. step \in Steps => d \in Deal BY <1>1, <1>2 DEF Deal
<1>5. QED BY <1>1, <1>2, <1>3, <1>4

LEMMA SendEffect ==
  ASSUME BuyInv, NEW a \in Consumers, NEW tx \in Call, NEW step, Send(a, tx, step)
  PROVE  /\ pool'[a] = Append(pool[a], tx)
         /\ \A b \in Consumers \ {a} : pool'[b] = pool[b]
         /\ pool' \in [Consumers -> Seq(Call)]
         /\ Goto(a, step) /\ UNCHANGED <<vars, rounds, won, faulty>>
<1>1. pool \in [Consumers -> Seq(Call)] BY BuyFacts
<1>2. Append(pool[a], tx) \in Seq(Call) BY <1>1
<1>3. pool' = [pool EXCEPT ![a] = Append(pool[a], tx)] BY DEF Send
<1>4. QED BY <1>1, <1>2, <1>3 DEF Send

\* What a client sends next is well formed.
LEMMA CallTypes ==
  /\ ApproveTx(0) \in Call
  /\ \A o \in Offers : ApproveTx(o.price) \in Call /\ FulfillTx(o) \in Call
BY AmountsAssumption DEF ApproveTx, FulfillTx, Call

LEMMA RequestEffect ==
  ASSUME BuyInv, NEW a \in Consumers, Request(a)
  PROVE  /\ \/ /\ deal'[a].step = "declined" /\ deal'[a].receipt = "none"
               /\ deal'[a].offer = deal[a].offer
            \/ /\ deal'[a].step = "quoted" /\ deal'[a].receipt = "none"
               /\ deal'[a].offer \in Offers
         /\ deal' \in [Consumers -> Deal]
         /\ \A b \in Consumers \ {a} : deal'[b] = deal[b]
         /\ UNCHANGED <<allowance, entitlements, frames>>
         /\ \/ UNCHANGED vars
            \/ \E o \in Offers : SignOffer(o)
<1>0. deal \in [Consumers -> Deal] BY BuyFacts
<1>1. CASE Goto(a, "declined") /\ UNCHANGED vars
  <2>1. deal'[a] = [step |-> "declined", offer |-> deal[a].offer, receipt |-> "none"]
    BY <1>1, GotoEffect
  <2>2. /\ deal'[a].step = "declined" /\ deal'[a].receipt = "none"
        /\ deal'[a].offer = deal[a].offer
    BY <2>1
  <2>3. QED BY <1>1, <2>2, GotoEffect DEF vars, Steps, Ended
<1>2. ASSUME NEW o \in Offers, SignOffer(o),
             deal' = [deal EXCEPT ![a].step = "quoted", ![a].offer = o]
      PROVE  /\ deal'[a].step = "quoted" /\ deal'[a].offer = o
             /\ deal'[a].receipt = "none"
             /\ deal' \in [Consumers -> Deal]
             /\ \A b \in Consumers \ {a} : deal'[b] = deal[b]
             /\ UNCHANGED <<allowance, entitlements, frames>>
  <2>1. deal[a].receipt = "none"
    <3>1. deal[a].step \in Ended BY DEF Request
    <3>2. deal[a].step \notin Waiting BY <3>1 DEF Ended, Waiting
    <3>3. deal[a].receipt # "none" => deal[a].step \in Waiting
      BY DEF BuyInv, PurchaseTypeOK
    <3>4. QED BY <3>2, <3>3
  <2>2. PICK d : d = [step |-> "quoted", offer |-> o, receipt |-> "none"] OBVIOUS
  <2>3. deal' = [deal EXCEPT ![a] = d]
    <3>1. PICK e : e = [deal[a] EXCEPT !.step = "quoted", !.offer = o] OBVIOUS
    <3>0. deal[a] \in Deal BY <1>0
    <3>2. e = d
      <4>1. PICK c : c = deal[a] OBVIOUS
      <4>2. [c EXCEPT !.step = "quoted", !.offer = o]
              = [step |-> "quoted", offer |-> o, receipt |-> c.receipt]
        BY <3>0, <4>1, DealQuoted
      <4>3. QED BY <2>1, <2>2, <3>1, <4>1, <4>2
    <3>3. deal' = [deal EXCEPT ![a] = e] BY <1>0, <1>2, <3>1
    <3>4. QED BY <3>2, <3>3
  <2>4. d \in Deal /\ d.step = "quoted" /\ d.offer = o /\ d.receipt = "none"
    BY <2>2 DEF Deal, Steps
  <2>5. QED BY <1>0, <1>2, <2>3, <2>4 DEF SignOffer
<1>3. QED BY <1>1, <1>2 DEF Request

\* The next transaction is taken from the pool; if its client waits for it, the
\* client gets its receipt.
LEMMA MinedEffect ==
  ASSUME BuyInv, NEW a \in Consumers, NEW receipt \in {"ok", "reverted"},
         pool[a] # <<>>, Mined(a, receipt)
  PROVE  /\ pool' \in [Consumers -> Seq(Call)] /\ pool'[a] = Tail(pool[a])
         /\ \A b \in Consumers \ {a} : pool'[b] = pool[b] /\ deal'[b] = deal[b]
         /\ deal' \in [Consumers -> Deal]
         /\ \A b \in Consumers : /\ deal'[b].step = deal[b].step
                                 /\ deal'[b].offer = deal[b].offer
         /\ deal'[a].receipt = IF Len(pool[a]) = 1 /\ deal[a].step \in Waiting
                               THEN receipt ELSE deal[a].receipt
         /\ UNCHANGED <<rounds, won, faulty>>
<1>0. deal \in [Consumers -> Deal] /\ pool \in [Consumers -> Seq(Call)] BY BuyFacts
<1>1. Tail(pool[a]) \in Seq(Call) BY <1>0
<1>2. pool' = [pool EXCEPT ![a] = Tail(pool[a])] BY DEF Mined
<1>3. CASE Len(pool[a]) = 1 /\ deal[a].step \in Waiting
  <2>1. PICK d : d = [step |-> deal[a].step, offer |-> deal[a].offer, receipt |-> receipt]
    OBVIOUS
  <2>2. deal' = [deal EXCEPT ![a] = d]
    <3>1. PICK e : e = [deal[a] EXCEPT !.receipt = receipt] OBVIOUS
    <3>2. e = d BY <1>0, <2>1, <3>1, DealAnswered
    <3>3. deal' = [deal EXCEPT ![a] = e] BY <1>0, <1>3, <3>1 DEF Mined
    <3>4. QED BY <3>2, <3>3
  <2>3. d \in Deal BY <1>0, <2>1 DEF Deal
  <2>4. \A b \in Consumers : deal'[b] = IF b = a THEN d ELSE deal[b] BY <1>0, <2>2
  <2>5. deal' \in [Consumers -> Deal] BY <1>0, <2>2, <2>3
  <2>6. QED BY <1>0, <1>1, <1>2, <1>3, <2>1, <2>4, <2>5 DEF Mined
<1>4. CASE ~(Len(pool[a]) = 1 /\ deal[a].step \in Waiting)
  <2>1. deal' = deal BY <1>4 DEF Mined
  <2>2. QED BY <1>0, <1>1, <1>2, <1>4, <2>1 DEF Mined
<1>5. QED BY <1>3, <1>4

-----------------------------------------------------------------------------
(* The steps are steps of the contract, and keep the types. *)

\* What the prover needs to see of BuyInv after a step.
LEMMA BuyInvFrom ==
  ASSUME TypeOK', deal' \in [Consumers -> Deal], pool' \in [Consumers -> Seq(Call)],
         rounds' \in [Consumers -> Nat], won' \in [Consumers -> Nat],
         faulty' \subseteq Consumers,
         \A a \in Consumers : deal'[a].receipt # "none" => deal'[a].step \in Waiting,
         \A a \in Consumers : deal'[a].step \in Chosen => deal'[a].offer \in Offers
  PROVE  BuyInv'
<1>1. Call \subseteq Tx BY BoundsAssumption DEF Call, Tx
<1>2. pool' \in [Consumers -> Seq(Tx)] BY <1>1
<1>3. QED BY <1>2 DEF BuyInv, PurchaseTypeOK, Deal

LEMMA GotoTypes ==
  ASSUME BuyInv, NEW a \in Consumers, NEW step \in Steps, Goto(a, step),
         step \in Chosen => deal[a].offer \in Offers,
         UNCHANGED vars, rounds' = rounds \/ rounds' = [rounds EXCEPT ![a] = @ + 1],
         pool' \in [Consumers -> Seq(Call)], won' \in [Consumers -> Nat],
         faulty' \subseteq Consumers
  PROVE  BuyInv'
<1>1. TypeOK' BY TypeStep, BuyFacts
<1>2. deal' \in [Consumers -> Deal] BY GotoEffect
<1>3. rounds' \in [Consumers -> Nat]
  <2>1. rounds \in [Consumers -> Nat] BY BuyFacts
  <2>2. rounds[a] + 1 \in Nat BY <2>1
  <2>3. QED BY <2>1, <2>2
<1>4. ASSUME NEW b \in Consumers
      PROVE  /\ deal'[b].receipt # "none" => deal'[b].step \in Waiting
             /\ deal'[b].step \in Chosen => deal'[b].offer \in Offers
  <2>1. deal'[a] = [step |-> step, offer |-> deal[a].offer, receipt |-> "none"]
    BY GotoEffect
  <2>2. /\ deal'[a].receipt = "none"
        /\ deal'[a].step \in Chosen => deal'[a].offer \in Offers
    BY <2>1
  <2>3. CASE b # a BY <2>3, GotoEffect DEF BuyInv, PurchaseTypeOK
  <2>4. QED BY <2>2, <2>3
<1>5. QED BY <1>1, <1>2, <1>3, <1>4, BuyInvFrom

LEMMA ClientTypes ==
  ASSUME BuyInv, NEW a \in Consumers, ClientStep(a) \/ Fault(a)
  PROVE  BuyInv' /\ UNCHANGED vars
<1> USE BuyFacts
<1>1. CASE Decide(a)
  BY <1>1, GotoTypes DEF Decide, Steps, Ended, Chosen, BuyInv
<1>2. CASE SendApprove(a)
  <2>1. deal[a].offer \in Offers BY <1>2 DEF SendApprove, BuyInv, Chosen
  <2>2. CASE deal[a].offer.token = TOK
    <3>1. Send(a, ApproveTx(deal[a].offer.price), "approving") BY <1>2, <2>2 DEF SendApprove
    <3>2. ApproveTx(deal[a].offer.price) \in Call BY <2>1, CallTypes
    <3>3. QED BY <2>1, <3>1, <3>2, SendEffect, GotoTypes DEF Steps, Waiting
  <2>3. CASE deal[a].offer.token # TOK
    BY <1>2, <2>1, <2>3, GotoTypes DEF SendApprove, Steps, Ended
  <2>4. QED BY <2>2, <2>3
<1>3. CASE SendFulfill(a)
  <2>1. deal[a].offer \in Offers BY <1>3 DEF SendFulfill, BuyInv, Chosen
  <2>2. FulfillTx(deal[a].offer) \in Call BY <2>1, CallTypes
  <2>3. QED BY <1>3, <2>1, <2>2, SendEffect, GotoTypes DEF SendFulfill, Steps, Waiting
<1>4. CASE Refuse(a)
  BY <1>4, GotoTypes DEF Refuse, Steps, Waiting, Chosen, BuyInv
<1>5. CASE SendWithdraw(a)
  <2>1. deal[a].offer \in Offers BY <1>5 DEF SendWithdraw, BuyInv, Chosen
  <2>2. QED BY <1>5, <2>1, CallTypes, SendEffect, GotoTypes DEF SendWithdraw, Steps, Waiting
<1>6. CASE Proceed(a)
  <2>1. won' \in [Consumers -> Nat] BY <1>6 DEF Proceed
  <2>2. PICK step \in {"approved", "settled", "rejected"} :
          Goto(a, step) /\ (step \in Chosen => deal[a].offer \in Offers)
    BY <1>6 DEF Proceed, BuyInv, Chosen, Waiting
  <2>3. QED BY <1>6, <2>1, <2>2, GotoTypes DEF Proceed, Steps, Ended
<1>7. CASE Activate(a)
  BY <1>7, GotoTypes DEF Activate, Steps, Ended, Chosen, Waiting
<1>8. CASE Fault(a)
  BY <1>8, GotoTypes DEF Fault, Steps, Ended, Chosen, Waiting
<1>9. QED BY <1>1, <1>2, <1>3, <1>4, <1>5, <1>6, <1>7, <1>8 DEF ClientStep

\* A client moves nothing of another's.
LEMMA ClientApart ==
  ASSUME BuyInv, NEW a \in Consumers, ClientStep(a) \/ Fault(a),
         NEW b \in Consumers \ {a}
  PROVE  /\ deal'[b] = deal[b] /\ pool'[b] = pool[b] /\ won'[b] = won[b]
         /\ b \notin faulty' => b \notin faulty
<1>1. ASSUME NEW step, Goto(a, step) PROVE deal'[b] = deal[b] BY <1>1, GotoEffect
<1>2. ASSUME NEW tx, NEW step, Send(a, tx, step)
      PROVE  /\ deal'[b] = deal[b] /\ pool'[b] = pool[b] /\ won'[b] = won[b]
             /\ b \notin faulty' => b \notin faulty
  BY <1>1, <1>2, BuyFacts DEF Send
<1>3. CASE SendApprove(a) \/ SendFulfill(a) \/ SendWithdraw(a)
  BY <1>1, <1>2, <1>3 DEF SendApprove, SendFulfill, SendWithdraw
<1>4. CASE Decide(a) \/ Refuse(a) \/ Activate(a) \/ Fault(a)
  BY <1>1, <1>4 DEF Decide, Refuse, Activate, Fault
<1>5. CASE Proceed(a)
  BY <1>1, <1>5, BuyFacts DEF Proceed
<1>6. QED BY <1>3, <1>4, <1>5 DEF ClientStep

LEMMA RequestTypes ==
  ASSUME BuyInv, NEW a \in Consumers, Request(a)
  PROVE  BuyInv' /\ [Next]_vars /\ UNCHANGED frames
<1>1. [Next]_vars /\ UNCHANGED frames BY RequestEffect DEF Next
<1>2. TypeOK' BY <1>1, TypeStep, BuyFacts
<1>3. rounds' \in [Consumers -> Nat]
  <2>1. rounds \in [Consumers -> Nat] BY BuyFacts
  <2>2. rounds[a] + 1 \in Nat BY <2>1
  <2>3. QED BY <2>1, <2>2 DEF Request
<1>4. /\ deal'[a].receipt = "none" /\ (deal'[a].step \in Chosen => deal'[a].offer \in Offers)
      /\ deal' \in [Consumers -> Deal]
      /\ \A b \in Consumers \ {a} : deal'[b] = deal[b]
  <2>1. \/ deal'[a].step = "declined" /\ deal'[a].receipt = "none"
        \/ deal'[a].receipt = "none" /\ deal'[a].offer \in Offers
    BY RequestEffect
  <2>2. QED BY <2>1, RequestEffect DEF Chosen, Waiting
<1>5. ASSUME NEW b \in Consumers
      PROVE  /\ deal'[b].receipt # "none" => deal'[b].step \in Waiting
             /\ deal'[b].step \in Chosen => deal'[b].offer \in Offers
  <2>1. CASE b # a BY <1>4, <2>1 DEF BuyInv, PurchaseTypeOK
  <2>2. QED BY <1>4, <2>1
<1>6. QED BY <1>1, <1>2, <1>3, <1>4, <1>5, BuyInvFrom, BuyFacts DEF Request

\* The first transaction of a pool.
LEMMA FirstCall ==
  ASSUME BuyInv, NEW a \in Consumers, pool[a] # <<>>
  PROVE  /\ Head(pool[a]) \in Call
         /\ Head(pool[a]).call = "approve" => Head(pool[a]).amount \in Amounts
         /\ Head(pool[a]).call = "fulfill" => Head(pool[a]).offer \in Offers
<1>1. pool[a] \in Seq(Call) BY BuyFacts
<1>2. Head(pool[a]) \in Call BY <1>1
<1>3. QED BY <1>2 DEF Call

\* What a transaction that is mined does, and what its client is told.
LEMMA MineCases ==
  ASSUME BuyInv, NEW a \in Consumers, Mine(a)
  PROVE  /\ pool[a] # <<>>
         /\ \/ /\ Head(pool[a]).call = "approve" /\ Mined(a, "ok")
               /\ Head(pool[a]).amount \in Amounts
               /\ Approve(a, Head(pool[a]).amount)
            \/ /\ Head(pool[a]).call = "fulfill" /\ Mined(a, "ok")
               /\ Head(pool[a]).offer \in Offers
               /\ Fulfill(a, Head(pool[a]).offer)
            \/ /\ Head(pool[a]).call = "fulfill" /\ Mined(a, "reverted")
               /\ UNCHANGED vars
BY FirstCall DEF Mine

LEMMA MineTypes ==
  ASSUME BuyInv, NEW a \in Consumers, Mine(a)
  PROVE  BuyInv' /\ [Next]_vars /\ UNCHANGED frames
<1>0. a \in Accounts BY BuyFacts
<1>1. [Next]_vars /\ UNCHANGED frames
  <2>1. ASSUME NEW n \in Amounts, Approve(a, n) PROVE Next /\ UNCHANGED frames
    BY <1>0, <2>1 DEF Next, TokenStep, Approve
  <2>2. ASSUME NEW o \in Offers, Fulfill(a, o) PROVE Next /\ UNCHANGED frames
    BY <1>0, <2>2 DEF Next, ContractStep, Fulfill
  <2>3. UNCHANGED vars => UNCHANGED frames BY DEF vars
  <2>4. QED BY <2>1, <2>2, <2>3, MineCases
<1>2. TypeOK' BY <1>1, TypeStep, BuyFacts
<1>3. PICK receipt \in {"ok", "reverted"} : pool[a] # <<>> /\ Mined(a, receipt)
  BY MineCases
<1>4. ASSUME NEW b \in Consumers
      PROVE  /\ deal'[b].receipt # "none" => deal'[b].step \in Waiting
             /\ deal'[b].step \in Chosen => deal'[b].offer \in Offers
  <2>1. deal'[b].step \in Chosen => deal'[b].offer \in Offers
    BY <1>3, MinedEffect DEF BuyInv
  <2>2. deal'[a].receipt # "none" => deal'[a].step \in Waiting
    BY <1>3, MinedEffect DEF BuyInv, PurchaseTypeOK
  <2>3. b # a => (deal'[b].receipt # "none" => deal'[b].step \in Waiting)
    BY <1>3, MinedEffect DEF BuyInv, PurchaseTypeOK
  <2>4. QED BY <2>1, <2>2, <2>3
<1>5. QED BY <1>2, <1>1, <1>3, <1>4, MinedEffect, BuyFacts, BuyInvFrom

\* Whatever is not a step of a purchase.
Elsewhere == \/ \E a \in Consumers, n \in Amounts : Faucet(a, a, n)
             \/ \E a \in Consumers, to \in Agents \ Consumers, n \in Amounts :
                  TransferTok(a, to, n)
             \/ \E a \in Agents, id \in DOMAIN entitlements :
                  Revoke(a, id) \/ \E to \in Consumers : Transfer(a, id, to)
             \/ Advance

LEMMA Others ==
  ASSUME BuyInv, Elsewhere, UNCHANGED buyVars
  PROVE  BuyInv' /\ [Next]_vars /\ UNCHANGED <<frames, allowance>>
<1>1. Next /\ UNCHANGED <<frames, allowance>>
  <2>1. ASSUME NEW a \in Consumers, NEW n \in Amounts, Faucet(a, a, n)
        PROVE  Next /\ UNCHANGED <<frames, allowance>>
    BY <2>1, BuyFacts DEF Next, TokenStep, Faucet
  <2>2. ASSUME NEW a \in Agents, NEW id \in DOMAIN entitlements, Revoke(a, id)
        PROVE  Next /\ UNCHANGED <<frames, allowance>>
    BY <2>2 DEF Next, ContractStep, Revoke, Accounts
  <2>3. Advance => Next /\ UNCHANGED <<frames, allowance>> BY DEF Next, Advance
  <2>4. ASSUME NEW a \in Agents, NEW id \in DOMAIN entitlements, NEW to \in Consumers,
               Transfer(a, id, to)
        PROVE  Next /\ UNCHANGED <<frames, allowance>>
    BY <2>4, BuyFacts DEF Next, ContractStep, Transfer, Accounts
  <2>5. ASSUME NEW a \in Consumers, NEW to \in Agents \ Consumers, NEW n \in Amounts,
               TransferTok(a, to, n)
        PROVE  Next /\ UNCHANGED <<frames, allowance>>
    <3>1. a \in Accounts /\ to \in Accounts BY BuyFacts DEF Accounts
    <3>2. QED BY <2>5, <3>1 DEF Next, TokenStep, TransferTok
  <2>6. QED BY <2>1, <2>2, <2>3, <2>4, <2>5 DEF Elsewhere
<1>2. TypeOK' BY <1>1, TypeStep, BuyFacts
<1>3. UNCHANGED <<deal, pool, rounds, won, faulty>> BY DEF buyVars
<1>4. QED BY <1>1, <1>2, <1>3, BuyInvFrom, BuyFacts DEF BuyInv, PurchaseTypeOK

\* A step of the purchases is a step of Settlement, or none.
LEMMA UseStep ==
  ASSUME BuyInv, [PurchaseNext]_<<vars, buyVars>>
  PROVE  BuyInv' /\ [Next]_vars /\ UNCHANGED frames
<1>1. CASE UNCHANGED <<vars, buyVars>>
  <2>1. TypeOK' BY <1>1, TypeStep, BuyFacts
  <2>2. UNCHANGED <<deal, pool, rounds, won, faulty, frames>> BY <1>1 DEF vars, buyVars
  <2>3. QED BY <1>1, <2>1, <2>2, BuyInvFrom, BuyFacts DEF BuyInv, PurchaseTypeOK
<1>2. ASSUME NEW a \in Consumers, ClientStep(a) \/ Fault(a)
      PROVE  BuyInv' /\ [Next]_vars /\ UNCHANGED frames
  BY <1>2, ClientTypes DEF vars
<1>3. CASE PurchaseNext
  <2>1. \/ \E a \in Consumers : Request(a) \/ ClientStep(a) \/ Fault(a) \/ Mine(a)
        \/ Elsewhere /\ UNCHANGED buyVars
    BY <1>3 DEF PurchaseNext, Elsewhere
  <2>2. CASE Elsewhere /\ UNCHANGED buyVars BY <2>2, Others
  <2>3. ASSUME NEW a \in Consumers, Request(a) \/ Mine(a)
        PROVE  BuyInv' /\ [Next]_vars /\ UNCHANGED frames
    BY <2>3, RequestTypes, MineTypes
  <2>4. QED BY <1>2, <2>1, <2>2, <2>3
<1>4. QED BY <1>1, <1>3

LEMMA BuyBegins == PurchaseInit => BuyInv /\ frames = <<>>
<1> SUFFICES ASSUME PurchaseInit PROVE BuyInv /\ frames = <<>> OBVIOUS
<1>1. TypeOK /\ frames = <<>>
  BY SoldBegins DEF PurchaseInit, SoldInv, Init
<1>2. pool \in [Consumers -> Seq(Call)] /\ pool \in [Consumers -> Seq(Tx)]
  BY EmptySeq DEF PurchaseInit
<1>3. QED BY <1>1, <1>2 DEF PurchaseInit, BuyInv, PurchaseTypeOK, Steps, Ended, Waiting, Chosen

\* The purchases keep the types: in particular a client that is told how its
\* transaction ended is one that waits for it.
THEOREM PurchaseTypes == PurchaseSpec => []PurchaseTypeOK
<1>1. BuyInv => PurchaseTypeOK BY DEF BuyInv
<1>2. QED BY <1>1, BuyBegins, UseStep, PTL DEF PurchaseSpec

\* Whatever consumers do, also with lost answers and late transactions, is a use of
\* the contract: what is proved of Settlement holds while they buy.
THEOREM PurchasesUseContract == PurchaseSpec => Spec
<1>1. PurchaseInit => Init BY DEF PurchaseInit
<1>2. QED BY <1>1, BuyBegins, UseStep, PTL DEF PurchaseSpec, Spec

\* While consumers buy, the contract is the chain the controller was verified
\* against, whatever tokens there are: the client calls no other token than TOK.
THEOREM PurchasesImplementChain == PurchaseSpec => ImplementsChain
<1>1. PurchaseInit => BuyInv /\ SoldInv /\ frames = <<>> /\ Chain!ChainInit
  BY BuyBegins, ChainBegins DEF PurchaseInit
<1>2. BuyInv /\ SoldInv /\ frames = <<>> /\ [PurchaseNext]_<<vars, buyVars>>
        => /\ BuyInv' /\ SoldInv' /\ (frames = <<>>)'
           /\ [Chain!ChainNext]_(Chain!chainVars)
  BY UseStep, SoldStep, ChainStep
<1>3. QED BY <1>1, <1>2, PTL DEF PurchaseSpec, ImplementsChain, Chain!ChainSpec

-----------------------------------------------------------------------------
(* No allowance is left behind, and no ticket is lost. *)

\* A client waits for the last transaction it sent, and the answer to fulfill is
\* never taken from another call.
WaitsForLast(a) ==
  deal[a].step = "fulfilling" =>
    IF deal[a].receipt = "none"
    THEN pool[a] # <<>> /\ pool[a][Len(pool[a])].call = "fulfill"
    ELSE pool[a] = <<>>

\* Until an answer is lost there is one transaction at a time, the one it waits for.
Sent(a) ==
  IF deal[a].receipt # "none" THEN <<>> ELSE
  CASE deal[a].step = "approving"   -> <<ApproveTx(deal[a].offer.price)>>
    [] deal[a].step = "fulfilling"  -> <<FulfillTx(deal[a].offer)>>
    [] deal[a].step = "withdrawing" -> <<ApproveTx(0)>>
    [] OTHER                        -> <<>>

InOrder(a) ==
  /\ pool[a] = Sent(a)
  /\ deal[a].receipt = "reverted" => deal[a].step = "fulfilling"

\* What the allowance is at each step.
Left(a) ==
  /\ deal[a].step \in Ended \cup {"quoted", "accepted", "settled"} => allowance[a] = 0
  /\ deal[a].step = "approving" =>
       allowance[a] = IF deal[a].receipt = "none" THEN 0 ELSE deal[a].offer.price
  /\ deal[a].step = "approved" => allowance[a] = deal[a].offer.price
  /\ deal[a].step = "fulfilling" =>
       allowance[a] = IF deal[a].receipt = "ok" THEN 0 ELSE deal[a].offer.price
  /\ deal[a].step = "withdrawing" /\ deal[a].receipt # "none" => allowance[a] = 0

Counted(a) ==
  /\ won[a] + Unread(a) <= Cardinality(TicketsOf(a))
  /\ a \notin faulty => Cardinality(TicketsOf(a)) = won[a] + Unread(a)

Fine(a) == /\ WaitsForLast(a)
           /\ Counted(a)
           /\ a \notin faulty => InOrder(a) /\ Left(a)

ClientInv == BuyInv /\ \A a \in Consumers : Fine(a)

\* The tickets of an account are counted in numbers.
LEMMA TicketsFinite ==
  ASSUME BuyInv, NEW a
  PROVE  IsFiniteSet(TicketsOf(a)) /\ Cardinality(TicketsOf(a)) \in Nat
<1>1. entitlements \in Seq(Entitlement) BY BuyFacts
<1>2. Len(entitlements) \in Nat /\ DOMAIN entitlements = 1..Len(entitlements) BY <1>1
<1>3. IsFiniteSet(DOMAIN entitlements) BY <1>2, FS_Interval
<1>4. TicketsOf(a) \subseteq DOMAIN entitlements BY DEF TicketsOf
<1>5. QED BY <1>3, <1>4, FS_Subset, FS_CardinalityType

LEMMA TicketsSame ==
  ASSUME NEW b, DOMAIN entitlements' = DOMAIN entitlements,
         \A i \in DOMAIN entitlements : entitlements'[i].buyer = entitlements[i].buyer
  PROVE  TicketsOf(b)' = TicketsOf(b)
BY DEF TicketsOf

LEMMA TicketBought ==
  ASSUME BuyInv, NEW a \in Accounts, NEW o \in Offers, Fulfill(a, o)
  PROVE  /\ Cardinality(TicketsOf(a)') = Cardinality(TicketsOf(a)) + 1
         /\ \A b : b # a => TicketsOf(b)' = TicketsOf(b)
<1>1. PICK e \in Entitlement : entitlements' = Append(entitlements, e) /\ e.buyer = a
  BY BuyFacts, IssueFacts DEF Fulfill
<1>2. entitlements \in Seq(Entitlement) BY BuyFacts
<1>3. PICK n : n = Len(entitlements) + 1 OBVIOUS
<1>4. /\ DOMAIN entitlements' = DOMAIN entitlements \cup {n}
      /\ n \notin DOMAIN entitlements
      /\ entitlements'[n] = e
      /\ \A i \in DOMAIN entitlements : entitlements'[i] = entitlements[i]
  BY <1>1, <1>2, <1>3, Push
<1>5. TicketsOf(a)' = TicketsOf(a) \cup {n} /\ n \notin TicketsOf(a)
  BY <1>1, <1>4 DEF TicketsOf
<1>6. ASSUME NEW b, b # a PROVE TicketsOf(b)' = TicketsOf(b)
  BY <1>1, <1>4, <1>6 DEF TicketsOf
<1>7. Cardinality(TicketsOf(a) \cup {n}) = Cardinality(TicketsOf(a)) + 1
  BY <1>5, TicketsFinite, FS_AddElement
<1>8. QED BY <1>5, <1>6, <1>7

\* Who takes no part in a step is as before.
LEMMA Bystander ==
  ASSUME BuyInv, NEW b \in Consumers, Fine(b), deal'[b] = deal[b], pool'[b] = pool[b],
         allowance'[b] = allowance[b], won'[b] = won[b],
         TicketsOf(b)' = TicketsOf(b), b \notin faulty' => b \notin faulty
  PROVE  Fine(b)'
<1>1. WaitsForLast(b)' BY DEF Fine, WaitsForLast
<1>2. Counted(b)' BY DEF Fine, Counted, Unread
<1>3. Sent(b)' = Sent(b) BY DEF Sent
<1>4. InOrder(b) => InOrder(b)' BY <1>3 DEF InOrder
<1>5. Left(b) => Left(b)' BY DEF Left
<1>6. QED BY <1>1, <1>2, <1>4, <1>5 DEF Fine

\* A client goes on to a step at which it waits for nothing.
LEMMA MovesOn ==
  ASSUME BuyInv, NEW a \in Consumers, Fine(a), NEW step \in Steps \ Waiting,
         deal'[a].step = step, deal'[a].receipt = "none",
         deal'[a].offer = deal[a].offer \/ step = "quoted",
         pool'[a] = pool[a], allowance'[a] = allowance[a],
         TicketsOf(a)' = TicketsOf(a), won'[a] = won[a] + Unread(a),
         a \notin faulty' =>
           /\ a \notin faulty
           /\ deal[a].step \notin Waiting \/ deal[a].receipt # "none"
           /\ step \in Ended \cup {"quoted", "accepted", "settled"} => allowance[a] = 0
           /\ step = "approved" => allowance[a] = deal[a].offer.price
  PROVE  Fine(a)'
<1>1. WaitsForLast(a)' BY DEF WaitsForLast, Waiting
<1>2. Counted(a)'
  <2>1. Unread(a)' = 0 BY DEF Unread
  <2>2. won[a] \in Nat /\ Unread(a) \in {0, 1} BY BuyFacts DEF Unread
  <2>3. QED BY <2>1, <2>2, TicketsFinite DEF Fine, Counted
<1>3. ASSUME a \notin faulty' PROVE InOrder(a)' /\ Left(a)'
  <2>1. pool[a] = <<>>
    BY <1>3 DEF Fine, InOrder, Sent, Waiting
  <2>2. Sent(a)' = <<>> BY DEF Sent, Waiting
  <2>3. InOrder(a)' BY <2>1, <2>2 DEF InOrder
  <2>4. Left(a)' BY <1>3 DEF Left, Waiting, Ended
  <2>5. QED BY <2>3, <2>4
<1>4. QED BY <1>1, <1>2, <1>3 DEF Fine

\* A client that waits for nothing sends a transaction, and waits for it.
LEMMA Sends ==
  ASSUME BuyInv, NEW a \in Consumers, Fine(a), NEW tx \in Call, NEW step \in Waiting,
         deal[a].step \in {"accepted", "approved", "refused"}, Send(a, tx, step),
         step = "approving" => tx = ApproveTx(deal[a].offer.price) /\ deal[a].step = "accepted",
         step = "fulfilling" => tx = FulfillTx(deal[a].offer) /\ deal[a].step = "approved",
         step = "withdrawing" => tx = ApproveTx(0)
  PROVE  Fine(a)'
<1>0. /\ pool'[a] = Append(pool[a], tx) /\ pool[a] \in Seq(Call)
      /\ UNCHANGED <<won, faulty, allowance, entitlements>>
  BY SendEffect, BuyFacts DEF vars
<1>1. deal'[a].step = step /\ deal'[a].receipt = "none" /\ deal'[a].offer = deal[a].offer
  <2>1. deal'[a] = [step |-> step, offer |-> deal[a].offer, receipt |-> "none"]
    BY SendEffect, GotoEffect
  <2>2. QED BY <2>1
<1>2. WaitsForLast(a)'
  <2>1. /\ Append(pool[a], tx) # <<>>
        /\ Append(pool[a], tx)[Len(Append(pool[a], tx))] = tx
    BY <1>0
  <2>2. step = "fulfilling" => tx.call = "fulfill" BY DEF FulfillTx
  <2>3. QED BY <1>0, <1>1, <2>1, <2>2 DEF WaitsForLast
<1>3. Counted(a)'
  <2>1. Unread(a)' = 0 /\ Unread(a) = 0 BY <1>1 DEF Unread
  <2>2. TicketsOf(a)' = TicketsOf(a) BY <1>0 DEF TicketsOf
  <2>3. QED BY <1>0, <2>1, <2>2 DEF Fine, Counted
<1>4. ASSUME a \notin faulty PROVE InOrder(a)' /\ Left(a)'
  <2>1. pool[a] = <<>> BY <1>4 DEF Fine, InOrder, Sent
  <2>2. pool'[a] = <<tx>> BY <1>0, <2>1
  <2>3. Sent(a)' = <<tx>> BY <1>1 DEF Sent, Waiting
  <2>4. InOrder(a)' BY <1>1, <2>2, <2>3 DEF InOrder
  <2>5. Left(a) BY <1>4 DEF Fine
  <2>6. Left(a)' BY <1>0, <1>1, <2>5 DEF Left, Waiting, Ended
  <2>7. QED BY <2>4, <2>6
<1>5. QED BY <1>0, <1>2, <1>3, <1>4 DEF Fine

LEMMA RequestFine ==
  ASSUME BuyInv, NEW a \in Consumers, Fine(a), Request(a) PROVE Fine(a)'
<1>1. /\ UNCHANGED <<pool, won, faulty, allowance, entitlements>>
      /\ deal[a].step \in Ended
  BY RequestEffect DEF Request
<1>2. PICK step \in {"declined", "quoted"} :
        /\ deal'[a].step = step /\ deal'[a].receipt = "none"
        /\ deal'[a].offer = deal[a].offer \/ step = "quoted"
  BY RequestEffect
<1>3. Unread(a) = 0 /\ deal[a].step \notin Waiting
  BY <1>1 DEF Unread, Waiting, Ended
<1>4. won'[a] = won[a] + Unread(a) BY <1>1, <1>3, BuyFacts
<1>5. TicketsOf(a)' = TicketsOf(a) BY <1>1 DEF TicketsOf
<1>6. a \notin faulty => allowance[a] = 0 BY <1>1 DEF Fine, Left
<1>7. step \in Steps \ Waiting /\ step # "approved"
  BY <1>2 DEF Steps, Ended, Waiting
<1>8. QED BY <1>1, <1>2, <1>3, <1>4, <1>5, <1>6, <1>7, MovesOn

\* A step that only moves a on, without a lost answer.
LEMMA GotoFine ==
  ASSUME BuyInv, NEW a \in Consumers, Fine(a), NEW step \in Steps \ Waiting,
         step # "quoted", Goto(a, step), UNCHANGED <<vars, pool>>,
         won'[a] = won[a] + Unread(a),
         a \notin faulty' =>
           /\ a \notin faulty
           /\ deal[a].step \notin Waiting \/ deal[a].receipt # "none"
           /\ step \in Ended \cup {"quoted", "accepted", "settled"} => allowance[a] = 0
           /\ step = "approved" => allowance[a] = deal[a].offer.price
  PROVE  Fine(a)'
<1>1. deal'[a] = [step |-> step, offer |-> deal[a].offer, receipt |-> "none"]
  BY GotoEffect
<1>2. deal'[a].step = step /\ deal'[a].receipt = "none" /\ deal'[a].offer = deal[a].offer
  BY <1>1
<1>3. TicketsOf(a)' = TicketsOf(a) BY DEF TicketsOf, vars
<1>4. UNCHANGED <<allowance, pool>> BY DEF vars
<1>5. QED BY <1>2, <1>3, <1>4, MovesOn

LEMMA ClientFine ==
  ASSUME BuyInv, NEW a \in Consumers, Fine(a), ClientStep(a) \/ Fault(a)
  PROVE  Fine(a)'
<1>0. /\ won[a] \in Nat /\ won \in [Consumers -> Nat]
      /\ deal[a].step \in Chosen => deal[a].offer \in Offers
      /\ a \notin faulty => InOrder(a) /\ Left(a)
      /\ deal[a].receipt # "none" => deal[a].step \in Waiting
  BY BuyFacts DEF BuyInv, PurchaseTypeOK, Fine
<1>1. CASE Decide(a)
  <2>1. Unread(a) = 0 BY <1>1 DEF Decide, Unread
  <2>2. PICK step \in {"accepted", "declined"} : Goto(a, step) BY <1>1 DEF Decide
  <2>3. a \notin faulty => allowance[a] = 0 BY <1>0, <1>1 DEF Decide, Left
  <2>4. step \in Steps \ Waiting /\ step # "quoted" /\ step # "approved"
    BY <2>2 DEF Steps, Waiting, Ended
  <2>5. deal[a].step \notin Waiting /\ UNCHANGED <<vars, pool, won, faulty>>
    BY <1>1 DEF Decide, Waiting
  <2>6. won'[a] = won[a] + Unread(a) BY <1>0, <2>1, <2>5
  <2>7. QED BY <2>2, <2>3, <2>4, <2>5, <2>6, GotoFine
<1>2. CASE SendApprove(a)
  <2>1. deal[a].step = "accepted" /\ deal[a].offer \in Offers
    BY <1>0, <1>2 DEF SendApprove, Chosen
  <2>2. CASE deal[a].offer.token = TOK
    <3>1. Send(a, ApproveTx(deal[a].offer.price), "approving") BY <1>2, <2>2 DEF SendApprove
    <3>2. ApproveTx(deal[a].offer.price) \in Call BY <2>1, CallTypes
    <3>3. QED BY <2>1, <3>1, <3>2, Sends DEF Waiting
  <2>3. CASE deal[a].offer.token # TOK
    <3>1. Goto(a, "invalid") /\ UNCHANGED <<vars, pool, won, faulty>>
      BY <1>2, <2>3 DEF SendApprove
    <3>2. won'[a] = won[a] + Unread(a) BY <1>0, <2>1, <3>1 DEF Unread
    <3>3. a \notin faulty => allowance[a] = 0 BY <1>0, <2>1 DEF Left
    <3>4. QED BY <2>1, <3>1, <3>2, <3>3, GotoFine DEF Steps, Waiting, Ended
  <2>4. QED BY <2>2, <2>3
<1>3. CASE SendFulfill(a)
  <2>1. deal[a].step = "approved" /\ deal[a].offer \in Offers
    BY <1>0, <1>3 DEF SendFulfill, Chosen
  <2>2. QED BY <1>3, <2>1, CallTypes, Sends DEF SendFulfill, Waiting
<1>4. CASE Refuse(a)
  <2>1. Goto(a, "refused") /\ UNCHANGED <<vars, pool, won, faulty>> BY <1>4 DEF Refuse
  <2>2. deal[a].step \notin Waiting \/ deal[a].receipt # "none"
    BY <1>4 DEF Refuse, Waiting
  <2>3. won'[a] = won[a] + Unread(a) BY <1>0, <1>4, <2>1 DEF Refuse, Unread
  <2>4. QED BY <2>1, <2>2, <2>3, GotoFine DEF Steps, Waiting, Ended
<1>5. CASE SendWithdraw(a)
  BY <1>5, CallTypes, Sends DEF SendWithdraw, Waiting
<1>6. CASE Proceed(a)
  <2>1. deal[a].receipt = "ok" /\ UNCHANGED <<vars, pool, faulty>> BY <1>6 DEF Proceed
  <2>2. CASE deal[a].step = "fulfilling"
    <3>1. Goto(a, "settled") /\ won' = [won EXCEPT ![a] = @ + 1]
      BY <1>6, <2>2 DEF Proceed
    <3>2. won'[a] = won[a] + Unread(a) BY <1>0, <2>1, <2>2, <3>1 DEF Unread
    <3>3. a \notin faulty => allowance[a] = 0 BY <1>0, <2>1, <2>2 DEF Left
    <3>4. QED BY <2>1, <3>1, <3>2, <3>3, GotoFine DEF Steps, Waiting, Ended
  <2>3. CASE deal[a].step = "approving"
    <3>1. Goto(a, "approved") /\ UNCHANGED won BY <1>6, <2>3 DEF Proceed
    <3>2. won'[a] = won[a] + Unread(a) BY <1>0, <2>3, <3>1 DEF Unread
    <3>3. a \notin faulty => allowance[a] = deal[a].offer.price
      BY <1>0, <2>1, <2>3 DEF Left
    <3>4. QED BY <2>1, <3>1, <3>2, <3>3, GotoFine DEF Steps, Waiting, Ended
  <2>4. CASE deal[a].step = "withdrawing"
    <3>1. Goto(a, "rejected") /\ UNCHANGED won BY <1>6, <2>4 DEF Proceed
    <3>2. won'[a] = won[a] + Unread(a) BY <1>0, <2>4, <3>1 DEF Unread
    <3>3. a \notin faulty => allowance[a] = 0 BY <1>0, <2>1, <2>4 DEF Left
    <3>4. QED BY <2>1, <3>1, <3>2, <3>3, GotoFine DEF Steps, Waiting, Ended
  <2>5. QED BY <1>6, <2>2, <2>3, <2>4 DEF Proceed
<1>7. CASE Activate(a)
  <2>1. deal[a].step = "settled" /\ UNCHANGED <<vars, pool, won, faulty>>
    BY <1>7 DEF Activate
  <2>2. PICK step \in {"active", "denied"} : Goto(a, step) BY <1>7 DEF Activate
  <2>3. won'[a] = won[a] + Unread(a) BY <1>0, <2>1 DEF Unread
  <2>4. a \notin faulty => allowance[a] = 0 BY <1>0, <2>1 DEF Left
  <2>5. QED BY <2>1, <2>2, <2>3, <2>4, GotoFine DEF Steps, Waiting, Ended
<1>8. CASE Fault(a)
  <2>1. Goto(a, "failed") /\ UNCHANGED <<vars, pool, won>> /\ a \in faulty'
    BY <1>8 DEF Fault
  <2>2. deal'[a].step = "failed"
    <3>1. deal'[a] = [step |-> "failed", offer |-> deal[a].offer, receipt |-> "none"]
      BY <2>1, GotoEffect
    <3>2. QED BY <3>1
  <2>3. Unread(a)' = 0 /\ TicketsOf(a)' = TicketsOf(a)
    BY <2>1, <2>2 DEF Unread, TicketsOf, vars
  <2>4. won[a] <= Cardinality(TicketsOf(a))
    <3>1. Unread(a) \in {0, 1} BY DEF Unread
    <3>2. QED BY <1>0, <3>1, TicketsFinite DEF Fine, Counted
  <2>5. QED BY <1>0, <2>1, <2>2, <2>3, <2>4 DEF Fine, WaitsForLast, Counted
<1>9. QED BY <1>1, <1>2, <1>3, <1>4, <1>5, <1>6, <1>7, <1>8 DEF ClientStep

\* Until an answer is lost, what is mined is what the client waits for.
LEMMA Awaited ==
  ASSUME BuyInv, NEW a \in Consumers, InOrder(a), pool[a] # <<>>
  PROVE  /\ Len(pool[a]) = 1 /\ Tail(pool[a]) = <<>>
         /\ deal[a].step \in Waiting /\ deal[a].receipt = "none"
         /\ deal[a].offer \in Offers
         /\ deal[a].step = "approving" =>
              Head(pool[a]).call = "approve" /\ Head(pool[a]).amount = deal[a].offer.price
         /\ deal[a].step = "withdrawing" =>
              Head(pool[a]).call = "approve" /\ Head(pool[a]).amount = 0
         /\ deal[a].step = "fulfilling" =>
              Head(pool[a]).call = "fulfill" /\ Head(pool[a]).offer = deal[a].offer
<1>1. pool[a] = Sent(a) BY DEF InOrder
<1>2. deal[a].step \in Waiting /\ deal[a].receipt = "none" BY <1>1 DEF Sent, Waiting
<1>3. PICK tx : /\ pool[a] = <<tx>>
                /\ deal[a].step = "approving" => tx = ApproveTx(deal[a].offer.price)
                /\ deal[a].step = "withdrawing" => tx = ApproveTx(0)
                /\ deal[a].step = "fulfilling" => tx = FulfillTx(deal[a].offer)
  BY <1>1, <1>2 DEF Sent, Waiting
<1>4. Len(<<tx>>) = 1 /\ Head(<<tx>>) = tx /\ Tail(<<tx>>) = <<>> OBVIOUS
<1>5. deal[a].offer \in Offers BY <1>2 DEF BuyInv, Chosen
<1>6. QED BY <1>2, <1>3, <1>4, <1>5 DEF ApproveTx, FulfillTx

LEMMA TailFacts ==
  ASSUME NEW S, NEW s \in Seq(S), s # <<>>
  PROVE  /\ Len(s) = 1 => Tail(s) = <<>>
         /\ Len(s) # 1 => Tail(s) # <<>> /\ Tail(s)[Len(Tail(s))] = s[Len(s)]
<1>1. /\ Tail(s) \in Seq(S) /\ Len(Tail(s)) = Len(s) - 1
      /\ \A i \in 1 .. Len(Tail(s)) : Tail(s)[i] = s[i + 1]
  BY HeadTailProperties
<1>2. Len(s) \in Nat \ {0} BY EmptySeq
<1>3. Len(s) = 1 => Tail(s) = <<>>
  <2>1. PICK t \in Seq(S) : t = Tail(s) BY <1>1
  <2>2. Len(t) = 0 => t = <<>> BY EmptySeq
  <2>3. Len(s) = 1 => Len(t) = 0 BY <1>1, <2>1
  <2>4. QED BY <2>1, <2>2, <2>3
<1>4. ASSUME Len(s) # 1 PROVE Tail(s) # <<>> /\ Tail(s)[Len(Tail(s))] = s[Len(s)]
  <2>1. Len(Tail(s)) \in 1 .. Len(Tail(s)) /\ Len(Tail(s)) + 1 = Len(s)
    BY <1>1, <1>2, <1>4
  <2>2. Len(Tail(s)) # 0 BY <2>1
  <2>3. QED BY <1>1, <2>1, <2>2, EmptySeq
<1>5. QED BY <1>3, <1>4

LEMMA MineFine ==
  ASSUME BuyInv, NEW a \in Consumers, Fine(a), Mine(a) PROVE Fine(a)'
<1>0. /\ pool[a] # <<>> /\ pool[a] \in Seq(Call) /\ won[a] \in Nat
      /\ a \in Accounts /\ allowance \in [Accounts -> Nat]
  BY MineCases, BuyFacts
<1>1. PICK receipt \in {"ok", "reverted"} :
        /\ Mined(a, receipt)
        /\ \/ /\ receipt = "ok" /\ Head(pool[a]).call = "approve"
              /\ Approve(a, Head(pool[a]).amount)
           \/ /\ receipt = "ok" /\ Head(pool[a]).call = "fulfill"
              /\ Head(pool[a]).offer \in Offers
              /\ Fulfill(a, Head(pool[a]).offer)
           \/ /\ receipt = "reverted" /\ Head(pool[a]).call = "fulfill"
              /\ UNCHANGED vars
  BY MineCases
<1>2. /\ pool'[a] = Tail(pool[a]) /\ UNCHANGED <<won, faulty>>
      /\ deal'[a].step = deal[a].step /\ deal'[a].offer = deal[a].offer
      /\ deal'[a].receipt = IF Len(pool[a]) = 1 /\ deal[a].step \in Waiting
                            THEN receipt ELSE deal[a].receipt
  BY <1>0, <1>1, MinedEffect
\* Whoever waits for fulfill has not been answered, and it is the last one.
<1>3. deal[a].step = "fulfilling" =>
        deal[a].receipt = "none" /\ pool[a][Len(pool[a])].call = "fulfill"
  BY <1>0 DEF Fine, WaitsForLast
<1>4. Unread(a) = 0 BY <1>3 DEF Unread
<1>5. WaitsForLast(a)'
  <2>1. CASE deal[a].step # "fulfilling" BY <1>2, <2>1 DEF WaitsForLast
  <2>2. CASE deal[a].step = "fulfilling" /\ Len(pool[a]) = 1
    <3>1. deal'[a].receipt # "none" BY <1>2, <2>2 DEF Waiting
    <3>2. Tail(pool[a]) = <<>> BY <1>0, <2>2, TailFacts
    <3>3. QED BY <1>2, <3>1, <3>2 DEF WaitsForLast
  <2>3. CASE deal[a].step = "fulfilling" /\ Len(pool[a]) # 1
    <3>1. deal'[a].receipt = "none" BY <1>2, <1>3, <2>3
    <3>2. /\ Tail(pool[a]) # <<>>
          /\ Tail(pool[a])[Len(Tail(pool[a]))] = pool[a][Len(pool[a])]
      BY <1>0, <2>3, TailFacts
    <3>3. QED BY <1>2, <1>3, <2>3, <3>1, <3>2 DEF WaitsForLast
  <2>4. QED BY <2>1, <2>2, <2>3
<1>6. ASSUME receipt = "reverted" \/ Head(pool[a]).call = "approve"
      PROVE  Counted(a)'
  <2>1. UNCHANGED entitlements BY <1>1, <1>6 DEF vars, Approve
  <2>2. TicketsOf(a)' = TicketsOf(a) BY <2>1 DEF TicketsOf
  <2>3. Unread(a)' = 0
    <3>1. deal[a].step = "fulfilling" /\ Len(pool[a]) = 1 => Head(pool[a]).call = "fulfill"
      BY <1>0, <1>3
    <3>2. deal[a].step = "fulfilling" => deal'[a].receipt # "ok"
      BY <1>1, <1>2, <1>3, <1>6, <3>1
    <3>3. QED BY <1>2, <3>2 DEF Unread
  <2>4. QED BY <1>2, <1>4, <2>2, <2>3 DEF Fine, Counted
<1>7. ASSUME receipt = "ok", Head(pool[a]).call = "fulfill"
      PROVE  Counted(a)'
  <2>1. Head(pool[a]).offer \in Offers /\ Fulfill(a, Head(pool[a]).offer)
    BY <1>1, <1>7
  <2>2. Cardinality(TicketsOf(a)') = Cardinality(TicketsOf(a)) + 1
    BY <1>0, <2>1, TicketBought
  <2>3. Unread(a)' \in {0, 1} BY DEF Unread
  <2>4. a \notin faulty => Unread(a)' = 1
    <3>1. ASSUME a \notin faulty PROVE Unread(a)' = 1
      <4>1. Len(pool[a]) = 1 /\ deal[a].step \in Waiting
        BY <1>0, <3>1, Awaited DEF Fine
      <4>2. deal[a].step = "fulfilling" BY <1>0, <1>7, <3>1, <4>1, Awaited DEF Fine, Waiting
      <4>3. QED BY <1>2, <1>7, <4>1, <4>2 DEF Unread
    <3>2. QED BY <3>1
  <2>5. PICK n : n = Cardinality(TicketsOf(a)) OBVIOUS
  <2>6. n \in Nat /\ won[a] <= n /\ (a \notin faulty => n = won[a])
    BY <1>0, <1>4, <2>5, TicketsFinite DEF Fine, Counted
  <2>7. Cardinality(TicketsOf(a))' = n + 1 BY <2>2, <2>5
  <2>8. QED BY <1>0, <1>2, <2>3, <2>4, <2>6, <2>7 DEF Counted
<1>8. Counted(a)' BY <1>1, <1>6, <1>7
<1>9. ASSUME a \notin faulty PROVE InOrder(a)' /\ Left(a)'
  <2>1. InOrder(a) /\ Left(a) BY <1>9 DEF Fine
  <2>2. /\ Len(pool[a]) = 1 /\ Tail(pool[a]) = <<>>
        /\ deal[a].step \in Waiting /\ deal[a].receipt = "none"
        /\ deal[a].offer \in Offers
    BY <1>0, <2>1, Awaited
  <2>3. pool'[a] = <<>> /\ deal'[a].receipt = receipt /\ receipt # "none"
    BY <1>2, <2>2
  <2>4. CASE deal[a].step # "fulfilling"
    <3>1. /\ receipt = "ok" /\ Approve(a, Head(pool[a]).amount)
          /\ Head(pool[a]).amount = IF deal[a].step = "approving"
                                    THEN deal[a].offer.price ELSE 0
      BY <1>0, <1>1, <2>1, <2>2, <2>4, Awaited DEF Waiting
    <3>2. allowance'[a] = Head(pool[a]).amount BY <1>0, <3>1 DEF Approve
    <3>3. InOrder(a)' BY <1>2, <2>3, <3>1 DEF InOrder, Sent
    <3>4. Left(a)' BY <1>2, <2>2, <2>3, <2>4, <3>1, <3>2 DEF Left, Waiting, Ended
    <3>5. QED BY <3>3, <3>4
  <2>5. CASE deal[a].step = "fulfilling"
    <3>1. Head(pool[a]).call = "fulfill" /\ Head(pool[a]).offer = deal[a].offer
      BY <1>0, <2>1, <2>5, Awaited
    <3>2. allowance[a] = deal[a].offer.price /\ deal[a].offer.price \in Nat
      BY <2>1, <2>2, <2>5, OffersAssumption DEF Left
    <3>3. allowance'[a] = IF receipt = "ok" THEN 0 ELSE deal[a].offer.price
      <4>1. CASE receipt = "ok"
        <5>1. Fulfill(a, deal[a].offer) BY <1>1, <3>1, <4>1
        <5>2. allowance'[a] = allowance[a] - deal[a].offer.price
          BY <1>0, <5>1 DEF Fulfill
        <5>3. QED BY <3>2, <4>1, <5>2
      <4>2. CASE receipt = "reverted" BY <1>1, <3>2, <4>2 DEF vars
      <4>3. QED BY <4>1, <4>2
    <3>4. InOrder(a)' BY <1>2, <2>3, <2>5 DEF InOrder, Sent
    <3>5. Left(a)' BY <1>2, <2>3, <2>5, <3>3 DEF Left, Waiting, Ended
    <3>6. QED BY <3>4, <3>5
  <2>6. QED BY <2>4, <2>5
<1>10. QED BY <1>2, <1>5, <1>8, <1>9 DEF Fine

\* A transaction of one account touches nothing of another's.
LEMMA MineApart ==
  ASSUME BuyInv, NEW a \in Consumers, Mine(a), NEW b \in Consumers \ {a}
  PROVE  TicketsOf(b)' = TicketsOf(b) /\ allowance'[b] = allowance[b]
<1>0. a \in Accounts /\ b \in Accounts BY BuyFacts
<1>1. ASSUME NEW n, Approve(a, n)
      PROVE  TicketsOf(b)' = TicketsOf(b) /\ allowance'[b] = allowance[b]
  BY <1>0, <1>1, BuyFacts DEF Approve, TicketsOf
<1>2. ASSUME NEW o \in Offers, Fulfill(a, o)
      PROVE  TicketsOf(b)' = TicketsOf(b) /\ allowance'[b] = allowance[b]
  <2>1. TicketsOf(b)' = TicketsOf(b) BY <1>0, <1>2, TicketBought
  <2>2. allowance'[b] = allowance[b] BY <1>0, <1>2, BuyFacts DEF Fulfill
  <2>3. QED BY <2>1, <2>2
<1>3. UNCHANGED vars => TicketsOf(b)' = TicketsOf(b) /\ allowance'[b] = allowance[b]
  BY DEF vars, TicketsOf
<1>4. QED BY <1>1, <1>2, <1>3, MineCases

LEMMA OthersFine ==
  ASSUME BuyInv, Elsewhere, UNCHANGED buyVars, NEW b \in Consumers, Fine(b)
  PROVE  Fine(b)'
<1>1. TicketsOf(b)' = TicketsOf(b)
  <2>1. ASSUME NEW a \in Agents, NEW i \in DOMAIN entitlements, Revoke(a, i)
        PROVE  TicketsOf(b)' = TicketsOf(b)
    <3>1. PICK e : e = [entitlements[i] EXCEPT !.revoked = TRUE] OBVIOUS
    <3>2. e.buyer = entitlements[i].buyer
      <4>1. entitlements[i] \in Entitlement BY BuyFacts
      <4>2. QED BY <3>1, <4>1 DEF Entitlement
    <3>3. entitlements' = [entitlements EXCEPT ![i] = e] BY <2>1, <3>1 DEF Revoke
    <3>4. QED BY <3>2, <3>3, BuyFacts, TicketsSame
  <2>2. ASSUME UNCHANGED entitlements PROVE TicketsOf(b)' = TicketsOf(b)
    BY <2>2 DEF TicketsOf
  <2>3. ASSUME NEW a \in Agents, NEW i \in DOMAIN entitlements, NEW to \in Consumers,
               Transfer(a, i, to)
        PROVE  TicketsOf(b)' = TicketsOf(b)
    <3>1. PICK e : e = [entitlements[i] EXCEPT !.owner = to] OBVIOUS
    <3>2. e.buyer = entitlements[i].buyer
      <4>1. entitlements[i] \in Entitlement BY BuyFacts
      <4>2. QED BY <3>1, <4>1 DEF Entitlement
    <3>3. entitlements' = [entitlements EXCEPT ![i] = e] BY <2>3, <3>1 DEF Transfer
    <3>4. QED BY <3>2, <3>3, BuyFacts, TicketsSame
  <2>4. QED BY <2>1, <2>2, <2>3 DEF Elsewhere, Faucet, TransferTok, Advance
<1>2. UNCHANGED <<deal, pool, won, faulty, allowance>>
  BY Others DEF buyVars
<1>3. QED BY <1>1, <1>2, Bystander

LEMMA FineStep ==
  ASSUME BuyInv, [PurchaseNext]_<<vars, buyVars>>, NEW b \in Consumers, Fine(b)
  PROVE  Fine(b)'
<1>1. CASE UNCHANGED <<vars, buyVars>>
  BY <1>1, Bystander DEF vars, buyVars, TicketsOf
<1>2. ASSUME NEW a \in Consumers, Request(a) PROVE Fine(b)'
  <2>1. CASE b = a BY <1>2, <2>1, RequestFine
  <2>2. CASE b # a
    BY <1>2, <2>2, RequestEffect, Bystander DEF Request, TicketsOf
  <2>3. QED BY <2>1, <2>2
<1>3. ASSUME NEW a \in Consumers, ClientStep(a) \/ Fault(a) PROVE Fine(b)'
  <2>1. CASE b = a BY <1>3, <2>1, ClientFine
  <2>2. CASE b # a
    <3>1. /\ deal'[b] = deal[b] /\ pool'[b] = pool[b] /\ won'[b] = won[b]
          /\ b \notin faulty' => b \notin faulty
      BY <1>3, <2>2, ClientApart
    <3>2. UNCHANGED <<allowance, entitlements>> BY <1>3, ClientTypes DEF vars
    <3>3. QED BY <3>1, <3>2, Bystander DEF TicketsOf
  <2>3. QED BY <2>1, <2>2
<1>4. ASSUME NEW a \in Consumers, Mine(a) PROVE Fine(b)'
  <2>1. CASE b = a BY <1>4, <2>1, MineFine
  <2>2. CASE b # a
    <3>1. /\ deal'[b] = deal[b] /\ pool'[b] = pool[b] /\ UNCHANGED <<won, faulty>>
      BY <1>4, <2>2, MineCases, MinedEffect
    <3>2. TicketsOf(b)' = TicketsOf(b) /\ allowance'[b] = allowance[b]
      BY <1>4, <2>2, MineApart
    <3>3. QED BY <3>1, <3>2, Bystander
  <2>3. QED BY <2>1, <2>2
<1>5. CASE Elsewhere /\ UNCHANGED buyVars BY <1>5, OthersFine
<1>6. CASE PurchaseNext
  <2>1. \/ \E a \in Consumers : Request(a) \/ ClientStep(a) \/ Fault(a) \/ Mine(a)
        \/ Elsewhere /\ UNCHANGED buyVars
    BY <1>6 DEF PurchaseNext, Elsewhere
  <2>2. QED BY <1>2, <1>3, <1>4, <1>5, <2>1
<1>7. QED BY <1>1, <1>6

LEMMA ClientStepInv ==
  ClientInv /\ [PurchaseNext]_<<vars, buyVars>> => ClientInv'
BY UseStep, FineStep DEF ClientInv

LEMMA ClientBegins == PurchaseInit => ClientInv
<1> SUFFICES ASSUME PurchaseInit, NEW a \in Consumers PROVE BuyInv /\ Fine(a)
  BY BuyBegins DEF ClientInv
<1>1. /\ deal[a].step = "idle" /\ deal[a].receipt = "none" /\ pool[a] = <<>>
      /\ won[a] = 0 /\ entitlements = <<>> /\ allowance[a] = 0
  BY ConsumersAssumption DEF PurchaseInit, Init, Accounts
<1>2. TicketsOf(a) = {} BY <1>1, EmptySeq DEF TicketsOf
<1>3. Counted(a) BY <1>1, <1>2, FS_EmptySet DEF Counted, Unread
<1>4. InOrder(a) BY <1>1 DEF InOrder, Sent
<1>5. Left(a) BY <1>1 DEF Left, Waiting, Ended
<1>6. WaitsForLast(a) BY <1>1 DEF WaitsForLast
<1>7. QED BY <1>3, <1>4, <1>5, <1>6, BuyBegins DEF Fine

\* A purchase that is over leaves no allowance behind, however it ended and whatever
\* other buyers did in between: only a lost answer can.
THEOREM NothingIsLeft == PurchaseSpec => []NoStandingAllowance
<1>1. ClientInv => NoStandingAllowance
  BY DEF ClientInv, Fine, Left, NoStandingAllowance
<1>2. QED BY <1>1, ClientBegins, ClientStepInv, PTL DEF PurchaseSpec

\* An account has the tickets its client was told of, and never fewer; without a
\* lost answer it has no other.
THEOREM ClientsKnowTheirTickets == PurchaseSpec => []TicketsAreKnown
<1>1. ClientInv => TicketsAreKnown
  <2>1. SUFFICES ASSUME ClientInv, NEW a \in Consumers
                 PROVE  /\ won[a] <= Cardinality(TicketsOf(a))
                        /\ a \notin faulty => Cardinality(TicketsOf(a)) = won[a] + Unread(a)
    BY DEF TicketsAreKnown
  <2>2. BuyInv /\ Counted(a) BY <2>1 DEF ClientInv, Fine
  <2>3. won[a] \in Nat /\ Unread(a) \in {0, 1} BY <2>2, BuyFacts DEF Unread
  <2>4. QED BY <2>2, <2>3, TicketsFinite DEF Counted
<1>2. QED BY <1>1, ClientBegins, ClientStepInv, PTL DEF PurchaseSpec
=============================================================================
