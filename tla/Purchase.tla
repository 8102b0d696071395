------------------------------ MODULE Purchase ------------------------------
(***************************************************************************)
(* Consumers buying on the Settlement contract: the consumer graph (quote, *)
(* decide, settle, activate) and ChainClient.approve_and_fulfill, whose    *)
(* approve and fulfill are two transactions.  A transaction is sent after  *)
(* an estimate, is mined later, in the order of its account's nonces, and  *)
(* its receipt is waited for; any RPC call may fail, also after the        *)
(* transaction was sent.                                                   *)
(***************************************************************************)
EXTENDS Settlement

CONSTANTS Consumers, \* accounts that run the graph, one purchase at a time
          Judged,    \* the consumers whose decide slot is a language model
          Budget,    \* consumer -> budget_tok
          Unit,      \* 10^18: the units of one TOK
          NoOffer,
          MaxRounds  \* bound on the purchases of a consumer

ASSUME ConsumersAssumption == /\ Consumers \subseteq Agents /\ Judged \subseteq Consumers
                              /\ Budget \in [Consumers -> Nat]
                              /\ Unit \in Nat \ {0} /\ MaxRounds \in [Consumers -> Nat]
                              /\ NoOffer \notin Offers
ASSUME AmountsAssumption == {0} \cup {o.price : o \in Offers} \subseteq Amounts

VARIABLES deal,   \* consumer -> the purchase it is at
          pool,   \* consumer -> its transactions not yet mined
          rounds, \* consumer -> purchases begun
          won,    \* history: consumer -> tickets its client was told of
          faulty  \* history: consumers that lost an answer

buyVars == <<deal, pool, rounds, won, faulty>>

Waiting == {"approving", "fulfilling", "withdrawing"}
Ended == {"idle", "declined", "invalid", "rejected", "failed", "denied", "active"}
Steps == Waiting \cup Ended \cup {"quoted", "accepted", "approved", "refused", "settled"}

ApproveTx(n) == [call |-> "approve", amount |-> n]
FulfillTx(o) == [call |-> "fulfill", offer |-> o]

Tx == [call : {"approve"}, amount : Nat] \cup [call : {"fulfill"}, offer : Offers]

PurchaseTypeOK ==
  /\ TypeOK
  /\ deal \in [Consumers -> [step : Steps, offer : Offers \cup {NoOffer},
                             receipt : {"none", "ok", "reverted"}]]
  /\ \A a \in Consumers : deal[a].receipt # "none" => deal[a].step \in Waiting
  /\ pool \in [Consumers -> Seq(Tx)]
  /\ rounds \in [Consumers -> Nat]
  /\ won \in [Consumers -> Nat]
  /\ faulty \subseteq Consumers

PurchaseInit == /\ Init
                /\ deal = [a \in Consumers |-> [step |-> "idle", offer |-> NoOffer,
                                                receipt |-> "none"]]
                /\ pool = [a \in Consumers |-> <<>>]
                /\ rounds = [a \in Consumers |-> 0]
                /\ won = [a \in Consumers |-> 0]
                /\ faulty = {}

\* Mutant: the answer to the last call is taken for the answer to the next.
GotoStale(a, step) == deal' = [deal EXCEPT ![a].step = step]

Goto(a, step) == deal' = [deal EXCEPT ![a].step = step, ![a].receipt = "none"]

\* request_quote: the provider declines, signs an offer, or the offer is one
\* that was signed before.
Request(a) ==
  /\ deal[a].step \in Ended
  /\ rounds[a] < MaxRounds[a]
  /\ rounds' = [rounds EXCEPT ![a] = @ + 1]
  /\ \/ /\ Goto(a, "declined")
        /\ UNCHANGED vars
     \/ \E o \in Offers :
          /\ deal' = [deal EXCEPT ![a].step = "quoted", ![a].offer = o]
          /\ SignOffer(o)
  /\ UNCHANGED <<pool, won, faulty>>

\* The deterministic slot compares whole TOK.  A model may say anything; when
\* it says nothing readable the answer is no.
Accepts(a, o) == a \in Judged \/ o.price \div Unit <= Budget[a]

Decide(a) ==
  /\ deal[a].step = "quoted"
  /\ \/ /\ Accepts(a, deal[a].offer)
        /\ Goto(a, "accepted")
     \/ /\ a \in Judged \/ ~Accepts(a, deal[a].offer)
        /\ Goto(a, "declined")
  /\ UNCHANGED <<vars, pool, rounds, won, faulty>>

Send(a, tx, step) ==
  /\ pool' = [pool EXCEPT ![a] = Append(@, tx)]
  /\ Goto(a, step)
  /\ UNCHANGED <<vars, rounds, won, faulty>>

\* approve_and_fulfill: the client knows one payment token.
SendApprove(a) ==
  /\ deal[a].step = "accepted"
  /\ IF deal[a].offer.token = TOK
     THEN Send(a, ApproveTx(deal[a].offer.price), "approving")
     ELSE Goto(a, "invalid") /\ UNCHANGED <<vars, pool, rounds, won, faulty>>

\* What the estimate says, and the chain when the transaction is mined.
WouldPass(a, o) == /\ Redeemable(a, o)
                   /\ balance[a] >= o.price
                   /\ allowance[a] >= o.price

\* Mutant: sent again although the first has not been answered.
SendFulfillTwice(a) ==
  /\ deal[a].step = "approved"
  /\ WouldPass(a, deal[a].offer)
  /\ pool' = [pool EXCEPT ![a] = @ \o <<FulfillTx(deal[a].offer), FulfillTx(deal[a].offer)>>]
  /\ Goto(a, "fulfilling")
  /\ UNCHANGED <<vars, rounds, won, faulty>>

SendFulfill(a) ==
  /\ deal[a].step = "approved"
  /\ WouldPass(a, deal[a].offer)
  /\ Send(a, FulfillTx(deal[a].offer), "fulfilling")

\* Mutants: raised without taking the allowance back; fulfill is tried again.
RefuseAtOnce(a) ==
  /\ \/ deal[a].step = "approved" /\ ~WouldPass(a, deal[a].offer)
     \/ deal[a].step = "fulfilling" /\ deal[a].receipt = "reverted"
  /\ Goto(a, "rejected")
  /\ UNCHANGED <<vars, pool, rounds, won, faulty>>

RefuseRetries(a) ==
  /\ \/ deal[a].step = "approved" /\ ~WouldPass(a, deal[a].offer)
     \/ deal[a].step = "fulfilling" /\ deal[a].receipt = "reverted"
  /\ Goto(a, "approved")
  /\ UNCHANGED <<vars, pool, rounds, won, faulty>>

\* ChainRevert: the estimate of fulfill reverts, or fulfill itself does,
\* because another transaction came between the two.
Refuse(a) ==
  /\ \/ deal[a].step = "approved" /\ ~WouldPass(a, deal[a].offer)
     \/ deal[a].step = "fulfilling" /\ deal[a].receipt = "reverted"
  /\ Goto(a, "refused")
  /\ UNCHANGED <<vars, pool, rounds, won, faulty>>

\* The clean-up, before the refusal is raised.
SendWithdraw(a) ==
  /\ deal[a].step = "refused"
  /\ Send(a, ApproveTx(0), "withdrawing")

\* wait_for_transaction_receipt returned, with status 1.
Proceed(a) ==
  /\ deal[a].receipt = "ok"
  /\ \/ deal[a].step = "approving" /\ Goto(a, "approved") /\ UNCHANGED won
     \/ /\ deal[a].step = "fulfilling"
        /\ Goto(a, "settled")
        /\ won' = [won EXCEPT ![a] = @ + 1]
     \/ deal[a].step = "withdrawing" /\ Goto(a, "rejected") /\ UNCHANGED won
  /\ UNCHANGED <<vars, pool, rounds, faulty>>

\* Challenge, proof, activate: an ended purchase, with a session or without.
Activate(a) ==
  /\ deal[a].step = "settled"
  /\ Goto(a, "active") \/ Goto(a, "denied")
  /\ UNCHANGED <<vars, pool, rounds, won, faulty>>

\* An RPC call raises, or the receipt does not come in time: not a ChainRevert,
\* so nothing is cleaned up.  What was sent may still be mined.
Fault(a) ==
  /\ deal[a].step \in Waiting \cup {"accepted", "approved", "refused"}
  /\ Goto(a, "failed")
  /\ faulty' = faulty \cup {a}
  /\ UNCHANGED <<vars, pool, rounds, won>>

\* The next transaction of a.  A transaction that is waited for is the last one
\* it sent.
Mined(a, receipt) ==
  /\ pool' = [pool EXCEPT ![a] = Tail(@)]
  /\ deal' = IF Len(pool[a]) = 1 /\ deal[a].step \in Waiting
             THEN [deal EXCEPT ![a].receipt = receipt]
             ELSE deal
  /\ UNCHANGED <<rounds, won, faulty>>

Mine(a) ==
  /\ pool[a] # <<>>
  /\ LET tx == Head(pool[a])
     IN  \/ /\ tx.call = "approve"
            /\ Approve(a, tx.amount)
            /\ Mined(a, "ok")
         \/ /\ tx.call = "fulfill"
            /\ Fulfill(a, tx.offer)
            /\ Mined(a, "ok")
         \/ /\ tx.call = "fulfill"
            /\ ~WouldPass(a, tx.offer)
            /\ UNCHANGED vars
            /\ Mined(a, "reverted")

ClientStep(a) == \/ Decide(a) \/ SendApprove(a) \/ SendFulfill(a) \/ Refuse(a)
                 \/ SendWithdraw(a) \/ Proceed(a) \/ Activate(a)

\* Beside the purchases the faucet gives, consumers spend TOK elsewhere and hand
\* tickets on, providers revoke, and time passes.
PurchaseNext ==
  \/ \E a \in Consumers : Request(a) \/ ClientStep(a) \/ Fault(a) \/ Mine(a)
  \/ /\ \/ \E a \in Consumers, n \in Amounts : Faucet(a, a, n)
        \/ \E a \in Consumers, to \in Agents \ Consumers, n \in Amounts : TransferTok(a, to, n)
        \/ \E a \in Agents, id \in DOMAIN entitlements :
             Revoke(a, id) \/ \E to \in Consumers : Transfer(a, id, to)
        \/ Advance
     /\ UNCHANGED buyVars

PurchaseSpec == PurchaseInit /\ [][PurchaseNext]_<<vars, buyVars>>

\* A client that was started runs on, and what was sent is mined; nothing is
\* assumed of the RPC.
FairPurchases ==
  PurchaseSpec /\ \A a \in Consumers : /\ WF_<<vars, buyVars>>(ClientStep(a))
                                       /\ WF_<<vars, buyVars>>(Mine(a))

-----------------------------------------------------------------------------
(* Properties. *)

\* The comment on the clean-up: a purchase that is over leaves no allowance
\* behind, also when another buyer was faster, the offer ran out between the
\* two transactions or the account was short.  Only a lost answer can.
NoStandingAllowance ==
  \A a \in Consumers \ faulty :
    deal[a].step \in Ended \cup {"quoted", "accepted"} => allowance[a] = 0

\* Every ticket an account paid for is one its client returned, and the other
\* way round, unless an answer was lost.
TicketsOf(a) == {i \in DOMAIN entitlements : entitlements[i].buyer = a}

Unread(a) == IF deal[a].step = "fulfilling" /\ deal[a].receipt = "ok" THEN 1 ELSE 0

TicketsAreKnown ==
  \A a \in Consumers :
    /\ won[a] <= Cardinality(TicketsOf(a))
    /\ a \notin faulty => Cardinality(TicketsOf(a)) = won[a] + Unread(a)

\* A purchase that was begun ends.
PurchasesEnd ==
  \A a \in Consumers : deal[a].step = "quoted" ~> deal[a].step \in Ended
=============================================================================
