----------------------------- MODULE Settlement -----------------------------
(***************************************************************************)
(* A2ASettlement and the payment token it calls.  A provider signs offers, *)
(* a buyer redeems one: payment and mint are one transaction.              *)
(*                                                                         *)
(* TOK is an ordinary ERC-20, so fulfill with it is one step.  Any other   *)
(* token is external code: fulfill stops in its transferFrom, the token    *)
(* may call this contract again, and then returns or reverts.  A frame     *)
(* keeps what the revert restores.                                         *)
(***************************************************************************)
EXTENDS Integers, Sequences, FiniteSets, Functions

CONSTANTS Agents,       \* accounts that sign transactions
          Anyone,       \* address(0) in an open offer
          TOK,          \* MockTOK
          HookedTokens, \* token contracts that call back
          Offers,       \* the offers a provider may sign; the digest names them all
          Amounts,      \* amounts given to faucet and approve
          MaxSupply,    \* bound on the TOK minted by the faucet
          MaxTime,      \* bound on block.timestamp
          MaxDepth      \* bound on nested calls (gas)

Accounts == Agents \cup HookedTokens

TermsOnOffer == {o.terms : o \in Offers}

External == {o \in Offers : o.token \in HookedTokens}

ASSUME FiniteOffers == IsFiniteSet(Offers)
ASSUME OffersAssumption ==
  \A o \in Offers : /\ DOMAIN o = {"provider", "consumer", "terms", "token",
                                   "price", "validUntil", "salt"}
                    /\ o.provider \in Agents
                    /\ o.consumer \in Accounts \cup {Anyone}
                    /\ o.token \in HookedTokens \cup {TOK}
                    /\ o.price \in Nat
                    /\ o.validUntil \in Nat
                    /\ o.terms \in [start : Nat, end : Nat, service : Nat,
                                    mapped : BOOLEAN]
ASSUME AccountsAssumption == TOK \notin HookedTokens /\ Anyone \notin Accounts
ASSUME BoundsAssumption ==
  Amounts \subseteq Nat /\ MaxSupply \in Nat /\ MaxTime \in Nat /\ MaxDepth \in Nat

VARIABLES balance,    \* TOK held
          allowance,  \* TOK the account lets this contract move
          signed,     \* offers their provider has signed
          consumed,   \* offers redeemed, by digest
          entitlements, \* id -> entitlement; _lastId is its length
          frames,     \* fulfill calls waiting for their token, innermost last
          time,       \* block.timestamp
          funded      \* history: TOK got from the faucet and from others, less TOK
                      \* sent, payments for tickets left out

vars == <<balance, allowance, signed, consumed, entitlements, frames, time, funded>>

\* buyer and offer are history: who paid, and the promise it was minted for.
Entitlement == [issuer : Agents, owner : Accounts, terms : TermsOnOffer,
                revoked : BOOLEAN, buyer : Accounts, offer : Offers]

World == [balance |-> balance, allowance |-> allowance, consumed |-> consumed,
          entitlements |-> entitlements, funded |-> funded]

Worlds == [balance : [Accounts -> Nat], allowance : [Accounts -> Nat],
           consumed : SUBSET Offers, entitlements : Seq(Entitlement),
           funded : [Accounts -> Int]]

TypeOK == /\ World \in Worlds
          /\ signed \subseteq Offers
          /\ frames \in Seq([offer : External, buyer : Accounts, saved : Worlds])
          /\ Len(frames) <= MaxDepth
          /\ time \in 0..MaxTime

Init == /\ balance = [a \in Accounts |-> 0]
        /\ allowance = [a \in Accounts |-> 0]
        /\ signed = {}
        /\ consumed = {}
        /\ entitlements = <<>>
        /\ frames = <<>>
        /\ time = 0
        /\ funded = [a \in Accounts |-> 0]

Top == frames[Len(frames)]

\* Who can call the contract now: any agent between transactions, and inside
\* one only the token that fulfill is waiting for.
MaySend(a) == IF frames = <<>> THEN a \in Agents
                               ELSE a = Top.offer.token /\ Len(frames) < MaxDepth

Minted == FoldFunctionOnSet(+, 0, funded, Accounts)

\* What accounts hold when n has gone from one to another, or to itself.
Moved(held, from, to, n) == [x \in Accounts |-> held[x] - (IF x = from THEN n ELSE 0)
                                                        + (IF x = to THEN n ELSE 0)]

Faucet(a, to, n) ==
  /\ MaySend(a)
  /\ Minted + n <= MaxSupply
  /\ balance' = [balance EXCEPT ![to] = @ + n]
  /\ funded' = [funded EXCEPT ![to] = @ + n]
  /\ UNCHANGED <<allowance, signed, consumed, entitlements, frames, time>>

\* transfer, and transferFrom by anybody but this contract: the allowances of
\* others are not kept, whoever asks may have been granted one.
TransferTok(from, to, n) ==
  /\ \E a \in Accounts : MaySend(a)
  /\ balance[from] >= n
  /\ balance' = Moved(balance, from, to, n)
  /\ funded' = Moved(funded, from, to, n)
  /\ UNCHANGED <<allowance, signed, consumed, entitlements, frames, time>>

\* approve, with this contract as the spender.
Approve(a, n) ==
  /\ MaySend(a)
  /\ allowance' = [allowance EXCEPT ![a] = n]
  /\ UNCHANGED <<balance, signed, consumed, entitlements, frames, time, funded>>

\* Off chain: the provider's signature over hashOffer(o).
SignOffer(o) ==
  /\ frames = <<>>
  /\ signed' = signed \cup {o}
  /\ UNCHANGED <<balance, allowance, consumed, entitlements, frames, time, funded>>

\* The checks of fulfill.  A call that fails one reverts and leaves no trace.
Redeemable(a, o) ==
  /\ MaySend(a)
  /\ time <= o.validUntil           \* OfferExpired
  /\ o.consumer \in {Anyone, a}     \* WrongConsumer
  /\ o \notin consumed              \* OfferAlreadyUsed
  /\ o \in signed                   \* BadSignature

\* _issue: the terms are copied from the offer, the id is the next one.
Issue(a, o) ==
  Append(entitlements, [issuer |-> o.provider, owner |-> a, terms |-> o.terms,
                        revoked |-> FALSE, buyer |-> a, offer |-> o])

\* Mutant: the token does not look at the balance.
FulfillUnfunded(a, o) ==
  /\ o.token = TOK
  /\ Redeemable(a, o)
  /\ allowance[a] >= o.price
  /\ consumed' = consumed \cup {o}
  /\ balance' = Moved(balance, a, o.provider, o.price)
  /\ allowance' = [allowance EXCEPT ![a] = @ - o.price]
  /\ entitlements' = Issue(a, o)
  /\ UNCHANGED <<signed, frames, time, funded>>

\* fulfill of an offer in TOK: the token moves the price or the call reverts.
Fulfill(a, o) ==
  /\ o.token = TOK
  /\ Redeemable(a, o)
  /\ balance[a] >= o.price
  /\ allowance[a] >= o.price
  /\ consumed' = consumed \cup {o}
  /\ balance' = Moved(balance, a, o.provider, o.price)
  /\ allowance' = [allowance EXCEPT ![a] = @ - o.price]
  /\ entitlements' = Issue(a, o)
  /\ UNCHANGED <<signed, frames, time, funded>>

\* Mutant: the interaction before the effect.
CallTokenUnpunched(a, o) ==
  /\ o \in External
  /\ Redeemable(a, o)
  /\ Len(frames) < MaxDepth
  /\ frames' = Append(frames, [offer |-> o, buyer |-> a, saved |-> World])
  /\ UNCHANGED <<balance, allowance, signed, consumed, entitlements, time, funded>>

\* fulfill of an offer in another token, up to safeTransferFrom.
CallToken(a, o) ==
  /\ o \in External
  /\ Redeemable(a, o)
  /\ Len(frames) < MaxDepth
  /\ consumed' = consumed \cup {o}
  /\ frames' = Append(frames, [offer |-> o, buyer |-> a, saved |-> World])
  /\ UNCHANGED <<balance, allowance, signed, entitlements, time, funded>>

\* The token says it has paid; whatever it moved is in its own books.
TokenReturns ==
  /\ frames # <<>>
  /\ entitlements' = Issue(Top.buyer, Top.offer)
  /\ frames' = SubSeq(frames, 1, Len(frames) - 1)
  /\ UNCHANGED <<balance, allowance, signed, consumed, time, funded>>

\* Mutant: the tickets of the calls it undoes are gone, the payments stay.
TokenRevertsHalf ==
  /\ frames # <<>>
  /\ consumed' = Top.saved.consumed
  /\ entitlements' = Top.saved.entitlements
  /\ frames' = SubSeq(frames, 1, Len(frames) - 1)
  /\ UNCHANGED <<balance, allowance, signed, time, funded>>

\* The token reverts, or returns false: every effect of this call is undone.
TokenReverts ==
  /\ frames # <<>>
  /\ balance' = Top.saved.balance
  /\ allowance' = Top.saved.allowance
  /\ consumed' = Top.saved.consumed
  /\ entitlements' = Top.saved.entitlements
  /\ funded' = Top.saved.funded
  /\ frames' = SubSeq(frames, 1, Len(frames) - 1)
  /\ UNCHANGED <<signed, time>>

\* Mutant: a second revoke lifts the first.
RevokeToggles(a, id) ==
  /\ MaySend(a)
  /\ entitlements[id].issuer = a
  /\ entitlements' = [entitlements EXCEPT ![id].revoked = ~@]
  /\ UNCHANGED <<balance, allowance, signed, consumed, frames, time, funded>>

\* Issuer only (NotIssuer); again is a success.
Revoke(a, id) ==
  /\ MaySend(a)
  /\ entitlements[id].issuer = a
  /\ entitlements' = [entitlements EXCEPT ![id].revoked = TRUE]
  /\ UNCHANGED <<balance, allowance, signed, consumed, frames, time, funded>>

\* transferFrom, safeTransferFrom by the owner; one the owner approved may move it
\* as well, to the same effect.
Transfer(a, id, to) ==
  /\ MaySend(a)
  /\ entitlements[id].owner = a
  /\ entitlements' = [entitlements EXCEPT ![id].owner = to]
  /\ UNCHANGED <<balance, allowance, signed, consumed, frames, time, funded>>

Advance ==
  /\ frames = <<>>
  /\ time < MaxTime
  /\ time' = time + 1
  /\ UNCHANGED <<balance, allowance, signed, consumed, entitlements, frames, funded>>

TokenStep == \/ \E a \in Accounts, n \in Amounts : Approve(a, n)
             \/ \E a, to \in Accounts, n \in Amounts : Faucet(a, to, n)
             \/ \E from, to \in Accounts, n \in Amounts : TransferTok(from, to, n)
             \/ TokenReturns
             \/ TokenReverts

ContractStep ==
  \/ \E a \in Accounts, o \in Offers : Fulfill(a, o) \/ CallToken(a, o)
  \/ \E a \in Accounts, id \in DOMAIN entitlements :
       Revoke(a, id) \/ \E to \in Accounts : Transfer(a, id, to)

Next == \/ TokenStep
        \/ ContractStep
        \/ \E o \in Offers : SignOffer(o)
        \/ Advance

Spec == Init /\ [][Next]_vars

-----------------------------------------------------------------------------
(* Properties. *)

\* I2 and the first half of I3: an offer is marked used exactly when a ticket
\* was minted for it, once, or its payment is under way, also when a token
\* calls back with the same or another offer and reverts half of it.
OffersOf(seq) == {seq[i].offer : i \in DOMAIN seq}

Apart(seq) == \A i, j \in DOMAIN seq : seq[i].offer = seq[j].offer => i = j

Books(used, sold, paying) == /\ used = OffersOf(sold) \cup OffersOf(paying)
                             /\ OffersOf(sold) \cap OffersOf(paying) = {}
                             /\ Apart(sold)
                             /\ Apart(paying)

SoldOnce == Books(consumed, entitlements, frames)

\* The second half of I3: beyond what the faucet and others gave it and what it
\* sent, an account has the price of every ticket it issued, less the price of
\* every one it bought: no ticket without its payment, no payment without its
\* ticket.
PricesOf(ids) ==
  FoldFunctionOnSet(+, 0, [i \in DOMAIN entitlements |-> entitlements[i].offer.price], ids)

PaidIffMinted ==
  LET InTok == {i \in DOMAIN entitlements : entitlements[i].offer.token = TOK}
  IN  \A a \in Accounts :
        balance[a] = funded[a] + PricesOf({i \in InTok : entitlements[i].issuer = a})
                               - PricesOf({i \in InTok : entitlements[i].buyer = a})

\* What the rest of the world sees: the state between transactions.
Committed == IF frames = <<>> THEN entitlements ELSE frames[1].saved.entitlements

Keeps(before, after) ==
  \A i \in DOMAIN before : /\ i \in DOMAIN after
                           /\ after[i].issuer = before[i].issuer
                           /\ after[i].terms = before[i].terms
                           /\ before[i].revoked => after[i].revoked

\* I5, I6, I8: a ticket that was seen stays, with its issuer, its terms and,
\* once revoked, its revocation, whatever transaction runs or is rolled back.
PromisesKept == [][Keeps(Committed, Committed')]_vars

\* The chain the controller was verified against.  Without payments in external
\* tokens every transaction mints at most one ticket, and the contract
\* implements EntitlementChain.
ViewOf(e) == [owner |-> e.owner, terms |-> e.terms, revoked |-> e.revoked]

Chain == INSTANCE EntitlementChain
           WITH Ids <- 1..Cardinality(Offers), Agents <- Accounts, Terms <- TermsOnOffer,
                tickets <- [i \in DOMAIN Committed |-> ViewOf(Committed[i])]

ImplementsChain == Chain!ChainSpec
=============================================================================
