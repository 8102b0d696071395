-------------------------- MODULE EntitlementChain --------------------------
(***************************************************************************)
(* What the EntitlementReader port shows of the chain: tickets that appear *)
(* with fixed terms, change hands, and may be revoked once and for all,    *)
(* under a clock that only moves forward.  The controller reads this       *)
(* state; Settlement is the contract that implements it.                   *)
(***************************************************************************)
EXTENDS Integers, FiniteSets

CONSTANTS Ids,        \* entitlement ids that may be minted
          Agents,     \* addresses that may hold a ticket
          Terms,      \* the terms a ticket can carry
          MaxTime     \* bound on chain time

ASSUME TermsAssumption ==
  Terms \subseteq [start : Nat, end : Nat, service : Nat, mapped : BOOLEAN]
ASSUME TimeAssumption == MaxTime \in Nat

VARIABLES tickets,    \* minted id -> [owner, terms, revoked]
          time        \* timestamp of the latest block

chainVars == <<tickets, time>>

Ticket == [owner : Agents, terms : Terms, revoked : BOOLEAN]

ChainTypeOK == /\ DOMAIN tickets \subseteq Ids
               /\ \A id \in DOMAIN tickets : tickets[id] \in Ticket
               /\ time \in 0..MaxTime

ChainInit == /\ tickets = [id \in {} |-> 0]
             /\ time = 0

Mint(id, agent, terms) ==
  /\ id \in Ids \ DOMAIN tickets
  /\ tickets' = [x \in DOMAIN tickets \cup {id} |->
                   IF x = id
                   THEN [owner |-> agent, terms |-> terms, revoked |-> FALSE]
                   ELSE tickets[x]]
  /\ UNCHANGED time

Transfer(id, agent) ==
  /\ id \in DOMAIN tickets
  /\ tickets' = [tickets EXCEPT ![id].owner = agent]
  /\ UNCHANGED time

\* Revoking twice succeeds and emits Revoked(id) twice.
Revoke(id) ==
  /\ id \in DOMAIN tickets
  /\ tickets' = [tickets EXCEPT ![id].revoked = TRUE]
  /\ UNCHANGED time

Advance ==
  /\ time < MaxTime
  /\ time' = time + 1
  /\ UNCHANGED tickets

ChainNext == \/ \E id \in Ids, a \in Agents, t \in Terms : Mint(id, a, t)
             \/ \E id \in Ids, a \in Agents : Transfer(id, a)
             \/ \E id \in Ids : Revoke(id)
             \/ Advance

ChainSpec == ChainInit /\ [][ChainNext]_chainVars

\* EntitlementReader.get: the ticket's record without its owner.
View(id) == [id |-> id, terms |-> tickets[id].terms, revoked |-> tickets[id].revoked]
=============================================================================
