----------------------------- MODULE MCPurchase -----------------------------
(***************************************************************************)
(* Offers for the instance of Purchase: an open one at a price of one TOK  *)
(* (two units), one of two TOK that runs out at once, and one in a token   *)
(* the client does not know.                                               *)
(***************************************************************************)
EXTENDS Purchase

CONSTANTS ada, cleo, bell, other

Window == [start |-> 1, end |-> 2, service |-> 0, mapped |-> TRUE]

MCOffer(token, price, validUntil) ==
  [provider |-> bell, consumer |-> Anyone, terms |-> Window, token |-> token,
   price |-> price, validUntil |-> validUntil, salt |-> 0]

WholeOffers == {MCOffer(TOK, 2, 1), MCOffer(TOK, 4, 0), MCOffer(other, 2, 1)}

Rounds == [a \in Consumers |-> IF a = ada THEN 2 ELSE 1]

Budgets == [a \in Consumers |-> IF a = ada THEN 1 ELSE 2]
=============================================================================
