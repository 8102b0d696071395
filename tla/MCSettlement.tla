---------------------------- MODULE MCSettlement ----------------------------
(***************************************************************************)
(* Offers for the instance of Settlement: one in TOK, and two in a token   *)
(* that calls back, of which one is bound to a buyer.                      *)
(***************************************************************************)
EXTENDS Settlement

CONSTANTS ada, bell, hook

Window == [start |-> 1, end |-> 2, service |-> 0, mapped |-> TRUE]

MCOffer(consumer, token, price, salt) ==
  [provider |-> bell, consumer |-> consumer, terms |-> Window, token |-> token,
   price |-> price, validUntil |-> 0, salt |-> salt]

HookedOffers == {MCOffer(Anyone, TOK, 1, 0), MCOffer(Anyone, hook, 1, 0),
                 MCOffer(ada, hook, 1, 1)}
=============================================================================
