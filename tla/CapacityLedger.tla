--------------------------- MODULE CapacityLedger ---------------------------
(***************************************************************************)
(* The provider agent: admission against CapacityLedger, then the quote.   *)
(* One window; every offer in it is good until the window's end, so a sold *)
(* offer and a live one weigh the same.  A hold of n units by request r is *)
(* n slots <<r, k>>, and the order of the list is turn.                    *)
(***************************************************************************)
EXTENDS Integers, FiniteSets, FiniteSetsExt

CONSTANTS Requests,     \* quote requests, each made once
          Demand,       \* request -> units
          Capacity,     \* the pool
          QuoteHold,    \* QUOTE_HOLD_S
          End,          \* window.end, validUntil of every offer
          \* The rest per ledger, FALSE for one without a clock, TRUE with one.
          AnswerWithin, \* bound on the time from admission to the signed offer
          MaxBusy,      \* requests the provider works on at once
          MaxTime       \* bound on chain time

ASSUME RequestsAssumption == IsFiniteSet(Requests) /\ Demand \in [Requests -> Nat]
ASSUME LedgerAssumption == /\ Capacity \in Nat /\ QuoteHold \in Nat /\ End \in Nat

VARIABLES clocked,  \* whether CapacityLedger was given a clock, for good
          st,       \* request -> where its graph is
          asked,    \* request -> time of its admission
          slots,    \* reserved units, as <<request, k>>
          turn,     \* request -> place of its hold in the list, 0 before it has one
          expires,  \* request -> expires_at of its hold
          time      \* chain time

vars == <<clocked, st, asked, slots, turn, expires, time>>

Hold(r) == {r} \X (1..Demand[r])
Units(R) == UNION {Hold(r) : r \in R}

In(states) == {r \in Requests : st[r] \in states}
Busy == In({"quoting", "signed"})

TypeOK == /\ clocked \in BOOLEAN
          /\ st \in [Requests -> {"new", "refused", "quoting", "signed",
                                  "offered", "declined", "failed"}]
          /\ asked \in [Requests -> Nat]
          /\ slots \subseteq Units(Requests)
          /\ turn \in [Requests -> Nat]
          /\ expires \in [Requests -> Nat]
          /\ time \in Nat
          /\ \A s \in slots : turn[s[1]] > 0 /\ st[s[1]] # "new"

Init == /\ clocked \in BOOLEAN
        /\ st = [r \in Requests |-> "new"]
        /\ asked = [r \in Requests |-> 0]
        /\ slots = {}
        /\ turn = [r \in Requests |-> 0]
        /\ expires = [r \in Requests |-> 0]
        /\ time = 0

\* _sweep: what is left of the list after the holds that ran out.
Swept == {s \in slots : clocked => expires[s[1]] > time}

\* Mutant: each request is weighed alone.
FitsAlone(r) == Demand[r] <= Capacity

Fits(r) == Demand[r] <= Capacity - Cardinality(Swept)

MayPass == /\ time < MaxTime[clocked]
           /\ \A r \in Busy : time < asked[r] + AnswerWithin[clocked]

Arrives(r) == st[r] = "new" /\ Cardinality(Busy) < MaxBusy[clocked]

\* admit, over capacity: declined before any model is asked.
Refuse(r) ==
  /\ Arrives(r)
  /\ ~Fits(r)
  /\ slots' = Swept
  /\ st' = [st EXCEPT ![r] = "refused"]
  /\ UNCHANGED <<clocked, asked, turn, expires, time>>

\* Mutant: the hold goes to the front of the list.
ReserveFirst(r, now) ==
  /\ Arrives(r)
  /\ Fits(r)
  /\ slots' = Swept \cup Hold(r)
  /\ expires' = [expires EXCEPT ![r] = now + QuoteHold]
  /\ st' = [st EXCEPT ![r] = "quoting"]
  /\ asked' = [asked EXCEPT ![r] = time]
  /\ time' = now
  /\ UNCHANGED <<clocked, turn>>

\* try_reserve: check and act under the lock.  The clock is read for the sweep
\* and again for the stamp, and a block may come in between.
Reserve(r, now) ==
  /\ Arrives(r)
  /\ Fits(r)
  /\ slots' = Swept \cup Hold(r)
  /\ turn' = [turn EXCEPT ![r] = 1 + Cardinality({q \in Requests : turn[q] > 0})]
  /\ expires' = [expires EXCEPT ![r] = now + QuoteHold]
  /\ st' = [st EXCEPT ![r] = "quoting"]
  /\ asked' = [asked EXCEPT ![r] = time]
  /\ time' = now
  /\ UNCHANGED clocked

\* The judgment slot says quote and tools.sign_offer signs.
Sign(r) ==
  /\ st[r] = "quoting"
  /\ st' = [st EXCEPT ![r] = "signed"]
  /\ UNCHANGED <<clocked, asked, slots, turn, expires, time>>

\* The holds hold_until looks for: live, and of the same size.
Matches(r) == {q \in Requests : /\ Hold(q) \cap Swept # {}
                                /\ Cardinality(Hold(q) \cap Swept) = Demand[r]}

\* Mutant: the oldest match is re-stamped.
RestampedOldest(r) ==
  {q \in Matches(r) : \A p \in Matches(r) : turn[q] <= turn[p]}

Restamped(r) == {q \in Matches(r) : \A p \in Matches(r) : turn[p] <= turn[q]}

\* hold_until, and the answer goes to the buyer.
HoldUntil(r) ==
  /\ st[r] = "signed"
  /\ slots' = Swept
  /\ expires' = [q \in Requests |-> IF q \in Restamped(r) THEN End ELSE expires[q]]
  /\ st' = [st EXCEPT ![r] = "offered"]
  /\ UNCHANGED <<clocked, asked, turn, time>>

\* Mutant: whole holds are popped until there is enough.
ReleasedWhole(n) ==
  {gone \in SUBSET Swept :
     /\ Cardinality(gone) >= Min({n, Cardinality(Swept)})
     /\ \A s \in gone, t \in Swept \ gone : turn[s[1]] < turn[t[1]]}

\* release: n units of the oldest holds, whoever they belong to.
Released(n) ==
  {gone \in SUBSET Swept :
     /\ Cardinality(gone) = Min({n, Cardinality(Swept)})
     /\ \A s \in gone, t \in Swept \ gone : turn[s[1]] <= turn[t[1]]}

\* The judgment slot declines, or its answers never validate (StructuredError).
DeclineQuote(r) ==
  /\ st[r] = "quoting"
  /\ \E gone \in Released(Demand[r]) : slots' = Swept \ gone
  /\ st' = [st EXCEPT ![r] = "declined"]
  /\ UNCHANGED <<clocked, asked, turn, expires, time>>

\* The model or the signer is unreachable: the graph raises, the hold stays.
Raise(r) ==
  /\ st[r] = "quoting"
  /\ st' = [st EXCEPT ![r] = "failed"]
  /\ UNCHANGED <<clocked, asked, slots, turn, expires, time>>

Advance ==
  /\ MayPass
  /\ time' = time + 1
  /\ UNCHANGED <<clocked, st, asked, slots, turn, expires>>

Next == \/ \E r \in Requests :
             \/ Refuse(r)
             \/ \E now \in {time} \cup (IF MayPass THEN {time + 1} ELSE {}) :
                  Reserve(r, now)
             \/ Sign(r) \/ HoldUntil(r) \/ DeclineQuote(r) \/ Raise(r)
        \/ Advance

Spec == Init /\ [][Next]_vars

-----------------------------------------------------------------------------
(* Properties. *)

\* The ledger never books more than the pool, whichever requests race for it.
WithinCapacity == Cardinality(slots) <= Capacity

\* No overselling, said of what buyers hold and not of the ledger: the offers
\* that can still be redeemed for the window fit into the pool together.  With a
\* clock this is so until a judgment declines: release may then give back the
\* units of a hold that backs an offer in a buyer's hands.
PromisesFit ==
  time < End /\ (clocked => In({"declined"}) = {})
    => Cardinality(Units(In({"offered"}))) <= Capacity

\* Without a clock nothing is lost or gained: the ledger books exactly what was
\* admitted and not given back, though a release takes the oldest units there
\* are and leaves holds of another size behind.
BooksBalance ==
  ~clocked => Cardinality(slots)
                = Cardinality(Units(In({"quoting", "signed", "offered", "failed"})))
=============================================================================
