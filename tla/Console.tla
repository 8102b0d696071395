------------------------------- MODULE Console -------------------------------
(***************************************************************************)
(* The operator console: one stack (chain, controller, ledgers) built on   *)
(* demand, one worker thread that provisions or revokes, and a reset that  *)
(* any request thread may run beside it.  The stack is rebuilt after a     *)
(* reset, the router is the real one and stays; ids and session names      *)
(* start over with every stack.                                            *)
(*                                                                         *)
(* The ledger is the number of slots it has given away (CapacityLedger has *)
(* the holds), a session is its name, and its config on the router is one  *)
(* thing (Netctl has the nodes).                                           *)
(***************************************************************************)
EXTENDS Integers, Sequences, FiniteSets

CONSTANTS Slots,      \* sessions the provider's pool has room for
          MaxTickets, \* bound on the tickets minted on one stack
          MaxStacks   \* bound on the stacks built

ASSUME ConsoleAssumption == Slots \in Nat /\ MaxTickets \in Nat /\ MaxStacks \in Nat

VARIABLES stacks,    \* stacks begun so far
          anvil,     \* the chain of the console is up
          built,     \* and everything after it
          minted,    \* tickets of this stack
          revoked,   \* those revoked
          held,      \* slots the ledger has given away
          seq,       \* _seq of the controller
          active,    \* the controller's ACTIVE sessions
          router,    \* sessions with config on the router
          known,     \* sessions: its keys, in the order they were inserted
          named,     \* sessions: its values that are not None
          work,      \* where the worker is; _busy is held unless it is Idle
          resetting, \* reset is at its teardowns: the size of sessions it saw
          crossed,   \* history: a reset ran beside an action
          refused    \* history: the router did not do what it was asked

stackVars == <<stacks, anvil, built>>
chainVars == <<minted, revoked, held, seq, active>>
consoleVars == <<known, named>>
history == <<crossed, refused>>
vars == <<stackVars, chainVars, router, consoleVars, work, resetting, history>>

Idle == [step |-> "idle"]
NoReset == -1
NoSession == [eid |-> 0, seq |-> 0, stack |-> 0]

\* stack is history: a session is named after its ticket and _seq.
Name == [eid : 1..MaxTickets, seq : 0..MaxTickets, stack : 1..MaxStacks]

Same(s, t) == s.eid = t.eid /\ s.seq = t.seq

Steps == {"start", "negotiate", "decide", "settle", "activate", "apply", "record",
          "choose", "revoke", "handle", "show", "forget", "release"}

TypeOK ==
  /\ stacks \in 0..MaxStacks /\ anvil \in BOOLEAN /\ built \in BOOLEAN
  /\ minted \in 0..MaxTickets /\ revoked \subseteq 1..minted
  /\ held \in 0..Slots
  /\ seq \in 0..MaxTickets
  /\ active \subseteq Name /\ router \subseteq Name /\ named \subseteq Name
  /\ known \in Seq(1..MaxTickets)
  /\ {s.eid : s \in named} \subseteq {known[i] : i \in DOMAIN known}
  /\ work = Idle \/ (work.step \in Steps /\ work.eid \in 0..MaxTickets
                     /\ work.session \in Name \cup {NoSession})
  /\ resetting \in {NoReset} \cup Nat
  /\ crossed \in BOOLEAN /\ refused \in BOOLEAN

Init == /\ stacks = 0 /\ anvil = FALSE /\ built = FALSE
        /\ minted = 0 /\ revoked = {} /\ held = 0 /\ seq = 0 /\ active = {}
        /\ router = {}
        /\ known = <<>> /\ named = {}
        /\ work = Idle
        /\ resetting = NoReset
        /\ crossed = FALSE /\ refused = FALSE

Up == anvil /\ built

To(step) == work' = [work EXCEPT !.step = step]

Listed(eid) == IF \E i \in DOMAIN known : known[i] = eid THEN known ELSE Append(known, eid)

-----------------------------------------------------------------------------
(* The worker.  A request that finds one running is answered "busy". *)

Begin(step) ==
  /\ work = Idle
  /\ work' = [step |-> step, eid |-> 0, session |-> NoSession]
  /\ crossed' = (crossed \/ resetting # NoReset)
  /\ UNCHANGED <<stackVars, chainVars, router, consoleVars, resetting, refused>>

\* An exception ends the action: a call on a stack that is not there, or one
\* that fails.  A session whose apply is on its way goes on.
Abort ==
  /\ work # Idle /\ work.step \notin {"start", "apply", "record", "choose"}
  /\ work' = Idle
  /\ UNCHANGED <<stackVars, chainVars, router, consoleVars, resetting, history>>

\* ensure_started, under the lock it shares with reset.  When a later part
\* fails, the console keeps what it has.
EnsureStarted ==
  /\ work.step = "start"
  /\ resetting = NoReset
  /\ IF anvil
     THEN To("negotiate") /\ UNCHANGED stackVars
     ELSE /\ stacks < MaxStacks
          /\ stacks' = stacks + 1
          /\ anvil' = TRUE
          /\ \/ built' = TRUE /\ To("negotiate")
             \/ UNCHANGED built /\ work' = Idle
  /\ UNCHANGED <<chainVars, router, consoleVars, resetting, history>>

\* Mutant: signed without a hold.
NegotiateFree ==
  /\ work.step = "negotiate" /\ Up
  /\ To("decide") \/ work' = Idle
  /\ UNCHANGED <<stackVars, chainVars, router, consoleVars, resetting, history>>

\* Bell's graph: a hold and a signed offer, or a Decline.
Negotiate ==
  /\ work.step = "negotiate" /\ Up
  /\ \/ held < Slots /\ held' = held + 1 /\ To("decide")
     \/ work' = Idle /\ UNCHANGED held
  /\ UNCHANGED <<stackVars, minted, revoked, seq, active, router, consoleVars, resetting, history>>

\* Ada declines: Bell's hold stays.
Decide ==
  /\ work.step = "decide"
  /\ To("settle") \/ work' = Idle
  /\ UNCHANGED <<stackVars, chainVars, router, consoleVars, resetting, history>>

Settle ==
  /\ work.step = "settle" /\ Up
  /\ minted < MaxTickets
  /\ minted' = minted + 1
  /\ known' = Listed(minted + 1)
  /\ work' = [work EXCEPT !.step = "activate", !.eid = minted + 1]
  /\ UNCHANGED <<stackVars, revoked, held, seq, active, router, named, resetting, history>>

\* controller.activate up to the network, or denied.
Activate ==
  /\ work.step = "activate" /\ Up
  /\ \/ /\ seq' = seq + 1
        /\ work' = [work EXCEPT !.step = "apply",
                      !.session = [eid |-> work.eid, seq |-> seq, stack |-> stacks]]
     \/ work' = Idle /\ UNCHANGED seq
  /\ UNCHANGED <<stackVars, minted, revoked, held, active, router, consoleVars, resetting, history>>

Without(s) == {r \in router : ~Same(r, s)}

\* The apply, by the controller the worker called, whether it is still the
\* console's or not.  One that fails is followed by a teardown.
Apply ==
  /\ work.step = "apply"
  /\ \/ /\ router' = Without(work.session) \cup {work.session}
        /\ active' = IF Up THEN active \cup {work.session} ELSE active
        /\ To("record")
        /\ UNCHANGED refused
     \/ /\ router' = Without(work.session) \/ router' = Without(work.session) \cup {work.session}
        /\ work' = Idle
        /\ refused' = TRUE
        /\ UNCHANGED active
  /\ UNCHANGED <<stackVars, minted, revoked, held, seq, consoleVars, resetting, crossed>>

\* sessions[eid] = session_id
Record ==
  /\ work.step = "record"
  /\ known' = Listed(work.eid)
  /\ named' = {s \in named : s.eid # work.eid} \cup {work.session}
  /\ work' = Idle
  /\ UNCHANGED <<stackVars, chainVars, router, resetting, history>>

\* The last one listed with a session.
Choose ==
  /\ work.step = "choose"
  /\ IF named = {}
     THEN work' = Idle
     ELSE \E s \in named :
            /\ \E i \in DOMAIN known :
                 known[i] = s.eid /\ \A t \in named : \A j \in DOMAIN known :
                                        known[j] = t.eid => j <= i
            /\ work' = [step |-> "revoke", eid |-> s.eid, session |-> s]
  /\ UNCHANGED <<stackVars, chainVars, router, consoleVars, resetting, history>>

\* A ticket this chain does not know reverts.
Revoke ==
  /\ work.step = "revoke" /\ Up
  /\ IF work.eid <= minted
     THEN revoked' = revoked \cup {work.eid} /\ To("handle")
     ELSE work' = Idle /\ UNCHANGED revoked
  /\ UNCHANGED <<stackVars, minted, held, seq, active, router, consoleVars, resetting, history>>

\* handle_revoked: the sessions of the ticket that are active end, whatever the
\* router says.
Handle ==
  LET ended == {s \in active : s.eid = work.eid}
  IN  /\ work.step = "handle" /\ Up
      /\ active' = active \ ended
      /\ \/ router' = {r \in router : \A s \in ended : ~Same(r, s)} /\ UNCHANGED refused
         \/ refused' = TRUE /\ UNCHANGED router
      /\ To("show")
      /\ UNCHANGED <<stackVars, minted, revoked, held, seq, consoleVars, resetting, crossed>>

\* _emit_teardown looks at the router and measures.
Show ==
  /\ work.step = "show" /\ Up
  /\ To("forget")
  /\ UNCHANGED <<stackVars, chainVars, router, consoleVars, resetting, history>>

\* Mutant: sessions keeps its entry.
ForgetNot ==
  /\ work.step = "forget"
  /\ To("release")
  /\ UNCHANGED <<stackVars, chainVars, router, consoleVars, resetting, history>>

\* sessions[eid] = None
Forget ==
  /\ work.step = "forget"
  /\ known' = Listed(work.eid)
  /\ named' = {s \in named : s.eid # work.eid}
  /\ To("release")
  /\ UNCHANGED <<stackVars, chainVars, router, resetting, history>>

Release ==
  /\ work.step = "release" /\ Up
  /\ held' = held - 1
  /\ work' = Idle
  /\ UNCHANGED <<stackVars, minted, revoked, seq, active, router, consoleVars, resetting, history>>

-----------------------------------------------------------------------------
(* Reset: under the lock of ensure_started, not under _busy. *)

\* Mutant: by the key, which is not what the config is named after.
ResetTearsByKey ==
  /\ resetting = NoReset
  /\ resetting' = Len(known)
  /\ crossed' = (crossed \/ work # Idle)
  /\ UNCHANGED <<stackVars, chainVars, router, consoleVars, work, refused>>

ResetTears ==
  /\ resetting = NoReset
  /\ resetting' = Len(known)
  /\ crossed' = (crossed \/ work # Idle)
  /\ \E kept \in SUBSET named :    \* the sessions the router refuses to remove
       IF built THEN /\ router' = {r \in router : \A s \in named \ kept : ~Same(r, s)}
                     /\ refused' = (refused \/ kept # {})
                ELSE UNCHANGED <<router, refused>>
  /\ UNCHANGED <<stackVars, chainVars, consoleVars, work>>

\* Mutant: sessions survives.
ResetClearsStack ==
  /\ resetting # NoReset
  /\ resetting' = NoReset
  /\ anvil' = FALSE /\ built' = FALSE
  /\ minted' = 0 /\ revoked' = {} /\ held' = 0 /\ seq' = 0 /\ active' = {}
  /\ UNCHANGED <<stacks, router, consoleVars, work, history>>

ResetClears ==
  /\ resetting # NoReset
  /\ resetting' = NoReset
  /\ anvil' = FALSE /\ built' = FALSE
  /\ minted' = 0 /\ revoked' = {} /\ held' = 0 /\ seq' = 0 /\ active' = {}
  /\ known' = <<>> /\ named' = {}
  /\ UNCHANGED <<stacks, router, work, history>>

\* The worker listed a ticket while reset went through sessions: the loop
\* raises and the rest of reset does not happen.
ResetBreaks ==
  /\ resetting # NoReset
  /\ Len(known) # resetting
  /\ resetting' = NoReset
  /\ UNCHANGED <<stackVars, chainVars, router, consoleVars, work, history>>

Provision == EnsureStarted \/ Negotiate \/ Decide \/ Settle \/ Activate \/ Apply \/ Record

RevokeAction == Choose \/ Revoke \/ Handle \/ Show \/ Forget \/ Release

Worker == Provision \/ RevokeAction \/ Abort

Next == \/ \E step \in {"start", "choose"} : Begin(step)
        \/ Worker
        \/ ResetTears \/ ResetClears \/ ResetBreaks

Spec == Init /\ [][Next]_vars

-----------------------------------------------------------------------------
(* Properties. *)

\* Every config on the router is one the console lists, or the worker is about
\* to list or has just been told to remove: nothing is left that neither
\* revoke nor reset will reach, and the next stack boots clean.  A reset beside
\* an action, or a router that refuses, does leave config behind.
RouterIsListed ==
  ~crossed /\ ~refused =>
    \A r \in router : \/ \E s \in named : Same(r, s)
                      \/ work # Idle /\ work.session = r

\* "one action at a time (a single operator, a single stack)": what the console
\* lists was started on the stack it has, unless a reset ran beside an action.
ListedAreCurrent ==
  ~crossed => \A s \in named : s.stack = stacks /\ s.eid <= minted

\* The ledger gave a slot away for every session the controller has active,
\* whatever failed or was reset: no path gives one back too early or twice.
PoolCovers == Cardinality(active) <= held
=============================================================================
