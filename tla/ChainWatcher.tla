---------------------------- MODULE ChainWatcher ----------------------------
(***************************************************************************)
(* ChainClient.watch_revoked and its polling thread: the block cursor that *)
(* decides which Revoked events a callback is handed.  The chain is the    *)
(* number of events up to each block, and an event is its number.  An RPC  *)
(* call may fail, a callback may be registered while events are handed     *)
(* out, the client may be closed, and the process may die.                 *)
(***************************************************************************)
EXTENDS Integers, Sequences, FiniteSets

CONSTANTS Watchers,   \* callbacks
          MaxBlocks,  \* bound on the chain
          MaxPerBlock,\* bound on the events of a block
          MaxCalls,   \* bound on the calls of watch_revoked, per process
          MaxCrashes  \* bound on the deaths of the process

ASSUME BoundsAssumption == /\ MaxBlocks \in Nat /\ MaxPerBlock \in Nat
                           /\ MaxCalls \in Nat /\ MaxCrashes \in Nat

Never == -1
Idle == [phase |-> "idle"]

VARIABLES chain,     \* chain[b]: events in blocks 1..b
          listening, \* _watch_callbacks, in the order of registration
          running,   \* _watcher is not None
          lastSeen,  \* _last_seen
          poll,      \* where the thread is
          stopped,   \* _stop is set
          crashes,
          since,     \* history: head when watch_revoked(w) returned
          handed,    \* history: the events w was called with by this process
          owed       \* history: <<w, e>> in hand when a process died

vars == <<chain, listening, running, lastSeen, poll, stopped, crashes, since, handed, owed>>
history == <<since, handed, owed>>

Height == Len(chain)
UpTo(b) == IF b = 0 THEN 0 ELSE chain[b]

TypeOK ==
  /\ chain \in Seq(Nat) /\ Height <= MaxBlocks
  /\ listening \in Seq(Watchers) /\ Len(listening) <= MaxCalls
  /\ running \in BOOLEAN /\ stopped \in BOOLEAN
  /\ lastSeen \in 0..Height
  /\ poll \in {Idle} \cup [phase : {"logs"}, head : 1..Height]
             \cup [phase : {"deliver"}, head : 1..Height, event : Nat \ {0}, who : Nat \ {0}]
  /\ crashes \in 0..MaxCrashes
  /\ since \in [Watchers -> Nat \cup {Never}]
  /\ handed \in [Watchers -> Seq(Nat)]
  /\ owed \subseteq Watchers \X Nat

Init == /\ chain = <<>>
        /\ listening = <<>>
        /\ running = FALSE
        /\ lastSeen = 0
        /\ poll = Idle
        /\ stopped = FALSE
        /\ crashes = 0
        /\ since = [w \in Watchers |-> Never]
        /\ handed = [w \in Watchers |-> <<>>]
        /\ owed = {}

\* A block with n Revoked events.
Mine(n) ==
  /\ Height < MaxBlocks
  /\ chain' = Append(chain, UpTo(Height) + n)
  /\ UNCHANGED <<listening, running, lastSeen, poll, stopped, crashes, history>>

\* Mutant: the baseline is the block to come.
RegisterAhead(w) ==
  /\ ~stopped
  /\ Len(listening) < MaxCalls
  /\ listening' = Append(listening, w)
  /\ running' = TRUE
  /\ lastSeen' = IF running THEN lastSeen ELSE Height + 1
  /\ since' = [since EXCEPT ![w] = IF @ = Never THEN Height ELSE @]
  /\ UNCHANGED <<chain, poll, stopped, crashes, handed, owed>>

\* watch_revoked: the first call reads the baseline and starts the thread.
Register(w) ==
  /\ ~stopped
  /\ Len(listening) < MaxCalls
  /\ listening' = Append(listening, w)
  /\ running' = TRUE
  /\ lastSeen' = IF running THEN lastSeen ELSE Height
  /\ since' = [since EXCEPT ![w] = IF @ = Never THEN Height ELSE @]
  /\ UNCHANGED <<chain, poll, stopped, crashes, handed, owed>>

\* The baseline cannot be read: the call raises, its callback stays listed.
RegisterFails(w) ==
  /\ ~stopped /\ ~running
  /\ Len(listening) < MaxCalls
  /\ listening' = Append(listening, w)
  /\ UNCHANGED <<chain, running, lastSeen, poll, stopped, crashes, history>>

\* Mutant: the poll waits for a second block.
ReadHeadLate ==
  /\ running /\ ~stopped
  /\ poll = Idle
  /\ Height > lastSeen + 1
  /\ poll' = [phase |-> "logs", head |-> Height]
  /\ UNCHANGED <<chain, listening, running, lastSeen, stopped, crashes, history>>

\* The thread looks at _stop only between two polls.
ReadHead ==
  /\ running /\ ~stopped
  /\ poll = Idle
  /\ Height > lastSeen
  /\ poll' = [phase |-> "logs", head |-> Height]
  /\ UNCHANGED <<chain, listening, running, lastSeen, stopped, crashes, history>>

\* Mutant: from_block is the block that was seen last.
GetLogsInclusive ==
  /\ poll.phase = "logs"
  /\ poll' = [phase |-> "deliver", head |-> poll.head, who |-> 1,
              event |-> UpTo(IF lastSeen = 0 THEN 0 ELSE lastSeen - 1) + 1]
  /\ UNCHANGED <<chain, listening, running, lastSeen, stopped, crashes, history>>

\* get_logs from lastSeen + 1 to the head that was read.
GetLogs ==
  /\ poll.phase = "logs"
  /\ poll' = [phase |-> "deliver", head |-> poll.head, who |-> 1,
              event |-> UpTo(lastSeen) + 1]
  /\ UNCHANGED <<chain, listening, running, lastSeen, stopped, crashes, history>>

\* Mutant: the cursor moves although nothing was read.
GetLogsSkips ==
  /\ poll.phase = "logs"
  /\ poll' = Idle
  /\ lastSeen' = poll.head
  /\ UNCHANGED <<chain, listening, running, stopped, crashes, history>>

\* The RPC fails: the same range again at the next tick.
GetLogsFails ==
  /\ poll.phase = "logs"
  /\ poll' = Idle
  /\ UNCHANGED <<chain, listening, running, lastSeen, stopped, crashes, history>>

Delivering == poll.phase = "deliver" /\ poll.event <= UpTo(poll.head)

\* One callback is called; whether it raises makes no difference.
Hand ==
  /\ Delivering
  /\ poll.who <= Len(listening)
  /\ LET w == listening[poll.who]
     IN  /\ handed' = [handed EXCEPT ![w] = Append(@, poll.event)]
         /\ owed' = owed \ {<<w, poll.event>>}
  /\ poll' = [poll EXCEPT !.who = @ + 1]
  /\ UNCHANGED <<chain, listening, running, lastSeen, stopped, crashes, since>>

\* The list is exhausted, with what was added to it meanwhile.
NextEvent ==
  /\ Delivering
  /\ poll.who > Len(listening)
  /\ poll' = [poll EXCEPT !.event = @ + 1, !.who = 1]
  /\ UNCHANGED <<chain, listening, running, lastSeen, stopped, crashes, history>>

\* Only now the cursor moves.
Done ==
  /\ poll.phase = "deliver" /\ ~Delivering
  /\ lastSeen' = poll.head
  /\ poll' = Idle
  /\ UNCHANGED <<chain, listening, running, stopped, crashes, history>>

Close ==
  /\ ~stopped
  /\ stopped' = TRUE
  /\ UNCHANGED <<chain, listening, running, lastSeen, poll, crashes, history>>

InHand ==
  {<<listening[i], e>> : i \in DOMAIN listening, e \in poll.event..UpTo(poll.head)}
    \ {<<listening[i], poll.event>> : i \in 1..(poll.who - 1)}

\* The process dies; the next one starts with a new client.
Crash ==
  /\ running
  /\ crashes < MaxCrashes
  /\ crashes' = crashes + 1
  /\ owed' = IF Delivering THEN owed \cup InHand ELSE owed
  /\ listening' = <<>>
  /\ running' = FALSE
  /\ lastSeen' = 0
  /\ poll' = Idle
  /\ stopped' = FALSE
  /\ since' = [w \in Watchers |-> Never]
  /\ handed' = [w \in Watchers |-> <<>>]
  /\ UNCHANGED chain

Deliver == Hand \/ NextEvent \/ Done

Next == \/ \E n \in 0..MaxPerBlock : Mine(n)
        \/ \E w \in Watchers : Register(w) \/ RegisterFails(w)
        \/ ReadHead \/ GetLogs \/ GetLogsFails
        \/ Deliver
        \/ Close
        \/ Crash

Spec == Init /\ [][Next]_vars

\* The thread keeps running, and the RPC does not fail for ever.
FairSpec == Spec /\ WF_vars(ReadHead) /\ SF_vars(GetLogs) /\ WF_vars(Deliver)

-----------------------------------------------------------------------------
(* Properties. *)

Given(w) == {handed[w][i] : i \in DOMAIN handed[w]}

\* "Deliver every Revoked(id) after this call": what the cursor has passed was
\* handed to every callback whose registration it came after, whatever call
\* failed and whoever registered while events were handed out.
NothingSkipped ==
  \A w \in Watchers : since[w] # Never =>
    \A e \in (UpTo(since[w]) + 1)..UpTo(lastSeen) : e \in Given(w)

\* A callback that is listed once is called with the events in the order of
\* the chain, and with none of them twice: a failed poll starts over before
\* anything was handed out.
ListedOnce(w) ==
  \A i, j \in DOMAIN listening : listening[i] = w /\ listening[j] = w => i = j

OnceInOrder ==
  \A w \in Watchers : ListedOnce(w) =>
    \A i, j \in DOMAIN handed[w] : i < j => handed[w][i] < handed[w][j]

\* A revocation mined after a callback was registered reaches it, unless the
\* client is closed or its process dies.
Due(w, e) == since[w] # Never /\ UpTo(since[w]) < e /\ e <= UpTo(Height)

EveryRevocationArrives ==
  \A w \in Watchers, e \in 1..(MaxBlocks * MaxPerBlock) :
    Due(w, e) ~> (stopped \/ since[w] = Never \/ e \in Given(w))

\* What the docstring says of a crash: an event that was in hand is handed out
\* again by the next process before its cursor is past it.
CrashRedelivers ==
  \A p \in owed : since[p[1]] # Never => p[2] > UpTo(lastSeen)
=============================================================================
