# Verification of a2a-tokenized-provisioning

A provider signs an offer for a network service (bandwidth or telemetry) over a time
window. A consumer redeems it on chain and receives a ticket, an ERC-721 entitlement. A
controller that holds no key turns the ticket into router configuration for as long as
the chain says the ticket is valid. This directory holds TLA+ models of that program,
the TLC runs that check them and the proofs TLAPS checks.

## 1. The system

| Component | State it keeps | Operations | Talks to |
|---|---|---|---|
| Controller service (`controller/service.py`, `auth.py`, `app.py`, `wiring.py`) | sessions by id, `_seq`, open nonces; all in memory | challenge, activate, teardown, `tick`, `handle_revoked` | reads the chain, drives the network, no locks |
| Controller domain (`controller/domain.py`) | none | activation predicate, session state machine | called by the service |
| Resource map, translators | a table loaded once | `translate` | called by the service |
| Settlement contract, MockTOK (`contracts/src`) | tickets, consumed offers, last id; balances, allowances | fulfill, revoke, transfer, approve, faucet | calls the payment token |
| Chain client (`chainmcp`) | block cursor and callbacks of the watch loop | reads, watch, sign, approve and fulfill, revoke | RPC to the chain, calls the service back |
| gNMI provisioner (`netctl`) | cached connections; the state is on the routers | apply bandwidth, apply telemetry, teardown | routers |
| Provider agent (`agents/provider_graph.py`) | capacity holds per window, under a lock | admit, quote, release | signs offers, reads chain time |
| Consumer agent, MCP tools, A2A adapter | the progress of one purchase | request an offer, settle, activate | provider, chain, controller |
| Operator console (`e2e/dashboard`) | one demonstration stack, one-action lock | provision, revoke, reset | all of the above in one process |
| Skeleton, stub controller, bring-up, experiments | test doubles; child processes | - | - |

What makes it hard is at the seams. The controller reads the ticket, its owner and the
time in three RPCs, calls the network, and writes its record afterwards; the chain, the
`Revoked` callback, the expiry timer and FastAPI's pool threads move in between. The
network call can fail after having worked. The contract calls a token it does not know in
the middle of a sale. A purchase is two transactions. A teardown reads three parts of a
router's config and deletes what it found. The capacity ledger has locks per call and
none around a quote. A restart forgets every session while its config stays.

## 2. Modules

| Module | What it is |
|---|---|
| `Domain` | `predicate` and `transition` of `controller/domain.py` |
| `EntitlementChain` | the chain as `EntitlementReader` shows it: the abstract specification of the contract |
| `Controller` | the controller service and its threads, over `EntitlementChain` and the network port |
| `Settlement` | the contract and its payment token, with reentrant calls and reverts |
| `Purchase` | consumers buying: the graph and `approve_and_fulfill`, over `Settlement` |
| `CapacityLedger` | the provider's graph with its ledger |
| `NetPort` | the promise of the network port, as `MockProvisioner` keeps it: the abstract specification of the provisioner |
| `Netctl` | `GnmiProvisioner` and the routers |
| `ChainWatcher` | `watch_revoked` and its polling thread |
| `Console` | the operator console |
| `ControllerInv` | the strengthenings the controller's proofs use |
| `MC*` | values of the constants and symmetry sets for TLC |
| `*Proofs` | the proofs |

`Controller` extends `EntitlementChain` and `Domain`, so the chain's actions interleave
with the controller's; `Purchase` extends `Settlement` in the same way. `Settlement`
implements `EntitlementChain` and `Netctl` implements `NetPort`: the controller is
checked against two interfaces that their implementations are shown to keep. Of the port
`Controller` uses that a call takes effect at one moment between its call and its
answer, for names it has used before too, since they start over after a restart.
Definitions commented `Mutant` are the bugs each property was tried against. They stand
before the definition they mutate and no specification uses them. Fields and variables
commented `history` are read by no action.

### Controller

| Model | Code |
|---|---|
| `tickets`, `time` | the contract's `entitlements` and owners; the latest block's timestamp |
| `open` | `AuthStore._open` |
| `sessions`, `seq` | `ControllerService._sessions`, `_seq` |
| `net` | the session ids whose config is on the routers (config is found by name) |
| `undelivered` | `Revoked` logs after `_last_seen` that the watcher has not taken |
| `pc`, `frame` | each thread's position and locals |

A thread takes one step per access to something another thread or the chain can change:

| Handler | Steps |
|---|---|
| `challenge` | `BeginChallenge` (get), `ReadTime`, `IssueChallenge` |
| `activate` | `BeginActivate` (get), `ReadOwner`, `ReadTime`, `Verify`, `Admit` (scan, predicate, id, translate), `Apply`, then `Record`, or `Undo` and `RecordFailed` |
| `teardown_requested` | `BeginTeardown` (lookup), `ReadOwner`, `ReadTime`, `Verify`, `TearDownNet`, `Mark` |
| `tick` | `Wake` (chain time), `List`, for each ripe session `Visit`, `TearDownNet`, `Mark`; `EndRound` |
| `handle_revoked` | `Deliver` (get), `List`, and as above; `DeliveryFails` when the callback raises |

Data of a request (nonce, signer, verb, action kind) are bound when the code first looks
at them. A request refused, or failed on a read, before it changed anything is no step:
what it leaves is what was there. The scan, the predicate and lines 97-98 (`session_id`,
`_seq`) are one step, `Admit`; other threads may run between the scan and line 97, but
taking a number commutes with everything they do. That reading the number (97) and
raising it (98) are one step rests on the interpreter: CPython 3.12 switches threads at
calls, function entries and backward jumps, of which there is none between the two. The
model does not try a switch there. Signatures are the signer's name and the verb signed
for. `mapped` stands for "the resource map has this resource as the kind the service
needs"; when it does not, `translate` refuses and leaves a spent sequence number. An RPC
that fails in the timer is tried again at the next poll, in `handle_revoked` it loses
the event. A restart starts the watcher at the chain's head. `undelivered` is a set, a
coarser order than the log's; `ChainWatcher` has the order. The `RuntimeError` that the
scan at `service.py:90` may raise when another thread inserts a session looks to the
state like a refusal.

`Daemons` says which background threads run. `wiring.build_runtime` with `start_watchers`
starts both. `e2e/controller_server.py:28` starts neither: in that process nothing ends a
session by itself, and neither trigger of `docs/03-interfaces.md:254` exists. The console
has one caller at a time and calls `handle_revoked` itself, which is one of the orders
the watcher's steps can take.

### Settlement and Purchase

`balance`, `allowance` are MockTOK's; `consumed`, `entitlements` the contract's
(`_lastId` is the length); `signed` is which offers the provider signed. A call that
fails a check reverts and is no step. TOK is an ordinary ERC-20, so `Fulfill` with it is
one step. `TransferTok` is every other way TOK moves: `transfer`, and `transferFrom` by
a spender that is not the contract; since the allowances of other spenders are not kept,
any of them may take any amount. `funded` is the history of what an account got and sent
apart from payments for tickets. `Transfer` of a ticket is by its owner or whom he
approved. An offer may name any token contract: `CallToken` runs `fulfill` up to
`safeTransferFrom` and pushes a frame, the token may then call `fulfill`, `revoke`,
`approve`, `transferFrom`, `transfer` or `faucet`, and `TokenReturns` mints or
`TokenReverts` restores what the frame saved. `Committed` is what the rest of the world
sees, the state between transactions.

`Purchase` adds per consumer the step of its graph (`Request`, `Decide`, `SendApprove`,
`SendFulfill`, `Refuse`, `SendWithdraw`, `Proceed`, `Activate`), its transactions that
are not mined (`pool`, mined in the order of the account's nonces by `Mine`), and the
receipt it waits for. `Fault` is an RPC error or a receipt that does not come in time:
what was sent may still be mined. The estimate and the mining judge by the same
`WouldPass` at different times. Beside the clients (`PurchaseNext`) consumers get and
spend TOK, tickets are sold on among them and revoked, and blocks pass. The
deterministic decide slot compares whole TOK, a language model (`Judged`) may say
anything. The account's transactions are one purchase's at a time, as in every
deployment here.

### CapacityLedger

One window; a hold of n units is n slots `<<r, k>>`, and `turn` is its place in the list.
`Refuse`, `Reserve`, `Sign`, `HoldUntil`, `DeclineQuote`, `Raise` are the provider's graph;
each ends with the sweep the code does on every read. `Reserve` reads the clock twice, for
the sweep and for the stamp. `release` takes the oldest units, `hold_until` re-stamps the
latest hold of the same size, whoever they belong to. A ledger has a clock or not for
good (`clocked`); the code that runs (`e2e/experiments.py`, `orchestrator.py:145`) builds
it without.

### NetPort and Netctl

`NetPort` is the set `applied` of configured sessions, and per caller the teardown it waits
for (`call`). Any name may be applied at any time, before, during and after a teardown of
it, as in `MockProvisioner`. `Remove` is the effect of a teardown; `Succeed` answers ok if
the session is removed with the answer or had no config at some moment since the call
(`clear`); `Fail` promises nothing. `told` is who was last told ok, and of what.

In `Netctl`, `config` is per device the nodes with a session's name on them: policer
template and attachment, or destination and tunnel. An attachment's key is the interface,
so two sessions on one interface share it. `Apply` is one Set on one device, of any session
at any time. A teardown (`job`) is, device by device, `ReadAttachments`, `ReadTemplates`,
`ReadTunnels` and then `Finish`, one Set with what was found; `Fail` at any of them ends
it, and the Set may have been applied. `Fail` also stands for the death of the caller, since
what it knew dies with it. `Refused` is the router's leafref check. `live`, `told`, `again`
and `clear` are history: sessions applied and not asked to go, the last ok of each thread,
threads whose session was applied since they called, and `NetPort`'s `clear`.

`Plan` gives a name one place in the network for good. The name holds the ticket's id and a
ticket's terms never change, so a name that is used again after a restart of the controller
means the same place. A console that rebuilds its chain gives old names new terms; that is
in `Console`, where the router stays, and not here. A Set that reaches the router after its
sender has died is not modelled either.

### ChainWatcher

The chain is the number of `Revoked` events up to each block, and an event is its number.
`lastSeen`, `listening`, `running`, `stopped` are `_last_seen`, `_watch_callbacks`,
`_watcher`, `_stop`. A poll is `ReadHead`, `GetLogs` (or `GetLogsFails`), then per event
and callback `Hand`, `NextEvent`, and `Done`, where the cursor moves. `Register` may run
at any point of a poll; `RegisterFails` leaves its callback listed, as `client.py:172`
does. A callback that raises is a `Hand` like any other (`client.py:193`).

### Console

The worker's steps are those of `provision` and `revoke`, each a call that can fail
(`Abort`). `reset` runs beside it, in two steps: the teardowns by session name, then the
clearing. `router` survives a reset, ids and session names do not. `held` counts the
ledger's slots. A build that fails half-way leaves the chain up and the rest missing.

## 3. Properties and runs

| Property | Says |
|---|---|
| *Controller* | |
| `NoDoubleBooking` | a ticket backs at most one live session |
| `NonceAuthorisesOnce` | a nonce gets one request through and is then out of the table |
| `StandsOnItsTicket` | a session was admitted with a challenge of its own ticket that was not stale, inside the window it expires under |
| `NoOrphanConfig` | config exists only for a live session or a request at work on it |
| `ActiveIsConfigured` | an active session has its config, or is being ended |
| `RevocationMissesOnlyLateSessions` | after its revocation was dealt with, a ticket has a live session only if the request had read it before and recorded after |
| `EndsOnlyForCause` | expiry, revocation or the owner's signed teardown, nothing else, ends a session |
| `EndedStaysEnded` | the record of an ended session never changes |
| `SessionsEnd` | every live session ends |
| `RevocationEnforced` | the published promise about revocations; the code does not keep it |
| *Settlement* | |
| `SoldOnce` | an offer is consumed exactly when one ticket was minted for it, or its payment is under way |
| `PaidIffMinted` | every account's balance is what it got from the faucet and from others less what it sent, plus what its tickets sold for, less what it bought |
| `PromisesKept` | what was seen of a ticket stays: issuer, terms, revocation |
| `ImplementsChain` | the contract implements `EntitlementChain` |
| *Purchase* | |
| `NoStandingAllowance` | a purchase that is over leaves no allowance, unless an answer was lost |
| `TicketsAreKnown` | every ticket paid for is one the client returned, unless an answer was lost |
| `PurchasesEnd` | a purchase that was begun ends |
| *CapacityLedger* | |
| `WithinCapacity` | the ledger never books more than the pool |
| `PromisesFit` | the offers that can still be redeemed fit into the pool |
| `BooksBalance` | without a clock, what is booked is what was admitted and not given back |
| *Netctl* | |
| `OkMeansGone` | a teardown that answered ok left nothing of its session on any device, until the name is applied again |
| `NeverRefused` | the router never refuses a teardown's Set for a reference, unless the session was applied since the call |
| `OwnConfigOnly` | a teardown removes its own session's nodes only, where no interface is shared |
| `LiveIsShaped` | a session that was applied keeps its policer or export until its teardown |
| `ExportsAreReal` | every export the readout lists has its tunnel |
| `ImplementsPort` | the adapter implements `NetPort`: an ok had a moment during the call when nothing of the session was left, and config goes only by a teardown of its session |
| *ChainWatcher* | |
| `NothingSkipped` | what the cursor has passed was handed to every callback registered before |
| `OnceInOrder` | a callback listed once gets the events in order and none twice |
| `EveryRevocationArrives` | a revocation reaches every callback registered before it, unless the client is closed or dies |
| `CrashRedelivers` | the docstring's promise about a crash; the code does not keep it |
| *Console* | |
| `RouterIsListed` | every config on the router is one the console can still reach |
| `ListedAreCurrent` | what the console lists belongs to the stack it has |
| `PoolCovers` | the ledger has given a slot for every active session |

| Run | Instance | Shows |
|---|---|---|
| `ControllerThreads` | 2 request threads, both daemons, 1 agent, window [0,1), 2 nonces, apply may fail | what does not depend on requests coming one at a time |
| `ControllerTickets` | 2 tickets of three kinds (valid, unmapped, undecodable), 2 agents, window [1,2), time to 2, watcher only | nothing crosses tickets or owners |
| `ControllerRestart` | 1 caller, all failures, restarts, `FairSpec` | what survives forgetting everything; sessions end |
| `ControllerDoubleBooking` | 2 request threads | violation of `NoDoubleBooking` |
| `ControllerRevokeRace` | 1 caller, both daemons | violation of `RevocationEnforced` |
| `Settlement` | 2 accounts, 1 offer in TOK, 2 in a token that calls back, depth 2, TOK transfers at any point | one sale per offer and its price with it, under reentrancy and rollback |
| `Purchase` | 2 buyers (one judged by a model), 3 purchases, money for two, 3 offers, every fault, TOK and tickets passed on | the clean-up, and the chain the controller sees |
| `Capacity` | 4 requests of 1, 1, 2, 2 units, pool of 3, both ledgers | no overselling |
| `Netctl` | 4 sessions, two on one interface, 2 routers, 2 teardown threads, every failure, names applied again at any time | the adapter keeps the port's promise |
| `Watcher` | 2 callbacks, 2 blocks of up to 2 events, 3 registrations, a crash, a close | the cursor |
| `WatcherCrash` | the same, smaller | violation of `CrashRedelivers` |
| `Console` | 2 slots, 3 tickets, 3 stacks | what a reset, a failure and a rebuilt stack leave |

**Bounds.** No state constraint is used: every bound is a constant in a guard.
Controller: two nonces give a first session and a second attempt, a replay, or a
teardown by proof; time reaches the end of the window in every run, and begins before
the window in all but `ControllerThreads` and `ControllerRestart`; `NonceTTL` of
`ControllerTickets` is 0, so a challenge drawn before the window is stale inside it, and
one drawn inside is good at the last instant it may be; two threads are enough for each
race here, all of which are between one request and one other actor. Settlement: depth 2
has a callback inside a callback of another offer, with the inner or outer one
reverting; the supply of one unit makes an account short, and a unit passed on makes the
other one rich. Purchase: ada buys twice, so that what one purchase left is there for
the next; the offers run out at different times and the supply (4 units, `Unit` 2) does
not pay for all; between transactions a consumer may spend TOK elsewhere and sell a
ticket on to another consumer. Capacity: sizes 1 and 2 in a pool of 3 give same-size
matches, left-overs of released holds and a full pool; three requests at once meet in
every order. Netctl: two devices have a first and a last in the loop, and a sharing pair
besides two sessions alone; applies have no bound. Watcher: a second registration meets
a poll at every point of it, a third one lists a callback twice. Console: three stacks
let a session name of the first return in the third. The theorems of section 4 remove
the bounds for the safety properties, some under a condition named there.

**Fairness.** `FairSpec` of `Controller` assumes that blocks keep coming (`Advance`) and
that the timer thread keeps running (`TimerStep`; `ExpiryTimer._run` catches every
exception and polls again). The second includes that each call the timer makes, to the
chain or a router, comes back at some time, with success or without: a call that hangs
for ever stops the one timer thread. Nothing else is assumed of the network, and nothing
of requests or of the watcher. `FairSpec` of `ChainWatcher` assumes that the thread runs
on (weak fairness of `ReadHead` and `Deliver`) and that the RPC does not fail for ever
(strong fairness of `GetLogs`, since each failure disables it until the next poll).
`FairPurchases` assumes that a client that was started runs on and that what was sent is
mined; a client that waits for ever is ended by its own timeout (`Fault`), of which
nothing is assumed.

**Deadlock** is checked where the system never stops (all controller runs, `Settlement`,
`Netctl`). `Capacity`, `Purchase`, `Watcher`, `WatcherCrash` and `Console` really end:
every request is answered, the rounds are used up, the client is closed, the last stack is
reset.

### What the violations say

* *Double booking.* The conflict check and the record are a network call apart and no
  lock spans them. `docs/05-controller-spec.md:34` promises no double booking and
  `provisioner.py:46` says the controller serializes.
* *Revocation race.* An activation that read the ticket before `Revoked` and records
  after the handler ran is live on a revoked ticket until it expires.
  `RevocationMissesOnlyLateSessions` shows this is the only way in, `SessionsEnd` that
  it ends.
* *Crash of the watcher.* The cursor is in memory and the next process starts at the
  head, so what was in hand is not delivered again, against `client.py:163-165`.

### Known limits of the code

The properties above are stated with the conditions under which the code keeps them.
Where a comment or a document says more, this is what the models show:

* `provider_graph.py:108` says the hold comes back "exactly when the offer the buyer holds
  goes stale". With a clock and several quotes of one size in the works, `hold_until`
  (`:111`) stamps the latest one, not the offer's own. `Capacity` therefore gives the
  clocked ledger one request at a time.
* `release` (`:116`) gives back the oldest units, which may back an offer in a buyer's
  hands; the newer hold they were exchanged for runs out earlier. Hence the condition on
  declines in `PromisesFit` when the ledger has a clock.
* A judgment slower than `QUOTE_HOLD_S` signs an offer whose hold is gone (`:199`), against
  `:57-59`. `AnswerWithin` bounds the answer.
* `provisioner.py:159` says teardown removes "everything named after this session, on
  every device we know". The attachment of a session whose interface another session took
  over is not named after it any more, and `apply_bandwidth` (`:88`) replaced it without a
  word: `Alone` in `LiveIsShaped` and `OwnConfigOnly`. Two tickets for one resource are
  allowed by design (`docs/09-evaluation.md:202`).
* A failed teardown is recorded as done (`service.py:109`, `:169`, against the comment at
  `:108`) and nothing tries again: `NoOrphanConfig` needs a network that removes.
* A buyer whose receipt does not come (`client.py:305`) ends with a transport error while
  its `fulfill` may be mined: a paid ticket it never hears of. `TicketsAreKnown` and
  `NoStandingAllowance` exempt a buyer that lost an answer; `PurchasesEnd` does not.
* The budget is compared in whole TOK, rounded down (`consumer_graph.py:63`): a price of
  less than one TOK above the budget is accepted.
* A reset beside an action leaves config that no list has, against "the next run boots
  clean" (`docs/08-demo-dashboard.md:218`); `RouterIsListed` says `~crossed`. A build that
  failed half-way is taken for a whole stack by the next action
  (`orchestrator.py:119`).
* The console starts no watcher; the comment at `orchestrator.py:298` speaks of one.

## 4. Proofs

TLAPS checks these for every value of the constants that satisfies the named `ASSUME`s.

| Theorem | Under | Inductive invariant |
|---|---|---|
| *Controller* | | |
| `ControllerProofs!TypeCorrect` | - | `TypeInv` |
| `SerialBooking` | one worker (`Serialized`) | `TypeInv`, `AdmittedAlone`, `NoDoubleBooking` |
| `EndedForGood` | no restart | `TypeInv`, `SidsApart` |
| `ActiveOnRouters` | - | `TypeInv`, `SidsApart`, `AppliedIsConfigured`, `ActiveIsConfigured` |
| `NothingLeftBehind` | no restart, teardown succeeds | `TypeInv`, `SidsApart`, `MarkedIsRemoved`, `NoOrphanConfig` |
| `NonceOnce` | - | `TypeInv`, `NonceAuthorisesOnce`, `NoncesIssued` |
| `TermsFromChain` | - | `TypeInv`, `TicketInv` |
| `NoOtherCause` | no restart | `TypeInv`, `SidsApart`, `TicketInv`, `DaemonsKnow` |
| `OnlyLateSessionsSlipThrough` | the watcher runs, callbacks do not fail (`Heard`) | `TypeInv`, `TicketInv`, `Tracked` |
| *Settlement* | | |
| `SettlementProofs!TypeCorrect` | - | `TypeOK` |
| `OneTicketPerOffer` | - | `SoldInv` |
| `PaymentIsMint` | - | `TypeOK`, `SoldInv`, `PaidInv` |
| `TermsAreForGood` | - | `KeptInv` |
| `ContractImplementsChain` | offers in TOK only (`TokOnly`) | `TypeOK`, `SoldInv` |
| *Purchase* | | |
| `PurchaseTypes` | - | `BuyInv` |
| `PurchasesUseContract`, `PurchasesImplementChain` | - | `BuyInv`, `SoldInv`, no frame is open |
| `NothingIsLeft`, `ClientsKnowTheirTickets` | - | `ClientInv` |
| *CapacityLedger* | | |
| `CapacityProofs!TypeCorrect`, `NeverOverbooked` | - | `TypeOK`, `WithinCapacity` |
| `NothingIsLost`, `NoOverselling` | no clock | `TypeOK`, `BooksBalance` |
| *Netctl* | | |
| `NetctlProofs!TypeCorrect` | - | `IInv` |
| `TeardownsGoThrough`, `TeardownIsOwn` | - | `IInv` |
| `GoneIsGone`, `AdapterImplementsPort` | - | `PortInv` |
| `ExportsAreDialled` | - | `PortInv`, `Dialled`, `AllPaired` |
| `LiveKeepsItsShape` | - | `IInv`, `NotLive`, `LiveIsShaped` |
| *ChainWatcher* | | |
| `WatcherProofs!TypeCorrect`, `CursorSkipsNothing` | - | `PollInv`, `GivenInv` |
| `OneInOrder` | - | `PollInv`, `OrderInv` |
| *Console* | | |
| `ConsoleTypes`, `SlotsCoverSessions` | - | `ConsoleInv` |
| `OneActionAtATime`, `NothingIsStranded` | - | `ConsoleInv` |

*Controller.* `TypeOK` is not inductive: a thread at `record` uses a session id that some
earlier step must have set. `TypeInv` adds what each label knows of its frame (`FramesOK`)
and that a recorded session is active, torn down or failed, so that a teardown never meets
a pair the state machine does not draw. `SidsApart` is the heart of the session theorems:
every id in use is below `_seq`, and a request in flight shares its id with no record and
no other request. `ControllerProofs` splits the steps into quiet ones, which leave records,
routers and busy threads alone, and the few others, and shows each invariant for those.
`AdmittedAlone` (an admitted request still finds no live session) is what a second
thread breaks. `NonceOnce` needs that only issued nonces are about, so that a fresh one
has no spender; nonces being drawn fresh (16 random bytes) is the model's assumption.
`TicketProofs` is about what a thread learnt and uses later. It works because the chain
only gains tickets and flags and the table of issued challenges only gains entries
(`TicketsGrow`, `GroundGrows`): what `Knows` says of a request at each label (the challenge
it found, the ticket it read, the checks it passed) stays true while others move.
`DaemonKnows` is the same of a pass of the timer, the watcher or a teardown call. `Tracked`
follows a revocation: as long as a session that should end is active, its event is
undelivered or the watcher has it in hand with the session still on its list (`Pending`);
a session recorded later than that was admitted on a view read before the revocation.

*Settlement.* A revert may go back to any frame's saved state, so the books must have
been in order there too: `SavedBooks` says so of each frame, with the offers of the
frames below it as the ones being paid. `KeptInv` says that every saved ticket list is
kept by the next one up to the current one, so that a rollback of any depth is a step
back to something that was already promised. The refinement to `EntitlementChain` needs
`TokOnly`: with a token that calls back, one transaction may mint two tickets, which the
abstract chain does in two steps. `PaymentIsMint` carries the balances through the same
stack: `SavedPaid` says that the books balanced in every state a revert may go back to.
TOK that moves outside a sale moves `funded` with it, and a revert takes both back. Its
sums over a set of tickets are a recursive function on the subsets of that set. What the
proof needs of it (it exists, adds one element at a time, and depends only on what it
adds) is shown by taking a smallest counterexample among the subsets of a finite set
(`Smallest`), which the library's theorem on the well-founded order of finite subsets
provides.

*Purchase.* A client's steps are quiet for the contract or one of its calls
(`PurchasesUseContract`), so every theorem about `Settlement` holds under it. Clients
open no frame, since none of them is a token; that is why `PurchasesImplementChain` does
without `TokOnly`. The two properties of a purchase are about who holds which knowledge
when. As long as no answer was lost, a client has at most the one transaction in the pool
that it waits for (`InOrder`), and its allowance is determined by its step (`Left`).
`WaitsForLast` is kept after a lost answer too: a receipt for `fulfill` is never that of
another call, so `won` never exceeds the tickets (`Counted`). The mining of one client's
transaction leaves the allowance and the tickets of the others alone.

*CapacityLedger.* The arithmetic is of finite sets: a release takes exactly
`Min({n, Cardinality(Swept)})` slots, a reservation adds `Demand[r]` fresh ones.
`NoOverselling` follows because without a clock what is out on offer is part of what is
booked.

*Netctl.* `AllSwept` says what a teardown thread has established, as long as its session
was not applied since it called (`again`): on the current device its list has every node of
the kinds it has read. With the order of the delete list no router refuses then. A thread
whose session was applied meanwhile may answer ok just the same, and what it may claim is
`ClearInv`: that the session had no config at some moment of the call. It goes by one node,
the policer template or the export destination (`Root`), which the others refer to. `Backed`
(what a node refers to is there) makes it the last to go, so where it was not found there
was nothing, and where it is deleted there is nothing after the Set; where two sessions
share an interface, an overwritten attachment leaves its template behind, so the session
still counts as configured. A thread that has passed its session's device, or has read there
and not found the root, is clear. `PortInv` is these with `OkMeansGone`. `Dialled` is
`Backed` the other way, for exports: a destination has its tunnel. It holds because tunnel
and destination are read at once, so that no list has the tunnel alone (`AllPaired`).
`NotLive` (who has a teardown at work is not live) makes what a teardown deletes someone
else's than a live session's, or shared (`DeletedOwn`); what an apply overwrites is at a
path of its own, or shared (`SamePath`).

*ChainWatcher.* `PollInv` bounds the poll by the chain (a head that was read is never ahead
of it), `GivenInv` splits the events into those behind the cursor, those of the poll before
the one in hand, and the one in hand, which the callbacks before `who` have.

*Console.* `PoolCovers` alone is not inductive: the slot is taken two steps before there is
a session and given back when the console has dropped its entry. `SlotsInv` counts what has
a slot, by ticket: what is listed, what is active, what the worker is at (`Covered`), and
the offer that has no ticket yet (`Pending`). `WorkInv` says what the worker may count on at
each step if its stack is still there, because `reset` may take the stack from under it at
any point: then the ledger, the sessions and the tickets go together and the invariant
holds again of nothing. `AloneInv` and `CleanInv` are the two promises of a console without
such a crossing: what is listed is of this stack, and what is on the router is active, and
listed or about to be.

Only model-checked: liveness (`SessionsEnd`, `PurchasesEnd`, `EveryRevocationArrives`),
because liveness under fairness, and with it `ENABLED`, is out of this prover's reach. Every
other property of a passing run is stated by one of these theorems. Not stated at all is
what depends on an encoding, such as digests: that two offers never share one is the
model's identity of offers.

## 5. Not modelled

* `translators.py`, `resource_map.py`: the tables; one bit of them (`mapped`) is in
  `Controller`, and `Plan` of `Netctl` is what they resolve to.
* Language models: prompting, parsing, retries and serving. A judgment is a free choice
  among validated answers, or a refusal.
* Encodings: EIP-712 hashing, ABI artefacts, `tokenURI`, pydantic validation, MCP and A2A
  transport. Signing is the fact that a provider signed.
* `skeleton/`: sequential test doubles of parts that are modelled themselves.
* Experiments, figures, deployment script, lab configuration, process supervision.
* Two calls of `watch_revoked` at the same instant and two purchases under one key at
  once: the code has no lock there and no deployment does either.
* Windows of the ledger that overlap: the code keeps one list per exact window, so a
  window is modelled alone; that overlapping windows each get the whole pool follows from
  that key.
* gNMI connection cache, `health`, and the console's event stream, status reads and chat
  parser: nothing that a property here is about depends on them.
