# TLA+ models of ashare-system-v2

The repository is an agent-driven trading control plane: market data and
strategies propose candidate cases, agents discuss them in rounds, what they
agree on becomes *execution intents*, and intents reach the broker (QMT)
directly or through a worker on a Windows host. Position watches sell, jobs
clean up, reconcile and remind, and the agents' credit moves with the outcome.

The models follow the money and the state that several processes write: the
execution gateway and everything around it, the sells, the day's buys, the
discussion, the settlement of credit, and the stores, breakers, queues and
lanes underneath. This file says what is modelled, what each check shows, what
is proved, what the code does not keep, and what is left out.

## 1. The system

Processes that run at the same time (`docs/`, `deploy/systemd/`,
`src/ashare_system/run.py`):

| process | what it runs | state it shares |
|---|---|---|
| API (`run serve`) | FastAPI, `apps/*.py`; the handlers modelled here are `async def` without an `await`, so the event loop runs one at a time; a few jobs run in threads beside it | the JSON files of `StateStore`, the files of cases, cycles, scores and breakers |
| scheduler (`run scheduler`) | one thread per job, `max_instances=1`: position watches, cleanup, supervision, discussion refresh, learning | the same files |
| Windows gateway worker(s) | `windows_execution_gateway_worker.py`: poll, claim, submit to QMT, report | HTTP to the API; the record of request ids of its own host |
| Go data platform | `go_data_platform/`: lanes in front of the Windows proxy | none |
| Feishu long connection, Hermes, OpenClaw | agents and chat | HTTP to the API |

How the parts meet:

* A file is read under a lock and written under a lock, never both under one.
  So every operation that reads, decides and writes is two steps between which
  another process writes. This is the hazard the code has most of.
* The discussion's end triggers the dispatch of its intents
  (`TradingDay`), which prechecks them (`ExecutionPrecheck`) and sends them to
  the broker or puts them on the gateway's list (`GatewayApi`), which the
  scheduler's watches and cleanup write as well (`ExecutionGateway`,
  `SellWatch`).
* A finalised discussion and a recorded outcome settle the agents' credit
  (`Settlement`). The supervision looks at the discussion and urges who is
  behind (`Supervision`).
* Everything rests on `StateStore`, the safe JSON file, the circuit breakers,
  the event bus and the Go lanes.

Components, the state each keeps, and what makes each correct. The list with
file names, status and reason is in `PROJECT.json`.

| component | state | hard behaviour | correctness | module |
|---|---|---|---|---|
| gateway store, API handlers, worker | intents, histories, receipts; polled batch, claim | late, lost, repeated requests; workers that race and die | one approval, one submission; closed stays closed | `GatewayApi` |
| stale-order cleanup, enqueues of the watches | the same list, in another process | whole lists written back from earlier reads; the pass raises half-way; the order query fails | no packet torn; the list empties in the end | `ExecutionGateway` |
| position watches, reconciliation | tracker with 600 s marks, order journal | two watches, the journal and the gateway know different things | one open sell; a signal that stays is obeyed | `SellWatch` |
| precheck and risk guard | reservations of one pass | sizes computed twice, limits in several places | the limits hold for all a pass approves | `ExecutionPrecheck` |
| dispatch, adapter, startup recovery, bridge guardian | dispatch record, journal, request ids | repeated dispatch, crash between order and journal, unheard orders | the day's limit; each symbol once; each order known | `TradingDay` |
| discussion cycle, cases and opinions | cycle file, case file | two processes write old copies back | no end without the last round's answers; each discussion ends | `DiscussionCycle` |
| candidate cases, their verdict and the execution pool | case file | opinions come late and about any round; reports and tickets come between | no case is bought against the last word of the risk or audit agent, none discussed without two votes | `CandidateCase` |
| scores, ratings, settlement | score file, rating file, keys | run twice, a crash between two files, another writer | a settlement counts once, and in both files | `Settlement` |
| supervision | control record: last message, acknowledgements | two supervisors and the acknowledgement write one record | escalation only after warning; who stays behind is urged | `Supervision` |
| circuit breakers | one file | writes from stale copies | open exactly after the threshold; probed in the end | `CircuitBreaker` |
| state store, safe file | files, cached copies | cache by modification time; kill at any moment | no key goes back; readers get the last payload | `StateStore`, `SafeFile` |
| event bus | priority queue | full queue, jobs take each other's events | nobody waits for nothing; every event handled | `EventBus` |
| Go lanes | queues, flights, cache | client leaves, leader leaves, queue full | one call per key; no abandoned order; an answer for all | `GoLane` |
| governance parameters, monitoring, notification, market data, strategies, factors, reports | tables, caches, data frames | none a model checker reaches (section 7) | — | — |

## 2. The modules

| module | composes | abstract specification |
|---|---|---|
| `IntentLifecycle` | the status tables of `execution_gateway.py` | |
| `ApprovalLedger` | | approvals are given, each is executed at most once |
| `GatewayApi` | `IntentLifecycle`; API handlers with the workers and the network | implements `ApprovalLedger` |
| `ExecutionGateway` | `GatewayApi` with the scheduler and the broker | |
| `SellWatch` | both watches, the reconciliation, worker and broker | |
| `ExecutionPrecheck` | one pass | what `TradingDay` takes of it |
| `TradingDay` | a day's dispatches over any plan the precheck's limits allow | |
| `CandidateCase` | one case of the file, the API's handlers and the sync of reports | |
| `DiscussionCycle`, `Settlement`, `Supervision` | the API and the scheduler over shared files | |
| `CircuitBreaker`, `StateStore`, `SafeFile`, `EventBus`, `GoLane` | one component each | |
| `MC*` | instances for TLC, several *deployments* each | |
| `*_proofs` | the theorems | |

### GatewayApi and ExecutionGateway

* `pending`, `history`, `receipts` are the keys of
  `execution_gateway_state.json`. A packet keeps its status, its claim's
  gateway, its broker order id, the day of its last report, and `approval`,
  which stands for `approved_at` and tells a second dispatch from the first.
* `api` is the handler the event loop runs and the list it read. A handler is
  two steps: `Begin` reads, a `Finish` (`FinishDispatch`, `FinishPoll`,
  `GrantClaim`, `RepeatClaim`, `RefuseClaim`, `RepeatReceipt`, `RejectReceipt`,
  `StoreReceipt`) prunes, decides, writes and answers. In `GatewayApi` nothing
  happens to the file in between; in `ExecutionGateway` it does.
* `net` holds requests sent and not served; `wpc`, `batch`, `cur` are the
  worker's place in `run_once` and `process_intent`; `calls` is every call of a
  submitter with what the broker made of it, the truth a receipt only reports;
  `dispatched` are the request ids each gateway's adapter remembers.
* Faults: the worker dies and restarts (`Crash`), a request times out though it
  may still be served (`Timeout`), is lost (`LoseRequest`), arrives twice
  (`DuplicateRequest`); the broker takes an order whose call raises
  (`SubmitUnheard`).
* `ExecutionGateway` adds the scheduler: `WatchBegin`/`WatchFinish` are a
  watch's enqueue, `BeginCleanup`, `RetryStale`, `QueryAnswered`/`QueryFailed`,
  `FinishCleanup`/`AbortCleanup` the cleanup; `OrderMoves` is the broker.

Abstractions: a history append is merged with the list write of its operation,
and histories keep one entry per intent (the code keeps the last 200 and 500);
a dispatch of several intents is one handler per intent; a claim is stale or
not, any subset of the claimed packets; the list's order is dropped and
`AbortCleanup` lets any subset of the closing packets have been met; the
cleanup may run at any time; `noop_success`, the rehearsal mode, is left out.

### SellWatch
The fast and the deep watch over positions, each a scan of several steps, with
the tracker and the journal read before and written after. `sells` is every
sell so far; `young` says whether it is under 600 seconds old. `deployed` is the
plane, the jobs that run, the symbols held, the signals that stay, and the
faults that may happen: a scan aborts, a query fails, an order is not heard
back, the broker cancels. Other signals come and go.

### ExecutionPrecheck and TradingDay
`ExecutionPrecheck` is one pass of `_build_execution_precheck` over the pool,
case by case: budget, quantity, blockers, then the guard with its sizer and
portfolio check, and the reservations. Money is whole units and limits are
amounts for the account at hand. `TradingDay` replaces a pass by any plan that
keeps the two limits the first is shown to keep, and models the dispatch by
hand, by refresh and by finalisation, previews, the record per date, the
journal, the adapter's request ids, the recovery's scan in a thread, the
readiness check, the emergency stop and the bridge guardian, with a crash
between any two steps.

### DiscussionCycle
The file of cases (`file`: who said what, and what a rebuild made of it) and
the cycle (`cycle`). A process runs one handler at a time (`at`), which reads
either file and writes it whole. `answered` is what agents have really given,
whatever the files forgot. Handlers: opinions by API, writeback by the
scheduler, fast-track exit, refresh (complete, repair, continue), start of a
round, finalisation. Several `rebuild_case` calls of one writeback are one
step; pools do not change during the day; whether the execution pool is empty
is an input.

### CandidateCase
`candidate` is one case of the file: each agent's latest stance in each round,
the stance each gatekeeper's opinion written last had, the two gates and the
final status. Its rank is reduced to the pools it fits in, and a hold is a
question, as the rules treat them alike. `RecordOpinion`, `RecordTicket` and
`Rebuild` write the case as the handler read it; `Sync` holds the lock over its
read and its write. `lastWord` is what the gatekeepers really said. A batch is
one handler per opinion, and the API's handlers rebuild what they record, as
they do unless asked not to.

### Settlement
`run_daily_settlement` agent by agent: pairwise rating round first, then score
by key, in two files, with the callers (discussion's end, outcome, by hand),
the scheduler's default states, and the fast watch that stores cycles it read
earlier. A score moves by a delta and is clamped at both ends. `deployed` says
which of these jobs run, on which dates, and whether the API may be killed; it
does not change.

### Supervision
The control record is read and written whole by the scheduler's job, the API's
check and the acknowledgement. `Look` computes who is behind, what was
acknowledged, the level; `Send`, `Load`, `Save` deliver and write down;
`GiveUp` is a message held back or a process stopped. `told` is what was warned
of, for the property. Both supervisors see the same statuses, and of the plan
of tasks only this is kept: whoever is behind is recommended one.

### CircuitBreaker, StateStore, SafeFile, EventBus, GoLane
Each is its source file: `check`, `record_failure`, `record_success` with the
read and the write apart; `get`, `set`, `delete` with the cache by modification
time and callers that append to the cached value; `atomic_write_json` step by
step with another writer that still has the file open; `publish` and `drain`
with the event number read and increased in two steps; `ServeHTTP`, the
singleflight, the lane's dispatcher and workers, with clients that leave.

## 3. The runs

A *deployment* is a set of constants for one module. Modules that share no
state share a run: its initial states choose the deployment, and a behaviour
stays in it. Where a module has a constant `Deployments` and a variable
`deployed`, the choice is the module's own, its properties name what they need
of it, and the theorems are about every deployment. Every constant of a run is
in its `.cfg` or its `MC` module.

| run | instance | properties |
|---|---|---|
| `gateway_api` | 2 workers, 1 intent, 2 dispatches, 2 calls, 2 faults of every kind, 1 day; workers symmetric | `TypeOK`, `OneCallPerApproval`, `ActsOnEachApprovalOnce`, `OneOrderPerGateway`, `OrderIsTheClaimers`, `ClosedStaysClosed` |
| `gateway_api_live` | 2 workers, 2 intents, no fault, fair | `EverySubmissionReported`, `EveryApprovalTaken` |
| `api_with_scheduler` | "jobs": worker, watch and cleanup; "retry": an intent dispatched twice, time-outs, cleanup; "verdict": a case, 3 agents, 2 rounds, 3 stances | `RecordsCoherent`, `OneOrderPerGateway`, `PoolHeedsAgents` |
| `scheduler_jobs` | "cleanup": a worker that may crash, fair; "urging": 2 agents, 1 of the discussion, 1 turn, 1 acknowledgement, fair | `MCEveryIntentCloses`, `EscalatedAfterWarning`, `MCUnansweredIsUrged` |
| `duplicate_claim` | 2 workers, a dispatched and a watched intent | `NoDuplicateClaim` — violated |
| `outage` | 1 worker, a lost request, cleanup, fair | `OrdersRecovered` — violated |
| `sell_watch` | 6 deployments: both planes, both watches, 2 lots, 3 to 5 sells, 1 or 2 faults | `OneOpenFastSell`, `OneOpenDeepSell`, `FastSellsSpaced`, `PersistentSignalSells` |
| `go_lane` | 3 reads of one key, 1 order, 2 workers, a queue of 1, two clients that may leave | `OneLiveCallPerKey`, `AbandonedOrderNotSent`, `EveryRequestAnswered` |
| `trading_day` | a pass over 3 cases of 2 sectors and all accounts of small sets; days on both planes; a day with every fault, 2 symbols, 3 orders | `NewExposureKept`, `HoldCountKept`, `OrdersWithinAccount`, `DayExposureKept`, `OneBuyPerSymbol`, `MCEveryOrderJournaled` |
| `bridge_guardian` | 2 symbols, the gateway plane | `BlockedBridgeGetsNothing` — violated |
| `infrastructure` | 2 users and 2 breakers; 2 stores and 2 keys; 2 writers and 4 payloads; 3 jobs and a queue of 3 | `BreakersSound`, `OpenIsProbed`, `NeverGoesBack`, `ReadsLastWrite`, `DrainFindsAnEvent`, `MCEveryEventHandled` |
| `discussion` | 7 deployments: 2 agents, 1 or 2 cases, up to 3 rounds, 2 processes; settlements on 1 or 2 dates, alone, beside every other writer, and beside the fast watch | `LastRoundAnswered`, `FirstRoundHeard`, `MCEveryDiscussionConcludes`, `ScoreIsItsSettlements`, `RatingsNeverBehind`, `DiscussionRatedOnce`, `AppliedIsInFile` |

What they show:

* **Gateway.** Within the API and its workers an approval reaches the submitter
  at most once, whatever is lost, repeated or crashes. The reason is the claim:
  the packet leaves "approved" when it is granted, and only a new approval
  brings it back. That ends where the scheduler writes the same list
  (`duplicate_claim`): a watch that read before a claim and writes after makes
  the claim disappear. What remains then: packets are never torn, and one
  gateway does not send its order twice, because its adapter remembers. Late
  claims and receipts do not revive a closed intent. The daily cleanup closes
  what a crash or a lost update left. A lost receipt is never sent again and
  only it carried the order's id (`outage`).
* **Sells.** At the broker the fast watch has one open sell of a symbol, even
  with the deep watch beside it, and so has the deep watch when it is alone;
  for the gateway two sells of a symbol are 600 seconds apart. A position whose
  signal stays is sold in the end, through aborted scans, failed queries, unheard
  and cancelled orders.
* **Buys.** A pass keeps the day's limit, the hold count and the limits of one
  order for every account tried. A day of dispatches, previews and refreshes
  keeps the limit on both planes until a fault; with faults a symbol is still
  bought once by orders that were heard, and every order reaches the journal in
  the end. The guardian's block is never asked on the plane it is for
  (`bridge_guardian`).
* **Discussion.** However the two processes write old cycles and cases back, a
  cycle that went past its first round does not become ready for its end before
  every agent answered its last round; after the first round alone, every agent
  was heard on the focus pool, when agents write about the focus pool. A
  discussion of agents that answer is concluded again and again, also after an
  old cycle was written over its end.
* **Verdict.** Beside the sync of reports no case is in the execution pool
  against the last word of the risk or the audit agent, and a discussed one only
  by two votes of the round that counts.
* **Credit.** A score is what its listed settlements give, and no score is
  ahead of its rating, with crashes between the two files and other writers.
  Without the fast watch and without a kill a discussion moves a rating once;
  what is marked as applied is in the score file, with crashes and old cycles
  written back, while the scheduler does not write that file.
* **Supervision.** A message becomes critical only if the matter was warned of,
  and who stays behind, without an acknowledgement, is urged again and again.
* **Infrastructure.** Breakers written back from stale copies are never half one
  write and half another, and an open one is probed; a store does not undo
  another's key when every write gets a later time; a reader gets the last
  complete payload while writes do not overlap; a job that takes an event finds
  one; each event is handled while no two jobs read the same number.
* **Lanes.** One call per key for clients that wait, no order after its client
  left, an answer for everyone.

The violated runs disagree with what
`task_expert_review_remediation_20260420.md` says; `PROJECT.json` quotes the
lines.

**Bounds.** Named constants, guards of the actions that count. Two workers,
users, stores or processes are what a race needs, and no property here speaks
of more than two of them; three jobs of the event bus let one take the event of
a second while a third fills the queue. Two dispatches are what a repeat needs,
two faults let one hit the recovery of another. Three reads give a leader, a
follower and one that comes between. Three rounds let a round be neither first
nor last; two lots let a sell be partial. Deltas of the settlement reach both
clamps from the score a state begins with. Agents are two: one that rejects and
one that answers; the rules speak of all agents, or of the risk and audit
agents, which these two are. The verdict has three, so that two may outvote a
gatekeeper. Supervision has one agent of the discussion and one that is not,
because the signature tells them apart. The proofs of section 5 remove the
bounds for what they cover.

## 4. Fairness

Only what the code's loops give is assumed; nothing of requests, which may be
lost for ever, and no fault must stop but by its bound.

* Gateway: the event loop serves what arrived (`SF` on `ServeRequest`, as polls
  compete for it) and ends what it began; a worker takes its next step
  (`run_forever`) and polls again (`SF`, as a crash may interrupt); jobs recur
  and end; the order query does not fail for ever; orders come to an end; days
  pass. `MCEveryIntentCloses` needs the last three.
* SellWatch: scans recur every 3 and 30 seconds, refreshes and marks fall due
  (`SF`, as a scan may always be under way), broker and worker end their orders.
* TradingDay: a dispatch goes on, a killed process is restarted (systemd), a
  scan in a thread ends, the readiness check recurs (`SF`).
* DiscussionCycle: a handler ends; an agent asked again and again answers, and
  a finalisation asked again and again is made (`SF`).
* Supervision: the job runs every three minutes and goes on; not every message
  of it is lost (`SF`).
* CircuitBreaker: users go on calling; `SF` on the check that finds a breaker
  due, as other users' writes disable it; time passes.
* EventBus, GoLane: jobs and goroutines go on; a worker slot that is free again
  and again is got (`SF`, Go's channels are first in, first out); Windows
  answers or its client's time ends.

## 5. What is proved

Every safety property of the passing runs is a theorem: the runs check it on
small instances, the theorem holds for any values of the constants that satisfy
the named assumptions, which TLC evaluates in the runs. Every proof has one
shape: `Init` implies the inductive invariant, each action keeps it (one step
or lemma per action), it implies the property. The invariants were checked by
TLC before they were proved.

| theorem | states | inductive invariant, and why it is needed |
|---|---|---|
| **`GatewayApi_proofs`** | | |
| `TypeCorrect` | `[]TypeOK` | with `Holding`: what a worker holds has the shape its state says |
| `Invariance` | `[]IInv` | below |
| `ApprovalUsedOnce` | `[]OneCallPerApproval` | `IInv` |
| `GatewayKeepsLedger` | `ActsOnEachApprovalOnce` | refinement of `ApprovalLedger`: a grant or call maps to an execution, a dispatch to an approval, the rest to stutters |
| `OrderSentOnce` | `[]OneOrderPerGateway` | `Remembered`: the adapter remembers the id of every call it heard |
| `OrderOfTheClaimer` | `[]OrderIsTheClaimers` | `ClaimOfTaker`: whoever took the approval a waiting packet has holds its claim, and the order it shows is a call for its intent |
| `ClosedByApprovalOnly` | `ClosedStaysClosed` | `IInv` and `RecordedIssued`: the history shows no approval that was not given |
| `SubmissionsReported` | `NoReportLost`, while no fault and one dispatch per intent | `Trail`: from the claim to the stored receipt an intent stays claimed on the list, so the receipt is admitted; with `IInv`, a later claim or receipt is never another call's |
| **`ExecutionGateway_proofs`** | | |
| `SystemTypeCorrect` | `[]SystemTypeInv` | types with both processes |
| `PacketsWhole` | `[]RecordsCoherent` | coherence of every list, the ones a watch or the cleanup has read and will write included |
| `OrderSentOnceBesideScheduler` | `[]OneOrderPerGateway` | `Remembered`; no list is needed for it, so it survives the scheduler |
| `OnlyApprovedIsSent` | every call was approved, beside the scheduler | `Sanctioned`: what a worker is about to submit was approved; a claim hands out a whole packet (`PacketsWhole`), and approvals only grow |
| **`OrderPath_proofs`** | | |
| `PoolHeedsTheAgents` | `[]PoolHeedsAgents` | `CandidateInv`: each gate repeats its agent's last word, a case in the pool deserves it whenever no rebuild is due, and what a handler has read agrees with the file on the opinions |
| `ApprovedWithinExposure` | `[]NewExposureKept` | `PrecheckInv`: the limit, and nothing is approved of a case that is to come; what a case adds to the sum is what its guard compared |
| `HoldCountRespected` | `[]HoldCountKept` | `PrecheckInv`; the case at hand opens one position at most |
| `OrdersAffordable` | `[]OrdersWithinAccount` | `PrecheckInv`; every size was cut to the cash and to the limit of one order |
| `BoughtOnce` | `[]OneBuyPerSymbol` | the adapter remembers the id of every order it heard of |
| `DayTypeCorrect`, `DayWithinLimit` | `[]DayTypeOK`, `[]DayExposureKept` | `DayInv`: until a fault, the journal with the orders of the dispatch under way is the book, and what is still planned fits in the rest of the limit |
| `HeardOrdersInSight`, `JournalForgetsNothing` | an order the adapter heard of is in the journal or in its dispatch's hands; the journal only grows; both without a scan beside the handlers | `InSight`: what a dispatch read of the journal is still the journal when it writes, and no dispatch outlives the process |
| **`SellWatch_proofs`** | | |
| `FastSellsOnce` | `[]OneOpenFastSell` | `SellInv`: an open sell of the fast watch is in its tracker, or the tracker will be refreshed before it is used; in a scan its symbol is held for being sold or done with |
| `FastSellsApart` | `[]FastSellsSpaced` | a young sell has a fresh mark in the tracker and in the scan |
| `DeepSellsOnce` | `[]OneOpenDeepSell` | an open sell of the deep watch alone is in the journal it read, or its symbol is done with |
| **`GoLane_proofs`** | | |
| `OneLiveCall` | `[]OneLiveCallPerKey` | `LaneInv`: a read that submits or waits leads its key's flight, a job that outlives its handler is of a client that left |
| `AbandonedStaysUnsent` | `AbandonedOrderNotSent` | a job is in the queues once, so what a consumer takes has not been started |
| `FollowersHaveLeaders` | a follower's flight has a leader | the safety part of `EveryRequestAnswered` |
| **`Infrastructure_proofs`** | | |
| `BreakersTypeCorrect`, `BreakersStaySound` | `[]TypeOK`, `[]BreakersSound` | soundness of every copy in hand, and: who is about to write "half open" read "open" |
| `NothingGoesBack` | `NeverGoesBack`, assuming `FineClock` | a copy with the file's time is not behind the file in any key |
| `LastWriteIsRead` | `[]ReadsLastWrite` | until two overlap: one writer, what it synced is its whole payload, no backup before a file |
| `NoJobWaits` | `[]DrainFindsAnEvent` | queued events are no fewer than jobs about to take one, and fresh ids; uses that the queue has a place per job |
| `EventsAreKept` | a published event is handled, in hand or queued, unless two jobs read one number | `InTurn`: one event queued per job about to take one, so there is room; numbers in the queue differ and are below the next, so nothing raises |
| **`Discussion_proofs`** | | |
| `AnsweredBeforeTheEnd` | `[]LastRoundAnswered` | `IInv`: a full word in any copy of the cases was given, and any copy of the cycle that says its last round is done is right |
| `FirstRoundHeardAll` | `[]FirstRoundHeard`, when `Discussed \subseteq Focus` | `HeardInv`: in any copy, the words of the first round were given, outside the focus pool only by the risk agent (a fast-track exit), and a cycle that ends with that round heard the whole pool; so the count the code makes is a count of the pool. A handler records its opinion before it rebuilds and forgets it (`RecordFirst`) |
| `ScoresAreTheirSettlements` | `[]ScoreIsItsSettlements` | `CreditInv`, below |
| `RatingsKeepUp` | `[]RatingsNeverBehind` | the agent at hand has been rated before its copy of the file is written |
| `DiscussionsRateOnce` | `[]DiscussionRatedOnce` | `RatedOnce`: a discussion whose cycle has no key and is not being settled has not been rated |
| `WhatIsAppliedIsInFile` | `[]AppliedIsInFile` | `AppliedTrue`: what the API read of the score file is what it is; the agents that are done have the key in it; the old cycle about to be written back was right, and the file forgets no key |
| `SettlementTypeCorrect` | `[]SettlementTypeOK` | `CreditInv` |
| **`Supervision_proofs`** | | |
| `WarnedBeforeEscalated` | `[]EscalatedAfterWarning` | a statement about every copy of the record: what it says of its last message was told |

**The gateway.** `OneCallPerApproval` is not inductive: nothing in it stops a
second worker from holding the same approval and calling next. `IInv` adds what
the code maintains: `SingleWriter` (while a handler runs, the file's list is the
one it read), `Issued` (no approval is carried that was not given), `Untaken`
(while a packet is approved, or claimed by a worker that may still ask for it,
no worker holds and no call used its approval), `OneHolder` (one worker at a
time is about to submit an approval), and `OneRequest` (a worker waits for at
most one live request). `SingleWriter` is what the scheduler breaks: the
theorems of `GatewayApi_proofs` are about the API with its workers, and
`duplicate_claim` shows that they do not carry over. What does carry over,
whole packets, one order per gateway and no call without an approval, is proved
of both processes.

**Copies.** The discussion, the supervision and the credit have one argument:
files forget, but the copies that are written back say nothing false about what
has happened. So the invariant speaks of all copies. For the credit, `CreditInv`
says of the score file, of what the API read of it and of what the scheduler is
about to write: each score is the fold of its list, and each key of the list has
moved the rating. The API's copy does not list the key it is about to add, or
the score would move without the list.

**Sums and folds.** The limits of a pass and of a day are sums over sets of any
size, and a score is a fold over a list of any length; both are defined by a
recursive function on the subsets of a finite set. Induction is not available
as a rule (its theorems take an operator), so it is done by least
counterexample: of the subsets that violate a claim there is one with no smaller
(`FS_StrictSubsetOrderingWellFounded`, `WFMin`). `FoldExists` shows in this way
that the function exists, `FoldsAgree` that it depends on nothing but the
list's entries, and `ScoreOfMore` that a longer list folds as it should; the
sums of `OrderPath_proofs` likewise.

**Assumed.** Constants have their types, and the bounds are numbers; the risk and
the audit agent are two (`DiscussionAssumption`, `CandidateAssumption`); sets of
symbols, cases and publishers are finite where there are sums or counts of
them; the markers `None`, `Nothing` and `NoCase` are not values of what they
stand beside (`NoneAssumption`, `MarkerAssumption`, `NoCaseAssumption`, `GoLaneAssumption`,
`SettlementAssumption`); the event bus has a place per job (`BusAssumption`).
`NothingGoesBack` needs a clock that tells writes apart and `FirstRoundHeardAll`
agents that write about the focus pool. Section 6 says what happens without
either; neither is assumed of the program elsewhere. The theorems of `SellWatch`
are about deployments without faults but cancelled orders, as their properties
say.

**Model-checked only:** liveness under fairness and `ENABLED`, out of the
prover's reach: `EverySubmissionReported`, `EveryApprovalTaken`,
`MCEveryIntentCloses`, `MCUnansweredIsUrged`, `PersistentSignalSells`,
`EveryRequestAnswered`, `MCEveryOrderJournaled`, `OpenIsProbed`,
`MCEveryEventHandled`, `MCEveryDiscussionConcludes`. Of four of them the safety
part is a theorem, that what is still to come has not been lost on the way:
`SubmissionsReported`, `FollowersHaveLeaders`, `HeardOrdersInSight` and
`EventsAreKept`; what remains to TLC is that it comes.

## 6. What the code does not keep

Properties stated in the modules that TLC refutes, or facts met while
modelling, that no run of this project has as its subject. For each: where, and
how it happens.

Gateway and cleanup
* `CleanupLeavesNothingStale` (`stale_order.py:73`): an order being cancelled
  maps to "submitted", which a "partial_filled" intent may not become; the
  exception ends the pass and the list is not written. The next pass succeeds
  when the order left that state.
* A failed order query counts as an empty book (`stale_order.py:47`): a day-old
  intent with a live order is closed as orphaned.
* A stale claim given back to the gateway that sent it is refused by its adapter
  (`adapters.py:321`); the worker reports a failed submission and the intent is
  closed as failed while the first order lives.
* `_submit_order_with_retry` (`adapters.py:195`) may send an order twice when
  the first call timed out after the broker took it.
* Receipts and intents beyond the last 500 and 200 are forgotten
  (`execution_gateway.py:181`): a repeated receipt would be stored again.

Sells
* `NoRepeatedSubmission`: after 600 seconds the fast watch sells again while
  its first sell still waits on the gateway's list (`scheduler.py:2149`).
* The deep watch does not know of the sells it queued for the gateway
  (`scheduler.py:3920`): each scan may queue one more. With both watches at the
  broker, the journal loses entries and the deep watch may sell twice.

Buys
* `SwitchedOffGetsNothing`: on the gateway plane the live switch is not asked
  (`system_api.py:5743-5758`), against
  `docs/controlled_apply_pressure_test_plan_20260414.md:70`.
* `DayExposureKept` fails with a crash, an unheard order or a scan that writes
  over the journal: orders nobody counted yet are not in the next precheck.
* A preview or a dispatch by hand overwrites the record, so the automatic
  dispatch repeats itself; what stops it is the journal and the request ids.
* Each enqueue for the gateway adds a history entry, also when it replaces the
  packet of the same id, so the day's exposure may be counted too high.
* `SingleAmountKept`: the guard's sizer is not bound by the amount of one order.
  `SectorKept`: the sector rule counts what is held, not what the pass approved.

Discussion and credit
* `FirstRoundHeard` fails when agents write about cases outside the focus pool
  (the round completes by a count) or the pool is ranked anew.
* A finalised cycle may be opened again by a process that writes an old copy;
  `EveryDiscussionConcludes` then sees it concluded again.
* A case the runtime selected and nobody discussed may enter the execution pool.
* `NewestRejectionStands`: the gates follow the opinion written last, of any
  round (`candidate_case.py:1909`). A late "support" about the first round takes
  back the risk agent's rejection in the second, which
  `hermes/prompts/risk_gate.md:18` calls a veto.
* `PoolHeedsAgents` fails where a job writes a copy of the cases read between an
  opinion and its rebuild (`scheduler.py:2620`, `4080`): the opinion stays, the
  verdict is the old one. So it does after `POST /cases/{id}/opinions`
  (`system_api.py:14522-14560`), which records without a rebuild.
* Among cases of equal strategy priority `_select_execution_pool`
  (`discussion_service.py:1737-1744`) puts the lower selection score first: the
  key is negated and the order reversed.
* A fast-track exit counts as the risk agent's whole answer and can be lost.
  `last_synced_job_id` is kept while the cases it stands for are overwritten.
* `OutcomeRatedOnce`, and `DiscussionRatedOnce` beside the fast watch: the
  pairwise round moves ratings before the key is asked, and the watch writes
  back cycles without their settlement's key.

Supervision
* `AcknowledgedNotUrged`: `task.md:953` says repeated reminders are suppressed
  by the attention's signature; the plan recommends a task to every agent that
  is behind (`supervision_tasks.py:1602-1611`) and the job adds those to whom it
  urges, acknowledged or not.
* The scheduler's items carry no counts of cases and the API's do, so the two
  signatures differ for agents of the discussion: an acknowledgement through
  the API is not honoured by the job, and alternating messages start the
  escalation anew.
* Escalation needs 180 seconds since the last message, the job runs every 180
  seconds and each message moves the time: it may never happen
  (`task.md:612`). Concurrent writes of the record lose acknowledgements.

Infrastructure
* `NeverGoesBack` with `FineClock = FALSE`: two writes within the resolution of
  the file's time hide one from the other process.
* `QuietReadsAPayload` (`task.md:284`, `286`): two overlapping writers share one
  temporary name and may leave neither file nor backup readable.
* `BreakersIndependent`: the whole file is written back, so one subsystem's
  record undoes another's count.
* `EveryEventHandled` with `SameNumber = TRUE`: two events with one number
  cannot be compared and the job ends with an exception.
* `GoLane`: `FailureIsTold` (an order's error leaves an empty 200),
  `OrderOncePerKey` (nothing keeps idempotency keys), `LaneWithinBounds` (the
  dispatcher starts a goroutine per job, so the queue bounds nothing),
  `AccountShowsAcknowledged` (nothing voids the cache before a second is over).
* `RuntimeConfig._save`, the Feishu connection's `_save_state`, the
  event-history handler of the scheduler (`scheduler.py:5013`) and the file of
  cycles are written without the temporary file or without a lock over read and
  write.
* Orders found by the broker scan have no `submitted_at`, so the inspection of
  pending orders never finds them stale.

## 7. Not modelled

* **Governance parameters** (`governance/`): a table of values and periods whose
  handlers run one at a time in one process; sequential, and within reach of
  its tests. Met in reading: a proposal that is "evaluating" has no path to a
  review, only rollbacks have.
* **Pending order inspection and remediation**: one job without state of its
  own.
* **Monitoring, notification, Feishu connection, market data, QMT launcher,
  Hermes models, runtime API**: heartbeats, caches in which the last write
  counts, delivery of messages, loops around external programs.
* **Strategies, factors, sentiment, backtest, risk scores, AI, reverse repo,
  order strategy, learning reports**: numerical work on floating point and data
  frames.
* **Discussion texts and evidence, reports and question answering of
  `system_api.py`**: formatting. These are most of the lines of the repository,
  which is why the share of it the models stand for is small: they stand for
  the part that has concurrency, failures and persistent state.
* The learned assets and their advice queue: kept in memory per process.
* Of modelled components: the audit log, the state migration, the HTTP proxies'
  own code, the consumer loop of the event bus (nothing starts it), the rating
  arithmetic and the ranking of pools.
