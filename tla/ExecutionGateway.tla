-------------------------- MODULE ExecutionGateway --------------------------
(***************************************************************************)
(* The execution gateway with the scheduler process beside the API.        *)
(*                                                                         *)
(* Both processes open execution_gateway_state.json.  StateStore locks the *)
(* file for one get or one set and not for the pair, so the scheduler's    *)
(* jobs, like the API's handlers, write back a whole list computed from an *)
(* earlier read: a job that read before a claim or a receipt and writes    *)
(* after it undoes it.                                                     *)
(*                                                                         *)
(* The jobs: the position watches, which enqueue sell intents, and the     *)
(* daily stale-order cleanup, which retries stale claims and closes what   *)
(* the broker has finished and what is a day old.  The broker's orders     *)
(* move on by themselves.                                                  *)
(***************************************************************************)
EXTENDS GatewayApi

CONSTANTS
  Watchers,      \* jobs that enqueue sell intents
  SellIntents,   \* the intents they may enqueue, each once (their ids are fresh)
  WithCleanup    \* does the cleanup job run?

ASSUME SchedulerAssumption ==
  /\ SellIntents \subseteq Intents
  /\ SellIntents \cap Dispatched = {}
  /\ WithCleanup \in BOOLEAN

VARIABLES
  watch,    \* the enqueue each watcher is in: the intent and the list it read
  cleanup   \* the cleanup in progress: its step, clock, list and order book

schedulerVars == <<watch, cleanup>>
vars == <<apiVars, schedulerVars>>

-----------------------------------------------------------------------------
(* enqueue_execution_gateway_intent, called by a watcher. *)

BeingEnqueued == {watch[j].intent : j \in {w \in Watchers : watch[w] # None}}

WatchBegin(j) ==
  /\ watch[j] = None
  /\ day = 0
  /\ \E i \in SellIntents \ BeingEnqueued :
       /\ approvals[i] = 0
       /\ watch' = [watch EXCEPT ![j] = [intent |-> i, read |-> pending]]
  /\ UNCHANGED <<apiVars, cleanup>>

WatchFinish(j) ==
  /\ watch[j] # None
  /\ LET i == watch[j].intent
     IN  /\ Save([watch[j].read EXCEPT ![i] = NewPacket(i)])
         /\ history' = [history EXCEPT ![i] = NewPacket(i)]
         /\ approvals' = [approvals EXCEPT ![i] = @ + 1]
  /\ watch' = [watch EXCEPT ![j] = None]
  /\ UNCHANGED <<receipts, api, net, workerVars, calls, dispatched, day, faults, cleanup>>

-----------------------------------------------------------------------------
(* The broker. *)

\* Where an order may go from each status.
BrokerMoves ==
  [o \in BrokerStatuses |->
     CASE o = "ACCEPTED"         -> {"PARTIAL_FILLED", "FILLED", "CANCEL_REQUESTED", "REJECTED"}
       [] o = "PARTIAL_FILLED"   -> {"FILLED", "CANCEL_REQUESTED"}
       [] o = "CANCEL_REQUESTED" -> {"FILLED", "CANCELLED"}
       [] OTHER                  -> {}]

OrderMoves ==
  \E k \in 1..Len(calls) :
    /\ calls[k].broker # "NONE"
    /\ \E o \in BrokerMoves[calls[k].broker] : calls' = [calls EXCEPT ![k].broker = o]
    /\ UNCHANGED <<storeVars, approvals, api, net, workerVars, dispatched, day, faults,
                   schedulerVars>>

-----------------------------------------------------------------------------
(* stale_order.cleanup: retry_stale_claimed_intents, then a second read, then *)
(* the broker's orders, then one pass over the list that ends in one write.   *)

BeginCleanup ==
  /\ WithCleanup
  /\ cleanup = None
  /\ cleanup' = [step |-> "retry", now |-> day, read |-> pending, orders |-> <<>>]
  /\ UNCHANGED <<apiVars, watch>>

\* A claim without progress: the intent is approved again and free to be claimed.
\* Mutant: the claim stays on it.
ResetStatus(p) == [p EXCEPT !.status = "approved"]
Reset(p) == [p EXCEPT !.status = "approved", !.claim = None]

\* Claims older than five minutes by the scheduler's clock: any of the claimed.
RetryStale ==
  /\ cleanup # None
  /\ cleanup.step = "retry"
  /\ LET claimed == {i \in Intents : cleanup.read[i] # None /\ cleanup.read[i].status = "claimed"}
     IN \E stale \in SUBSET claimed :
          IF stale = {}
            THEN UNCHANGED <<pending, history>>
            ELSE /\ Save([i \in Intents |-> IF i \in stale THEN Reset(cleanup.read[i])
                                                           ELSE cleanup.read[i]])
                 /\ history' = [i \in Intents |-> IF i \in stale THEN Reset(cleanup.read[i])
                                                                 ELSE history[i]]
  /\ cleanup' = [cleanup EXCEPT !.step = "read"]
  /\ UNCHANGED <<receipts, approvals, api, net, workerVars, calls, dispatched, day, faults, watch>>

\* The list is read and the orders are queried; a query that fails leaves none.
QueryOrders(orders) ==
  /\ cleanup # None
  /\ cleanup.step = "read"
  /\ cleanup' = [cleanup EXCEPT !.step = "close", !.read = pending, !.orders = orders]
  /\ UNCHANGED <<apiVars, watch>>

OrderBook == [k \in 1..Len(calls) |-> calls[k].broker]
QueryAnswered == QueryOrders(OrderBook)
QueryFailed == QueryOrders(<<>>)

InBook(p) == p.order \in DOMAIN cleanup.orders /\ cleanup.orders[p.order] # "NONE"

\* Not reported on for 24 hours.
Aged(p) == cleanup.now > p.seen

\* The status the pass gives a packet; what becomes terminal leaves the list.
Settled(p) ==
  IF InBook(p) THEN ORDER_STATUS_TO_INTENT_STATUS[cleanup.orders[p.order]]
  ELSE IF Aged(p) THEN "expired" ELSE p.status

\* transition_execution_intent raises.
Illegal(p) == Settled(p) # p.status /\ Settled(p) \notin INTENT_TRANSITIONS[p.status]

Settle(p) == [p EXCEPT !.status = Settled(p)]

Listed  == {i \in Intents : cleanup.read[i] # None}
\* Mutant: an expired packet stays on the list.
ClosedByBroker ==
  {i \in Listed : InBook(cleanup.read[i])
                  /\ Settled(cleanup.read[i]) \in TERMINAL_INTENT_STATUSES}
Closing == {i \in Listed : Settled(cleanup.read[i]) \in TERMINAL_INTENT_STATUSES}

\* Closed packets go to the history as the pass meets them.
Record(closed) ==
  history' = [i \in Intents |-> IF i \in closed THEN Settle(cleanup.read[i]) ELSE history[i]]

EndCleanup ==
  /\ cleanup' = None
  /\ UNCHANGED <<receipts, approvals, api, net, workerVars, calls, dispatched, day, faults, watch>>

FinishCleanup ==
  /\ cleanup # None
  /\ cleanup.step = "close"
  /\ \A i \in Listed : ~Illegal(cleanup.read[i])
  /\ LET kept == [i \in Intents |-> IF i \in Listed \ Closing THEN Settle(cleanup.read[i]) ELSE None]
     IN  IF kept = cleanup.read THEN UNCHANGED pending ELSE Save(kept)
  /\ Record(Closing)
  /\ EndCleanup

\* A status the life cycle does not admit ends the pass where it stands: some
\* packets are in the history already, and the list is not written.
AbortCleanup ==
  /\ cleanup # None
  /\ cleanup.step = "close"
  /\ \E i \in Listed : Illegal(cleanup.read[i])
  /\ \E met \in SUBSET Closing :
       met \cap {i \in Listed : Illegal(cleanup.read[i])} = {} /\ Record(met)
  /\ UNCHANGED pending
  /\ EndCleanup

-----------------------------------------------------------------------------
(* The specification. *)

SystemInit ==
  /\ Init
  /\ watch = [j \in Watchers |-> None]
  /\ cleanup = None

GatewayStep == Next /\ UNCHANGED schedulerVars

WatchStep == \E j \in Watchers : WatchBegin(j) \/ WatchFinish(j)

CleanupStep ==
  BeginCleanup \/ RetryStale \/ QueryAnswered \/ QueryFailed \/ FinishCleanup \/ AbortCleanup

SystemNext == GatewayStep \/ WatchStep \/ OrderMoves \/ CleanupStep

SystemSpec == SystemInit /\ [][SystemNext]_vars

\* The scheduler runs its jobs again and again and each ends; the broker's query
\* does not fail for ever; orders come to an end; days pass.
SystemFairness ==
  /\ Fairness
  /\ \A j \in Watchers : WF_vars(WatchFinish(j))
  /\ WF_vars(CleanupStep)
  /\ SF_vars(QueryAnswered)
  /\ WF_vars(OrderMoves)
  /\ WF_vars(Tick /\ UNCHANGED schedulerVars)

SystemFairSpec == SystemSpec /\ SystemFairness

-----------------------------------------------------------------------------
(* Properties. *)

Books == Seq(BrokerStatuses \cup {"NONE"})

SystemTypeOK ==
  /\ TypeOK
  /\ watch \in [Watchers -> [intent : SellIntents, read : PendingLists] \cup {None}]
  /\ cleanup = None \/
     cleanup \in [step : {"retry", "read", "close"}, now : Nat, read : PendingLists, orders : Books]

\* Every packet anyone holds is one that some step wrote whole: what its status
\* promises (a claim, an order placed for this very intent) is there.
Coherent(i, p) ==
  p # None =>
    /\ p.approval \in 1..approvals[i]
    /\ p.status = "approved" => p.claim = None
    /\ p.status \in {"claimed", "submitted", "partial_filled"} => p.claim # None
    /\ p.status \in {"approved", "claimed"} => p.order = 0
    /\ p.status \in {"submitted", "partial_filled"} => p.order > 0
    /\ p.order > 0 => p.order \in 1..Len(calls) /\ calls[p.order].intent = i

CoherentList(list) ==
  \A i \in Intents :
    /\ Coherent(i, list[i])
    /\ list[i] # None => list[i].status \in OpenStatuses

\* Lost updates undo whole steps and never mix them: in the file, and in every
\* list a handler or a job has read, no packet is torn and none is closed.
RecordsCoherent ==
  /\ CoherentList(pending)
  /\ \A i \in Intents : Coherent(i, history[i])
  /\ api # None => CoherentList(api.read)
  /\ \A j \in Watchers : watch[j] # None => CoherentList(watch[j].read)
  /\ cleanup # None => CoherentList(cleanup.read)

\* Whatever is lost, revived or retried on the way, the list is empty in the end
\* and stays so: the cleanup closes what nobody else does.
EveryIntentCloses == <>[](\A i \in Intents : pending[i] = None)

\* No two gateways take the same approval of an intent to the broker.
NoDuplicateClaim ==
  \A g, h \in Gateways :
    /\ wpc[g] = "submit"
    /\ wpc[h] = "submit"
    /\ cur[g].intent = cur[h].intent
    /\ cur[g].approval = cur[h].approval
    => g = h

\* When the cleanup ends, no intent it read as a day old and not yet submitted
\* stays on the list as it was.
CleanupLeavesNothingStale ==
  [][cleanup # None /\ cleanup.step = "close" /\ cleanup' = None =>
       \A i \in Listed :
         /\ cleanup.read[i].status \in {"approved", "claimed"}
         /\ Aged(cleanup.read[i])
         => pending'[i] # cleanup.read[i]]_vars

\* An order the broker took shows on its intent in the end: by its receipt, or
\* by what the cleanup makes of the broker's order book.
OrdersRecovered ==
  \A k \in 1..MaxCalls :
    [](k <= Len(calls) /\ calls[k].broker # "NONE" =>
         <>(k \in receipts \/ \E i \in Intents : history[i] # None /\ history[i].order = k))

=============================================================================
