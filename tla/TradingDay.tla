----------------------------- MODULE TradingDay -----------------------------
(***************************************************************************)
(* One trading day's buys.  Refreshing or finalising the discussion sends  *)
(* the approved intents out by itself; an operator may dispatch them too,  *)
(* or preview them.  Each dispatch prechecks the pool anew, and all it     *)
(* learns of the buys already made is the order journal; it adds its own   *)
(* orders to the journal at its end, with one record per date of what it   *)
(* did.  The handlers run one at a time; the process may be killed between *)
(* two steps of one.                                                       *)
(*                                                                         *)
(* Orders go straight to the broker, whose adapter refuses a request id it *)
(* has sent, or on the gateway's list.  A scan of the broker's orders adds *)
(* those the journal lacks: when the process starts, with the readiness    *)
(* check, and on request in a thread beside the handlers.                  *)
(*                                                                         *)
(* The precheck is any plan that keeps the two limits ExecutionPrecheck is *)
(* shown to keep.  Request ids are one to one with symbols on one date.    *)
(***************************************************************************)
EXTENDS Integers, Sequences, FiniteSets, FiniteSetsExt

CONSTANTS
  Symbols,
  MaxLots,    \* bound: lots of one order
  Limit,      \* lots the day may newly buy
  Plane,      \* execution_plane: "local" or "gateway"
  Switches,   \* what settings.live_trade_enabled may be
  Faults,     \* which of "crash", "unheard", "scan" happen
  MaxFaults,  \* bound
  MaxOrders,  \* bound: orders the broker may take
  None

ASSUME TradingDayAssumption ==
  /\ IsFiniteSet(Symbols)
  /\ MaxLots \in Nat \ {0}
  /\ Limit \in Nat
  /\ Plane \in {"local", "gateway"}
  /\ Switches \subseteq BOOLEAN
  /\ Faults \subseteq {"crash", "unheard", "scan"}
  /\ MaxFaults \in Nat
  /\ MaxOrders \in Nat

Journal == UNION {[orders -> {"today", "unknown"}] : orders \in SUBSET (1..MaxOrders)}

\* A dispatch in progress.
Dispatch ==
  [apply : BOOLEAN, plan : [Symbols -> 0..MaxLots], todo : SUBSET Symbols,
   blocked : BOOLEAN, bridgeDown : BOOLEAN,
   orders : SUBSET (1..MaxOrders), queued : Nat, previews : Nat,
   step : {"intents", "journal"}, read : Journal]

ASSUME NoneAssumption == None \notin Dispatch

VARIABLES
  up,        \* is the API process running?
  stop,      \* emergency_stop
  enabled,   \* settings.live_trade_enabled
  job,       \* the dispatch in progress
  record,    \* execution_dispatch:{date}
  journal,   \* execution_order_journal: the dates known of the listed orders
  sent,      \* the adapter's record of request ids
  book,      \* the orders the broker took, and whether the adapter heard so
  queued,    \* lots on the gateway's list
  counted,   \* lots bought in execution_intent_history
  scan,      \* the scan in a thread: the orders and the journal it has read
  bridge,    \* the bridge's last health report, and the guardian's word on it
  faults

accounts == <<journal, sent, book, queued, counted, record>>
switches == <<stop, enabled>>
dayVars == <<up, switches, job, accounts, scan, bridge, faults>>

Fault(f) == f \in Faults /\ faults < MaxFaults /\ faults' = faults + 1

-----------------------------------------------------------------------------
(* The precheck's view and its answer. *)

Lots(plan) == MapThenSumSet(LAMBDA s : plan[s], Symbols)
LotsOf(b, orders) == MapThenSumSet(LAMBDA k : b[k].lots, orders)

\* _resolve_daily_new_exposure: orders of this date, and the gateway's history.
\* Mutant: the gateway's history alone.
GatewayExposure == counted
Exposure == counted + LotsOf(book, {k \in DOMAIN journal : journal[k] = "today"})

\* What a precheck may approve: nothing under an emergency stop, and otherwise
\* what NewExposureKept of ExecutionPrecheck says.
Plans ==
  {p \in [Symbols -> 0..MaxLots] : Lots(p) > 0 => ~stop /\ Exposure + Lots(p) <= Limit}

Approved(plan) == {s \in Symbols : plan[s] > 0}

-----------------------------------------------------------------------------
(* _build_execution_dispatch_receipts. *)

\* submit_block_reason: the switch is looked at on the local plane only, and
\* what the guardian says on neither.
SubmitBlocked ==
  \/ stop
  \/ Plane = "gateway" /\ ~bridge.reachable
  \/ Plane = "local" /\ ~enabled

\* A dispatch begins: the plan, narrowed to the chosen intents.
Begin(apply, chosen) ==
  /\ up
  /\ job = None
  /\ \E plan \in Plans :
       job' = [apply |-> apply, plan |-> plan, todo |-> Approved(plan) \cap chosen,
               blocked |-> apply /\ SubmitBlocked, bridgeDown |-> bridge.blocked,
               orders |-> {}, queued |-> 0, previews |-> 0, step |-> "intents", read |-> <<>>]
  /\ UNCHANGED <<up, switches, accounts, scan, bridge, faults>>

\* dispatch_discussion_execution_intents; no intent named means all of them.
Manual == \E apply \in BOOLEAN, chosen \in (SUBSET Symbols) \ {{}} : Begin(apply, chosen)

\* _maybe_auto_dispatch_execution_intents, of a refresh in the session or of a
\* finalisation, when a first precheck leaves something to buy.
Done == record # None /\ record.apply /\ record.status \in {"submitted", "queued_for_gateway"}

AutoDispatch ==
  /\ \E plan \in Plans : Approved(plan) # {}
  /\ ~Done
  /\ Begin(TRUE, Symbols)

Working(step) == up /\ job # None /\ job.step = step

\* An intent that is only shown, or is blocked.
Hold(s) ==
  /\ Working("intents")
  /\ s \in job.todo
  /\ ~job.apply \/ job.blocked
  /\ job' = [job EXCEPT !.todo = @ \ {s}, !.previews = IF job.apply THEN @ ELSE @ + 1]
  /\ UNCHANGED <<up, switches, accounts, scan, bridge, faults>>

Goes(s, plane) ==
  /\ Working("intents")
  /\ s \in job.todo
  /\ Plane = plane
  /\ job.apply /\ ~job.blocked

\* enqueue_execution_gateway_intent: a packet of the same id is replaced, and
\* the history has one entry more.
Enqueue(s) ==
  /\ Goes(s, "gateway")
  /\ queued' = [queued EXCEPT ![s] = job.plan[s]]
  /\ counted' = counted + job.plan[s]
  /\ job' = [job EXCEPT !.todo = @ \ {s}, !.queued = @ + 1]
  /\ UNCHANGED <<up, switches, journal, sent, book, record, scan, bridge, faults>>

Takes(s, heard) ==
  /\ Len(book) < MaxOrders
  /\ book' = Append(book, [symbol |-> s, lots |-> job.plan[s], heard |-> heard])

\* Mutant: the request id is not kept.
Unmarked(s) == UNCHANGED sent
Marked(s) == sent' = sent \cup {s}

\* place_order.
PlaceOrder(s) ==
  /\ Goes(s, "local")
  /\ s \notin sent
  /\ Takes(s, TRUE)
  /\ Marked(s)
  /\ job' = [job EXCEPT !.todo = @ \ {s}, !.orders = @ \cup {Len(book')}]
  /\ UNCHANGED <<up, switches, journal, record, queued, counted, scan, bridge, faults>>

\* The id was sent before, the cash does not suffice, or the broker refuses.
PlaceRefused(s) ==
  /\ Goes(s, "local")
  /\ job' = [job EXCEPT !.todo = @ \ {s}]
  /\ UNCHANGED <<up, switches, accounts, scan, bridge, faults>>

\* The broker takes the order and its answer is lost: dispatch_failed.
PlaceUnheard(s) ==
  /\ Goes(s, "local")
  /\ s \notin sent
  /\ Fault("unheard")
  /\ Takes(s, FALSE)
  /\ job' = [job EXCEPT !.todo = @ \ {s}]
  /\ UNCHANGED <<up, switches, journal, sent, record, queued, counted, scan, bridge>>

\* The retry of _submit_order_with_retry sends an unheard order again.
Retried(s) ==
  /\ Goes(s, "local")
  /\ s \notin sent
  /\ Fault("unheard")
  /\ Takes(s, FALSE)
  /\ UNCHANGED <<up, switches, job, journal, sent, record, queued, counted, scan, bridge>>

Status ==
  IF job.orders # {} THEN "submitted"
  ELSE IF job.queued > 0 THEN "queued_for_gateway"
  ELSE IF job.previews > 0 THEN "preview" ELSE "blocked"

\* _persist_execution_dispatch: the journal is read, the record written, then the
\* journal, as it was read and with the orders of this dispatch.
PersistRecord ==
  /\ Working("intents")
  /\ job.todo = {}
  /\ record' = [apply |-> job.apply, status |-> Status]
  /\ job' = [job EXCEPT !.step = "journal", !.read = journal]
  /\ UNCHANGED <<up, switches, journal, sent, book, queued, counted, scan, bridge, faults>>

With(read, orders) ==
  [k \in DOMAIN read \cup orders |-> IF k \in orders THEN "today" ELSE read[k]]

PersistJournal ==
  /\ Working("journal")
  /\ journal' = With(job.read, job.orders)
  /\ job' = None
  /\ UNCHANGED <<up, switches, sent, book, queued, counted, record, scan, bridge, faults>>

-----------------------------------------------------------------------------
(* Recovery. *)

\* The orders of the broker that a journal lacks are added, without a date.
\* Mutant: they are not.
Unrecovered(j, orders) == j
Recovered(j, orders) ==
  [k \in DOMAIN j \cup orders |-> IF k \in DOMAIN j THEN j[k] ELSE "unknown"]

Recover == journal' = Recovered(journal, DOMAIN book)

\* With the readiness check, in its handler.
Readiness ==
  /\ up
  /\ job = None
  /\ Recover
  /\ UNCHANGED <<up, switches, job, sent, book, queued, counted, record, scan, bridge, faults>>

\* run_startup_recovery: in a thread, beside the handlers.
ScanRead ==
  /\ up
  /\ scan = None
  /\ Fault("scan")
  /\ scan' = [orders |-> DOMAIN book, journal |-> journal]
  /\ UNCHANGED <<up, switches, job, accounts, bridge>>

ScanWrite ==
  /\ up
  /\ scan # None
  /\ journal' = Recovered(scan.journal, scan.orders)
  /\ scan' = None
  /\ UNCHANGED <<up, switches, job, sent, book, queued, counted, record, bridge, faults>>

Crash ==
  /\ up
  /\ Fault("crash")
  /\ up' = FALSE
  /\ job' = None
  /\ scan' = None
  /\ UNCHANGED <<switches, accounts, bridge>>

\* The recovery runs before the first request is served.
Restart ==
  /\ ~up
  /\ up' = TRUE
  /\ Recover
  /\ UNCHANGED <<switches, job, sent, book, queued, counted, record, scan, bridge, faults>>

-----------------------------------------------------------------------------
(* The switches, and the bridge to Windows. *)

SetStop ==
  /\ up /\ job = None
  /\ stop' = ~stop
  /\ UNCHANGED <<up, enabled, job, accounts, scan, bridge, faults>>

ToggleLive ==
  /\ up /\ job = None
  /\ enabled' = ~enabled
  /\ enabled' \in Switches
  /\ UNCHANGED <<up, stop, job, accounts, scan, bridge, faults>>

\* The Windows side reports; a report grows old; the guardian of the scheduler's
\* process looks at its age and, when it is old, asks go_platform.
BridgeStep(next) ==
  /\ Plane = "gateway"
  /\ bridge' = next
  /\ UNCHANGED <<up, switches, job, accounts, scan, faults>>

Report == \E r \in BOOLEAN : BridgeStep([bridge EXCEPT !.reachable = r, !.old = FALSE])
ReportAges == BridgeStep([bridge EXCEPT !.old = TRUE])
Guards == \E probed \in BOOLEAN : BridgeStep([bridge EXCEPT !.blocked = bridge.old /\ ~probed])

-----------------------------------------------------------------------------
DayInit ==
  /\ up = TRUE
  /\ stop = FALSE
  /\ enabled \in Switches
  /\ job = None
  /\ record = None
  /\ journal = <<>>
  /\ sent = {}
  /\ book = <<>>
  /\ queued = [s \in Symbols |-> 0]
  /\ counted = 0
  /\ scan = None
  /\ bridge = [reachable |-> TRUE, old |-> FALSE, blocked |-> FALSE]
  /\ faults = 0

Dispatching ==
  \/ \E s \in Symbols :
       Hold(s) \/ Enqueue(s) \/ PlaceOrder(s) \/ PlaceRefused(s) \/ PlaceUnheard(s) \/ Retried(s)
  \/ PersistRecord \/ PersistJournal

DayNext ==
  \/ Manual \/ AutoDispatch \/ Dispatching
  \/ Readiness \/ ScanRead \/ ScanWrite
  \/ Crash \/ Restart
  \/ SetStop \/ ToggleLive
  \/ Report \/ ReportAges \/ Guards

DaySpec == DayInit /\ [][DayNext]_dayVars

\* A handler runs to its end, a killed process is started again, a scan ends,
\* and the readiness check comes round.
DayFairness == WF_dayVars(Dispatching) /\ WF_dayVars(Restart) /\ WF_dayVars(ScanWrite) /\ SF_dayVars(Readiness)
DayFairSpec == DaySpec /\ DayFairness

-----------------------------------------------------------------------------
(* Properties. *)

Statuses == {"submitted", "queued_for_gateway", "preview", "blocked"}
Orders == [symbol : Symbols, lots : Nat, heard : BOOLEAN]

\* Every variable has its type.
DayTypeOK ==
  /\ up \in BOOLEAN /\ stop \in BOOLEAN /\ enabled \in Switches
  /\ job \in Dispatch \cup {None}
  /\ record # None => record \in [apply : BOOLEAN, status : Statuses]
  /\ journal \in Journal
  /\ sent \subseteq Symbols
  /\ book \in Seq(Orders) /\ Len(book) \in 0..MaxOrders
  /\ queued \in [Symbols -> Nat] /\ counted \in Nat
  /\ scan # None => scan.orders \subseteq 1..MaxOrders /\ scan.journal \in Journal
  /\ bridge \in [reachable : BOOLEAN, old : BOOLEAN, blocked : BOOLEAN]
  /\ faults \in 0..MaxFaults

\* However many dispatches, previews and refreshes one day sees, by hand or by
\* themselves, what the broker and the gateway were made to buy stays within the
\* limit of new exposure, until a process dies, an answer is lost or a scan runs
\* beside a handler.
DayExposureKept == faults = 0 => LotsOf(book, DOMAIN book) + counted <= Limit

\* A symbol is bought once a day at most, orders without an answer aside: a
\* preview or a crash that loses the record of a dispatch does not repeat it.
OneBuyPerSymbol ==
  \A j, k \in DOMAIN book :
    book[j].heard /\ book[k].heard /\ book[j].symbol = book[k].symbol => j = k

\* Every order the broker took is in the journal in the end, though its answer
\* was lost, the process died before it wrote the journal, or a scan wrote over
\* it.
EveryOrderJournaled ==
  \A k \in 1..MaxOrders : [](k \in DOMAIN book => <>[](k \in DOMAIN journal))

\* "A broken bridge blocks the dispatch of new intents": a dispatch that begins
\* while the guardian blocks puts nothing on the gateway's list.
BlockedBridgeGetsNothing == [][queued' # queued => ~job.bridgeDown]_dayVars

\* With the live switch off no intent leaves, on either plane.
SwitchedOffGetsNothing == [][queued' # queued \/ book' # book => enabled]_dayVars

=============================================================================
