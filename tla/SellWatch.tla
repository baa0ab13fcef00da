------------------------------ MODULE SellWatch ------------------------------
(***************************************************************************)
(* The position watches of the scheduler.  The fast watch runs every three *)
(* seconds, the deep watch every thirty; each looks at every position and  *)
(* sells on a signal of its own, straight at the broker (local plane) or   *)
(* by an intent for the Windows gateway (gateway plane).                   *)
(*                                                                         *)
(* What keeps them from selling the same position twice differs.  The fast *)
(* watch marks what it sold in its tracker; marks live 600 seconds and, in *)
(* the local plane, are replaced by the broker's open sells once in 20     *)
(* seconds.  The deep watch looks at the order journal, which holds only   *)
(* orders placed straight at the broker.  The tracker is written back when *)
(* a scan ends, the journal with every order, as a whole list read before. *)
(*                                                                         *)
(* Quantities are in board lots; odd lots are left out.                    *)
(***************************************************************************)
EXTENDS Naturals, Sequences, FiniteSets, FiniteSetsExt

CONSTANTS
  Symbols,     \* the positions' symbols
  Lots,        \* board lots of each position at the start
  Deployments, \* how the program may be deployed
  MaxSells,    \* bound: how many sells in any deployment
  None

\* plane: the execution plane.  stock: the symbols held at the start.  jobs:
\* which jobs run.  ratios: what a signal may ask to sell.  signals: symbols
\* whose sell signal stays while they are held.  faults: what may go wrong.
\* maxFaults and maxSells: the bounds of the deployment, how many faults and
\* how many sells.
ASSUME SellWatchAssumption ==
  /\ Lots \in Nat /\ MaxSells \in Nat
  /\ None \notin {"fresh", "old"}
  /\ Deployments \subseteq
       [plane : {"local", "gateway"}, stock : SUBSET Symbols,
        jobs : SUBSET {"fast", "deep", "reconcile"}, ratios : SUBSET {"all", "half"},
        signals : SUBSET Symbols, faults : SUBSET {"abort", "query", "unheard", "cancel"},
        maxFaults : Nat, maxSells : 0..MaxSells]

VARIABLES
  deployed, \* the deployment, which does not change
  held,     \* lots held of each symbol
  sells,    \* every sell so far, queued for the gateway or at the broker
  tracker,  \* the fast watch's tracker, as its state file has it
  journal,  \* the order journal: what it says of the sells it lists
  fast,     \* the fast scan, in progress or not
  deep,     \* the deep scan, in progress or not
  recon,    \* the reconciliation in progress: the journal it will write
  faults    \* how many faults there were

vars == <<deployed, held, sells, tracker, journal, fast, deep, recon, faults>>

Unfinished == {"queued", "open"}
SellStatuses == Unfinished \cup {"filled", "cancelled", "rejected"}

\* "young" until 600 seconds after the sell was made.
Sells == [symbol : Symbols, by : {"fast", "deep"}, lots : 1..Lots,
          status : SellStatuses, young : BOOLEAN]

\* A mark is older than 600 seconds or it is not.
Marks == [Symbols -> {None, "fresh", "old"}]
Trackers == [marks : Marks, recent : BOOLEAN]   \* recent: refreshed within 20 seconds

\* The journal maps the sells it lists to the status it has for them.
Journals == UNION {[listed -> SellStatuses] : listed \in SUBSET (1..MaxSells)}

-----------------------------------------------------------------------------
(* The broker's side. *)

OpenAt(k) == sells[k].status = "open"
Frozen(s) ==
  MapThenSumSet(LAMBDA k : sells[k].lots, {k \in 1..Len(sells) : OpenAt(k) /\ sells[k].symbol = s})
Available(s) == held[s] - Frozen(s)

\* get_orders, kept to open sells.
\* Mutant: a cancelled sell counts as pending.
CancelledIsPending == {"open", "cancelled"}
PendingStatuses == {"open"}
BrokerOpenSells == {s \in Symbols : \E k \in 1..Len(sells) :
                                       sells[k].symbol = s /\ sells[k].status \in PendingStatuses}

Sell(s, by, lots, status) ==
  Append(sells, [symbol |-> s, by |-> by, lots |-> lots, status |-> status, young |-> TRUE])

\* _normalize_sell_quantity.
SellQuantity(available, ratio) ==
  IF ratio = "all" THEN available ELSE Max({available \div 2, 1})

Fault(kind) == kind \in deployed.faults /\ faults < deployed.maxFaults /\ faults' = faults + 1

-----------------------------------------------------------------------------
(* _append_scheduler_order_journal: the list is read, the sell appended, the *)
(* list written.  A watch holds what it read in .read until it writes.        *)

Listing(read, k) == [j \in DOMAIN read \cup {k} |-> IF j = k THEN "open" ELSE read[j]]

-----------------------------------------------------------------------------
(* The fast watch. *)

Positions == {s \in Symbols : held[s] > 0}

\* _load_fast_pending_sell_tracker: marks older than 600 seconds are dropped.
Loaded == [s \in Symbols |-> IF tracker.marks[s] = "fresh" THEN "fresh" ELSE None]
Marked(marks) == {s \in Symbols : marks[s] # None}

\* What the scan works with: its tracker, and the symbols it holds for being
\* sold.  "refreshed or open" falls back to the tracker when the broker has none.
StartScan(marks, recent, refreshed) ==
  fast' = [on        |-> TRUE,
           todo      |-> Positions,
           available |-> [s \in Symbols |-> Available(s)],
           marks     |-> marks,
           recent    |-> recent,
           open      |-> IF refreshed # {} THEN refreshed ELSE Marked(Loaded),
           order     |-> 0,
           read      |-> <<>>]

NoFastScan == [on |-> FALSE, todo |-> {}, available |-> [s \in Symbols |-> 0],
               marks |-> [s \in Symbols |-> None], recent |-> FALSE, open |-> {}, order |-> 0, read |-> <<>>]

Refreshes == deployed.plane = "local" /\ ~tracker.recent

FastBegin ==
  /\ "fast" \in deployed.jobs
  /\ ~fast.on
  /\ Positions # {}
  /\ \/ /\ ~Refreshes
        /\ StartScan(Loaded, tracker.recent, Marked(Loaded))
        /\ UNCHANGED faults
     \/ /\ Refreshes
        /\ StartScan([s \in Symbols |-> IF s \in BrokerOpenSells THEN "fresh" ELSE None],
                     TRUE, BrokerOpenSells)
        /\ UNCHANGED faults
     \/ /\ Refreshes
        /\ Fault("query")
        /\ StartScan(Loaded, TRUE, Marked(Loaded))
  /\ UNCHANGED <<deployed, held, sells, tracker, journal, deep, recon>>

FastAt(s) == fast.on /\ s \in fast.todo /\ fast.order = 0
FastLeaves(s) == fast.todo \ {s}

FastSellable(s) == fast.available[s] > 0 /\ s \notin fast.open /\ Len(sells) < deployed.maxSells

\* No signal, a sell under way, nothing available, or an exit review that says no.
FastHolds(s) ==
  /\ FastAt(s)
  /\ s \notin deployed.signals \/ ~FastSellable(s)
  /\ fast' = [fast EXCEPT !.todo = FastLeaves(s)]
  /\ UNCHANGED <<deployed, held, sells, tracker, journal, deep, recon, faults>>

\* Mutant: the symbol is not marked.
NotMarking(s) == fast.marks
Marking(s) == [fast.marks EXCEPT ![s] = "fresh"]

FastQueues(s, ratio) ==
  /\ deployed.plane = "gateway"
  /\ FastAt(s) /\ FastSellable(s)
  /\ sells' = Sell(s, "fast", SellQuantity(fast.available[s], ratio), "queued")
  /\ fast' = [fast EXCEPT !.todo = FastLeaves(s), !.marks = Marking(s)]
  /\ UNCHANGED <<deployed, held, tracker, journal, deep, recon, faults>>

\* place_order, which asks for the available lots again.
Accepted(s, lots) == lots <= Available(s)

FastPlaces(s, ratio) ==
  /\ deployed.plane = "local"
  /\ FastAt(s) /\ FastSellable(s)
  /\ Accepted(s, SellQuantity(fast.available[s], ratio))
  /\ sells' = Sell(s, "fast", SellQuantity(fast.available[s], ratio), "open")
  /\ fast' = [fast EXCEPT !.todo = FastLeaves(s), !.marks = Marking(s),
                          !.order = Len(sells) + 1, !.read = journal]
  /\ UNCHANGED <<deployed, held, tracker, journal, deep, recon, faults>>

FastJournals ==
  /\ fast.on
  /\ fast.order # 0
  /\ journal' = Listing(fast.read, fast.order)
  /\ fast' = [fast EXCEPT !.order = 0, !.read = <<>>]
  /\ UNCHANGED <<deployed, held, sells, tracker, deep, recon, faults>>

\* The call raises though the broker took the order: no mark, no journal.
FastUnheard(s, ratio) ==
  /\ deployed.plane = "local"
  /\ FastAt(s) /\ FastSellable(s)
  /\ Accepted(s, SellQuantity(fast.available[s], ratio))
  /\ Fault("unheard")
  /\ sells' = Sell(s, "fast", SellQuantity(fast.available[s], ratio), "open")
  /\ fast' = [fast EXCEPT !.todo = FastLeaves(s)]
  /\ UNCHANGED <<deployed, held, tracker, journal, deep, recon>>

\* Mutant: the tracker is written as it was loaded.
UnmarkedTracker == [marks |-> Loaded, recent |-> fast.recent]
SavedTracker == [marks |-> fast.marks, recent |-> fast.recent]

FastEnd ==
  /\ fast.on
  /\ fast.todo = {}
  /\ fast.order = 0
  /\ tracker' = SavedTracker
  /\ fast' = NoFastScan
  /\ UNCHANGED <<deployed, held, sells, journal, deep, recon, faults>>

\* An exception in the middle of the scan, or the process dies: no tracker.
FastAbort ==
  /\ fast.on
  /\ Fault("abort")
  /\ fast' = NoFastScan
  /\ UNCHANGED <<deployed, held, sells, tracker, journal, deep, recon>>

-----------------------------------------------------------------------------
(* The deep watch.  The journal is read at the scan's first signal. *)

NoDeepScan == [on |-> FALSE, todo |-> {}, available |-> [s \in Symbols |-> 0],
               loaded |-> FALSE, open |-> {}, order |-> 0, read |-> <<>>]

DeepBegin ==
  /\ "deep" \in deployed.jobs
  /\ ~deep.on
  /\ Positions # {}
  /\ deep' = [on        |-> TRUE,
              todo      |-> Positions,
              available |-> [s \in Symbols |-> Available(s)],
              loaded    |-> FALSE,
              open      |-> {},
              order     |-> 0,
              read      |-> <<>>]
  /\ UNCHANGED <<deployed, held, sells, tracker, journal, fast, recon, faults>>

\* Orders of which the journal's last word is not final.
JournalOpenSells == {sells[k].symbol : k \in {j \in DOMAIN journal : journal[j] \in PendingStatuses}}

DeepOpen == IF deep.loaded THEN deep.open ELSE JournalOpenSells

DeepAt(s) == deep.on /\ s \in deep.todo /\ deep.order = 0

DeepMoves(s, order, read) ==
  deep' = [deep EXCEPT !.todo = @ \ {s}, !.loaded = TRUE, !.open = DeepOpen,
                       !.order = order, !.read = read]

\* No signal: the journal is not looked at.
DeepHolds(s) ==
  /\ DeepAt(s)
  /\ s \notin deployed.signals
  /\ deep' = [deep EXCEPT !.todo = @ \ {s}]
  /\ UNCHANGED <<deployed, held, sells, tracker, journal, fast, recon, faults>>

\* Mutant: sells under way are not asked for.
DeepSellableAnyway(s) == deep.available[s] > 0 /\ Len(sells) < deployed.maxSells
DeepSellable(s) == deep.available[s] > 0 /\ s \notin DeepOpen /\ Len(sells) < deployed.maxSells

\* A signal on what may not be sold, or an exit review that says no.
DeepSkips(s) ==
  /\ DeepAt(s)
  /\ s \notin deployed.signals \/ ~DeepSellable(s)
  /\ DeepMoves(s, 0, <<>>)
  /\ UNCHANGED <<deployed, held, sells, tracker, journal, fast, recon, faults>>

DeepQueues(s, ratio) ==
  /\ deployed.plane = "gateway"
  /\ DeepAt(s) /\ DeepSellable(s)
  /\ sells' = Sell(s, "deep", SellQuantity(deep.available[s], ratio), "queued")
  /\ DeepMoves(s, 0, <<>>)
  /\ UNCHANGED <<deployed, held, tracker, journal, fast, recon, faults>>

DeepPlaces(s, ratio) ==
  /\ deployed.plane = "local"
  /\ DeepAt(s) /\ DeepSellable(s)
  /\ Accepted(s, SellQuantity(deep.available[s], ratio))
  /\ sells' = Sell(s, "deep", SellQuantity(deep.available[s], ratio), "open")
  /\ DeepMoves(s, Len(sells) + 1, journal)
  /\ UNCHANGED <<deployed, held, tracker, journal, fast, recon, faults>>

DeepJournals ==
  /\ deep.on
  /\ deep.order # 0
  /\ journal' = Listing(deep.read, deep.order)
  /\ deep' = [deep EXCEPT !.order = 0, !.read = <<>>]
  /\ UNCHANGED <<deployed, held, sells, tracker, fast, recon, faults>>

DeepEnd ==
  /\ deep.on
  /\ deep.todo = {}
  /\ deep.order = 0
  /\ deep' = NoDeepScan
  /\ UNCHANGED <<deployed, held, sells, tracker, journal, fast, recon, faults>>

-----------------------------------------------------------------------------
(* ExecutionReconciliationService.reconcile, in the API process. *)

Reconciled == [k \in DOMAIN journal |-> sells[k].status]

ReconcileBegin ==
  /\ "reconcile" \in deployed.jobs
  /\ recon = None
  /\ recon' = [journal |-> Reconciled]
  /\ UNCHANGED <<deployed, held, sells, tracker, journal, fast, deep, faults>>

ReconcileEnd ==
  /\ recon # None
  /\ journal' = recon.journal
  /\ recon' = None
  /\ UNCHANGED <<deployed, held, sells, tracker, fast, deep, faults>>

-----------------------------------------------------------------------------
(* Broker, gateway worker, and time. *)

\* A worker submits a queued sell; the adapter refuses more than is available.
WorkerSubmits(k) ==
  /\ k \in 1..Len(sells)
  /\ sells[k].status = "queued"
  /\ sells' = [sells EXCEPT ![k].status =
                 IF Accepted(sells[k].symbol, sells[k].lots) THEN "open" ELSE "rejected"]
  /\ UNCHANGED <<deployed, held, tracker, journal, fast, deep, recon, faults>>

Fill(k) ==
  /\ k \in 1..Len(sells)
  /\ OpenAt(k)
  /\ sells' = [sells EXCEPT ![k].status = "filled"]
  /\ held' = [held EXCEPT ![sells[k].symbol] = @ - sells[k].lots]
  /\ UNCHANGED <<deployed, tracker, journal, fast, deep, recon, faults>>

Cancel(k) ==
  /\ k \in 1..Len(sells)
  /\ OpenAt(k)
  /\ Fault("cancel")
  /\ sells' = [sells EXCEPT ![k].status = "cancelled"]
  /\ UNCHANGED <<deployed, held, tracker, journal, fast, deep, recon>>

\* 20 seconds after a refresh, and 600 seconds after a mark or a sell: between
\* scans, which are short.
RefreshDue ==
  /\ ~fast.on
  /\ tracker.recent
  /\ tracker' = [tracker EXCEPT !.recent = FALSE]
  /\ UNCHANGED <<deployed, held, sells, journal, fast, deep, recon, faults>>

Ages(s) ==
  /\ ~fast.on
  /\ tracker.marks[s] = "fresh" \/ \E k \in 1..Len(sells) : sells[k].symbol = s /\ sells[k].young
  /\ tracker' = [marks  |-> [tracker.marks EXCEPT ![s] = IF @ = None THEN None ELSE "old"],
                 recent |-> FALSE]
  /\ sells' = [k \in 1..Len(sells) |->
                 IF sells[k].symbol = s THEN [sells[k] EXCEPT !.young = FALSE] ELSE sells[k]]
  /\ UNCHANGED <<deployed, held, journal, fast, deep, recon, faults>>

-----------------------------------------------------------------------------
Init ==
  /\ deployed \in Deployments
  /\ held = [s \in Symbols |-> IF s \in deployed.stock THEN Lots ELSE 0]
  /\ sells = <<>>
  /\ tracker = [marks |-> [s \in Symbols |-> None], recent |-> FALSE]
  /\ journal = <<>>
  /\ fast = NoFastScan
  /\ deep = NoDeepScan
  /\ recon = None
  /\ faults = 0

FastStep ==
  \/ FastBegin \/ FastJournals \/ FastEnd
  \/ \E s \in Symbols : FastHolds(s) \/ \E r \in deployed.ratios : FastQueues(s, r) \/ FastPlaces(s, r)

DeepStep ==
  \/ DeepBegin \/ DeepJournals \/ DeepEnd
  \/ \E s \in Symbols : \/ DeepHolds(s) \/ DeepSkips(s)
                        \/ \E r \in deployed.ratios : DeepQueues(s, r) \/ DeepPlaces(s, r)

Reconcile == ReconcileBegin \/ ReconcileEnd

Disturbance == FastAbort \/ \E s \in Symbols, r \in deployed.ratios : FastUnheard(s, r)

Outside == \/ \E k \in 1..MaxSells : WorkerSubmits(k) \/ Fill(k) \/ Cancel(k)
           \/ RefreshDue
           \/ \E s \in Symbols : Ages(s)

Next == FastStep \/ DeepStep \/ Reconcile \/ Disturbance \/ Outside

Spec == Init /\ [][Next]_vars

-----------------------------------------------------------------------------
(* Properties. *)

FastScans == [on : BOOLEAN, todo : SUBSET Symbols, available : [Symbols -> 0..Lots], marks : Marks,
              recent : BOOLEAN, open : SUBSET Symbols, order : 0..MaxSells, read : Journals]
DeepScans == [on : BOOLEAN, todo : SUBSET Symbols, available : [Symbols -> 0..Lots], loaded : BOOLEAN,
              open : SUBSET Symbols, order : 0..MaxSells, read : Journals]

\* Every variable has its type.
TypeOK ==
  /\ deployed \in Deployments
  /\ held \in [Symbols -> 0..Lots]
  /\ Len(sells) <= deployed.maxSells
  /\ \A k \in 1..Len(sells) : sells[k] \in Sells
  /\ tracker \in Trackers
  /\ journal \in Journals
  /\ fast \in FastScans
  /\ deep \in DeepScans
  /\ recon = None \/ recon \in [journal : Journals]
  /\ faults \in 0..deployed.maxFaults

SellsOf(s, by) == {k \in 1..Len(sells) : sells[k].symbol = s /\ sells[k].by = by}

\* Nothing but a cancelled order goes wrong: calls are answered and scans end.
Undisturbed == deployed.faults \subseteq {"cancel"}

\* Straight at the broker, the fast watch never has two sells of a symbol open,
\* whatever the deep watch sells beside it.
OneOpenFastSell ==
  deployed.plane = "local" /\ Undisturbed =>
    \A s \in Symbols : Cardinality({k \in SellsOf(s, "fast") : OpenAt(k)}) <= 1

\* For the gateway, two sells of a symbol by the fast watch are 600 seconds apart.
FastSellsSpaced ==
  deployed.plane = "gateway" /\ Undisturbed =>
    \A s \in Symbols : Cardinality({k \in SellsOf(s, "fast") : sells[k].young}) <= 1

\* Straight at the broker, the deep watch alone never has two sells of a symbol open.
OneOpenDeepSell ==
  deployed.plane = "local" /\ deployed.jobs \subseteq {"deep"} /\ Undisturbed =>
    \A s \in Symbols : Cardinality({k \in SellsOf(s, "deep") : OpenAt(k)}) <= 1

\* "pending sell tracking avoids repeated submission": a symbol with a sell
\* under way is not sold again.
NoRepeatedSubmission ==
  \A s \in Symbols :
    Cardinality({k \in SellsOf(s, "fast") : sells[k].status \in Unfinished}) <= 1

\* The watch goes on scanning; refreshes and marks fall due; the broker ends
\* its orders; the worker works; the operator reconciles from time to time.
FairSpec ==
  /\ Spec
  /\ WF_vars(FastStep)
  /\ WF_vars(DeepStep)
  /\ WF_vars(ReconcileBegin) /\ WF_vars(ReconcileEnd)
  /\ SF_vars(RefreshDue)
  /\ \A s \in Symbols : SF_vars(Ages(s))
  /\ \A k \in 1..MaxSells : WF_vars(WorkerSubmits(k)) /\ WF_vars(Fill(k))

\* A position whose signal stays is sold in the end, though orders are cancelled.
PersistentSignalSells == \A s \in Symbols : <>(s \in deployed.signals => held[s] = 0)

=============================================================================
