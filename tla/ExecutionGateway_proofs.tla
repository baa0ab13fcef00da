----------------------- MODULE ExecutionGateway_proofs -----------------------
(***************************************************************************)
(* What holds of the gateway's file though the scheduler writes it beside  *)
(* the API: the exclusive use of an approval is lost (GatewayApi_proofs    *)
(* has it of the API alone), but no packet is ever torn, whoever writes a  *)
(* list it read before, and no gateway sends an order twice.               *)
(***************************************************************************)
EXTENDS ExecutionGateway, GatewayApi_proofs

-----------------------------------------------------------------------------
(* Types. *)

SystemTypeInv == SystemTypeOK /\ Holding

\* The API's steps keep the types of what is theirs.
LEMMA ApiTypes ==
  ASSUME SystemTypeInv, Next, UNCHANGED schedulerVars
  PROVE  SystemTypeInv'
<1>1. TypeInv
  BY DEF SystemTypeInv, SystemTypeOK, TypeInv
<1>2. TypeInv'
  BY <1>1, TypeStep
<1> QED
  BY <1>2 DEF SystemTypeInv, SystemTypeOK, TypeInv, schedulerVars

\* A new packet, a packet given back and a settled packet are packets.
LEMMA ResetType ==
  ASSUME NEW p \in Packets
  PROVE  Reset(p) \in Packets
  BY DEF Reset, Packets, IntentStatuses, OpenStatuses

LEMMA SettleType ==
  ASSUME SystemTypeInv, cleanup # None, NEW p \in Packets
  PROVE  Settle(p) \in Packets
<1>1. cleanup.orders \in Books
  BY DEF SystemTypeInv, SystemTypeOK
<1>2. InBook(p) => cleanup.orders[p.order] \in BrokerStatuses
  BY <1>1 DEF InBook, Books
<1>3. Settled(p) \in IntentStatuses
  BY <1>2 DEF Settled, ORDER_STATUS_TO_INTENT_STATUS, Packets, IntentStatuses, OpenStatuses,
              TERMINAL_INTENT_STATUSES
<1> QED
  BY <1>3 DEF Settle, Packets

\* The watches' steps.
LEMMA WatchTypes ==
  ASSUME SystemTypeInv, WatchStep
  PROVE  SystemTypeInv'
<1> USE DEF SystemTypeInv, SystemTypeOK
<1>1. ASSUME NEW j \in Watchers, WatchBegin(j)
      PROVE  SystemTypeInv'
  <2>1. PICK i \in SellIntents : watch' = [watch EXCEPT ![j] = [intent |-> i, read |-> pending]]
    BY <1>1 DEF WatchBegin
  <2>2. watch' \in [Watchers -> [intent : SellIntents, read : PendingLists] \cup {None}]
    BY <2>1 DEF TypeOK
  <2> QED
    BY <1>1, <2>2 DEF WatchBegin, apiVars, storeVars, workerVars, TypeOK, Holding, Requested
<1>2. ASSUME NEW j \in Watchers, WatchFinish(j)
      PROVE  SystemTypeInv'
  <2> DEFINE i == watch[j].intent
  <2>1. i \in Intents /\ watch[j].read \in PendingLists
    BY <1>2, SchedulerAssumption DEF WatchFinish
  <2>2. NewPacket(i) \in Packets
    BY <2>1, NewPacketType
  <2>3. /\ pending' = [watch[j].read EXCEPT ![i] = NewPacket(i)]
        /\ history' = [history EXCEPT ![i] = NewPacket(i)]
        /\ approvals' = [approvals EXCEPT ![i] = @ + 1]
        /\ watch' = [watch EXCEPT ![j] = None]
        /\ UNCHANGED <<receipts, api, net, workerVars, calls, dispatched, day, faults, cleanup>>
    BY <1>2 DEF WatchFinish, Save
  <2>4. pending' \in PendingLists /\ history' \in PendingLists /\ approvals' \in [Intents -> Nat]
    BY <2>1, <2>2, <2>3 DEF TypeOK, PendingLists
  <2>5. watch' \in [Watchers -> [intent : SellIntents, read : PendingLists] \cup {None}]
    BY <2>3
  <2> QED
    BY <2>3, <2>4, <2>5 DEF workerVars, TypeOK, Holding, Requested
<1> QED
  BY <1>1, <1>2 DEF WatchStep

\* The broker's orders move and stay the same orders.
LEMMA OrderMovesFacts ==
  ASSUME SystemTypeInv, OrderMoves
  PROVE  /\ calls' \in Seq(Submissions)
         /\ Len(calls') = Len(calls)
         /\ \A k \in 1..Len(calls) : /\ calls'[k].intent = calls[k].intent
                                     /\ calls'[k].approval = calls[k].approval
                                     /\ calls'[k].gateway = calls[k].gateway
                                     /\ calls'[k].reported = calls[k].reported
<1>1. PICK k \in 1..Len(calls) :
        \E o \in BrokerMoves[calls[k].broker] :
          calls[k].broker # "NONE" /\ calls' = [calls EXCEPT ![k].broker = o]
  BY DEF OrderMoves
<1>2. calls \in Seq(Submissions) /\ calls[k] \in Submissions /\ Len(calls) \in Nat
  BY DEF SystemTypeInv, SystemTypeOK, TypeOK
<1>3. calls[k].broker \in BrokerStatuses
  BY <1>1, <1>2 DEF Submissions
<1>4. BrokerMoves[calls[k].broker] \subseteq BrokerStatuses
  BY <1>3 DEF BrokerMoves, BrokerStatuses
<1>5. PICK o \in BrokerStatuses : calls' = [calls EXCEPT ![k].broker = o]
  BY <1>1, <1>4
<1>6. calls' = [calls EXCEPT ![k] = [calls[k] EXCEPT !.broker = o]]
  BY <1>5
<1>7. [calls[k] EXCEPT !.broker = o] \in Submissions
  BY <1>2 DEF Submissions
<1>8. calls' \in Seq(Submissions) /\ Len(calls') = Len(calls)
  BY <1>2, <1>6, <1>7
<1>9. ASSUME NEW j \in 1..Len(calls)
      PROVE  /\ calls'[j].intent = calls[j].intent
             /\ calls'[j].approval = calls[j].approval
             /\ calls'[j].gateway = calls[j].gateway
             /\ calls'[j].reported = calls[j].reported
  BY <1>2, <1>6 DEF Submissions
<1> QED
  BY <1>8, <1>9

LEMMA OrderMovesTypes ==
  ASSUME SystemTypeInv, OrderMoves
  PROVE  SystemTypeInv'
<1>1. UNCHANGED <<storeVars, approvals, api, net, workerVars, dispatched, day, faults, schedulerVars>>
  BY DEF OrderMoves
<1> QED
  BY <1>1, OrderMovesFacts
     DEF SystemTypeInv, SystemTypeOK, TypeOK, Holding, Requested, storeVars, workerVars,
         schedulerVars

\* The lists a cleanup reads and writes.
LEMMA CleanupTypes ==
  ASSUME SystemTypeInv, CleanupStep
  PROVE  SystemTypeInv'
<1> DEFINE CleanupType == [step : {"retry", "read", "close"}, now : Nat, read : PendingLists,
                           orders : Books]
<1>0. TypeOK /\ Holding /\ (cleanup # None => cleanup \in CleanupType)
  BY DEF SystemTypeInv, SystemTypeOK
<1>1. ASSUME pending' \in PendingLists, history' \in PendingLists,
             cleanup' = None \/ cleanup' \in CleanupType,
             UNCHANGED <<receipts, approvals, api, net, workerVars, calls, dispatched, day, faults, watch>>
      PROVE  SystemTypeInv'
  BY <1>1 DEF SystemTypeInv, SystemTypeOK, TypeOK, Holding, Requested, workerVars
<1>2. CASE BeginCleanup
  <2>1. <<>> \in Books
    BY DEF Books
  <2>2. cleanup' \in CleanupType
    BY <1>0, <1>2, <2>1 DEF BeginCleanup, TypeOK
  <2> QED
    BY <1>0, <1>1, <1>2, <2>2 DEF BeginCleanup, apiVars, storeVars, TypeOK
<1>3. CASE RetryStale
  <2>1. cleanup \in CleanupType /\ cleanup' = [cleanup EXCEPT !.step = "read"]
    BY <1>0, <1>3 DEF RetryStale
  <2>2. cleanup' \in CleanupType
    BY <2>1
  <2>3. PICK stale \in SUBSET {i \in Intents : cleanup.read[i] # None /\ cleanup.read[i].status = "claimed"} :
          IF stale = {} THEN UNCHANGED <<pending, history>>
          ELSE /\ pending' = [i \in Intents |-> IF i \in stale THEN Reset(cleanup.read[i])
                                                               ELSE cleanup.read[i]]
               /\ history' = [i \in Intents |-> IF i \in stale THEN Reset(cleanup.read[i])
                                                               ELSE history[i]]
    BY <1>3 DEF RetryStale, Save
  <2>4. \A i \in stale : Reset(cleanup.read[i]) \in Packets
    BY <2>1, <2>3, ResetType DEF PendingLists
  <2>5. /\ [i \in Intents |-> IF i \in stale THEN Reset(cleanup.read[i]) ELSE cleanup.read[i]]
             \in PendingLists
        /\ [i \in Intents |-> IF i \in stale THEN Reset(cleanup.read[i]) ELSE history[i]]
             \in PendingLists
    <3>1. cleanup.read \in PendingLists /\ history \in PendingLists
      BY <1>0, <2>1 DEF TypeOK
    <3> HIDE DEF CleanupType
    <3> QED
      BY <2>4, <3>1 DEF PendingLists
  <2>6. pending' \in PendingLists /\ history' \in PendingLists
    BY <1>0, <2>3, <2>5 DEF TypeOK
  <2> QED
    BY <1>1, <1>3, <2>2, <2>6 DEF RetryStale
<1>4. CASE QueryAnswered \/ QueryFailed
  <2>1. \A k \in 1..Len(calls) : calls[k].broker \in BrokerStatuses \cup {"NONE"}
    <3>1. \A k \in 1..Len(calls) : calls[k] \in Submissions
      BY <1>0 DEF TypeOK
    <3> QED
      BY <3>1 DEF Submissions
  <2>2. OrderBook \in Books /\ <<>> \in Books
    BY <1>0, <2>1 DEF OrderBook, Books, TypeOK
  <2>3. PICK orders \in Books : QueryOrders(orders)
    BY <1>4, <2>2 DEF QueryAnswered, QueryFailed
  <2>4. cleanup \in CleanupType /\ cleanup' = [cleanup EXCEPT !.step = "close", !.read = pending,
                                                             !.orders = orders]
    BY <1>0, <2>3 DEF QueryOrders
  <2>5. cleanup' \in CleanupType
    BY <1>0, <2>4 DEF TypeOK
  <2> QED
    BY <1>0, <1>1, <2>3, <2>5 DEF QueryOrders, apiVars, storeVars, TypeOK
<1>5. ASSUME FinishCleanup \/ AbortCleanup
      PROVE  SystemTypeInv'
  <2>1. cleanup # None /\ cleanup \in CleanupType /\ cleanup' = None
    BY <1>0, <1>5 DEF FinishCleanup, AbortCleanup, EndCleanup
  <2>2. \A i \in Listed : i \in Intents /\ Settle(cleanup.read[i]) \in Packets
    BY <2>1, SettleType DEF Listed, PendingLists
  <2>3. pending' \in PendingLists
    <3>1. [i \in Intents |-> IF i \in Listed \ Closing THEN Settle(cleanup.read[i]) ELSE None]
            \in PendingLists
      BY <2>2 DEF PendingLists
    <3> QED
      BY <1>0, <1>5, <3>1 DEF FinishCleanup, AbortCleanup, Save, TypeOK
  <2>4. PICK closed \in SUBSET Closing : Record(closed)
    BY <1>5 DEF FinishCleanup, AbortCleanup
  <2>5. history' \in PendingLists
    <3>1. closed \subseteq Listed
      BY <2>4 DEF Closing
    <3> QED
      BY <1>0, <2>2, <2>4, <3>1 DEF Record, TypeOK, PendingLists
  <2> QED
    BY <1>1, <1>5, <2>1, <2>3, <2>5 DEF FinishCleanup, AbortCleanup, EndCleanup
<1> QED
  BY <1>2, <1>3, <1>4, <1>5 DEF CleanupStep

LEMMA SystemTypeStep ==
  ASSUME SystemTypeInv, [SystemNext]_vars
  PROVE  SystemTypeInv'
<1>1. CASE UNCHANGED vars
  BY <1>1 DEF vars, apiVars, storeVars, workerVars, schedulerVars, SystemTypeInv, SystemTypeOK, TypeOK,
              Holding, Requested
<1> QED
  BY <1>1, ApiTypes, WatchTypes, OrderMovesTypes, CleanupTypes DEF SystemNext, GatewayStep

\* At the start.
LEMMA SystemTypeInit == SystemInit => SystemTypeInv
  BY InitTypeInv DEF SystemInit, SystemTypeInv, SystemTypeOK, TypeInv

\* The variables of both processes have their types in every reachable state.
THEOREM SystemTypeCorrect == SystemSpec => []SystemTypeInv
<1> QED
  BY SystemTypeInit, SystemTypeStep, PTL DEF SystemSpec

-----------------------------------------------------------------------------
(* Packets are whole. *)

\* Approvals and calls are only added.
Onwards ==
  /\ \A i \in Intents : approvals[i] \in Nat /\ approvals'[i] \in Nat /\ approvals[i] <= approvals'[i]
  /\ Len(calls) \in Nat /\ Len(calls') \in Nat /\ Len(calls) <= Len(calls')
  /\ \A k \in 1..Len(calls) : calls'[k].intent = calls[k].intent

\* A whole packet stays whole.
LEMMA StaysWhole ==
  ASSUME Onwards, NEW i \in Intents, NEW p, Coherent(i, p)
  PROVE  Coherent(i, p)'
  BY DEF Onwards, Coherent

LEMMA ListStaysWhole ==
  ASSUME Onwards, NEW list, CoherentList(list)
  PROVE  CoherentList(list)'
  BY StaysWhole DEF CoherentList

\* What a step does not rewrite it leaves whole.
LEMMA KeptWhole ==
  ASSUME Onwards, RecordsCoherent,
         CoherentList(pending)',
         \A i \in Intents : Coherent(i, history[i])',
         api' = None \/ (api # None /\ api'.read = api.read) \/ api'.read = pending',
         \A j \in Watchers : \/ watch'[j] = None
                             \/ watch[j] # None /\ watch'[j].read = watch[j].read
                             \/ watch'[j].read = pending',
         \/ cleanup' = None
         \/ cleanup # None /\ cleanup'.read = cleanup.read
         \/ cleanup'.read = pending'
  PROVE  RecordsCoherent'
<1>1. api' # None => CoherentList(api.read)'
  BY ListStaysWhole DEF RecordsCoherent
<1>2. \A j \in Watchers : watch'[j] # None => CoherentList(watch[j].read)'
  BY ListStaysWhole DEF RecordsCoherent
<1>3. cleanup' # None => CoherentList(cleanup.read)'
  BY ListStaysWhole DEF RecordsCoherent
<1> QED
  BY <1>1, <1>2, <1>3 DEF RecordsCoherent

\* One packet of a whole list is replaced by a whole one.
LEMMA OneWritten ==
  ASSUME Onwards, NEW list \in PendingLists, CoherentList(list), NEW i \in Intents,
         NEW p, Coherent(i, p)', p # None => p.status \in OpenStatuses,
         pending' = [list EXCEPT ![i] = p]
  PROVE  CoherentList(pending)'
<1>1. CoherentList(list)'
  BY ListStaysWhole
<1>2. \A j \in Intents : pending'[j] = IF j = i THEN p ELSE list[j]
  BY DEF PendingLists
<1> QED
  BY <1>1, <1>2 DEF CoherentList, Coherent

\* And one of the history.
LEMMA OneRecorded ==
  ASSUME SystemTypeInv, Onwards, RecordsCoherent, NEW i \in Intents, NEW p, Coherent(i, p)',
         history' = [history EXCEPT ![i] = p]
  PROVE  \A j \in Intents : Coherent(j, history[j])'
<1>1. \A j \in Intents : history'[j] = IF j = i THEN p ELSE history[j]
  BY DEF SystemTypeInv, SystemTypeOK, TypeOK, PendingLists
<1>2. \A j \in Intents \ {i} : Coherent(j, history[j])'
  <2> SUFFICES ASSUME NEW j \in Intents \ {i}
               PROVE  Coherent(j, history[j])'
    OBVIOUS
  <2>1. history'[j] = history[j]
    BY <1>1
  <2>2. Coherent(j, history[j])
    BY DEF RecordsCoherent
  <2> QED
    BY <2>1, <2>2 DEF Onwards, Coherent
<1>3. Coherent(i, history[i])'
  BY <1>1 DEF Coherent
<1> QED
  BY <1>2, <1>3

\* The history as it was.
LEMMA NoneRecorded ==
  ASSUME Onwards, RecordsCoherent, UNCHANGED history
  PROVE  \A j \in Intents : Coherent(j, history[j])'
  BY DEF Onwards, RecordsCoherent, Coherent

\* The file as it was.
LEMMA UntouchedWhole ==
  ASSUME Onwards, RecordsCoherent, UNCHANGED pending
  PROVE  CoherentList(pending)'
<1>1. \A i \in Intents : pending'[i] # None => pending'[i].status \in OpenStatuses
  BY DEF RecordsCoherent, CoherentList
<1>2. ASSUME NEW i \in Intents PROVE Coherent(i, pending[i])'
  <2>1. Coherent(i, pending[i])
    BY DEF RecordsCoherent, CoherentList
  <2> QED
    BY <2>1 DEF Onwards, Coherent
<1> QED
  BY <1>1, <1>2 DEF CoherentList

\* What a handler works on is whole, and so is what it saves of it.
LEMMA WorkingWhole ==
  ASSUME SystemTypeInv, RecordsCoherent, api # None
  PROVE  Working \in PendingLists /\ CoherentList(Working)
<1>1. Working \in PendingLists
  BY WorkingType DEF SystemTypeInv, SystemTypeOK
<1>2. CoherentList(api.read)
  BY DEF RecordsCoherent
<1>3. \A i \in Intents : Working[i] = api.read[i] \/ Working[i] = None
  BY DEF Working, Pruned
<1> QED
  BY <1>1, <1>2, <1>3 DEF CoherentList, Coherent

LEMMA SavedWhole ==
  ASSUME SystemTypeInv, RecordsCoherent, Onwards, api # None,
         SavePruned \/ pending' = Working \/ UNCHANGED pending
  PROVE  CoherentList(pending)'
<1>1. CoherentList(pending) /\ CoherentList(Working)
  BY WorkingWhole DEF RecordsCoherent
<1>2. pending' = pending \/ pending' = Working
  BY DEF SavePruned, Save
<1>3. CoherentList(pending)
  BY <1>1
<1>4. CASE pending' = pending
  <2>1. \A i \in Intents : pending'[i] # None => pending'[i].status \in OpenStatuses
    BY <1>3, <1>4 DEF CoherentList
  <2>2. ASSUME NEW i \in Intents PROVE Coherent(i, pending[i])'
    <3>1. Coherent(i, pending[i])
      BY <1>3 DEF CoherentList
    <3> QED
      BY <1>4, <3>1 DEF Onwards, Coherent
  <2> QED
    BY <2>1, <2>2 DEF CoherentList
<1>5. CASE pending' = Working
  <2>1. \A i \in Intents : pending'[i] # None => pending'[i].status \in OpenStatuses
    BY <1>1, <1>5 DEF CoherentList
  <2>2. ASSUME NEW i \in Intents PROVE Coherent(i, pending[i])'
    <3>1. Coherent(i, Working[i])
      BY <1>1 DEF CoherentList
    <3> QED
      BY <1>5, <3>1 DEF Onwards, Coherent
  <2> QED
    BY <2>1, <2>2 DEF CoherentList
<1> QED
  BY <1>2, <1>4, <1>5

\* Approvals and calls only grow, whoever steps.
LEMMA OnwardsStep ==
  ASSUME SystemTypeInv, [SystemNext]_vars
  PROVE  Onwards
<1>1. /\ \A i \in Intents : approvals[i] \in Nat
      /\ calls \in Seq(Submissions) /\ Len(calls) \in Nat
      /\ approvals \in [Intents -> Nat]
  BY DEF SystemTypeInv, SystemTypeOK, TypeOK
<1>2. CASE UNCHANGED <<approvals, calls>>
  BY <1>1, <1>2 DEF Onwards
<1>3. ASSUME NEW i, approvals' = [approvals EXCEPT ![i] = @ + 1], UNCHANGED calls
      PROVE  Onwards
  <2>1. \A j \in Intents : approvals'[j] = approvals[j] \/ approvals'[j] = approvals[j] + 1
    BY <1>1, <1>3
  <2> QED
    BY <1>1, <1>3, <2>1 DEF Onwards
<1>4. ASSUME NEW g \in Gateways, NEW result, CallSubmitter(g, result)
      PROVE  Onwards
  <2>1. UNCHANGED approvals /\ \E s : calls' = Append(calls, s)
    BY <1>4 DEF CallSubmitter
  <2> QED
    BY <1>1, <2>1 DEF Onwards
<1>5. CASE OrderMoves
  <2>1. UNCHANGED approvals
    BY <1>5 DEF OrderMoves
  <2> QED
    BY <1>1, <1>5, <2>1, OrderMovesFacts DEF Onwards
<1>6. CASE GatewayStep
  <2>1. CASE FinishDispatch
    BY <1>3, <2>1 DEF FinishDispatch
  <2>2. CASE \E g \in Gateways : SubmitHeard(g) \/ SubmitRaised(g) \/ SubmitUnheard(g)
    BY <1>4, <2>2 DEF SubmitHeard, SubmitRaised, SubmitUnheard
  <2> QED
    BY <1>2, <1>6, <2>1, <2>2
       DEF GatewayStep, Next, FinishRequest, WorkerStep, FaultStep, Submit, BeginDispatch,
           ServeRequest, FinishPoll, GrantClaim, RepeatClaim, RefuseClaim, RepeatReceipt,
           RejectReceipt, StoreReceipt, Poll, SendClaim, PostReceipt, Timeout, LoseRequest,
           DuplicateRequest, Crash, Tick
<1>7. CASE WatchStep
  BY <1>2, <1>3, <1>7 DEF WatchStep, WatchBegin, WatchFinish, apiVars
<1>8. CASE CleanupStep
  BY <1>2, <1>8 DEF CleanupStep, BeginCleanup, RetryStale, QueryAnswered, QueryFailed, QueryOrders,
                    FinishCleanup, AbortCleanup, EndCleanup, apiVars
<1> QED
  BY <1>2, <1>5, <1>6, <1>7, <1>8 DEF SystemNext, vars, apiVars

\* The packet of a new approval is whole.
LEMMA NewWhole ==
  ASSUME SystemTypeInv, NEW i \in Intents, approvals' = [approvals EXCEPT ![i] = @ + 1],
         NEW p, p = NewPacket(i)
  PROVE  Coherent(i, p)' /\ p.status \in OpenStatuses
<1>1. approvals[i] \in Nat /\ approvals'[i] = approvals[i] + 1
  BY DEF SystemTypeInv, SystemTypeOK, TypeOK
<1>2. /\ p.status = "approved"
      /\ p.approval = approvals[i] + 1
      /\ p.claim = None
      /\ p.order = 0
  BY DEF NewPacket
<1> QED
  BY <1>1, <1>2 DEF Coherent, OpenStatuses

\* So is what an enqueue writes, whoever read the list and when.
LEMMA EnqueuedWhole ==
  ASSUME SystemTypeInv, RecordsCoherent, Onwards, NEW i \in Intents,
         NEW list \in PendingLists, CoherentList(list),
         pending' = [list EXCEPT ![i] = NewPacket(i)],
         history' = [history EXCEPT ![i] = NewPacket(i)],
         approvals' = [approvals EXCEPT ![i] = @ + 1]
  PROVE  CoherentList(pending)' /\ \A j \in Intents : Coherent(j, history[j])'
<1>1. PICK p : p = NewPacket(i)
  OBVIOUS
<1>2. Coherent(i, p)' /\ p.status \in OpenStatuses
  BY <1>1, NewWhole
<1>3. pending' = [list EXCEPT ![i] = p] /\ history' = [history EXCEPT ![i] = p]
  BY <1>1
<1> QED
  BY <1>2, <1>3, OneWritten, OneRecorded

\* A granted claim is written whole.
LEMMA GrantedWhole ==
  ASSUME SystemTypeInv, RecordsCoherent, Onwards, GrantClaim
  PROVE  CoherentList(pending)' /\ \A j \in Intents : Coherent(j, history[j])'
<1>1. /\ api # None
      /\ api.req.gateway \in Gateways
      /\ api.req.intent \in Intents
  BY DEF GrantClaim, Running, SystemTypeInv, SystemTypeOK, TypeOK, Requests, PollRequests,
         ClaimRequests, ReceiptRequests, DispatchRequests
<1>2. PICK i \in Intents, g \in Gateways, list \in PendingLists :
        i = api.req.intent /\ g = api.req.gateway /\ list = Working /\ CoherentList(list)
  BY <1>1, WorkingWhole
<1>3. PICK p : p = [list[i] EXCEPT !.status = "claimed", !.claim = g]
  OBVIOUS
<1>4. /\ list[i] # None /\ list[i].status = "approved"
      /\ pending' = [list EXCEPT ![i] = p]
      /\ history' = [history EXCEPT ![i] = p]
      /\ UNCHANGED <<approvals, calls>>
  BY <1>2, <1>3 DEF GrantClaim, Claimable, Approved, Save
<1>5. list[i] \in Packets
  BY <1>4 DEF PendingLists
<1>6. /\ p.status = "claimed"
      /\ p.claim = g
      /\ p.approval = list[i].approval
      /\ p.order = list[i].order
  BY <1>3, <1>5 DEF Packets
<1>7. Coherent(i, list[i])
  BY <1>2 DEF CoherentList
<1>8. Coherent(i, p)'
  BY <1>4, <1>6, <1>7, NoneAssumption DEF Coherent
<1> QED
  BY <1>2, <1>4, <1>6, <1>8, OneWritten, OneRecorded DEF OpenStatuses

\* A receipt the life cycle admits leaves a whole packet: a claim was made, and
\* the order is the receipt's.
LEMMA ReportedWhole ==
  ASSUME TypeOK, NEW k \in 1..Len(calls), NEW p \in Packets, Coherent(calls[k].intent, p), p # None,
         MayReport(p, k)
  PROVE  /\ Coherent(calls[k].intent, Reported(p, k))
         /\ Reported(p, k).status = calls[k].reported
         /\ calls[k].reported \in ReceiptStatuses
<1>1. calls[k] \in Submissions
  BY DEF TypeOK
<1>2. calls[k].reported \in ReceiptStatuses
  BY <1>1 DEF Submissions
<1>3. CASE calls[k].reported = p.status
  BY <1>2, <1>3 DEF Reported
<1>4. CASE calls[k].reported # p.status
  <2> DEFINE r == calls[k].reported
             q == Reported(p, k)
  <2>1. /\ q.status = r
        /\ q.approval = p.approval
        /\ q.claim = p.claim
        /\ q.order = IF OrderOf(k) > 0 THEN OrderOf(k) ELSE p.order
    BY <1>4 DEF Reported, WithReceipt, Packets
  <2>2. r # "failed" => q.order = k
    BY <2>1 DEF OrderOf
  <2>3. q.order = p.order \/ q.order = k
    BY <2>1 DEF OrderOf
  <2>4. r \in INTENT_TRANSITIONS[p.status] /\ p.status \in IntentStatuses
    BY <1>4 DEF MayReport, Packets
  <2>5. r \notin {"approved", "claimed"}
    BY <1>2 DEF ReceiptStatuses
  <2>6. r \in {"submitted", "partial_filled"} => p.status \in {"claimed", "submitted", "partial_filled"}
    BY <2>4 DEF INTENT_TRANSITIONS, IntentStatuses, OpenStatuses, TERMINAL_INTENT_STATUSES
  <2> QED
    BY <1>2, <2>1, <2>2, <2>3, <2>5, <2>6 DEF Coherent
<1> QED
  BY <1>3, <1>4

\* So a stored receipt leaves the list and the history whole.
LEMMA StoredWhole ==
  ASSUME SystemTypeInv, RecordsCoherent, Onwards, StoreReceipt
  PROVE  CoherentList(pending)' /\ \A j \in Intents : Coherent(j, history[j])'
<1>1. TypeOK /\ api # None /\ api.req.id \in 1..Len(calls) /\ history \in PendingLists
  BY DEF StoreReceipt, Running, SystemTypeInv, SystemTypeOK, Holding, Requested, TypeOK
<1>2. PICK k \in 1..Len(calls), list \in PendingLists :
        k = api.req.id /\ list = Working /\ CoherentList(list)
  BY <1>1, WorkingWhole
<1>3. PICK i \in Intents : i = calls[k].intent
  BY <1>1, CallFields
<1>4. PICK p : p = Matched(i)
  OBVIOUS
<1>5. /\ p # None
      /\ MayReport(p, k)
      /\ p = IF list[i] # None THEN list[i] ELSE history[i]
      /\ IF list[i] # None THEN pending' = AfterReceipt(list, i, k) ELSE SavePruned
      /\ history' = [history EXCEPT ![i] = Reported(p, k)]
      /\ UNCHANGED <<approvals, calls>>
  BY <1>2, <1>3, <1>4 DEF StoreReceipt, Matched, Save
<1>6. p \in Packets /\ Coherent(i, p)
  BY <1>1, <1>2, <1>5 DEF PendingLists, CoherentList, RecordsCoherent
<1>7. /\ Coherent(i, Reported(p, k))
      /\ Reported(p, k).status = calls[k].reported
      /\ calls[k].reported \in ReceiptStatuses
  BY <1>1, <1>3, <1>5, <1>6, ReportedWhole
<1>8. PICK q : q = Reported(p, k)
  OBVIOUS
<1>9. Coherent(i, q)'
  BY <1>7, <1>8, StaysWhole
<1>10. \A j \in Intents : Coherent(j, history[j])'
  BY <1>5, <1>8, <1>9, OneRecorded
<1>11. CASE list[i] # None
  <2>1. PICK w : w = IF calls[k].reported \in TERMINAL_INTENT_STATUSES THEN None ELSE q
    OBVIOUS
  <2>2. pending' = [list EXCEPT ![i] = w]
    BY <1>5, <1>8, <1>11, <2>1 DEF AfterReceipt
  <2>3. Coherent(i, w)'
    BY <1>9, <2>1 DEF Coherent
  <2>4. w # None => w.status \in OpenStatuses
    BY <1>7, <1>8, <2>1 DEF ReceiptStatuses, OpenStatuses, TERMINAL_INTENT_STATUSES
  <2> QED
    BY <1>2, <1>10, <2>2, <2>3, <2>4, OneWritten
<1>12. CASE list[i] = None
  BY <1>1, <1>5, <1>10, <1>12, SavedWhole
<1> QED
  BY <1>11, <1>12

\* The API's steps tear no packet.
LEMMA ApiKeepsWhole ==
  ASSUME SystemTypeInv, RecordsCoherent, Onwards, GatewayStep
  PROVE  RecordsCoherent'
<1> DEFINE Written == CoherentList(pending)' /\ \A j \in Intents : Coherent(j, history[j])'
           Heeded == api' = None \/ (api # None /\ api'.read = api.read) \/ api'.read = pending'
<1>0. ASSUME Written, Heeded
      PROVE  RecordsCoherent'
  BY <1>0, KeptWhole DEF GatewayStep, schedulerVars, RecordsCoherent
<1>1. CASE FinishDispatch
  <2>1. api # None /\ api.req \in DispatchRequests /\ api.read \in PendingLists
    BY <1>1 DEF FinishDispatch, Running, SystemTypeInv, SystemTypeOK, TypeOK, Requests, PollRequests,
                ClaimRequests, ReceiptRequests, DispatchRequests
  <2>2. PICK i \in Intents, list \in PendingLists : /\ i = api.req.intent
                                                    /\ list = api.read
                                                    /\ CoherentList(list)
    BY <2>1 DEF DispatchRequests, RecordsCoherent
  <2>3. Written
    BY <1>1, <2>2, EnqueuedWhole DEF FinishDispatch, Save
  <2> QED
    BY <1>0, <1>1, <2>3 DEF FinishDispatch, Done
<1>2. CASE GrantClaim
  BY <1>0, <1>2, GrantedWhole DEF GrantClaim, Done
<1>3. CASE StoreReceipt
  BY <1>0, <1>3, StoredWhole DEF StoreReceipt, Done
<1>4. CASE FinishPoll \/ RepeatClaim \/ RefuseClaim \/ RepeatReceipt \/ RejectReceipt
  <2>1. /\ api # None
        /\ SavePruned \/ UNCHANGED pending
        /\ UNCHANGED history
        /\ api' = None
    BY <1>4 DEF FinishPoll, RepeatClaim, RefuseClaim, RepeatReceipt, RejectReceipt, Running, Done,
                storeVars
  <2> QED
    BY <1>0, <2>1, SavedWhole, NoneRecorded
<1>5. CASE \/ \E i \in Dispatched : BeginDispatch(i)
           \/ ServeRequest \/ Tick
           \/ \E g \in Gateways : WorkerStep(g) \/ FaultStep(g)
  <2>1. UNCHANGED <<pending, history>>
    BY <1>5 DEF BeginDispatch, ServeRequest, Tick, WorkerStep, FaultStep, Poll, SendClaim, Submit,
                SubmitHeard, SubmitRaised, CallSubmitter, PostReceipt, Timeout, LoseRequest,
                DuplicateRequest, Crash, SubmitUnheard, storeVars
  <2>2. UNCHANGED api \/ (\E req : Begin(req)) \/ (\E g \in Gateways, s \in SUBSET net : GiveUp(g, s))
    BY <1>5 DEF BeginDispatch, ServeRequest, Tick, WorkerStep, FaultStep, Poll, SendClaim, Submit,
                SubmitHeard, SubmitRaised, CallSubmitter, PostReceipt, Timeout, LoseRequest,
                DuplicateRequest, Crash, SubmitUnheard, storeVars
  <2>3. api # None => api \in [req : Requests, read : PendingLists]
    BY DEF SystemTypeInv, SystemTypeOK, TypeOK
  <2>4. Heeded
    BY <2>1, <2>2, <2>3 DEF Begin, GiveUp
  <2>5. Written
    <3>1. UNCHANGED pending /\ CoherentList(pending)
      BY <2>1 DEF RecordsCoherent
    <3> QED
      BY <2>1, <3>1, NoneRecorded, UntouchedWhole
  <2> QED
    BY <1>0, <2>4, <2>5
<1> QED
  BY <1>1, <1>2, <1>3, <1>4, <1>5 DEF GatewayStep, Next, FinishRequest

\* Nor do the watches, though they write what they read long ago.
LEMMA WatchKeepsWhole ==
  ASSUME SystemTypeInv, RecordsCoherent, Onwards, WatchStep
  PROVE  RecordsCoherent'
<1>0. watch \in [Watchers -> [intent : SellIntents, read : PendingLists] \cup {None}]
  BY DEF SystemTypeInv, SystemTypeOK
<1>1. ASSUME NEW j \in Watchers, WatchBegin(j)
      PROVE  RecordsCoherent'
  <2>1. /\ UNCHANGED <<pending, history, api, cleanup, approvals, calls>>
        /\ \E i \in SellIntents : watch' = [watch EXCEPT ![j] = [intent |-> i, read |-> pending]]
    BY <1>1 DEF WatchBegin, apiVars, storeVars
  <2>2. \A w \in Watchers : watch'[w] = watch[w] \/ watch'[w].read = pending'
    BY <1>0, <2>1
  <2>3. CoherentList(pending)'
    BY <2>1 DEF RecordsCoherent, CoherentList, Coherent
  <2> QED
    BY <2>1, <2>2, <2>3, NoneRecorded, KeptWhole
<1>2. ASSUME NEW j \in Watchers, WatchFinish(j)
      PROVE  RecordsCoherent'
  <2>1. watch[j].intent \in Intents /\ watch[j].read \in PendingLists
    BY <1>0, <1>2, SchedulerAssumption DEF WatchFinish
  <2>2. PICK i \in Intents, list \in PendingLists : /\ i = watch[j].intent
                                                    /\ list = watch[j].read
                                                    /\ CoherentList(list)
    BY <1>2, <2>1 DEF WatchFinish, RecordsCoherent
  <2>3. CoherentList(pending)' /\ \A h \in Intents : Coherent(h, history[h])'
    BY <1>2, <2>2, EnqueuedWhole DEF WatchFinish, Save
  <2>4. \A w \in Watchers : watch'[w] = watch[w] \/ watch'[w] = None
    BY <1>0, <1>2 DEF WatchFinish
  <2>5. UNCHANGED <<api, cleanup>>
    BY <1>2 DEF WatchFinish
  <2> QED
    BY <2>3, <2>4, <2>5, KeptWhole
<1> QED
  BY <1>1, <1>2 DEF WatchStep

\* A packet given back has no order, and a packet settled by the broker's word
\* has one, and with it a claim.
LEMMA ResetWhole ==
  ASSUME NEW i \in Intents, NEW p \in Packets, Coherent(i, p), p # None, p.status = "claimed"
  PROVE  Coherent(i, Reset(p)) /\ Reset(p).status \in OpenStatuses
<1>1. /\ Reset(p).status = "approved"
      /\ Reset(p).claim = None
      /\ Reset(p).approval = p.approval
      /\ Reset(p).order = p.order
  BY DEF Reset, Packets
<1> QED
  BY <1>1 DEF Coherent, OpenStatuses

LEMMA SettledWhole ==
  ASSUME SystemTypeInv, cleanup # None, NEW i \in Intents, NEW p \in Packets, Coherent(i, p),
         p # None, p.status \in OpenStatuses
  PROVE  Coherent(i, Settle(p)) /\ Settle(p).status = Settled(p) /\ Settled(p) \in IntentStatuses
<1> DEFINE q == Settle(p)
<1>1. /\ q.status = Settled(p)
      /\ q.claim = p.claim
      /\ q.approval = p.approval
      /\ q.order = p.order
  BY DEF Settle, Packets
<1>2. q \in Packets
  BY SettleType
<1>3. CASE InBook(p)
  <2>1. p.order \in DOMAIN cleanup.orders /\ cleanup.orders[p.order] \in BrokerStatuses
    BY <1>3 DEF InBook, SystemTypeInv, SystemTypeOK, Books
  <2>2. p.order > 0
    BY <2>1 DEF SystemTypeInv, SystemTypeOK, Books
  <2>3. p.status \in {"submitted", "partial_filled"} /\ p.claim # None
    BY <2>2 DEF Coherent, OpenStatuses
  <2>4. Settled(p) \notin {"approved", "claimed"}
    BY <1>3, <2>1 DEF Settled, ORDER_STATUS_TO_INTENT_STATUS
  <2> QED
    BY <1>1, <1>2, <2>2, <2>3, <2>4 DEF Coherent, Packets
<1>4. CASE ~InBook(p)
  <2>1. q.status = p.status \/ q.status = "expired"
    BY <1>1, <1>4 DEF Settled
  <2> QED
    BY <1>1, <1>2, <2>1 DEF Coherent, Packets
<1> QED
  BY <1>3, <1>4

\* The cleanup gives packets back, settles them and takes them off, one by one.
LEMMA CleanupKeepsWhole ==
  ASSUME SystemTypeInv, RecordsCoherent, Onwards, CleanupStep
  PROVE  RecordsCoherent'
<1>0. /\ UNCHANGED <<api, watch, approvals, calls>>
      /\ cleanup # None => cleanup.read \in PendingLists /\ CoherentList(cleanup.read)
      /\ history \in PendingLists
  BY DEF CleanupStep, BeginCleanup, RetryStale, QueryAnswered, QueryFailed, QueryOrders,
         FinishCleanup, AbortCleanup, EndCleanup, apiVars, SystemTypeInv, SystemTypeOK, TypeOK,
         RecordsCoherent
<1>1. ASSUME CoherentList(pending)', \A i \in Intents : Coherent(i, history[i])',
             \/ cleanup' = None
             \/ cleanup # None /\ cleanup'.read = cleanup.read
             \/ cleanup'.read = pending'
      PROVE  RecordsCoherent'
  BY <1>0, <1>1, KeptWhole DEF RecordsCoherent
<1>2. CASE BeginCleanup \/ QueryAnswered \/ QueryFailed
  <2>1. UNCHANGED <<pending, history>> /\ cleanup'.read = pending
    <3>1. CASE BeginCleanup
      BY <3>1 DEF BeginCleanup, apiVars, storeVars
    <3>2. ASSUME NEW orders, QueryOrders(orders)
          PROVE  UNCHANGED <<pending, history>> /\ cleanup'.read = pending
      <4>1. cleanup \in [step : {"retry", "read", "close"}, now : Nat, read : PendingLists,
                         orders : Books]
        BY <3>2 DEF QueryOrders, SystemTypeInv, SystemTypeOK
      <4> QED
        BY <3>2, <4>1 DEF QueryOrders, apiVars, storeVars
    <3> QED
      BY <1>2, <3>1, <3>2 DEF QueryAnswered, QueryFailed
  <2>2. CoherentList(pending)'
    BY <1>0, <2>1 DEF RecordsCoherent, CoherentList, Coherent
  <2> QED
    BY <1>1, <2>1, <2>2, NoneRecorded
<1>3. CASE RetryStale
  <2>1. cleanup # None /\ cleanup'.read = cleanup.read
    BY <1>3 DEF RetryStale, SystemTypeInv, SystemTypeOK
  <2>2. PICK list \in PendingLists : list = cleanup.read /\ CoherentList(list)
    BY <1>0, <2>1
  <2>3. PICK stale \in SUBSET {i \in Intents : list[i] # None /\ list[i].status = "claimed"} :
          IF stale = {} THEN UNCHANGED <<pending, history>>
          ELSE /\ pending' = [i \in Intents |-> IF i \in stale THEN Reset(list[i]) ELSE list[i]]
               /\ history' = [i \in Intents |-> IF i \in stale THEN Reset(list[i]) ELSE history[i]]
    BY <1>3, <2>2 DEF RetryStale, Save
  <2>4. CASE UNCHANGED <<pending, history>>
    <3>1. CoherentList(pending)'
      BY <2>4, UntouchedWhole
    <3> QED
      BY <1>1, <2>1, <2>4, <3>1, NoneRecorded
  <2>5. CASE /\ pending' = [i \in Intents |-> IF i \in stale THEN Reset(list[i]) ELSE list[i]]
             /\ history' = [i \in Intents |-> IF i \in stale THEN Reset(list[i]) ELSE history[i]]
    <3>1. \A i \in stale : Coherent(i, Reset(list[i])) /\ Reset(list[i]).status \in OpenStatuses
      <4> SUFFICES ASSUME NEW i \in stale
                   PROVE  Coherent(i, Reset(list[i])) /\ Reset(list[i]).status \in OpenStatuses
        OBVIOUS
      <4>1. i \in Intents /\ list[i] \in Packets /\ list[i] # None /\ list[i].status = "claimed"
        BY <2>3 DEF PendingLists
      <4> QED
        BY <2>2, <4>1, ResetWhole DEF CoherentList
    <3>2. \A i \in Intents : /\ Coherent(i, list[i])
                             /\ list[i] # None => list[i].status \in OpenStatuses
                             /\ Coherent(i, history[i])
      BY <2>2 DEF CoherentList, RecordsCoherent
    <3>3. \A i \in Intents :
            /\ pending'[i] = IF i \in stale THEN Reset(list[i]) ELSE list[i]
            /\ history'[i] = IF i \in stale THEN Reset(list[i]) ELSE history[i]
      BY <2>5
    <3>4. CoherentList(pending)'
      BY <1>0, <3>1, <3>2, <3>3 DEF CoherentList, Coherent
    <3>5. \A i \in Intents : Coherent(i, history[i])'
      BY <1>0, <3>1, <3>2, <3>3 DEF Coherent
    <3> QED
      BY <1>1, <2>1, <3>4, <3>5
  <2> QED
    BY <2>3, <2>4, <2>5
<1>4. CASE FinishCleanup \/ AbortCleanup
  <2>1. cleanup # None /\ cleanup' = None
    BY <1>4 DEF FinishCleanup, AbortCleanup, EndCleanup
  <2>2. \A i \in Listed : /\ i \in Intents
                          /\ Coherent(i, Settle(cleanup.read[i]))
                          /\ Settle(cleanup.read[i]).status = Settled(cleanup.read[i])
                          /\ Settled(cleanup.read[i]) \in IntentStatuses
    <3> SUFFICES ASSUME NEW i \in Listed
                 PROVE  /\ i \in Intents
                        /\ Coherent(i, Settle(cleanup.read[i]))
                        /\ Settle(cleanup.read[i]).status = Settled(cleanup.read[i])
                        /\ Settled(cleanup.read[i]) \in IntentStatuses
      OBVIOUS
    <3>1. i \in Intents /\ cleanup.read[i] \in Packets /\ cleanup.read[i] # None
      BY <1>0, <2>1 DEF Listed, PendingLists
    <3>2. Coherent(i, cleanup.read[i]) /\ cleanup.read[i].status \in OpenStatuses
      BY <1>0, <2>1, <3>1 DEF CoherentList
    <3> QED
      BY <2>1, <3>1, <3>2, SettledWhole
  <2>3. PICK closed \in SUBSET Closing : Record(closed)
    BY <1>4 DEF FinishCleanup, AbortCleanup
  <2>4. \A i \in Intents : Coherent(i, history[i])'
    <3>1. \A i \in Intents : history'[i] = history[i] \/ (i \in Listed /\ history'[i] = Settle(cleanup.read[i]))
      BY <2>3 DEF Record, Closing
    <3>2. \A i \in Intents : Coherent(i, history[i])
      BY DEF RecordsCoherent
    <3> QED
      BY <1>0, <2>2, <3>1, <3>2 DEF Coherent
  <2>5. CoherentList(pending)'
    <3>1. CASE UNCHANGED pending
      BY <3>1, UntouchedWhole
    <3>2. CASE pending' = [i \in Intents |-> IF i \in Listed \ Closing THEN Settle(cleanup.read[i])
                                                                      ELSE None]
      <4>1. \A i \in Intents : pending'[i] # None =>
              /\ Coherent(i, pending'[i])
              /\ pending'[i].status \in OpenStatuses
        BY <2>2, <3>2 DEF Closing, IntentStatuses
      <4> QED
        BY <1>0, <4>1 DEF CoherentList, Coherent
    <3> QED
      BY <1>4, <3>1, <3>2 DEF FinishCleanup, AbortCleanup, Save
  <2> QED
    BY <1>1, <2>1, <2>4, <2>5
<1> QED
  BY <1>2, <1>3, <1>4 DEF CleanupStep

LEMMA OrdersKeepWhole ==
  ASSUME SystemTypeInv, RecordsCoherent, Onwards, OrderMoves
  PROVE  RecordsCoherent'
<1>1. UNCHANGED <<pending, history, api, watch, cleanup>>
  BY DEF OrderMoves, storeVars, schedulerVars
<1>2. CoherentList(pending)'
  BY <1>1, UntouchedWhole
<1> QED
  BY <1>1, <1>2, NoneRecorded, KeptWhole

\* With the scheduler writing the file beside the API and updates lost between
\* them, no packet is torn: what its status promises is there.
THEOREM PacketsWhole == SystemSpec => []RecordsCoherent
<1>1. SystemInit => RecordsCoherent
  BY DEF SystemInit, Init, RecordsCoherent, CoherentList, Coherent
<1>2. SystemTypeInv /\ RecordsCoherent /\ [SystemNext]_vars => RecordsCoherent'
  <2>1. ASSUME SystemTypeInv, RecordsCoherent, UNCHANGED vars
        PROVE  RecordsCoherent'
    <3>1. UNCHANGED <<pending, history, api, watch, cleanup, approvals, calls>>
      BY <2>1 DEF vars, apiVars, storeVars, schedulerVars
    <3>2. Onwards
      BY <2>1, <3>1 DEF Onwards, SystemTypeInv, SystemTypeOK, TypeOK
    <3>3. CoherentList(pending)' /\ \A j \in Intents : Coherent(j, history[j])'
      BY <2>1, <3>1, <3>2, UntouchedWhole, NoneRecorded
    <3> QED
      BY <2>1, <3>1, <3>2, <3>3, KeptWhole
  <2> QED
    BY <2>1, OnwardsStep, ApiKeepsWhole, WatchKeepsWhole, OrdersKeepWhole, CleanupKeepsWhole
       DEF SystemNext
<1> QED
  BY <1>1, <1>2, SystemTypeCorrect, PTL DEF SystemSpec

-----------------------------------------------------------------------------
(* One order per gateway, though intents are given back. *)

\* Of the scheduler's steps none sends an order, and the broker's leave whose it is.
LEMMA SchedulerSendsNone ==
  ASSUME SystemTypeInv, WatchStep \/ OrderMoves \/ CleanupStep \/ UNCHANGED vars
  PROVE  /\ UNCHANGED dispatched
         /\ Len(calls') = Len(calls)
         /\ \A k \in 1..Len(calls) : /\ calls'[k].intent = calls[k].intent
                                     /\ calls'[k].gateway = calls[k].gateway
                                     /\ calls'[k].reported = calls[k].reported
<1>1. CASE OrderMoves
  BY <1>1, OrderMovesFacts DEF OrderMoves
<1>2. CASE WatchStep \/ CleanupStep \/ UNCHANGED vars
  BY <1>2 DEF WatchStep, WatchBegin, WatchFinish, CleanupStep, BeginCleanup, RetryStale,
              QueryAnswered, QueryFailed, QueryOrders, FinishCleanup, AbortCleanup, EndCleanup,
              vars, apiVars
<1> QED
  BY <1>1, <1>2

\* The cleanup may approve again an intent whose order is out; its gateway's
\* adapter remembers it and does not send it twice.
THEOREM OrderSentOnceBesideScheduler == SystemSpec => []OneOrderPerGateway
<1> DEFINE Inv == Remembered /\ OneOrderPerGateway
<1>1. SystemInit => Inv
  BY DEF SystemInit, Init, Remembered, OneOrderPerGateway
<1>2. SystemTypeInv /\ SystemTypeInv' /\ Inv /\ [SystemNext]_vars => Inv'
  <2> SUFFICES ASSUME SystemTypeInv, SystemTypeInv', Inv, [SystemNext]_vars
               PROVE  Inv'
    OBVIOUS
  <2>1. CASE GatewayStep
    <3>1. TypeInv /\ TypeInv' /\ [Next]_apiVars
      BY <2>1 DEF GatewayStep, TypeInv, SystemTypeInv, SystemTypeOK
    <3> QED
      BY <3>1, OrderStep
  <2>2. CASE WatchStep \/ OrderMoves \/ CleanupStep \/ UNCHANGED vars
    BY <2>2, SchedulerSendsNone DEF Remembered, OneOrderPerGateway
  <2> QED
    BY <2>1, <2>2 DEF SystemNext
<1> QED
  BY <1>1, <1>2, SystemTypeCorrect, PTL DEF SystemSpec

-----------------------------------------------------------------------------
(* Only what was approved is sent, though lists are written over: a claim is *)
(* granted from a list that some step wrote whole, and approvals only grow.  *)

SentApproved == \A k \in 1..Len(calls) : calls[k].approval \in 1..approvals[calls[k].intent]

HoldsApproved(g) ==
  wpc[g] = "submit" => cur[g].intent \in Intents /\ cur[g].approval \in 1..approvals[cur[g].intent]

Sanctioned == SentApproved /\ \A g \in Gateways : HoldsApproved(g)

\* An approval given stays given.
LEMMA StaysApproved ==
  ASSUME Onwards, NEW i \in Intents, NEW n, n \in 1..approvals[i]
  PROVE  n \in 1..approvals'[i]
  BY DEF Onwards

\* The calls as they were, the broker's word aside.
LEMMA SameCalls ==
  ASSUME SystemTypeInv, Onwards, SentApproved, Len(calls') = Len(calls),
         \A k \in 1..Len(calls) : calls'[k].intent = calls[k].intent /\ calls'[k].approval = calls[k].approval
  PROVE  SentApproved'
<1> SUFFICES ASSUME NEW k \in 1..Len(calls)
             PROVE  calls'[k].approval \in 1..approvals'[calls[k].intent]
  BY DEF SentApproved
<1>1. calls[k].intent \in Intents
  <2>1. calls[k] \in Submissions
    BY DEF SystemTypeInv, SystemTypeOK, TypeOK
  <2> QED
    BY <2>1 DEF Submissions
<1>2. calls[k].approval \in 1..approvals[calls[k].intent]
  BY DEF SentApproved
<1> QED
  BY <1>1, <1>2, StaysApproved

\* A worker that already held its packet.
LEMMA StillHolds ==
  ASSUME Onwards, NEW g \in Gateways, HoldsApproved(g),
         wpc'[g] = "submit" => wpc[g] = "submit" /\ cur'[g] = cur[g]
  PROVE  HoldsApproved(g)'
<1> SUFFICES ASSUME wpc'[g] = "submit"
             PROVE  cur'[g].intent \in Intents /\ cur'[g].approval \in 1..approvals'[cur'[g].intent]
  BY DEF HoldsApproved
<1>1. cur'[g] = cur[g] /\ cur[g].intent \in Intents /\ cur[g].approval \in 1..approvals[cur[g].intent]
  BY DEF HoldsApproved
<1>2. PICK i \in Intents : i = cur[g].intent
  BY <1>1
<1>3. cur[g].approval \in 1..approvals'[i]
  BY <1>1, <1>2, StaysApproved
<1> QED
  BY <1>1, <1>2, <1>3

\* The packet a claim hands out was approved.
LEMMA ClaimApproved ==
  ASSUME SystemTypeInv, RecordsCoherent, Onwards, Sanctioned, GrantClaim \/ RepeatClaim
  PROVE  Sanctioned'
<1> DEFINE i == api.req.intent
           g == api.req.gateway
           n == Working[i].approval
<1>1. /\ api # None /\ api.req.op = "claim" /\ Working[i] # None
      /\ UNCHANGED calls /\ Answer(g, "submit")
      /\ cur' = IF api.req.live THEN [cur EXCEPT ![g] = [intent |-> i, approval |-> n, call |-> 0]]
                ELSE cur
  BY DEF GrantClaim, RepeatClaim, Running, Claimable, Approved, ClaimedBy
<1>2. i \in Intents /\ g \in Gateways
  BY <1>1 DEF SystemTypeInv, SystemTypeOK, TypeOK, Requests, PollRequests, ClaimRequests,
              ReceiptRequests, DispatchRequests
<1>3. n \in 1..approvals[i]
  BY <1>1, <1>2, WorkingWhole DEF CoherentList, Coherent
<1> HIDE DEF n
<1>4. n \in 1..approvals'[i]
  BY <1>2, <1>3, StaysApproved
<1>5. ASSUME NEW h \in Gateways PROVE HoldsApproved(h)'
  <2>1. CASE api.req.live /\ h = g
    <3>1. cur'[h] = [intent |-> i, approval |-> n, call |-> 0]
      BY <1>1, <1>2, <2>1 DEF SystemTypeInv, SystemTypeOK, TypeOK
    <3>2. cur'[h].intent = i /\ cur'[h].approval = n
      BY <3>1
    <3> QED
      BY <1>2, <1>4, <3>2 DEF HoldsApproved
  <2>2. CASE ~(api.req.live /\ h = g)
    <3>1. cur'[h] = cur[h] /\ wpc'[h] = wpc[h]
      BY <1>1, <1>2, <2>2 DEF SystemTypeInv, SystemTypeOK, TypeOK, Answer
    <3> QED
      BY <3>1, StillHolds DEF Sanctioned
  <2> QED
    BY <2>1, <2>2
<1>6. SentApproved'
  BY <1>1, SameCalls DEF Sanctioned
<1> QED
  BY <1>5, <1>6 DEF Sanctioned

\* What a worker submits is the packet it holds.
LEMMA SubmitApproved ==
  ASSUME SystemTypeInv, Onwards, Sanctioned,
         NEW g \in Gateways, wpc[g] = "submit", NEW result, CallSubmitter(g, result)
  PROVE  Sanctioned'
<1> DEFINE s == [intent |-> cur[g].intent, approval |-> cur[g].approval, gateway |-> g,
                 broker |-> result.broker, reported |-> result.reported]
           last == Len(calls) + 1
<1>1. s.intent = cur[g].intent /\ s.approval = cur[g].approval
  OBVIOUS
<1>2. calls' = Append(calls, s) /\ calls \in Seq(Submissions) /\ UNCHANGED approvals
  BY DEF CallSubmitter, SystemTypeInv, SystemTypeOK, TypeOK
<1> HIDE DEF s
<1>3. /\ Len(calls) \in Nat /\ Len(calls') = last /\ calls'[last] = s
      /\ \A k \in 1..Len(calls) : calls'[k] = calls[k]
  BY <1>2
<1>4. \A k \in 1..last : k = last \/ k \in 1..Len(calls)
  BY <1>3
<1>5. s.approval \in 1..approvals[s.intent]
  BY <1>1 DEF Sanctioned, HoldsApproved
<1>6. SentApproved'
  BY <1>2, <1>3, <1>4, <1>5 DEF Sanctioned, SentApproved
<1>7. ASSUME NEW h \in Gateways PROVE HoldsApproved(h)'
  <2>1. wpc' = [wpc EXCEPT ![g] = "report"] /\ cur' = [cur EXCEPT ![g].call = last]
    BY DEF CallSubmitter
  <2>2. wpc'[h] = "submit" => wpc[h] = "submit" /\ cur'[h] = cur[h]
    BY <2>1 DEF SystemTypeInv, SystemTypeOK, TypeOK
  <2> QED
    BY <2>2, StillHolds DEF Sanctioned
<1> QED
  BY <1>6, <1>7 DEF Sanctioned

\* Whatever else happens, nobody comes to hold a packet and nothing is sent.
LEMMA OthersSendNothing ==
  ASSUME SystemTypeInv, Onwards, Sanctioned, Len(calls') = Len(calls),
         \A k \in 1..Len(calls) : calls'[k].intent = calls[k].intent /\ calls'[k].approval = calls[k].approval,
         UNCHANGED cur,
         wpc' = wpc \/ \E g \in Gateways, state \in WorkerStates \ {"submit"} : wpc' = [wpc EXCEPT ![g] = state]
  PROVE  Sanctioned'
<1>1. ASSUME NEW h \in Gateways PROVE HoldsApproved(h)'
  <2>1. wpc'[h] = "submit" => wpc[h] = "submit" /\ cur'[h] = cur[h]
    BY DEF SystemTypeInv, SystemTypeOK, TypeOK
  <2> QED
    BY <2>1, StillHolds DEF Sanctioned
<1>2. SentApproved'
  BY SameCalls DEF Sanctioned
<1> QED
  BY <1>1, <1>2 DEF Sanctioned

LEMMA GatewaySanctioned ==
  ASSUME SystemTypeInv, RecordsCoherent, Onwards, Sanctioned, Next
  PROVE  Sanctioned'
<1>1. ASSUME UNCHANGED <<calls, cur>>,
             wpc' = wpc \/ \E g \in Gateways, state \in WorkerStates \ {"submit"} : wpc' = [wpc EXCEPT ![g] = state]
      PROVE  Sanctioned'
  BY <1>1, OthersSendNothing
<1>2. CASE GrantClaim \/ RepeatClaim
  BY <1>2, ClaimApproved
<1>3. CASE FinishDispatch \/ Tick \/ ServeRequest \/ \E i \in Dispatched : BeginDispatch(i)
  BY <1>1, <1>3 DEF FinishDispatch, Tick, ServeRequest, BeginDispatch, workerVars
<1>4. CASE FinishPoll \/ RefuseClaim \/ RepeatReceipt \/ RejectReceipt \/ StoreReceipt
  <2>1. api # None /\ api.req.op # "dispatch"
    BY <1>4 DEF FinishPoll, RefuseClaim, RepeatReceipt, RejectReceipt, StoreReceipt, Running
  <2>2. api.req.gateway \in Gateways
    BY <2>1 DEF SystemTypeInv, SystemTypeOK, TypeOK, Requests, PollRequests, ClaimRequests,
                ReceiptRequests, DispatchRequests
  <2>3. Answer(api.req.gateway, "ready") /\ UNCHANGED <<calls, cur>>
    BY <1>4 DEF FinishPoll, RefuseClaim, RepeatReceipt, RejectReceipt, StoreReceipt
  <2> QED
    BY <1>1, <2>2, <2>3 DEF Answer, WorkerStates
<1>5. ASSUME NEW g \in Gateways, Poll(g) \/ SendClaim(g) \/ PostReceipt(g) PROVE Sanctioned'
  <2>1. UNCHANGED <<calls, cur>>
    BY <1>5 DEF Poll, SendClaim, PostReceipt
  <2>2. \E state \in WorkerStates \ {"submit"} : wpc' = [wpc EXCEPT ![g] = state]
    BY <1>5 DEF Poll, SendClaim, PostReceipt, WorkerStates
  <2> QED
    BY <1>1, <2>1, <2>2
<1>6. ASSUME NEW g \in Gateways, Timeout(g) \/ LoseRequest(g) \/ DuplicateRequest(g) \/ Crash(g)
      PROVE  Sanctioned'
  <2>1. UNCHANGED <<calls, cur>>
    BY <1>6 DEF Timeout, LoseRequest, DuplicateRequest, Crash, workerVars
  <2>2. wpc' = wpc \/ wpc' = [wpc EXCEPT ![g] = "ready"]
    BY <1>6 DEF Timeout, LoseRequest, DuplicateRequest, Crash, GiveUp, workerVars
  <2> QED
    BY <1>1, <2>1, <2>2 DEF WorkerStates
<1>7. ASSUME NEW g \in Gateways, SubmitHeard(g) \/ SubmitRaised(g) \/ SubmitUnheard(g)
      PROVE  Sanctioned'
  <2>1. PICK result : wpc[g] = "submit" /\ CallSubmitter(g, result)
    BY <1>7 DEF SubmitHeard, SubmitRaised, SubmitUnheard
  <2> QED
    BY <2>1, SubmitApproved
<1> QED
  BY <1>2, <1>3, <1>4, <1>5, <1>6, <1>7 DEF Next, FinishRequest, WorkerStep, FaultStep, Submit

\* Nothing reaches a submitter that was not approved (execution_gateway_worker.py,
\* process_intent submits what it claimed), although the API and the scheduler
\* write over each other's lists.
THEOREM OnlyApprovedIsSent == SystemSpec => []SentApproved
<1>1. SystemInit => Sanctioned
  BY DEF SystemInit, Init, Sanctioned, SentApproved, HoldsApproved
<1>2. SystemTypeInv /\ RecordsCoherent /\ Sanctioned /\ [SystemNext]_vars => Sanctioned'
  <2> SUFFICES ASSUME SystemTypeInv, RecordsCoherent, Sanctioned, [SystemNext]_vars
               PROVE  Sanctioned'
    OBVIOUS
  <2>1. Onwards
    BY OnwardsStep
  <2>2. CASE GatewayStep
    BY <2>1, <2>2, GatewaySanctioned DEF GatewayStep
  <2>3. CASE WatchStep \/ OrderMoves \/ CleanupStep \/ UNCHANGED vars
    <3>1. UNCHANGED <<wpc, cur>>
      BY <2>3 DEF WatchStep, WatchBegin, WatchFinish, OrderMoves, CleanupStep, BeginCleanup,
                  RetryStale, QueryAnswered, QueryFailed, QueryOrders, FinishCleanup, AbortCleanup,
                  EndCleanup, workerVars, apiVars, vars
    <3>2. /\ Len(calls') = Len(calls)
          /\ \A k \in 1..Len(calls) : calls'[k].intent = calls[k].intent /\ calls'[k].approval = calls[k].approval
      <4>1. CASE OrderMoves
        BY <4>1, OrderMovesFacts DEF OrderMoves
      <4>2. CASE ~OrderMoves
        BY <2>3, <4>2 DEF WatchStep, WatchBegin, WatchFinish, CleanupStep, BeginCleanup, RetryStale,
                          QueryAnswered, QueryFailed, QueryOrders, FinishCleanup, AbortCleanup,
                          EndCleanup, apiVars, vars
      <4> QED
        BY <4>1, <4>2
    <3> QED
      BY <2>1, <3>1, <3>2, OthersSendNothing
  <2> QED
    BY <2>2, <2>3 DEF SystemNext
<1>3. Sanctioned => SentApproved
  BY DEF Sanctioned
<1> QED
  BY <1>1, <1>2, <1>3, SystemTypeCorrect, PacketsWhole, PTL DEF SystemSpec

=============================================================================
