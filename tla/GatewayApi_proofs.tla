------------------------- MODULE GatewayApi_proofs -------------------------
EXTENDS GatewayApi, TLAPS

-----------------------------------------------------------------------------
(* The inductive invariant. *)

\* Every request on its way or in service.
Requested == net \cup (IF api = None THEN {} ELSE {api.req})

Live(r) == r.op # "dispatch" /\ r.live

WaitingFor(op) ==
  IF op = "poll" THEN "polling" ELSE IF op = "claim" THEN "claiming" ELSE "reporting"

\* What a worker holds and what receipts name.
Holding ==
  /\ \A g \in Gateways :
       /\ wpc[g] \in {"submit", "report"} => cur[g] \in Holdings
       /\ wpc[g] = "report" => cur[g].call \in 1..Len(calls)
  /\ \A r \in Requested : r.op = "receipt" => r.id \in 1..Len(calls)

TypeInv == TypeOK /\ Holding

\* A worker waits for one request at a time, and what it is claiming has left
\* its batch.
OneRequest ==
  /\ \A r \in Requested : Live(r) => wpc[r.gateway] = WaitingFor(r.op)
  /\ \A r, s \in Requested : Live(r) /\ Live(s) /\ r.gateway = s.gateway => r = s
  /\ api # None /\ Live(api.req) => api.req \notin net
  /\ \A r \in Requested :
       r.op = "claim" /\ r.live => r.intent \notin batch[r.gateway]

\* No one writes the list between a handler's read and its write.
SingleWriter == api # None => api.read = pending

HasCall(i, n) ==
  \E k \in 1..Len(calls) : calls[k].intent = i /\ calls[k].approval = n

HeldBy(g, i, n) == wpc[g] = "submit" /\ cur[g].intent = i /\ cur[g].approval = n

Taken(i, n) == HasCall(i, n) \/ \E g \in Gateways : HeldBy(g, i, n)

\* Nothing is taken that was not approved.
Issued ==
  /\ \A i \in Intents : pending[i] # None => pending[i].approval \in 1..approvals[i]
  /\ \A i \in Intents, n \in Nat : Taken(i, n) => n \in 1..approvals[i]

\* g may still ask for i.
MayAsk(g, i) ==
  \/ i \in batch[g]
  \/ \E r \in Requested : r.op = "claim" /\ r.live /\ r.gateway = g /\ r.intent = i

\* An approved packet is untaken, and so is a claimed one whose holder is still to ask.
Untaken ==
  \A i \in Intents, n \in Nat, g \in Gateways :
    /\ pending[i] # None
    /\ pending[i].approval = n
    /\ \/ pending[i].status = "approved"
       \/ pending[i].status = "claimed" /\ pending[i].claim = g /\ MayAsk(g, i)
    => ~Taken(i, n)

\* One holder at a time, and none after the call.
OneHolder ==
  \A i \in Intents, n \in Nat, g \in Gateways :
    HeldBy(g, i, n) => /\ ~HasCall(i, n)
                       /\ \A h \in Gateways : HeldBy(h, i, n) => h = g

Exclusive ==
  /\ SingleWriter
  /\ Issued
  /\ Untaken
  /\ OneHolder
  /\ OneCallPerApproval

IInv == TypeInv /\ OneRequest /\ Exclusive

-----------------------------------------------------------------------------
(* Types. *)

\* The definitions a type is spelled out with.
LEMMA PrunedType ==
  ASSUME NEW list \in PendingLists
  PROVE  Pruned(list) \in PendingLists
  BY DEF Pruned, PendingLists

\* A dispatched intent is a packet.
LEMMA NewPacketType ==
  ASSUME TypeOK, NEW i \in Intents
  PROVE  NewPacket(i) \in Packets
  BY DEF NewPacket, Packets, TypeOK, IntentStatuses, OpenStatuses

\* A packet that a receipt was applied to is a packet.
LEMMA ReportedType ==
  ASSUME TypeOK, NEW p \in Packets, NEW k \in 1..Len(calls)
  PROVE  Reported(p, k) \in Packets
<1>1. calls[k] \in Submissions
  BY DEF TypeOK
<1>2. calls[k].reported \in IntentStatuses
  BY <1>1 DEF Submissions, ReceiptStatuses, IntentStatuses, OpenStatuses, TERMINAL_INTENT_STATUSES
<1>3. OrderOf(k) \in Nat
  BY DEF OrderOf
<1>4. day \in Nat
  BY DEF TypeOK
<1> QED
  BY <1>2, <1>3, <1>4 DEF Reported, WithReceipt, Packets

\* The list a handler works on is a list of packets.
LEMMA WorkingType ==
  ASSUME TypeOK, api # None
  PROVE  Working \in PendingLists
<1>1. api.read \in PendingLists
  BY DEF TypeOK
<1> QED
  BY <1>1, PrunedType DEF Working

\* The list a handler saves is a list of packets.
LEMMA SaveType ==
  ASSUME TypeOK, api # None, SavePruned
  PROVE  pending' \in PendingLists
  BY WorkingType DEF SavePruned, Save, TypeOK

\* An answered worker is in one of the states of a worker.
LEMMA AnswerType ==
  ASSUME TypeOK, NEW g, NEW state \in WorkerStates, Answer(g, state)
  PROVE  wpc' \in [Gateways -> WorkerStates]
  BY DEF Answer, TypeOK

\* What was requested is a request.
LEMMA RequestType ==
  ASSUME TypeOK
  PROVE  \A r \in Requested : r \in Requests
  BY DEF TypeOK, Requested, Requests

\* At the start nothing is held and everything is empty.
LEMMA InitTypeInv == Init => TypeInv
  BY DEF Init, TypeInv, TypeOK, Holding, PendingLists, WorkerStates, Requested

\* A handler that ends leaves the requests on their way, and nothing else.
LEMMA DoneRequested ==
  ASSUME Done, UNCHANGED net
  PROVE  Requested' \subseteq Requested
  BY DEF Done, Requested

\* An answer makes no worker hold anything but what it was granted.
LEMMA AnswerHolding ==
  ASSUME Holding, Done, UNCHANGED <<net, cur, calls>>, NEW g, Answer(g, "ready")
  PROVE  Holding'
  BY DoneRequested DEF Holding, Answer

LEMMA GrantHolding ==
  ASSUME TypeInv, Done, UNCHANGED <<net, calls>>, NEW g \in Gateways, Answer(g, "submit"),
         NEW i \in Intents, NEW n \in Nat,
         cur' = IF api.req.live
                  THEN [cur EXCEPT ![g] = [intent |-> i, approval |-> n, call |-> 0]] ELSE cur
  PROVE  Holding' /\ cur' \in [Gateways -> Holdings \cup {None}]
<1>1. cur \in [Gateways -> Holdings \cup {None}] /\ wpc \in [Gateways -> WorkerStates]
  BY DEF TypeInv, TypeOK
<1>2. [intent |-> i, approval |-> n, call |-> 0] \in Holdings
  BY DEF Holdings
<1>3. cur' \in [Gateways -> Holdings \cup {None}]
  BY <1>1, <1>2
<1>4. \A h \in Gateways : wpc'[h] \in {"submit", "report"} => cur'[h] \in Holdings
  BY <1>1, <1>2 DEF Answer, TypeInv, Holding
<1>5. \A h \in Gateways : wpc'[h] = "report" => cur'[h].call \in 1..Len(calls)
  BY <1>1, <1>2 DEF Answer, TypeInv, Holding
<1>6. \A r \in Requested' : r.op = "receipt" => r.id \in 1..Len(calls)
  BY DoneRequested DEF TypeInv, Holding
<1> QED
  BY <1>3, <1>4, <1>5, <1>6 DEF Holding

\* A worker that gives up leaves no request with another receipt in it.
LEMMA GiveUpType ==
  ASSUME TypeInv, NEW g \in Gateways, NEW requests \in SUBSET net, GiveUp(g, requests),
         UNCHANGED <<cur, calls>>
  PROVE  /\ net' \subseteq ClaimRequests \cup ReceiptRequests
         /\ api' = None \/ api' \in [req : Requests, read : PendingLists]
         /\ wpc' \in [Gateways -> WorkerStates]
         /\ Holding'
<1>1. \A r \in Requests : Abandoned(g, r) \in Requests
  BY DEF Abandoned, Requests, PollRequests, ClaimRequests, ReceiptRequests, DispatchRequests
<1>2. \A r \in ClaimRequests \cup ReceiptRequests : Abandoned(g, r) \in ClaimRequests \cup ReceiptRequests
  BY DEF Abandoned, ClaimRequests, ReceiptRequests
<1>3. \A r \in Requests : /\ Abandoned(g, r).op = r.op
                          /\ r.op = "receipt" => Abandoned(g, r).id = r.id
  BY DEF Abandoned, Requests, PollRequests, ClaimRequests, ReceiptRequests, DispatchRequests
<1>4. net' \subseteq ClaimRequests \cup ReceiptRequests
  BY <1>2 DEF GiveUp, TypeInv, TypeOK
<1>5. api' = None \/ api' \in [req : Requests, read : PendingLists]
  BY <1>1 DEF GiveUp, TypeInv, TypeOK
<1>6. wpc' \in [Gateways -> WorkerStates]
  BY DEF GiveUp, TypeInv, TypeOK, WorkerStates
<1>7. \A r \in Requested' : \E q \in Requested : r = Abandoned(g, q)
  <2>1. \A r \in net' : \E q \in net : r = Abandoned(g, q)
    BY DEF GiveUp
  <2>2. api' # None => api # None /\ api'.req = Abandoned(g, api.req)
    BY DEF GiveUp, TypeInv, TypeOK
  <2> QED
    BY <2>1, <2>2 DEF Requested
<1>8. \A r \in Requested' : r.op = "receipt" => r.id \in 1..Len(calls)
  BY <1>3, <1>7, RequestType DEF TypeInv, Holding
<1>9. \A h \in Gateways :
       /\ wpc'[h] \in {"submit", "report"} => cur[h] \in Holdings
       /\ wpc'[h] = "report" => cur[h].call \in 1..Len(calls)
  BY DEF GiveUp, TypeInv, TypeOK, Holding
<1> QED
  BY <1>4, <1>5, <1>6, <1>8, <1>9 DEF Holding

\* The submitter's call: the log grows by one entry, which the worker reports.
LEMMA CallType ==
  ASSUME TypeInv, NEW g \in Gateways, wpc[g] = "submit",
         NEW result \in [broker : BrokerStatuses \cup {"NONE"}, reported : ReceiptStatuses],
         CallSubmitter(g, result)
  PROVE  /\ calls' \in Seq(Submissions)
         /\ Len(calls') = Len(calls) + 1
         /\ receipts' \subseteq 1..Len(calls')
         /\ cur' \in [Gateways -> Holdings \cup {None}]
         /\ wpc' \in [Gateways -> WorkerStates]
         /\ Holding'
<1> DEFINE s == [intent |-> cur[g].intent, approval |-> cur[g].approval, gateway |-> g,
                 broker |-> result.broker, reported |-> result.reported]
<1>1. cur[g] \in Holdings
  BY DEF TypeInv, Holding
<1>2. s \in Submissions
  BY <1>1 DEF Holdings, Submissions
<1>3. calls \in Seq(Submissions) /\ calls' = Append(calls, s)
  BY DEF CallSubmitter, TypeInv, TypeOK
<1>4. calls' \in Seq(Submissions) /\ Len(calls') = Len(calls) + 1 /\ Len(calls) \in Nat
  BY <1>2, <1>3
<1>5. receipts' \subseteq 1..Len(calls')
  BY <1>4 DEF CallSubmitter, storeVars, TypeInv, TypeOK
<1>6. [cur[g] EXCEPT !.call = Len(calls) + 1] \in Holdings
  BY <1>1, <1>4 DEF Holdings
<1>7. cur' = [cur EXCEPT ![g] = [cur[g] EXCEPT !.call = Len(calls) + 1]]
  BY DEF CallSubmitter
<1>8. cur' \in [Gateways -> Holdings \cup {None}]
  BY <1>6, <1>7 DEF TypeInv, TypeOK
<1>9. wpc' \in [Gateways -> WorkerStates]
  BY DEF CallSubmitter, TypeInv, TypeOK, WorkerStates
<1>10. cur'[g] \in Holdings /\ cur'[g].call = Len(calls')
  BY <1>1, <1>4, <1>6, <1>7 DEF TypeInv, TypeOK, Holdings
<1>11. \A h \in Gateways \ {g} : wpc'[h] = wpc[h] /\ cur'[h] = cur[h]
  BY DEF CallSubmitter, TypeInv, TypeOK
<1>12. \A h \in Gateways :
        /\ wpc'[h] \in {"submit", "report"} => cur'[h] \in Holdings
        /\ wpc'[h] = "report" => cur'[h].call \in 1..Len(calls')
  BY <1>4, <1>10, <1>11 DEF TypeInv, Holding
<1>13. Requested' = Requested
  BY DEF CallSubmitter, Requested
<1>14. \A r \in Requested' : r.op = "receipt" => r.id \in 1..Len(calls')
  BY <1>4, <1>13 DEF TypeInv, Holding
<1> QED
  BY <1>4, <1>5, <1>8, <1>9, <1>12, <1>14 DEF Holding

\* The bookkeeping of a handler's start: the request is read or made.
LEMMA BeginType ==
  ASSUME TypeInv, NEW req \in Requests, Begin(req)
  PROVE  api' = None \/ api' \in [req : Requests, read : PendingLists]
  BY DEF Begin, TypeInv, TypeOK

\* Every action preserves the types and what workers hold.
LEMMA TypeStep ==
  ASSUME TypeInv, [Next]_apiVars
  PROVE  TypeInv'
<1> USE DEF TypeInv
<1>1. ASSUME NEW i \in Dispatched, BeginDispatch(i)
      PROVE  TypeInv'
  <2>1. [op |-> "dispatch", intent |-> i] \in Requests
    BY BoundsAssumption DEF Requests, DispatchRequests
  <2>2. api' = None \/ api' \in [req : Requests, read : PendingLists]
    BY <1>1, <2>1, BeginType DEF BeginDispatch
  <2>3. TypeOK'
    BY <1>1, <2>2 DEF BeginDispatch, TypeOK, storeVars, workerVars
  <2>4. Holding'
    BY <1>1 DEF BeginDispatch, Begin, Holding, Requested, workerVars
  <2> QED
    BY <2>3, <2>4
<1>2. CASE ServeRequest
  <2>1. PICK req \in net : /\ Begin(req)
                          /\ net' = net \ {req}
                          /\ UNCHANGED <<storeVars, approvals, workerVars, calls, dispatched, day, faults>>
    BY <1>2 DEF ServeRequest
  <2>2. api' = None \/ api' \in [req : Requests, read : PendingLists]
    BY <2>1, BeginType DEF TypeOK, Requests
  <2>3. TypeOK'
    BY <2>1, <2>2 DEF TypeOK, storeVars, workerVars
  <2>4. Requested' \subseteq Requested
    BY <2>1 DEF Begin, Requested
  <2>5. Holding'
    BY <2>1, <2>4 DEF Holding, workerVars
  <2> QED
    BY <2>3, <2>5
<1>3. CASE FinishDispatch
  <2>1. api # None /\ api.req \in DispatchRequests
    BY <1>3 DEF FinishDispatch, Running, TypeOK, Requests, PollRequests, ClaimRequests,
                ReceiptRequests, DispatchRequests
  <2>2. PICK i \in Intents : api.req.intent = i
    BY <2>1 DEF DispatchRequests
  <2>3. NewPacket(i) \in Packets
    BY <2>2, NewPacketType
  <2>4. pending' \in PendingLists /\ history' \in PendingLists /\ approvals' \in [Intents -> Nat]
    BY <1>3, <2>1, <2>2, <2>3 DEF FinishDispatch, Save, TypeOK, PendingLists
  <2>5. TypeOK'
    BY <1>3, <2>4 DEF FinishDispatch, Done, TypeOK, workerVars
  <2>6. Holding'
    BY <1>3, DoneRequested DEF FinishDispatch, Holding, workerVars
  <2> QED
    BY <2>5, <2>6
<1>4. CASE FinishPoll
  <2>1. pending' \in PendingLists
    BY <1>4, SaveType DEF FinishPoll, Running
  <2>2. wpc' \in [Gateways -> WorkerStates]
    BY <1>4, AnswerType DEF FinishPoll, WorkerStates
  <2>3. batch' \in [Gateways -> SUBSET Intents]
    BY <1>4 DEF FinishPoll, TypeOK
  <2>4. TypeOK'
    BY <1>4, <2>1, <2>2, <2>3 DEF FinishPoll, Done, TypeOK
  <2>5. Holding'
    BY <1>4, AnswerHolding DEF FinishPoll
  <2> QED
    BY <2>4, <2>5
<1>5. CASE GrantClaim \/ RepeatClaim
  <2>1. api # None /\ api.req \in ClaimRequests
    BY <1>5 DEF GrantClaim, RepeatClaim, Running, TypeOK, Requests, PollRequests,
                ClaimRequests, ReceiptRequests, DispatchRequests
  <2>2. PICK i \in Intents, g \in Gateways : api.req.intent = i /\ api.req.gateway = g
    BY <2>1 DEF ClaimRequests
  <2>3. Working \in PendingLists
    BY <2>1, WorkingType
  <2>4. Working[i] \in Packets
    BY <1>5, <2>1, <2>2, <2>3
       DEF GrantClaim, RepeatClaim, Claimable, Approved, ClaimedBy, PendingLists
  <2>5. Working[i].approval \in Nat
    BY <2>4 DEF Packets
  <2>6. Holding' /\ cur' \in [Gateways -> Holdings \cup {None}]
    BY <1>5, <2>2, <2>5, GrantHolding DEF GrantClaim, RepeatClaim
  <2>7. wpc' \in [Gateways -> WorkerStates]
    BY <1>5, AnswerType DEF GrantClaim, RepeatClaim, WorkerStates
  <2>8. CASE GrantClaim
    <3>1. [Working[i] EXCEPT !.status = "claimed", !.claim = g] \in Packets
      BY <2>4 DEF Packets, IntentStatuses, OpenStatuses
    <3>2. pending' \in PendingLists /\ history' \in PendingLists
      BY <2>2, <2>3, <2>8, <3>1 DEF GrantClaim, Save, TypeOK, PendingLists
    <3>3. TypeOK'
      BY <2>6, <2>7, <2>8, <3>2 DEF GrantClaim, Done, TypeOK
    <3> QED
      BY <2>6, <3>3
  <2>9. CASE RepeatClaim
    <3>1. pending' \in PendingLists
      BY <2>1, <2>9, SaveType DEF RepeatClaim
    <3>2. TypeOK'
      BY <2>6, <2>7, <2>9, <3>1 DEF RepeatClaim, Done, TypeOK
    <3> QED
      BY <2>6, <3>2
  <2> QED
    BY <1>5, <2>8, <2>9
<1>6. CASE RefuseClaim \/ RejectReceipt
  <2>1. pending' \in PendingLists
    BY <1>6, SaveType DEF RefuseClaim, RejectReceipt, Running
  <2>2. wpc' \in [Gateways -> WorkerStates]
    BY <1>6, AnswerType DEF RefuseClaim, RejectReceipt, WorkerStates
  <2>3. TypeOK'
    BY <1>6, <2>1, <2>2 DEF RefuseClaim, RejectReceipt, Done, TypeOK
  <2>4. Holding'
    BY <1>6, AnswerHolding DEF RefuseClaim, RejectReceipt
  <2> QED
    BY <2>3, <2>4
<1>7. CASE RepeatReceipt
  <2>1. wpc' \in [Gateways -> WorkerStates]
    BY <1>7, AnswerType DEF RepeatReceipt, WorkerStates
  <2>2. TypeOK'
    BY <1>7, <2>1 DEF RepeatReceipt, Done, TypeOK, storeVars
  <2>3. Holding'
    BY <1>7, AnswerHolding DEF RepeatReceipt
  <2> QED
    BY <2>2, <2>3
<1>8. CASE StoreReceipt
  <2>1. api # None /\ api.req \in ReceiptRequests
    BY <1>8 DEF StoreReceipt, Running, TypeOK, Requests, PollRequests,
                ClaimRequests, ReceiptRequests, DispatchRequests
  <2>2. PICK k \in 1..Len(calls) : api.req.id = k
    BY <2>1 DEF Holding, Requested, ReceiptRequests
  <2>3. PICK i \in Intents : calls[k].intent = i
    <3>1. calls[k] \in Submissions
      BY DEF TypeOK
    <3> QED
      BY <3>1 DEF Submissions
  <2>4. Working \in PendingLists
    BY <2>1, WorkingType
  <2>5. Matched(i) \in Packets
    BY <1>8, <2>2, <2>3, <2>4 DEF StoreReceipt, Matched, PendingLists, TypeOK
  <2>6. Reported(Matched(i), k) \in Packets
    BY <2>5, ReportedType
  <2>7. history' \in PendingLists
    BY <1>8, <2>2, <2>3, <2>6 DEF StoreReceipt, TypeOK, PendingLists
  <2>8. pending' \in PendingLists
    <3>1. CASE Working[i] # None
      <4>1. Reported(Working[i], k) \in Packets
        BY <2>6, <3>1 DEF Matched
      <4>2. AfterReceipt(Working, i, k) \in PendingLists
        BY <2>4, <4>1 DEF AfterReceipt, PendingLists
      <4> QED
        BY <1>8, <2>2, <2>3, <3>1, <4>2 DEF StoreReceipt, Save
    <3>2. CASE Working[i] = None
      BY <1>8, <2>1, <2>2, <2>3, <3>2, SaveType DEF StoreReceipt
    <3> QED
      BY <3>1, <3>2
  <2>9. wpc' \in [Gateways -> WorkerStates]
    BY <1>8, AnswerType DEF StoreReceipt, WorkerStates
  <2>10. receipts' \subseteq 1..Len(calls')
    BY <1>8, <2>2 DEF StoreReceipt, TypeOK
  <2>11. TypeOK'
    BY <1>8, <2>7, <2>8, <2>9, <2>10 DEF StoreReceipt, Done, TypeOK
  <2>12. Holding'
    BY <1>8, AnswerHolding DEF StoreReceipt
  <2> QED
    BY <2>11, <2>12
<1>9. ASSUME NEW g \in Gateways, WorkerStep(g) \/ FaultStep(g)
      PROVE  TypeInv'
  <2>1. CASE Poll(g)
    <3>1. [op |-> "poll", gateway |-> g, live |-> TRUE] \in Requests
      BY DEF Requests, PollRequests
    <3>2. api' = None \/ api' \in [req : Requests, read : PendingLists]
      BY <2>1, <3>1, BeginType DEF Poll
    <3>3. TypeOK'
      BY <2>1, <3>2 DEF Poll, TypeOK, storeVars, WorkerStates
    <3>4. Holding'
      BY <2>1 DEF Poll, Begin, Holding, Requested, TypeOK
    <3> QED
      BY <3>3, <3>4
  <2>2. CASE SendClaim(g)
    <3>1. PICK i \in batch[g] :
            /\ net' = net \cup {[op |-> "claim", gateway |-> g, live |-> TRUE, intent |-> i]}
            /\ batch' = [batch EXCEPT ![g] = @ \ {i}]
      BY <2>2 DEF SendClaim
    <3>2. [op |-> "claim", gateway |-> g, live |-> TRUE, intent |-> i] \in ClaimRequests
      BY DEF ClaimRequests, TypeOK
    <3>3. TypeOK'
      BY <2>2, <3>1, <3>2 DEF SendClaim, TypeOK, storeVars, WorkerStates
    <3>4. Holding'
      BY <2>2, <3>1 DEF SendClaim, Holding, Requested, TypeOK
    <3> QED
      BY <3>3, <3>4
  <2>3. ASSUME SubmitHeard(g) \/ SubmitRaised(g) \/ SubmitUnheard(g)
        PROVE  TypeInv'
    <3>1. Heard \subseteq [broker : BrokerStatuses \cup {"NONE"}, reported : ReceiptStatuses]
      BY DEF Heard, SubmitterAnswers, NormalizedStatus, BrokerStatuses, ReceiptStatuses
    <3>2. /\ Raised \in [broker : BrokerStatuses \cup {"NONE"}, reported : ReceiptStatuses]
          /\ Unheard \in [broker : BrokerStatuses \cup {"NONE"}, reported : ReceiptStatuses]
      BY DEF Raised, Unheard, BrokerStatuses, ReceiptStatuses
    <3>3. PICK result \in [broker : BrokerStatuses \cup {"NONE"}, reported : ReceiptStatuses] :
            wpc[g] = "submit" /\ CallSubmitter(g, result)
      BY <2>3, <3>1, <3>2 DEF SubmitHeard, SubmitRaised, SubmitUnheard
    <3>4. cur[g].intent \in Intents
      BY <3>3 DEF Holding, Holdings
    <3>5. dispatched' \in [Gateways -> SUBSET Intents] /\ faults' \in Nat
      <4>1. \/ dispatched' = dispatched
            \/ dispatched' = [dispatched EXCEPT ![g] = @ \cup {cur[g].intent}]
        BY <2>3 DEF SubmitHeard, SubmitRaised, SubmitUnheard
      <4>2. faults' = faults \/ faults' = faults + 1
        BY <2>3 DEF SubmitHeard, SubmitRaised, SubmitUnheard, Fault
      <4>3. dispatched \in [Gateways -> SUBSET Intents] /\ faults \in Nat
        BY DEF TypeOK
      <4>4. dispatched' \in [Gateways -> SUBSET Intents]
        BY <3>4, <4>1, <4>3
      <4>5. faults' \in Nat
        BY <4>2, <4>3
      <4> QED
        BY <4>4, <4>5
    <3>6. UNCHANGED <<pending, history, receipts, approvals, api, net, batch, day>>
      BY <3>3 DEF CallSubmitter, storeVars
    <3>7. /\ calls' \in Seq(Submissions)
          /\ receipts' \subseteq 1..Len(calls')
          /\ cur' \in [Gateways -> Holdings \cup {None}]
          /\ wpc' \in [Gateways -> WorkerStates]
          /\ Holding'
      BY <3>3, CallType
    <3>8. TypeOK'
      BY <3>5, <3>6, <3>7 DEF TypeOK
    <3> QED
      BY <3>7, <3>8
  <2>4. CASE PostReceipt(g)
    <3>1. [op |-> "receipt", gateway |-> g, live |-> TRUE, id |-> cur[g].call] \in ReceiptRequests
      BY <2>4 DEF PostReceipt, Holding, Holdings, ReceiptRequests
    <3>2. TypeOK'
      BY <2>4, <3>1 DEF PostReceipt, TypeOK, storeVars, WorkerStates
    <3>3. Holding'
      BY <2>4 DEF PostReceipt, Holding, Requested, TypeOK
    <3> QED
      BY <3>2, <3>3
  <2>5. ASSUME Timeout(g) \/ LoseRequest(g) \/ Crash(g)
        PROVE  TypeInv'
    <3>1. PICK requests \in SUBSET net : GiveUp(g, requests)
      BY <2>5 DEF Timeout, LoseRequest, Crash
    <3>2. UNCHANGED <<storeVars, approvals, cur, calls, dispatched, day>>
      BY <2>5 DEF Timeout, LoseRequest, Crash
    <3>3. batch' = batch \/ batch' = [batch EXCEPT ![g] = {}]
      BY <2>5 DEF Timeout, LoseRequest, Crash
    <3>4. batch' \in [Gateways -> SUBSET Intents]
      BY <3>3 DEF TypeOK
    <3>5. faults' \in Nat
      <4>1. faults' = faults + 1
        BY <2>5 DEF Timeout, LoseRequest, Crash, Fault
      <4> QED
        BY <4>1 DEF TypeOK
    <3>6. TypeOK' /\ Holding'
      BY <3>1, <3>2, <3>4, <3>5, GiveUpType DEF TypeOK, storeVars
    <3> QED
      BY <3>6
  <2>6. CASE DuplicateRequest(g)
    <3>1. PICK req \in net :
            /\ faults' = faults + 1
            /\ net' = net \cup {[req EXCEPT !.live = FALSE]}
            /\ UNCHANGED <<storeVars, approvals, api, workerVars, calls, dispatched, day>>
      BY <2>6 DEF DuplicateRequest, Fault
    <3>2. req \in ClaimRequests \cup ReceiptRequests
      BY DEF TypeOK
    <3>3. [req EXCEPT !.live = FALSE] \in ClaimRequests \cup ReceiptRequests
      BY <3>2 DEF ClaimRequests, ReceiptRequests
    <3>4. /\ [req EXCEPT !.live = FALSE].op = req.op
          /\ req.op = "receipt" => [req EXCEPT !.live = FALSE].id = req.id
      BY <3>2 DEF ClaimRequests, ReceiptRequests
    <3>5. TypeOK'
      <4>1. faults' \in Nat
        BY <3>1 DEF TypeOK
      <4>2. net' \subseteq ClaimRequests \cup ReceiptRequests
        BY <3>1, <3>3 DEF TypeOK
      <4> QED
        BY <3>1, <4>1, <4>2 DEF TypeOK, storeVars, workerVars
    <3>6. Holding'
      BY <3>1, <3>4 DEF Holding, Requested, workerVars
    <3> QED
      BY <3>5, <3>6
  <2> QED
    BY <1>9, <2>1, <2>2, <2>3, <2>4, <2>5, <2>6 DEF WorkerStep, Submit, FaultStep
<1>10. CASE Tick
  BY <1>10 DEF Tick, TypeOK, Holding, Requested, storeVars, workerVars
<1>11. CASE UNCHANGED apiVars
  BY <1>11 DEF apiVars, TypeOK, Holding, Requested, storeVars, workerVars
<1> QED
  BY <1>1, <1>2, <1>3, <1>4, <1>5, <1>6, <1>7, <1>8, <1>9, <1>10, <1>11 DEF Next, FinishRequest

\* Every reachable state is well typed, for any number of workers and intents.
THEOREM TypeCorrect == Spec => []TypeOK
<1>1. Spec => []TypeInv
  BY InitTypeInv, TypeStep, PTL DEF Spec
<1>2. TypeInv => TypeOK
  BY DEF TypeInv
<1> QED
  BY <1>1, <1>2, PTL

-----------------------------------------------------------------------------
(* A worker waits for one request at a time. *)

\* At the start nothing is requested.
LEMMA InitOneRequest == Init => OneRequest
  BY DEF Init, OneRequest, Requested

\* A worker that waits for nothing has no live request.
LEMMA NotWaiting ==
  ASSUME TypeInv, OneRequest, NEW g \in Gateways, wpc[g] \in {"ready", "submit", "report"},
         NEW r \in Requested, Live(r)
  PROVE  r.gateway # g
  BY DEF OneRequest, WaitingFor

\* A caller that is answered had no other live request.
LEMMA AnswerOneRequest ==
  ASSUME TypeInv, OneRequest, api # None, api.req \notin DispatchRequests,
         Done, UNCHANGED net, NEW state, Answer(api.req.gateway, state),
         batch' = batch \/ (Live(api.req) /\ \E b \in SUBSET Intents :
                              batch' = [batch EXCEPT ![api.req.gateway] = b])
  PROVE  OneRequest'
<1> DEFINE g == api.req.gateway
<1>1. api.req \in PollRequests \cup ClaimRequests \cup ReceiptRequests
  BY DEF TypeInv, TypeOK, Requests
<1>2. /\ g \in Gateways
      /\ api.req.op # "dispatch"
      /\ Live(api.req) <=> api.req.live
  BY <1>1 DEF PollRequests, ClaimRequests, ReceiptRequests, Live
<1>3. Requested' = net /\ api' = None /\ net \subseteq Requested /\ api.req \in Requested
  BY DEF Done, Requested
<1>4. ASSUME NEW r \in net, Live(r), api.req.live
      PROVE  r.gateway # g
  BY <1>2, <1>3, <1>4 DEF OneRequest
<1>5. ASSUME NEW r \in net, Live(r)
      PROVE  wpc'[r.gateway] = wpc[r.gateway] /\ batch'[r.gateway] = batch[r.gateway]
  <2>1. r.gateway \in Gateways
    BY DEF TypeInv, TypeOK, ClaimRequests, ReceiptRequests
  <2> QED
    BY <1>2, <1>4, <1>5, <2>1 DEF Answer, TypeInv, TypeOK
<1>6. \A r \in Requested' : Live(r) => wpc'[r.gateway] = WaitingFor(r.op)
  BY <1>3, <1>5 DEF OneRequest
<1>7. \A r, s \in Requested' : Live(r) /\ Live(s) /\ r.gateway = s.gateway => r = s
  BY <1>3 DEF OneRequest
<1>8. \A r \in Requested' : r.op = "claim" /\ r.live => r.intent \notin batch'[r.gateway]
  BY <1>3, <1>5 DEF OneRequest, Live
<1> QED
  BY <1>3, <1>6, <1>7, <1>8 DEF OneRequest, Live

\* A worker that waits for nothing sends a request.
LEMMA SendOneRequest ==
  ASSUME TypeInv, OneRequest, NEW g \in Gateways, wpc[g] \in {"ready", "report"},
         NEW r \in Requests, r.op # "dispatch", r.gateway = g,
         Requested' = Requested \cup {r},
         wpc' = [wpc EXCEPT ![g] = WaitingFor(r.op)],
         api' # None => (api'.req = r /\ r \notin net')
                        \/ (api' = api /\ net' \subseteq net \cup {r}),
         \A h \in Gateways : batch'[h] \subseteq batch[h],
         r.op = "claim" => r.intent \notin batch'[g]
  PROVE  OneRequest'
<1>1. \A q \in Requested : Live(q) => q.gateway \in Gateways \ {g}
  <2>1. \A q \in Requested : Live(q) => q.gateway \in Gateways
    BY RequestType DEF TypeInv, Live, Requests, PollRequests, ClaimRequests, ReceiptRequests,
                       DispatchRequests
  <2> QED
    BY <2>1, NotWaiting
<1>2. \A q \in Requested' : Live(q) => wpc'[q.gateway] = WaitingFor(q.op)
  BY <1>1 DEF OneRequest, TypeInv, TypeOK
<1>3. \A q, s \in Requested' : Live(q) /\ Live(s) /\ q.gateway = s.gateway => q = s
  BY <1>1 DEF OneRequest
<1>4. api' # None /\ Live(api'.req) => api'.req \notin net'
  <2> SUFFICES ASSUME api' # None, Live(api'.req), api' = api, net' \subseteq net \cup {r}
               PROVE  api.req \notin net'
    OBVIOUS
  <2>1. api.req \in Requested /\ api.req \notin net
    BY DEF Requested, OneRequest
  <2>2. api.req # r
    BY <1>1, <2>1
  <2> QED
    BY <2>1, <2>2
<1>5. \A q \in Requested' : q.op = "claim" /\ q.live => q.intent \notin batch'[q.gateway]
  BY <1>1 DEF OneRequest, Live
<1> QED
  BY <1>2, <1>3, <1>4, <1>5 DEF OneRequest, Live

\* A worker that gives up has no live request left.
LEMMA GiveUpOneRequest ==
  ASSUME TypeInv, OneRequest, NEW g \in Gateways, NEW requests \in SUBSET net,
         GiveUp(g, requests),
         batch' = batch \/ batch' = [batch EXCEPT ![g] = {}]
  PROVE  OneRequest'
<1>1. \A q \in Requests :
        /\ q.op # "dispatch" /\ q.gateway = g => Abandoned(g, q).live = FALSE
        /\ q.op # "dispatch" /\ q.gateway # g => Abandoned(g, q) = q
        /\ Abandoned(g, q).op = q.op
        /\ q.op # "dispatch" => q.gateway \in Gateways
  BY DEF Abandoned, Requests, PollRequests, ClaimRequests, ReceiptRequests, DispatchRequests
<1>2. ASSUME NEW q \in Requests, Live(Abandoned(g, q))
      PROVE  Abandoned(g, q) = q /\ q.gateway \in Gateways \ {g}
  BY <1>1, <1>2 DEF Live
<1>3. \A r \in net' : \E q \in net : r = Abandoned(g, q)
  BY DEF GiveUp
<1>4. api' # None => api # None /\ api'.req = Abandoned(g, api.req)
  BY DEF GiveUp, TypeInv, TypeOK
<1>5. \A r \in net' : Live(r) => r \in net /\ r.gateway \in Gateways \ {g}
  BY <1>2, <1>3, RequestType DEF TypeInv, Requested
<1>6. api' # None /\ Live(api'.req) => api # None /\ api'.req = api.req
                                       /\ api.req.gateway \in Gateways \ {g}
  BY <1>2, <1>4, RequestType DEF TypeInv, Requested
<1>7. \A r \in Requested' : Live(r) => r \in Requested /\ r.gateway \in Gateways \ {g}
  BY <1>5, <1>6 DEF Requested
<1>8. \A h \in Gateways \ {g} : wpc'[h] = wpc[h] /\ batch'[h] = batch[h]
  BY DEF GiveUp, TypeInv, TypeOK
<1>9. \A r \in Requested' : Live(r) => wpc'[r.gateway] = WaitingFor(r.op)
  BY <1>7, <1>8 DEF OneRequest
<1>10. \A r, s \in Requested' : Live(r) /\ Live(s) /\ r.gateway = s.gateway => r = s
  BY <1>7 DEF OneRequest
<1>11. api' # None /\ Live(api'.req) => api'.req \notin net'
  BY <1>5, <1>6 DEF OneRequest
<1>12. \A r \in Requested' : r.op = "claim" /\ r.live => r.intent \notin batch'[r.gateway]
  BY <1>7, <1>8 DEF OneRequest, Live
<1> QED
  BY <1>9, <1>10, <1>11, <1>12 DEF OneRequest

\* A worker that gives up makes no claim request live.
LEMMA GiveUpRequested ==
  ASSUME TypeOK, NEW g \in Gateways, NEW requests \in SUBSET net, GiveUp(g, requests)
  PROVE  \A r \in Requested' : r.op = "claim" /\ r.live => r \in Requested
<1>1. \A q \in Requests :
        /\ Abandoned(g, q).op = q.op
        /\ q.op = "claim" /\ Abandoned(g, q).live => Abandoned(g, q) = q
  BY DEF Abandoned, Requests, PollRequests, ClaimRequests, ReceiptRequests, DispatchRequests
<1>2. \A r \in net' : \E q \in net : r = Abandoned(g, q)
  BY DEF GiveUp
<1>3. api' # None => api # None /\ api'.req = Abandoned(g, api.req)
  BY DEF GiveUp, TypeOK
<1>4. \A r \in Requested' : \E q \in Requested : r = Abandoned(g, q)
  BY <1>2, <1>3 DEF Requested
<1> QED
  BY <1>1, <1>4, RequestType

\* Every action keeps a worker to one live request.
LEMMA OneRequestStep ==
  ASSUME TypeInv, OneRequest, [Next]_apiVars
  PROVE  OneRequest'
<1>1. ASSUME NEW i \in Dispatched, BeginDispatch(i)
      PROVE  OneRequest'
  <2>1. \A r \in Requested' : r \in Requested \/ r = [op |-> "dispatch", intent |-> i]
    BY <1>1 DEF BeginDispatch, Begin, Requested
  <2>2. api' # None => ~Live(api'.req)
    BY <1>1 DEF BeginDispatch, Begin, Live
  <2>3. ~Live([op |-> "dispatch", intent |-> i])
    BY DEF Live
  <2> QED
    BY <1>1, <2>1, <2>2, <2>3 DEF BeginDispatch, OneRequest, workerVars
<1>2. CASE ServeRequest
  <2>1. PICK req \in net : Begin(req) /\ net' = net \ {req} /\ UNCHANGED workerVars
    BY <1>2 DEF ServeRequest
  <2>2. Requested' \subseteq Requested
    BY <2>1 DEF Begin, Requested
  <2>3. api' # None => api'.req \notin net'
    BY <2>1 DEF Begin
  <2> QED
    BY <2>1, <2>2, <2>3 DEF OneRequest, workerVars
<1>3. CASE FinishDispatch
  <2>1. Requested' \subseteq Requested /\ api' = None
    BY <1>3, DoneRequested DEF FinishDispatch, Done
  <2> QED
    BY <1>3, <2>1 DEF FinishDispatch, OneRequest, workerVars
<1>4. ASSUME FinishPoll \/ GrantClaim \/ RepeatClaim \/ RefuseClaim
             \/ RepeatReceipt \/ RejectReceipt \/ StoreReceipt
      PROVE  OneRequest'
  <2>1. api # None /\ api.req \notin DispatchRequests
    BY <1>4 DEF FinishPoll, GrantClaim, RepeatClaim, RefuseClaim, RepeatReceipt, RejectReceipt,
                StoreReceipt, Running, DispatchRequests
  <2>2. Done /\ UNCHANGED net /\ \E state : Answer(api.req.gateway, state)
    BY <1>4 DEF FinishPoll, GrantClaim, RepeatClaim, RefuseClaim, RepeatReceipt, RejectReceipt,
                StoreReceipt
  <2>3. batch' = batch \/ (Live(api.req) /\ \E b \in SUBSET Intents :
                             batch' = [batch EXCEPT ![api.req.gateway] = b])
    <3>1. CASE FinishPoll
      <4>1. CASE api.req.live
        <5>1. Live(api.req)
          BY <3>1, <4>1 DEF FinishPoll, Running, Live
        <5> QED
          BY <3>1, <4>1, <5>1 DEF FinishPoll
      <4> QED
        BY <3>1, <4>1 DEF FinishPoll
    <3>2. CASE ~FinishPoll
      BY <1>4, <3>2 DEF GrantClaim, RepeatClaim, RefuseClaim, RepeatReceipt, RejectReceipt,
                        StoreReceipt
    <3> QED
      BY <3>1, <3>2
  <2> QED
    BY <2>1, <2>2, <2>3, AnswerOneRequest
<1>5. ASSUME NEW g \in Gateways, WorkerStep(g) \/ FaultStep(g)
      PROVE  OneRequest'
  <2> USE DEF TypeInv
  <2>1. CASE Poll(g)
    <3> DEFINE r == [op |-> "poll", gateway |-> g, live |-> TRUE]
    <3>1. r \in Requests /\ r.op = "poll" /\ r.gateway = g
      BY DEF Requests, PollRequests
    <3>2. r \notin net
      BY <3>1 DEF TypeOK, ClaimRequests, ReceiptRequests
    <3>3. api = None /\ api' = [req |-> r, read |-> pending] /\ net' = net /\ batch' = batch
      BY <2>1 DEF Poll, Begin, Idle
    <3>4. CASE api' # None
      <4>1. Requested' = Requested \cup {r} /\ api'.req = r
        BY <3>3, <3>4 DEF Requested
      <4>2. wpc' = [wpc EXCEPT ![g] = WaitingFor(r.op)] /\ wpc[g] = "ready"
        BY <2>1, <3>1 DEF Poll, WaitingFor
      <4> QED
        BY <3>1, <3>2, <3>3, <4>1, <4>2, SendOneRequest
    <3>5. CASE api' = None
      <4>1. Requested' = net /\ Requested = net
        BY <3>3, <3>5 DEF Requested
      <4>2. \A q \in Requested : Live(q) => q.gateway # g /\ q.gateway \in Gateways
        BY <2>1, <4>1, NotWaiting DEF Poll, TypeOK, ClaimRequests, ReceiptRequests
      <4>3. \A q \in Requested : Live(q) => wpc'[q.gateway] = wpc[q.gateway]
        BY <2>1, <4>2 DEF Poll, TypeOK
      <4> QED
        BY <3>3, <3>5, <4>1, <4>3 DEF OneRequest
    <3> QED
      BY <3>4, <3>5
  <2>2. CASE SendClaim(g)
    <3>1. PICK i \in batch[g] :
            /\ net' = net \cup {[op |-> "claim", gateway |-> g, live |-> TRUE, intent |-> i]}
            /\ batch' = [batch EXCEPT ![g] = @ \ {i}]
      BY <2>2 DEF SendClaim
    <3> DEFINE r == [op |-> "claim", gateway |-> g, live |-> TRUE, intent |-> i]
    <3>2. r \in Requests /\ r.op = "claim" /\ r.gateway = g /\ r.intent = i
      BY DEF Requests, ClaimRequests, TypeOK
    <3>3. Requested' = Requested \cup {r} /\ api' = api /\ net' = net \cup {r}
      BY <2>2, <3>1 DEF SendClaim, Requested
    <3>4. wpc' = [wpc EXCEPT ![g] = WaitingFor(r.op)] /\ wpc[g] = "ready"
      BY <2>2, <3>2 DEF SendClaim, WaitingFor
    <3>5. /\ \A h \in Gateways : batch'[h] \subseteq batch[h]
          /\ i \notin batch'[g]
      BY <3>1 DEF TypeOK
    <3> HIDE DEF r
    <3> QED
      BY <3>2, <3>3, <3>4, <3>5, SendOneRequest
  <2>3. ASSUME SubmitHeard(g) \/ SubmitRaised(g) \/ SubmitUnheard(g)
        PROVE  OneRequest'
    <3>1. wpc[g] = "submit" /\ wpc' = [wpc EXCEPT ![g] = "report"] /\ UNCHANGED <<api, net, batch>>
      BY <2>3 DEF SubmitHeard, SubmitRaised, SubmitUnheard, CallSubmitter
    <3>2. Requested' = Requested
      BY <3>1 DEF Requested
    <3>3. \A q \in Requested : Live(q) => wpc'[q.gateway] = wpc[q.gateway]
      <4>1. \A q \in Requested : Live(q) => q.gateway \in Gateways
        BY RequestType DEF Live, Requests, PollRequests, ClaimRequests, ReceiptRequests,
                           DispatchRequests
      <4> QED
        BY <3>1, <4>1, NotWaiting DEF TypeOK
    <3> QED
      BY <3>1, <3>2, <3>3 DEF OneRequest
  <2>4. CASE PostReceipt(g)
    <3> DEFINE r == [op |-> "receipt", gateway |-> g, live |-> TRUE, id |-> cur[g].call]
    <3>1. r \in Requests /\ r.op = "receipt" /\ r.gateway = g
      BY <2>4 DEF PostReceipt, Holding, Holdings, Requests, ReceiptRequests
    <3>2. Requested' = Requested \cup {r} /\ api' = api /\ net' = net \cup {r} /\ batch' = batch
      BY <2>4 DEF PostReceipt, Requested
    <3>3. wpc' = [wpc EXCEPT ![g] = WaitingFor(r.op)] /\ wpc[g] = "report"
      BY <2>4, <3>1 DEF PostReceipt, WaitingFor
    <3> HIDE DEF r
    <3> QED
      BY <3>1, <3>2, <3>3, SendOneRequest
  <2>5. ASSUME Timeout(g) \/ LoseRequest(g) \/ Crash(g)
        PROVE  OneRequest'
    <3>1. PICK requests \in SUBSET net : GiveUp(g, requests)
      BY <2>5 DEF Timeout, LoseRequest, Crash
    <3>2. batch' = batch \/ batch' = [batch EXCEPT ![g] = {}]
      BY <2>5 DEF Timeout, LoseRequest, Crash
    <3> QED
      BY <3>1, <3>2, GiveUpOneRequest
  <2>6. CASE DuplicateRequest(g)
    <3>1. PICK req \in net : /\ net' = net \cup {[req EXCEPT !.live = FALSE]}
                            /\ UNCHANGED <<api, workerVars>>
      BY <2>6 DEF DuplicateRequest
    <3>2. [req EXCEPT !.live = FALSE].live = FALSE
      BY DEF TypeOK, ClaimRequests, ReceiptRequests
    <3>3. ~Live([req EXCEPT !.live = FALSE])
      BY <3>2 DEF Live
    <3>4. \A r \in Requested' : r \in Requested \/ r = [req EXCEPT !.live = FALSE]
      BY <3>1 DEF Requested
    <3> QED
      BY <3>1, <3>2, <3>3, <3>4 DEF OneRequest, workerVars
  <2> QED
    BY <1>5, <2>1, <2>2, <2>3, <2>4, <2>5, <2>6 DEF WorkerStep, Submit, FaultStep
<1>6. CASE Tick
  BY <1>6 DEF Tick, OneRequest, Requested, workerVars
<1>7. CASE UNCHANGED apiVars
  BY <1>7 DEF apiVars, OneRequest, Requested, workerVars
<1> QED
  BY <1>1, <1>2, <1>3, <1>4, <1>5, <1>6, <1>7 DEF Next, FinishRequest

-----------------------------------------------------------------------------
(* One approval, one call. *)

\* At the start no approval was given, claimed or used.
LEMMA InitExclusive == Init => Exclusive
  BY DEF Init, Exclusive, SingleWriter, Issued, Untaken, OneHolder, OneCallPerApproval,
         Approved, ClaimedBy, Taken, HasCall, HeldBy

\* Pruning keeps a packet or drops it, and what a handler saves of the pruned
\* list is what the list is now.
LEMMA WorkingIsPending ==
  ASSUME TypeInv, SingleWriter, api # None
  PROVE  /\ api.read = pending
         /\ \A i \in Intents : Working[i] = pending[i] \/ Working[i] = None
         /\ SavePruned => pending' = Working
  BY DEF SingleWriter, Working, Pruned, SavePruned, Save

\* A step in which no worker is given anything and the broker is not called.
LEMMA QuietStep ==
  ASSUME TypeInv, TypeInv', Exclusive, UNCHANGED calls,
         \A g \in Gateways : wpc'[g] = "submit" => wpc[g] = "submit" /\ cur'[g] = cur[g],
         \A i \in Intents : approvals'[i] >= approvals[i],
         \A i \in Intents :
           \/ pending'[i] = pending[i]
           \/ pending'[i] = None
           \/ pending'[i].approval = approvals[i] + 1 /\ approvals'[i] = approvals[i] + 1
              /\ pending'[i].status = "approved"
           \/ pending[i] # None /\ pending'[i].approval = pending[i].approval
              /\ \/ pending[i].status = "approved"
                 \/ pending'[i].status \notin {"approved", "claimed"},
         \A i \in Intents, g \in Gateways :
           MayAsk(g, i)' /\ pending'[i] = pending[i] /\ ClaimedBy(pending[i], g) => MayAsk(g, i),
         SingleWriter'
  PROVE  Exclusive'
<1>1. \A g \in Gateways : \A i, n : HeldBy(g, i, n)' => HeldBy(g, i, n)
  BY DEF HeldBy
<1>2. \A i, n : HasCall(i, n)' <=> HasCall(i, n)
  BY DEF HasCall
<1>3. \A i, n : Taken(i, n)' => Taken(i, n)
  BY <1>1, <1>2 DEF Taken
<1>4. \A i \in Intents : approvals[i] \in Nat /\ approvals'[i] \in Nat
  BY DEF TypeInv, TypeOK
<1>5. \A i \in Intents : pending[i] # None => pending[i].approval \in Nat
  BY DEF TypeInv, TypeOK, PendingLists, Packets
<1>6. Issued'
  <2>1. \A i \in Intents : pending'[i] # None => pending'[i].approval \in 1..approvals'[i]
    BY <1>4, <1>5 DEF Exclusive, Issued
  <2>2. \A i \in Intents, n \in Nat : Taken(i, n)' => n \in 1..approvals'[i]
    BY <1>3, <1>4 DEF Exclusive, Issued
  <2> QED
    BY <2>1, <2>2 DEF Issued
<1>7. Untaken'
  <2> SUFFICES ASSUME NEW i \in Intents, NEW n \in Nat, NEW g \in Gateways,
                      pending'[i] # None,
                      pending'[i].approval = n,
                      \/ pending'[i].status = "approved"
                      \/ pending'[i].status = "claimed" /\ pending'[i].claim = g /\ MayAsk(g, i)'
               PROVE  ~Taken(i, n)
    BY <1>3 DEF Untaken
  <2>1. CASE pending'[i] = pending[i]
    BY <2>1 DEF Exclusive, Untaken, ClaimedBy
  <2>2. CASE n = approvals[i] + 1
    BY <1>4, <2>2 DEF Exclusive, Issued
  <2>3. CASE pending[i] # None /\ pending[i].approval = n /\ pending[i].status = "approved"
    BY <2>3 DEF Exclusive, Untaken
  <2> QED
    BY <2>1, <2>2, <2>3
<1>8. OneHolder'
  BY <1>1, <1>2 DEF Exclusive, OneHolder
<1>9. OneCallPerApproval'
  BY DEF Exclusive, OneCallPerApproval
<1> QED
  BY <1>6, <1>7, <1>8, <1>9 DEF Exclusive

\* The claim is answered and its worker, which may ask no more, holds the packet.
LEMMA TakeStep ==
  ASSUME TypeInv, TypeInv', OneRequest, Exclusive, UNCHANGED <<calls, batch, approvals, net>>,
         Done, Running("claim"), api.req.live,
         NEW g \in Gateways, api.req.gateway = g,
         NEW i \in Intents, api.req.intent = i,
         NEW n \in Nat, pending[i] # None, pending[i].approval = n, ~Taken(i, n),
         pending'[i].status = "claimed", pending'[i].claim = g, pending'[i].approval = n,
         \A j \in Intents \ {i} : pending'[j] = pending[j] \/ pending'[j] = None,
         wpc' = [wpc EXCEPT ![g] = "submit"],
         cur' = [cur EXCEPT ![g] = [intent |-> i, approval |-> n, call |-> 0]]
  PROVE  Exclusive'
<1>1. Requested' = net /\ net \subseteq Requested /\ api.req \in Requested
  BY DEF Done, Requested, Running
<1>2. i \notin batch[g]
  BY <1>1 DEF OneRequest, Running
<1>3. \A r \in net : r.op = "claim" /\ r.live => r.gateway # g
  BY <1>1 DEF OneRequest, Running, Live
<1>4. ~MayAsk(g, i)'
  BY <1>1, <1>2, <1>3 DEF MayAsk
<1>5. \A h \in Gateways, j \in Intents : MayAsk(h, j)' => MayAsk(h, j)
  BY <1>1 DEF MayAsk
<1>6. \A h \in Gateways : \A j, m :
        HeldBy(h, j, m)' <=> IF h = g THEN j = i /\ m = n ELSE HeldBy(h, j, m)
  BY DEF HeldBy, TypeInv, TypeOK
<1>7. \A j, m : HasCall(j, m)' <=> HasCall(j, m)
  BY DEF HasCall
<1>8. \A j, m : Taken(j, m)' => Taken(j, m) \/ (j = i /\ m = n)
  BY <1>6, <1>7 DEF Taken
<1>9. Issued'
  <2>1. n \in 1..approvals[i]
    BY DEF Exclusive, Issued
  <2>2. \A j \in Intents : pending'[j] # None => pending'[j].approval \in 1..approvals'[j]
    BY <2>1 DEF Exclusive, Issued
  <2>3. \A j \in Intents, m \in Nat : Taken(j, m)' => m \in 1..approvals'[j]
    BY <1>8, <2>1 DEF Exclusive, Issued
  <2> QED
    BY <2>2, <2>3 DEF Issued
<1>10. Untaken'
  <2> SUFFICES ASSUME NEW j \in Intents, NEW m \in Nat, NEW h \in Gateways,
                      pending'[j] # None,
                      pending'[j].approval = m,
                      \/ pending'[j].status = "approved"
                      \/ pending'[j].status = "claimed" /\ pending'[j].claim = h /\ MayAsk(h, j)'
               PROVE  ~Taken(j, m)'
    BY DEF Untaken
  <2>1. j # i
    BY <1>4
  <2>2. pending'[j] = pending[j]
    BY <2>1
  <2>3. ~Taken(j, m)
    BY <1>5, <2>2 DEF Exclusive, Untaken
  <2> QED
    BY <1>8, <2>1, <2>3
<1>11. OneHolder'
  BY <1>6, <1>7 DEF Exclusive, OneHolder, Taken
<1>12. OneCallPerApproval'
  BY DEF Exclusive, OneCallPerApproval
<1>13. SingleWriter'
  BY DEF Done, SingleWriter
<1> QED
  BY <1>9, <1>10, <1>11, <1>12, <1>13 DEF Exclusive

\* The call: what the worker held is now in the log.
LEMMA CallStep ==
  ASSUME TypeInv, TypeInv', Exclusive, NEW g \in Gateways, wpc[g] = "submit", NEW result,
         CallSubmitter(g, result)
  PROVE  Exclusive'
<1> DEFINE i == cur[g].intent
           n == cur[g].approval
           last == Len(calls) + 1
<1>1. i \in Intents /\ n \in Nat
  BY DEF TypeInv, Holding, Holdings
<1>2. /\ Len(calls) \in Nat
      /\ Len(calls') = last
      /\ \A k \in 1..Len(calls) : calls'[k] = calls[k]
      /\ calls'[last].intent = i /\ calls'[last].approval = n
  BY DEF CallSubmitter, TypeInv, TypeOK
<1>3. \A j, m : HasCall(j, m)' <=> HasCall(j, m) \/ (j = i /\ m = n)
  BY <1>2 DEF HasCall
<1>4. \A h \in Gateways : \A j, m : HeldBy(h, j, m)' <=> h # g /\ HeldBy(h, j, m)
  BY DEF HeldBy, CallSubmitter, TypeInv, TypeOK
<1>5. HeldBy(g, i, n)
  BY DEF HeldBy
<1>6. \A j, m : Taken(j, m)' => Taken(j, m)
  BY <1>3, <1>4, <1>5 DEF Taken
<1>7. ~HasCall(i, n) /\ \A h \in Gateways : HeldBy(h, i, n) => h = g
  BY <1>1, <1>5 DEF Exclusive, OneHolder
<1>8. UNCHANGED <<pending, approvals, api, net, batch>>
  BY DEF CallSubmitter, storeVars
<1>9. Issued'
  BY <1>6, <1>8 DEF Exclusive, Issued
<1>10. Untaken'
  <2>1. \A h \in Gateways, j \in Intents : MayAsk(h, j)' <=> MayAsk(h, j)
    BY <1>8 DEF MayAsk, Requested
  <2> QED
    BY <1>6, <1>8, <2>1 DEF Exclusive, Untaken
<1>11. OneHolder'
  BY <1>3, <1>4, <1>7 DEF Exclusive, OneHolder
<1>12. OneCallPerApproval'
  <2> SUFFICES ASSUME NEW j \in 1..last, NEW k \in 1..last,
                      calls'[j].intent = calls'[k].intent,
                      calls'[j].approval = calls'[k].approval
               PROVE  j = k
    BY <1>2 DEF OneCallPerApproval
  <2>1. \A m \in 1..last : m = last \/ m \in 1..Len(calls)
    BY <1>2
  <2>2. \A m \in 1..Len(calls) : ~(calls'[m].intent = i /\ calls'[m].approval = n)
    BY <1>2, <1>7 DEF HasCall
  <2>3. CASE j \in 1..Len(calls) /\ k \in 1..Len(calls)
    BY <1>2, <2>3 DEF Exclusive, OneCallPerApproval
  <2> QED
    BY <1>2, <2>1, <2>2, <2>3
<1>13. SingleWriter'
  BY <1>8 DEF Exclusive, SingleWriter
<1> QED
  BY <1>9, <1>10, <1>11, <1>12, <1>13 DEF Exclusive

\* Every action keeps an approval with one holder, who uses it once.
LEMMA ExclusiveStep ==
  ASSUME TypeInv, TypeInv', OneRequest, Exclusive, [Next]_apiVars
  PROVE  Exclusive'
<1> \A i \in Intents : approvals[i] \in Nat
  BY DEF TypeInv, TypeOK
<1>1. ASSUME NEW i \in Dispatched, BeginDispatch(i)
      PROVE  Exclusive'
  <2>1. UNCHANGED <<pending, approvals, wpc, cur, calls, batch>>
    BY <1>1 DEF BeginDispatch, storeVars, workerVars
  <2>2. \A r \in Requested' : r \in Requested \/ r.op = "dispatch"
    BY <1>1 DEF BeginDispatch, Begin, Requested
  <2>3. \A j \in Intents, g \in Gateways : MayAsk(g, j)' => MayAsk(g, j)
    BY <2>1, <2>2 DEF MayAsk
  <2>4. SingleWriter'
    BY <1>1, <2>1 DEF BeginDispatch, Begin, SingleWriter
  <2> QED
    BY <2>1, <2>3, <2>4, QuietStep
<1>2. CASE ServeRequest
  <2>1. PICK req \in net : /\ Begin(req)
                          /\ net' = net \ {req}
                          /\ UNCHANGED <<pending, approvals, wpc, cur, calls, batch>>
    BY <1>2 DEF ServeRequest, storeVars, workerVars
  <2>2. Requested' \subseteq Requested
    BY <2>1 DEF Begin, Requested
  <2>3. \A j \in Intents, g \in Gateways : MayAsk(g, j)' => MayAsk(g, j)
    BY <2>1, <2>2 DEF MayAsk
  <2>4. SingleWriter'
    BY <2>1 DEF Begin, SingleWriter
  <2> QED
    BY <2>1, <2>3, <2>4, QuietStep
<1>3. CASE FinishDispatch
  <2>1. PICK i : /\ i = api.req.intent
                 /\ pending' = [api.read EXCEPT ![i] = NewPacket(i)]
                 /\ approvals' = [approvals EXCEPT ![i] = @ + 1]
    BY <1>3 DEF FinishDispatch, Save
  <2>2. api.read = pending
    BY <1>3 DEF FinishDispatch, Running, Exclusive, SingleWriter
  <2>3. \A j \in Intents :
          \/ pending'[j] = pending[j]
          \/ pending'[j].approval = approvals[j] + 1 /\ approvals'[j] = approvals[j] + 1
             /\ pending'[j].status = "approved"
    BY <2>1, <2>2 DEF NewPacket, TypeInv, TypeOK, PendingLists
  <2>4. UNCHANGED <<wpc, cur, calls, batch>> /\ api' = None /\ Requested' \subseteq Requested
    BY <1>3, DoneRequested DEF FinishDispatch, workerVars, Done
  <2>5. \A j \in Intents, g \in Gateways : MayAsk(g, j)' => MayAsk(g, j)
    BY <2>4 DEF MayAsk
  <2>6. \A j \in Intents : approvals'[j] >= approvals[j]
    BY <2>1 DEF TypeInv, TypeOK
  <2>7. SingleWriter'
    BY <2>4 DEF SingleWriter
  <2> QED
    BY <2>3, <2>4, <2>5, <2>6, <2>7, QuietStep
<1>4. ASSUME FinishPoll \/ RefuseClaim \/ RejectReceipt \/ RepeatReceipt \/ StoreReceipt
             \/ ((GrantClaim \/ RepeatClaim) /\ ~api.req.live)
      PROVE  Exclusive'
  <2> USE DEF FinishPoll, RefuseClaim, RejectReceipt, RepeatReceipt, StoreReceipt, GrantClaim,
              RepeatClaim
  <2>1. api # None /\ api' = None /\ Done /\ UNCHANGED <<calls, approvals, net>>
    BY <1>4 DEF Running, Done
  <2>2. Requested' \subseteq Requested
    BY <2>1, DoneRequested
  <2>3. /\ api.read = pending
        /\ \A i \in Intents : Working[i] = pending[i] \/ Working[i] = None
        /\ SavePruned => pending' = Working
    BY <2>1, WorkingIsPending DEF Exclusive
  <2>4. SingleWriter'
    BY <2>1 DEF SingleWriter
  <2>5. \A g \in Gateways : wpc'[g] = "submit" => wpc[g] = "submit" /\ cur'[g] = cur[g]
    <3>1. cur' = cur
      BY <1>4
    <3>2. wpc' = wpc \/ \E g : wpc' = [wpc EXCEPT ![g] = "ready"]
      BY <1>4 DEF Answer
    <3> QED
      BY <3>1, <3>2 DEF TypeInv, TypeOK
  <2>6. ASSUME NEW i \in Intents
        PROVE  \/ pending'[i] = pending[i]
               \/ pending'[i] = None
               \/ pending[i] # None /\ pending'[i].approval = pending[i].approval
                  /\ \/ pending[i].status = "approved"
                     \/ pending'[i].status \notin {"approved", "claimed"}
    <3>1. CASE SavePruned
      BY <2>3, <3>1
    <3>2. CASE RepeatReceipt
      BY <3>2 DEF storeVars
    <3>3. CASE GrantClaim
      <4> DEFINE j == api.req.intent
                 granted == [Working[j] EXCEPT !.status = "claimed", !.claim = api.req.gateway]
      <4>1. pending' = [Working EXCEPT ![j] = granted] /\ Claimable(Working[j])
        BY <3>3 DEF Save
      <4>2. Working \in PendingLists
        BY <2>1, WorkingType DEF TypeInv
      <4>3. CASE i = j
        <5>1. Working[i] # None /\ Working[i] = pending[i] /\ pending[i].status = "approved"
          BY <2>3, <4>1, <4>3 DEF Claimable, Approved
        <5>2. Working[i] \in Packets
          BY <4>2, <5>1 DEF PendingLists
        <5>3. pending'[i].approval = pending[i].approval
          BY <4>1, <4>2, <4>3, <5>1, <5>2 DEF PendingLists, Packets
        <5> QED
          BY <5>1, <5>3
      <4>4. CASE i # j
        BY <2>3, <4>1, <4>2, <4>4 DEF PendingLists
      <4> QED
        BY <4>3, <4>4
    <3>4. CASE StoreReceipt /\ ~SavePruned
      <4> DEFINE k == api.req.id
                 j == calls[k].intent
      <4>1. Working[j] # None /\ pending' = AfterReceipt(Working, j, k) /\ k \in 1..Len(calls)
        <5>1. api.req \in Requested
          BY <2>1 DEF Requested
        <5> QED
          BY <3>4, <5>1 DEF Save, TypeInv, Holding, Running
      <4>2. Working \in PendingLists
        BY <2>1, WorkingType DEF TypeInv
      <4>3. calls[k].reported \in ReceiptStatuses
        <5>1. calls[k] \in Submissions
          BY <4>1 DEF TypeInv, TypeOK
        <5> QED
          BY <5>1 DEF Submissions
      <4>4. CASE i = j
        <5>1. Working[i] = pending[i] /\ pending[i] # None
          BY <2>3, <4>1, <4>4
        <5>2. pending[i] \in Packets
          BY <4>2, <4>4, <5>1 DEF PendingLists
        <5>3. pending'[i] = None \/ pending'[i] = pending[i]
              \/ pending'[i] = WithReceipt(pending[i], k)
          BY <4>1, <4>2, <4>4, <5>1 DEF AfterReceipt, Reported, PendingLists
        <5>4. /\ WithReceipt(pending[i], k).status = calls[k].reported
              /\ WithReceipt(pending[i], k).approval = pending[i].approval
          BY <5>2 DEF WithReceipt, Packets
        <5>5. calls[k].reported \notin {"approved", "claimed"}
          BY <4>3 DEF ReceiptStatuses
        <5> QED
          BY <5>1, <5>3, <5>4, <5>5
      <4>5. CASE i # j
        BY <2>3, <4>1, <4>2, <4>5 DEF AfterReceipt, PendingLists
      <4> QED
        BY <4>4, <4>5
    <3> QED
      BY <1>4, <3>1, <3>2, <3>3, <3>4
  <2>7. ASSUME NEW i \in Intents, NEW g \in Gateways,
               MayAsk(g, i)', pending'[i] = pending[i], ClaimedBy(pending[i], g)
        PROVE  MayAsk(g, i)
    <3>1. CASE i \in batch[g] \/ i \notin batch'[g]
      BY <2>2, <2>7, <3>1 DEF MayAsk
    <3>2. CASE i \in batch'[g] /\ i \notin batch[g]
      <4>1. FinishPoll /\ Approved(Working[i])
        <5>1. FinishPoll
          BY <1>4, <3>2
        <5>2. batch' = [batch EXCEPT ![api.req.gateway] = {j \in Intents : Approved(Working[j])}]
          BY <3>2, <5>1 DEF FinishPoll
        <5>3. batch \in [Gateways -> SUBSET Intents]
          BY DEF TypeInv, TypeOK
        <5>4. i \in {j \in Intents : Approved(Working[j])}
          BY <3>2, <5>2, <5>3
        <5> QED
          BY <5>1, <5>4
      <4> QED
        BY <2>3, <2>7, <4>1 DEF Approved, ClaimedBy
    <3> QED
      BY <3>1, <3>2
  <2> HIDE DEF FinishPoll, RefuseClaim, RejectReceipt, RepeatReceipt, StoreReceipt, GrantClaim,
               RepeatClaim
  <2> QED
    BY <2>1, <2>4, <2>5, <2>6, <2>7, QuietStep
<1>5. ASSUME GrantClaim \/ RepeatClaim, api.req.live
      PROVE  Exclusive'
  <2>1. /\ api # None /\ Running("claim") /\ Done
        /\ UNCHANGED <<calls, batch, approvals, net>>
    BY <1>5 DEF GrantClaim, RepeatClaim, Running
  <2>2. api.req \in ClaimRequests
    BY <2>1 DEF Running, TypeInv, TypeOK, Requests, PollRequests, ClaimRequests, ReceiptRequests,
                DispatchRequests
  <2>3. PICK i \in Intents, g \in Gateways : api.req.intent = i /\ api.req.gateway = g
    BY <2>2 DEF ClaimRequests
  <2>4. /\ api.read = pending
        /\ \A j \in Intents : Working[j] = pending[j] \/ Working[j] = None
        /\ SavePruned => pending' = Working
    BY <2>1, WorkingIsPending DEF Exclusive
  <2>5. Working \in PendingLists
    BY <2>1, WorkingType DEF TypeInv
  <2>6. Working[i] # None /\ Working[i] = pending[i] /\ Working[i] \in Packets
    BY <1>5, <2>3, <2>4, <2>5 DEF GrantClaim, RepeatClaim, Claimable, Approved, ClaimedBy,
                                  PendingLists
  <2>7. PICK n \in Nat : n = pending[i].approval
    BY <2>6 DEF Packets
  <2>8. /\ wpc' = [wpc EXCEPT ![g] = "submit"]
        /\ cur' = [cur EXCEPT ![g] = [intent |-> i, approval |-> n, call |-> 0]]
    BY <1>5, <2>3, <2>6, <2>7 DEF GrantClaim, RepeatClaim, Answer
  <2>9. CASE GrantClaim
    <3> DEFINE granted == [Working[i] EXCEPT !.status = "claimed", !.claim = g]
    <3>1. pending' = [Working EXCEPT ![i] = granted] /\ pending[i].status = "approved"
      BY <2>3, <2>6, <2>9 DEF GrantClaim, Save, Claimable, Approved
    <3>2. /\ pending'[i].status = "claimed"
          /\ pending'[i].claim = g
          /\ pending'[i].approval = n
      BY <2>5, <2>6, <2>7, <3>1 DEF PendingLists, Packets
    <3>3. \A j \in Intents \ {i} : pending'[j] = pending[j] \/ pending'[j] = None
      BY <2>4, <2>5, <3>1 DEF PendingLists
    <3>4. ~Taken(i, n)
      BY <2>3, <2>6, <2>7, <3>1 DEF Exclusive, Untaken
    <3> QED
      BY <1>5, <2>1, <2>3, <2>6, <2>7, <2>8, <3>2, <3>3, <3>4, TakeStep
  <2>10. CASE RepeatClaim
    <3>1. ClaimedBy(pending[i], g) /\ pending' = Working
      BY <2>3, <2>4, <2>6, <2>10 DEF RepeatClaim
    <3>2. /\ pending'[i].status = "claimed"
          /\ pending'[i].claim = g
          /\ pending'[i].approval = n
      BY <2>6, <2>7, <3>1 DEF ClaimedBy
    <3>3. \A j \in Intents \ {i} : pending'[j] = pending[j] \/ pending'[j] = None
      BY <2>4, <3>1
    <3>4. MayAsk(g, i)
      BY <1>5, <2>1, <2>3 DEF MayAsk, Requested, Running
    <3>5. ~Taken(i, n)
      BY <2>6, <2>7, <3>1, <3>4 DEF Exclusive, Untaken, ClaimedBy
    <3> QED
      BY <1>5, <2>1, <2>3, <2>6, <2>7, <2>8, <3>2, <3>3, <3>5, TakeStep
  <2> QED
    BY <1>5, <2>9, <2>10
<1>6. ASSUME NEW g \in Gateways, WorkerStep(g) \/ FaultStep(g)
      PROVE  Exclusive'
  <2>1. ASSUME SubmitHeard(g) \/ SubmitRaised(g) \/ SubmitUnheard(g)
        PROVE  Exclusive'
    <3>1. PICK result : wpc[g] = "submit" /\ CallSubmitter(g, result)
      BY <2>1 DEF SubmitHeard, SubmitRaised, SubmitUnheard
    <3> QED
      BY <3>1, CallStep
  <2>2. ASSUME Poll(g) \/ SendClaim(g) \/ PostReceipt(g)
               \/ Timeout(g) \/ LoseRequest(g) \/ Crash(g) \/ DuplicateRequest(g)
        PROVE  Exclusive'
    <3>1. UNCHANGED <<pending, approvals, cur, calls>>
      BY <2>2 DEF Poll, SendClaim, PostReceipt, Timeout, LoseRequest, Crash, DuplicateRequest,
                  storeVars, workerVars
    <3>2. \A h \in Gateways : wpc'[h] = "submit" => wpc[h] = "submit"
      <4>1. wpc' = wpc \/ \E state \in WorkerStates \ {"submit"} : wpc' = [wpc EXCEPT ![g] = state]
        BY <2>2 DEF Poll, SendClaim, PostReceipt, Timeout, LoseRequest, Crash, DuplicateRequest,
                    GiveUp, workerVars, WorkerStates
      <4> QED
        BY <4>1 DEF TypeInv, TypeOK
    <3>3. SingleWriter'
      <4>1. CASE Poll(g)
        BY <3>1, <4>1 DEF Poll, Begin, SingleWriter
      <4>2. CASE SendClaim(g) \/ PostReceipt(g) \/ DuplicateRequest(g)
        BY <3>1, <4>2 DEF SendClaim, PostReceipt, DuplicateRequest, Exclusive, SingleWriter
      <4>3. ASSUME NEW requests \in SUBSET net, GiveUp(g, requests)
            PROVE  SingleWriter'
        BY <3>1, <4>3 DEF GiveUp, Exclusive, SingleWriter, TypeInv, TypeOK
      <4>4. Timeout(g) \/ LoseRequest(g) \/ Crash(g)
              => \E requests \in SUBSET net : GiveUp(g, requests)
        BY DEF Timeout, LoseRequest, Crash
      <4> QED
        BY <2>2, <4>1, <4>2, <4>3, <4>4
    <3>4. ASSUME NEW i \in Intents, NEW h \in Gateways, MayAsk(h, i)'
          PROVE  MayAsk(h, i)
      <4>1. CASE Poll(g)
        <5>1. \A r \in Requested' : r \in Requested \/ r.op = "poll"
          BY <4>1 DEF Poll, Begin, Requested
        <5> QED
          BY <3>4, <4>1, <5>1 DEF Poll, MayAsk
      <4>2. CASE SendClaim(g)
        <5>1. PICK j \in batch[g] :
                /\ net' = net \cup {[op |-> "claim", gateway |-> g, live |-> TRUE, intent |-> j]}
                /\ batch' = [batch EXCEPT ![g] = @ \ {j}]
          BY <4>2 DEF SendClaim
        <5>2. \A r \in Requested' :
                r \in Requested \/ r = [op |-> "claim", gateway |-> g, live |-> TRUE, intent |-> j]
          BY <4>2, <5>1 DEF SendClaim, Requested
        <5> QED
          BY <3>4, <5>1, <5>2 DEF MayAsk, TypeInv, TypeOK
      <4>3. CASE PostReceipt(g)
        <5>1. \A r \in Requested' : r \in Requested \/ r.op = "receipt"
          BY <4>3 DEF PostReceipt, Requested
        <5> QED
          BY <3>4, <4>3, <5>1 DEF PostReceipt, MayAsk
      <4>4. CASE Timeout(g) \/ LoseRequest(g) \/ Crash(g)
        <5>1. PICK requests \in SUBSET net : GiveUp(g, requests)
          BY <4>4 DEF Timeout, LoseRequest, Crash
        <5>2. batch' = batch \/ batch' = [batch EXCEPT ![g] = {}]
          BY <4>4 DEF Timeout, LoseRequest, Crash
        <5>3. \A r \in Requested' : r.op = "claim" /\ r.live => r \in Requested
          BY <5>1, GiveUpRequested DEF TypeInv
        <5> QED
          BY <3>4, <5>2, <5>3 DEF MayAsk, TypeInv, TypeOK
      <4>5. CASE DuplicateRequest(g)
        <5>1. PICK req \in net : /\ net' = net \cup {[req EXCEPT !.live = FALSE]}
                                /\ UNCHANGED <<api, workerVars>>
          BY <4>5 DEF DuplicateRequest
        <5>2. [req EXCEPT !.live = FALSE].live = FALSE
          BY DEF TypeInv, TypeOK, ClaimRequests, ReceiptRequests
        <5>3. \A r \in Requested' : r \in Requested \/ r = [req EXCEPT !.live = FALSE]
          BY <5>1 DEF Requested
        <5> QED
          BY <3>4, <5>1, <5>2, <5>3 DEF MayAsk, workerVars
      <4> QED
        BY <2>2, <4>1, <4>2, <4>3, <4>4, <4>5
    <3> QED
      BY <3>1, <3>2, <3>3, <3>4, QuietStep
  <2> QED
    BY <1>6, <2>1, <2>2 DEF WorkerStep, Submit, FaultStep
<1>7. CASE Tick \/ UNCHANGED apiVars
  <2>1. UNCHANGED <<pending, approvals, api, net, wpc, batch, cur, calls>>
    BY <1>7 DEF Tick, apiVars, storeVars, workerVars
  <2>2. \A i \in Intents, g \in Gateways : MayAsk(g, i)' => MayAsk(g, i)
    BY <2>1 DEF MayAsk, Requested
  <2>3. SingleWriter'
    BY <2>1 DEF Exclusive, SingleWriter
  <2> QED
    BY <2>1, <2>2, <2>3, QuietStep
<1> QED
  BY <1>1, <1>2, <1>3, <1>4, <1>5, <1>6, <1>7 DEF Next, FinishRequest

\* The inductive invariant holds in every reachable state of the gateway API.
THEOREM Invariance == Spec => []IInv
<1>1. Init => IInv
  BY InitTypeInv, InitOneRequest, InitExclusive DEF IInv
<1>2. IInv /\ [Next]_apiVars => IInv'
  BY TypeStep, OneRequestStep, ExclusiveStep DEF IInv
<1> QED
  BY <1>1, <1>2, PTL DEF Spec

\* One approval of an intent never reaches the submitter twice, however many
\* workers poll, whatever is delayed, lost, repeated, and whoever dies.
THEOREM ApprovalUsedOnce == Spec => []OneCallPerApproval
<1>1. IInv => OneCallPerApproval
  BY DEF IInv, Exclusive
<1> QED
  BY <1>1, Invariance, PTL

-----------------------------------------------------------------------------
(* The gateway keeps the promise of ApprovalLedger. *)

\* Ledger!executed, as it reads the log of calls.
Executed == [k \in 1..Len(calls) |-> <<calls[k].intent, calls[k].approval>>]

\* The gateway starts where the ledger starts.
LEMMA InitLedger == Init => Ledger!Init
  BY DEF Init, Ledger!Init

\* A call acts on an approval that was given and that nobody acted on before.
LEMMA CallExecutes ==
  ASSUME IInv, NEW g \in Gateways, wpc[g] = "submit", NEW result, CallSubmitter(g, result),
         UNCHANGED approvals
  PROVE  Ledger!Next
<1> DEFINE i == cur[g].intent
           n == cur[g].approval
           last == Len(calls) + 1
<1>1. i \in Intents /\ n \in Nat
  BY DEF IInv, TypeInv, Holding, Holdings
<1>2. HeldBy(g, i, n)
  BY DEF HeldBy
<1>3. PICK c : calls' = Append(calls, c) /\ c.intent = i /\ c.approval = n
  BY DEF CallSubmitter
<1>4. calls \in Seq(Submissions) /\ Len(calls) \in Nat
  BY DEF IInv, TypeInv, TypeOK
<1>5. Executed \in Seq(Intents \X Nat) /\ Len(Executed) = Len(calls)
  <2>1. \A k \in 1..Len(calls) : calls[k] \in Submissions
    BY <1>4
  <2>2. \A k \in 1..Len(calls) : <<calls[k].intent, calls[k].approval>> \in Intents \X Nat
    BY <2>1 DEF Submissions
  <2> QED
    BY <1>4, <2>2 DEF Executed
<1>6. Executed' = Append(Executed, <<i, n>>)
  <2>1. /\ Len(calls') = last
        /\ \A k \in 1..Len(calls) : calls'[k] = calls[k]
        /\ calls'[last] = c
    BY <1>3, <1>4
  <2>2. Executed' = [k \in 1..last |-> IF k \in 1..Len(calls) THEN Executed[k] ELSE <<i, n>>]
    BY <1>3, <1>4, <2>1 DEF Executed
  <2>3. Append(Executed, <<i, n>>)
          = [k \in 1..last |-> IF k \in 1..Len(calls) THEN Executed[k] ELSE <<i, n>>]
    BY <1>5
  <2> QED
    BY <2>2, <2>3
<1>7. \A k \in 1..Len(Executed) : Executed[k] # <<i, n>>
  <2>1. ~HasCall(i, n)
    BY <1>1, <1>2 DEF IInv, Exclusive, OneHolder
  <2> QED
    BY <1>5, <2>1 DEF Executed, HasCall
<1>8. n \in 1..approvals[i]
  <2>1. Taken(i, n)
    BY <1>2 DEF Taken
  <2> QED
    BY <1>1, <2>1 DEF IInv, Exclusive, Issued
<1> HIDE DEF i, n
<1>9. UNCHANGED approvals
  OBVIOUS
<1> QED
  BY <1>1, <1>6, <1>7, <1>8, <1>9 DEF Ledger!Next, Ledger!Execute, Executed

\* Every step of the gateway is a step of the ledger or leaves it alone.
LEMMA LedgerStep ==
  ASSUME IInv, [Next]_apiVars
  PROVE  Ledger!Next \/ UNCHANGED <<approvals, Executed>>
<1>1. CASE FinishDispatch
  <2>1. PICK i \in Intents : approvals' = [approvals EXCEPT ![i] = @ + 1]
    BY <1>1 DEF FinishDispatch, Running, IInv, TypeInv, TypeOK, Requests, PollRequests,
                ClaimRequests, ReceiptRequests, DispatchRequests
  <2>2. calls' = calls
    BY <1>1 DEF FinishDispatch
  <2> QED
    BY <2>1, <2>2 DEF Ledger!Next, Ledger!Approve
<1>2. ASSUME NEW g \in Gateways, SubmitHeard(g) \/ SubmitRaised(g) \/ SubmitUnheard(g)
      PROVE  Ledger!Next
  <2>1. PICK result : wpc[g] = "submit" /\ CallSubmitter(g, result)
    BY <1>2 DEF SubmitHeard, SubmitRaised, SubmitUnheard
  <2>2. UNCHANGED approvals
    BY <2>1 DEF CallSubmitter
  <2> QED
    BY <2>1, <2>2, CallExecutes
<1>3. CASE UNCHANGED <<approvals, calls>>
  BY <1>3 DEF Executed
<1> QED
  BY <1>1, <1>2, <1>3
     DEF Next, FinishRequest, WorkerStep, FaultStep, Submit, BeginDispatch, ServeRequest,
         FinishPoll, GrantClaim, RepeatClaim, RefuseClaim, RepeatReceipt, RejectReceipt,
         StoreReceipt, Poll, SendClaim, PostReceipt, Timeout, LoseRequest, DuplicateRequest,
         Crash, Tick, apiVars

\* The gateway implements the ledger: every approval is acted upon at most once,
\* after it was given, in every behaviour and not only in every state.
THEOREM GatewayKeepsLedger == Spec => ActsOnEachApprovalOnce
<1>1. IInv /\ [Next]_apiVars => [Ledger!Next]_<<approvals, Executed>>
  BY LedgerStep
<1> QED
  BY <1>1, InitLedger, Invariance, PTL DEF Spec, ActsOnEachApprovalOnce, Ledger!Spec, Executed

-----------------------------------------------------------------------------
(* One order per gateway. *)

\* An order a gateway heard of is one its adapter remembers.
Remembered ==
  \A k \in 1..Len(calls) :
    calls[k].reported # "failed" => calls[k].intent \in dispatched[calls[k].gateway]

\* What the broker took and answered, the adapter remembers and does not send again.
LEMMA OrderStep ==
  ASSUME TypeInv, TypeInv', Remembered, OneOrderPerGateway, [Next]_apiVars
  PROVE  Remembered' /\ OneOrderPerGateway'
<1>1. ASSUME NEW g \in Gateways, SubmitHeard(g) \/ SubmitRaised(g) \/ SubmitUnheard(g)
      PROVE  Remembered' /\ OneOrderPerGateway'
  <2> DEFINE i == cur[g].intent
             last == Len(calls) + 1
  <2>1. PICK result : wpc[g] = "submit" /\ CallSubmitter(g, result)
                      /\ \/ i \notin dispatched[g]
                            /\ dispatched' = [dispatched EXCEPT ![g] = @ \cup {i}]
                         \/ result.reported = "failed" /\ dispatched' = dispatched
    BY <1>1 DEF SubmitHeard, SubmitRaised, SubmitUnheard, Sent, Raised, Unheard
  <2>2. /\ Len(calls) \in Nat
        /\ Len(calls') = last
        /\ \A k \in 1..Len(calls) : calls'[k] = calls[k]
        /\ calls'[last].intent = i
        /\ calls'[last].gateway = g
        /\ calls'[last].reported = result.reported
    BY <2>1 DEF CallSubmitter, TypeInv, TypeOK
  <2>3. \A k \in 1..last : k = last \/ k \in 1..Len(calls)
    BY <2>2
  <2>4. \A k \in 1..Len(calls) : calls[k].gateway \in Gateways
    <3>1. \A k \in 1..Len(calls) : calls[k] \in Submissions
      BY DEF TypeInv, TypeOK
    <3> QED
      BY <3>1 DEF Submissions
  <2>5. /\ \A h \in Gateways : dispatched[h] \subseteq dispatched'[h]
        /\ result.reported # "failed" => i \in dispatched'[g]
    BY <2>1 DEF TypeInv, TypeOK
  <2>6. Remembered'
    BY <2>2, <2>3, <2>4, <2>5 DEF Remembered
  <2>7. ASSUME NEW k \in 1..Len(calls), calls[k].reported # "failed",
               calls[k].intent = i, calls[k].gateway = g, result.reported # "failed"
        PROVE  FALSE
    BY <2>1, <2>7 DEF Remembered
  <2>8. OneOrderPerGateway'
    BY <2>2, <2>3, <2>7 DEF OneOrderPerGateway
  <2> QED
    BY <2>6, <2>8
<1>2. CASE UNCHANGED <<calls, dispatched>>
  BY <1>2 DEF Remembered, OneOrderPerGateway
<1> QED
  BY <1>1, <1>2
     DEF Next, FinishRequest, WorkerStep, FaultStep, Submit, BeginDispatch, ServeRequest,
         FinishDispatch, FinishPoll, GrantClaim, RepeatClaim, RefuseClaim, RepeatReceipt,
         RejectReceipt, StoreReceipt, Poll, SendClaim, PostReceipt, Timeout, LoseRequest,
         DuplicateRequest, Crash, Tick, apiVars

\* One gateway never has the broker take its order for an intent twice, however
\* often the intent is approved again, except after a call it did not hear back from.
THEOREM OrderSentOnce == Spec => []OneOrderPerGateway
<1>1. Init => Remembered /\ OneOrderPerGateway
  BY DEF Init, Remembered, OneOrderPerGateway
<1>2. TypeInv /\ TypeInv' /\ Remembered /\ OneOrderPerGateway /\ [Next]_apiVars
        => Remembered' /\ OneOrderPerGateway'
  BY OrderStep
<1>3. IInv => TypeInv
  BY DEF IInv
<1> QED
  BY <1>1, <1>2, <1>3, Invariance, PTL DEF Spec

-----------------------------------------------------------------------------
(* The order of an intent, and what closes it. *)

\* g holds approval n of i or has called the broker for it.
TakenBy(g, i, n) ==
  \/ HeldBy(g, i, n)
  \/ \E k \in 1..Len(calls) : /\ calls[k].intent = i
                              /\ calls[k].approval = n
                              /\ calls[k].gateway = g

\* Who took the approval a waiting packet has is who holds its claim, and the
\* order it shows was placed for its intent.
ClaimOfTaker ==
  \A i \in Intents : pending[i] # None =>
    /\ \A g \in Gateways : TakenBy(g, i, pending[i].approval) => pending[i].claim = g
    /\ pending[i].order > 0 => /\ pending[i].order \in 1..Len(calls)
                               /\ calls[pending[i].order].intent = i

\* The history records no approval that was not given.
RecordedIssued ==
  \A i \in Intents : history[i] # None => history[i].approval \in 1..approvals[i]

\* What is taken by someone is taken.
LEMMA TakenByTaken ==
  ASSUME NEW g \in Gateways, NEW i, NEW n, TakenBy(g, i, n)
  PROVE  Taken(i, n)
  BY DEF TakenBy, Taken, HasCall

\* A step that lets no worker hold or call anything, and in which each waiting
\* packet keeps its approval and its claim, leaves the list, or is approved anew.
LEMMA KeptClaims ==
  ASSUME TypeInv, Exclusive, ClaimOfTaker, UNCHANGED calls,
         \A g \in Gateways : wpc'[g] = "submit" => wpc[g] = "submit" /\ cur'[g] = cur[g],
         \A i \in Intents :
           \/ pending'[i] = pending[i]
           \/ pending'[i] = None
           \/ pending'[i].approval = approvals[i] + 1 /\ pending'[i].order = 0
           \/ /\ pending[i] # None
              /\ pending'[i].approval = pending[i].approval
              /\ pending'[i].claim = pending[i].claim
              /\ \/ pending'[i].order = pending[i].order
                 \/ /\ pending'[i].order \in 1..Len(calls)
                    /\ calls[pending'[i].order].intent = i
  PROVE  ClaimOfTaker'
<1>1. \A g \in Gateways : \A i, n : TakenBy(g, i, n)' => TakenBy(g, i, n)
  BY DEF TakenBy, HeldBy
<1>2. ASSUME NEW i \in Intents, NEW g \in Gateways, TakenBy(g, i, approvals[i] + 1)
      PROVE  FALSE
  <2>1. approvals[i] \in Nat
    BY DEF TypeInv, TypeOK
  <2>2. approvals[i] + 1 \in 1..approvals[i]
    BY <1>2, <2>1, TakenByTaken DEF Exclusive, Issued
  <2> QED
    BY <2>1, <2>2
<1>3. ASSUME NEW i \in Intents, pending'[i] # None
      PROVE  /\ \A g \in Gateways : TakenBy(g, i, pending'[i].approval) => pending'[i].claim = g
             /\ pending'[i].order > 0 => /\ pending'[i].order \in 1..Len(calls)
                                         /\ calls[pending'[i].order].intent = i
  BY <1>2, <1>3 DEF ClaimOfTaker
<1> QED
  BY <1>1, <1>3 DEF ClaimOfTaker

\* Granting a claim, or repeating it to its holder.
LEMMA ClaimedByTaker ==
  ASSUME TypeInv, Exclusive, ClaimOfTaker, GrantClaim \/ RepeatClaim
  PROVE  ClaimOfTaker'
<1> DEFINE g == api.req.gateway
           i == api.req.intent
           p == Working[i]
<1>1. api # None /\ g \in Gateways /\ i \in Intents
  BY DEF GrantClaim, RepeatClaim, Running, TypeInv, TypeOK, Requests, PollRequests, ClaimRequests,
         ReceiptRequests, DispatchRequests
<1>2. /\ \A j \in Intents : Working[j] = pending[j] \/ Working[j] = None
      /\ SavePruned => pending' = Working
  BY <1>1, WorkingIsPending DEF Exclusive
<1>3. p = pending[i] /\ p # None
  BY <1>1, <1>2 DEF GrantClaim, RepeatClaim, Claimable, Approved, ClaimedBy
<1>4. /\ \A j \in Intents \ {i} : pending'[j] = pending[j] \/ pending'[j] = None
      /\ pending'[i] # None => /\ pending'[i].approval = p.approval
                               /\ pending'[i].claim = g
                               /\ pending'[i].order = p.order
  <2>1. CASE GrantClaim
    <3>1. pending' = [Working EXCEPT ![i] = [p EXCEPT !.status = "claimed", !.claim = g]]
      BY <2>1 DEF GrantClaim, Save
    <3>2. Working \in PendingLists
      BY <1>1, WorkingType DEF TypeInv
    <3>3. p \in Packets
      BY <1>1, <1>3, <3>2 DEF PendingLists
    <3> QED
      BY <1>1, <1>2, <3>1, <3>2, <3>3 DEF PendingLists, Packets
  <2>2. CASE RepeatClaim
    BY <1>1, <1>2, <1>3, <2>2 DEF RepeatClaim, ClaimedBy
  <2> QED
    BY <2>1, <2>2
<1>5. UNCHANGED calls
  BY DEF GrantClaim, RepeatClaim
<1>6. \A h \in Gateways : \A j, n :
        TakenBy(h, j, n)' => TakenBy(h, j, n) \/ (h = g /\ j = i)
  <2>1. \A h \in Gateways \ {g} : wpc'[h] = wpc[h] /\ cur'[h] = cur[h]
    BY <1>1 DEF GrantClaim, RepeatClaim, Answer, TypeInv, TypeOK
  <2>2. \/ wpc'[g] = wpc[g] /\ cur'[g] = cur[g]
        \/ cur'[g].intent = i
    BY <1>1 DEF GrantClaim, RepeatClaim, Answer, TypeInv, TypeOK
  <2> QED
    BY <1>5, <2>1, <2>2 DEF TakenBy, HeldBy
<1>7. \A h \in Gateways : TakenBy(h, i, p.approval) => h = g
  <2>1. CASE GrantClaim
    <3>1. pending[i].status = "approved" /\ pending[i].approval \in Nat
      BY <1>1, <1>3, <2>1 DEF GrantClaim, Claimable, Approved, TypeInv, TypeOK, PendingLists, Packets
    <3>2. ~Taken(i, p.approval)
      BY <1>1, <1>3, <3>1 DEF Exclusive, Untaken
    <3> QED
      BY <3>2, TakenByTaken
  <2>2. CASE RepeatClaim
    BY <1>1, <1>3, <2>2 DEF RepeatClaim, ClaimedBy, ClaimOfTaker
  <2> QED
    BY <2>1, <2>2
<1>8. ASSUME NEW j \in Intents, pending'[j] # None
      PROVE  /\ \A h \in Gateways : \A n :
                  TakenBy(h, j, n)' /\ n = pending'[j].approval => pending'[j].claim = h
             /\ pending'[j].order > 0 => /\ pending'[j].order \in 1..Len(calls)
                                         /\ calls[pending'[j].order].intent = j
  <2>1. CASE j = i
    BY <1>1, <1>3, <1>4, <1>6, <1>7, <1>8, <2>1 DEF ClaimOfTaker
  <2>2. CASE j # i
    BY <1>4, <1>6, <1>8, <2>2 DEF ClaimOfTaker
  <2> QED
    BY <2>1, <2>2
<1> QED
  BY <1>5, <1>8 DEF ClaimOfTaker

\* A call is an intent's, by a gateway.
LEMMA CallFields ==
  ASSUME TypeOK, NEW k \in 1..Len(calls)
  PROVE  calls[k].intent \in Intents /\ calls[k].gateway \in Gateways
<1>1. calls[k] \in Submissions
  BY DEF TypeOK
<1> QED
  BY <1>1 DEF Submissions

\* A receipt leaves a packet's approval and claim, and names the order placed
\* for its intent.
LEMMA ReportedKeeps ==
  ASSUME TypeOK, NEW p \in Packets, NEW k \in 1..Len(calls)
  PROVE  /\ Reported(p, k).approval = p.approval
         /\ Reported(p, k).claim = p.claim
         /\ Reported(p, k).order = p.order \/ Reported(p, k).order = k
  BY DEF Reported, WithReceipt, OrderOf, Packets

\* The packet of a stored receipt.
LEMMA StoredClaims ==
  ASSUME TypeInv, Exclusive, StoreReceipt, NEW i \in Intents
  PROVE  \/ pending'[i] = pending[i]
         \/ pending'[i] = None
         \/ /\ pending[i] # None
            /\ pending'[i].approval = pending[i].approval
            /\ pending'[i].claim = pending[i].claim
            /\ \/ pending'[i].order = pending[i].order
               \/ /\ pending'[i].order \in 1..Len(calls)
                  /\ calls[pending'[i].order].intent = i
<1> DEFINE k == api.req.id
           j == calls[k].intent
<1>1. api # None /\ k \in 1..Len(calls)
  BY DEF StoreReceipt, Running, TypeInv, Holding, Requested
<1>2. /\ \A m \in Intents : Working[m] = pending[m] \/ Working[m] = None
      /\ SavePruned => pending' = Working
  BY <1>1, WorkingIsPending DEF Exclusive
<1>3. Working \in PendingLists
  BY <1>1, WorkingType DEF TypeInv
<1>4. CASE pending' = Working
  BY <1>2, <1>4
<1>5. CASE Working[j] # None /\ pending' = AfterReceipt(Working, j, k)
  <2>1. CASE i # j
    BY <1>2, <1>3, <1>5, <2>1 DEF AfterReceipt, PendingLists
  <2>2. CASE i = j
    <3>1. pending[i] = Working[i] /\ Working[i] \in Packets
      BY <1>2, <1>3, <1>5, <2>2 DEF PendingLists
    <3>2. pending'[i] = None \/ pending'[i] = Reported(Working[i], k)
      BY <1>3, <1>5, <2>2 DEF AfterReceipt, PendingLists
    <3>3. TypeOK /\ pending[i] # None /\ calls[k].intent = i
      BY <1>5, <2>2, <3>1 DEF TypeInv
    <3> HIDE DEF k, j
    <3>4. /\ Reported(Working[i], k).approval = Working[i].approval
          /\ Reported(Working[i], k).claim = Working[i].claim
          /\ \/ Reported(Working[i], k).order = Working[i].order
             \/ Reported(Working[i], k).order = k
      BY ONLY <1>1, <3>1, <3>3, ReportedKeeps
    <3>5. CASE pending'[i] = None
      BY ONLY <3>5
    <3>6. CASE pending'[i] = Reported(Working[i], k)
      BY ONLY <1>1, <3>1, <3>3, <3>4, <3>6
    <3> QED
      BY ONLY <3>2, <3>5, <3>6
  <2> QED
    BY <2>1, <2>2
<1> QED
  BY <1>2, <1>4, <1>5 DEF StoreReceipt, Save

\* The call of the broker is its holder's.
LEMMA CallClaims ==
  ASSUME TypeInv, ClaimOfTaker, NEW g \in Gateways, wpc[g] = "submit", NEW result,
         CallSubmitter(g, result)
  PROVE  ClaimOfTaker'
<1> DEFINE last == Len(calls) + 1
<1>1. /\ Len(calls) \in Nat
      /\ Len(calls') = last
      /\ \A k \in 1..Len(calls) : calls'[k] = calls[k]
      /\ /\ calls'[last].intent = cur[g].intent
         /\ calls'[last].approval = cur[g].approval
         /\ calls'[last].gateway = g
  BY DEF CallSubmitter, TypeInv, TypeOK
<1>2. \A h \in Gateways : \A i, n : HeldBy(h, i, n)' => HeldBy(h, i, n)
  BY DEF HeldBy, CallSubmitter, TypeInv, TypeOK
<1>3. \A h \in Gateways : \A i, n : TakenBy(h, i, n)' => TakenBy(h, i, n)
  <2>1. HeldBy(g, cur[g].intent, cur[g].approval)
    BY DEF HeldBy
  <2>2. \A k \in 1..last : k = last \/ k \in 1..Len(calls)
    BY <1>1
  <2> QED
    BY <1>1, <1>2, <2>1, <2>2 DEF TakenBy
<1>4. UNCHANGED pending
  BY DEF CallSubmitter, storeVars
<1> QED
  BY <1>1, <1>3, <1>4 DEF ClaimOfTaker

\* The API's handlers leave the workers but those they grant a claim.
LEMMA ClaimOfTakerStep ==
  ASSUME TypeInv, Exclusive, ClaimOfTaker, [Next]_apiVars
  PROVE  ClaimOfTaker'
<1>1. CASE FinishDispatch
  <2>1. PICK i : /\ pending' = [api.read EXCEPT ![i] = NewPacket(i)]
                 /\ UNCHANGED <<calls, wpc, cur>>
    BY <1>1 DEF FinishDispatch, Save, workerVars
  <2>2. api.read = pending
    BY <1>1 DEF FinishDispatch, Running, Exclusive, SingleWriter
  <2>3. \A j \in Intents : \/ pending'[j] = pending[j]
                           \/ pending'[j].approval = approvals[j] + 1 /\ pending'[j].order = 0
    BY <2>1, <2>2 DEF NewPacket, TypeInv, TypeOK, PendingLists
  <2> QED
    BY <2>1, <2>3, KeptClaims
<1>2. CASE GrantClaim \/ RepeatClaim
  BY <1>2, ClaimedByTaker
<1>3. CASE FinishPoll \/ RefuseClaim \/ RejectReceipt \/ RepeatReceipt \/ StoreReceipt
  <2> USE DEF FinishPoll, RefuseClaim, RejectReceipt, RepeatReceipt, StoreReceipt
  <2>1. api # None /\ UNCHANGED <<calls, cur>>
    BY <1>3 DEF Running
  <2>2. wpc' = wpc \/ \E g : wpc' = [wpc EXCEPT ![g] = "ready"]
    BY <1>3 DEF Answer
  <2>3. \A g \in Gateways : wpc'[g] = "submit" => wpc[g] = "submit" /\ cur'[g] = cur[g]
    BY <2>1, <2>2 DEF TypeInv, TypeOK
  <2>4. StoreReceipt \/ \A i \in Intents : pending'[i] = pending[i] \/ pending'[i] = None
    BY <1>3, <2>1, WorkingIsPending DEF Exclusive, storeVars
  <2>5. CASE StoreReceipt
    BY <2>1, <2>3, <2>5, StoredClaims, KeptClaims
  <2> QED
    BY <2>1, <2>3, <2>4, <2>5, KeptClaims
<1>4. ASSUME NEW g \in Gateways, SubmitHeard(g) \/ SubmitRaised(g) \/ SubmitUnheard(g)
      PROVE  ClaimOfTaker'
  <2>1. PICK result : wpc[g] = "submit" /\ CallSubmitter(g, result)
    BY <1>4 DEF SubmitHeard, SubmitRaised, SubmitUnheard
  <2> QED
    BY <2>1, CallClaims
<1>5. ASSUME NEW g \in Gateways,
             \/ Poll(g) \/ SendClaim(g) \/ PostReceipt(g)
             \/ Timeout(g) \/ LoseRequest(g) \/ DuplicateRequest(g) \/ Crash(g)
      PROVE  ClaimOfTaker'
  <2>1. UNCHANGED <<pending, calls, cur>>
    BY <1>5 DEF Poll, SendClaim, PostReceipt, Timeout, LoseRequest, DuplicateRequest, Crash,
                storeVars, workerVars
  <2>2. wpc' = wpc \/ \E state \in WorkerStates \ {"submit"} : wpc' = [wpc EXCEPT ![g] = state]
    BY <1>5 DEF Poll, SendClaim, PostReceipt, Timeout, LoseRequest, DuplicateRequest, Crash,
                GiveUp, workerVars, WorkerStates
  <2>3. \A h \in Gateways : wpc'[h] = "submit" => wpc[h] = "submit" /\ cur'[h] = cur[h]
    BY <2>1, <2>2 DEF TypeInv, TypeOK
  <2> QED
    BY <2>1, <2>3, KeptClaims
<1>6. CASE (\E i \in Dispatched : BeginDispatch(i)) \/ ServeRequest \/ Tick \/ UNCHANGED apiVars
  <2>1. UNCHANGED <<pending, calls, wpc, cur>>
    BY <1>6 DEF BeginDispatch, ServeRequest, Tick, apiVars, storeVars, workerVars
  <2> QED
    BY <2>1, KeptClaims
<1> QED
  BY <1>1, <1>2, <1>3, <1>4, <1>5, <1>6 DEF Next, FinishRequest, WorkerStep, Submit, FaultStep

\* Every packet recorded was on the list, or is a recorded one reported on.
LEMMA RecordedIssuedStep ==
  ASSUME TypeInv, Exclusive, RecordedIssued, [Next]_apiVars
  PROVE  RecordedIssued'
<1>0. \A i \in Intents : approvals[i] \in Nat
  BY DEF TypeInv, TypeOK
<1>1. CASE FinishDispatch
  <2>1. PICK i : /\ history' = [history EXCEPT ![i] = NewPacket(i)]
                 /\ approvals' = [approvals EXCEPT ![i] = @ + 1]
    BY <1>1 DEF FinishDispatch
  <2> QED
    BY <1>0, <2>1 DEF NewPacket, RecordedIssued, TypeInv, TypeOK, PendingLists, Packets
<1>2. CASE GrantClaim
  <2> DEFINE i == api.req.intent
             p == Working[i]
  <2>1. api # None /\ i \in Intents
    BY <1>2 DEF GrantClaim, Running, TypeInv, TypeOK, Requests, PollRequests, ClaimRequests,
                ReceiptRequests, DispatchRequests
  <2>2. p = pending[i] /\ p # None /\ p \in Packets
    BY <1>2, <2>1, WorkingIsPending, WorkingType
       DEF GrantClaim, Claimable, Approved, Exclusive, TypeInv, PendingLists
  <2>3. /\ history' = [history EXCEPT ![i] =
                         [p EXCEPT !.status = "claimed", !.claim = api.req.gateway]]
        /\ UNCHANGED approvals
    BY <1>2 DEF GrantClaim
  <2>4. [p EXCEPT !.status = "claimed", !.claim = api.req.gateway].approval = pending[i].approval
    BY <2>2 DEF Packets
  <2> QED
    BY <2>1, <2>2, <2>3, <2>4 DEF RecordedIssued, Exclusive, Issued, TypeInv, TypeOK, PendingLists
<1>3. CASE StoreReceipt
  <2> DEFINE k == api.req.id
             i == calls[k].intent
             p == Matched(i)
  <2>1. api # None /\ k \in 1..Len(calls)
    BY <1>3 DEF StoreReceipt, Running, TypeInv, Holding, Requested
  <2>2. i \in Intents
    BY <2>1, CallFields DEF TypeInv
  <2>3. p # None /\ history' = [history EXCEPT ![i] = Reported(p, k)] /\ UNCHANGED approvals
    BY <1>3 DEF StoreReceipt
  <2>4. p \in Packets /\ (p = pending[i] \/ p = history[i])
    BY <2>1, <2>2, <2>3, WorkingIsPending, WorkingType
       DEF Matched, Exclusive, TypeInv, TypeOK, PendingLists
  <2>5. Reported(p, k).approval \in 1..approvals[i]
    BY <2>1, <2>2, <2>3, <2>4, ReportedKeeps DEF RecordedIssued, Exclusive, Issued, TypeInv
  <2> QED
    BY <2>2, <2>3, <2>5 DEF RecordedIssued, TypeInv, TypeOK, PendingLists
<1>4. CASE UNCHANGED <<history, approvals>>
  BY <1>4 DEF RecordedIssued
<1> QED
  BY <1>1, <1>2, <1>3, <1>4
     DEF Next, FinishRequest, WorkerStep, FaultStep, Submit, SubmitHeard, SubmitRaised,
         SubmitUnheard, CallSubmitter, BeginDispatch, ServeRequest, FinishPoll, RepeatClaim,
         RefuseClaim, RepeatReceipt, RejectReceipt, Poll, SendClaim, PostReceipt, Timeout,
         LoseRequest, DuplicateRequest, Crash, Tick, apiVars, storeVars

\* Both hold with the invariant of the approvals.
LEMMA ClaimsAlways == Spec => [](ClaimOfTaker /\ RecordedIssued)
<1>1. Init => ClaimOfTaker /\ RecordedIssued
  BY DEF Init, ClaimOfTaker, RecordedIssued
<1>2. IInv /\ ClaimOfTaker /\ RecordedIssued /\ [Next]_apiVars => (ClaimOfTaker /\ RecordedIssued)'
  BY ClaimOfTakerStep, RecordedIssuedStep DEF IInv
<1> QED
  BY <1>1, <1>2, Invariance, PTL DEF Spec

\* The order an intent shows was placed for it, and when it stems from the
\* packet's own approval, by the gateway that holds the claim.
THEOREM OrderOfTheClaimer == Spec => []OrderIsTheClaimers
<1>1. TypeInv /\ ClaimOfTaker => OrderIsTheClaimers
  <2> SUFFICES ASSUME TypeInv, ClaimOfTaker, NEW i \in Intents, pending[i] # None,
                      pending[i].order > 0
               PROVE  /\ calls[pending[i].order].intent = i
                      /\ calls[pending[i].order].approval = pending[i].approval
                           => calls[pending[i].order].gateway = pending[i].claim
    BY DEF OrderIsTheClaimers
  <2> DEFINE k == pending[i].order
  <2>1. k \in 1..Len(calls) /\ calls[k].intent = i
    BY DEF ClaimOfTaker
  <2>2. calls[k].gateway \in Gateways
    BY <2>1, CallFields DEF TypeInv
  <2>3. calls[k].approval = pending[i].approval
          => TakenBy(calls[k].gateway, i, pending[i].approval)
    BY <2>1 DEF TakenBy
  <2> QED
    BY <2>1, <2>2, <2>3 DEF ClaimOfTaker
<1>2. IInv => TypeInv
  BY DEF IInv
<1> QED
  BY <1>1, <1>2, ClaimsAlways, Invariance, PTL

\* Only a new approval brings an intent back on the list: what a late claim or
\* receipt finds off it stays off it.
LEMMA OnlyDispatchLists ==
  ASSUME TypeInv, Exclusive, RecordedIssued, [Next]_apiVars, NEW i \in Intents,
         pending[i] = None, pending'[i] # None
  PROVE  history[i] = None \/ pending'[i].approval > history[i].approval
<1>1. CASE FinishDispatch
  <2>1. PICK j : pending' = [api.read EXCEPT ![j] = NewPacket(j)]
    BY <1>1 DEF FinishDispatch, Save
  <2>2. api.read = pending
    BY <1>1 DEF FinishDispatch, Running, Exclusive, SingleWriter
  <2>3. pending'[i].approval = approvals[i] + 1
    BY <2>1, <2>2 DEF NewPacket, TypeInv, TypeOK, PendingLists
  <2>4. approvals[i] \in Nat
    BY DEF TypeInv, TypeOK
  <2> QED
    BY <2>3, <2>4 DEF RecordedIssued
<1>2. CASE StoreReceipt
  BY <1>2, StoredClaims
<1>3. CASE GrantClaim
  <2>1. api # None
    BY <1>3 DEF GrantClaim, Running
  <2>2. /\ \A j \in Intents : Working[j] = pending[j] \/ Working[j] = None
        /\ Working \in PendingLists
    BY <2>1, WorkingIsPending, WorkingType DEF Exclusive, TypeInv
  <2>3. PICK p : /\ Working[api.req.intent] # None
                 /\ pending' = [Working EXCEPT ![api.req.intent] = p]
    BY <1>3 DEF GrantClaim, Claimable, Approved, Save
  <2> QED
    BY <2>2, <2>3 DEF PendingLists
<1>4. CASE FinishPoll \/ RepeatClaim \/ RefuseClaim \/ RejectReceipt \/ RepeatReceipt
  BY <1>4, WorkingIsPending
     DEF FinishPoll, RepeatClaim, RefuseClaim, RejectReceipt, RepeatReceipt, Running, Exclusive,
         storeVars
<1>5. CASE UNCHANGED pending
  BY <1>5
<1> QED
  BY <1>1, <1>2, <1>3, <1>4, <1>5
     DEF Next, FinishRequest, WorkerStep, FaultStep, Submit, SubmitHeard, SubmitRaised,
         SubmitUnheard, CallSubmitter, BeginDispatch, ServeRequest, Poll, SendClaim, PostReceipt,
         Timeout, LoseRequest, DuplicateRequest, Crash, Tick, apiVars, storeVars

\* A closed intent comes back by a new approval only.
THEOREM ClosedByApprovalOnly == Spec => ClosedStaysClosed
<1>1. IInv /\ RecordedIssued /\ [Next]_apiVars
        => [\A i \in Intents :
              /\ pending[i] = None
              /\ pending'[i] # None
              => history[i] = None \/ pending'[i].approval > history[i].approval]_apiVars
  BY OnlyDispatchLists DEF IInv
<1> QED
  BY <1>1, Invariance, ClaimsAlways, PTL DEF Spec, ClosedStaysClosed

-----------------------------------------------------------------------------
(* No report is lost: what EverySubmissionReported needs of every state. *)

\* Nothing failed so far, and no intent was dispatched again.
Undisturbed == faults = 0 /\ \A i \in Intents : approvals[i] <= 1

\* The receipt of submission k is in its worker's hands, on its way or in service.
UnderWay(k) ==
  \/ \E g \in Gateways : wpc[g] = "report" /\ cur[g].call = k
  \/ \E r \in Requested : r.op = "receipt" /\ r.id = k

\* The API will not reject it: its intent is on the list, in a status that admits it.
Admitted(k) ==
  LET p == pending[calls[k].intent] IN p # None /\ MayReport(p, k)

NoReportLost == \A k \in 1..Len(calls) : k \notin receipts => UnderWay(k) /\ Admitted(k)

InClaim(i) == pending[i] # None /\ pending[i].status = "claimed"

\* From the claim to the stored receipt an intent stays claimed, and callers wait.
Trail ==
  /\ \A r \in Requested : r.op # "dispatch" => r.live
  /\ \A g \in Gateways : wpc[g] = "submit" => InClaim(cur[g].intent)
  /\ \A k \in 1..Len(calls) : k \notin receipts => UnderWay(k) /\ InClaim(calls[k].intent)


\* With one approval an intent is submitted once.
LEMMA SoleCall ==
  ASSUME IInv, Undisturbed
  PROVE  /\ \A k, l \in 1..Len(calls) : calls[k].intent = calls[l].intent => k = l
         /\ \A k \in 1..Len(calls), g \in Gateways :
              wpc[g] = "submit" => calls[k].intent # cur[g].intent
<1>1. \A k \in 1..Len(calls) : calls[k].intent \in Intents /\ calls[k].approval \in Nat
  <2>1. \A k \in 1..Len(calls) : calls[k] \in Submissions
    BY DEF IInv, TypeInv, TypeOK
  <2> QED
    BY <2>1 DEF Submissions
<1>2. \A i \in Intents, n \in Nat : Taken(i, n) => n = 1
  <2> SUFFICES ASSUME NEW i \in Intents, NEW n \in Nat, Taken(i, n)
               PROVE  n = 1
    OBVIOUS
  <2>1. n \in 1..approvals[i] /\ approvals[i] \in Nat
    BY DEF IInv, Exclusive, Issued, TypeInv, TypeOK
  <2> QED
    BY <2>1 DEF Undisturbed
<1>3. \A k \in 1..Len(calls) : calls[k].approval = 1 /\ HasCall(calls[k].intent, 1)
  <2> SUFFICES ASSUME NEW k \in 1..Len(calls)
               PROVE  calls[k].approval = 1 /\ HasCall(calls[k].intent, 1)
    OBVIOUS
  <2>1. HasCall(calls[k].intent, calls[k].approval)
    BY DEF HasCall
  <2>2. calls[k].approval = 1
    BY <1>1, <1>2, <2>1 DEF Taken
  <2> QED
    BY <2>1, <2>2
<1>4. \A k, l \in 1..Len(calls) : calls[k].intent = calls[l].intent => k = l
  BY <1>3 DEF IInv, Exclusive, OneCallPerApproval
<1>5. ASSUME NEW g \in Gateways, wpc[g] = "submit"
      PROVE  ~HasCall(cur[g].intent, 1)
  <2>1. cur[g].intent \in Intents /\ cur[g].approval \in Nat
    BY <1>5 DEF IInv, TypeInv, Holding, Holdings
  <2>2. HeldBy(g, cur[g].intent, cur[g].approval)
    BY <1>5 DEF HeldBy
  <2>3. cur[g].approval = 1
    BY <1>2, <2>1, <2>2 DEF Taken
  <2> QED
    BY <2>1, <2>2, <2>3 DEF IInv, Exclusive, OneHolder
<1> QED
  BY <1>3, <1>4, <1>5

\* Before its approval an intent is neither submitted nor about to be.
LEMMA NoCallYet ==
  ASSUME IInv, NEW i \in Intents, approvals[i] = 0
  PROVE  /\ \A k \in 1..Len(calls) : calls[k].intent # i
         /\ \A g \in Gateways : wpc[g] = "submit" => cur[g].intent # i
<1>1. \A n \in Nat : ~Taken(i, n)
  BY DEF IInv, Exclusive, Issued
<1>2. ASSUME NEW k \in 1..Len(calls), calls[k].intent = i
      PROVE  FALSE
  <2>1. calls[k] \in Submissions
    BY DEF IInv, TypeInv, TypeOK
  <2>2. calls[k].approval \in Nat
    BY <2>1 DEF Submissions
  <2> QED
    BY <1>1, <1>2, <2>2 DEF Taken, HasCall
<1>3. ASSUME NEW g \in Gateways, wpc[g] = "submit", cur[g].intent = i
      PROVE  FALSE
  <2>1. cur[g].approval \in Nat
    BY <1>3 DEF IInv, TypeInv, Holding, Holdings
  <2> QED
    BY <1>1, <1>3, <2>1 DEF Taken, HeldBy
<1> QED
  BY <1>2, <1>3

\* A claimed packet admits whatever the worker reports.
LEMMA ClaimAdmits ==
  ASSUME TypeOK, NEW k \in 1..Len(calls), NEW p, p.status = "claimed"
  PROVE  MayReport(p, k)
<1>1. calls[k].reported \in ReceiptStatuses
  <2>1. calls[k] \in Submissions
    BY DEF TypeOK
  <2> QED
    BY <2>1 DEF Submissions
<1>2. ReceiptStatuses \subseteq INTENT_TRANSITIONS["claimed"]
  BY DEF ReceiptStatuses, INTENT_TRANSITIONS, IntentStatuses, OpenStatuses, TERMINAL_INTENT_STATUSES
<1> QED
  BY <1>1, <1>2 DEF MayReport

\* Pruning leaves claimed packets alone.
LEMMA ClaimsWorked ==
  ASSUME TypeInv, SingleWriter, api # None, NEW i \in Intents, InClaim(i)
  PROVE  Working[i] = pending[i]
  BY DEF SingleWriter, Working, Pruned, Outdated, Approved, InClaim

\* Nobody is about to submit i, and what was submitted for it is reported.
Reportless(i) ==
  /\ \A g \in Gateways : wpc[g] = "submit" => cur[g].intent # i
  /\ \A k \in 1..Len(calls) : calls[k].intent = i => k \in receipts

\* A step that calls no submitter keeps the trail when it leaves claimed what is
\* yet to be reported.
LEMMA TrailKept ==
  ASSUME TypeInv, TypeInv', Trail, UNCHANGED calls,
         \A r \in Requested' : r.op # "dispatch" => r \in Requested \/ r.live,
         receipts \subseteq receipts',
         \A i \in Intents : InClaim(i) => InClaim(i)' \/ Reportless(i)',
         \A g \in Gateways :
           wpc'[g] = "submit" => \/ wpc[g] = "submit" /\ cur'[g] = cur[g]
                                 \/ InClaim(cur[g].intent)',
         \A k \in 1..Len(calls) : UnderWay(k) => UnderWay(k)' \/ k \in receipts'
  PROVE  Trail'
<1>1. \A r \in Requested' : r.op # "dispatch" => r.live
  BY DEF Trail
<1>2. ASSUME NEW g \in Gateways, wpc'[g] = "submit"
      PROVE  InClaim(cur[g].intent)'
  <2>1. PICK i \in Intents : i = cur'[g].intent
    BY <1>2 DEF TypeInv, Holding, Holdings
  <2>2. CASE wpc[g] = "submit" /\ cur'[g] = cur[g]
    <3>1. InClaim(i)
      BY <2>1, <2>2 DEF Trail
    <3>2. ~Reportless(i)'
      BY <1>2, <2>1 DEF Reportless
    <3>3. InClaim(i)'
      BY <3>1, <3>2
    <3> QED
      BY <2>1, <3>3 DEF InClaim
  <2> QED
    BY <1>2, <2>2
<1>3. ASSUME NEW k \in 1..Len(calls), k \notin receipts'
      PROVE  UnderWay(k)' /\ InClaim(calls[k].intent)'
  <2>1. k \notin receipts /\ UnderWay(k) /\ InClaim(calls[k].intent)
    BY <1>3 DEF Trail
  <2>2. PICK i \in Intents : i = calls[k].intent
    <3>1. calls[k] \in Submissions
      BY DEF TypeInv, TypeOK
    <3> QED
      BY <3>1 DEF Submissions
  <2>3. ~Reportless(i)'
    BY <1>3, <2>2 DEF Reportless
  <2>4. InClaim(i)'
    BY <2>1, <2>2, <2>3
  <2> QED
    BY <1>3, <2>1, <2>2, <2>4 DEF InClaim
<1> QED
  BY <1>1, <1>2, <1>3 DEF Trail

\* A handler that ends takes one receipt out of service at most.
LEMMA ServedOnce ==
  ASSUME TypeInv, OneRequest, api # None, api.req.op # "dispatch", Done, UNCHANGED <<net, calls>>,
         NEW state, Answer(api.req.gateway, state),
         cur' = cur \/ (api.req.live /\ \E x : cur' = [cur EXCEPT ![api.req.gateway] = x])
  PROVE  /\ \A r \in Requested' : r \in Requested
         /\ \A k \in 1..Len(calls) :
              UnderWay(k) => UnderWay(k)' \/ (api.req.op = "receipt" /\ api.req.id = k)
         /\ \A g \in Gateways : wpc[g] = "report" => wpc'[g] = "report" /\ cur'[g] = cur[g]
<1> DEFINE h == api.req.gateway
<1>1. Requested' = net /\ net \subseteq Requested /\ Requested = net \cup {api.req}
  BY DEF Done, Requested
<1>2. ASSUME NEW g \in Gateways, wpc[g] = "report"
      PROVE  wpc'[g] = "report" /\ cur'[g] = cur[g]
  <2>1. api.req.live => g # h
    <3>1. Live(api.req) <=> api.req.live
      BY DEF Live
    <3> QED
      BY <1>1, <1>2, <3>1, NotWaiting
  <2>2. CASE api.req.live
    <3>1. wpc' = [wpc EXCEPT ![h] = state]
      BY <2>2 DEF Answer
    <3> QED
      BY <1>2, <2>1, <2>2, <3>1 DEF TypeInv, TypeOK
  <2>3. CASE ~api.req.live
    BY <1>2, <2>3 DEF Answer
  <2> QED
    BY <2>2, <2>3
<1>3. ASSUME NEW k \in 1..Len(calls), UnderWay(k),
             ~(api.req.op = "receipt" /\ api.req.id = k)
      PROVE  UnderWay(k)'
  BY <1>1, <1>2, <1>3 DEF UnderWay
<1> QED
  BY <1>1, <1>2, <1>3

\* What a handler saves of the pruned list leaves claimed packets there.
LEMMA SavedClaims ==
  ASSUME TypeInv, SingleWriter, api # None, SavePruned, NEW i \in Intents, InClaim(i)
  PROVE  InClaim(i)'
<1>1. Working[i] = pending[i]
  BY ClaimsWorked
<1>2. pending' = pending \/ pending' = Working
  BY DEF SavePruned, Save
<1> QED
  BY <1>1, <1>2 DEF InClaim

\* A new approval is of an intent that has none.
LEMMA DispatchTrail ==
  ASSUME IInv, TypeInv', Trail, Undisturbed', FinishDispatch
  PROVE  Trail'
<1>1. api # None /\ api.req.op = "dispatch" /\ api.read = pending
  BY DEF FinishDispatch, Running, IInv, Exclusive, SingleWriter
<1>2. PICK i \in Intents : /\ pending' = [pending EXCEPT ![i] = NewPacket(i)]
                           /\ approvals' = [approvals EXCEPT ![i] = @ + 1]
  <2>1. api.req.intent \in Intents
    BY <1>1 DEF IInv, TypeInv, TypeOK, Requests, PollRequests, ClaimRequests, ReceiptRequests,
                DispatchRequests
  <2> QED
    BY <1>1, <2>1 DEF FinishDispatch, Save
<1>3. approvals[i] = 0
  BY <1>2 DEF Undisturbed, IInv, TypeInv, TypeOK
<1>4. UNCHANGED <<calls, receipts, wpc, cur, net>> /\ api' = None
  BY DEF FinishDispatch, workerVars, Done
<1>5. Requested' = net /\ Requested = net \cup {api.req}
  BY <1>1, <1>4 DEF Requested
<1>6. \A j \in Intents : InClaim(j) => InClaim(j)' \/ Reportless(j)'
  <2>1. Reportless(i)'
    BY <1>3, <1>4, NoCallYet DEF Reportless
  <2>2. \A j \in Intents \ {i} : pending'[j] = pending[j]
    BY <1>2 DEF IInv, TypeInv, TypeOK, PendingLists
  <2> QED
    BY <2>1, <2>2 DEF InClaim
<1>7. \A k \in 1..Len(calls) : UnderWay(k) => UnderWay(k)'
  BY <1>1, <1>4, <1>5 DEF UnderWay
<1> QED
  BY <1>4, <1>5, <1>6, <1>7, TrailKept DEF IInv

\* A poll, a refused claim and a repeated one leave claimed packets as they are.
LEMMA ServedTrail ==
  ASSUME IInv, TypeInv', Trail,
         FinishPoll \/ RefuseClaim \/ RepeatClaim
  PROVE  Trail'
<1>1. /\ api # None /\ api.req.op \in {"poll", "claim"}
      /\ Done /\ UNCHANGED <<net, calls, receipts>>
      /\ SavePruned
  BY DEF FinishPoll, RefuseClaim, RepeatClaim, Running
<1>2. \E state : Answer(api.req.gateway, state)
  BY DEF FinishPoll, RefuseClaim, RepeatClaim
<1>3. cur' = cur \/ (api.req.live /\ \E x : cur' = [cur EXCEPT ![api.req.gateway] = x])
  BY DEF FinishPoll, RefuseClaim, RepeatClaim
<1>4. /\ \A r \in Requested' : r \in Requested
      /\ \A k \in 1..Len(calls) : UnderWay(k) => UnderWay(k)'
  BY <1>1, <1>2, <1>3, ServedOnce DEF IInv
<1>5. \A i \in Intents : InClaim(i) => InClaim(i)'
  BY <1>1, SavedClaims DEF IInv, Exclusive
<1>6. ASSUME NEW g \in Gateways, wpc'[g] = "submit"
      PROVE  \/ wpc[g] = "submit" /\ cur'[g] = cur[g]
             \/ InClaim(cur[g].intent)'
  <2>1. CASE FinishPoll \/ RefuseClaim
    BY <1>6, <2>1 DEF FinishPoll, RefuseClaim, Answer, IInv, TypeInv, TypeOK
  <2>2. CASE RepeatClaim
    <3>1. wpc' = wpc \/ wpc' = [wpc EXCEPT ![api.req.gateway] = "submit"]
      BY <2>2 DEF RepeatClaim, Answer
    <3>2. api.req.live
      BY <1>1 DEF Trail, Requested
    <3>3. CASE g = api.req.gateway
      <4>1. cur'[g].intent = api.req.intent
        BY <2>2, <3>2, <3>3 DEF RepeatClaim, IInv, TypeInv, TypeOK
      <4>2. PICK i \in Intents : i = api.req.intent
        BY <1>6, <4>1 DEF TypeInv, Holding, Holdings
      <4>3. Working[i] # None /\ Working[i].status = "claimed"
        BY <2>2, <4>2 DEF RepeatClaim, ClaimedBy
      <4>4. Working[i] = pending[i]
        BY <1>1, <4>3, WorkingIsPending DEF IInv, Exclusive
      <4>5. InClaim(i)'
        BY <1>5, <4>3, <4>4 DEF InClaim
      <4> QED
        BY <4>1, <4>2, <4>5 DEF InClaim
    <3>4. CASE g # api.req.gateway
      BY <1>6, <2>2, <3>1, <3>4 DEF RepeatClaim, IInv, TypeInv, TypeOK
    <3> QED
      BY <3>3, <3>4
  <2> QED
    BY <2>1, <2>2
<1> QED
  BY <1>1, <1>4, <1>5, <1>6, TrailKept DEF IInv

\* The gateway that is granted a claim finds the packet claimed.
LEMMA GrantedTrail ==
  ASSUME IInv, TypeInv', Trail, GrantClaim
  PROVE  Trail'
<1>1. /\ api # None /\ api.req.op = "claim"
      /\ Done /\ UNCHANGED <<net, calls, receipts>>
      /\ Answer(api.req.gateway, "submit")
  BY DEF GrantClaim, Running
<1>2. api.req.live
  BY <1>1 DEF Trail, Requested
<1>3. cur' = cur \/ (api.req.live /\ \E x : cur' = [cur EXCEPT ![api.req.gateway] = x])
  BY DEF GrantClaim
<1>4. /\ \A r \in Requested' : r \in Requested
      /\ \A k \in 1..Len(calls) : UnderWay(k) => UnderWay(k)'
  BY <1>1, <1>3, ServedOnce DEF IInv
<1>5. PICK i \in Intents : i = api.req.intent
  BY <1>1 DEF IInv, TypeInv, TypeOK, Requests, PollRequests, ClaimRequests, ReceiptRequests,
              DispatchRequests
<1>6. Working \in PendingLists
  BY <1>1, WorkingType DEF IInv, TypeInv
<1>7. PICK q : pending' = [Working EXCEPT ![i] = q] /\ q.status = "claimed" /\ q \in Packets
  <2> DEFINE q == [Working[i] EXCEPT !.status = "claimed", !.claim = api.req.gateway]
  <2>1. Working[i] \in Packets
    BY <1>5, <1>6 DEF GrantClaim, Claimable, Approved, PendingLists
  <2>2. pending' = [Working EXCEPT ![i] = q]
    BY <1>5 DEF GrantClaim, Save
  <2>3. q.status = "claimed"
    BY <2>1 DEF Packets
  <2>4. q \in Packets
    <3>1. api.req.gateway \in Gateways
      BY <1>1 DEF IInv, TypeInv, TypeOK, Requests, PollRequests, ClaimRequests, ReceiptRequests,
                  DispatchRequests
    <3> QED
      BY <2>1, <3>1 DEF Packets, IntentStatuses, OpenStatuses
  <2> QED
    BY <2>2, <2>3, <2>4
<1>8. InClaim(i)'
  BY <1>6, <1>7, MarkerAssumption DEF InClaim, PendingLists
<1>9. \A j \in Intents : InClaim(j) => InClaim(j)'
  <2> SUFFICES ASSUME NEW j \in Intents, InClaim(j), j # i
               PROVE  InClaim(j)'
    BY <1>8
  <2>1. pending'[j] = pending[j]
    BY <1>1, <1>6, <1>7, ClaimsWorked DEF IInv, Exclusive, PendingLists
  <2> QED
    BY <2>1 DEF InClaim
<1>10. ASSUME NEW g \in Gateways, wpc'[g] = "submit"
       PROVE  \/ wpc[g] = "submit" /\ cur'[g] = cur[g]
              \/ InClaim(cur[g].intent)'
  <2>1. CASE g = api.req.gateway
    <3>1. cur'[g].intent = i
      BY <1>2, <1>5, <2>1 DEF GrantClaim, IInv, TypeInv, TypeOK
    <3> QED
      BY <1>8, <3>1 DEF InClaim
  <2>2. CASE g # api.req.gateway
    <3>1. wpc'[g] = wpc[g]
      BY <1>1, <2>2 DEF Answer, IInv, TypeInv, TypeOK
    <3>2. cur'[g] = cur[g]
      BY <2>2 DEF GrantClaim, IInv, TypeInv, TypeOK
    <3> QED
      BY <1>10, <3>1, <3>2
  <2> QED
    BY <2>1, <2>2
<1> QED
  BY <1>1, <1>4, <1>9, <1>10, TrailKept DEF IInv

\* A receipt in service is stored.
LEMMA ReceivedTrail ==
  ASSUME IInv, TypeInv', Trail, Undisturbed,
         RepeatReceipt \/ RejectReceipt \/ StoreReceipt
  PROVE  Trail'
<1>1. /\ api # None /\ api.req.op = "receipt" /\ api.req \in Requested
      /\ Done /\ UNCHANGED <<net, calls, cur>>
      /\ Answer(api.req.gateway, "ready")
  BY DEF RepeatReceipt, RejectReceipt, StoreReceipt, Running, Requested
<1>2. PICK k \in 1..Len(calls) : k = api.req.id
  BY <1>1 DEF IInv, TypeInv, Holding
<1>3. PICK i \in Intents : i = calls[k].intent
  <2>1. calls[k] \in Submissions
    BY DEF IInv, TypeInv, TypeOK
  <2> QED
    BY <2>1 DEF Submissions
<1>4. ~RejectReceipt
  <2> SUFFICES ASSUME RejectReceipt
               PROVE  FALSE
    OBVIOUS
  <2>1. k \notin receipts /\ (Matched(i) = None \/ ~MayReport(Matched(i), k))
    BY <1>2, <1>3 DEF RejectReceipt
  <2>2. InClaim(i)
    BY <1>3, <2>1 DEF Trail
  <2>3. Working[i] = pending[i]
    BY <1>1, <2>2, ClaimsWorked DEF IInv, Exclusive
  <2>4. Matched(i) # None /\ Matched(i).status = "claimed"
    BY <2>2, <2>3 DEF Matched, InClaim
  <2>5. MayReport(Matched(i), k)
    BY <2>4, ClaimAdmits DEF IInv, TypeInv
  <2> QED
    BY <2>1, <2>4, <2>5
<1>5. receipts \subseteq receipts' /\ k \in receipts'
  BY <1>2, <1>4 DEF RepeatReceipt, StoreReceipt, storeVars
<1>6. /\ \A r \in Requested' : r \in Requested
      /\ \A l \in 1..Len(calls) : UnderWay(l) => UnderWay(l)' \/ l = k
  BY <1>1, <1>2, ServedOnce DEF IInv
<1>7. ASSUME NEW g \in Gateways, wpc'[g] = "submit"
      PROVE  wpc[g] = "submit" /\ cur'[g] = cur[g]
  BY <1>1, <1>7 DEF Answer, IInv, TypeInv, TypeOK
<1>8. Reportless(i)'
  BY <1>1, <1>3, <1>5, <1>7, SoleCall DEF Reportless
<1>9. ASSUME NEW j \in Intents, InClaim(j), j # i
      PROVE  InClaim(j)'
  <2>1. Working[j] = pending[j]
    BY <1>1, <1>9, ClaimsWorked DEF IInv, Exclusive
  <2>2. pending' = pending \/ pending' = Working \/ pending' = AfterReceipt(Working, i, k)
    BY <1>2, <1>3, <1>4 DEF RepeatReceipt, StoreReceipt, SavePruned, Save, storeVars
  <2>3. AfterReceipt(Working, i, k)[j] = Working[j]
    BY <1>1, <1>9, WorkingType DEF AfterReceipt, PendingLists, IInv, TypeInv
  <2>4. pending'[j] = pending[j]
    BY <2>1, <2>2, <2>3
  <2> QED
    BY <1>9, <2>4 DEF InClaim
<1> QED
  BY <1>1, <1>5, <1>6, <1>7, <1>8, <1>9, TrailKept DEF IInv

\* What a worker sends is under way.
LEMMA SentTrail ==
  ASSUME IInv, TypeInv', Trail, NEW g \in Gateways, Poll(g) \/ SendClaim(g) \/ PostReceipt(g)
  PROVE  Trail'
<1>1. UNCHANGED <<pending, receipts, calls, cur>>
  BY DEF Poll, SendClaim, PostReceipt, storeVars
<1>2. \A r \in Requested' : r \in Requested \/ r.live
  BY DEF Poll, SendClaim, PostReceipt, Begin, Requested
<1>3. Requested \subseteq Requested'
  BY DEF Poll, SendClaim, PostReceipt, Begin, Idle, Requested
<1>4. \A h \in Gateways : wpc'[h] = "submit" => wpc[h] = "submit"
  BY DEF Poll, SendClaim, PostReceipt, IInv, TypeInv, TypeOK
<1>5. ASSUME NEW k \in 1..Len(calls), NEW h \in Gateways, wpc[h] = "report", cur[h].call = k
      PROVE  UnderWay(k)'
  <2>1. CASE PostReceipt(g) /\ h = g
    <3>1. [op |-> "receipt", gateway |-> g, live |-> TRUE, id |-> k] \in Requested'
      BY <1>5, <2>1 DEF PostReceipt, Requested
    <3> QED
      BY <1>1, <3>1 DEF UnderWay
  <2>2. CASE ~(PostReceipt(g) /\ h = g)
    <3>1. wpc'[h] = "report"
      BY <1>5, <2>2 DEF Poll, SendClaim, PostReceipt, IInv, TypeInv, TypeOK
    <3> QED
      BY <1>1, <1>5, <3>1 DEF UnderWay
  <2> QED
    BY <2>1, <2>2
<1>6. \A k \in 1..Len(calls) : UnderWay(k) => UnderWay(k)'
  BY <1>3, <1>5 DEF UnderWay
<1>7. \A i \in Intents : InClaim(i) => InClaim(i)'
  BY <1>1 DEF InClaim
<1> QED
  BY <1>1, <1>2, <1>4, <1>6, <1>7, TrailKept DEF IInv

\* What a worker submits is claimed, and the worker holds the receipt.
LEMMA SubmittedTrail ==
  ASSUME IInv, Trail, NEW g \in Gateways, wpc[g] = "submit", NEW result, CallSubmitter(g, result)
  PROVE  Trail'
<1> DEFINE last == Len(calls) + 1
<1>1. /\ Len(calls) \in Nat
      /\ Len(calls') = last
      /\ \A k \in 1..Len(calls) : calls'[k] = calls[k]
      /\ calls'[last].intent = cur[g].intent
  BY DEF CallSubmitter, IInv, TypeInv, TypeOK
<1>2. UNCHANGED <<pending, receipts, api, net>>
  BY DEF CallSubmitter, storeVars
<1>3. Requested' = Requested
  BY <1>2 DEF Requested
<1>4. /\ wpc'[g] = "report"
      /\ \A h \in Gateways \ {g} : wpc'[h] = wpc[h] /\ cur'[h] = cur[h]
  BY DEF CallSubmitter, IInv, TypeInv, TypeOK
<1>5. cur'[g].call = last
  <2>1. cur[g] \in Holdings
    BY DEF IInv, TypeInv, Holding
  <2>2. cur' = [cur EXCEPT ![g] = [cur[g] EXCEPT !.call = last]]
    BY DEF CallSubmitter
  <2>3. cur'[g] = [cur[g] EXCEPT !.call = last]
    BY <2>2 DEF IInv, TypeInv, TypeOK
  <2> QED
    BY <2>1, <2>3 DEF Holdings
<1>6. \A r \in Requested' : r.op # "dispatch" => r.live
  BY <1>3 DEF Trail
<1>7. \A h \in Gateways : wpc'[h] = "submit" => InClaim(cur[h].intent)'
  BY <1>2, <1>4 DEF Trail, InClaim
<1>8. ASSUME NEW k \in 1..last, k \notin receipts'
      PROVE  UnderWay(k)' /\ InClaim(calls[k].intent)'
  <2>1. CASE k = last
    <3>1. UnderWay(k)'
      BY <1>4, <1>5, <2>1 DEF UnderWay
    <3>2. InClaim(cur[g].intent)
      BY DEF Trail
    <3> QED
      BY <1>1, <1>2, <2>1, <3>1, <3>2 DEF InClaim
  <2>2. CASE k # last
    <3>1. k \in 1..Len(calls) /\ k \notin receipts
      BY <1>1, <1>2, <1>8, <2>2
    <3>2. UnderWay(k) /\ InClaim(calls[k].intent)
      BY <3>1 DEF Trail
    <3>3. UnderWay(k)'
      BY <1>3, <1>4, <3>2 DEF UnderWay
    <3> QED
      BY <1>1, <1>2, <3>1, <3>2, <3>3 DEF InClaim
  <2> QED
    BY <2>1, <2>2
<1> QED
  BY <1>1, <1>6, <1>7, <1>8 DEF Trail

\* Every step of an undisturbed gateway keeps the trail.
LEMMA TrailStep ==
  ASSUME IInv, TypeInv', Undisturbed => Trail, [Next]_apiVars, Undisturbed'
  PROVE  Trail'
<1>1. \A g \in Gateways : ~FaultStep(g)
  <2>1. faults \in Nat /\ faults' = 0
    BY DEF IInv, TypeInv, TypeOK, Undisturbed
  <2>2. ASSUME NEW g \in Gateways, FaultStep(g)
        PROVE  \E kind : Fault(kind)
    BY <2>2, Zenon DEF FaultStep, Timeout, LoseRequest, DuplicateRequest, Crash, SubmitUnheard
  <2>3. \A kind : ~Fault(kind)
    BY <2>1 DEF Fault
  <2> QED
    BY <2>2, <2>3
<1>2. CASE FinishDispatch
  <2>1. UNCHANGED faults /\ \A i \in Intents : approvals[i] <= approvals'[i]
    <3>1. approvals' = [approvals EXCEPT ![api.req.intent] = @ + 1] /\ UNCHANGED faults
      BY <1>2 DEF FinishDispatch
    <3>2. approvals \in [Intents -> Nat]
      BY DEF IInv, TypeInv, TypeOK
    <3> QED
      BY <3>1, <3>2
  <2>2. \A i \in Intents : approvals[i] \in Nat /\ approvals'[i] \in Nat
    BY DEF IInv, TypeInv, TypeOK
  <2>3. Undisturbed
    BY <2>1, <2>2 DEF Undisturbed
  <2> QED
    BY <1>2, <2>3, DispatchTrail
<1>3. CASE ~FinishDispatch
  <2>1. UNCHANGED <<faults, approvals>>
    BY <1>1, <1>3
       DEF Next, FinishRequest, WorkerStep, Submit, SubmitHeard, SubmitRaised, CallSubmitter,
           BeginDispatch, ServeRequest, FinishPoll, GrantClaim, RepeatClaim, RefuseClaim,
           RepeatReceipt, RejectReceipt, StoreReceipt, Poll, SendClaim, PostReceipt, Tick, apiVars
  <2>2. Undisturbed /\ Trail
    BY <2>1 DEF Undisturbed
  <2>3. ASSUME NEW g \in Gateways, WorkerStep(g)
        PROVE  Trail'
    <3>1. CASE SubmitHeard(g) \/ SubmitRaised(g)
      <4>1. PICK result : wpc[g] = "submit" /\ CallSubmitter(g, result)
        BY <3>1 DEF SubmitHeard, SubmitRaised
      <4> QED
        BY <2>2, <4>1, SubmittedTrail
    <3> QED
      BY <2>2, <2>3, <3>1, SentTrail DEF WorkerStep, Submit
  <2>4. ASSUME \/ ServeRequest \/ Tick \/ UNCHANGED apiVars
               \/ \E i \in Dispatched : BeginDispatch(i)
        PROVE  Trail'
    <3>1. UNCHANGED <<pending, receipts, calls, wpc, cur>>
      BY <2>4 DEF ServeRequest, Tick, BeginDispatch, storeVars, workerVars, apiVars
    <3>2. \A r \in Requested' : r \in Requested \/ r.op = "dispatch"
      BY <2>4 DEF ServeRequest, Tick, BeginDispatch, Begin, Requested, apiVars
    <3>3. Requested \subseteq Requested'
      <4>1. ASSUME NEW req \in Requests, Begin(req)
            PROVE  Requested = net /\ Requested' = net' \cup {req}
        <5>1. pending \in PendingLists
          BY DEF IInv, TypeInv, TypeOK
        <5>2. api' = [req |-> req, read |-> pending]
          BY <4>1 DEF Begin
        <5>3. api' \in [req : Requests, read : PendingLists] /\ api'.req = req
          BY <5>1, <5>2
        <5>4. api' # None
          BY <5>3, MarkerAssumption
        <5> QED
          BY <4>1, <5>3, <5>4 DEF Begin, Idle, Requested
      <4>2. CASE ServeRequest
        <5>1. PICK req \in net : Begin(req) /\ net' = net \ {req}
          BY <4>2 DEF ServeRequest
        <5>2. req \in Requests
          BY <5>1 DEF IInv, TypeInv, TypeOK, Requests
        <5> QED
          BY <4>1, <5>1, <5>2
      <4>3. ASSUME NEW i \in Dispatched, BeginDispatch(i)
            PROVE  Requested \subseteq Requested'
        <5>1. Begin([op |-> "dispatch", intent |-> i]) /\ UNCHANGED net
          BY <4>3 DEF BeginDispatch
        <5>2. [op |-> "dispatch", intent |-> i] \in Requests
          BY <4>3, BoundsAssumption DEF Requests, DispatchRequests
        <5> QED
          BY <4>1, <5>1, <5>2
      <4>4. CASE Tick \/ UNCHANGED apiVars
        BY <4>4 DEF Tick, apiVars, Requested
      <4> QED
        BY <2>4, <4>2, <4>3, <4>4
    <3>4. \A k \in 1..Len(calls) : UnderWay(k) => UnderWay(k)'
      BY <3>1, <3>3 DEF UnderWay
    <3>5. \A i \in Intents : InClaim(i) => InClaim(i)'
      BY <3>1 DEF InClaim
    <3> QED
      BY <2>2, <3>1, <3>2, <3>4, <3>5, TrailKept DEF IInv
  <2> QED
    BY <1>1, <1>3, <2>2, <2>3, <2>4, ServedTrail, GrantedTrail, ReceivedTrail
       DEF Next, FinishRequest
<1> QED
  BY <1>2, <1>3

\* As long as nothing fails and no intent is dispatched again, the receipt of
\* every submission is stored or comes, and the API admits it when it does.
THEOREM SubmissionsReported == Spec => [](Undisturbed => NoReportLost)
<1>1. Init => (Undisturbed => Trail)
  BY DEF Init, Trail, Requested
<1>2. IInv /\ IInv' /\ (Undisturbed => Trail) /\ [Next]_apiVars => (Undisturbed => Trail)'
  BY TrailStep DEF IInv
<1>3. IInv /\ (Undisturbed => Trail) => (Undisturbed => NoReportLost)
  BY ClaimAdmits DEF Trail, NoReportLost, Admitted, InClaim, IInv, TypeInv
<1> QED
  BY <1>1, <1>2, <1>3, Invariance, PTL DEF Spec

=============================================================================
