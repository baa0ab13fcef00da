----------------------------- MODULE GatewayApi -----------------------------
(***************************************************************************)
(* The execution gateway as its API process and the Windows workers see    *)
(* it.  The API owns the intents waiting in execution_gateway_state.json;  *)
(* a worker polls the approved ones, claims one, submits it to the broker  *)
(* and reports a receipt.  Requests may be late, lost, or answered after   *)
(* their caller gave up, and a worker may die between any two steps.       *)
(*                                                                         *)
(* An API handler is a read of the pending list and, later, a write of the *)
(* whole list it computed from that read: `api' holds the handler the      *)
(* event loop is running and the list it read.  Handlers never await, so   *)
(* there is one at a time; what other processes do to the file in between  *)
(* is the subject of ExecutionGateway.                                     *)
(***************************************************************************)
EXTENDS IntentLifecycle, Naturals, Sequences, FiniteSets

CONSTANTS
  Gateways,      \* workers, by gateway_source_id
  Intents,       \* intent ids
  Dispatched,    \* the intents the API's own dispatch enqueues
  LiveIntents,   \* those with live_execution_allowed, which are never pruned
  None,          \* no packet, no gateway, no handler
  MaxApprovals,  \* bound: how often one intent may be dispatched
  MaxCalls,      \* bound: submitter calls in all
  MaxDay,        \* bound: 24-hour periods that pass
  MaxFaults,     \* bound: faults that happen
  Faults         \* which faults: a subset of FaultKinds

FaultKinds == {"crash", "timeout", "lost_request", "duplicate_request", "submit_timeout"}

ASSUME BoundsAssumption ==
  /\ MaxApprovals \in Nat
  /\ MaxCalls \in Nat
  /\ MaxDay \in Nat
  /\ MaxFaults \in Nat
  /\ Faults \subseteq FaultKinds
  /\ Dispatched \subseteq Intents

ASSUME NoneAssumption == None \notin Gateways

VARIABLES
  pending,    \* pending_execution_intents: the packet of each waiting intent
  history,    \* execution_intent_history: the last packet recorded for each
  receipts,   \* ids in execution_gateway_receipt_history
  approvals,  \* how many times each intent was enqueued
  api,        \* the handler in progress: its request and the list it read
  net,        \* requests sent and not yet served
  wpc,        \* what each worker is doing
  batch,      \* the polled intents it has still to process
  cur,        \* the claimed packet it works on
  calls,      \* every call of a submitter, in order, as the broker knows it
  dispatched, \* request ids each gateway's adapter remembers as sent
  day,        \* 24-hour periods since the dispatches
  faults      \* faults so far

storeVars  == <<pending, history, receipts>>
workerVars == <<wpc, batch, cur>>
apiVars    == <<storeVars, approvals, api, net, workerVars, calls, dispatched, day, faults>>

-----------------------------------------------------------------------------
(* Data. *)

\* An intent packet: `approval' stands for approved_at, one per enqueue; `claim'
\* for claim.gateway_source_id; `order' for broker_order_id (0: none); `seen' for
\* the day of latest_reported_at, or of generated_at.
Packets == [status : IntentStatuses, approval : Nat, claim : Gateways \cup {None},
            order : Nat, seen : Nat]

\* A submission: what the submitter was asked, what the broker made of it, and
\* the receipt status the worker derived from the submitter's answer.
Submissions == [intent : Intents, approval : Nat, gateway : Gateways,
                broker : BrokerStatuses \cup {"NONE"}, reported : ReceiptStatuses]

\* The packet a worker got from its claim, and the submission it made of it.
Holdings == [intent : Intents, approval : Nat, call : Nat]

\* Requests; `live' while the caller still waits for the answer.
PollRequests     == [op : {"poll"}, gateway : Gateways, live : BOOLEAN]
ClaimRequests    == [op : {"claim"}, gateway : Gateways, live : BOOLEAN, intent : Intents]
ReceiptRequests  == [op : {"receipt"}, gateway : Gateways, live : BOOLEAN, id : Nat]
DispatchRequests == [op : {"dispatch"}, intent : Intents]
Requests == PollRequests \cup ClaimRequests \cup ReceiptRequests \cup DispatchRequests

PendingLists == [Intents -> Packets \cup {None}]

\* None is neither a packet nor a handler in progress.
ASSUME MarkerAssumption ==
  None \notin Packets /\ None \notin [req : Requests, read : PendingLists]

WorkerStates == {"ready", "polling", "claiming", "submit", "report", "reporting"}

\* The order a receipt names: none when the submitter raised.
OrderOf(k) == IF calls[k].reported = "failed" THEN 0 ELSE k

\* Mutant: a repeated dispatch keeps the approval the intent has.
ReusedApproval(i) ==
  [status |-> "approved", approval |-> approvals[i], claim |-> None,
   order |-> 0, seen |-> day]

\* A dispatched intent, as build_execution_gateway_intent_packet writes it.
NewPacket(i) ==
  [status |-> "approved", approval |-> approvals[i] + 1, claim |-> None,
   order |-> 0, seen |-> day]

\* transition_execution_intent with receipt k: the status moves and the receipt
\* leaves its order and its time.
WithReceipt(p, k) ==
  [p EXCEPT !.status = calls[k].reported,
            !.order  = IF OrderOf(k) > 0 THEN OrderOf(k) ELSE @,
            !.seen   = day]

Approved(p) == p # None /\ p.status = "approved"

\* _prune_active_pending_execution_intents: yesterday's offline intents that
\* nobody claimed leave the list on every read the API makes.
Outdated(i, p) ==
  Approved(p) /\ p.claim = None /\ day > 0 /\ i \notin LiveIntents

Pruned(list) == [i \in Intents |-> IF Outdated(i, list[i]) THEN None ELSE list[i]]

\* _claim_execution_intent: who may have it, and who has it already.
\* Mutant: any packet still claimed may be claimed again.
ClaimableByAnyone(p) == p # None /\ p.status \in {"approved", "claimed"}
Claimable(p) == Approved(p)
\* Mutant: whoever asks for a claimed packet gets it.
ClaimedBySomeone(p, g) == p # None /\ p.status = "claimed"
ClaimedBy(p, g) == p # None /\ p.status = "claimed" /\ p.claim = g

-----------------------------------------------------------------------------
(* The API process. *)

Idle == api = None

\* The event loop takes a request; every handler starts by reading the list.
Begin(req) == Idle /\ api' = [req |-> req, read |-> pending]

Running(op) == api # None /\ api.req.op = op

Done == api' = None

\* What the handler works on: the list it read, pruned.
\* Mutant: an intent that left the list is looked up in the history.
WorkingFromHistory ==
  Pruned([i \in Intents |-> IF api.read[i] = None THEN history[i] ELSE api.read[i]])
Working == Pruned(api.read)

\* save_pending_execution_intents
Save(list) == pending' = list

\* The pruned list is saved when pruning removed something.
SavePruned == IF Working # api.read THEN Save(Working) ELSE UNCHANGED pending

\* The answer reaches the caller if it still waits.
\* Mutant: only what was asked for is answered, a refusal is not.
AnswerGrants(g, state) ==
  wpc' = IF api.req.live /\ state # "ready" THEN [wpc EXCEPT ![g] = state] ELSE wpc
Answer(g, state) == wpc' = IF api.req.live THEN [wpc EXCEPT ![g] = state] ELSE wpc

ServeRequest ==
  \E req \in net :
    /\ Begin(req)
    /\ net' = net \ {req}
    /\ UNCHANGED <<storeVars, approvals, workerVars, calls, dispatched, day, faults>>

\* POST /discussions/execution-intents/dispatch with apply, for one intent.
BeginDispatch(i) ==
  /\ day = 0
  /\ approvals[i] < MaxApprovals
  /\ Begin([op |-> "dispatch", intent |-> i])
  /\ UNCHANGED <<storeVars, approvals, net, workerVars, calls, dispatched, day, faults>>

\* enqueue_execution_gateway_intent overwrites a waiting packet of the same id,
\* whatever became of it.
FinishDispatch ==
  /\ Running("dispatch")
  /\ LET i == api.req.intent
     IN  /\ Save([api.read EXCEPT ![i] = NewPacket(i)])
         /\ history' = [history EXCEPT ![i] = NewPacket(i)]
         /\ approvals' = [approvals EXCEPT ![i] = @ + 1]
  /\ Done
  /\ UNCHANGED <<receipts, net, workerVars, calls, dispatched, day, faults>>

\* gateway_pending_execution_intents: the approved ones.
FinishPoll ==
  /\ Running("poll")
  /\ SavePruned
  /\ Answer(api.req.gateway, "ready")
  /\ batch' = IF api.req.live
                THEN [batch EXCEPT ![api.req.gateway] = {i \in Intents : Approved(Working[i])}]
                ELSE batch
  /\ Done
  /\ UNCHANGED <<history, receipts, approvals, net, cur, calls, dispatched, day, faults>>

GrantClaim ==
  /\ Running("claim")
  /\ LET i == api.req.intent
         g == api.req.gateway
         p == Working[i]
         granted == [p EXCEPT !.status = "claimed", !.claim = g]
     IN  /\ Claimable(p)
         /\ Save([Working EXCEPT ![i] = granted])
         /\ history' = [history EXCEPT ![i] = granted]
         /\ Answer(g, "submit")
         /\ cur' = IF api.req.live
                     THEN [cur EXCEPT ![g] = [intent |-> i, approval |-> p.approval, call |-> 0]]
                     ELSE cur
  /\ Done
  /\ UNCHANGED <<receipts, approvals, net, batch, calls, dispatched, day, faults>>

\* The gateway that holds the claim may claim again: it gets the same packet.
RepeatClaim ==
  /\ Running("claim")
  /\ LET i == api.req.intent
         g == api.req.gateway
         p == Working[i]
     IN  /\ ClaimedBy(p, g)
         /\ Answer(g, "submit")
         /\ cur' = IF api.req.live
                     THEN [cur EXCEPT ![g] = [intent |-> i, approval |-> p.approval, call |-> 0]]
                     ELSE cur
  /\ SavePruned
  /\ Done
  /\ UNCHANGED <<history, receipts, approvals, net, batch, calls, dispatched, day, faults>>

\* Unknown, claimed by another gateway, or past claiming.
RefuseClaim ==
  /\ Running("claim")
  /\ LET p == Working[api.req.intent]
     IN  ~Claimable(p) /\ ~ClaimedBy(p, api.req.gateway)
  /\ Answer(api.req.gateway, "ready")
  /\ SavePruned
  /\ Done
  /\ UNCHANGED <<history, receipts, approvals, net, batch, cur, calls, dispatched, day, faults>>

\* _store_execution_gateway_receipt.  A receipt id already recorded changes nothing.
RepeatReceipt ==
  /\ Running("receipt")
  /\ api.req.id \in receipts
  /\ Answer(api.req.gateway, "ready")
  /\ Done
  /\ UNCHANGED <<storeVars, approvals, net, batch, cur, calls, dispatched, day, faults>>

\* The packet a receipt is matched with: the waiting one, else the last recorded.
Matched(i) == IF Working[i] # None THEN Working[i] ELSE history[i]

\* transition_execution_intent: the same status leaves the packet as it is.
\* Mutant: a packet is reported submitted before anything else.
MayReportInTurn(p, k) ==
  calls[k].reported = "submitted" \/ p.status \in {"submitted", "partial_filled"}
MayReport(p, k) ==
  calls[k].reported = p.status \/ calls[k].reported \in INTENT_TRANSITIONS[p.status]

Reported(p, k) == IF calls[k].reported = p.status THEN p ELSE WithReceipt(p, k)

\* The list once receipt k is in: a terminal status takes the intent off it.
AfterReceipt(list, i, k) ==
  [list EXCEPT ![i] = IF calls[k].reported \in TERMINAL_INTENT_STATUSES
                        THEN None ELSE Reported(@, k)]

\* The intent is unknown, or its status does not admit the receipt: nothing of the
\* receipt is kept.
RejectReceipt ==
  /\ Running("receipt")
  /\ api.req.id \notin receipts
  /\ LET p == Matched(calls[api.req.id].intent)
     IN  p = None \/ ~MayReport(p, api.req.id)
  /\ SavePruned
  /\ Answer(api.req.gateway, "ready")
  /\ Done
  /\ UNCHANGED <<history, receipts, approvals, net, batch, cur, calls, dispatched, day, faults>>

StoreReceipt ==
  /\ Running("receipt")
  /\ api.req.id \notin receipts
  /\ LET k == api.req.id
         i == calls[k].intent
         p == Matched(i)
     IN  /\ p # None
         /\ MayReport(p, k)
         /\ IF Working[i] # None THEN Save(AfterReceipt(Working, i, k)) ELSE SavePruned
         /\ history' = [history EXCEPT ![i] = Reported(p, k)]
         /\ receipts' = receipts \cup {k}
  /\ Answer(api.req.gateway, "ready")
  /\ Done
  /\ UNCHANGED <<approvals, net, batch, cur, calls, dispatched, day, faults>>

-----------------------------------------------------------------------------
(* A worker: run_once is a poll, then process_intent for each polled intent. *)

\* The poll's delay changes nothing, so it reaches the event loop at once.
Poll(g) ==
  /\ wpc[g] = "ready"
  /\ batch[g] = {}
  /\ Begin([op |-> "poll", gateway |-> g, live |-> TRUE])
  /\ wpc' = [wpc EXCEPT ![g] = "polling"]
  /\ UNCHANGED <<storeVars, approvals, net, batch, cur, calls, dispatched, day, faults>>

SendClaim(g) ==
  /\ wpc[g] = "ready"
  /\ \E i \in batch[g] :
       /\ net' = net \cup {[op |-> "claim", gateway |-> g, live |-> TRUE, intent |-> i]}
       /\ batch' = [batch EXCEPT ![g] = @ \ {i}]
  /\ wpc' = [wpc EXCEPT ![g] = "claiming"]
  /\ UNCHANGED <<storeVars, approvals, api, cur, calls, dispatched, day, faults>>

\* What submitters answer, beside what the broker has made of the order by then.
\* The built-in ones always say "submitted"; others pass the broker's word on.
SubmitterAnswers ==
  {[broker |-> "ACCEPTED", word |-> "submitted"],
   [broker |-> "ACCEPTED", word |-> "accepted"],
   [broker |-> "PARTIAL_FILLED", word |-> "partial-filled"],
   [broker |-> "FILLED", word |-> "filled"],
   [broker |-> "CANCELLED", word |-> "cancelled"],
   [broker |-> "REJECTED", word |-> "rejected"]}

\* _normalize_receipt_status.  Mutant: a word is reported as it is.
UnnormalizedStatus(word) == word
NormalizedStatus(word) ==
  CASE word = "accepted"       -> "submitted"
    [] word = "partial-filled" -> "partial_filled"
    [] word = "cancelled"      -> "canceled"
    [] OTHER                   -> word

\* A submission the worker heard back from: _build_receipt.
Heard ==
  {[broker |-> a.broker, reported |-> NormalizedStatus(a.word)] : a \in SubmitterAnswers}

\* The submitter raised, so _build_failed_receipt reports: the broker took nothing,
\* or it had taken the order.
Raised   == [broker |-> "NONE", reported |-> "failed"]
Unheard  == [broker |-> "ACCEPTED", reported |-> "failed"]

CallSubmitter(g, result) ==
  /\ Len(calls) < MaxCalls
  /\ calls' = Append(calls, [intent |-> cur[g].intent, approval |-> cur[g].approval,
                             gateway |-> g, broker |-> result.broker,
                             reported |-> result.reported])
  /\ cur' = [cur EXCEPT ![g].call = Len(calls) + 1]
  /\ wpc' = [wpc EXCEPT ![g] = "report"]
  /\ UNCHANGED <<storeVars, approvals, api, net, batch, day>>

\* XtQuantExecutionAdapter.place_order refuses a request id it has sent.
\* Mutant: the check is dropped.
NeverSent(g) == FALSE
Sent(g) == cur[g].intent \in dispatched[g]

SubmitHeard(g) ==
  /\ wpc[g] = "submit"
  /\ ~Sent(g)
  /\ \E result \in Heard : CallSubmitter(g, result)
  /\ dispatched' = [dispatched EXCEPT ![g] = @ \cup {cur[g].intent}]
  /\ UNCHANGED faults

SubmitRaised(g) ==
  /\ wpc[g] = "submit"
  /\ CallSubmitter(g, Raised)
  /\ UNCHANGED <<dispatched, faults>>

Submit(g) == SubmitHeard(g) \/ SubmitRaised(g)

PostReceipt(g) ==
  /\ wpc[g] = "report"
  /\ net' = net \cup {[op |-> "receipt", gateway |-> g, live |-> TRUE, id |-> cur[g].call]}
  /\ wpc' = [wpc EXCEPT ![g] = "reporting"]
  /\ UNCHANGED <<storeVars, approvals, api, batch, cur, calls, dispatched, day, faults>>

-----------------------------------------------------------------------------
(* Faults, time, and the specification. *)

Fault(kind) == kind \in Faults /\ faults < MaxFaults /\ faults' = faults + 1

Abandoned(g, req) ==
  IF req.op # "dispatch" /\ req.gateway = g THEN [req EXCEPT !.live = FALSE] ELSE req

\* The worker stops waiting.  process_intent catches an exception of the receipt
\* request, run_once one of the poll; nothing catches one of the claim request,
\* which ends the process and with it the batch.
GiveUp(g, requests) ==
  /\ net' = {Abandoned(g, req) : req \in requests}
  /\ api' = IF api = None THEN None ELSE [api EXCEPT !.req = Abandoned(g, @)]
  /\ wpc' = [wpc EXCEPT ![g] = "ready"]

Timeout(g) ==
  /\ wpc[g] \in {"polling", "claiming", "reporting"}
  /\ Fault("timeout")
  /\ GiveUp(g, net)
  /\ batch' = IF wpc[g] = "claiming" THEN [batch EXCEPT ![g] = {}] ELSE batch
  /\ UNCHANGED <<storeVars, approvals, cur, calls, dispatched, day>>

LoseRequest(g) ==
  \E req \in net :
    /\ req.gateway = g
    /\ req.live
    /\ Fault("lost_request")
    /\ GiveUp(g, net \ {req})
    /\ batch' = IF wpc[g] = "claiming" THEN [batch EXCEPT ![g] = {}] ELSE batch
    /\ UNCHANGED <<storeVars, approvals, cur, calls, dispatched, day>>

\* The request arrives twice; nobody waits for the second answer.
DuplicateRequest(g) ==
  \E req \in net :
    /\ req.gateway = g
    /\ req.live
    /\ Fault("duplicate_request")
    /\ net' = net \cup {[req EXCEPT !.live = FALSE]}
    /\ UNCHANGED <<storeVars, approvals, api, workerVars, calls, dispatched, day>>

\* The worker's process ends and is started again.
Crash(g) ==
  /\ Fault("crash")
  /\ GiveUp(g, net)
  /\ batch' = [batch EXCEPT ![g] = {}]
  /\ UNCHANGED <<storeVars, approvals, cur, calls, dispatched, day>>

\* The broker took the order, place_order did not return: the id is not recorded.
SubmitUnheard(g) ==
  /\ wpc[g] = "submit"
  /\ ~Sent(g)
  /\ CallSubmitter(g, Unheard)
  /\ Fault("submit_timeout")
  /\ UNCHANGED dispatched

Tick ==
  /\ day < MaxDay
  /\ day' = day + 1
  /\ UNCHANGED <<storeVars, approvals, api, net, workerVars, calls, dispatched, faults>>

Init ==
  /\ pending = [i \in Intents |-> None]
  /\ history = [i \in Intents |-> None]
  /\ receipts = {}
  /\ approvals = [i \in Intents |-> 0]
  /\ api = None
  /\ net = {}
  /\ wpc = [g \in Gateways |-> "ready"]
  /\ batch = [g \in Gateways |-> {}]
  /\ cur = [g \in Gateways |-> None]
  /\ calls = <<>>
  /\ dispatched = [g \in Gateways |-> {}]
  /\ day = 0
  /\ faults = 0

FinishRequest ==
  \/ FinishDispatch \/ FinishPoll
  \/ GrantClaim \/ RepeatClaim \/ RefuseClaim
  \/ RepeatReceipt \/ RejectReceipt \/ StoreReceipt

WorkerStep(g) == Poll(g) \/ SendClaim(g) \/ Submit(g) \/ PostReceipt(g)

FaultStep(g) ==
  Timeout(g) \/ LoseRequest(g) \/ DuplicateRequest(g) \/ Crash(g) \/ SubmitUnheard(g)

Next ==
  \/ \E i \in Dispatched : BeginDispatch(i)
  \/ ServeRequest
  \/ FinishRequest
  \/ \E g \in Gateways : WorkerStep(g) \/ FaultStep(g)
  \/ Tick

Spec == Init /\ [][Next]_apiVars

\* The event loop serves what has arrived and ends what it runs; a worker that
\* runs takes its next step.  Polls and requests compete for the loop, hence SF.
Fairness ==
  /\ SF_apiVars(ServeRequest)
  /\ WF_apiVars(FinishRequest)
  /\ \A g \in Gateways :
       /\ SF_apiVars(Poll(g))
       /\ WF_apiVars(SendClaim(g) \/ Submit(g) \/ PostReceipt(g))

FairSpec == Spec /\ Fairness

-----------------------------------------------------------------------------
(* Properties. *)

TypeOK ==
  /\ pending \in PendingLists
  /\ history \in PendingLists
  /\ receipts \subseteq 1..Len(calls)
  /\ approvals \in [Intents -> Nat]
  /\ api = None \/ api \in [req : Requests, read : PendingLists]
  /\ net \subseteq ClaimRequests \cup ReceiptRequests
  /\ wpc \in [Gateways -> WorkerStates]
  /\ batch \in [Gateways -> SUBSET Intents]
  /\ cur \in [Gateways -> Holdings \cup {None}]
  /\ calls \in Seq(Submissions)
  /\ dispatched \in [Gateways -> SUBSET Intents]
  /\ day \in Nat
  /\ faults \in Nat

\* However requests are delayed, lost or repeated and workers die, one approval of
\* an intent never reaches the submitter twice: the claim hands each approved
\* packet to one gateway, and that gateway acts on it once.
OneCallPerApproval ==
  \A j, k \in 1..Len(calls) :
    calls[j].intent = calls[k].intent /\ calls[j].approval = calls[k].approval => j = k

\* The same as a ledger would promise it: the approvals granted and, in order,
\* the approvals acted upon, each at most once and only after it was granted.
Ledger == INSTANCE ApprovalLedger
            WITH executed <- [k \in 1..Len(calls) |-> <<calls[k].intent, calls[k].approval>>]

ActsOnEachApprovalOnce == Ledger!Spec

\* The order an intent shows, when it stems from the packet's own approval, was
\* placed for that intent by the gateway that holds its claim.
OrderIsTheClaimers ==
  \A i \in Intents :
    LET p == pending[i]
    IN  p # None /\ p.order > 0 =>
          LET c == calls[p.order]
          IN  /\ c.intent = i
              /\ c.approval = p.approval => c.gateway = p.claim

\* However often an intent is approved, claimed or retried, one gateway does not
\* send its order twice, except after a call it did not hear back from.
OneOrderPerGateway ==
  \A j, k \in 1..Len(calls) :
    /\ calls[j].intent = calls[k].intent
    /\ calls[j].gateway = calls[k].gateway
    /\ calls[j].reported # "failed"
    /\ calls[k].reported # "failed"
    => j = k

\* Once a terminal status is recorded for an approval and the intent is off the
\* list, only a new approval puts it back: no late claim or receipt revives it.
ClosedStaysClosed ==
  [][\A i \in Intents :
       /\ pending[i] = None
       /\ pending'[i] # None
       => history[i] = None \/ pending'[i].approval > history[i].approval]_apiVars

\* With no fault, what a worker submitted is in the receipt history in the end,
\* whatever else happened to the intent meanwhile (one approval per intent).
EverySubmissionReported ==
  \A k \in 1..MaxCalls : [](k <= Len(calls) => <>(k \in receipts))

\* An approved intent does not wait for ever while workers run.
EveryApprovalTaken ==
  \A i \in Intents : Approved(pending[i]) ~> ~Approved(pending[i])

=============================================================================
