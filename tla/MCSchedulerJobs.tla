-------------------------- MODULE MCSchedulerJobs --------------------------
(***************************************************************************)
(* Two jobs of the scheduler beside the API, for TLC; a behaviour is of    *)
(* one of them from its start:                                             *)
(*   cleanup  ExecutionGateway, whose one worker may crash                 *)
(*   urging   Supervision                                                  *)
(***************************************************************************)
EXTENDS Supervision

CONSTANTS g1, i1

\* ExecutionGateway's variables, and the deployment.
VARIABLES
  pending, history, receipts, approvals, api, net, wpc, batch, cur, calls,
  dispatched, day, faults, watch, cleanup, deployment

gatewayVars ==
  <<pending, history, receipts, approvals, api, net, wpc, batch, cur, calls,
    dispatched, day, faults, watch, cleanup>>
allVars == <<supervisionVars, gatewayVars, deployment>>

Cleanup == INSTANCE ExecutionGateway WITH
  Gateways <- {g1}, Intents <- {i1}, Dispatched <- {i1}, LiveIntents <- {}, None <- Nobody,
  MaxApprovals <- 1, MaxCalls <- 1, MaxDay <- 1, MaxFaults <- 1, Faults <- {"crash"},
  Watchers <- {}, SellIntents <- {}, WithCleanup <- TRUE

InCleanup == deployment = "cleanup" /\ UNCHANGED <<deployment, supervisionVars>>
InApi == InCleanup /\ UNCHANGED <<watch, cleanup>>
InUrging == deployment = "urging" /\ UNCHANGED <<deployment, gatewayVars>>

MCInit == deployment \in {"cleanup", "urging"} /\ Cleanup!SystemInit /\ SupervisionInit

MCNext ==
  \/ InCleanup /\ Cleanup!SystemNext
  \/ InUrging /\ SupervisionNext

\* ExecutionGateway's fairness, and Supervision's.
MCSpec ==
  /\ MCInit /\ [][MCNext]_allVars
  /\ SF_allVars(InApi /\ Cleanup!ServeRequest)
  /\ WF_allVars(InApi /\ Cleanup!FinishRequest)
  /\ SF_allVars(InApi /\ Cleanup!Poll(g1))
  /\ WF_allVars(InApi /\ (Cleanup!SendClaim(g1) \/ Cleanup!Submit(g1) \/ Cleanup!PostReceipt(g1)))
  /\ WF_allVars(InApi /\ Cleanup!Tick)
  /\ WF_allVars(InCleanup /\ Cleanup!CleanupStep)
  /\ SF_allVars(InCleanup /\ Cleanup!QueryAnswered)
  /\ WF_allVars(InCleanup /\ Cleanup!OrderMoves)
  /\ WF_allVars(InUrging /\ Look("scheduler"))
  /\ WF_allVars(InUrging /\ (Records("scheduler") \/ GiveUp("scheduler")))
  /\ SF_allVars(InUrging /\ Send("scheduler"))

\* ExecutionGateway's EveryIntentCloses: whatever is lost, revived or retried, the
\* list is empty in the end and stays so.
MCEveryIntentCloses == <>[](deployment = "cleanup" => pending[i1] = Nobody)

\* Supervision's UnansweredIsUrged: an agent that stays behind, with nothing
\* acknowledged about it, is urged again and again.
MCUnansweredIsUrged ==
  \A a \in Staff : deployment = "urging" => (<>[]Unanswered(a) => []<>Messaged(a))

=============================================================================
