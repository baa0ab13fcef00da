------------------------- MODULE MCApiWithScheduler -------------------------
(***************************************************************************)
(* The API's handlers beside the scheduler's jobs on one file, for TLC.  A *)
(* behaviour is in one of:                                                 *)
(*   jobs     ExecutionGateway, a position watch and the cleanup, no       *)
(*            faults                                                       *)
(*   retry    ExecutionGateway, nothing to sell; one intent is dispatched  *)
(*            twice and its requests may time out, so that the cleanup     *)
(*            gives it back to its gateway                                 *)
(*   verdict  CandidateCase, the file of cases under the sync of reports   *)
(***************************************************************************)
EXTENDS ExecutionGateway, CandidateCase

VARIABLE deployment

allVars == <<vars, candidateVars, deployment>>

Jobs == INSTANCE ExecutionGateway
Retry == INSTANCE ExecutionGateway WITH
  LiveIntents <- {}, MaxApprovals <- 2, MaxCalls <- 2,
  Faults <- {"timeout"}, MaxFaults <- 1, SellIntents <- {}

In(d, others) == deployment = d /\ UNCHANGED <<deployment, others>>

MCInit ==
  /\ CandidateInit
  /\ \/ deployment \in {"jobs", "verdict"} /\ Jobs!SystemInit
     \/ deployment = "retry" /\ Retry!SystemInit

MCNext ==
  \/ In("jobs", candidateVars) /\ Jobs!SystemNext
  \/ In("retry", candidateVars) /\ Retry!SystemNext
  \/ In("verdict", vars) /\ CandidateNext

MCSpec == MCInit /\ [][MCNext]_allVars

=============================================================================
