---------------------------- MODULE MCDiscussion ----------------------------
(***************************************************************************)
(* Discussions and the settlement of the agents' credit, for TLC, in seven *)
(* deployments.                                                            *)
(*   first       one round without objections, an automatic writeback      *)
(*               beside the API                                            *)
(*   later       two rounds of objections, fast-track exits beside the     *)
(*               API                                                       *)
(*   targets     two cases of which one may be disputed, the API alone     *)
(*   concluding  three rounds, agents that answer, a refresh beside the    *)
(*               API that may write an old cycle back                      *)
(*   settled     settlements on two dates, the API alone                   *)
(*   raced       settlements beside the scheduler's writes, with crashes   *)
(*   watched     settlements beside the fast watch alone, with crashes     *)
(* A behaviour is of one of them from its start.                           *)
(***************************************************************************)
EXTENDS DiscussionCycle, Settlement, TLC

CONSTANTS api, scheduler, \* processes
          c2, d1, d2  \* a second case, dates

VARIABLE deployment

allVars == <<vars, settlementVars, deployment>>

BothStances == {"support", "rejected"}
MCHandles == api :> {"opinions", "finalize"} @@ scheduler :> {"exit"}

First == INSTANCE DiscussionCycle WITH
  MaxRounds <- 1, Stances <- {"support"},
  Handles <- (api :> {"opinions", "start", "finalize"} @@ scheduler :> {"writeback"})
Targets == INSTANCE DiscussionCycle WITH
  Cases <- Cases \cup {c2}, Focus <- Cases \cup {c2}, Discussed <- Cases \cup {c2},
  Contradicted <- {c2}, Stances <- BothStances, Retracting <- FALSE,
  Handles <- (api :> {"opinions", "finalize"} @@ scheduler :> {})
Concluding == INSTANCE DiscussionCycle WITH
  MaxRounds <- 3, Stances <- BothStances, Retracting <- FALSE,
  Handles <- (api :> {"opinions", "finalize"} @@ scheduler :> {"refresh"})

SettledAlone == [jobs |-> {"discussion", "outcome", "manual"}, dates |-> {d1, d2}, crashes |-> FALSE]
Raced == [jobs |-> {"discussion", "outcome", "defaults", "watch"}, dates |-> {d1}, crashes |-> TRUE]
Watched == [jobs |-> {"discussion", "outcome", "watch"}, dates |-> {d1}, crashes |-> TRUE]
MCDeltas == {-11, 7}
MCDeployments == {SettledAlone, Raced, Watched}

In(d, others) == deployment = d /\ UNCHANGED <<deployment, others>>
InConcluding == In("concluding", settlementVars)

Settling(d, deployments) == deployment = d /\ SettlementInit /\ deployed = deployments

MCInit ==
  \/ Settling("first", Raced) /\ First!Init
  \/ Settling("later", Raced) /\ Init
  \/ Settling("targets", Raced) /\ Targets!Init
  \/ Settling("concluding", Raced) /\ Concluding!Init
  \/ Settling("settled", SettledAlone) /\ Init
  \/ Settling("raced", Raced) /\ Init
  \/ Settling("watched", Watched) /\ Init

MCNext ==
  \/ In("first", settlementVars) /\ First!Next
  \/ In("later", settlementVars) /\ Next
  \/ In("targets", settlementVars) /\ Targets!Next
  \/ InConcluding /\ Concluding!Next
  \/ deployment \in {"settled", "raced", "watched"} /\ UNCHANGED <<deployment, vars>> /\ SettlementNext

\* Concluding's fairness.
MCSpec ==
  /\ MCInit /\ [][MCNext]_allVars
  /\ \A p \in Processes : WF_allVars(InConcluding /\ Concluding!Step(p))
  /\ \A a \in Agents : SF_allVars(InConcluding /\ Concluding!Answers(api, a))
  /\ SF_allVars(InConcluding /\ Concluding!Finalize(api))

\* DiscussionCycle's EveryDiscussionConcludes, with fair agents.
MCEveryDiscussionConcludes == deployment = "concluding" => Concluding!EveryDiscussionConcludes

=============================================================================
