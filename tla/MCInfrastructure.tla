-------------------------- MODULE MCInfrastructure --------------------------
(***************************************************************************)
(* What the processes share, for TLC: the circuit breakers, a state store, *)
(* a file that is written through a temporary one, and the event bus, once *)
(* with jobs that never read the same number and once with jobs that may.  *)
(* A behaviour is of one of them from its start.                           *)
(***************************************************************************)
EXTENDS CircuitBreaker, StateStore, SafeFile, EventBus

VARIABLE deployment

allVars == <<vars, storeVars, fileVars, busVars, deployment>>

Ordered == INSTANCE EventBus WITH SameNumber <- FALSE
Racing == INSTANCE EventBus WITH SameNumber <- TRUE

In(d, others) == deployment = d /\ UNCHANGED <<deployment, others>>
InBreakers == In("breakers", <<storeVars, fileVars, busVars>>)
InOrdered == In("ordered", <<vars, storeVars, fileVars>>)

MCInit ==
  /\ deployment \in {"breakers", "store", "file", "ordered", "racing"}
  /\ Init /\ StoreInit /\ FileInit /\ BusInit

MCNext ==
  \/ InBreakers /\ Next
  \/ In("store", <<vars, fileVars, busVars>>) /\ StoreNext
  \/ In("file", <<vars, storeVars, busVars>>) /\ FileNext
  \/ InOrdered /\ Ordered!BusNext
  \/ In("racing", <<vars, storeVars, fileVars>>) /\ Racing!BusNext

\* CircuitBreaker's fairness, and EventBus's.
MCSpec ==
  /\ MCInit /\ [][MCNext]_allVars
  /\ \A u \in Users : /\ WF_allVars(InBreakers /\ Registry(u))
                      /\ WF_allVars(InBreakers /\ Caller(u))
  /\ \A u \in Users, s \in Subsystems : SF_allVars(InBreakers /\ CheckFindsDue(u, s))
  /\ \A s \in Subsystems : WF_allVars(InBreakers /\ FallsDue(s))
  /\ \A p \in Publishers : WF_allVars(InOrdered /\ Ordered!Publishing(p))

\* EventBus's EveryEventHandled, with jobs that never read the same number.
MCEveryEventHandled ==
  \A id \in 1..MaxEvents : deployment = "ordered" /\ published >= id ~> id \in handled

=============================================================================
