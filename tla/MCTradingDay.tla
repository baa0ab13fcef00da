---------------------------- MODULE MCTradingDay ----------------------------
(***************************************************************************)
(* One pass of the precheck, and the day's dispatches built on what a pass *)
(* keeps, for TLC.  A behaviour is in one of:                              *)
(*   precheck   ExecutionPrecheck, three cases of which two of one sector  *)
(*   calm       TradingDay, orders straight to the broker, no faults       *)
(*   gateway    TradingDay through the gateway's list                      *)
(*   faulty     crashes, lost answers, scans beside the handlers           *)
(***************************************************************************)
EXTENDS ExecutionPrecheck, TradingDay

MCCases == {"a", "b", "c"}
MCLot == [x \in MCCases |-> IF x = "c" THEN 2 ELSE 1]
MCSectors == {"banks", "chips"}
MCSector == [x \in MCCases |-> IF x = "c" THEN "chips" ELSE "banks"]

VARIABLE deployment

allVars == <<vars, dayVars, deployment>>

Precheck == INSTANCE ExecutionPrecheck
Calm == INSTANCE TradingDay
GatewayDay == INSTANCE TradingDay WITH Plane <- "gateway"
Faulty == INSTANCE TradingDay WITH
  Symbols <- {"a", "b"}, MaxLots <- 1, Limit <- 2,
  Faults <- {"crash", "unheard", "scan"}, MaxFaults <- 2, MaxOrders <- 3

NoAccount == [cash |-> 0, lots |-> [c \in Cases |-> 0], exposure |-> 0, maxHold |-> 0]

In(d) == deployment = d /\ UNCHANGED deployment

MCInit ==
  \/ deployment = "precheck" /\ Precheck!Init /\ Calm!DayInit
  \/ /\ account = NoAccount /\ todo = {} /\ approved = [c \in Cases |-> 0]
     /\ \/ deployment = "calm" /\ Calm!DayInit
        \/ deployment = "gateway" /\ GatewayDay!DayInit
        \/ deployment = "faulty" /\ Faulty!DayInit

MCNext ==
  \/ In("precheck") /\ Precheck!Next /\ UNCHANGED dayVars
  \/ In("calm") /\ Calm!DayNext /\ UNCHANGED vars
  \/ In("gateway") /\ GatewayDay!DayNext /\ UNCHANGED vars
  \/ In("faulty") /\ Faulty!DayNext /\ UNCHANGED vars

FaultyDoes(A) == In("faulty") /\ A /\ UNCHANGED vars

\* TradingDay's fairness, of the faulty deployment.
MCSpec ==
  /\ MCInit /\ [][MCNext]_allVars
  /\ WF_allVars(FaultyDoes(Faulty!Dispatching))
  /\ WF_allVars(FaultyDoes(Faulty!Restart))
  /\ WF_allVars(FaultyDoes(Faulty!ScanWrite))
  /\ SF_allVars(FaultyDoes(Faulty!Readiness))

\* TradingDay's EveryOrderJournaled, with every fault.
MCEveryOrderJournaled ==
  \A k \in 1..3 :
    [](deployment = "faulty" /\ k \in DOMAIN book =>
         <>[](deployment = "faulty" /\ k \in DOMAIN journal))

=============================================================================
