---------------------------- MODULE MCSellWatch ----------------------------
(***************************************************************************)
(* SellWatch for TLC in six deployments: each hazard needs its own jobs,   *)
(* faults and signals, and none of them all at once.                       *)
(***************************************************************************)
EXTENDS SellWatch

CONSTANTS s1, s2

\* Both watches sell at the broker.
FastLocal ==
  [plane |-> "local", stock |-> {s1}, jobs |-> {"fast", "deep"}, ratios |-> {"all", "half"},
   signals |-> {}, faults |-> {"cancel"}, maxFaults |-> 1, maxSells |-> 4]

\* The deep watch alone, two symbols.
DeepLocal == [FastLocal EXCEPT !.stock = {s1, s2}, !.jobs = {"deep"}]

\* Both watches sell through the gateway.
Gateway == [FastLocal EXCEPT !.plane = "gateway", !.ratios = {"half"}, !.maxSells = 3]

\* One watch, a signal that stays, and every fault it meets.
LiveFast ==
  [plane |-> "local", stock |-> {s1}, jobs |-> {"fast"}, ratios |-> {"half"},
   signals |-> {s1}, faults |-> {"abort", "query", "unheard", "cancel"}, maxFaults |-> 2, maxSells |-> 4]
LiveDeep == [LiveFast EXCEPT !.jobs = {"deep", "reconcile"}]
LiveGateway ==
  [LiveFast EXCEPT !.plane = "gateway", !.faults = {"abort"}, !.maxFaults = 1, !.maxSells = 5]

MCDeployments == {FastLocal, DeepLocal, Gateway, LiveFast, LiveDeep, LiveGateway}

=============================================================================
