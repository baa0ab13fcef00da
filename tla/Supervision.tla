---------------------------- MODULE Supervision ----------------------------
(***************************************************************************)
(* Urging the agents of a discussion.  Two supervisors, the scheduler's    *)
(* job and the API's check, look at who is behind, send one message and    *)
(* write down that they did; a person acknowledges through the API.  What  *)
(* they know of each other is one record of the shared store, the control  *)
(* state (who acknowledged what, the last message), which each of them     *)
(* reads and then writes back whole.                                       *)
(*                                                                         *)
(* Both are taken to see the same statuses.  The API's handlers run one at *)
(* a time.  Of the plan of tasks only this is kept: an agent that is       *)
(* behind is recommended one.  Times are kept as whether the 180 seconds   *)
(* that are asked about have passed.                                       *)
(***************************************************************************)
EXTENDS Naturals, FiniteSets

CONSTANTS
  Staff,       \* the agents
  Discussants, \* those whose items carry counts of cases at the API
  MaxTurns,    \* bound: times an agent falls behind or a round begins
  MaxAcks,     \* bound: acknowledgements
  Nobody

Supervisors == {"scheduler", "api"}

VARIABLES
  status,   \* the agents' statuses
  turn,     \* the cycle's state and round
  control,  \* agent_supervision_control: acknowledgements, the last message
  run,      \* what each supervisor has in hand
  behind,   \* how often agents fell behind or a round began
  told      \* what supervisors have warned of

supervisionVars == <<status, turn, control, run, behind, told>>
staffVars == <<status, turn, behind>>

-----------------------------------------------------------------------------
(* What a supervisor computes. *)

Attention == {a \in Staff : status[a] \in {"needs_work", "overdue"}}
Overdue == {a \in Staff : status[a] = "overdue"}

\* build_supervision_attention_signature.  The scheduler's items have no counts
\* of cases, the API's have them for the agents of the discussion.
Signature(s) ==
  [counts |-> s = "api" /\ Attention \cap Discussants # {},
   turn   |-> turn,
   items  |-> [a \in Attention |-> status[a]]]

Acknowledged(s) == {a \in Attention : [agent |-> a, sig |-> Signature(s)] \in control.acks}
ToNotify(s) == Attention \ Acknowledged(s)

\* Mutant: whatever the last message was about.
AnyMatter(s) == control.last # Nobody
SameMatter(s) == control.last # Nobody /\ control.last.sig = Signature(s)

Escalates(s) ==
  /\ SameMatter(s)
  /\ ToNotify(s) \cap Overdue # {}
  /\ control.last.level \in {"warning", "critical"}
  /\ control.last.old

Level(s) ==
  IF Escalates(s) THEN "critical"
  ELSE IF ToNotify(s) \cap Overdue # {} THEN "warning" ELSE "info"

\* Of notify_items and the tasks the plan recommends, the agents that are behind.
\* Mutant: one message about a matter is enough.
UrgedOnce(s) == IF SameMatter(s) THEN {} ELSE Attention
Urged(s) == ToNotify(s) \cup Attention

-----------------------------------------------------------------------------
(* A supervisor's run. *)

Free(s) == run[s] = Nobody
Hold(s, what) == run' = [run EXCEPT ![s] = what]
Stage(s, stage) == run[s] # Nobody /\ run[s].stage = stage

\* Nobody being behind, the plan may still recommend tasks, which is an input.
Look(s) ==
  /\ Free(s)
  /\ Hold(s, [stage |-> "built", sig |-> Signature(s), level |-> Level(s),
              urged |-> Urged(s), read |-> Nobody])
  /\ UNCHANGED <<staffVars, control, told>>

Send(s) ==
  /\ Stage(s, "built")
  /\ Hold(s, [run[s] EXCEPT !.stage = "sent"])
  /\ told' = IF run[s].level = "info" THEN told ELSE told \cup {run[s].sig}
  /\ UNCHANGED <<staffVars, control>>

\* record_supervision_notification reads the record and writes it back.
Load(s) ==
  /\ Stage(s, "sent")
  /\ Hold(s, [run[s] EXCEPT !.stage = "loaded", !.read = control])
  /\ UNCHANGED <<staffVars, control, told>>

Save(s) ==
  /\ Stage(s, "loaded")
  /\ control' = [run[s].read EXCEPT
                   !.last = [sig |-> run[s].sig, level |-> run[s].level, old |-> FALSE]]
  /\ Hold(s, Nobody)
  /\ UNCHANGED <<staffVars, told>>

\* A message that is held back by the rate limit, or fails, is not written down;
\* nor is one after which the process is stopped.
GiveUp(s) ==
  /\ ~Free(s)
  /\ Hold(s, Nobody)
  /\ UNCHANGED <<staffVars, control, told>>

-----------------------------------------------------------------------------
(* The API's acknowledgement: the board is built, then each agent's record is *)
(* read and written back.                                                      *)

Acknowledge ==
  /\ Free("api")
  /\ Cardinality(control.acks) < MaxAcks
  /\ \E targets \in (SUBSET Attention) \ {{}} :
       Hold("api", [stage |-> "acks", sig |-> Signature("api"), left |-> targets, read |-> Nobody])
  /\ UNCHANGED <<staffVars, control, told>>

AckLoad ==
  /\ Stage("api", "acks")
  /\ run["api"].read = Nobody
  /\ Hold("api", [run["api"] EXCEPT !.read = control])
  /\ UNCHANGED <<staffVars, control, told>>

AckSave ==
  /\ Stage("api", "acks")
  /\ run["api"].read # Nobody
  /\ \E a \in run["api"].left :
       /\ control' = [run["api"].read EXCEPT !.acks = @ \cup {[agent |-> a, sig |-> run["api"].sig]}]
       /\ Hold("api", IF run["api"].left = {a} THEN Nobody
                      ELSE [run["api"] EXCEPT !.left = @ \ {a}, !.read = Nobody])
  /\ UNCHANGED <<staffVars, told>>

-----------------------------------------------------------------------------
(* The agents, the cycle and time. *)

CatchUp(a) ==
  /\ status[a] # "working"
  /\ status' = [status EXCEPT ![a] = "working"]
  /\ UNCHANGED <<turn, behind, control, run, told>>

FallBehind(a) ==
  /\ behind < MaxTurns
  /\ behind' = behind + 1
  /\ \E to \in {"needs_work", "overdue"} \ {status[a]} : status' = [status EXCEPT ![a] = to]
  /\ UNCHANGED <<turn, control, run, told>>

\* A new round: every agent has work to do.
NextRound ==
  /\ behind < MaxTurns
  /\ behind' = behind + 1
  /\ turn' = turn + 1
  /\ status' = [a \in Staff |-> "needs_work"]
  /\ UNCHANGED <<control, run, told>>

Aged(c) == IF c = Nobody \/ c.last = Nobody THEN c ELSE [c EXCEPT !.last.old = TRUE]

\* 180 seconds since the last message, and since those in the copies in hand.
MessageAges ==
  /\ control' = Aged(control)
  /\ run' = [s \in Supervisors |->
              IF Free(s) THEN Nobody ELSE [run[s] EXCEPT !.read = Aged(@)]]
  /\ UNCHANGED <<staffVars, told>>

-----------------------------------------------------------------------------
SupervisionInit ==
  /\ status = [a \in Staff |-> "working"]
  /\ turn = 1
  /\ control = [acks |-> {}, last |-> Nobody]
  /\ run = [s \in Supervisors |-> Nobody]
  /\ behind = 0
  /\ told = {}

Records(s) == Load(s) \/ Save(s)

SupervisionNext ==
  \/ \E s \in Supervisors : Look(s) \/ Send(s) \/ Records(s) \/ GiveUp(s)
  \/ Acknowledge \/ AckLoad \/ AckSave
  \/ \E a \in Staff : CatchUp(a) \/ FallBehind(a)
  \/ NextRound \/ MessageAges

SupervisionSpec == SupervisionInit /\ [][SupervisionNext]_supervisionVars

\* The job is run every three minutes, goes on with what it began, and not
\* every message of its is lost.
FairSupervisionSpec ==
  /\ SupervisionSpec
  /\ WF_supervisionVars(Look("scheduler"))
  /\ WF_supervisionVars(Records("scheduler") \/ GiveUp("scheduler"))
  /\ SF_supervisionVars(Send("scheduler"))

-----------------------------------------------------------------------------
(* Properties. *)

Signatures ==
  [counts : BOOLEAN, turn : Nat,
   items : UNION {[A -> {"needs_work", "overdue"}] : A \in SUBSET Staff}]
Levels == {"info", "warning", "critical"}
Controls ==
  [acks : SUBSET [agent : Staff, sig : Signatures],
   last : [sig : Signatures, level : Levels, old : BOOLEAN] \cup {Nobody}]
Messages ==
  [stage : {"built", "sent", "loaded"}, sig : Signatures, level : Levels,
   urged : SUBSET Staff, read : Controls \cup {Nobody}]
Answers ==
  [stage : {"acks"}, sig : Signatures, left : SUBSET Staff, read : Controls \cup {Nobody}]

\* Every variable has its type.
SupervisionTypeOK ==
  /\ status \in [Staff -> {"working", "needs_work", "overdue"}]
  /\ turn \in Nat
  /\ control \in Controls
  /\ run \in [Supervisors -> Messages \cup Answers \cup {Nobody}]
  /\ \A s \in Supervisors : Stage(s, "loaded") => run[s].read \in Controls
  /\ behind \in Nat
  /\ told \subseteq Signatures

\* A message is sharpened only if the same matter was warned of before, whoever
\* sent that warning, though the two supervisors and an acknowledgement write
\* the record over each other and a warning may be sent and not written down.
EscalatedAfterWarning ==
  \A s \in Supervisors : Stage(s, "built") /\ run[s].level = "critical" => run[s].sig \in told

\* An agent that stays behind, with nothing acknowledged about it, is urged
\* again and again by the scheduler's job, whatever the API wrote meanwhile.
Messaged(a) == Stage("scheduler", "sent") /\ a \in run["scheduler"].urged
Unanswered(a) == a \in Attention \ Acknowledged("scheduler")
UnansweredIsUrged ==
  \A a \in Staff : <>[]Unanswered(a) => []<>Messaged(a)

\* "Repeated reminders are suppressed by the same attention signature": whoever
\* has acknowledged the matter of a message of the job is not urged by it.
AcknowledgedNotUrged ==
  [][Look("scheduler") => run'["scheduler"].urged \cap Acknowledged("scheduler") = {}]_supervisionVars

=============================================================================
