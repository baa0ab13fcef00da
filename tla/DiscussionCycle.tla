--------------------------- MODULE DiscussionCycle ---------------------------
(***************************************************************************)
(* The discussion of a trade date.  The agents write opinions on candidate *)
(* cases, round by round; a refresh of the cycle sees that a round is      *)
(* complete, repairs a cycle that says so wrongly, and opens the next      *)
(* round while something is disputed; a finalisation concludes it.         *)
(*                                                                         *)
(* Opinions are kept in the file of cases, the cycle in the file of        *)
(* cycles.  The API and the jobs of the scheduler read either, work on     *)
(* what they read, and write the whole of it back: a lock is held over one *)
(* read or one write, never over both.  A handler is a sequence of such    *)
(* steps, and between two of them the others take theirs.                  *)
(*                                                                         *)
(* The cases of the day and its focus pool do not change here.  Whether    *)
(* the execution pool is empty, which the cases' verdicts decide, is an    *)
(* input of the finalisation.                                              *)
(***************************************************************************)
EXTENDS Integers, Sequences, FiniteSets

CONSTANTS
  Cases,      \* candidate cases of the trade date
  Focus,      \* the focus pool
  Discussed,  \* the cases agents write about
  Agents,     \* DISCUSSION_AGENT_IDS
  Risk,       \* ashare-risk
  Audit,      \* ashare-audit
  Stances,    \* stances that occur
  MaxRounds,  \* max_rounds of a cycle
  Processes,  \* the API and the jobs of the scheduler
  Handles,    \* the handlers of each
  Contradicted, \* cases in which a rebuild finds contradictions
  Retracting, \* whether an agent may follow a full answer by a thin one
  None

AllHandlers == {"opinions", "writeback", "exit", "refresh", "start", "finalize"}

ASSUME DiscussionAssumption ==
  /\ IsFiniteSet(Cases) /\ Focus \in (SUBSET Cases) \ {{}}
  /\ Discussed \subseteq Cases /\ Contradicted \subseteq Cases
  /\ Risk \in Agents /\ Audit \in Agents /\ Risk # Audit
  /\ Stances \subseteq {"support", "watch", "limit", "question", "rejected"}
  /\ MaxRounds \in Nat \ {0}
  /\ Handles \in [Processes -> SUBSET AllHandlers]
  /\ Retracting \in BOOLEAN

VARIABLES
  file,     \* the file of cases
  cycle,    \* the cycle, in the file of cycles
  at,       \* per process, the handler it runs
  answered  \* <<case, agent, round>>: answers the agents have given

vars == <<file, cycle, at, answered>>

Rounds == 1..MaxRounds
MaxOf(i, j) == IF i >= j THEN i ELSE j

-----------------------------------------------------------------------------
(* Opinions, and what a case shows of them. *)

\* One agent's opinion on some cases.  "question" stands for a hold as well.
Opinions == [agent : Agents, round : Rounds, on : SUBSET Discussed, stance : Stances, full : BOOLEAN]

\* said: an agent's latest word on a case in a round.  raised: what the first
\* round has ever brought up.  withheld: the gatekeepers whose latest word, in
\* any round, withholds.  marked: the case as summarised last asks for a
\* second round.
Files == [said     : [Cases -> [Agents -> [Rounds -> {"nothing", "thin", "full"}]]],
          raised   : [Cases -> {"nothing", "questions", "inquiries"}],
          withheld : [Cases -> SUBSET {Risk, Audit}],
          marked   : SUBSET Cases]

NoOpinions ==
  [said     |-> [c \in Cases |-> [a \in Agents |-> [r \in Rounds |-> "nothing"]]],
   raised   |-> [c \in Cases |-> "nothing"],
   withheld |-> [c \in Cases |-> {}],
   marked   |-> {}]

\* risk_gate "limit", audit_gate "hold".
Withholds(o) ==
  \/ o.agent = Risk /\ o.stance \in {"watch", "limit", "question"}
  \/ o.agent = Audit /\ o.stance \in {"question", "rejected"}

\* Every objection of the first round is a question for the second; all but a
\* "watch" are inquiries, which nothing takes back.
Raises(o, before) ==
  IF o.round = 1 /\ o.stance \in {"limit", "question", "rejected"} THEN "inquiries"
  ELSE IF o.round = 1 /\ o.stance = "watch" /\ before = "nothing" THEN "questions"
  ELSE before

\* record_opinions_batch, on the cases read.
WithOpinion(f, o) ==
  [f EXCEPT
     !.said     = [c \in Cases |-> [a \in Agents |-> [r \in Rounds |->
                     IF c \in o.on /\ a = o.agent /\ r = o.round
                     THEN IF o.full THEN "full" ELSE "thin"
                     ELSE f.said[c][a][r]]]],
     !.raised   = [c \in Cases |-> IF c \in o.on THEN Raises(o, f.raised[c]) ELSE f.raised[c]],
     !.withheld = [c \in Cases |->
                     IF c \notin o.on THEN f.withheld[c]
                     ELSE IF Withholds(o) THEN f.withheld[c] \cup {o.agent}
                     ELSE f.withheld[c] \ {o.agent}]]

\* A case's share of needs_round_2.
Disputed(f, c) == f.raised[c] # "nothing" \/ f.withheld[c] # {}

NeedsRound2(f) == \E c \in Cases : Disputed(f, c)
Inquired(f) == \E c \in Cases : f.raised[c] = "inquiries"

Covered(f, c) == \A a \in Agents : f.said[c][a][1] # "nothing"

-----------------------------------------------------------------------------
(* The cycle. *)

States == {"idle", "round_1_running", "round_1_summarized", "round_2_running",
           "final_review_ready", "round_running", "round_summarized",
           "final_selection_ready", "final_selection_blocked"}
Final == {"final_selection_ready", "final_selection_blocked"}
Running == {"round_1_running", "round_2_running", "round_running"}

Cycles == [state : States, round : 0..MaxRounds, targets : SUBSET Cases]
NewCycle == [state |-> "idle", round |-> 0, targets |-> {}]

RunningState(n) == IF n = 1 THEN "round_1_running" ELSE IF n = 2 THEN "round_2_running" ELSE "round_running"
DoneState(n) == IF n = 1 THEN "round_1_summarized" ELSE IF n = 2 THEN "final_review_ready" ELSE "round_summarized"

\* A second round starts with the cases marked in the file.
Starting(y, n, f) ==
  [y EXCEPT !.state = RunningState(n), !.round = n,
            !.targets = IF n = 2 THEN f.marked ELSE y.targets]

\* The first round counts the cases everybody has spoken on.
\* Mutant: one more is wanted.
Round1Exceeded(f) == Cardinality({c \in Cases : Covered(f, c)}) > Cardinality(Focus)
Round1Complete(f) == Cardinality({c \in Cases : Covered(f, c)}) >= Cardinality(Focus)

\* From the second round on the targets are expected, or the focus pool.
Expected(y) == IF y.targets # {} THEN y.targets ELSE Focus

\* A thin word does not complete a round.
\* Mutant: any word does.
AnyWordCounts(word) == word # "nothing"
AnswersCount(word) == word = "full"

RoundComplete(y, n, f) ==
  \A c \in Expected(y), a \in Agents : AnswersCount(f.said[c][a][n])

Begun(y, f) == IF y.state = "idle" THEN Starting(y, 1, f) ELSE y

\* A cycle that is said to have finished a round, and has not, goes back to it.
Repaired(y, f) ==
  CASE y.state = "round_1_summarized" /\ ~Round1Complete(f) ->
         [y EXCEPT !.state = "round_1_running", !.round = MaxOf(y.round, 1)]
    [] y.state = "final_review_ready" /\ ~RoundComplete(y, 2, f) ->
         [y EXCEPT !.state = "round_2_running", !.round = MaxOf(y.round, 2), !.targets = Expected(y)]
    [] y.state = "round_summarized" /\ y.round >= 3 /\ ~RoundComplete(y, y.round, f) ->
         [y EXCEPT !.state = RunningState(y.round)]
    [] OTHER -> y

Completed(y, f) ==
  CASE y.state = "round_1_running" /\ Round1Complete(f) -> [y EXCEPT !.state = DoneState(1)]
    [] y.state = "round_2_running" /\ RoundComplete(y, 2, f) -> [y EXCEPT !.state = DoneState(2)]
    [] y.state = "round_running" /\ y.round >= 3 /\ RoundComplete(y, y.round, f) ->
         [y EXCEPT !.state = DoneState(y.round)]
    [] OTHER -> y

\* can_continue_discussion.
GoesOn(y, f) ==
  /\ y.state \in {"round_1_summarized", "round_summarized", "final_review_ready"}
  /\ y.round < MaxRounds
  /\ Inquired(f) \/ (y.round = 1 /\ NeedsRound2(f))

Continued(y, f) == IF GoesOn(y, f) THEN Starting(y, y.round + 1, f) ELSE y

\* refresh_cycle, on the cycle and the cases read.
Refreshed(y, f) == Continued(Completed(Repaired(Begun(y, f), f), f), f)

\* On the summary the refresh has made.
\* Mutant: a running round may be finalised.
AlwaysFinalizes(y, needs) == y.state # "idle"
CanFinalize(y, needs) ==
  \/ y.state \in Final \cup {"final_review_ready", "round_summarized"}
  \/ y.state = "round_1_summarized" /\ ~needs

-----------------------------------------------------------------------------
(* Handlers. *)

Steps == [opinions  |-> <<"readCases", "record", "readCases", "rebuild", "readCycle", "refresh", "writeCycle">>,
          writeback |-> <<"readCycle", "readCases", "record", "readCases", "rebuild", "writeCycle">>,
          exit      |-> <<"readCases", "record", "readCases", "rebuild", "readCycle", "writeCycle">>,
          refresh   |-> <<"readCycle", "refresh", "writeCycle">>,
          start     |-> <<"readCycle", "start", "writeCycle">>,
          finalize  |-> <<"readCycle", "refresh", "writeCycle", "confirm",
                          "readCycle", "refresh", "writeCycle", "conclude", "writeCycle">>]

\* What a handler has read and has still to do, its input, and needs_round_2
\* in the summary it has made.
Idle == [todo |-> <<>>, cycle |-> NewCycle, cases |-> NoOpinions,
         opinion |-> None, round |-> 0, needs |-> FALSE]

Begin(p, handler, opinion, round) ==
  /\ at[p] = Idle
  /\ handler \in Handles[p]
  /\ at' = [at EXCEPT ![p] = [Idle EXCEPT !.todo = Steps[handler], !.opinion = opinion, !.round = round]]
  /\ UNCHANGED <<file, cycle, answered>>

\* An agent writes about the current round, or late about one before.
\* Substance is asked for from the second round on.
Timely(o) == o.on # {} /\ o.round <= MaxOf(cycle.round, 1) /\ (o.round = 1 => o.full)
Retracts(o) == ~o.full /\ \E c \in o.on : file.said[c][o.agent][o.round] # "nothing"

Opine(p) ==
  \E o \in Opinions, handler \in {"opinions", "writeback"} :
    /\ Timely(o)
    /\ Retracting \/ ~Retracts(o)
    /\ Begin(p, handler, o, 0)

\* fast_track_exit: the risk agent rejects, with reasons, in the current round.
Exit(p) ==
  \E c \in Cases :
    Begin(p, "exit", [agent |-> Risk, round |-> MaxOf(cycle.round, 1), on |-> {c},
                      stance |-> "rejected", full |-> TRUE], 0)

Refresh(p) == Begin(p, "refresh", None, 0)
StartRound(p) == \E n \in Rounds : Begin(p, "start", None, n)
Finalize(p) == Begin(p, "finalize", None, 0)

\* The handler's next step is s.  It goes on, or is idle again.
At(p, s) == at[p].todo # <<>> /\ Head(at[p].todo) = s
GoOn(p, here) ==
  at' = [at EXCEPT ![p] = IF Len(here.todo) = 1 THEN Idle ELSE [here EXCEPT !.todo = Tail(here.todo)]]

ReadCases(p) ==
  /\ At(p, "readCases")
  /\ GoOn(p, [at[p] EXCEPT !.cases = file])
  /\ UNCHANGED <<file, cycle, answered>>

Record(p) ==
  /\ At(p, "record")
  /\ LET o == at[p].opinion
     IN /\ file' = WithOpinion(at[p].cases, o)
        /\ answered' = IF o.full THEN answered \cup {<<c, o.agent, o.round>> : c \in o.on} ELSE answered
  /\ GoOn(p, [at[p] EXCEPT !.cases = NoOpinions])
  /\ UNCHANGED cycle

\* rebuild_case: contradictions it finds in a case are questions as well.
Rebuild(p) ==
  /\ At(p, "rebuild")
  /\ file' = [at[p].cases EXCEPT
                !.marked = {c \in Cases : IF c \in at[p].opinion.on
                                          THEN c \in Contradicted \/ Disputed(at[p].cases, c)
                                          ELSE c \in at[p].cases.marked}]
  /\ GoOn(p, [at[p] EXCEPT !.cases = NoOpinions, !.opinion = None])
  /\ UNCHANGED <<cycle, answered>>

ReadCycle(p) ==
  /\ At(p, "readCycle")
  /\ GoOn(p, [at[p] EXCEPT !.cycle = cycle])
  /\ UNCHANGED <<file, cycle, answered>>

RefreshCycle(p) ==
  /\ At(p, "refresh")
  /\ GoOn(p, [at[p] EXCEPT !.cycle = Refreshed(at[p].cycle, file), !.needs = NeedsRound2(file)])
  /\ UNCHANGED <<file, cycle, answered>>

StartCycle(p) ==
  /\ At(p, "start")
  /\ GoOn(p, [at[p] EXCEPT !.cycle = Starting(at[p].cycle, at[p].round, file)])
  /\ UNCHANGED <<file, cycle, answered>>

\* finalize_discussion_cycle returns when the refreshed cycle is not ready.
Confirm(p) ==
  /\ At(p, "confirm")
  /\ IF CanFinalize(at[p].cycle, at[p].needs)
     THEN GoOn(p, [at[p] EXCEPT !.cycle = NewCycle, !.needs = FALSE])
     ELSE at' = [at EXCEPT ![p] = Idle]
  /\ UNCHANGED <<file, cycle, answered>>

Conclude(p) ==
  /\ At(p, "conclude")
  /\ \E outcome \in Final :
       GoOn(p, IF CanFinalize(at[p].cycle, at[p].needs) THEN [at[p] EXCEPT !.cycle.state = outcome] ELSE at[p])
  /\ UNCHANGED <<file, cycle, answered>>

WriteCycle(p) ==
  /\ At(p, "writeCycle")
  /\ cycle' = at[p].cycle
  /\ GoOn(p, at[p])
  /\ UNCHANGED <<file, answered>>

Step(p) ==
  \/ ReadCases(p) \/ Record(p) \/ Rebuild(p)
  \/ ReadCycle(p) \/ RefreshCycle(p) \/ StartCycle(p) \/ Confirm(p) \/ Conclude(p) \/ WriteCycle(p)

-----------------------------------------------------------------------------
Init ==
  /\ file = NoOpinions
  /\ cycle = NewCycle
  /\ at = [p \in Processes |-> Idle]
  /\ answered = {}

Next ==
  \E p \in Processes :
    Opine(p) \/ Exit(p) \/ Refresh(p) \/ StartRound(p) \/ Finalize(p) \/ Step(p)

\* The agents are asked about the focus pool in the first round, and about the
\* targets, or the focus pool, after it, until they have answered in full.
Asked(a) ==
  LET r == MaxOf(cycle.round, 1)
      asked == IF r >= 2 /\ cycle.targets # {} THEN cycle.targets ELSE Focus
  IN {c \in asked : file.said[c][a][r] # "full"}

Answers(p, a) ==
  /\ Asked(a) # {}
  /\ \E stance \in Stances :
       Begin(p, "opinions", [agent |-> a, round |-> MaxOf(cycle.round, 1), on |-> Asked(a),
                             stance |-> stance, full |-> TRUE], 0)

DiscussionSpec == Init /\ [][Next]_vars

\* A handler finishes; an agent that is asked answers some time, and the
\* finalisation is asked for again and again.
FairDiscussionSpec ==
  /\ DiscussionSpec
  /\ \A p \in Processes : WF_vars(Step(p))
  /\ \A p \in Processes : "opinions" \in Handles[p] => \A a \in Agents : SF_vars(Answers(p, a))
  /\ \A p \in Processes : "finalize" \in Handles[p] => SF_vars(Finalize(p))

-----------------------------------------------------------------------------
(* Properties. *)

Words == Cases \X Agents \X Rounds

\* Every variable has its type.
DiscussionTypeOK ==
  /\ file \in Files
  /\ cycle \in Cycles
  /\ \A p \in Processes :
       /\ at[p].cycle \in Cycles
       /\ at[p].cases \in Files
       /\ at[p].opinion \in Opinions \cup {None}
       /\ at[p].round \in 0..MaxRounds
       /\ at[p].needs \in BOOLEAN
  /\ answered \subseteq Words

\* "A case whose challenges are not answered cannot become finalize ready":
\* when the last round was the second or a later one, every agent has answered
\* in it, with substance, on every case it was about.  Two processes may lose
\* each other's opinions and write old cycles back.
LastRoundAnswered ==
  cycle.state \in Final \cup {"final_review_ready", "round_summarized"} /\ cycle.round >= 2 =>
    \A c \in Expected(cycle), a \in Agents : <<c, a, cycle.round>> \in answered

\* A discussion that ends after its first round has heard every agent on every
\* case of the focus pool, though the round is complete by a count of cases.
FirstRoundHeard ==
  cycle.state \in Final \cup {"round_1_summarized"} /\ cycle.round = 1 =>
    \A c \in Focus, a \in Agents : <<c, a, 1>> \in answered

\* Agents that answer what they are asked see the discussion concluded, and
\* concluded again when an old cycle was written over its end.
EveryDiscussionConcludes == []<>(cycle.state \in Final)

=============================================================================
