----------------------------- MODULE Settlement -----------------------------
(***************************************************************************)
(* The agents' credit.  Three handlers of the API process settle it: the   *)
(* finalisation of a discussion, the reconciliation of an evaluated        *)
(* composition with its outcome, and a manual settlement.  Each settlement *)
(* has a key; the score file remembers the keys it has taken, the rating   *)
(* file does not.  A round of two or more agents with different results    *)
(* moves the ratings before any score is looked at.                        *)
(*                                                                         *)
(* Beside the API the scheduler's process reads the score file and writes  *)
(* it back with the defaults of a new day, and its fast watch reads a      *)
(* discussion cycle and writes it back.                                    *)
(*                                                                         *)
(* Scores are in whole points; a rating is the settlements that moved it.  *)
(***************************************************************************)
EXTENDS Integers, Sequences, FiniteSets, SequencesExt

CONSTANTS
  AgentIds,       \* DEFAULT_AGENT_IDS
  Records,        \* evaluated compositions
  Dates,          \* score dates
  Deltas,         \* what a settlement may give an agent
  Deployments,    \* see "deployed"
  MaxSettlements, \* bound: settlements that are begun
  Nothing

AllJobs == {"discussion", "outcome", "manual", "defaults", "watch"}

VARIABLES
  deployed, \* the jobs that run, the dates, whether the API process may be killed
  scores,   \* the score file: the state of an agent on a date
  moved,    \* the rating file: how often a settlement moved an agent's rating
  cycles,   \* per date, whether the cycle holds its settlement's key
  outcomes, \* per record, the settlement stored with its outcome
  latest,   \* date of the latest reconciliation
  job,      \* the settlement the API is at
  sched,    \* the score file the scheduler is about to write
  watch,    \* the cycles the fast watch has read
  begun     \* settlements begun

settlementVars == <<deployed, scores, moved, cycles, outcomes, latest, job, sched, watch, begun>>

Keys == [kind : {"discussion", "outcome", "manual"}, of : Records \cup Dates, date : Dates]
DiscussionKey(d) == [kind |-> "discussion", of |-> d, date |-> d]
OutcomeKey(r, d) == [kind |-> "outcome", of |-> r, date |-> d]
ManualKey(d) == [kind |-> "manual", of |-> d, date |-> d]

\* What the score file keeps for an agent and a date.  applied_settlement_keys,
\* with what each gave.
NewState == [score |-> 10, applied |-> <<>>]
AppliedKeys(state) == {state.applied[i].key : i \in 1..Len(state.applied)}

\* The results of a settlement: what each of some agents gets.
Results == UNION {[who -> Deltas] : who \in (SUBSET AgentIds) \ {{}}}

ScoreStates == [score : 0..20, applied : Seq([key : Keys, delta : Deltas])]
ScoreFiles == [AgentIds -> [Dates -> ScoreStates \cup {Nothing}]]

\* A settlement that is under way: the agents still to settle, and of the one
\* whose rating was moved the file its score is added to.
Settlements ==
  [key : Keys, results : Results, round : BOOLEAN,
   todo : SUBSET AgentIds, agent : AgentIds \cup {Nothing}, read : ScoreFiles \cup {<<>>}]

ASSUME SettlementAssumption ==
  /\ Deltas \subseteq Int
  /\ MaxSettlements \in Nat
  /\ Deployments \subseteq [jobs : SUBSET AllJobs, dates : SUBSET Dates, crashes : BOOLEAN]
  /\ Nothing \notin AgentIds \cup Keys \cup ScoreStates \cup ScoreFiles \cup Settlements
  /\ Nothing \notin [date : Dates, settled : BOOLEAN]

Clamped(n) == IF n < 0 THEN 0 ELSE IF n > 20 THEN 20 ELSE n

-----------------------------------------------------------------------------
(* A settlement: results for some agents, taken one after the other. *)

\* run_daily_settlement compares the results of a round of at least two.
IsRound(results) ==
  Cardinality(DOMAIN results) >= 2 /\ \E a, b \in DOMAIN results : results[a] # results[b]

Settles(key) == begun < MaxSettlements /\ begun' = begun + 1 /\ job = Nothing

MoveWith(key, agents) ==
  moved' = [k \in Keys |-> [a \in AgentIds |->
              IF k = key /\ a \in agents THEN moved[k][a] + 1 ELSE moved[k][a]]]

\* run_daily_settlement: the ratings first.
BeginSettlement(key, results, round) ==
  /\ Settles(key)
  /\ IF round THEN MoveWith(key, DOMAIN results) ELSE UNCHANGED moved
  /\ job' = [key |-> key, results |-> results, round |-> round,
             todo |-> DOMAIN results, agent |-> Nothing, read |-> <<>>]


\* _auto_settle_discussion_agents, unless the cycle holds the key.
\* Mutant: the cycle's key is not looked at.
CycleIgnored(d) == TRUE
Unsettled(d) == ~cycles[d]
SettleDiscussion(d, results) ==
  /\ "discussion" \in deployed.jobs
  /\ Unsettled(d)
  /\ BeginSettlement(DiscussionKey(d), results, IsRound(results))
  /\ UNCHANGED <<deployed, scores, cycles, outcomes, latest, sched, watch>>

\* _build_agent_score_settlement: nothing is done when the record's last
\* settlement has this key and was applied.
SettledBefore(r) == outcomes[r].key = OutcomeKey(r, latest) /\ outcomes[r].applied

SettleOutcome(r, results) ==
  /\ "outcome" \in deployed.jobs
  /\ ~SettledBefore(r)
  /\ BeginSettlement(OutcomeKey(r, latest), results, IsRound(results))
  /\ UNCHANGED <<deployed, scores, cycles, outcomes, latest, sched, watch>>

\* The record is then said to have a settlement that was not applied.
SkipOutcome(r) ==
  /\ "outcome" \in deployed.jobs
  /\ job = Nothing
  /\ SettledBefore(r)
  /\ outcomes' = [outcomes EXCEPT ![r].applied = FALSE]
  /\ UNCHANGED <<deployed, scores, moved, cycles, latest, job, sched, watch, begun>>

\* settle_agent_scores records one agent after the other, without a round.
SettleManually(d, results) ==
  /\ "manual" \in deployed.jobs
  /\ BeginSettlement(ManualKey(d), results, FALSE)
  /\ UNCHANGED <<deployed, scores, cycles, outcomes, latest, sched, watch>>

\* The agent's entry for the date, or a new one.
\* Mutant: always a new one.
StateAnew(file, a, d) == NewState
StateOf(file, a, d) == IF file[a][d] = Nothing THEN NewState ELSE file[a][d]

\* record_settlement, up to the write of the score file.
\* Mutant: the keys of the file are not looked at.
TakenNever(a) == FALSE
Taken(a) == job.key \in AppliedKeys(StateOf(scores, a, job.key.date))

SkipAgent(a) ==
  /\ job # Nothing
  /\ job.agent = Nothing /\ a \in job.todo
  /\ Taken(a)
  /\ job' = [job EXCEPT !.todo = @ \ {a}]
  /\ UNCHANGED <<deployed, scores, moved, cycles, outcomes, latest, sched, watch, begun>>

\* The rating moves before the score is written.
\* Mutant: it does not, without a round.
UnmovedAlone(a) == UNCHANGED moved
MoveAlone(a) == IF job.round THEN UNCHANGED moved ELSE MoveWith(job.key, {a})

RateAgent(a) ==
  /\ job # Nothing
  /\ job.agent = Nothing /\ a \in job.todo
  /\ ~Taken(a)
  /\ MoveAlone(a)
  /\ job' = [job EXCEPT !.agent = a, !.read = scores]
  /\ UNCHANGED <<deployed, scores, cycles, outcomes, latest, sched, watch, begun>>

\* The key is listed once.
Settled(state) ==
  [score   |-> Clamped(state.score + job.results[job.agent]),
   applied |-> IF job.key \in AppliedKeys(state) THEN state.applied
               ELSE Append(state.applied, [key |-> job.key, delta |-> job.results[job.agent]])]

WriteAgent ==
  /\ job # Nothing
  /\ job.agent # Nothing
  /\ LET a == job.agent
         d == job.key.date
     IN scores' = [job.read EXCEPT ![a][d] = Settled(StateOf(job.read, a, d))]
  /\ job' = [job EXCEPT !.todo = @ \ {job.agent}, !.agent = Nothing, !.read = <<>>]
  /\ UNCHANGED <<deployed, moved, cycles, outcomes, latest, sched, watch, begun>>

\* The cycle is written with its key, the record with its settlement.
EndSettlement ==
  /\ job # Nothing
  /\ job.agent = Nothing /\ job.todo = {}
  /\ cycles' = IF job.key.kind = "discussion" THEN [cycles EXCEPT ![job.key.date] = TRUE] ELSE cycles
  /\ outcomes' = IF job.key.kind = "outcome"
                 THEN [outcomes EXCEPT ![job.key.of] = [key |-> job.key, applied |-> TRUE]]
                 ELSE outcomes
  /\ job' = Nothing
  /\ UNCHANGED <<deployed, scores, moved, latest, sched, watch, begun>>

Crash ==
  /\ deployed.crashes
  /\ job # Nothing
  /\ job' = Nothing
  /\ UNCHANGED <<deployed, scores, moved, cycles, outcomes, latest, sched, watch, begun>>

-----------------------------------------------------------------------------
(* The scheduler's process, and the next day. *)

\* _ensure_defaults, called by read_states.
DefaultsRead(d) ==
  /\ "defaults" \in deployed.jobs
  /\ sched = Nothing
  /\ \E a \in AgentIds : scores[a][d] = Nothing
  /\ sched' = [a \in AgentIds |-> [scores[a] EXCEPT ![d] = StateOf(scores, a, d)]]
  /\ UNCHANGED <<deployed, scores, moved, cycles, outcomes, latest, job, watch, begun>>

DefaultsWrite ==
  /\ sched # Nothing
  /\ scores' = sched
  /\ sched' = Nothing
  /\ UNCHANGED <<deployed, moved, cycles, outcomes, latest, job, watch, begun>>

\* fast_track_exit reads a cycle, looks at the cases, and writes the cycle.
WatchRead(d) ==
  /\ "watch" \in deployed.jobs
  /\ watch = Nothing
  /\ watch' = [date |-> d, settled |-> cycles[d]]
  /\ UNCHANGED <<deployed, scores, moved, cycles, outcomes, latest, job, sched, begun>>

WatchWrite ==
  /\ watch # Nothing
  /\ cycles' = [cycles EXCEPT ![watch.date] = watch.settled]
  /\ watch' = Nothing
  /\ UNCHANGED <<deployed, scores, moved, outcomes, latest, job, sched, begun>>

ReconcileOn(d) ==
  /\ "outcome" \in deployed.jobs
  /\ job = Nothing
  /\ latest # d
  /\ latest' = d
  /\ UNCHANGED <<deployed, scores, moved, cycles, outcomes, job, sched, watch, begun>>

-----------------------------------------------------------------------------
SettlementInit ==
  /\ deployed \in Deployments
  /\ scores = [a \in AgentIds |-> [d \in Dates |-> Nothing]]
  /\ moved = [k \in Keys |-> [a \in AgentIds |-> 0]]
  /\ cycles = [d \in Dates |-> FALSE]
  /\ outcomes = [r \in Records |-> [key |-> Nothing, applied |-> FALSE]]
  /\ latest \in deployed.dates
  /\ job = Nothing
  /\ sched = Nothing
  /\ watch = Nothing
  /\ begun = 0

SettlementNext ==
  \/ \E results \in Results : \/ \E d \in deployed.dates : SettleDiscussion(d, results) \/ SettleManually(d, results)
                              \/ \E r \in Records : SettleOutcome(r, results)
  \/ \E r \in Records : SkipOutcome(r)
  \/ \E a \in AgentIds : SkipAgent(a) \/ RateAgent(a)
  \/ WriteAgent \/ EndSettlement \/ Crash
  \/ \E d \in deployed.dates : DefaultsRead(d) \/ WatchRead(d) \/ ReconcileOn(d)
  \/ DefaultsWrite \/ WatchWrite

SettlementSpec == SettlementInit /\ [][SettlementNext]_settlementVars

-----------------------------------------------------------------------------
(* Properties. *)

\* Every variable has its type.
SettlementTypeOK ==
  /\ deployed \in Deployments
  /\ scores \in ScoreFiles
  /\ moved \in [Keys -> [AgentIds -> Nat]]
  /\ cycles \in [Dates -> BOOLEAN]
  /\ outcomes \in [Records -> [key : Keys \cup {Nothing}, applied : BOOLEAN]]
  /\ latest \in Dates
  /\ job \in Settlements \cup {Nothing}
  /\ sched \in ScoreFiles \cup {Nothing}
  /\ watch \in [date : Dates, settled : BOOLEAN] \cup {Nothing}
  /\ begun \in 0..MaxSettlements

\* The score of an agent on a date is what the settlements listed with it give,
\* each taken once and in their order, whoever writes the file.
ScoreIsItsSettlements ==
  \A a \in AgentIds, d \in Dates :
    scores[a][d] # Nothing =>
      scores[a][d].score = FoldLeft(LAMBDA n, e : Clamped(n + e.delta), 10, scores[a][d].applied)

\* No settlement counts for a score that has not moved the rating, though the
\* process may die between the two files.
RatingsNeverBehind ==
  \A a \in AgentIds, d \in Dates :
    scores[a][d] # Nothing => \A k \in AppliedKeys(scores[a][d]) : moved[k][a] > 0

\* A discussion moves an agent's rating once, however often it is finalised,
\* when the process is not killed between the rating and the cycle, and no old
\* cycle is written back.
DiscussionRatedOnce ==
  ~deployed.crashes /\ "watch" \notin deployed.jobs =>
    \A a \in AgentIds, d \in Dates : moved[DiscussionKey(d)][a] <= 1

\* "after outcome attribution the same event is not settled again": one
\* settlement of a record moves an agent's rating once.
OutcomeRatedOnce ==
  \A a \in AgentIds, r \in Records, d \in Dates : moved[OutcomeKey(r, d)][a] <= 1

\* A cycle or a record that says its settlement was applied finds it in the
\* score file, whatever crashes and whoever writes old cycles back, when the
\* scheduler does not write the score file.
Applied(key) ==
  \E a \in AgentIds : scores[a][key.date] # Nothing /\ key \in AppliedKeys(scores[a][key.date])

AppliedIsInFile ==
  "defaults" \notin deployed.jobs =>
    /\ \A d \in Dates : cycles[d] => Applied(DiscussionKey(d))
    /\ \A r \in Records : outcomes[r].applied => Applied(outcomes[r].key)

=============================================================================
