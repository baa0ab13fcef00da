-------------------------- MODULE Discussion_proofs --------------------------
(***************************************************************************)
(* Proofs about the discussion and the credit its end settles.             *)
(*                                                                         *)
(* The discussion: whoever writes which old cycle back, and whatever       *)
(* opinions two processes lose of each other, a discussion that went past  *)
(* its first round is never ready for its end before every agent has       *)
(* answered in the last round on every case that round was about; and one  *)
(* that ends with the first has heard every agent on the focus pool.  The  *)
(* files forget, what the agents have given does not.  So the invariants   *)
(* speak of every copy: the words in any copy of the cases were given, and *)
(* any copy of the cycle that says a round is done is right about what was *)
(* given.                                                                  *)
(*                                                                         *)
(* The credit: a score is the fold of its settlements and is not ahead of  *)
(* the ratings, again in every copy of the file; a discussion is rated     *)
(* once, and what is marked as applied is in the file.                     *)
(***************************************************************************)
EXTENDS DiscussionCycle, Settlement, FiniteSetTheorems, TLAPS

Done == Final \cup {"final_review_ready", "round_summarized"}

\* A copy of the cases, and its full words.
FileTrue(f, given) ==
  /\ DOMAIN f = {"said", "raised", "withheld", "marked"}
  /\ f.marked \subseteq Cases
  /\ \A c \in Cases, a \in Agents, r \in Rounds : f.said[c][a][r] = "full" => <<c, a, r>> \in given

\* A copy of the cycle: its state agrees with its round, and it is done only
\* with everything given.
CycleTrue(y, given) ==
  /\ y \in Cycles
  /\ y.state \in {"round_1_running", "round_1_summarized"} => y.round = 1
  /\ y.state \in {"round_2_running", "final_review_ready"} => y.round = 2
  /\ y.state \in Done /\ y.round >= 2 =>
       \A c \in Expected(y), a \in Agents : <<c, a, y.round>> \in given

HandlerTrue(h, given) ==
  /\ DOMAIN h = {"todo", "cycle", "cases", "opinion", "round", "needs"}
  /\ FileTrue(h.cases, given)
  /\ CycleTrue(h.cycle, given)
  /\ h.round \in 0..MaxRounds

IInv ==
  /\ FileTrue(file, answered)
  /\ CycleTrue(cycle, answered)
  /\ at = [p \in Processes |-> at[p]]
  /\ \A p \in Processes : HandlerTrue(at[p], answered)

-----------------------------------------------------------------------------
(* What was given stays given. *)

\* Every copy stays true when more is given.
LEMMA Monotone ==
  ASSUME NEW given, NEW more, given \subseteq more
  PROVE  /\ \A f : FileTrue(f, given) => FileTrue(f, more)
         /\ \A y : CycleTrue(y, given) => CycleTrue(y, more)
         /\ \A h : HandlerTrue(h, given) => HandlerTrue(h, more)
<1>1. \A f : FileTrue(f, given) => FileTrue(f, more)
  BY DEF FileTrue
<1>2. \A y : CycleTrue(y, given) => CycleTrue(y, more)
  BY DEF CycleTrue
<1>3. \A h : HandlerTrue(h, given) => HandlerTrue(h, more)
  BY <1>1, <1>2 DEF HandlerTrue
<1> QED
  BY <1>1, <1>2, <1>3

\* The file of cases before any opinion is true.
LEMMA EmptyTrue ==
  \A given : FileTrue(NoOpinions, given)
  BY DEF FileTrue, NoOpinions

\* A new cycle is true.
LEMMA NewTrue ==
  \A given : CycleTrue(NewCycle, given)
  BY DiscussionAssumption DEF CycleTrue, NewCycle, Cycles, States, Done, Final

\* An idle process holds true copies.
LEMMA IdleTrue ==
  \A given : HandlerTrue(Idle, given)
  BY EmptyTrue, NewTrue, DiscussionAssumption DEF HandlerTrue, Idle

-----------------------------------------------------------------------------
(* The cycle's transitions. *)

\* Starting a round makes no claim.
LEMMA StartingTrue ==
  ASSUME NEW y, NEW f, NEW given, NEW n \in 0..MaxRounds,
         CycleTrue(y, given), f.marked \subseteq Cases
  PROVE  CycleTrue(Starting(y, n, f), given)
<1> DEFINE z == Starting(y, n, f)
<1>1. z \in Cycles /\ z.state = RunningState(n) /\ z.round = n
  BY DEF CycleTrue, Starting, Cycles, States, RunningState
<1> QED
  BY <1>1, DiscussionAssumption DEF CycleTrue, RunningState, Done, Final

\* A complete round was answered.
LEMMA CompleteGiven ==
  ASSUME NEW y, NEW f, NEW given, NEW n \in Rounds,
         y \in Cycles, FileTrue(f, given), RoundComplete(y, n, f)
  PROVE  \A c \in Expected(y), a \in Agents : <<c, a, n>> \in given
<1>1. Expected(y) \subseteq Cases
  BY DiscussionAssumption DEF Expected, Cycles
<1> QED
  BY <1>1 DEF RoundComplete, AnswersCount, FileTrue

\* A repair only takes claims back.
LEMMA RepairedTrue ==
  ASSUME NEW y, NEW f, NEW given, CycleTrue(y, given)
  PROVE  CycleTrue(Repaired(y, f), given)
<1> y \in Cycles
  BY DEF CycleTrue
<1>1. CASE y.state = "round_1_summarized" /\ ~Round1Complete(f)
  <2>1. Repaired(y, f) = [y EXCEPT !.state = "round_1_running", !.round = MaxOf(y.round, 1)]
    BY <1>1 DEF Repaired
  <2>2. MaxOf(y.round, 1) = 1
    BY <1>1 DEF CycleTrue, MaxOf
  <2> QED
    BY <1>1, <2>1, <2>2, DiscussionAssumption DEF CycleTrue, Cycles, States, Done, Final
<1>2. CASE y.state = "final_review_ready" /\ ~RoundComplete(y, 2, f)
  <2>1. Repaired(y, f) = [y EXCEPT !.state = "round_2_running", !.round = MaxOf(y.round, 2), !.targets = Expected(y)]
    BY <1>2 DEF Repaired
  <2>2. MaxOf(y.round, 2) = 2 /\ y.round = 2
    BY <1>2 DEF CycleTrue, MaxOf
  <2>3. Expected(y) \subseteq Cases
    BY DiscussionAssumption DEF Expected, Cycles
  <2> QED
    BY <1>2, <2>1, <2>2, <2>3, DiscussionAssumption DEF CycleTrue, Cycles, States, Done, Final
<1>3. CASE y.state = "round_summarized" /\ y.round >= 3 /\ ~RoundComplete(y, y.round, f)
  <2>1. Repaired(y, f) = [y EXCEPT !.state = "round_running"]
    BY <1>3, DiscussionAssumption DEF Repaired, RunningState, Cycles
  <2> QED
    BY <1>3, <2>1 DEF CycleTrue, Cycles, States, Done, Final
<1>4. CASE /\ ~(y.state = "round_1_summarized" /\ ~Round1Complete(f))
           /\ ~(y.state = "final_review_ready" /\ ~RoundComplete(y, 2, f))
           /\ ~(y.state = "round_summarized" /\ y.round >= 3 /\ ~RoundComplete(y, y.round, f))
  <2>1. Repaired(y, f) = y
    BY <1>4 DEF Repaired
  <2> QED
    BY <2>1
<1> QED
  BY <1>1, <1>2, <1>3, <1>4

\* A round is completed only with everything given.
LEMMA CompletedTrue ==
  ASSUME NEW y, NEW f, NEW given, CycleTrue(y, given), FileTrue(f, given)
  PROVE  CycleTrue(Completed(y, f), given)
<1> y \in Cycles
  BY DEF CycleTrue
<1>1. CASE y.state = "round_1_running" /\ Round1Complete(f)
  <2>1. Completed(y, f) = [y EXCEPT !.state = "round_1_summarized"]
    BY <1>1 DEF Completed, DoneState
  <2> QED
    BY <1>1, <2>1 DEF CycleTrue, Cycles, States, Done, Final
<1>2. CASE y.state = "round_2_running" /\ RoundComplete(y, 2, f)
  <2> DEFINE z == [y EXCEPT !.state = "final_review_ready"]
  <2>1. Completed(y, f) = z
    BY <1>2 DEF Completed, DoneState
  <2>2. y.round = 2 /\ 2 \in Rounds
    BY <1>2, DiscussionAssumption DEF CycleTrue, Cycles, Rounds
  <2>3. \A c \in Expected(y), a \in Agents : <<c, a, 2>> \in given
    BY <1>2, <2>2, CompleteGiven
  <2>4. z \in Cycles /\ z.state = "final_review_ready" /\ z.round = 2 /\ Expected(z) = Expected(y)
    BY <2>2 DEF Cycles, States, Expected
  <2> QED
    BY <2>1, <2>3, <2>4 DEF CycleTrue
<1>3. CASE y.state = "round_running" /\ y.round >= 3 /\ RoundComplete(y, y.round, f)
  <2> DEFINE z == [y EXCEPT !.state = "round_summarized"]
  <2>1. Completed(y, f) = z
    BY <1>3 DEF Completed, DoneState, Cycles
  <2>2. y.round \in Rounds
    BY <1>3, DiscussionAssumption DEF CycleTrue, Cycles, Rounds
  <2>3. \A c \in Expected(y), a \in Agents : <<c, a, y.round>> \in given
    BY <1>3, <2>2, CompleteGiven
  <2>4. z \in Cycles /\ z.state = "round_summarized" /\ z.round = y.round /\ Expected(z) = Expected(y)
    BY DEF Cycles, States, Expected
  <2> QED
    BY <2>1, <2>3, <2>4 DEF CycleTrue
<1>4. CASE /\ ~(y.state = "round_1_running" /\ Round1Complete(f))
           /\ ~(y.state = "round_2_running" /\ RoundComplete(y, 2, f))
           /\ ~(y.state = "round_running" /\ y.round >= 3 /\ RoundComplete(y, y.round, f))
  <2>1. Completed(y, f) = y
    BY <1>4 DEF Completed
  <2> QED
    BY <2>1
<1> QED
  BY <1>1, <1>2, <1>3, <1>4

\* A refresh keeps the cycle true.
LEMMA RefreshedTrue ==
  ASSUME NEW y, NEW f, NEW given, CycleTrue(y, given), FileTrue(f, given)
  PROVE  CycleTrue(Refreshed(y, f), given)
<1> DEFINE y1 == Begun(y, f)
           y2 == Repaired(y1, f)
           y3 == Completed(y2, f)
<1>0. f.marked \subseteq Cases /\ 1 \in 0..MaxRounds
  BY DiscussionAssumption DEF FileTrue
<1>1. CycleTrue(y1, given)
  BY <1>0, StartingTrue DEF Begun
<1>2. CycleTrue(y2, given)
  BY <1>1, RepairedTrue
<1>3. CycleTrue(y3, given)
  BY <1>2, CompletedTrue
<1>4. CycleTrue(Continued(y3, f), given)
  <2>1. CASE GoesOn(y3, f)
    <3>1. y3.round + 1 \in 0..MaxRounds
      BY <1>3, <2>1, DiscussionAssumption DEF GoesOn, CycleTrue, Cycles
    <3>2. CycleTrue(Starting(y3, y3.round + 1, f), given)
      BY <1>0, <1>3, <3>1, StartingTrue
    <3> QED
      BY <2>1, <3>2 DEF Continued
  <2>2. CASE ~GoesOn(y3, f)
    BY <1>3, <2>2 DEF Continued
  <2> QED
    BY <2>1, <2>2
<1> QED
  BY <1>4 DEF Refreshed

-----------------------------------------------------------------------------
(* The steps of a handler. *)

\* A handler that goes on with true copies keeps every handler true.
LEMMA GoOnTrue ==
  ASSUME IInv, NEW p \in Processes, NEW here, HandlerTrue(here, answered), GoOn(p, here)
  PROVE  /\ at' = [q \in Processes |-> at'[q]]
         /\ \A q \in Processes : HandlerTrue(at'[q], answered)
<1>1. HandlerTrue([here EXCEPT !.todo = Tail(here.todo)], answered)
  BY DEF HandlerTrue
<1> QED
  BY <1>1, IdleTrue DEF GoOn, IInv

\* A handler that begins holds true copies.
LEMMA BeginTrue ==
  ASSUME IInv, NEW p \in Processes, NEW handler, NEW opinion, NEW round \in 0..MaxRounds,
         Begin(p, handler, opinion, round)
  PROVE  IInv'
<1> DEFINE here == [Idle EXCEPT !.todo = Steps[handler], !.opinion = opinion, !.round = round]
<1>1. HandlerTrue(here, answered)
  BY IdleTrue DEF HandlerTrue, Idle
<1>2. /\ at' = [at EXCEPT ![p] = here]
      /\ UNCHANGED <<file, cycle, answered>>
  BY DEF Begin
<1>3. /\ at' = [q \in Processes |-> at'[q]]
      /\ \A q \in Processes : HandlerTrue(at'[q], answered)
  BY <1>1, <1>2 DEF IInv
<1> QED
  BY <1>2, <1>3 DEF IInv

\* The opinion recorded is given with the words it leaves in the file.
LEMMA RecordTrue ==
  ASSUME NEW f, NEW o, NEW given, NEW more, FileTrue(f, given),
         more = IF o.full THEN given \cup {<<c, o.agent, o.round>> : c \in o.on} ELSE given
  PROVE  FileTrue(WithOpinion(f, o), more)
<1> DEFINE g == WithOpinion(f, o)
<1>1. DOMAIN g = {"said", "raised", "withheld", "marked"} /\ g.marked = f.marked
  BY DEF FileTrue, WithOpinion
<1>2. ASSUME NEW c \in Cases, NEW a \in Agents, NEW r \in Rounds, g.said[c][a][r] = "full"
      PROVE  <<c, a, r>> \in more
  <2>1. g.said[c][a][r] = IF c \in o.on /\ a = o.agent /\ r = o.round
                          THEN IF o.full THEN "full" ELSE "thin"
                          ELSE f.said[c][a][r]
    BY DEF FileTrue, WithOpinion
  <2>2. CASE c \in o.on /\ a = o.agent /\ r = o.round
    BY <1>2, <2>1, <2>2
  <2>3. CASE ~(c \in o.on /\ a = o.agent /\ r = o.round)
    BY <1>2, <2>1, <2>3 DEF FileTrue
  <2> QED
    BY <2>2, <2>3
<1> QED
  BY <1>1, <1>2 DEF FileTrue

\* Every step of a handler keeps every copy true.
LEMMA StepTrue ==
  ASSUME IInv, NEW p \in Processes, Step(p)
  PROVE  IInv'
<1> USE DEF IInv
<1>0. HandlerTrue(at[p], answered) /\ at[p].round \in 0..MaxRounds
  BY DEF HandlerTrue
<1>1. CASE ReadCases(p)
  <2> DEFINE here == [at[p] EXCEPT !.cases = file]
  <2>1. HandlerTrue(here, answered)
    BY <1>0 DEF HandlerTrue
  <2>2. GoOn(p, here) /\ UNCHANGED <<file, cycle, answered>>
    BY <1>1 DEF ReadCases
  <2> HIDE DEF here
  <2> QED
    BY <2>1, <2>2, GoOnTrue
<1>2. CASE Record(p)
  <2> DEFINE o == at[p].opinion
             here == [at[p] EXCEPT !.cases = NoOpinions]
  <2>1. /\ file' = WithOpinion(at[p].cases, o)
        /\ answered' = IF o.full THEN answered \cup {<<c, o.agent, o.round>> : c \in o.on} ELSE answered
        /\ GoOn(p, here)
        /\ UNCHANGED cycle
    BY <1>2 DEF Record
  <2>2. FileTrue(file', answered')
    <3>1. FileTrue(at[p].cases, answered)
      BY <1>0 DEF HandlerTrue
    <3> QED
      BY <2>1, <3>1, RecordTrue
  <2>3. answered \subseteq answered'
    BY <2>1
  <2>4. HandlerTrue(here, answered)
    BY <1>0, EmptyTrue DEF HandlerTrue
  <2> HIDE DEF here, o
  <2>5. /\ at' = [q \in Processes |-> at'[q]]
        /\ \A q \in Processes : HandlerTrue(at'[q], answered)
    BY <2>1, <2>4, GoOnTrue
  <2>6. CycleTrue(cycle', answered')
    BY <2>1, <2>3, Monotone
  <2>7. \A q \in Processes : HandlerTrue(at'[q], answered')
    BY <2>3, <2>5, Monotone
  <2> QED
    BY <2>2, <2>5, <2>6, <2>7
<1>3. CASE Rebuild(p)
  <2> DEFINE here == [at[p] EXCEPT !.cases = NoOpinions, !.opinion = None]
  <2>1. FileTrue(file', answered)
    BY <1>0, <1>3 DEF Rebuild, HandlerTrue, FileTrue
  <2>2. HandlerTrue(here, answered)
    BY <1>0, EmptyTrue DEF HandlerTrue
  <2>3. GoOn(p, here) /\ UNCHANGED <<cycle, answered>>
    BY <1>3 DEF Rebuild
  <2> HIDE DEF here
  <2> QED
    BY <2>1, <2>2, <2>3, GoOnTrue
<1>4. CASE ReadCycle(p)
  <2> DEFINE here == [at[p] EXCEPT !.cycle = cycle]
  <2>1. HandlerTrue(here, answered)
    BY <1>0 DEF HandlerTrue
  <2>2. GoOn(p, here) /\ UNCHANGED <<file, cycle, answered>>
    BY <1>4 DEF ReadCycle
  <2> HIDE DEF here
  <2> QED
    BY <2>1, <2>2, GoOnTrue
<1>5. CASE RefreshCycle(p)
  <2> DEFINE here == [at[p] EXCEPT !.cycle = Refreshed(at[p].cycle, file), !.needs = NeedsRound2(file)]
  <2>1. CycleTrue(Refreshed(at[p].cycle, file), answered)
    BY <1>0, RefreshedTrue DEF HandlerTrue
  <2>2. HandlerTrue(here, answered)
    BY <1>0, <2>1 DEF HandlerTrue
  <2>3. GoOn(p, here) /\ UNCHANGED <<file, cycle, answered>>
    BY <1>5 DEF RefreshCycle
  <2> HIDE DEF here
  <2> QED
    BY <2>2, <2>3, GoOnTrue
<1>6. CASE StartCycle(p)
  <2> DEFINE here == [at[p] EXCEPT !.cycle = Starting(at[p].cycle, at[p].round, file)]
  <2>1. CycleTrue(Starting(at[p].cycle, at[p].round, file), answered)
    BY <1>0, StartingTrue DEF HandlerTrue, FileTrue
  <2>2. HandlerTrue(here, answered)
    BY <1>0, <2>1 DEF HandlerTrue
  <2>3. GoOn(p, here) /\ UNCHANGED <<file, cycle, answered>>
    BY <1>6 DEF StartCycle
  <2> HIDE DEF here
  <2> QED
    BY <2>2, <2>3, GoOnTrue
<1>7. CASE Confirm(p)
  <2> DEFINE here == [at[p] EXCEPT !.cycle = NewCycle, !.needs = FALSE]
  <2>1. HandlerTrue(here, answered)
    BY <1>0, NewTrue DEF HandlerTrue
  <2>2. /\ GoOn(p, here) \/ at' = [at EXCEPT ![p] = Idle]
        /\ UNCHANGED <<file, cycle, answered>>
    BY <1>7 DEF Confirm
  <2> HIDE DEF here
  <2>3. CASE GoOn(p, here)
    BY <2>1, <2>2, <2>3, GoOnTrue
  <2>4. CASE at' = [at EXCEPT ![p] = Idle]
    BY <2>2, <2>4, IdleTrue
  <2> QED
    BY <2>2, <2>3, <2>4
<1>8. CASE Conclude(p)
  <2>1. PICK outcome \in Final :
          GoOn(p, IF CanFinalize(at[p].cycle, at[p].needs)
                  THEN [at[p] EXCEPT !.cycle.state = outcome] ELSE at[p])
    BY <1>8 DEF Conclude
  <2> DEFINE ended == [at[p] EXCEPT !.cycle.state = outcome]
  <2>2. ASSUME CanFinalize(at[p].cycle, at[p].needs)
        PROVE  HandlerTrue(ended, answered)
    <3> DEFINE y == at[p].cycle
               z == [y EXCEPT !.state = outcome]
    <3>1. CycleTrue(y, answered)
      BY <1>0 DEF HandlerTrue
    <3>2. y.state \in Done \/ y.state = "round_1_summarized"
      BY <2>2 DEF CanFinalize, Done
    <3>3. z \in Cycles /\ z.state = outcome /\ z.round = y.round /\ Expected(z) = Expected(y)
      BY <3>1 DEF CycleTrue, Cycles, States, Expected, Final
    <3>4. y.round >= 2 => \A c \in Expected(y), a \in Agents : <<c, a, y.round>> \in answered
      BY <3>1, <3>2 DEF CycleTrue
    <3>5. CycleTrue(z, answered)
      BY <3>3, <3>4 DEF CycleTrue, Final
    <3>6. /\ DOMAIN ended = {"todo", "cycle", "cases", "opinion", "round", "needs"}
          /\ ended.cycle = z /\ ended.cases = at[p].cases /\ ended.round = at[p].round
      BY <1>0 DEF HandlerTrue
    <3> QED
      BY <1>0, <3>5, <3>6 DEF HandlerTrue
  <2> HIDE DEF ended
  <2>3. UNCHANGED <<file, cycle, answered>>
    BY <1>8 DEF Conclude
  <2>4. CASE CanFinalize(at[p].cycle, at[p].needs)
    <3>1. GoOn(p, ended)
      BY <2>1, <2>4 DEF ended
    <3> QED
      BY <2>2, <2>3, <2>4, <3>1, GoOnTrue
  <2>5. CASE ~CanFinalize(at[p].cycle, at[p].needs)
    <3>1. GoOn(p, at[p])
      BY <2>1, <2>5
    <3> QED
      BY <1>0, <2>3, <3>1, GoOnTrue
  <2> QED
    BY <2>4, <2>5
<1>9. CASE WriteCycle(p)
  <2>1. cycle' = at[p].cycle /\ GoOn(p, at[p]) /\ UNCHANGED <<file, answered>>
    BY <1>9 DEF WriteCycle
  <2>2. CycleTrue(cycle', answered)
    BY <1>0, <2>1 DEF HandlerTrue
  <2> QED
    BY <1>0, <2>1, <2>2, GoOnTrue
<1> QED
  BY <1>1, <1>2, <1>3, <1>4, <1>5, <1>6, <1>7, <1>8, <1>9 DEF Step

-----------------------------------------------------------------------------
\* The invariant holds at the start.
LEMMA InitTrue == Init => IInv
  BY EmptyTrue, NewTrue, IdleTrue DEF Init, IInv

\* Every action keeps it.
LEMMA NextTrue == IInv /\ [Next]_vars => IInv'
<1> SUFFICES ASSUME IInv, [Next]_vars PROVE IInv'
  OBVIOUS
<1>0. 0 \in 0..MaxRounds /\ Rounds \subseteq 0..MaxRounds
  BY DiscussionAssumption DEF Rounds
<1>1. ASSUME NEW p \in Processes, Opine(p)
      PROVE  IInv'
  BY <1>0, <1>1, BeginTrue DEF Opine
<1>2. ASSUME NEW p \in Processes, Exit(p)
      PROVE  IInv'
  BY <1>0, <1>2, BeginTrue DEF Exit
<1>3. ASSUME NEW p \in Processes, Refresh(p) \/ Finalize(p)
      PROVE  IInv'
  BY <1>0, <1>3, BeginTrue DEF Refresh, Finalize
<1>4. ASSUME NEW p \in Processes, StartRound(p)
      PROVE  IInv'
  BY <1>0, <1>4, BeginTrue DEF StartRound
<1>5. ASSUME NEW p \in Processes, Step(p)
      PROVE  IInv'
  BY <1>5, StepTrue
<1>6. CASE UNCHANGED vars
  BY <1>6 DEF vars, IInv
<1> QED
  BY <1>1, <1>2, <1>3, <1>4, <1>5, <1>6 DEF Next

\* "A case whose challenges are not answered cannot become finalize ready",
\* for any agents, cases, rounds and number of processes that write old copies
\* of either file back.
THEOREM AnsweredBeforeTheEnd == DiscussionSpec => []LastRoundAnswered
<1>1. IInv => LastRoundAnswered
  BY DEF IInv, CycleTrue, LastRoundAnswered, Done
<1> QED
  BY <1>1, InitTrue, NextTrue, PTL DEF DiscussionSpec

-----------------------------------------------------------------------------
(* The first round.  It is complete by a count of cases, and the count is   *)
(* that of the focus pool only while nothing outside it is complete: the    *)
(* agents write about the pool, and a fast-track exit is the risk agent's   *)
(* alone.                                                                   *)

\* Every word of the first round in a copy of the cases was given, and outside
\* the focus pool only the risk agent has spoken.
SaidTrue(f, given) ==
  \A c \in Cases, a \in Agents : f.said[c][a][1] # "nothing" =>
    <<c, a, 1>> \in given /\ (a # Risk => c \in Focus)

Heard(given) == \A c \in Focus, a \in Agents : <<c, a, 1>> \in given

\* A copy of the cycle that ends with its first round is right, and a later
\* round is not the first.
EndTrue(y, given) ==
  /\ y.state \in Final \cup {"round_1_summarized"} /\ y.round = 1 => Heard(given)
  /\ y.state \in {"round_running", "round_summarized"} => y.round # 1

\* An opinion about to be recorded has substance in the first round and is about
\* the focus pool.
OpinionTrue(o) ==
  /\ o.round = 1 => o.full
  /\ o.agent # Risk => o.on \subseteq Focus

StepNames == {"readCases", "record", "rebuild", "readCycle", "refresh", "start",
              "confirm", "conclude", "writeCycle"}

\* A handler records its opinion before it rebuilds the cases and forgets it.
ToRecord(todo) == \E i \in 1..Len(todo) : todo[i] = "record"
RecordFirst(todo) ==
  /\ todo \in Seq(StepNames)
  /\ \A i, j \in 1..Len(todo) : todo[i] = "rebuild" /\ todo[j] = "record" => j < i

HandlerHeard(h, given) ==
  /\ SaidTrue(h.cases, given)
  /\ EndTrue(h.cycle, given)
  /\ RecordFirst(h.todo)
  /\ ToRecord(h.todo) => OpinionTrue(h.opinion)

HeardInv ==
  /\ SaidTrue(file, answered)
  /\ EndTrue(cycle, answered)
  /\ \A p \in Processes : HandlerHeard(at[p], answered)

\* Every copy stays true when more is given.
LEMMA HeardMonotone ==
  ASSUME NEW given, NEW more, given \subseteq more
  PROVE  /\ \A f : SaidTrue(f, given) => SaidTrue(f, more)
         /\ \A y : EndTrue(y, given) => EndTrue(y, more)
         /\ \A h : HandlerHeard(h, given) => HandlerHeard(h, more)
<1>1. \A f : SaidTrue(f, given) => SaidTrue(f, more)
  BY DEF SaidTrue
<1>2. \A y : EndTrue(y, given) => EndTrue(y, more)
  BY DEF EndTrue, Heard
<1>3. \A h : HandlerHeard(h, given) => HandlerHeard(h, more)
  BY <1>1, <1>2 DEF HandlerHeard
<1> QED
  BY <1>1, <1>2, <1>3

\* The file of cases before any opinion, and a new cycle, are true.
LEMMA NothingHeard ==
  \A given : SaidTrue(NoOpinions, given) /\ EndTrue(NewCycle, given) /\ HandlerHeard(Idle, given)
<1>1. \A given : SaidTrue(NoOpinions, given) /\ EndTrue(NewCycle, given)
  BY DiscussionAssumption DEF SaidTrue, NoOpinions, EndTrue, NewCycle, Final, Rounds
<1>2. Idle.todo = <<>> /\ Idle.cases = NoOpinions /\ Idle.cycle = NewCycle
  BY DEF Idle
<1>3. RecordFirst(<<>>) /\ ~ToRecord(<<>>)
  BY DEF RecordFirst, ToRecord
<1> QED
  BY <1>1, <1>2, <1>3 DEF HandlerHeard

\* A first round complete by the count has heard everybody on the focus pool.
LEMMA CountedIsHeard ==
  ASSUME NEW f, NEW given, SaidTrue(f, given), Round1Complete(f)
  PROVE  Heard(given)
<1> DEFINE S == {c \in Cases : Covered(f, c)}
<1>1. \A c \in S : c \in Focus
  BY DiscussionAssumption DEF Covered, SaidTrue
<1>2. IsFiniteSet(Focus) /\ Focus \subseteq Cases
  BY DiscussionAssumption, FS_Subset
<1>3. Cardinality(S) >= Cardinality(Focus)
  BY DEF Round1Complete
<1> HIDE DEF S
<1>4. /\ S \in SUBSET Focus /\ IsFiniteSet(S) /\ Cardinality(S) <= Cardinality(Focus)
      /\ Cardinality(Focus) = Cardinality(S) => Focus = S
  BY <1>1, <1>2, FS_Subset
<1>5. Cardinality(S) \in Nat /\ Cardinality(Focus) \in Nat
  BY <1>2, <1>4, FS_CardinalityType
<1>6. Focus = S
  BY <1>3, <1>4, <1>5
<1> QED
  BY <1>2, <1>6 DEF S, Covered, SaidTrue, Heard

\* A refresh keeps the cycle true.
LEMMA RefreshedHeard ==
  ASSUME NEW y, NEW f, NEW given, CycleTrue(y, given), FileTrue(f, given),
         EndTrue(y, given), SaidTrue(f, given)
  PROVE  EndTrue(Refreshed(y, f), given)
<1> DEFINE y1 == Begun(y, f)
           y2 == Repaired(y1, f)
           y3 == Completed(y2, f)
<1>0. f.marked \subseteq Cases /\ 1 \in 0..MaxRounds
  BY DiscussionAssumption DEF FileTrue
<1>1. ASSUME NEW z, NEW n \in Int, CycleTrue(z, given)
      PROVE  EndTrue(Starting(z, n, f), given)
  BY <1>1 DEF EndTrue, Starting, RunningState, CycleTrue, Cycles, Final
<1>2. CycleTrue(y1, given) /\ EndTrue(y1, given)
  BY <1>0, <1>1, StartingTrue DEF Begun
<1>3. CycleTrue(y2, given)
  BY <1>2, RepairedTrue
<1> HIDE DEF y1
<1>4. EndTrue(y2, given)
  BY <1>2 DEF EndTrue, Repaired, RunningState, MaxOf, CycleTrue, Cycles, Final
<1>5. CycleTrue(y3, given)
  BY <1>3, CompletedTrue
<1> HIDE DEF y2
<1>6. EndTrue(y3, given)
  BY <1>3, <1>4, CountedIsHeard DEF EndTrue, Completed, DoneState, CycleTrue, Cycles, Final
<1> HIDE DEF y3
<1>7. y3.round + 1 \in Int
  BY <1>5 DEF CycleTrue, Cycles
<1>8. EndTrue(Continued(y3, f), given)
  BY <1>1, <1>5, <1>6, <1>7 DEF Continued
<1> QED
  BY <1>8 DEF Refreshed, y1, y2, y3

\* What remains of a list of steps is in their order.
LEMMA RestOfSteps ==
  ASSUME NEW todo, RecordFirst(todo), todo # <<>>
  PROVE  /\ RecordFirst(Tail(todo))
         /\ ToRecord(Tail(todo)) => ToRecord(todo)
         /\ Head(todo) = "rebuild" => ~ToRecord(Tail(todo))
         /\ Head(todo) = "record" => ToRecord(todo)
<1>1. /\ todo \in Seq(StepNames) /\ Tail(todo) \in Seq(StepNames) /\ Len(todo) \in Nat \ {0}
      /\ Len(Tail(todo)) = Len(todo) - 1 /\ Head(todo) = todo[1]
      /\ \A i \in 1..Len(Tail(todo)) : Tail(todo)[i] = todo[i + 1]
  BY DEF RecordFirst
<1>2. \A i \in 1..Len(Tail(todo)) : i + 1 \in 1..Len(todo)
  BY <1>1
<1>3. ToRecord(Tail(todo)) => ToRecord(todo)
  BY <1>1, <1>2 DEF ToRecord
<1>4. Head(todo) = "rebuild" => ~ToRecord(Tail(todo))
  BY <1>1, <1>2 DEF ToRecord, RecordFirst
<1>5. Head(todo) = "record" => ToRecord(todo)
  BY <1>1 DEF ToRecord
<1>6. RecordFirst(Tail(todo))
  BY <1>1, <1>2 DEF RecordFirst
<1> QED
  BY <1>3, <1>4, <1>5, <1>6

\* A handler that goes on with true copies keeps every handler true.
LEMMA GoOnHeard ==
  ASSUME IInv, HeardInv, NEW p \in Processes, NEW here, GoOn(p, here), at[p].todo # <<>>,
         DOMAIN here = DOMAIN at[p], here.todo = at[p].todo,
         SaidTrue(here.cases, answered), EndTrue(here.cycle, answered),
         here.opinion = at[p].opinion \/ Head(at[p].todo) = "rebuild"
  PROVE  \A q \in Processes : HandlerHeard(at'[q], answered)
<1> DEFINE next == [here EXCEPT !.todo = Tail(here.todo)]
<1>1. DOMAIN here = {"todo", "cycle", "cases", "opinion", "round", "needs"}
  BY DEF IInv, HandlerTrue
<1>2. /\ next.todo = Tail(at[p].todo) /\ next.cases = here.cases /\ next.cycle = here.cycle
      /\ next.opinion = here.opinion
  BY <1>1
<1>3. RecordFirst(at[p].todo) /\ (ToRecord(at[p].todo) => OpinionTrue(at[p].opinion))
  BY DEF HeardInv, HandlerHeard
<1>4. RecordFirst(next.todo) /\ (ToRecord(next.todo) => OpinionTrue(next.opinion))
  BY <1>2, <1>3, RestOfSteps
<1>5. HandlerHeard(next, answered)
  BY <1>2, <1>4 DEF HandlerHeard
<1> HIDE DEF next
<1>6. at' = [at EXCEPT ![p] = Idle] \/ at' = [at EXCEPT ![p] = next]
  BY DEF GoOn, next
<1> QED
  BY <1>5, <1>6, NothingHeard DEF HeardInv, IInv

\* An opinion of true handling leaves true words.
LEMMA RecordHeard ==
  ASSUME NEW f, NEW o, NEW given, NEW more, FileTrue(f, given), SaidTrue(f, given), OpinionTrue(o),
         more = IF o.full THEN given \cup {<<c, o.agent, o.round>> : c \in o.on} ELSE given
  PROVE  SaidTrue(WithOpinion(f, o), more)
<1> DEFINE g == WithOpinion(f, o)
<1>1. SUFFICES ASSUME NEW c \in Cases, NEW a \in Agents, g.said[c][a][1] # "nothing"
               PROVE  <<c, a, 1>> \in more /\ (a # Risk => c \in Focus)
  BY DEF SaidTrue
<1>2. 1 \in Rounds
  BY DiscussionAssumption DEF Rounds
<1>3. g.said[c][a][1] = IF c \in o.on /\ a = o.agent /\ 1 = o.round
                        THEN IF o.full THEN "full" ELSE "thin"
                        ELSE f.said[c][a][1]
  BY <1>2 DEF FileTrue, WithOpinion
<1>4. CASE c \in o.on /\ a = o.agent /\ 1 = o.round
  BY <1>4 DEF OpinionTrue
<1>5. CASE ~(c \in o.on /\ a = o.agent /\ 1 = o.round)
  BY <1>1, <1>3, <1>5 DEF SaidTrue
<1> QED
  BY <1>4, <1>5

\* Every step of a handler keeps every copy true.
LEMMA StepHeard ==
  ASSUME IInv, HeardInv, NEW p \in Processes, Step(p)
  PROVE  HeardInv'
<1>0. /\ SaidTrue(file, answered) /\ EndTrue(cycle, answered)
      /\ HandlerHeard(at[p], answered) /\ HandlerTrue(at[p], answered)
      /\ FileTrue(file, answered) /\ CycleTrue(at[p].cycle, answered) /\ FileTrue(at[p].cases, answered)
      /\ SaidTrue(at[p].cases, answered) /\ EndTrue(at[p].cycle, answered)
      /\ DOMAIN at[p] = {"todo", "cycle", "cases", "opinion", "round", "needs"}
  BY DEF HeardInv, HandlerHeard, IInv, HandlerTrue
<1>1. CASE ReadCases(p)
  <2> DEFINE here == [at[p] EXCEPT !.cases = file]
  <2>1. GoOn(p, here) /\ at[p].todo # <<>> /\ UNCHANGED <<file, cycle, answered>>
    BY <1>1 DEF ReadCases, At
  <2>2. /\ DOMAIN here = DOMAIN at[p] /\ here.todo = at[p].todo /\ here.opinion = at[p].opinion
        /\ here.cases = file /\ here.cycle = at[p].cycle
    BY <1>0
  <2> HIDE DEF here
  <2> QED
    BY <1>0, <2>1, <2>2, GoOnHeard DEF HeardInv
<1>2. CASE Record(p)
  <2> DEFINE o == at[p].opinion
             here == [at[p] EXCEPT !.cases = NoOpinions]
  <2>1. /\ file' = WithOpinion(at[p].cases, o)
        /\ answered' = IF o.full THEN answered \cup {<<c, o.agent, o.round>> : c \in o.on} ELSE answered
        /\ GoOn(p, here) /\ at[p].todo # <<>> /\ Head(at[p].todo) = "record"
        /\ UNCHANGED cycle
    BY <1>2 DEF Record, At
  <2>2. OpinionTrue(o)
    BY <1>0, <2>1, RestOfSteps DEF HandlerHeard
  <2>3. SaidTrue(file', answered')
    BY <1>0, <2>1, <2>2, RecordHeard
  <2>4. answered \subseteq answered'
    BY <2>1
  <2>5. /\ DOMAIN here = DOMAIN at[p] /\ here.todo = at[p].todo /\ here.opinion = at[p].opinion
        /\ here.cases = NoOpinions /\ here.cycle = at[p].cycle
    BY <1>0
  <2> HIDE DEF here, o
  <2>6. \A q \in Processes : HandlerHeard(at'[q], answered)
    BY <1>0, <2>1, <2>5, NothingHeard, GoOnHeard
  <2>7. EndTrue(cycle', answered') /\ \A q \in Processes : HandlerHeard(at'[q], answered')
    BY <1>0, <2>1, <2>4, <2>6, HeardMonotone
  <2> QED
    BY <2>3, <2>7 DEF HeardInv
<1>3. CASE Rebuild(p)
  <2> DEFINE here == [at[p] EXCEPT !.cases = NoOpinions, !.opinion = None]
  <2>1. /\ GoOn(p, here) /\ at[p].todo # <<>> /\ Head(at[p].todo) = "rebuild"
        /\ UNCHANGED <<cycle, answered>>
    BY <1>3 DEF Rebuild, At
  <2>2. SaidTrue(file', answered)
    BY <1>0, <1>3 DEF Rebuild, FileTrue, SaidTrue
  <2>3. /\ DOMAIN here = DOMAIN at[p] /\ here.todo = at[p].todo
        /\ here.cases = NoOpinions /\ here.cycle = at[p].cycle
    BY <1>0
  <2> HIDE DEF here
  <2> QED
    BY <1>0, <2>1, <2>2, <2>3, NothingHeard, GoOnHeard DEF HeardInv
<1>4. CASE ReadCycle(p)
  <2> DEFINE here == [at[p] EXCEPT !.cycle = cycle]
  <2>1. GoOn(p, here) /\ at[p].todo # <<>> /\ UNCHANGED <<file, cycle, answered>>
    BY <1>4 DEF ReadCycle, At
  <2>2. /\ DOMAIN here = DOMAIN at[p] /\ here.todo = at[p].todo /\ here.opinion = at[p].opinion
        /\ here.cases = at[p].cases /\ here.cycle = cycle
    BY <1>0
  <2> HIDE DEF here
  <2> QED
    BY <1>0, <2>1, <2>2, GoOnHeard DEF HeardInv
<1>5. CASE RefreshCycle(p)
  <2> DEFINE here == [at[p] EXCEPT !.cycle = Refreshed(at[p].cycle, file), !.needs = NeedsRound2(file)]
  <2>1. GoOn(p, here) /\ at[p].todo # <<>> /\ UNCHANGED <<file, cycle, answered>>
    BY <1>5 DEF RefreshCycle, At
  <2>2. /\ DOMAIN here = DOMAIN at[p] /\ here.todo = at[p].todo /\ here.opinion = at[p].opinion
        /\ here.cases = at[p].cases /\ here.cycle = Refreshed(at[p].cycle, file)
    BY <1>0
  <2>3. EndTrue(Refreshed(at[p].cycle, file), answered)
    BY <1>0, RefreshedHeard
  <2> HIDE DEF here
  <2> QED
    BY <1>0, <2>1, <2>2, <2>3, GoOnHeard DEF HeardInv
<1>6. CASE StartCycle(p)
  <2> DEFINE z == Starting(at[p].cycle, at[p].round, file)
             here == [at[p] EXCEPT !.cycle = z]
  <2>1. GoOn(p, here) /\ at[p].todo # <<>> /\ UNCHANGED <<file, cycle, answered>>
    BY <1>6 DEF StartCycle, At
  <2>2. /\ DOMAIN here = DOMAIN at[p] /\ here.todo = at[p].todo /\ here.opinion = at[p].opinion
        /\ here.cases = at[p].cases /\ here.cycle = z
    BY <1>0
  <2>3. EndTrue(z, answered)
    <3>1. z.state = RunningState(at[p].round) /\ z.round = at[p].round
      BY <1>0 DEF Starting, CycleTrue, Cycles
    <3> HIDE DEF z
    <3> QED
      BY <3>1 DEF EndTrue, RunningState, Final
  <2> HIDE DEF here, z
  <2> QED
    BY <1>0, <2>1, <2>2, <2>3, GoOnHeard DEF HeardInv
<1>7. CASE Confirm(p)
  <2> DEFINE here == [at[p] EXCEPT !.cycle = NewCycle, !.needs = FALSE]
  <2>1. /\ GoOn(p, here) \/ at' = [at EXCEPT ![p] = Idle]
        /\ at[p].todo # <<>> /\ UNCHANGED <<file, cycle, answered>>
    BY <1>7 DEF Confirm, At
  <2>2. /\ DOMAIN here = DOMAIN at[p] /\ here.todo = at[p].todo /\ here.opinion = at[p].opinion
        /\ here.cases = at[p].cases /\ here.cycle = NewCycle
    BY <1>0
  <2> HIDE DEF here
  <2>3. CASE GoOn(p, here)
    BY <1>0, <2>1, <2>2, <2>3, NothingHeard, GoOnHeard DEF HeardInv
  <2>4. CASE at' = [at EXCEPT ![p] = Idle]
    BY <2>1, <2>4, NothingHeard DEF HeardInv, IInv
  <2> QED
    BY <2>1, <2>3, <2>4
<1>8. CASE Conclude(p)
  <2> DEFINE y == at[p].cycle
  <2>1. PICK outcome \in Final :
          GoOn(p, IF CanFinalize(y, at[p].needs) THEN [at[p] EXCEPT !.cycle.state = outcome] ELSE at[p])
    BY <1>8 DEF Conclude
  <2>2. at[p].todo # <<>> /\ UNCHANGED <<file, cycle, answered>>
    BY <1>8 DEF Conclude, At
  <2> DEFINE ended == [at[p] EXCEPT !.cycle.state = outcome]
             z == [y EXCEPT !.state = outcome]
  <2>3. CASE CanFinalize(y, at[p].needs)
    <3>1. /\ DOMAIN ended = DOMAIN at[p] /\ ended.todo = at[p].todo /\ ended.opinion = at[p].opinion
          /\ ended.cases = at[p].cases /\ ended.cycle = z
      BY <1>0
    <3>2. z.state = outcome /\ z.round = y.round
      BY <1>0 DEF CycleTrue, Cycles
    <3>3. y.round = 1 => y.state \in Final \cup {"round_1_summarized"}
      BY <1>0, <2>3 DEF CanFinalize, EndTrue, CycleTrue
    <3>4. GoOn(p, ended)
      BY <2>1, <2>3
    <3> HIDE DEF ended, z
    <3>5. EndTrue(z, answered)
      BY <1>0, <2>1, <3>2, <3>3 DEF EndTrue, Final
    <3> QED
      BY <1>0, <2>2, <3>1, <3>4, <3>5, GoOnHeard DEF HeardInv
  <2>4. CASE ~CanFinalize(y, at[p].needs)
    <3>1. GoOn(p, at[p])
      BY <2>1, <2>4
    <3> QED
      BY <1>0, <2>2, <3>1, GoOnHeard DEF HeardInv
  <2> QED
    BY <2>3, <2>4
<1>9. CASE WriteCycle(p)
  <2>1. cycle' = at[p].cycle /\ GoOn(p, at[p]) /\ at[p].todo # <<>> /\ UNCHANGED <<file, answered>>
    BY <1>9 DEF WriteCycle, At
  <2> QED
    BY <1>0, <2>1, GoOnHeard DEF HeardInv
<1> QED
  BY <1>1, <1>2, <1>3, <1>4, <1>5, <1>6, <1>7, <1>8, <1>9 DEF Step

\* The steps of every handler record before they rebuild.
LEMMA StepsInOrder ==
  /\ \A h \in AllHandlers : RecordFirst(Steps[h])
  /\ \A h \in {"refresh", "start", "finalize"} : ~ToRecord(Steps[h])
<1>1. RecordFirst(Steps["opinions"])
  BY DEF RecordFirst, Steps, StepNames
<1>2. RecordFirst(Steps["writeback"])
  BY DEF RecordFirst, Steps, StepNames
<1>3. RecordFirst(Steps["exit"])
  BY DEF RecordFirst, Steps, StepNames
<1>4. RecordFirst(Steps["refresh"]) /\ ~ToRecord(Steps["refresh"])
  BY DEF RecordFirst, ToRecord, Steps, StepNames
<1>5. RecordFirst(Steps["start"]) /\ ~ToRecord(Steps["start"])
  BY DEF RecordFirst, ToRecord, Steps, StepNames
<1>6. RecordFirst(Steps["finalize"]) /\ ~ToRecord(Steps["finalize"])
  BY DEF RecordFirst, ToRecord, Steps, StepNames
<1> QED
  BY <1>1, <1>2, <1>3, <1>4, <1>5, <1>6 DEF AllHandlers

\* A handler that begins has a true opinion, if it is to record one.
LEMMA BeginHeard ==
  ASSUME IInv, HeardInv, NEW p \in Processes, NEW handler \in AllHandlers, NEW opinion, NEW round,
         Begin(p, handler, opinion, round),
         handler \in {"refresh", "start", "finalize"} \/ OpinionTrue(opinion)
  PROVE  HeardInv'
<1> DEFINE here == [Idle EXCEPT !.todo = Steps[handler], !.opinion = opinion, !.round = round]
<1>1. at' = [at EXCEPT ![p] = here] /\ UNCHANGED <<file, cycle, answered>>
  BY DEF Begin
<1>2. /\ here.todo = Steps[handler] /\ here.opinion = opinion
      /\ here.cases = Idle.cases /\ here.cycle = Idle.cycle
  BY DEF Idle
<1> HIDE DEF here
<1>3. HandlerHeard(here, answered)
  BY <1>2, NothingHeard, StepsInOrder DEF HandlerHeard
<1> QED
  BY <1>1, <1>3 DEF HeardInv, IInv

LEMMA HeardInit == Init => HeardInv
  BY NothingHeard DEF Init, HeardInv

LEMMA HeardStep ==
  ASSUME Discussed \subseteq Focus, IInv, HeardInv, [Next]_vars
  PROVE  HeardInv'
<1>1. ASSUME NEW p \in Processes, Opine(p)
      PROVE  HeardInv'
  <2>1. PICK o \in Opinions, handler \in {"opinions", "writeback"} :
          Timely(o) /\ Begin(p, handler, o, 0)
    BY <1>1 DEF Opine
  <2>2. OpinionTrue(o) /\ handler \in AllHandlers
    BY <2>1 DEF Timely, Opinions, OpinionTrue, AllHandlers
  <2> QED
    BY <2>1, <2>2, BeginHeard
<1>2. ASSUME NEW p \in Processes, Exit(p)
      PROVE  HeardInv'
  <2>1. PICK c \in Cases :
          Begin(p, "exit", [agent |-> Risk, round |-> MaxOf(cycle.round, 1), on |-> {c},
                            stance |-> "rejected", full |-> TRUE], 0)
    BY <1>2 DEF Exit
  <2> DEFINE o == [agent |-> Risk, round |-> MaxOf(cycle.round, 1), on |-> {c},
                   stance |-> "rejected", full |-> TRUE]
  <2>2. OpinionTrue(o) /\ "exit" \in AllHandlers
    BY DEF OpinionTrue, AllHandlers
  <2> HIDE DEF o
  <2>3. Begin(p, "exit", o, 0)
    BY <2>1 DEF o
  <2> QED
    BY <2>2, <2>3, BeginHeard
<1>3. ASSUME NEW p \in Processes, Refresh(p) \/ StartRound(p) \/ Finalize(p)
      PROVE  HeardInv'
  BY <1>3, BeginHeard DEF Refresh, StartRound, Finalize, AllHandlers
<1>4. ASSUME NEW p \in Processes, Step(p)
      PROVE  HeardInv'
  BY <1>4, StepHeard
<1>5. CASE UNCHANGED vars
  BY <1>5 DEF vars, HeardInv
<1> QED
  BY <1>1, <1>2, <1>3, <1>4, <1>5 DEF Next

\* When the agents write about the focus pool, a discussion that ends with its
\* first round has heard every agent on every case of it, though the round is
\* complete by a count (_round_1_complete) and old copies are written back.
THEOREM FirstRoundHeardAll ==
  ASSUME Discussed \subseteq Focus
  PROVE  DiscussionSpec => []FirstRoundHeard
<1>1. IInv /\ HeardInv => FirstRoundHeard
  BY DEF HeardInv, EndTrue, Heard, FirstRoundHeard
<1>2. IInv /\ HeardInv /\ [Next]_vars => HeardInv'
  BY HeardStep
<1> QED
  BY <1>1, <1>2, HeardInit, InitTrue, NextTrue, PTL DEF DiscussionSpec

-----------------------------------------------------------------------------
(* FoldLeft over a list that grows at its end.  It is defined by a function   *)
(* on the subsets of the list's places, which takes the last place away.      *)

Entries == [key : Keys, delta : Deltas]

\* What a list of settlements gives.
ScoreOf(applied) == FoldLeft(LAMBDA n, e : Clamped(n + e.delta), 10, applied)

LastPlace(t) == CHOOSE x \in t : \A y \in t : x >= y
IsFold(f, S, s) ==
  f = [t \in SUBSET S |-> IF t = {} THEN 10 ELSE Clamped(f[t \ {LastPlace(t)}] + s[LastPlace(t)].delta)]

\* A set of subsets of a finite set that is not empty has a least one.
LEMMA LeastSubset ==
  ASSUME NEW S, IsFiniteSet(S), NEW B, B \subseteq SUBSET S, B # {}
  PROVE  \E s \in B : \A t \in SUBSET s : t # s => t \notin B
<1>1. IsWellFoundedOn(StrictSubsetOrdering(S), SUBSET S)
  BY FS_StrictSubsetOrderingWellFounded, FS_FiniteSubsetsOfFinite
<1>2. PICK s \in B : \A t \in B : <<t, s>> \notin StrictSubsetOrdering(S)
  BY <1>1, WFMin
<1> QED
  BY <1>2 DEF StrictSubsetOrdering

\* A finite set of numbers has a last one.
LEMMA LastIsIn ==
  ASSUME NEW S, IsFiniteSet(S), S \subseteq Int, S # {}
  PROVE  LastPlace(S) \in S
<1> DEFINE B == {t \in SUBSET S : t # {} /\ ~ \E x \in t : \A y \in t : x >= y}
<1>1. CASE B = {}
  BY <1>1 DEF LastPlace
<1>2. CASE B # {}
  <2>1. PICK t \in B : \A r \in SUBSET t : r # t => r \notin B
    <3>1. B \subseteq SUBSET S
      OBVIOUS
    <3> HIDE DEF B
    <3> QED
      BY <1>2, <3>1, LeastSubset
  <2>2. PICK x \in t : TRUE
    OBVIOUS
  <2>3. t \ {x} # {}
    BY <2>2
  <2>4. PICK m \in t \ {x} : \A y \in t \ {x} : m >= y
    BY <2>1, <2>2, <2>3
  <2>5. m \in Int /\ x \in Int /\ t \subseteq Int
    OBVIOUS
  <2>6. \E z \in t : \A y \in t : z >= y
    <3>1. CASE m >= x
      BY <2>4, <3>1
    <3>2. CASE x >= m
      <4>1. \A y \in t : x >= y
        BY <2>4, <2>5, <3>2
      <4> QED
        BY <2>2, <4>1
    <3> QED
      BY <2>5, <3>1, <3>2
  <2> QED
    BY <2>6
<1> QED
  BY <1>1, <1>2

Places(U) == IsFiniteSet(U) /\ U \subseteq Int
SameOn(U, s1, s2) == \A i \in U : s1[i] = s2[i]

\* Two such functions agree where their lists do.
LEMMA FoldsAgree ==
  ASSUME NEW S, NEW T, NEW s1, NEW s2, NEW f1, NEW f2, IsFold(f1, S, s1), IsFold(f2, T, s2),
         NEW U, Places(U), U \subseteq S, U \subseteq T, SameOn(U, s1, s2)
  PROVE  f1[U] = f2[U]
<1> USE DEF Places, SameOn
<1> DEFINE B == {t \in SUBSET U : f1[t] # f2[t]}
<1>1. SUFFICES ASSUME B # {} PROVE FALSE
  OBVIOUS
<1>2. PICK t \in B : \A r \in SUBSET t : r # t => r \notin B
  <2>1. B \subseteq SUBSET U
    OBVIOUS
  <2> HIDE DEF B
  <2> QED
    BY <1>1, <2>1, LeastSubset
<1>3. t \in SUBSET S /\ t \in SUBSET T /\ t \subseteq U /\ t \subseteq Int
  OBVIOUS
<1>4. /\ f1[t] = IF t = {} THEN 10 ELSE Clamped(f1[t \ {LastPlace(t)}] + s1[LastPlace(t)].delta)
      /\ f2[t] = IF t = {} THEN 10 ELSE Clamped(f2[t \ {LastPlace(t)}] + s2[LastPlace(t)].delta)
  BY <1>3 DEF IsFold
<1>5. t # {}
  BY <1>4
<1>6. LastPlace(t) \in t
  BY <1>3, <1>5, LastIsIn, FS_Subset
<1>7. t \ {LastPlace(t)} \notin B
  BY <1>2, <1>6
<1>8. f1[t \ {LastPlace(t)}] = f2[t \ {LastPlace(t)}] /\ s1[LastPlace(t)] = s2[LastPlace(t)]
  BY <1>3, <1>6, <1>7
<1> QED
  BY <1>4, <1>5, <1>8

LEMMA FoldsOfOne ==
  ASSUME NEW S, NEW T, NEW s, NEW f1, NEW f2, IsFold(f1, S, s), IsFold(f2, T, s),
         Places(T), T \subseteq S
  PROVE  f1[T] = f2[T]
<1>1. T \subseteq T /\ SameOn(T, s, s)
  BY DEF SameOn
<1> QED
  BY <1>1, FoldsAgree

\* There is such a function: each of its values is one of a smaller set.
LEMMA FoldExists ==
  ASSUME NEW S, IsFiniteSet(S), S \subseteq Int, NEW s
  PROVE  \E f : IsFold(f, S, s)
<1> DEFINE B == {t \in SUBSET S : ~ \E f : IsFold(f, t, s)}
<1>1. SUFFICES ASSUME B # {} PROVE FALSE
  OBVIOUS
<1>2. PICK u \in B : \A t \in SUBSET u : t # u => t \notin B
  <2>1. B \subseteq SUBSET S
    OBVIOUS
  <2> HIDE DEF B
  <2> QED
    BY <1>1, <2>1, LeastSubset
<1> DEFINE F(t) == CHOOSE f : IsFold(f, t, s)
           f == [t \in SUBSET u |->
                   IF t = {} THEN 10
                   ELSE Clamped(F(t \ {LastPlace(t)})[t \ {LastPlace(t)}] + s[LastPlace(t)].delta)]
<1>0. \A t \in SUBSET u : t # {} => LastPlace(t) \in t
  BY LastIsIn, FS_Subset
<1>3. ASSUME NEW t \in SUBSET u, t # u PROVE IsFold(F(t), t, s)
  <2>1. \E e : IsFold(e, t, s)
    BY <1>2, <1>3
  <2> QED
    BY <2>1
<1>4. ASSUME NEW t \in SUBSET u, t # u PROVE f[t] = F(t)[t]
  <2>1. F(t)[t] = IF t = {} THEN 10 ELSE Clamped(F(t)[t \ {LastPlace(t)}] + s[LastPlace(t)].delta)
    <3> HIDE DEF F
    <3> QED
      BY <1>3, <1>4 DEF IsFold
  <2>2. CASE t = {}
    BY <2>1, <2>2
  <2>3. CASE t # {}
    <3> DEFINE r == t \ {LastPlace(t)}
    <3>1. LastPlace(t) \in t
      BY <1>0, <2>3
    <3>2. r \in SUBSET u /\ r # u /\ r \subseteq t
      BY <3>1
    <3>3. Places(r)
      BY <3>2, FS_Subset DEF Places
    <3>4. F(t)[r] = F(r)[r]
      <4>1. IsFold(F(t), t, s) /\ IsFold(F(r), r, s)
        BY <1>3, <1>4, <3>2
      <4> HIDE DEF F, r, f
      <4>2. \A g1, g2 : IsFold(g1, t, s) /\ IsFold(g2, r, s) => g1[r] = g2[r]
        BY ONLY <3>2, <3>3, FoldsOfOne, SMT
      <4> QED
        BY <4>1, <4>2
    <3> QED
      BY <2>1, <2>3, <3>4
  <2> QED
    BY <2>2, <2>3
<1>5. IsFold(f, u, s)
  <2>1. ASSUME NEW t \in SUBSET u, t # {}
        PROVE  f[t \ {LastPlace(t)}] = F(t \ {LastPlace(t)})[t \ {LastPlace(t)}]
    <3>1. t \ {LastPlace(t)} \in SUBSET u /\ t \ {LastPlace(t)} # u
      BY <1>0, <2>1
    <3> QED
      BY <1>4, <3>1
  <2> HIDE DEF F
  <2>2. \A t \in SUBSET u :
          f[t] = IF t = {} THEN 10 ELSE Clamped(f[t \ {LastPlace(t)}] + s[LastPlace(t)].delta)
    BY <2>1
  <2>3. f = [t \in SUBSET u |-> f[t]]
    OBVIOUS
  <2> HIDE DEF f
  <2>4. f = [t \in SUBSET u |-> IF t = {} THEN 10 ELSE Clamped(f[t \ {LastPlace(t)}] + s[LastPlace(t)].delta)]
    BY <2>2, <2>3
  <2> QED
    BY <2>4 DEF IsFold
<1> QED
  BY <1>2, <1>5

\* The score is the value of such a function at the whole list.
LEMMA ScoreIsFold ==
  ASSUME NEW s \in Seq(Entries)
  PROVE  \E f : IsFold(f, 1..Len(s), s) /\ ScoreOf(s) = f[1..Len(s)]
<1>1. ScoreOf(s) = (CHOOSE f : IsFold(f, DOMAIN s, s))[DOMAIN s]
  BY DEF ScoreOf, FoldLeft, MapThenFoldSet, Max, IsFold, LastPlace
<1>2. DOMAIN s = 1..Len(s) /\ Len(s) \in Nat
  OBVIOUS
<1>3. IsFiniteSet(1..Len(s)) /\ 1..Len(s) \subseteq Int
  BY <1>2, FS_Interval
<1>4. \E f : IsFold(f, 1..Len(s), s)
  BY <1>3, FoldExists
<1> QED
  BY <1>1, <1>2, <1>4

\* Nothing settled gives the score a state begins with.
LEMMA ScoreOfNothing == ScoreOf(<<>>) = 10
<1>1. <<>> \in Seq(Entries) /\ 1..Len(<<>>) = {}
  OBVIOUS
<1>2. PICK f : IsFold(f, {}, <<>>) /\ ScoreOf(<<>>) = f[{}]
  BY <1>1, ScoreIsFold
<1> QED
  BY <1>2 DEF IsFold

\* One settlement more moves it once more.
LEMMA ScoreOfMore ==
  ASSUME NEW s \in Seq(Entries), NEW e \in Entries
  PROVE  ScoreOf(Append(s, e)) = Clamped(ScoreOf(s) + e.delta)
<1> DEFINE n == Len(s)
           more == Append(s, e)
<1>1. /\ n \in Nat /\ more \in Seq(Entries) /\ Len(more) = n + 1
      /\ more[n + 1] = e /\ \A i \in 1..n : more[i] = s[i]
  OBVIOUS
<1> HIDE DEF n, more
<1>2. PICK f1 : IsFold(f1, 1..(n + 1), more) /\ ScoreOf(more) = f1[1..(n + 1)]
  BY <1>1, ScoreIsFold
<1>3. PICK f2 : IsFold(f2, 1..n, s) /\ ScoreOf(s) = f2[1..n]
  BY ScoreIsFold DEF n
<1>4. LastPlace(1..(n + 1)) = n + 1
  <2>1. n + 1 \in 1..(n + 1) /\ \A y \in 1..(n + 1) : n + 1 >= y
    BY <1>1
  <2>2. LastPlace(1..(n + 1)) \in 1..(n + 1) /\ \A y \in 1..(n + 1) : LastPlace(1..(n + 1)) >= y
    BY <2>1 DEF LastPlace
  <2> QED
    BY <1>1, <2>1, <2>2
<1>5. 1..(n + 1) # {} /\ (1..(n + 1)) \ {n + 1} = 1..n
  <2>1. n + 1 \in 1..(n + 1)
    BY <1>1
  <2>2. \A i : i \in (1..(n + 1)) \ {n + 1} <=> i \in 1..n
    BY <1>1
  <2> QED
    BY <2>1, <2>2
<1>6. f1[1..(n + 1)] = Clamped(f1[1..n] + more[n + 1].delta)
  <2> DEFINE P == 1..(n + 1)
  <2>1. \A t \in SUBSET P : f1[t] = IF t = {} THEN 10
                                    ELSE Clamped(f1[t \ {LastPlace(t)}] + more[LastPlace(t)].delta)
    BY <1>2 DEF IsFold
  <2>2. P \in SUBSET P
    OBVIOUS
  <2>3. P # {} /\ LastPlace(P) = n + 1 /\ P \ {n + 1} = 1..n
    BY <1>4, <1>5
  <2> HIDE DEF P
  <2>4. f1[P] = Clamped(f1[P \ {LastPlace(P)}] + more[LastPlace(P)].delta)
    BY <2>1, <2>2, <2>3
  <2> QED
    BY <2>3, <2>4 DEF P
<1>7. f1[1..n] = f2[1..n]
  <2>1. Places(1..n) /\ 1..n \subseteq 1..(n + 1) /\ SameOn(1..n, more, s)
    BY <1>1, FS_Interval DEF Places, SameOn
  <2> QED
    BY <1>1, <1>2, <1>3, <2>1, FoldsAgree
<1> QED
  BY <1>1, <1>2, <1>3, <1>6, <1>7 DEF more

-----------------------------------------------------------------------------
(* The credit. *)

\* A copy of the score file: each score is what its settlements give, and none
\* of them is ahead of the ratings.
FileSound(f, ratings) ==
  \A a \in AgentIds, d \in Dates : f[a][d] # Nothing =>
    /\ f[a][d].score = ScoreOf(f[a][d].applied)
    /\ \A k \in AppliedKeys(f[a][d]) : ratings[k][a] > 0

\* The agent at hand has been rated for a key its copy of the score file does
\* not list.
WritingSound ==
  job # Nothing /\ job.agent # Nothing =>
    /\ job.agent \in job.todo
    /\ job.read \in ScoreFiles /\ FileSound(job.read, moved)
    /\ moved[job.key][job.agent] > 0
    /\ job.key \notin AppliedKeys(StateOf(job.read, job.agent, job.key.date))

JobSound ==
  job # Nothing =>
    /\ job.todo \subseteq DOMAIN job.results
    /\ job.key.kind = "discussion" => job.key = DiscussionKey(job.key.date)
    /\ job.round => \A a \in DOMAIN job.results : moved[job.key][a] > 0

CopiesSound ==
  /\ FileSound(scores, moved)
  /\ sched # Nothing => FileSound(sched, moved)

\* When the API is not killed and no old cycle is written: a discussion whose
\* cycle has no key yet, and is not being settled, has not been rated; in a
\* settlement without a round, neither have the agents that are to come.
Alone == ~deployed.crashes /\ "watch" \notin deployed.jobs

RatedOnce ==
  /\ watch = Nothing
  /\ \A d \in Dates, a \in AgentIds :
       /\ moved[DiscussionKey(d)][a] <= 1
       /\ ~cycles[d] /\ (job = Nothing \/ job.key # DiscussionKey(d)) => moved[DiscussionKey(d)][a] = 0
       /\ /\ job # Nothing /\ job.key = DiscussionKey(d)
          /\ ~job.round /\ a \in job.todo /\ a # job.agent
          => moved[DiscussionKey(d)][a] = 0

\* When the scheduler does not write the score file: what the API has read of it
\* is what it is, and the agents that are done have the key in it.
OneWriter == "defaults" \notin deployed.jobs

AppliedTrue ==
  /\ sched = Nothing
  /\ job # Nothing =>
       /\ job.agent # Nothing => job.read = scores
       /\ \A a \in (DOMAIN job.results) \ job.todo :
            /\ scores[a][job.key.date] # Nothing
            /\ job.key \in AppliedKeys(scores[a][job.key.date])
  /\ \A d \in Dates : cycles[d] => Applied(DiscussionKey(d))
  /\ watch # Nothing /\ watch.settled => Applied(DiscussionKey(watch.date))
  /\ \A r \in Records : outcomes[r].applied => outcomes[r].key \in Keys /\ Applied(outcomes[r].key)

CreditInv ==
  /\ SettlementTypeOK
  /\ JobSound
  /\ WritingSound
  /\ CopiesSound
  /\ Alone => RatedOnce
  /\ OneWriter => AppliedTrue

\* The types of what a settlement is made of.
LEMMA CreditTypes ==
  /\ Nothing \notin AgentIds /\ Nothing \notin Keys /\ Nothing \notin ScoreStates
  /\ Nothing \notin ScoreFiles /\ Nothing \notin Settlements
  /\ Nothing \notin [date : Dates, settled : BOOLEAN]
  /\ Deltas \subseteq Int /\ MaxSettlements \in Nat
  /\ \A w \in Deployments : w.dates \subseteq Dates
  BY SettlementAssumption

LEMMA KeyTypes ==
  /\ \A d \in Dates : DiscussionKey(d) \in Keys /\ ManualKey(d) \in Keys
  /\ \A r \in Records, d \in Dates : OutcomeKey(r, d) \in Keys
  /\ \A k \in Keys : k.date \in Dates
  BY DEF DiscussionKey, ManualKey, OutcomeKey, Keys

LEMMA ResultTypes ==
  ASSUME NEW results \in Results
  PROVE  /\ DOMAIN results \subseteq AgentIds /\ DOMAIN results # {}
         /\ \A a \in DOMAIN results : results[a] \in Deltas
  BY DEF Results

\* A new state, and the one of an agent with no entry.
LEMMA StateTypes ==
  /\ NewState \in ScoreStates
  /\ NewState.score = ScoreOf(NewState.applied)
  /\ AppliedKeys(NewState) = {}
  /\ \A f \in ScoreFiles, a \in AgentIds, d \in Dates : StateOf(f, a, d) \in ScoreStates
<1>1. NewState \in ScoreStates
  BY DEF NewState, ScoreStates
<1>2. NewState.score = ScoreOf(NewState.applied)
  BY ScoreOfNothing DEF NewState
<1>3. AppliedKeys(NewState) = {}
  BY DEF AppliedKeys, NewState
<1>4. ASSUME NEW f \in ScoreFiles, NEW a \in AgentIds, NEW d \in Dates
      PROVE  StateOf(f, a, d) \in ScoreStates
  <2>1. f[a][d] \in ScoreStates \cup {Nothing}
    BY DEF ScoreFiles
  <2> QED
    BY <1>1, <2>1 DEF StateOf
<1> QED
  BY <1>1, <1>2, <1>3, <1>4

LEMMA AppliedAreKeys ==
  ASSUME NEW state \in ScoreStates
  PROVE  AppliedKeys(state) \subseteq Keys
<1>1. state.applied \in Seq(Entries)
  BY DEF ScoreStates, Entries
<1>2. \A i \in 1..Len(state.applied) : state.applied[i] \in Entries
  BY <1>1
<1>3. \A i \in 1..Len(state.applied) : state.applied[i].key \in Keys
  BY <1>2 DEF Entries
<1> QED
  BY <1>3 DEF AppliedKeys

LEMMA ClampedIn == \A n \in Int : Clamped(n) \in 0..20
  BY DEF Clamped

\* An entry for a key that is not listed adds it and what it gave.
LEMMA SettledSound ==
  ASSUME NEW state \in ScoreStates, state.score = ScoreOf(state.applied),
         job.key \in Keys, job.results[job.agent] \in Deltas, job.key \notin AppliedKeys(state)
  PROVE  /\ Settled(state) \in ScoreStates
         /\ Settled(state).score = ScoreOf(Settled(state).applied)
         /\ AppliedKeys(Settled(state)) = AppliedKeys(state) \cup {job.key}
<1> DEFINE given == job.results[job.agent]
           e == [key |-> job.key, delta |-> given]
           s == state.applied
           more == Append(s, e)
<1>1. s \in Seq(Entries) /\ state.score \in 0..20
  BY DEF ScoreStates, Entries
<1>2. e \in Entries /\ given \in Int /\ e.delta = given /\ e.key = job.key
  BY SettlementAssumption DEF Entries
<1>3. Settled(state) = [score |-> Clamped(state.score + given), applied |-> more]
  BY DEF Settled
<1>4. ScoreOf(more) = Clamped(ScoreOf(s) + given)
  BY <1>1, <1>2, ScoreOfMore
<1>5. /\ more \in Seq(Entries) /\ Len(more) = Len(s) + 1 /\ Len(s) \in Nat
      /\ more[Len(s) + 1] = e /\ \A i \in 1..Len(s) : more[i] = s[i]
  BY <1>1, <1>2
<1>6. Clamped(state.score + given) \in 0..20
  <2>1. state.score + given \in Int
    BY <1>1, <1>2
  <2> QED
    BY <2>1, ClampedIn
<1> HIDE DEF given, e, s, more
<1>7. Settled(state).score = Clamped(state.score + given) /\ Settled(state).applied = more
  BY <1>3
<1>8. AppliedKeys(Settled(state)) = AppliedKeys(state) \cup {job.key}
  <2>1. AppliedKeys(Settled(state)) = {more[i].key : i \in 1..Len(s) + 1}
    BY <1>5, <1>7 DEF AppliedKeys
  <2>2. AppliedKeys(state) = {s[i].key : i \in 1..Len(s)}
    BY DEF AppliedKeys, s
  <2>3. more[Len(s) + 1].key = job.key
    BY <1>2, <1>5
  <2>4. \A i : i \in 1..Len(s) + 1 <=> (i \in 1..Len(s) \/ i = Len(s) + 1)
    BY <1>5
  <2>5. \A k : k \in {more[i].key : i \in 1..Len(s) + 1} => k \in {s[i].key : i \in 1..Len(s)} \cup {job.key}
    BY <1>5, <2>3, <2>4
  <2>6. \A k : k \in {s[i].key : i \in 1..Len(s)} \cup {job.key} => k \in {more[i].key : i \in 1..Len(s) + 1}
    BY <1>5, <2>3, <2>4
  <2> QED
    BY <2>1, <2>2, <2>5, <2>6
<1>9. Settled(state) \in ScoreStates
  BY <1>3, <1>5, <1>6 DEF ScoreStates, Entries
<1> QED
  BY <1>4, <1>7, <1>8, <1>9 DEF s

Grow(before, after) == \A k \in Keys, a \in AgentIds : before[k][a] <= after[k][a]
Ratings == [Keys -> [AgentIds -> Nat]]

\* A rating that is moved grows by one, the others stay.
LEMMA Moves ==
  ASSUME moved \in Ratings, NEW key \in Keys, NEW agents, MoveWith(key, agents)
  PROVE  /\ moved' \in Ratings
         /\ Grow(moved, moved')
         /\ \A k \in Keys, a \in AgentIds :
              moved'[k][a] = IF k = key /\ a \in agents THEN moved[k][a] + 1 ELSE moved[k][a]
<1>1. \A k \in Keys, a \in AgentIds : moved[k][a] \in Nat
  BY DEF Ratings
<1>2. \A k \in Keys, a \in AgentIds :
        moved'[k][a] = IF k = key /\ a \in agents THEN moved[k][a] + 1 ELSE moved[k][a]
  BY DEF MoveWith
<1>3. moved' \in Ratings
  BY <1>1 DEF MoveWith, Ratings
<1>4. Grow(moved, moved')
  BY <1>1, <1>2 DEF Grow
<1> QED
  BY <1>2, <1>3, <1>4

LEMMA Stays ==
  ASSUME moved \in Ratings
  PROVE  Grow(moved, moved)
<1>1. \A k \in Keys, a \in AgentIds : moved[k][a] \in Nat
  BY DEF Ratings
<1> QED
  BY <1>1 DEF Grow

\* A copy of the file stays sound when the ratings grow.
LEMMA SoundWhenMoved ==
  ASSUME NEW f \in ScoreFiles, NEW before \in Ratings, NEW after \in Ratings,
         Grow(before, after), FileSound(f, before)
  PROVE  FileSound(f, after)
<1>1. SUFFICES ASSUME NEW a \in AgentIds, NEW d \in Dates, f[a][d] # Nothing
               PROVE  /\ f[a][d].score = ScoreOf(f[a][d].applied)
                      /\ \A k \in AppliedKeys(f[a][d]) : after[k][a] > 0
  BY DEF FileSound
<1>2. f[a][d] \in ScoreStates
  BY <1>1 DEF ScoreFiles
<1>3. ASSUME NEW k \in AppliedKeys(f[a][d]) PROVE after[k][a] > 0
  <2>1. k \in Keys
    BY <1>2, AppliedAreKeys
  <2>2. before[k][a] > 0 /\ before[k][a] <= after[k][a]
    BY <1>1, <2>1 DEF FileSound, Grow
  <2>3. before[k][a] \in Nat /\ after[k][a] \in Nat
    BY <2>1 DEF Ratings
  <2> QED
    BY <2>2, <2>3
<1> QED
  BY <1>1, <1>3 DEF FileSound

WithEntry(f, a, d, state) == [f EXCEPT ![a][d] = state]

\* So it does when one entry is changed to a sound one.
LEMMA SoundWithEntry ==
  ASSUME NEW f \in ScoreFiles, NEW ratings, FileSound(f, ratings),
         NEW a \in AgentIds, NEW d \in Dates, NEW state \in ScoreStates,
         state.score = ScoreOf(state.applied), \A k \in AppliedKeys(state) : ratings[k][a] > 0
  PROVE  LET g == WithEntry(f, a, d, state)
         IN  /\ g \in ScoreFiles /\ FileSound(g, ratings)
             /\ \A b \in AgentIds, e \in Dates : g[b][e] = IF b = a /\ e = d THEN state ELSE f[b][e]
<1> DEFINE g == WithEntry(f, a, d, state)
<1>1. \A b \in AgentIds, e \in Dates : g[b][e] = IF b = a /\ e = d THEN state ELSE f[b][e]
  BY DEF ScoreFiles, WithEntry
<1>2. g \in ScoreFiles
  BY DEF ScoreFiles, WithEntry
<1> HIDE DEF g
<1>3. FileSound(g, ratings)
  BY <1>1 DEF FileSound
<1> QED
  BY <1>1, <1>2, <1>3 DEF g

\* The defaults of a day are sound entries.
LEMMA SoundWithDefaults ==
  ASSUME NEW f \in ScoreFiles, NEW ratings, FileSound(f, ratings), NEW d \in Dates
  PROVE  LET g == [a \in AgentIds |-> [f[a] EXCEPT ![d] = StateOf(f, a, d)]]
         IN  g \in ScoreFiles /\ FileSound(g, ratings)
<1> DEFINE g == [a \in AgentIds |-> [f[a] EXCEPT ![d] = StateOf(f, a, d)]]
<1>0. \A a \in AgentIds : f[a] \in [Dates -> ScoreStates \cup {Nothing}]
  BY DEF ScoreFiles
<1>1. \A b \in AgentIds, e \in Dates : g[b][e] = IF e = d THEN StateOf(f, b, d) ELSE f[b][e]
  BY <1>0
<1>2. \A b \in AgentIds : StateOf(f, b, d) \in ScoreStates
  BY StateTypes
<1>3. g \in ScoreFiles
  BY <1>0, <1>2 DEF ScoreFiles
<1> HIDE DEF g
<1>4. ASSUME NEW a \in AgentIds, NEW e \in Dates, g[a][e] # Nothing
      PROVE  /\ g[a][e].score = ScoreOf(g[a][e].applied)
             /\ \A k \in AppliedKeys(g[a][e]) : ratings[k][a] > 0
  <2>1. CASE g[a][e] = f[a][e]
    BY <1>4, <2>1 DEF FileSound
  <2>2. CASE g[a][e] # f[a][e]
    <3>1. g[a][e] = NewState
      BY <1>1, <2>2 DEF StateOf
    <3> QED
      BY <3>1, StateTypes
  <2> QED
    BY <2>1, <2>2
<1> QED
  BY <1>3, <1>4 DEF FileSound, g

\* A settlement keeps its key, its results and its round.
Same(i, j) == i \in Settlements /\ i.key = j.key /\ i.results = j.results /\ i.round = j.round

LEMMA JobSkips ==
  ASSUME NEW j \in Settlements, NEW t \in SUBSET AgentIds, NEW i, i = [j EXCEPT !.todo = t]
  PROVE  Same(i, j) /\ i.todo = t /\ i.agent = j.agent /\ i.read = j.read
  BY DEF Settlements, Same

Copied(j, a, f) == [j EXCEPT !.agent = a, !.read = f]

LEMMA JobReads ==
  ASSUME NEW j \in Settlements, NEW a \in AgentIds \cup {Nothing}, NEW f \in ScoreFiles \cup {<<>>}
  PROVE  LET i == Copied(j, a, f)
         IN  Same(i, j) /\ i.todo = j.todo /\ i.agent = a /\ i.read = f
<1> DEFINE i == Copied(j, a, f)
           k == [j EXCEPT !.agent = a]
<1>1. k \in Settlements
  BY DEF Settlements
<1>2. Same(k, j) /\ k.todo = j.todo /\ k.agent = a
  BY DEF Settlements, Same
<1>3. i = [k EXCEPT !.read = f]
  BY Zenon DEF Copied
<1> HIDE DEF k, i
<1>4. i \in Settlements
  BY <1>1, <1>3 DEF Settlements
<1>5. Same(i, j) /\ i.todo = j.todo /\ i.agent = a /\ i.read = f
  BY <1>1, <1>2, <1>3, <1>4 DEF Settlements, Same
<1> QED
  BY <1>5 DEF i

Written(j, t) == Copied([j EXCEPT !.todo = t], Nothing, <<>>)

LEMMA JobWrites ==
  ASSUME NEW j \in Settlements, NEW t \in SUBSET AgentIds
  PROVE  Same(Written(j, t), j) /\ Written(j, t).todo = t /\ Written(j, t).agent = Nothing
<1> DEFINE k == [j EXCEPT !.todo = t]
           i == Copied(k, Nothing, <<>>)
<1>1. k \in Settlements
  BY DEF Settlements
<1>2. Same(k, j) /\ k.todo = t
  BY JobSkips
<1> HIDE DEF k
<1>3. Same(i, k) /\ i.todo = k.todo /\ i.agent = Nothing
  BY <1>1, JobReads
<1>4. Written(j, t) = i
  BY DEF Written, k
<1> HIDE DEF i
<1> QED
  BY <1>2, <1>3, <1>4 DEF Same

LEMMA CreditInitTrue == SettlementInit => CreditInv
<1> SUFFICES ASSUME SettlementInit PROVE CreditInv
  OBVIOUS
<1> USE DEF SettlementInit
<1>1. \A a \in AgentIds, d \in Dates : scores[a][d] = Nothing
  OBVIOUS
<1>2. SettlementTypeOK
  <2>1. scores \in ScoreFiles
    BY DEF ScoreFiles
  <2>2. moved \in [Keys -> [AgentIds -> Nat]]
    OBVIOUS
  <2>3. outcomes \in [Records -> [key : Keys \cup {Nothing}, applied : BOOLEAN]]
    OBVIOUS
  <2>4. latest \in Dates
    BY CreditTypes
  <2>5. begun \in 0..MaxSettlements
    BY CreditTypes
  <2> QED
    BY <2>1, <2>2, <2>3, <2>4, <2>5 DEF SettlementTypeOK
<1>3. FileSound(scores, moved)
  BY <1>1 DEF FileSound
<1>4. JobSound /\ WritingSound /\ CopiesSound
  BY <1>3 DEF JobSound, WritingSound, CopiesSound
<1>5. RatedOnce
  <2>1. \A d \in Dates, a \in AgentIds : moved[DiscussionKey(d)][a] = 0
    BY KeyTypes
  <2> QED
    BY <2>1 DEF RatedOnce
<1>6. AppliedTrue
  BY DEF AppliedTrue
<1> QED
  BY <1>2, <1>4, <1>5, <1>6 DEF CreditInv

\* A settlement begins with its ratings, if it is a round.
LEMMA BeginCredit ==
  ASSUME CreditInv, NEW key \in Keys, NEW results \in Results, NEW round \in BOOLEAN,
         BeginSettlement(key, results, round),
         UNCHANGED <<deployed, scores, cycles, outcomes, latest, sched, watch>>,
         key.kind = "discussion" => key = DiscussionKey(key.date) /\ ~cycles[key.date]
  PROVE  CreditInv'
<1>0. /\ SettlementTypeOK /\ CopiesSound /\ (Alone => RatedOnce) /\ (OneWriter => AppliedTrue)
      /\ moved \in Ratings /\ job = Nothing /\ begun < MaxSettlements /\ begun' = begun + 1
  BY DEF CreditInv, SettlementTypeOK, BeginSettlement, Settles, Ratings
<1> DEFINE j == [key |-> key, results |-> results, round |-> round,
                 todo |-> DOMAIN results, agent |-> Nothing, read |-> <<>>]
<1>1. job' = j
  BY DEF BeginSettlement
<1>2. j \in Settlements
  BY ResultTypes DEF Settlements
<1>3. /\ j.key = key /\ j.results = results /\ j.round = round
      /\ j.todo = DOMAIN results /\ j.agent = Nothing
  OBVIOUS
<1> HIDE DEF j
<1>4. /\ moved' \in Ratings /\ Grow(moved, moved')
      /\ round => \A k \in Keys, a \in AgentIds :
           moved'[k][a] = IF k = key /\ a \in DOMAIN results THEN moved[k][a] + 1 ELSE moved[k][a]
      /\ ~round => moved' = moved
  BY <1>0, Moves, Stays DEF BeginSettlement
<1>5. SettlementTypeOK'
  <2>1. begun' \in 0..MaxSettlements
    BY <1>0, CreditTypes DEF SettlementTypeOK
  <2> QED
    BY <1>0, <1>1, <1>2, <1>4, <2>1 DEF SettlementTypeOK, Ratings
<1>6. JobSound'
  <2>1. round => \A a \in DOMAIN results : moved'[key][a] > 0
    <3>1. \A a \in DOMAIN results : a \in AgentIds /\ moved[key][a] \in Nat
      BY <1>0, ResultTypes DEF Ratings
    <3> QED
      BY <1>4, <3>1
  <2> QED
    BY <1>1, <1>3, <2>1 DEF JobSound
<1>7. WritingSound'
  BY <1>1, <1>3 DEF WritingSound
<1>8. CopiesSound'
  <2>1. scores \in ScoreFiles /\ (sched # Nothing => sched \in ScoreFiles)
    BY <1>0 DEF SettlementTypeOK
  <2>2. FileSound(scores, moved')
    BY <1>0, <1>4, <2>1, SoundWhenMoved DEF CopiesSound
  <2>3. sched # Nothing => FileSound(sched, moved')
    BY <1>0, <1>4, <2>1, SoundWhenMoved DEF CopiesSound
  <2> QED
    BY <2>2, <2>3 DEF CopiesSound
<1>9. Alone' => RatedOnce'
  <2> SUFFICES ASSUME Alone' PROVE RatedOnce'
    OBVIOUS
  <2>1. RatedOnce
    BY <1>0 DEF Alone
  <2>2. ASSUME NEW d \in Dates, NEW a \in AgentIds
        PROVE  /\ moved'[DiscussionKey(d)][a] <= 1
               /\ ~cycles[d] /\ key # DiscussionKey(d) => moved'[DiscussionKey(d)][a] = 0
               /\ key = DiscussionKey(d) /\ ~round => moved'[DiscussionKey(d)][a] = 0
    <3>0. DiscussionKey(d) \in Keys /\ DiscussionKey(d).date = d /\ DiscussionKey(d).kind = "discussion"
      BY KeyTypes DEF DiscussionKey
    <3>1. /\ moved[DiscussionKey(d)][a] <= 1 /\ moved[DiscussionKey(d)][a] \in Nat
          /\ ~cycles[d] => moved[DiscussionKey(d)][a] = 0
      BY <1>0, <2>1, <3>0 DEF RatedOnce, Ratings
    <3>2. CASE key = DiscussionKey(d)
      <4>1. moved[DiscussionKey(d)][a] = 0
        BY <3>0, <3>1, <3>2
      <4> QED
        BY <1>4, <3>0, <3>2, <4>1
    <3>3. CASE key # DiscussionKey(d)
      <4>1. moved'[DiscussionKey(d)][a] = moved[DiscussionKey(d)][a]
        BY <1>4, <3>0, <3>3
      <4> QED
        BY <3>1, <3>3, <4>1
    <3> QED
      BY <3>2, <3>3
  <2>3. watch' = Nothing /\ cycles' = cycles
    BY <2>1 DEF RatedOnce
  <2>4. j # Nothing
    BY <1>2, CreditTypes
  <2> QED
    BY <1>1, <1>3, <2>2, <2>3, <2>4 DEF RatedOnce
<1>10. OneWriter' => AppliedTrue'
  <2> SUFFICES ASSUME OneWriter' PROVE AppliedTrue'
    OBVIOUS
  <2>1. AppliedTrue
    BY <1>0 DEF OneWriter
  <2>2. \A k : Applied(k)' = Applied(k)
    BY DEF Applied
  <2>3. j.agent = Nothing /\ (DOMAIN j.results) \ j.todo = {}
    BY <1>3
  <2> QED
    BY <1>1, <2>1, <2>2, <2>3 DEF AppliedTrue
<1> QED
  BY <1>5, <1>6, <1>7, <1>8, <1>9, <1>10 DEF CreditInv

\* What the invariant says of a settlement that is under way.
LEMMA JobTypes ==
  ASSUME CreditInv, job # Nothing
  PROVE  /\ job \in Settlements /\ job.key \in Keys /\ job.key.date \in Dates
         /\ job.results \in Results /\ DOMAIN job.results \subseteq AgentIds
         /\ job.round \in BOOLEAN /\ job.agent \in AgentIds \cup {Nothing}
         /\ job.todo \subseteq DOMAIN job.results
         /\ moved \in Ratings /\ scores \in ScoreFiles
<1>1. job \in Settlements
  BY DEF CreditInv, SettlementTypeOK
<1>2. job.key \in Keys /\ job.results \in Results /\ job.round \in BOOLEAN /\ job.agent \in AgentIds \cup {Nothing}
  BY <1>1 DEF Settlements
<1> QED
  BY <1>1, <1>2, KeyTypes, ResultTypes DEF CreditInv, SettlementTypeOK, JobSound, Ratings

\* An agent whose entry lists the key is done.
LEMMA SkipCredit ==
  ASSUME CreditInv, NEW a \in AgentIds, SkipAgent(a)
  PROVE  CreditInv'
<1>0. /\ SettlementTypeOK /\ JobSound /\ CopiesSound /\ (Alone => RatedOnce) /\ (OneWriter => AppliedTrue)
      /\ job # Nothing /\ job.agent = Nothing /\ a \in job.todo /\ Taken(a)
      /\ job' = [job EXCEPT !.todo = job.todo \ {a}]
  BY DEF CreditInv, SkipAgent
<1>1. /\ deployed' = deployed /\ scores' = scores /\ moved' = moved /\ cycles' = cycles
      /\ outcomes' = outcomes /\ latest' = latest /\ sched' = sched /\ watch' = watch /\ begun' = begun
  BY DEF SkipAgent
<1>2. /\ job \in Settlements /\ job.key.date \in Dates /\ scores \in ScoreFiles
      /\ job.todo \subseteq AgentIds /\ job.todo \subseteq DOMAIN job.results
  BY <1>0, JobTypes
<1>3. Same(job', job) /\ job'.todo = job.todo \ {a} /\ job'.agent = Nothing
  <2>1. job.todo \ {a} \in SUBSET AgentIds
    BY <1>2
  <2> QED
    BY <1>0, <1>2, <2>1, JobSkips
<1>4. job' \in Settlements /\ job' # Nothing
  BY <1>3, CreditTypes DEF Same
<1>5. SettlementTypeOK'
  BY <1>0, <1>1, <1>4 DEF SettlementTypeOK
<1>6. JobSound'
  BY <1>0, <1>1, <1>3 DEF JobSound, Same
<1>7. WritingSound'
  BY <1>3 DEF WritingSound
<1>8. CopiesSound'
  BY <1>0, <1>1 DEF CopiesSound
<1>9. Alone' => RatedOnce'
  BY <1>0, <1>1, <1>3, <1>4, CreditTypes DEF Alone, RatedOnce, Same
<1>10. OneWriter' => AppliedTrue'
  <2> SUFFICES ASSUME OneWriter' PROVE AppliedTrue'
    OBVIOUS
  <2>1. AppliedTrue
    BY <1>0, <1>1 DEF OneWriter
  <2>2. scores[a][job.key.date] # Nothing /\ job.key \in AppliedKeys(scores[a][job.key.date])
    BY <1>0, StateTypes DEF Taken, StateOf
  <2>3. \A k : Applied(k)' = Applied(k)
    BY <1>1 DEF Applied
  <2>4. \A b \in (DOMAIN job'.results) \ job'.todo : b = a \/ b \in (DOMAIN job.results) \ job.todo
    BY <1>3 DEF Same
  <2> QED
    BY <1>0, <1>1, <1>3, <2>1, <2>2, <2>3, <2>4 DEF AppliedTrue, Same
<1> QED
  BY <1>5, <1>6, <1>7, <1>8, <1>9, <1>10 DEF CreditInv

\* An agent is rated before its score is written.
LEMMA RateCredit ==
  ASSUME CreditInv, NEW a \in AgentIds, RateAgent(a)
  PROVE  CreditInv'
<1>0. /\ SettlementTypeOK /\ JobSound /\ CopiesSound /\ (Alone => RatedOnce) /\ (OneWriter => AppliedTrue)
      /\ job # Nothing /\ job.agent = Nothing /\ a \in job.todo /\ ~Taken(a)
      /\ job' = [job EXCEPT !.agent = a, !.read = scores]
      /\ (job.round => moved' = moved) /\ (~job.round => MoveWith(job.key, {a}))
  BY DEF CreditInv, RateAgent, MoveAlone
<1>1. /\ deployed' = deployed /\ scores' = scores /\ cycles' = cycles
      /\ outcomes' = outcomes /\ latest' = latest /\ sched' = sched /\ watch' = watch /\ begun' = begun
  BY DEF RateAgent
<1>2. /\ job \in Settlements /\ job.key \in Keys /\ job.key.date \in Dates /\ scores \in ScoreFiles
      /\ moved \in Ratings /\ DOMAIN job.results \subseteq AgentIds
      /\ job.todo \subseteq DOMAIN job.results
  BY <1>0, JobTypes
<1>3. Same(job', job) /\ job'.todo = job.todo /\ job'.agent = a /\ job'.read = scores
  <2>1. a \in AgentIds \cup {Nothing} /\ scores \in ScoreFiles \cup {<<>>}
    BY <1>2
  <2>2. job' = Copied(job, a, scores)
    BY <1>0, Zenon DEF Copied
  <2> QED
    BY <1>2, <2>1, <2>2, JobReads
<1>4. job' \in Settlements /\ job' # Nothing
  BY <1>3, CreditTypes DEF Same
<1>5. /\ moved' \in Ratings /\ Grow(moved, moved')
      /\ ~job.round => \A k \in Keys, b \in AgentIds :
           moved'[k][b] = IF k = job.key /\ b \in {a} THEN moved[k][b] + 1 ELSE moved[k][b]
  BY <1>0, <1>2, Moves, Stays
<1>6. SettlementTypeOK'
  BY <1>0, <1>1, <1>4, <1>5 DEF SettlementTypeOK, Ratings
<1>7. \A k \in Keys, b \in AgentIds : moved[k][b] > 0 => moved'[k][b] > 0
  <2>1. \A k \in Keys, b \in AgentIds : moved[k][b] \in Nat /\ moved'[k][b] \in Nat
    BY <1>2, <1>5 DEF Ratings
  <2> QED
    BY <1>5, <2>1 DEF Grow
<1>8. JobSound'
  BY <1>0, <1>1, <1>2, <1>3, <1>7 DEF JobSound, Same
<1>9. FileSound(scores, moved') /\ (sched # Nothing => FileSound(sched, moved'))
  <2>1. sched # Nothing => sched \in ScoreFiles
    BY <1>0 DEF SettlementTypeOK
  <2> QED
    BY <1>0, <1>2, <1>5, <2>1, SoundWhenMoved DEF CopiesSound
<1>10. CopiesSound'
  BY <1>1, <1>9 DEF CopiesSound
<1>11. WritingSound'
  <2>1. moved'[job.key][a] > 0
    <3>1. moved[job.key][a] \in Nat
      BY <1>2 DEF Ratings
    <3>2. CASE job.round
      BY <1>0, <1>2, <1>7, <3>2 DEF JobSound
    <3>3. CASE ~job.round
      BY <1>2, <1>5, <3>1, <3>3
    <3> QED
      BY <3>2, <3>3
  <2>2. job.key \notin AppliedKeys(StateOf(scores, a, job.key.date))
    BY <1>0 DEF Taken
  <2> QED
    BY <1>0, <1>2, <1>3, <1>9, <2>1, <2>2 DEF WritingSound, Same
<1>12. Alone' => RatedOnce'
  <2> SUFFICES ASSUME Alone' PROVE RatedOnce'
    OBVIOUS
  <2>1. RatedOnce
    BY <1>0, <1>1 DEF Alone
  <2>2. ASSUME NEW d \in Dates, NEW b \in AgentIds
        PROVE  /\ moved'[DiscussionKey(d)][b] <= 1
               /\ ~cycles[d] /\ job.key # DiscussionKey(d) => moved'[DiscussionKey(d)][b] = 0
               /\ job.key = DiscussionKey(d) /\ ~job.round /\ b \in job.todo /\ b # a
                    => moved'[DiscussionKey(d)][b] = 0
    <3>0. DiscussionKey(d) \in Keys
      BY KeyTypes
    <3>1. /\ moved[DiscussionKey(d)][b] <= 1
          /\ ~cycles[d] /\ job.key # DiscussionKey(d) => moved[DiscussionKey(d)][b] = 0
          /\ job.key = DiscussionKey(d) /\ ~job.round /\ b \in job.todo => moved[DiscussionKey(d)][b] = 0
      BY <1>0, <2>1, CreditTypes DEF RatedOnce
    <3>2. CASE moved'[DiscussionKey(d)][b] = moved[DiscussionKey(d)][b]
      BY <3>1, <3>2
    <3>3. CASE moved'[DiscussionKey(d)][b] # moved[DiscussionKey(d)][b]
      <4>1. ~job.round
        BY <1>0, <3>3
      <4>2. job.key = DiscussionKey(d) /\ b = a
        BY <1>5, <3>0, <3>3, <4>1
      <4>3. moved[DiscussionKey(d)][b] = 0 /\ moved'[DiscussionKey(d)][b] = 1
        BY <1>0, <1>5, <3>0, <3>1, <4>1, <4>2
      <4> QED
        BY <4>2, <4>3
    <3> QED
      BY <3>2, <3>3
  <2>3. watch' = Nothing
    BY <1>1, <2>1 DEF RatedOnce
  <2> QED
    BY <1>1, <1>3, <1>4, <2>2, <2>3 DEF RatedOnce, Same
<1>13. OneWriter' => AppliedTrue'
  <2>1. \A k : Applied(k)' = Applied(k)
    BY <1>1 DEF Applied
  <2> QED
    BY <1>0, <1>1, <1>3, <2>1 DEF OneWriter, AppliedTrue, Same
<1> QED
  BY <1>6, <1>8, <1>10, <1>11, <1>12, <1>13 DEF CreditInv

Listed(f, k) == \E a \in AgentIds : f[a][k.date] # Nothing /\ k \in AppliedKeys(f[a][k.date])

\* The score is added to the copy of the file that was read.
LEMMA WriteCredit ==
  ASSUME CreditInv, WriteAgent
  PROVE  CreditInv'
<1> DEFINE a == job.agent
           d == job.key.date
           state == StateOf(job.read, a, d)
<1>0. /\ SettlementTypeOK /\ JobSound /\ WritingSound /\ CopiesSound
      /\ (Alone => RatedOnce) /\ (OneWriter => AppliedTrue)
      /\ job # Nothing /\ job.agent # Nothing
      /\ scores' = [job.read EXCEPT ![a][d] = Settled(state)]
  BY DEF CreditInv, WriteAgent
<1>1. /\ deployed' = deployed /\ moved' = moved /\ cycles' = cycles /\ outcomes' = outcomes
      /\ latest' = latest /\ sched' = sched /\ watch' = watch /\ begun' = begun
  BY DEF WriteAgent
<1>2. /\ job \in Settlements /\ job.key \in Keys /\ job.results \in Results /\ d \in Dates
      /\ DOMAIN job.results \subseteq AgentIds /\ job.todo \subseteq DOMAIN job.results
      /\ moved \in Ratings
  BY <1>0, JobTypes
<1>3. /\ a \in job.todo /\ a \in AgentIds /\ job.results[a] \in Deltas
      /\ job.read \in ScoreFiles /\ FileSound(job.read, moved) /\ moved[job.key][a] > 0
      /\ job.key \notin AppliedKeys(state)
  <2>1. a \in job.todo
    BY <1>0 DEF WritingSound
  <2>2. job.results[a] \in Deltas
    BY <1>2, <2>1, ResultTypes
  <2> QED
    BY <1>0, <1>2, <2>1, <2>2 DEF WritingSound
<1>4. /\ state \in ScoreStates /\ state.score = ScoreOf(state.applied)
      /\ \A k \in AppliedKeys(state) : moved[k][a] > 0
  <2>1. state \in ScoreStates
    BY <1>2, <1>3, StateTypes
  <2>2. CASE job.read[a][d] = Nothing
    <3>1. state = NewState
      BY <2>2 DEF StateOf
    <3> QED
      BY <2>1, <3>1, StateTypes
  <2>3. CASE job.read[a][d] # Nothing
    <3>1. state = job.read[a][d]
      BY <2>3 DEF StateOf
    <3> QED
      BY <1>2, <1>3, <2>1, <2>3, <3>1 DEF FileSound
  <2> QED
    BY <2>2, <2>3
<1> HIDE DEF state
<1>5. /\ Settled(state) \in ScoreStates
      /\ Settled(state).score = ScoreOf(Settled(state).applied)
      /\ AppliedKeys(Settled(state)) = AppliedKeys(state) \cup {job.key}
  BY <1>2, <1>3, <1>4, SettledSound
<1>6. \A k \in AppliedKeys(Settled(state)) : moved[k][a] > 0
  BY <1>3, <1>4, <1>5
<1>7. /\ scores' \in ScoreFiles /\ FileSound(scores', moved)
      /\ \A b \in AgentIds, e \in Dates :
           scores'[b][e] = IF b = a /\ e = d THEN Settled(state) ELSE job.read[b][e]
  <2> HIDE DEF a, d
  <2>1. scores' = WithEntry(job.read, a, d, Settled(state))
    BY <1>0, Zenon DEF WithEntry
  <2> QED
    BY <1>2, <1>3, <1>5, <1>6, <2>1, SoundWithEntry
<1>8. Same(job', job) /\ job'.todo = job.todo \ {a} /\ job'.agent = Nothing
  <2>1. job' = Written(job, job.todo \ {job.agent})
    BY Zenon DEF WriteAgent, Copied, Written
  <2>2. job.todo \ {job.agent} \in SUBSET AgentIds
    BY <1>2
  <2> QED
    BY <1>2, <2>1, <2>2, JobWrites
<1>9. job' \in Settlements /\ job' # Nothing
  BY <1>8, CreditTypes DEF Same
<1>10. SettlementTypeOK'
  BY <1>0, <1>1, <1>7, <1>9 DEF SettlementTypeOK
<1>11. JobSound'
  BY <1>0, <1>1, <1>8 DEF JobSound, Same
<1>12. WritingSound'
  BY <1>8 DEF WritingSound
<1>13. CopiesSound'
  BY <1>0, <1>1, <1>7 DEF CopiesSound
<1>14. Alone' => RatedOnce'
  BY <1>0, <1>1, <1>8, <1>9, CreditTypes DEF Alone, RatedOnce, Same
<1>15. OneWriter' => AppliedTrue'
  <2> SUFFICES ASSUME OneWriter' PROVE AppliedTrue'
    OBVIOUS
  <2>1. AppliedTrue /\ job.read = scores
    BY <1>0, <1>1 DEF OneWriter, AppliedTrue
  <2>2. Settled(state) # Nothing
    BY <1>5, CreditTypes
  <2>3. ASSUME NEW b \in AgentIds, NEW e \in Dates, scores[b][e] # Nothing
        PROVE  scores'[b][e] # Nothing /\ AppliedKeys(scores[b][e]) \subseteq AppliedKeys(scores'[b][e])
    <3>1. CASE b = a /\ e = d
      <4>1. state = scores[b][e]
        BY <2>1, <2>3, <3>1 DEF state, StateOf
      <4> QED
        BY <1>5, <1>7, <2>2, <3>1, <4>1
    <3>2. CASE ~(b = a /\ e = d)
      BY <1>7, <2>1, <2>3, <3>2
    <3> QED
      BY <3>1, <3>2
  <2>4. \A k \in Keys : Applied(k) => Listed(scores', k)
    BY <2>3, KeyTypes DEF Applied, Listed
  <2>5. scores'[a][d] # Nothing /\ job.key \in AppliedKeys(scores'[a][d])
    BY <1>2, <1>3, <1>5, <1>7, <2>2
  <2>6. \A b \in (DOMAIN job'.results) \ job'.todo :
          /\ scores'[b][job'.key.date] # Nothing
          /\ job'.key \in AppliedKeys(scores'[b][job'.key.date])
    <3>1. SUFFICES ASSUME NEW b \in (DOMAIN job.results) \ job.todo
                   PROVE  scores'[b][d] # Nothing /\ job.key \in AppliedKeys(scores'[b][d])
      BY <1>8, <2>5 DEF Same
    <3>2. b \in AgentIds /\ scores[b][d] # Nothing /\ job.key \in AppliedKeys(scores[b][d])
      BY <1>0, <1>2, <2>1 DEF AppliedTrue
    <3> QED
      BY <1>2, <2>3, <3>2
  <2>7. /\ \A e \in Dates : cycles[e] => Listed(scores', DiscussionKey(e))
        /\ \A r \in Records : outcomes[r].applied => outcomes[r].key \in Keys /\ Listed(scores', outcomes[r].key)
    BY <2>1, <2>4, KeyTypes DEF AppliedTrue
  <2>8. watch # Nothing /\ watch.settled => Listed(scores', DiscussionKey(watch.date))
    <3>1. watch # Nothing => watch.date \in Dates
      BY <1>0 DEF SettlementTypeOK
    <3> QED
      BY <2>1, <2>4, <3>1, KeyTypes DEF AppliedTrue
  <2> HIDE DEF a, d
  <2>9. sched' = Nothing /\ job'.agent = Nothing
    BY <1>1, <1>8, <2>1 DEF AppliedTrue
  <2> QED
    BY <1>1, <2>6, <2>7, <2>8, <2>9 DEF AppliedTrue, Applied, Listed
<1> QED
  BY <1>10, <1>11, <1>12, <1>13, <1>14, <1>15 DEF CreditInv

\* A settlement ends: all of its agents are done.
LEMMA EndCredit ==
  ASSUME CreditInv, EndSettlement
  PROVE  CreditInv'
<1>0. /\ SettlementTypeOK /\ JobSound /\ CopiesSound /\ (Alone => RatedOnce) /\ (OneWriter => AppliedTrue)
      /\ job # Nothing /\ job.agent = Nothing /\ job.todo = {} /\ job' = Nothing
      /\ cycles' = IF job.key.kind = "discussion" THEN [cycles EXCEPT ![job.key.date] = TRUE] ELSE cycles
      /\ outcomes' = IF job.key.kind = "outcome"
                     THEN [outcomes EXCEPT ![job.key.of] = [key |-> job.key, applied |-> TRUE]]
                     ELSE outcomes
  BY DEF CreditInv, EndSettlement
<1>1. /\ deployed' = deployed /\ scores' = scores /\ moved' = moved
      /\ latest' = latest /\ sched' = sched /\ watch' = watch /\ begun' = begun
  BY DEF EndSettlement
<1>2. /\ job.key \in Keys /\ job.key.date \in Dates /\ job.results \in Results
      /\ DOMAIN job.results \subseteq AgentIds
  BY <1>0, JobTypes
<1>3. cycles \in [Dates -> BOOLEAN] /\ outcomes \in [Records -> [key : Keys \cup {Nothing}, applied : BOOLEAN]]
  BY <1>0 DEF SettlementTypeOK
<1>4. /\ cycles' \in [Dates -> BOOLEAN]
      /\ \A d \in Dates : cycles'[d] <=> (cycles[d] \/ (job.key.kind = "discussion" /\ d = job.key.date))
  BY <1>0, <1>3
<1>5. /\ outcomes' \in [Records -> [key : Keys \cup {Nothing}, applied : BOOLEAN]]
      /\ \A r \in Records : outcomes'[r] = outcomes[r] \/ outcomes'[r].key = job.key
  BY <1>0, <1>2, <1>3
<1>6. SettlementTypeOK'
  BY <1>0, <1>1, <1>4, <1>5 DEF SettlementTypeOK
<1>7. JobSound' /\ WritingSound' /\ CopiesSound'
  BY <1>0, <1>1 DEF JobSound, WritingSound, CopiesSound
<1>8. Alone' => RatedOnce'
  <2> SUFFICES ASSUME Alone' PROVE RatedOnce'
    OBVIOUS
  <2>1. RatedOnce
    BY <1>0, <1>1 DEF Alone
  <2>2. ASSUME NEW d \in Dates, NEW a \in AgentIds, ~cycles'[d]
        PROVE  moved[DiscussionKey(d)][a] = 0
    <3>1. ~cycles[d] /\ ~(job.key.kind = "discussion" /\ d = job.key.date)
      BY <1>4, <2>2
    <3>2. job.key # DiscussionKey(d)
      BY <3>1 DEF DiscussionKey
    <3> QED
      BY <2>1, <3>1, <3>2 DEF RatedOnce
  <2> QED
    BY <1>0, <1>1, <2>1, <2>2 DEF RatedOnce
<1>9. OneWriter' => AppliedTrue'
  <2> SUFFICES ASSUME OneWriter' PROVE AppliedTrue'
    OBVIOUS
  <2>1. AppliedTrue
    BY <1>0, <1>1 DEF OneWriter
  <2>2. \A k : Applied(k) => Listed(scores', k)
    BY <1>1 DEF Applied, Listed
  <2>3. Listed(scores', job.key)
    <3>1. PICK a \in DOMAIN job.results : TRUE
      BY <1>2, ResultTypes
    <3>2. a \in AgentIds /\ a \in (DOMAIN job.results) \ job.todo
      BY <1>0, <1>2
    <3>3. scores[a][job.key.date] # Nothing /\ job.key \in AppliedKeys(scores[a][job.key.date])
      BY <1>0, <2>1, <3>2 DEF AppliedTrue
    <3> QED
      BY <1>1, <3>2, <3>3 DEF Listed
  <2>4. \A d \in Dates : cycles'[d] => Listed(scores', DiscussionKey(d))
    BY <1>0, <1>4, <2>1, <2>2, <2>3 DEF AppliedTrue, JobSound
  <2>5. \A r \in Records : outcomes'[r].applied => outcomes'[r].key \in Keys /\ Listed(scores', outcomes'[r].key)
    BY <1>2, <1>5, <2>1, <2>2, <2>3 DEF AppliedTrue
  <2>6. watch' # Nothing /\ watch'.settled => Listed(scores', DiscussionKey(watch'.date))
    BY <1>1, <2>1, <2>2 DEF AppliedTrue
  <2> QED
    BY <1>0, <1>1, <2>1, <2>4, <2>5, <2>6 DEF AppliedTrue, Applied, Listed
<1> QED
  BY <1>6, <1>7, <1>8, <1>9 DEF CreditInv

\* The API is killed.
LEMMA CrashCredit ==
  ASSUME CreditInv, Crash
  PROVE  CreditInv'
<1>0. /\ SettlementTypeOK /\ CopiesSound /\ (OneWriter => AppliedTrue) /\ job' = Nothing
      /\ ~Alone
  BY DEF CreditInv, Crash, Alone
<1>1. /\ deployed' = deployed /\ scores' = scores /\ moved' = moved /\ cycles' = cycles
      /\ outcomes' = outcomes /\ latest' = latest /\ sched' = sched /\ watch' = watch /\ begun' = begun
  BY DEF Crash
<1>2. SettlementTypeOK' /\ CopiesSound' /\ ~Alone'
  BY <1>0, <1>1 DEF SettlementTypeOK, CopiesSound, Alone
<1>3. JobSound' /\ WritingSound'
  BY <1>0 DEF JobSound, WritingSound
<1>4. OneWriter' => AppliedTrue'
  BY <1>0, <1>1 DEF OneWriter, AppliedTrue, Applied
<1> QED
  BY <1>2, <1>3, <1>4 DEF CreditInv

\* The settlement that is under way, the ratings and the API's copy are left
\* alone by the other steps.
LEMMA JobKept ==
  ASSUME CreditInv, job' = job, moved' = moved
  PROVE  JobSound' /\ WritingSound'
<1>1. JobSound /\ WritingSound
  BY DEF CreditInv
<1> QED
  BY <1>1 DEF JobSound, WritingSound

LEMMA SkipOutcomeCredit ==
  ASSUME CreditInv, NEW r \in Records, SkipOutcome(r)
  PROVE  CreditInv'
<1>0. /\ SettlementTypeOK /\ CopiesSound /\ (Alone => RatedOnce) /\ (OneWriter => AppliedTrue)
      /\ outcomes' = [outcomes EXCEPT ![r].applied = FALSE]
  BY DEF CreditInv, SkipOutcome
<1>1. /\ deployed' = deployed /\ scores' = scores /\ moved' = moved /\ cycles' = cycles
      /\ job' = job /\ latest' = latest /\ sched' = sched /\ watch' = watch /\ begun' = begun
  BY DEF SkipOutcome
<1>2. outcomes \in [Records -> [key : Keys \cup {Nothing}, applied : BOOLEAN]]
  BY <1>0 DEF SettlementTypeOK
<1>3. \A q \in Records : outcomes'[q] = outcomes[q] \/ ~outcomes'[q].applied
  BY <1>0, <1>2
<1>4. outcomes' \in [Records -> [key : Keys \cup {Nothing}, applied : BOOLEAN]]
  BY <1>0, <1>2
<1>5. SettlementTypeOK' /\ CopiesSound'
  BY <1>0, <1>1, <1>4 DEF SettlementTypeOK, CopiesSound
<1>6. Alone' => RatedOnce'
  BY <1>0, <1>1 DEF Alone, RatedOnce
<1>7. OneWriter' => AppliedTrue'
  <2> SUFFICES ASSUME OneWriter' PROVE AppliedTrue'
    OBVIOUS
  <2>1. AppliedTrue
    BY <1>0, <1>1 DEF OneWriter
  <2>2. \A k : Applied(k) => Listed(scores', k)
    BY <1>1 DEF Applied, Listed
  <2>3. \A q \in Records : outcomes'[q].applied => outcomes'[q].key \in Keys /\ Listed(scores', outcomes'[q].key)
    BY <1>3, <2>1, <2>2 DEF AppliedTrue
  <2>4. \A d \in Dates : cycles'[d] => Listed(scores', DiscussionKey(d))
    BY <1>1, <2>1, <2>2 DEF AppliedTrue
  <2>5. watch' # Nothing /\ watch'.settled => Listed(scores', DiscussionKey(watch'.date))
    BY <1>1, <2>1, <2>2 DEF AppliedTrue
  <2> QED
    BY <1>1, <2>1, <2>3, <2>4, <2>5 DEF AppliedTrue, Applied, Listed
<1> QED
  BY <1>1, <1>5, <1>6, <1>7, JobKept DEF CreditInv

\* The scheduler's copy of the score file is sound, so the file it writes is.
LEMMA DefaultsCredit ==
  ASSUME CreditInv, (\E d \in Dates : DefaultsRead(d)) \/ DefaultsWrite
  PROVE  CreditInv'
<1>0. /\ SettlementTypeOK /\ CopiesSound /\ (Alone => RatedOnce) /\ (OneWriter => AppliedTrue)
      /\ scores \in ScoreFiles /\ sched \in ScoreFiles \cup {Nothing}
  BY DEF CreditInv, SettlementTypeOK
<1>1. /\ deployed' = deployed /\ moved' = moved /\ cycles' = cycles /\ outcomes' = outcomes
      /\ job' = job /\ latest' = latest /\ watch' = watch /\ begun' = begun
  BY DEF DefaultsRead, DefaultsWrite
<1>2. ~OneWriter
  BY <1>0 DEF DefaultsRead, DefaultsWrite, OneWriter, AppliedTrue
<1>3. /\ scores' \in ScoreFiles /\ sched' \in ScoreFiles \cup {Nothing}
      /\ FileSound(scores', moved) /\ (sched' # Nothing => FileSound(sched', moved))
  <2>1. ASSUME NEW d \in Dates, DefaultsRead(d)
        PROVE  scores' = scores /\ sched' \in ScoreFiles /\ FileSound(sched', moved)
    <3>1. scores' = scores /\ sched' = [a \in AgentIds |-> [scores[a] EXCEPT ![d] = StateOf(scores, a, d)]]
      BY <2>1 DEF DefaultsRead
    <3> QED
      BY <1>0, <3>1, SoundWithDefaults DEF CopiesSound
  <2>2. ASSUME DefaultsWrite
        PROVE  scores' = sched /\ sched # Nothing /\ sched' = Nothing
    BY <2>2 DEF DefaultsWrite
  <2> QED
    BY <1>0, <2>1, <2>2 DEF CopiesSound
<1>4. SettlementTypeOK' /\ CopiesSound'
  BY <1>0, <1>1, <1>3 DEF SettlementTypeOK, CopiesSound
<1>5. Alone' => RatedOnce'
  BY <1>0, <1>1 DEF Alone, RatedOnce
<1>6. ~OneWriter'
  BY <1>1, <1>2 DEF OneWriter
<1> QED
  BY <1>1, <1>4, <1>5, <1>6, JobKept DEF CreditInv

\* A cycle that is written back was true of the file, which forgets no key.
LEMMA WatchCredit ==
  ASSUME CreditInv, (\E d \in Dates : WatchRead(d)) \/ WatchWrite
  PROVE  CreditInv'
<1>0. /\ SettlementTypeOK /\ CopiesSound /\ (Alone => RatedOnce) /\ (OneWriter => AppliedTrue)
      /\ cycles \in [Dates -> BOOLEAN] /\ watch \in [date : Dates, settled : BOOLEAN] \cup {Nothing}
  BY DEF CreditInv, SettlementTypeOK
<1>1. /\ deployed' = deployed /\ scores' = scores /\ moved' = moved /\ outcomes' = outcomes
      /\ job' = job /\ latest' = latest /\ sched' = sched /\ begun' = begun
  BY DEF WatchRead, WatchWrite
<1>2. ~Alone
  BY <1>0 DEF WatchRead, WatchWrite, Alone, RatedOnce
<1>3. /\ cycles' \in [Dates -> BOOLEAN] /\ watch' \in [date : Dates, settled : BOOLEAN] \cup {Nothing}
      /\ \A d \in Dates : cycles'[d] => cycles[d] \/ (watch # Nothing /\ watch.settled /\ watch.date = d)
      /\ watch' # Nothing /\ watch'.settled => watch'.date \in Dates /\ cycles[watch'.date]
  <2>1. ASSUME NEW d \in Dates, WatchRead(d)
        PROVE  cycles' = cycles /\ watch' = [date |-> d, settled |-> cycles[d]]
    BY <2>1 DEF WatchRead
  <2>2. ASSUME WatchWrite
        PROVE  watch # Nothing /\ cycles' = [cycles EXCEPT ![watch.date] = watch.settled] /\ watch' = Nothing
    BY <2>2 DEF WatchWrite
  <2>3. CASE \E d \in Dates : WatchRead(d)
    BY <1>0, <2>1, <2>3
  <2>4. CASE WatchWrite
    BY <1>0, <2>2, <2>4
  <2> QED
    BY <2>3, <2>4
<1>4. SettlementTypeOK' /\ CopiesSound'
  BY <1>0, <1>1, <1>3 DEF SettlementTypeOK, CopiesSound
<1>5. ~Alone'
  BY <1>1, <1>2 DEF Alone
<1>6. OneWriter' => AppliedTrue'
  <2> SUFFICES ASSUME OneWriter' PROVE AppliedTrue'
    OBVIOUS
  <2>1. AppliedTrue
    BY <1>0, <1>1 DEF OneWriter
  <2>2. \A k : Applied(k) => Listed(scores', k)
    BY <1>1 DEF Applied, Listed
  <2>3. \A q \in Records : outcomes'[q].applied => outcomes'[q].key \in Keys /\ Listed(scores', outcomes'[q].key)
    BY <1>1, <2>1, <2>2 DEF AppliedTrue
  <2>4. \A d \in Dates : cycles'[d] => Listed(scores', DiscussionKey(d))
    BY <1>3, <2>1, <2>2 DEF AppliedTrue
  <2>5. watch' # Nothing /\ watch'.settled => Listed(scores', DiscussionKey(watch'.date))
    BY <1>3, <2>1, <2>2 DEF AppliedTrue
  <2> QED
    BY <1>1, <2>1, <2>3, <2>4, <2>5 DEF AppliedTrue, Applied, Listed
<1> QED
  BY <1>1, <1>4, <1>5, <1>6, JobKept DEF CreditInv

\* A day passes, or nothing happens.
LEMMA OtherCredit ==
  ASSUME CreditInv, (\E d \in Dates : ReconcileOn(d)) \/ UNCHANGED settlementVars
  PROVE  CreditInv'
<1>0. /\ SettlementTypeOK /\ CopiesSound /\ (Alone => RatedOnce) /\ (OneWriter => AppliedTrue)
  BY DEF CreditInv
<1>1. /\ deployed' = deployed /\ scores' = scores /\ moved' = moved /\ cycles' = cycles /\ outcomes' = outcomes
      /\ job' = job /\ sched' = sched /\ watch' = watch /\ begun' = begun
      /\ latest' = latest \/ latest' \in Dates
  BY DEF ReconcileOn, settlementVars
<1>2. SettlementTypeOK' /\ CopiesSound'
  BY <1>0, <1>1 DEF SettlementTypeOK, CopiesSound
<1>3. Alone' => RatedOnce'
  BY <1>0, <1>1 DEF Alone, RatedOnce
<1>4. OneWriter' => AppliedTrue'
  BY <1>0, <1>1 DEF OneWriter, AppliedTrue, Applied
<1> QED
  BY <1>1, <1>2, <1>3, <1>4, JobKept DEF CreditInv

LEMMA CreditStep ==
  ASSUME CreditInv, [SettlementNext]_settlementVars
  PROVE  CreditInv'
<1>0. /\ deployed.dates \subseteq Dates /\ latest \in Dates
      /\ cycles \in [Dates -> BOOLEAN]
  BY CreditTypes DEF CreditInv, SettlementTypeOK
<1>1. ASSUME NEW results \in Results, NEW d \in deployed.dates, SettleDiscussion(d, results)
      PROVE  CreditInv'
  <2>1. DiscussionKey(d) \in Keys /\ DiscussionKey(d).date = d
    BY <1>0, KeyTypes DEF DiscussionKey
  <2>2. IsRound(results) \in BOOLEAN
    BY DEF IsRound
  <2>3. BeginSettlement(DiscussionKey(d), results, IsRound(results)) /\ ~cycles[d]
    BY <1>1 DEF SettleDiscussion, Unsettled
  <2>4. UNCHANGED <<deployed, scores, cycles, outcomes, latest, sched, watch>>
    BY <1>1 DEF SettleDiscussion
  <2> QED
    BY <2>1, <2>2, <2>3, <2>4, BeginCredit
<1>2. ASSUME NEW results \in Results, NEW d \in deployed.dates, SettleManually(d, results)
      PROVE  CreditInv'
  <2>1. ManualKey(d) \in Keys /\ ManualKey(d).kind # "discussion"
    BY <1>0, KeyTypes DEF ManualKey
  <2> QED
    BY <1>2, <2>1, BeginCredit DEF SettleManually
<1>3. ASSUME NEW results \in Results, NEW r \in Records, SettleOutcome(r, results)
      PROVE  CreditInv'
  <2>1. OutcomeKey(r, latest) \in Keys /\ OutcomeKey(r, latest).kind # "discussion"
    BY <1>0, KeyTypes DEF OutcomeKey
  <2>2. IsRound(results) \in BOOLEAN
    BY DEF IsRound
  <2> QED
    BY <1>3, <2>1, <2>2, BeginCredit DEF SettleOutcome
<1>4. CASE \E r \in Records : SkipOutcome(r)
  BY <1>4, SkipOutcomeCredit
<1>5. CASE \E a \in AgentIds : SkipAgent(a) \/ RateAgent(a)
  BY <1>5, SkipCredit, RateCredit
<1>6. CASE WriteAgent \/ EndSettlement \/ Crash
  BY <1>6, WriteCredit, EndCredit, CrashCredit
<1>7. CASE \E d \in deployed.dates : DefaultsRead(d) \/ WatchRead(d) \/ ReconcileOn(d)
  BY <1>0, <1>7, DefaultsCredit, WatchCredit, OtherCredit
<1>8. CASE DefaultsWrite \/ WatchWrite \/ UNCHANGED settlementVars
  BY <1>8, DefaultsCredit, WatchCredit, OtherCredit
<1> QED
  BY <1>1, <1>2, <1>3, <1>4, <1>5, <1>6, <1>7, <1>8 DEF SettlementNext

LEMMA CreditAlways == SettlementSpec => []CreditInv
  BY CreditInitTrue, CreditStep, PTL DEF SettlementSpec

\* Every variable of the settlement has its type.
THEOREM SettlementTypeCorrect == SettlementSpec => []SettlementTypeOK
<1>1. CreditInv => SettlementTypeOK
  BY DEF CreditInv
<1> QED
  BY <1>1, CreditAlways, PTL

\* The score of an agent on a date is the fold of the settlements listed with
\* it, though three handlers and the scheduler's defaults read, add and write
\* the file apart (record_settlement, _ensure_defaults).
THEOREM ScoresAreTheirSettlements == SettlementSpec => []ScoreIsItsSettlements
<1>1. CreditInv => ScoreIsItsSettlements
  BY DEF CreditInv, CopiesSound, FileSound, ScoreOf, ScoreIsItsSettlements
<1> QED
  BY <1>1, CreditAlways, PTL

\* A settlement that counts for a score has moved the rating, though the API
\* may be killed between the two files (run_daily_settlement).
THEOREM RatingsKeepUp == SettlementSpec => []RatingsNeverBehind
<1>1. CreditInv => RatingsNeverBehind
  BY DEF CreditInv, CopiesSound, FileSound, RatingsNeverBehind
<1> QED
  BY <1>1, CreditAlways, PTL

\* A discussion moves an agent's rating at most once, however often it is
\* finalised, when the API is not killed and no old cycle is written back
\* (_auto_settle_discussion_agents).
THEOREM DiscussionsRateOnce == SettlementSpec => []DiscussionRatedOnce
<1>1. CreditInv => DiscussionRatedOnce
  BY DEF CreditInv, Alone, RatedOnce, DiscussionRatedOnce
<1> QED
  BY <1>1, CreditAlways, PTL

\* What a cycle or a record says is applied is in the score file, when the
\* scheduler does not write it.
THEOREM WhatIsAppliedIsInFile == SettlementSpec => []AppliedIsInFile
<1>1. CreditInv => AppliedIsInFile
  BY DEF CreditInv, OneWriter, AppliedTrue, AppliedIsInFile
<1> QED
  BY <1>1, CreditAlways, PTL

=============================================================================
