---------------------------- MODULE CandidateCase ----------------------------
(***************************************************************************)
(* The verdict on one candidate case: what the runtime's ranking and the   *)
(* agents' opinions make of it, and whether it enters the execution pool   *)
(* that the precheck takes its buys from.                                  *)
(*                                                                         *)
(* The API records opinions and then rebuilds the verdict, takes tickets   *)
(* and rebuilds on demand.  Each reads the file and writes it whole, with  *)
(* no lock over both.  The sync of a runtime report, a job's or the API's, *)
(* holds the lock over its read and its write.  The other cases of the     *)
(* file are left out, and so are the texts the verdict carries.            *)
(***************************************************************************)
EXTENDS Integers, FiniteSets

CONSTANTS
  Agents,    \* DISCUSSION_AGENT_IDS
  Risk,      \* ashare-risk
  Audit,     \* ashare-audit
  Stances,   \* stances that occur
  MaxRounds, \* rounds opinions are about
  NoCase     \* no such case yet

ASSUME CandidateAssumption ==
  /\ IsFiniteSet(Agents) /\ {Risk, Audit} \subseteq Agents /\ Risk # Audit
  /\ Stances \subseteq {"support", "watch", "limit", "question", "rejected"}
  /\ MaxRounds \in Nat \ {0}

VARIABLES
  candidate, \* the case in the file
  handling,  \* the API's handler: its next step and the case it read
  lastWord   \* the last stance the risk and the audit agent have given

candidateVars == <<candidate, handling, lastWord>>

Rounds == 1..MaxRounds
Words == Stances \cup {"nothing"}
NothingSaid == [a \in {Risk, Audit} |-> "nothing"]

\* opinions: an agent's latest stance in a round.  latest: the stance of its
\* opinion written last, whatever round that is about.  "question" stands for
\* a hold as well, which the rules treat alike.
CandidateCases ==
  [opinions : [Agents -> [Rounds -> Words]], latest : [{Risk, Audit} -> Words],
   risk_gate : {"pending", "allow", "limit", "reject"}, audit_gate : {"pending", "clear", "hold"},
   final_status : {"selected", "watchlist", "rejected"}, buy : BOOLEAN, focus : BOOLEAN]

ASSUME NoCaseAssumption == NoCase \notin CandidateCases

NewCase(status, buy, focus) ==
  [opinions |-> [a \in Agents |-> [r \in Rounds |-> "nothing"]], latest |-> NothingSaid,
   risk_gate |-> "pending", audit_gate |-> "pending",
   final_status |-> status, buy |-> buy, focus |-> focus]

-----------------------------------------------------------------------------
(* The verdict. *)

RoundsHeard(c) == {r \in Rounds : \E a \in Agents : c.opinions[a][r] # "nothing"}
Covered(c, r) == \A a \in Agents : c.opinions[a][r] # "nothing"
Newest(S) == CHOOSE r \in S : \A q \in S : q <= r

\* The newest round every agent has spoken in, or the newest there is.
EffectiveRound(c) ==
  LET covered == {r \in Rounds : Covered(c, r)}
  IN IF RoundsHeard(c) = {} THEN 1 ELSE Newest(IF covered # {} THEN covered ELSE RoundsHeard(c))

Votes(c, stance) == Cardinality({a \in Agents : c.opinions[a][EffectiveRound(c)] = stance})

\* Mutant: the gatekeepers' words in the round that counts, as for votes.
GateWordOfRound(c, a) == c.opinions[a][EffectiveRound(c)]
GateWord(c, a) == c.latest[a]

RiskGate(word) ==
  CASE word = "nothing"  -> "pending"
    [] word = "rejected" -> "reject"
    [] word = "support"  -> "allow"
    [] OTHER             -> "limit"

AuditGate(word) ==
  CASE word = "nothing" -> "pending"
    [] word \in {"rejected", "question"} -> "hold"
    [] OTHER -> "clear"

Agreed(c) == c.audit_gate = "clear" /\ c.risk_gate \in {"allow", "limit"} /\ Votes(c, "support") >= 2

Worthwhile(c) ==
  \/ Votes(c, "support") >= 1
  \/ Votes(c, "watch") >= 2
  \/ c.buy /\ Votes(c, "watch") + Votes(c, "limit") >= 2

Dismissed(c) == Votes(c, "rejected") >= 2 /\ Votes(c, "support") = 0

Refused(c) ==
  \/ c.risk_gate = "reject"
  \/ c.audit_gate = "hold" /\ Dismissed(c)
  \/ /\ c.audit_gate # "hold" /\ ~Worthwhile(c)
     /\ Dismissed(c) \/ Votes(c, "question") >= 2 \/ ~c.focus

FinalStatus(c) ==
  IF Agreed(c) THEN "selected" ELSE IF Refused(c) THEN "rejected" ELSE "watchlist"

\* _apply_summaries: the gates first, the status from them.
Rebuilt(c) ==
  LET gated == [c EXCEPT !.risk_gate  = RiskGate(GateWord(c, Risk)),
                         !.audit_gate = AuditGate(GateWord(c, Audit))]
  IN [gated EXCEPT !.final_status = FinalStatus(gated)]

WithOpinion(c, a, r, stance) ==
  [c EXCEPT !.opinions[a][r] = stance,
            !.latest = [b \in {Risk, Audit} |-> IF b = a THEN stance ELSE c.latest[b]]]

\* The ranks the pools' capacities tell apart.
Ranks == {"execution", "focus", "beyond"}
RuntimeStatus(rank, buy) ==
  IF rank = "execution" /\ buy THEN "selected" ELSE IF rank = "beyond" THEN "rejected" ELSE "watchlist"

\* What a report makes of a case; a discussed one keeps its verdict.
Synced(c, rank, buy) ==
  IF c = NoCase THEN NewCase(RuntimeStatus(rank, buy), buy, rank # "beyond")
  ELSE [c EXCEPT !.buy = buy, !.focus = rank # "beyond",
                 !.final_status = IF RoundsHeard(c) # {} THEN c.final_status ELSE RuntimeStatus(rank, buy)]

\* A ticket of an agent changes nothing of a case that exists.
Ticketed(c) == IF c = NoCase THEN NewCase("watchlist", FALSE, FALSE) ELSE c

\* _select_execution_pool, of this case, when the pool has room for it.
InExecutionPool(c) ==
  c # NoCase /\ c.final_status = "selected" /\ c.risk_gate # "reject" /\ c.audit_gate # "hold"

-----------------------------------------------------------------------------
(* The handlers. *)

Free == [next |-> "idle", read |-> NoCase]

\* record_opinions_batch, upsert_candidate_tickets and rebuild_case begin with
\* a read; the rebuild after the first two reads again.
Reads(next, following) ==
  /\ handling.next = next
  /\ handling' = [next |-> following, read |-> candidate]
  /\ UNCHANGED <<candidate, lastWord>>

BeginOpinions == Reads("idle", "record")
BeginTicket == Reads("idle", "ticket")
BeginRebuild == Reads("idle", "rebuild")
ReadAgain == Reads("read again", "rebuild")

\* An opinion may be about any round, a past one as well.
RecordOpinion ==
  /\ handling.next = "record" /\ handling.read # NoCase
  /\ \E a \in Agents, r \in Rounds, stance \in Stances :
       /\ candidate' = WithOpinion(handling.read, a, r, stance)
       /\ lastWord' = [b \in {Risk, Audit} |-> IF b = a THEN stance ELSE lastWord[b]]
  /\ handling' = [next |-> "read again", read |-> NoCase]

RecordTicket ==
  /\ handling.next = "ticket"
  /\ candidate' = Ticketed(handling.read)
  /\ handling' \in {Free, [next |-> "read again", read |-> NoCase]} \* auto_rebuild
  /\ UNCHANGED lastWord

Rebuild ==
  /\ handling.next = "rebuild" /\ handling.read # NoCase
  /\ candidate' = Rebuilt(handling.read)
  /\ handling' = Free
  /\ UNCHANGED lastWord

\* "candidate case not found".
NotFound ==
  /\ handling.next \in {"record", "rebuild"} /\ handling.read = NoCase
  /\ handling' = Free
  /\ UNCHANGED <<candidate, lastWord>>

\* sync_from_runtime_report, for a report not synced before.
Sync ==
  /\ \E rank \in Ranks, buy \in BOOLEAN : candidate' = Synced(candidate, rank, buy)
  /\ UNCHANGED <<handling, lastWord>>

-----------------------------------------------------------------------------
CandidateInit ==
  /\ candidate = NoCase
  /\ handling = Free
  /\ lastWord = NothingSaid

CandidateNext ==
  \/ BeginOpinions \/ BeginTicket \/ BeginRebuild \/ ReadAgain
  \/ RecordOpinion \/ RecordTicket \/ Rebuild \/ NotFound
  \/ Sync

CandidateSpec == CandidateInit /\ [][CandidateNext]_candidateVars

-----------------------------------------------------------------------------
(* Properties. *)

\* Every variable has its type.
CandidateTypeOK ==
  /\ candidate \in CandidateCases \cup {NoCase}
  /\ handling \in [next : {"idle", "record", "ticket", "rebuild", "read again"},
                   read : CandidateCases \cup {NoCase}]
  /\ lastWord \in [{Risk, Audit} -> Words]

\* What the roles of the agents promise: the risk agent vetoes alone, the audit
\* agent holds alone, and the others decide by votes.  Between the API's
\* handlers the execution pool has no case against the last word either
\* gatekeeper gave, about whatever round and whatever the others voted; and a
\* case the agents spoke on is in it by two supporters in the round that
\* counts, not by its rank, whatever reports and tickets came in meanwhile.
PoolHeedsAgents ==
  handling.next = "idle" /\ InExecutionPool(candidate) =>
    /\ lastWord[Risk] # "rejected" /\ lastWord[Audit] \notin {"question", "rejected"}
    /\ RoundsHeard(candidate) # {} => Votes(candidate, "support") >= 2

\* Not kept: a rejection of the newest round stands.  An answer about an
\* earlier round that comes late takes its place as the last word.
NewestRejectionStands ==
  handling.next = "idle" /\ InExecutionPool(candidate) =>
    \A r \in RoundsHeard(candidate) :
      candidate.opinions[Risk][r] = "rejected" =>
        \E q \in Rounds : q > r /\ candidate.opinions[Risk][q] # "nothing"

=============================================================================
