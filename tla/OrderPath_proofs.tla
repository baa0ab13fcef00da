------------------------- MODULE OrderPath_proofs --------------------------
(***************************************************************************)
(* Proofs about the path from the agents' opinions to the day's orders, in *)
(* the order of the path:                                                  *)
(*   CandidateCase      a case is in the pool by the agents' last words    *)
(*   ExecutionPrecheck  what one pass approves keeps the limits            *)
(*   TradingDay         what the day's dispatches buy keeps them too, and  *)
(*                      no symbol is bought twice                          *)
(*                                                                         *)
(* The limits are sums over sets of any size, so the module begins with    *)
(* what sums are.                                                          *)
(***************************************************************************)
EXTENDS CandidateCase, ExecutionPrecheck, TradingDay, FiniteSetTheorems, TLAPS

-----------------------------------------------------------------------------
(* Sums over finite sets.  MapThenSumSet is defined by a function on the    *)
(* subsets of its set, which takes out one chosen element after the other.  *)

\* f is that function, for the subsets of S and the terms g.
Taken(s) == CHOOSE x \in s : TRUE
IsSum(f, S, g) ==
  f = [s \in SUBSET S |-> IF s = {} THEN 0 ELSE g[Taken(s)] + f[s \ {Taken(s)}]]

SumOf(g, S) == (CHOOSE f : IsSum(f, S, g))[S]

\* A set of subsets of a finite set that is not empty has a least one.
LEMMA LeastSubset ==
  ASSUME NEW S, IsFiniteSet(S), NEW B, B \subseteq SUBSET S, B # {}
  PROVE  \E s \in B : \A t \in SUBSET s : t # s => t \notin B
<1>1. IsWellFoundedOn(StrictSubsetOrdering(S), SUBSET S)
  BY FS_StrictSubsetOrderingWellFounded, FS_FiniteSubsetsOfFinite
<1>2. PICK s \in B : \A t \in B : <<t, s>> \notin StrictSubsetOrdering(S)
  BY <1>1, WFMin
<1> QED
  BY <1>2 DEF StrictSubsetOrdering

LEMMA TakenIsIn == ASSUME NEW s, s # {} PROVE Taken(s) \in s
  BY DEF Taken

\* Two such functions agree where their terms do.
LEMMA SumsAgree ==
  ASSUME NEW S, NEW T, NEW g, NEW h, NEW f1, NEW f2, IsSum(f1, S, g), IsSum(f2, T, h),
         NEW U, IsFiniteSet(U), U \subseteq S, U \subseteq T, \A x \in U : g[x] = h[x]
  PROVE  f1[U] = f2[U]
<1> DEFINE B == {s \in SUBSET U : f1[s] # f2[s]}
<1>1. SUFFICES ASSUME B # {} PROVE FALSE
  OBVIOUS
<1>2. PICK s \in B : \A t \in SUBSET s : t # s => t \notin B
  <2>1. B \subseteq SUBSET U
    OBVIOUS
  <2> HIDE DEF B
  <2> QED
    BY <1>1, <2>1, LeastSubset
<1>3. s \in SUBSET S /\ s \in SUBSET T /\ s \subseteq U
  OBVIOUS
<1>4. /\ f1[s] = IF s = {} THEN 0 ELSE g[Taken(s)] + f1[s \ {Taken(s)}]
      /\ f2[s] = IF s = {} THEN 0 ELSE h[Taken(s)] + f2[s \ {Taken(s)}]
  BY <1>3 DEF IsSum
<1>5. s # {}
  BY <1>4
<1>6. Taken(s) \in s
  BY <1>5, TakenIsIn
<1>7. s \ {Taken(s)} \notin B
  BY <1>2, <1>6
<1>8. f1[s \ {Taken(s)}] = f2[s \ {Taken(s)}] /\ g[Taken(s)] = h[Taken(s)]
  BY <1>3, <1>6, <1>7
<1> QED
  BY <1>4, <1>5, <1>8

\* There is such a function: each of its values is a sum over a smaller set.
LEMMA SumExists ==
  ASSUME NEW S, IsFiniteSet(S), NEW g
  PROVE  \E f : IsSum(f, S, g)
<1> DEFINE B == {s \in SUBSET S : ~ \E f : IsSum(f, s, g)}
<1>1. SUFFICES ASSUME B # {} PROVE FALSE
  OBVIOUS
<1>2. PICK u \in B : \A t \in SUBSET u : t # u => t \notin B
  <2>1. B \subseteq SUBSET S
    OBVIOUS
  <2> HIDE DEF B
  <2> QED
    BY <1>1, <2>1, LeastSubset
<1> DEFINE F(s) == CHOOSE f : IsSum(f, s, g)
           f == [s \in SUBSET u |->
                   IF s = {} THEN 0
                   ELSE g[Taken(s)] + F(s \ {Taken(s)})[s \ {Taken(s)}]]
<1>3. ASSUME NEW t \in SUBSET u, t # u PROVE IsSum(F(t), t, g)
  <2>1. \E e : IsSum(e, t, g)
    BY <1>2, <1>3
  <2> QED
    BY <2>1
<1>4. ASSUME NEW t \in SUBSET u, t # u PROVE f[t] = F(t)[t]
  <2>1. F(t)[t] = IF t = {} THEN 0 ELSE g[Taken(t)] + F(t)[t \ {Taken(t)}]
    <3> HIDE DEF F
    <3> QED
      BY <1>3, <1>4 DEF IsSum
  <2>2. CASE t = {}
    BY <2>1, <2>2
  <2>3. CASE t # {}
    <3> DEFINE r == t \ {Taken(t)}
    <3>1. Taken(t) \in t
      BY <2>3, TakenIsIn
    <3>2. r \in SUBSET u /\ r # u /\ r \subseteq t
      BY <3>1
    <3>3. IsFiniteSet(r)
      BY <3>2, FS_Subset
    <3>4. F(t)[r] = F(r)[r]
      <4>1. IsSum(F(t), t, g) /\ IsSum(F(r), r, g)
        BY <1>3, <1>4, <3>2
      <4> HIDE DEF F, r
      <4> QED
        BY <3>2, <3>3, <4>1, SumsAgree
    <3> QED
      BY <2>1, <2>3, <3>4
  <2> QED
    BY <2>2, <2>3
<1>5. IsSum(f, u, g)
  <2>1. ASSUME NEW s \in SUBSET u, s # {}
        PROVE  f[s \ {Taken(s)}] = F(s \ {Taken(s)})[s \ {Taken(s)}]
    <3>1. s \ {Taken(s)} \in SUBSET u /\ s \ {Taken(s)} # u
      BY <2>1, TakenIsIn
    <3> QED
      BY <1>4, <3>1
  <2> HIDE DEF F
  <2>2. \A s \in SUBSET u :
          f[s] = IF s = {} THEN 0 ELSE g[Taken(s)] + f[s \ {Taken(s)}]
    BY <2>1
  <2>3. f = [s \in SUBSET u |-> f[s]]
    OBVIOUS
  <2> HIDE DEF f
  <2>4. f = [s \in SUBSET u |-> IF s = {} THEN 0 ELSE g[Taken(s)] + f[s \ {Taken(s)}]]
    BY <2>2, <2>3
  <2> QED
    BY <2>4 DEF IsSum
<1> QED
  BY <1>2, <1>5

LEMMA SumOfIsSum ==
  ASSUME NEW S, IsFiniteSet(S), NEW g
  PROVE  \E f : IsSum(f, S, g) /\ SumOf(g, S) = f[S]
BY SumExists DEF SumOf

LEMMA SumOfEmpty ==
  ASSUME NEW g
  PROVE SumOf(g, {}) = 0
<1>1. PICK f : IsSum(f, {}, g) /\ SumOf(g, {}) = f[{}]
  BY SumOfIsSum, FS_EmptySet
<1> QED
  BY <1>1 DEF IsSum

\* Equal terms, equal sums.
LEMMA SumOfSame ==
  ASSUME NEW S, IsFiniteSet(S), NEW g, NEW h, \A x \in S : g[x] = h[x]
  PROVE  SumOf(g, S) = SumOf(h, S)
<1>1. PICK f1 : IsSum(f1, S, g) /\ SumOf(g, S) = f1[S]
  BY SumOfIsSum
<1>2. PICK f2 : IsSum(f2, S, h) /\ SumOf(h, S) = f2[S]
  BY SumOfIsSum
<1> QED
  BY <1>1, <1>2, SumsAgree

LEMMA SumOfTaken ==
  ASSUME NEW S, IsFiniteSet(S), S # {}, NEW g
  PROVE  SumOf(g, S) = g[Taken(S)] + SumOf(g, S \ {Taken(S)})
<1> DEFINE T == S \ {Taken(S)}
<1>1. IsFiniteSet(T)
  BY FS_Subset
<1>2. PICK f1 : IsSum(f1, S, g) /\ SumOf(g, S) = f1[S]
  BY SumOfIsSum
<1>3. PICK f2 : IsSum(f2, T, g) /\ SumOf(g, T) = f2[T]
  BY <1>1, SumOfIsSum
<1>4. f1[T] = f2[T]
  <2> HIDE DEF T
  <2>1. T \subseteq S
    BY DEF T
  <2> QED
    BY <1>1, <1>2, <1>3, <2>1, SumsAgree
<1>5. f1[S] = g[Taken(S)] + f1[T]
  BY <1>2 DEF IsSum
<1> QED
  BY <1>2, <1>3, <1>4, <1>5

LEMMA SumOfNat ==
  ASSUME NEW S, IsFiniteSet(S), NEW g, \A x \in S : g[x] \in Nat
  PROVE  SumOf(g, S) \in Nat
<1> DEFINE B == {s \in SUBSET S : SumOf(g, s) \notin Nat}
<1>1. SUFFICES ASSUME B # {} PROVE FALSE
  OBVIOUS
<1>2. PICK s \in B : \A t \in SUBSET s : t # s => t \notin B
  <2>1. B \subseteq SUBSET S
    OBVIOUS
  <2> HIDE DEF B
  <2> QED
    BY <1>1, <2>1, LeastSubset
<1>3. s \subseteq S /\ IsFiniteSet(s)
  BY FS_Subset
<1>4. s # {}
  BY SumOfEmpty
<1>5. Taken(s) \in s
  BY <1>4, TakenIsIn
<1>6. s \ {Taken(s)} \notin B
  BY <1>2, <1>5
<1>7. SumOf(g, s \ {Taken(s)}) \in Nat /\ g[Taken(s)] \in Nat
  BY <1>3, <1>5, <1>6
<1>8. SumOf(g, s) = g[Taken(s)] + SumOf(g, s \ {Taken(s)})
  BY <1>3, <1>4, SumOfTaken
<1>9. s \in B => SumOf(g, s) \notin Nat
  OBVIOUS
<1> HIDE DEF B
<1> QED
  BY <1>2, <1>7, <1>8, <1>9

LEMMA SumOfZero ==
  ASSUME NEW S, IsFiniteSet(S), NEW g, \A x \in S : g[x] = 0
  PROVE  SumOf(g, S) = 0
<1> DEFINE B == {s \in SUBSET S : SumOf(g, s) # 0}
<1>1. SUFFICES ASSUME B # {} PROVE FALSE
  OBVIOUS
<1>2. PICK s \in B : \A t \in SUBSET s : t # s => t \notin B
  <2>1. B \subseteq SUBSET S
    OBVIOUS
  <2> HIDE DEF B
  <2> QED
    BY <1>1, <2>1, LeastSubset
<1>3. s \subseteq S /\ IsFiniteSet(s) /\ SumOf(g, s) # 0
  BY FS_Subset
<1>4. s # {}
  BY <1>3, SumOfEmpty
<1>5. Taken(s) \in s
  BY <1>4, TakenIsIn
<1>6. SumOf(g, s \ {Taken(s)}) = 0 /\ g[Taken(s)] = 0
  BY <1>2, <1>3, <1>5
<1> QED
  BY <1>3, <1>4, <1>6, SumOfTaken

\* The sum does not depend on the order: any element may be taken out first.
LEMMA SumOfWithout ==
  ASSUME NEW S, IsFiniteSet(S), NEW g, \A z \in S : g[z] \in Nat, NEW x \in S
  PROVE  SumOf(g, S) = g[x] + SumOf(g, S \ {x})
<1> DEFINE B == {s \in SUBSET S : \E z \in s : SumOf(g, s) # g[z] + SumOf(g, s \ {z})}
<1>1. SUFFICES ASSUME B # {} PROVE FALSE
  OBVIOUS
<1>2. PICK s \in B : \A t \in SUBSET s : t # s => t \notin B
  <2>1. B \subseteq SUBSET S
    OBVIOUS
  <2> HIDE DEF B
  <2> QED
    BY <1>1, <2>1, LeastSubset
<1>3. s \subseteq S /\ IsFiniteSet(s)
  BY FS_Subset
<1>4. PICK z \in s : SumOf(g, s) # g[z] + SumOf(g, s \ {z})
  OBVIOUS
<1>5. ASSUME NEW t \in SUBSET s, t # s, NEW e \in t
      PROVE  SumOf(g, t) = g[e] + SumOf(g, t \ {e})
  BY <1>2, <1>3, <1>5
<1> HIDE DEF B
<1> DEFINE y == Taken(s)
<1>6. y \in s /\ SumOf(g, s) = g[y] + SumOf(g, s \ {y})
  BY <1>3, <1>4, TakenIsIn, SumOfTaken
<1> HIDE DEF y
<1>7. y # z
  BY <1>4, <1>6
<1> DEFINE r == (s \ {y}) \ {z}
<1>8. SumOf(g, s \ {y}) = g[z] + SumOf(g, r)
  BY <1>4, <1>5, <1>6, <1>7
<1>9. SumOf(g, s \ {z}) = g[y] + SumOf(g, r)
  <2>1. (s \ {z}) \ {y} = r
    OBVIOUS
  <2>2. SumOf(g, s \ {z}) = g[y] + SumOf(g, (s \ {z}) \ {y})
    BY <1>4, <1>5, <1>6, <1>7
  <2> QED
    BY <2>1, <2>2
<1>10. SumOf(g, r) \in Nat
  <2>1. IsFiniteSet(r) /\ r \subseteq S
    BY <1>3, FS_Subset
  <2> HIDE DEF r
  <2> QED
    BY <2>1, SumOfNat
<1>11. g[y] \in Nat /\ g[z] \in Nat
  BY <1>3, <1>6
<1> HIDE DEF r
<1> QED
  BY <1>4, <1>6, <1>8, <1>9, <1>10, <1>11

\* A part sums to no more than the whole.
LEMMA SumOfPart ==
  ASSUME NEW S, IsFiniteSet(S), NEW g, \A x \in S : g[x] \in Nat, NEW T \in SUBSET S
  PROVE  SumOf(g, T) <= SumOf(g, S)
<1> DEFINE B == {s \in SUBSET S : T \subseteq s /\ ~(SumOf(g, T) <= SumOf(g, s))}
<1>1. SUFFICES ASSUME B # {} PROVE FALSE
  OBVIOUS
<1>2. PICK s \in B : \A t \in SUBSET s : t # s => t \notin B
  <2>1. B \subseteq SUBSET S
    OBVIOUS
  <2> HIDE DEF B
  <2> QED
    BY <1>1, <2>1, LeastSubset
<1>3. /\ s \subseteq S /\ IsFiniteSet(s) /\ T \subseteq s
      /\ ~(SumOf(g, T) <= SumOf(g, s))
  BY FS_Subset
<1>4. SumOf(g, T) \in Nat /\ SumOf(g, s) \in Nat
  BY <1>3, SumOfNat, FS_Subset
<1>5. PICK x \in s : x \notin T
  BY <1>3, <1>4
<1>6. SumOf(g, T) <= SumOf(g, s \ {x})
  BY <1>2, <1>3, <1>5
<1>7. SumOf(g, s) = g[x] + SumOf(g, s \ {x}) /\ g[x] \in Nat
  BY <1>3, <1>5, SumOfWithout
<1>8. SumOf(g, s \ {x}) \in Nat
  <2>1. IsFiniteSet(s \ {x}) /\ s \ {x} \subseteq S
    BY <1>3, FS_Subset
  <2> QED
    BY <2>1, SumOfNat
<1> HIDE DEF B
<1> QED
  BY <1>3, <1>4, <1>6, <1>7, <1>8

-----------------------------------------------------------------------------
(* The verdict on a case.  While a handler is between its read and its      *)
(* write, reports may change the case, but never what the agents said of    *)
(* it: the file, the copy in hand and the last words agree on that.         *)

\* A case that is selected after a discussion has the gatekeepers' latest
\* words and two supporters for it.
Deserved(c) ==
  c.final_status = "selected" /\ RoundsHeard(c) # {} =>
    /\ c.latest[Risk] # "rejected"
    /\ c.latest[Audit] \notin {"question", "rejected"}
    /\ Votes(c, "support") >= 2

\* Of a case no one has spoken on there is no last word.
Heeds(c, words) == c.latest = words /\ (RoundsHeard(c) = {} => words = NothingSaid)

Copy == [next : {"idle", "record", "ticket", "rebuild", "read again"},
         read : CandidateCases \cup {NoCase}]

\* The file's case c, the handler h, and what was said last.
Agree(c, h, words) ==
  /\ c \in CandidateCases \cup {NoCase}
  /\ h \in Copy
  /\ words \in [{Risk, Audit} -> Words]
  /\ IF c = NoCase THEN words = NothingSaid ELSE Heeds(c, words)
  /\ h.read # NoCase =>
       c # NoCase /\ h.read.latest = c.latest /\ h.read.opinions = c.opinions
  /\ h.next \in {"record", "ticket", "rebuild"} /\ h.read = NoCase =>
       c = NoCase \/ RoundsHeard(c) = {}
  /\ h.next \in {"idle", "record", "ticket"} /\ c # NoCase => Deserved(c)
  /\ h.next = "ticket" /\ h.read # NoCase => Deserved(h.read)

CandidateInv == Agree(candidate, handling, lastWord)

\* What the agents said decides the rounds heard and the votes.
LEMMA SameWords ==
  ASSUME NEW c, NEW d, c.opinions = d.opinions
  PROVE  /\ RoundsHeard(c) = RoundsHeard(d)
         /\ \A stance : Votes(c, stance) = Votes(d, stance)
<1>1. RoundsHeard(c) = RoundsHeard(d)
  BY Zenon DEF RoundsHeard
<1>2. \A r : Covered(c, r) <=> Covered(d, r)
  BY Zenon DEF Covered
<1>3. {r \in Rounds : Covered(c, r)} = {r \in Rounds : Covered(d, r)}
  BY <1>2, Zenon
<1>4. EffectiveRound(c) = EffectiveRound(d)
  BY <1>1, <1>3, Zenon DEF EffectiveRound
<1>5. \A stance : Votes(c, stance) = Votes(d, stance)
  BY <1>4, Zenon DEF Votes
<1> QED
  BY <1>1, <1>5

LEMMA SameDeserved ==
  ASSUME NEW c, NEW d, c.opinions = d.opinions, c.latest = d.latest, c.final_status = d.final_status
  PROVE  Deserved(c) <=> Deserved(d)
  BY SameWords DEF Deserved

LEMMA CaseFields ==
  ASSUME NEW c \in CandidateCases
  PROVE  /\ c.opinions \in [Agents -> [Rounds -> Words]]
         /\ c.latest \in [{Risk, Audit} -> Words]
         /\ c.risk_gate \in {"pending", "allow", "limit", "reject"}
         /\ c.audit_gate \in {"pending", "clear", "hold"}
         /\ c.final_status \in {"selected", "watchlist", "rejected"}
         /\ c.buy \in BOOLEAN /\ c.focus \in BOOLEAN
  BY DEF CandidateCases

\* A new case: nobody has spoken.
LEMMA NewCaseFacts ==
  ASSUME NEW status \in {"selected", "watchlist", "rejected"}, NEW buy \in BOOLEAN, NEW focus \in BOOLEAN
  PROVE  /\ NewCase(status, buy, focus) \in CandidateCases
         /\ RoundsHeard(NewCase(status, buy, focus)) = {}
         /\ NewCase(status, buy, focus).latest = NothingSaid
<1> DEFINE c == NewCase(status, buy, focus)
<1>1. /\ c.opinions = [a \in Agents |-> [r \in Rounds |-> "nothing"]]
      /\ c.latest = NothingSaid
  BY DEF NewCase
<1>2. c \in CandidateCases
  BY DEF NewCase, CandidateCases, NothingSaid, Words
<1>3. RoundsHeard(c) = {}
  BY <1>1 DEF RoundsHeard
<1> QED
  BY <1>1, <1>2, <1>3

\* A rebuilt case keeps what was said, and is selected only as it deserves.
LEMMA RebuiltFacts ==
  ASSUME NEW c \in CandidateCases
  PROVE  /\ Rebuilt(c) \in CandidateCases
         /\ Rebuilt(c).opinions = c.opinions
         /\ Rebuilt(c).latest = c.latest
         /\ Deserved(Rebuilt(c))
<1> DEFINE g == [c EXCEPT !.risk_gate  = RiskGate(GateWord(c, Risk)),
                          !.audit_gate = AuditGate(GateWord(c, Audit))]
           d == Rebuilt(c)
<1>1. /\ RiskGate(GateWord(c, Risk)) \in {"pending", "allow", "limit", "reject"}
      /\ AuditGate(GateWord(c, Audit)) \in {"pending", "clear", "hold"}
  BY DEF RiskGate, AuditGate
<1>2. /\ g \in CandidateCases
      /\ g.opinions = c.opinions
      /\ g.latest = c.latest
      /\ g.risk_gate = RiskGate(c.latest[Risk])
      /\ g.audit_gate = AuditGate(c.latest[Audit])
  BY <1>1 DEF CandidateCases, GateWord
<1>3. FinalStatus(g) \in {"selected", "watchlist", "rejected"}
  BY DEF FinalStatus
<1>4. d = [g EXCEPT !.final_status = FinalStatus(g)]
  BY DEF Rebuilt
<1>5. /\ d \in CandidateCases
      /\ d.opinions = g.opinions
      /\ d.latest = g.latest
      /\ d.final_status = FinalStatus(g)
  BY <1>2, <1>3, <1>4 DEF CandidateCases
<1>6. ASSUME d.final_status = "selected"
      PROVE  /\ d.latest[Risk] # "rejected"
             /\ d.latest[Audit] \notin {"question", "rejected"}
             /\ Votes(d, "support") >= 2
  <2>1. Agreed(g)
    BY <1>5, <1>6 DEF FinalStatus
  <2>2. Votes(d, "support") >= 2
    <3>1. Votes(g, "support") >= 2
      BY <2>1 DEF Agreed
    <3>2. Votes(d, "support") = Votes(g, "support")
      BY <1>5, SameWords
    <3> QED
      BY <3>1, <3>2
  <2>3. RiskGate(c.latest[Risk]) \in {"allow", "limit"} /\ AuditGate(c.latest[Audit]) = "clear"
    BY <1>2, <2>1 DEF Agreed
  <2>4. c.latest[Risk] # "rejected"
    BY <2>3 DEF RiskGate
  <2>5. c.latest[Audit] \notin {"question", "rejected"}
    BY <2>3 DEF AuditGate
  <2> QED
    BY <1>2, <1>5, <2>2, <2>4, <2>5
<1> QED
  BY <1>2, <1>5, <1>6 DEF Deserved

\* An opinion is one more word.
LEMMA OpinionFacts ==
  ASSUME NEW c \in CandidateCases, NEW a \in Agents, NEW r \in Rounds, NEW stance \in Stances
  PROVE  /\ WithOpinion(c, a, r, stance) \in CandidateCases
         /\ WithOpinion(c, a, r, stance).latest
              = [b \in {Risk, Audit} |-> IF b = a THEN stance ELSE c.latest[b]]
         /\ RoundsHeard(WithOpinion(c, a, r, stance)) # {}
<1> DEFINE d == WithOpinion(c, a, r, stance)
           said == [c.opinions EXCEPT ![a] = [c.opinions[a] EXCEPT ![r] = stance]]
           latest == [b \in {Risk, Audit} |-> IF b = a THEN stance ELSE c.latest[b]]
<1>1. stance \in Words /\ stance # "nothing"
  BY CandidateAssumption DEF Words
<1>2. d = [[c EXCEPT !.opinions = said] EXCEPT !.latest = latest]
  BY DEF WithOpinion
<1>3. said \in [Agents -> [Rounds -> Words]]
  BY <1>1, CaseFields
<1>4. latest \in [{Risk, Audit} -> Words]
  BY <1>1, CaseFields
<1>5. d \in CandidateCases /\ d.latest = latest /\ d.opinions = said
  BY <1>2, <1>3, <1>4 DEF CandidateCases
<1>6. said[a][r] = stance
  BY CaseFields
<1>7. r \in RoundsHeard(d)
  BY <1>1, <1>5, <1>6 DEF RoundsHeard
<1> QED
  BY <1>5, <1>7

\* A report keeps what was said, and the verdict with it.
LEMMA SyncedFacts ==
  ASSUME NEW c \in CandidateCases, c # NoCase, NEW rank \in Ranks, NEW buy \in BOOLEAN
  PROVE  /\ Synced(c, rank, buy) \in CandidateCases
         /\ Synced(c, rank, buy).opinions = c.opinions
         /\ Synced(c, rank, buy).latest = c.latest
         /\ RoundsHeard(c) # {} => Synced(c, rank, buy).final_status = c.final_status
<1> DEFINE status == IF RoundsHeard(c) # {} THEN c.final_status ELSE RuntimeStatus(rank, buy)
<1>1. status \in {"selected", "watchlist", "rejected"}
  BY CaseFields DEF RuntimeStatus
<1>2. Synced(c, rank, buy)
        = [[[c EXCEPT !.buy = buy] EXCEPT !.focus = rank # "beyond"] EXCEPT !.final_status = status]
  BY DEF Synced
<1>3. (rank # "beyond") \in BOOLEAN
  OBVIOUS
<1> HIDE DEF status
<1>4. /\ Synced(c, rank, buy) \in CandidateCases
      /\ Synced(c, rank, buy).opinions = c.opinions
      /\ Synced(c, rank, buy).latest = c.latest
      /\ Synced(c, rank, buy).final_status = status
  BY <1>1, <1>2, <1>3 DEF CandidateCases
<1> QED
  BY <1>4 DEF status

\* At the start there is no case.
LEMMA CandidateInvInit == CandidateInit => CandidateInv
<1>1. NothingSaid \in [{Risk, Audit} -> Words]
  BY DEF NothingSaid, Words
<1> QED
  BY <1>1 DEF CandidateInit, CandidateInv, Agree, Copy, Free

\* A handler that read the case agrees with it until it writes, and what it
\* writes is what was said; a report between the two changes neither.
LEMMA CandidateInvStep ==
  ASSUME CandidateInv, [CandidateNext]_candidateVars
  PROVE  CandidateInv'
<1> DEFINE c == handling.read
<1> USE DEF CandidateInv
<1>1. ASSUME NEW following \in {"record", "ticket", "rebuild"},
             Reads("idle", following) \/ (following = "rebuild" /\ Reads("read again", following))
      PROVE  CandidateInv'
  <2>1. /\ handling' = [next |-> following, read |-> candidate]
        /\ UNCHANGED <<candidate, lastWord>>
        /\ handling.next = "idle" \/ (handling.next = "read again" /\ following = "rebuild")
    BY <1>1 DEF Reads
  <2>2. /\ handling'.next = following
        /\ handling'.read = candidate
        /\ handling' \in Copy
    BY <2>1 DEF Agree, Copy
  <2> QED
    BY <2>1, <2>2 DEF Agree, Heeds
<1>2. CASE RecordOpinion
  <2>1. PICK a \in Agents, r \in Rounds, stance \in Stances :
          /\ candidate' = WithOpinion(c, a, r, stance)
          /\ lastWord' = [b \in {Risk, Audit} |-> IF b = a THEN stance ELSE lastWord[b]]
          /\ handling' = [next |-> "read again", read |-> NoCase]
          /\ c # NoCase
    BY <1>2 DEF RecordOpinion
  <2>2. c \in CandidateCases /\ c.latest = lastWord
    BY <2>1 DEF Agree, Copy, Heeds
  <2>3. /\ candidate' \in CandidateCases
        /\ candidate'.latest = lastWord'
        /\ RoundsHeard(candidate') # {}
    <3> DEFINE d == WithOpinion(c, a, r, stance)
    <3>1. /\ d \in CandidateCases
          /\ d.latest = [b \in {Risk, Audit} |-> IF b = a THEN stance ELSE c.latest[b]]
          /\ RoundsHeard(d) # {}
      BY <2>2, OpinionFacts
    <3>2. d.latest = [b \in {Risk, Audit} |-> IF b = a THEN stance ELSE lastWord[b]]
      BY <2>2, <3>1
    <3>3. candidate' = d
      BY <2>1
    <3>4. RoundsHeard(candidate') = RoundsHeard(d)
      BY <3>3, SameWords
    <3> HIDE DEF d
    <3> QED
      BY <2>1, <3>1, <3>2, <3>3, <3>4
  <2>4. lastWord' \in [{Risk, Audit} -> Words]
    BY <2>3, CaseFields
  <2>5. handling'.next = "read again" /\ handling'.read = NoCase /\ handling' \in Copy
    BY <2>1 DEF Copy
  <2> QED
    BY <2>3, <2>4, <2>5, NoCaseAssumption DEF Agree, Heeds
<1>3. CASE RecordTicket
  <2>1. /\ handling.next = "ticket"
        /\ candidate' = Ticketed(c)
        /\ handling' \in {Free, [next |-> "read again", read |-> NoCase]}
        /\ UNCHANGED lastWord
    BY <1>3 DEF RecordTicket
  <2>0. /\ handling'.next \in {"idle", "read again"}
        /\ handling'.read = NoCase
        /\ handling' \in Copy
    <3>1. CASE handling' = [next |-> "idle", read |-> NoCase]
      BY <3>1 DEF Copy
    <3>2. CASE handling' = [next |-> "read again", read |-> NoCase]
      BY <3>2 DEF Copy
    <3> QED
      BY <2>1, <3>1, <3>2 DEF Free
  <2>2. CASE c = NoCase
    <3>1. candidate' = NewCase("watchlist", FALSE, FALSE)
      BY <2>1, <2>2 DEF Ticketed
    <3>2. /\ candidate' \in CandidateCases
          /\ RoundsHeard(candidate') = {}
          /\ candidate'.latest = NothingSaid
      BY <3>1, NewCaseFacts
    <3>3. lastWord = NothingSaid
      BY <2>1, <2>2 DEF Agree, Heeds
    <3> QED
      BY <2>0, <2>1, <3>2, <3>3, NoCaseAssumption DEF Agree, Heeds, Deserved
  <2>3. CASE c # NoCase
    <3>1. candidate' = c /\ c \in CandidateCases
      BY <2>1, <2>3 DEF Ticketed, Agree, Copy
    <3>2. Deserved(c) /\ c.latest = candidate.latest /\ RoundsHeard(c) = RoundsHeard(candidate)
      BY <2>1, <2>3, SameWords DEF Agree
    <3> QED
      BY <2>0, <2>1, <2>3, <3>1, <3>2 DEF Agree, Heeds
  <2> QED
    BY <2>2, <2>3
<1>4. CASE Rebuild
  <2>1. /\ c # NoCase
        /\ candidate' = Rebuilt(c)
        /\ handling' = Free
        /\ UNCHANGED lastWord
    BY <1>4 DEF Rebuild
  <2>2. c \in CandidateCases /\ Heeds(candidate, lastWord)
    BY <2>1 DEF Agree, Copy
  <2>3. /\ candidate' \in CandidateCases
        /\ candidate'.opinions = candidate.opinions
        /\ candidate'.latest = candidate.latest
        /\ Deserved(candidate')
    BY <2>1, <2>2, RebuiltFacts DEF Agree
  <2>4. RoundsHeard(candidate') = RoundsHeard(candidate)
    BY <2>3, SameWords
  <2> QED
    BY <2>1, <2>2, <2>3, <2>4, NoCaseAssumption DEF Agree, Copy, Heeds, Free
<1>5. CASE NotFound
  BY <1>5 DEF NotFound, Agree, Copy, Heeds, Deserved, Free
<1>6. CASE Sync
  <2>1. PICK rank \in Ranks, buy \in BOOLEAN : candidate' = Synced(candidate, rank, buy)
    BY <1>6 DEF Sync
  <2>2. UNCHANGED <<handling, lastWord>>
    BY <1>6 DEF Sync
  <2>3. CASE candidate = NoCase
    <3>1. PICK status \in {"selected", "watchlist", "rejected"}, focus \in BOOLEAN :
            candidate' = NewCase(status, buy, focus)
      BY <2>1, <2>3 DEF Synced, RuntimeStatus
    <3>2. /\ candidate' \in CandidateCases
          /\ RoundsHeard(candidate') = {}
          /\ candidate'.latest = NothingSaid
      BY <3>1, NewCaseFacts
    <3> QED
      BY <2>2, <2>3, <3>2, NoCaseAssumption DEF Agree, Heeds, Deserved
  <2>4. CASE candidate # NoCase
    <3>1. candidate \in CandidateCases /\ Heeds(candidate, lastWord)
      BY <2>4 DEF Agree
    <3>2. /\ candidate' \in CandidateCases
          /\ candidate'.opinions = candidate.opinions
          /\ candidate'.latest = candidate.latest
          /\ RoundsHeard(candidate) # {} => candidate'.final_status = candidate.final_status
      BY <2>1, <2>4, <3>1, SyncedFacts
    <3>3. RoundsHeard(candidate') = RoundsHeard(candidate)
      BY <3>2, SameWords
    <3>4. Deserved(candidate) => Deserved(candidate')
      BY <3>2, <3>3, SameDeserved DEF Deserved
    <3> QED
      BY <2>2, <2>4, <3>1, <3>2, <3>3, <3>4, NoCaseAssumption DEF Agree, Heeds
  <2> QED
    BY <2>3, <2>4
<1>7. CASE UNCHANGED candidateVars
  BY <1>7 DEF candidateVars
<1> QED
  BY <1>1, <1>2, <1>3, <1>4, <1>5, <1>6, <1>7
     DEF CandidateNext, BeginOpinions, BeginTicket, BeginRebuild, ReadAgain

\* Between the API's handlers a case in the execution pool is there by the
\* gatekeepers' last words and two supporters.
THEOREM PoolHeedsTheAgents == CandidateSpec => []PoolHeedsAgents
<1>1. CandidateInv => PoolHeedsAgents
  BY DEF CandidateInv, Agree, Heeds, Deserved, NothingSaid, PoolHeedsAgents, InExecutionPool
<1> QED
  BY <1>1, CandidateInvInit, CandidateInvStep, PTL DEF CandidateSpec

-----------------------------------------------------------------------------
(* One pass of the precheck.  A case is approved once, so the sum of what    *)
(* was approved grows by what the checks of that moment allowed.             *)

LEMMA LotIsPositive == \A c \in Cases : Lot[c] \in Nat /\ Lot[c] > 0
  BY PrecheckAssumption

LEMMA ProductIsNat == ASSUME NEW a \in Nat, NEW b \in Nat PROVE a * b \in Nat
  OBVIOUS

Worth(lots) == [c \in Cases |-> lots[c] * Lot[c]]

LEMMA ValueIsSum ==
  ASSUME NEW lots
  PROVE  ValueOf(lots) = SumOf(Worth(lots), Cases)
<1> DEFINE P(f) == f = [s \in SUBSET Cases |->
                          IF s = {} THEN 0
                          ELSE lots[Taken(s)] * Lot[Taken(s)] + f[s \ {Taken(s)}]]
<1>1. ValueOf(lots) = (CHOOSE f : P(f))[Cases]
  BY DEF ValueOf, MapThenSumSet, MapThenFoldSet, Taken
<1>2. ASSUME NEW s \in SUBSET Cases, s # {}
      PROVE  Worth(lots)[Taken(s)] = lots[Taken(s)] * Lot[Taken(s)]
  BY <1>2, TakenIsIn DEF Worth
<1>3. \A f : P(f) <=> IsSum(f, Cases, Worth(lots))
  <2> TAKE f
  <2>1. \A s \in SUBSET Cases :
          (IF s = {} THEN 0 ELSE lots[Taken(s)] * Lot[Taken(s)] + f[s \ {Taken(s)}])
        = (IF s = {} THEN 0 ELSE Worth(lots)[Taken(s)] + f[s \ {Taken(s)}])
    BY <1>2
  <2> QED
    BY <2>1, Zenon DEF IsSum
<1>4. IsFiniteSet(Cases)
  BY PrecheckAssumption
<1>5. PICK f : IsSum(f, Cases, Worth(lots)) /\ SumOf(Worth(lots), Cases) = f[Cases]
  BY <1>4, SumOfIsSum
<1> HIDE DEF P
<1>6. P(CHOOSE e : P(e))
  BY <1>3, <1>5
<1>7. IsSum(CHOOSE e : P(e), Cases, Worth(lots))
  BY <1>3, <1>6
<1> QED
  BY <1>1, <1>4, <1>5, <1>7, SumsAgree

\* The value of what is approved, when one more case is.
LEMMA ValueGrows ==
  ASSUME NEW lots \in [Cases -> Nat], NEW c \in Cases, lots[c] = 0, NEW n \in Nat
  PROVE  ValueOf([lots EXCEPT ![c] = n]) = ValueOf(lots) + n * Lot[c]
<1> DEFINE more == [lots EXCEPT ![c] = n]
           rest == Cases \ {c}
<1>1. IsFiniteSet(Cases) /\ IsFiniteSet(rest)
  BY PrecheckAssumption, FS_Subset
<1>2. more \in [Cases -> Nat] /\ more[c] = n
  OBVIOUS
<1>3. \A d \in Cases : Worth(lots)[d] \in Nat /\ Worth(more)[d] \in Nat
  BY <1>2, LotIsPositive, ProductIsNat DEF Worth
<1>4. \A d \in rest : Worth(lots)[d] = Worth(more)[d]
  BY DEF Worth
<1>5. Worth(lots)[c] = 0 /\ Worth(more)[c] = n * Lot[c]
  BY <1>2, LotIsPositive DEF Worth
<1> HIDE DEF rest, more
<1>6. SumOf(Worth(lots), rest) = SumOf(Worth(more), rest)
  BY <1>1, <1>4, SumOfSame
<1>7. SumOf(Worth(lots), rest) \in Nat
  BY <1>1, <1>3, SumOfNat DEF rest
<1>8. /\ SumOf(Worth(lots), Cases) = Worth(lots)[c] + SumOf(Worth(lots), rest)
      /\ SumOf(Worth(more), Cases) = Worth(more)[c] + SumOf(Worth(more), rest)
  BY <1>1, <1>3, SumOfWithout DEF rest
<1>9. n * Lot[c] \in Nat
  BY LotIsPositive, ProductIsNat
<1>10. /\ ValueOf(lots) = SumOf(Worth(lots), Cases)
       /\ ValueOf(more) = SumOf(Worth(more), Cases)
  BY ValueIsSum
<1> QED
  BY <1>5, <1>6, <1>7, <1>8, <1>9, <1>10 DEF more

LEMMA ValueIsNat ==
  ASSUME NEW lots \in [Cases -> Nat]
  PROVE  ValueOf(lots) \in Nat
<1>1. IsFiniteSet(Cases)
  BY PrecheckAssumption
<1>2. \A d \in Cases : Worth(lots)[d] \in Nat
  BY LotIsPositive, ProductIsNat DEF Worth
<1> QED
  BY <1>1, <1>2, SumOfNat, ValueIsSum

LEMMA LeastOfThree ==
  ASSUME NEW a \in Int, NEW b \in Int, NEW c \in Int
  PROVE  Least({a, b, c}) \in Int /\ Least({a, b, c}) <= c
<1>1. \E n \in {a, b, c} : \A m \in {a, b, c} : n <= m
  OBVIOUS
<1> QED
  BY <1>1 DEF Least, Min

\* What is bought with a sum of money costs no more than it.
LEMMA AffordableLots ==
  ASSUME NEW money \in Int, NEW price \in Nat, price > 0, NEW n \in Int, n <= money \div price
  PROVE  n * price <= money
<1> DEFINE q == money \div price
<1>1. q \in Int /\ price * q <= money
  OBVIOUS
<1> HIDE DEF q
<1>2. n <= q
  BY DEF q
<1>3. n * price <= q * price
  BY <1>1, <1>2
<1> QED
  BY <1>1, <1>3

PrecheckInv ==
  /\ account \in Accounts
  /\ todo \subseteq Cases
  /\ approved \in [Cases -> Nat]
  /\ \A c \in todo : approved[c] = 0
  /\ NewExposureKept
  /\ HoldCountKept
  /\ OrdersWithinAccount

LEMMA AccountFields ==
  ASSUME account \in Accounts
  PROVE  /\ account.cash \in Nat /\ account.exposure \in Nat /\ account.maxHold \in Nat
         /\ account.lots \in [Cases -> Nat]
  BY PrecheckAssumption DEF Accounts

LEMMA AllocationBound ==
  ASSUME PrecheckInv, NEW share \in Shares
  PROVE  Allocation(share) \in Int /\ Allocation(share) <= Least2(SingleLimit, account.cash)
<1>1. SingleLimit \in Nat /\ BaseSize \in Nat /\ account.cash \in Nat
  BY AccountFields, PrecheckAssumption DEF PrecheckInv
<1>2. SizedCap \in Int
  BY <1>1 DEF SizedCap, Least2
<1>3. OpenSlots \in Int /\ OpenSlots > 0
  <2>1. Cardinality(HeldCases) \in Nat /\ Cardinality(ReservedNewSymbols) \in Nat
    <3>1. HeldCases \subseteq Cases /\ ReservedNewSymbols \subseteq Cases
      BY DEF HeldCases, ReservedNewSymbols
    <3> QED
      BY <3>1, PrecheckAssumption, FS_Subset, FS_CardinalityType
  <2> QED
    BY <2>1, AccountFields DEF PrecheckInv, OpenSlots, SlotsTaken
<1>4. account.cash \div OpenSlots \in Int
  BY <1>1, <1>3
<1>5. BaseAllocation \in Int /\ BaseAllocation <= SizedCap
  BY <1>1, <1>2, <1>4, LeastOfThree DEF BaseAllocation
<1>6. share \in Int
  BY <1>1 DEF Shares
<1> QED
  BY <1>2, <1>5, <1>6 DEF Allocation, Least2, SizedCap

LEMMA OrderFits ==
  ASSUME PrecheckInv, NEW c \in Cases, NEW share \in Shares, NEW volatile \in BOOLEAN
  PROVE  LET lots == Scaled(c, Sized(c, share), volatile)
         IN  lots \in Int /\ lots * Lot[c] <= Least2(SingleLimit, account.cash)
<1>1. Allocation(share) \in Int /\ Allocation(share) <= Least2(SingleLimit, account.cash)
  BY AllocationBound
<1>2. Lot[c] \in Nat /\ Lot[c] > 0
  BY LotIsPositive
<1>3. Sized(c, share) \in Int /\ Sized(c, share) = Allocation(share) \div Lot[c]
  BY <1>1, <1>2 DEF Sized
<1>4. VolatilityCap \div Lot[c] \in Int
  BY <1>2, PrecheckAssumption DEF VolatilityCap
<1> DEFINE lots == Scaled(c, Sized(c, share), volatile)
<1>5. lots \in Int /\ lots <= Allocation(share) \div Lot[c]
  <2> HIDE DEF VolatilityCap
  <2> QED
    BY <1>3, <1>4 DEF Scaled, Least2
<1> HIDE DEF lots
<1>6. lots * Lot[c] <= Allocation(share)
  BY <1>1, <1>2, <1>5, AffordableLots
<1>7. lots * Lot[c] \in Int /\ Least2(SingleLimit, account.cash) \in Int
  BY <1>2, <1>5, AccountFields, PrecheckAssumption DEF PrecheckInv, Least2
<1>8. lots * Lot[c] <= Least2(SingleLimit, account.cash)
  BY <1>1, <1>6, <1>7
<1> QED
  BY <1>5, <1>8 DEF lots

LEMMA PrecheckInvInit == Init => PrecheckInv
<1> SUFFICES ASSUME Init PROVE PrecheckInv
  OBVIOUS
<1>1. /\ account \in Accounts /\ todo = Cases
      /\ approved = [c \in Cases |-> 0]
  BY DEF Init, Starts
<1>2. approved \in [Cases -> Nat] /\ \A c \in Cases : approved[c] = 0
  BY <1>1
<1>3. ValueOf(approved) = 0
  <2>1. IsFiniteSet(Cases)
    BY PrecheckAssumption
  <2>2. \A c \in Cases : Worth(approved)[c] = 0
    BY <1>2, LotIsPositive DEF Worth
  <2> QED
    BY <2>1, <2>2, SumOfZero, ValueIsSum
<1>4. ReservedNewSymbols = {}
  BY <1>2 DEF ReservedNewSymbols
<1>5. OrdersWithinAccount
  <2>1. Least2(SingleLimit, account.cash) \in Nat
    BY <1>1, AccountFields, PrecheckAssumption DEF Least2
  <2>2. \A c \in Cases : approved[c] * Lot[c] = 0
    BY <1>2, LotIsPositive
  <2> QED
    BY <2>1, <2>2 DEF OrdersWithinAccount
<1> QED
  BY <1>1, <1>2, <1>3, <1>4, <1>5 DEF PrecheckInv, NewExposureKept, HoldCountKept

\* What is promised speaks of the account and of what is approved.
LEMMA PrecheckSame ==
  ASSUME PrecheckInv, UNCHANGED <<account, approved>>, todo' \subseteq todo
  PROVE  PrecheckInv'
<1>1. HeldCases' = HeldCases
  BY DEF HeldCases
<1>2. ReservedNewSymbols' = ReservedNewSymbols
  BY <1>1 DEF ReservedNewSymbols
<1>3. ValueOf(approved)' = ValueOf(approved)
  OBVIOUS
<1>4. NewExposureKept' /\ HoldCountKept' /\ OrdersWithinAccount'
  BY <1>1, <1>2, <1>3
     DEF PrecheckInv, NewExposureKept, HoldCountKept, OrdersWithinAccount, Least2
<1> QED
  BY <1>4 DEF PrecheckInv

LEMMA PrecheckInvStep ==
  ASSUME PrecheckInv, [Next]_vars
  PROVE  PrecheckInv'
<1>1. ASSUME NEW c \in Cases, Veto(c) PROVE PrecheckInv'
  <2>1. UNCHANGED <<account, approved>> /\ todo' \subseteq todo
    BY <1>1 DEF Veto, Turns
  <2> QED
    BY <2>1, PrecheckSame
<1>2. ASSUME NEW c \in Cases, NEW cap \in Caps, NEW share \in Shares, NEW volatile \in BOOLEAN,
             Approve(c, cap, share, volatile)
      PROVE  PrecheckInv'
  <2> DEFINE lots == Scaled(c, Sized(c, share), volatile)
  <2>1. /\ c \in todo /\ todo' = todo \ {c} /\ account' = account
        /\ ~Blocked(c, cap)
        /\ lots >= 1
        /\ PortfolioAllows(c, lots)
        /\ approved' = [approved EXCEPT ![c] = lots]
    BY <1>2 DEF Approve, Turns
  <2>2. lots \in Int /\ lots * Lot[c] <= Least2(SingleLimit, account.cash)
    BY OrderFits
  <2>3. approved \in [Cases -> Nat] /\ approved[c] = 0
    BY <2>1 DEF PrecheckInv
  <2>4. Lot[c] \in Nat /\ Lot[c] > 0
    BY LotIsPositive
  <2> HIDE DEF lots
  <2>5. /\ approved' \in [Cases -> Nat]
        /\ \A d \in todo' : approved'[d] = 0
    BY <2>1, <2>2, <2>3 DEF PrecheckInv
  <2>6. NewExposureKept'
    <3>1. ValueOf(approved') = ValueOf(approved) + lots * Lot[c]
      <4>1. lots \in Nat
        BY <2>1, <2>2
      <4>2. ValueOf([approved EXCEPT ![c] = lots]) = ValueOf(approved) + lots * Lot[c]
        BY <2>3, <4>1, ValueGrows
      <4> QED
        BY <2>1, <4>2
    <3>2. account.exposure + ValueOf(approved) + lots * Lot[c] <= NewExposureLimit
      BY <2>1 DEF PortfolioAllows, Reserved
    <3>3. ValueOf(approved) \in Nat /\ lots * Lot[c] \in Nat /\ account.exposure \in Nat
      BY <2>1, <2>2, <2>3, <2>4, ValueIsNat, ProductIsNat, AccountFields DEF PrecheckInv
    <3>4. account'.exposure + ValueOf(approved') <= NewExposureLimit
      BY <2>1, <3>1, <3>2, <3>3, PrecheckAssumption
    <3>5. ValueOf(approved)' = ValueOf(approved')
      OBVIOUS
    <3> QED
      BY <3>4, <3>5 DEF NewExposureKept
  <2>7. OrdersWithinAccount'
    <3>1. ASSUME NEW d \in Cases
          PROVE  approved'[d] * Lot[d] <= Least2(SingleLimit, account'.cash)
      BY <2>1, <2>2, <2>3 DEF PrecheckInv, OrdersWithinAccount
    <3> QED
      BY <3>1 DEF OrdersWithinAccount, Least2
  <2>8. HoldCountKept'
    <3>1. HeldCases' = HeldCases
      BY <2>1 DEF HeldCases
    <3>2. CASE c \in HeldCases
      <4>1. ReservedNewSymbols' = ReservedNewSymbols
        BY <2>1, <2>3, <3>1, <3>2 DEF ReservedNewSymbols
      <4> QED
        BY <2>1, <3>1, <4>1 DEF PrecheckInv, HoldCountKept
    <3>3. CASE c \notin HeldCases
      <4>1. ReservedNewSymbols' = ReservedNewSymbols \cup {c}
        BY <2>1, <2>2, <2>3, <3>1, <3>3 DEF ReservedNewSymbols
      <4>2. SlotsTaken < account.maxHold
        <5>1. ~(SlotsTaken >= account.maxHold)
          BY <2>1, <3>3 DEF Blocked
        <5>2. SlotsTaken \in Nat /\ account.maxHold \in Nat
          <6>1. HeldCases \subseteq Cases /\ ReservedNewSymbols \subseteq Cases
            BY DEF HeldCases, ReservedNewSymbols
          <6>2. Cardinality(HeldCases) \in Nat /\ Cardinality(ReservedNewSymbols) \in Nat
            BY <6>1, PrecheckAssumption, FS_Subset, FS_CardinalityType
          <6> QED
            BY <6>2, AccountFields DEF SlotsTaken, PrecheckInv
        <5> QED
          BY <5>1, <5>2
      <4>3. /\ IsFiniteSet(HeldCases) /\ IsFiniteSet(ReservedNewSymbols)
            /\ HeldCases \cap ReservedNewSymbols = {}
        BY PrecheckAssumption, FS_Subset DEF HeldCases, ReservedNewSymbols
      <4>4. Cardinality(HeldCases \cup ReservedNewSymbols) = SlotsTaken
        <5>1. Cardinality(HeldCases \cup ReservedNewSymbols)
                = Cardinality(HeldCases) + Cardinality(ReservedNewSymbols)
                  - Cardinality(HeldCases \cap ReservedNewSymbols)
          BY <4>3, FS_Union
        <5>2. Cardinality(HeldCases \cap ReservedNewSymbols) = 0
          BY <4>3, FS_EmptySet
        <5> QED
          BY <4>3, <5>1, <5>2, FS_CardinalityType DEF SlotsTaken
      <4> DEFINE taken == HeldCases \cup ReservedNewSymbols
      <4>5. IsFiniteSet(taken) /\ Cardinality(taken) \in Nat
        BY <4>3, FS_Union, FS_CardinalityType
      <4>6. Cardinality(taken \cup {c}) <= Cardinality(taken) + 1
        <5> HIDE DEF taken
        <5>1. Cardinality(taken \cup {c})
                = IF c \in taken THEN Cardinality(taken) ELSE Cardinality(taken) + 1
          BY <4>5, FS_AddElement
        <5> QED
          BY <4>5, <5>1
      <4>7. Cardinality(taken \cup {c}) <= account.maxHold
        <5>1. Cardinality(taken \cup {c}) \in Nat
          <6> HIDE DEF taken
          <6> QED
            BY <4>5, FS_AddElement, FS_CardinalityType
        <5>2. account.maxHold \in Nat
          BY AccountFields DEF PrecheckInv
        <5> HIDE DEF taken
        <5>3. Cardinality(taken) < account.maxHold
          BY <4>2, <4>4 DEF taken
        <5> QED
          BY <4>5, <4>6, <5>1, <5>2, <5>3
      <4>8. (HeldCases \cup ReservedNewSymbols)' = taken \cup {c}
        BY <3>1, <4>1
      <4> QED
        BY <2>1, <4>7, <4>8 DEF HoldCountKept
    <3> QED
      BY <3>2, <3>3
  <2> QED
    BY <2>1, <2>5, <2>6, <2>7, <2>8 DEF PrecheckInv
<1>3. CASE UNCHANGED vars
  BY <1>3, PrecheckSame DEF vars
<1> QED
  BY <1>1, <1>2, <1>3 DEF Next

\* However many cases one pass approves, what they are worth, with what the day
\* has bought before, stays within the limit of new exposure.
THEOREM ApprovedWithinExposure == Spec => []NewExposureKept
<1>1. PrecheckInv => NewExposureKept
  BY DEF PrecheckInv
<1> QED
  BY <1>1, PrecheckInvInit, PrecheckInvStep, PTL DEF Spec

\* One pass never opens more positions than the hold count leaves free.
THEOREM HoldCountRespected == Spec => []HoldCountKept
<1>1. PrecheckInv => HoldCountKept
  BY DEF PrecheckInv
<1> QED
  BY <1>1, PrecheckInvInit, PrecheckInvStep, PTL DEF Spec

\* No order is worth more than the account's cash, nor more than one order may
\* be, whatever the sizer proposes.
THEOREM OrdersAffordable == Spec => []OrdersWithinAccount
<1>1. PrecheckInv => OrdersWithinAccount
  BY DEF PrecheckInv
<1> QED
  BY <1>1, PrecheckInvInit, PrecheckInvStep, PTL DEF Spec

-----------------------------------------------------------------------------
(* The day's buys.  The adapter remembers the request id of every order     *)
(* whose answer it heard; an order is heard only when its id was not         *)
(* remembered, so no earlier order of that symbol was heard.                 *)

BookOK == book \in Seq(Orders)

JobOK == job # None => job.todo \subseteq Symbols /\ job.plan \in [Symbols -> Nat]

HeardIsMarked == \A k \in DOMAIN book : book[k].heard => book[k].symbol \in sent

Inv == BookOK /\ JobOK /\ HeardIsMarked /\ OneBuyPerSymbol

-----------------------------------------------------------------------------
\* An order that was not heard changes nothing of what the others promise.
LEMMA TakenUnheard ==
  ASSUME Inv, NEW s \in Symbols, Takes(s, FALSE), job # None, UNCHANGED sent
  PROVE  BookOK' /\ HeardIsMarked' /\ OneBuyPerSymbol'
<1> DEFINE o == [symbol |-> s, lots |-> job.plan[s], heard |-> FALSE]
<1>1. o \in Orders
  BY DEF Inv, JobOK, Orders
<1>2. book' = Append(book, o)
  BY DEF Takes
<1>3. book' \in Seq(Orders) /\ DOMAIN book' = 1..(Len(book) + 1)
  BY <1>1, <1>2 DEF Inv, BookOK
<1>4. \A k \in DOMAIN book' : (k \in DOMAIN book /\ book'[k] = book[k]) \/ book'[k] = o
  BY <1>1, <1>2, <1>3 DEF Inv, BookOK
<1>5. \A k \in DOMAIN book' : book'[k].heard => k \in DOMAIN book /\ book'[k] = book[k]
  BY <1>4
<1> QED
  BY <1>3, <1>5 DEF Inv, BookOK, HeardIsMarked, OneBuyPerSymbol

\* One that was heard is the first of its symbol.
LEMMA TakenHeard ==
  ASSUME Inv, NEW s \in Symbols, Takes(s, TRUE), job # None, s \notin sent,
         sent' = sent \cup {s}
  PROVE  BookOK' /\ HeardIsMarked' /\ OneBuyPerSymbol'
<1> DEFINE o == [symbol |-> s, lots |-> job.plan[s], heard |-> TRUE]
           n == Len(book) + 1
<1>1. o \in Orders
  BY DEF Inv, JobOK, Orders
<1>2. book' = Append(book, o)
  BY DEF Takes
<1>3. book' \in Seq(Orders) /\ DOMAIN book' = 1..n
  BY <1>1, <1>2 DEF Inv, BookOK
<1>4. \A k \in DOMAIN book' : (k \in DOMAIN book /\ book'[k] = book[k]) \/ (k = n /\ book'[k] = o)
  BY <1>1, <1>2, <1>3 DEF Inv, BookOK
<1>5. HeardIsMarked'
  BY <1>4 DEF Inv, HeardIsMarked
<1>6. \A k \in DOMAIN book : book[k].heard => book[k].symbol # s
  BY DEF Inv, HeardIsMarked
<1>7. OneBuyPerSymbol'
  BY <1>4, <1>6 DEF Inv, OneBuyPerSymbol
<1> QED
  BY <1>3, <1>5, <1>7 DEF BookOK

-----------------------------------------------------------------------------
LEMMA InitHolds == DayInit => Inv
BY DEF DayInit, Inv, BookOK, JobOK, HeardIsMarked, OneBuyPerSymbol, Orders

LEMMA StepHolds == Inv /\ [DayNext]_dayVars => Inv'
<1> SUFFICES ASSUME Inv, [DayNext]_dayVars PROVE Inv'
  OBVIOUS
<1> USE DEF Inv
<1>1. ASSUME UNCHANGED <<book, sent, job>> PROVE Inv'
  BY <1>1 DEF BookOK, JobOK, HeardIsMarked, OneBuyPerSymbol
<1>2. ASSUME UNCHANGED <<book, sent>>, JobOK' PROVE Inv'
  BY <1>2 DEF BookOK, HeardIsMarked, OneBuyPerSymbol
<1>3. ASSUME job' = None PROVE JobOK'
  BY <1>3 DEF JobOK
<1>4. ASSUME NEW apply, NEW chosen, Begin(apply, chosen) PROVE Inv'
  <2>1. PICK plan \in Plans :
          job' = [apply |-> apply, plan |-> plan, todo |-> Approved(plan) \cap chosen,
                  blocked |-> apply /\ SubmitBlocked, bridgeDown |-> bridge.blocked,
                  orders |-> {}, queued |-> 0, previews |-> 0, step |-> "intents", read |-> <<>>]
    BY <1>4 DEF Begin
  <2>2. plan \in [Symbols -> Nat] /\ Approved(plan) \subseteq Symbols
    BY TradingDayAssumption DEF Plans, Approved
  <2>3. JobOK'
    BY <2>1, <2>2 DEF JobOK
  <2> QED
    BY <1>2, <1>4, <2>3 DEF Begin, accounts
<1>5. CASE Manual
  BY <1>4, <1>5 DEF Manual
<1>6. CASE AutoDispatch
  BY <1>4, <1>6 DEF AutoDispatch
<1>7. ASSUME NEW s \in Symbols, Hold(s) PROVE Inv'
  <2>1. JobOK'
    BY <1>7 DEF Hold, Working, JobOK
  <2> QED
    BY <1>2, <1>7, <2>1 DEF Hold, accounts
<1>8. ASSUME NEW s \in Symbols, Enqueue(s) PROVE Inv'
  <2>1. JobOK'
    BY <1>8 DEF Enqueue, Goes, Working, JobOK
  <2> QED
    BY <1>2, <1>8, <2>1 DEF Enqueue
<1>9. ASSUME NEW s \in Symbols, PlaceOrder(s) PROVE Inv'
  <2>1. JobOK'
    BY <1>9 DEF PlaceOrder, Goes, Working, JobOK
  <2>2. BookOK' /\ HeardIsMarked' /\ OneBuyPerSymbol'
    BY <1>9, TakenHeard DEF PlaceOrder, Goes, Working, Marked
  <2> QED
    BY <2>1, <2>2
<1>10. ASSUME NEW s \in Symbols, PlaceRefused(s) PROVE Inv'
  <2>1. JobOK'
    BY <1>10 DEF PlaceRefused, Goes, Working, JobOK
  <2> QED
    BY <1>2, <1>10, <2>1 DEF PlaceRefused, accounts
<1>11. ASSUME NEW s \in Symbols, PlaceUnheard(s) PROVE Inv'
  <2>1. JobOK'
    BY <1>11 DEF PlaceUnheard, Goes, Working, JobOK
  <2>2. BookOK' /\ HeardIsMarked' /\ OneBuyPerSymbol'
    BY <1>11, TakenUnheard DEF PlaceUnheard, Goes, Working
  <2> QED
    BY <2>1, <2>2
<1>12. ASSUME NEW s \in Symbols, Retried(s) PROVE Inv'
  <2>1. JobOK'
    BY <1>12 DEF Retried, JobOK
  <2>2. BookOK' /\ HeardIsMarked' /\ OneBuyPerSymbol'
    BY <1>12, TakenUnheard DEF Retried, Goes, Working
  <2> QED
    BY <2>1, <2>2
<1>13. CASE PersistRecord
  <2>1. JobOK'
    BY <1>13 DEF PersistRecord, Working, JobOK
  <2> QED
    BY <1>2, <1>13, <2>1 DEF PersistRecord
<1>14. CASE PersistJournal
  BY <1>2, <1>3, <1>14 DEF PersistJournal
<1>15. CASE Dispatching
  BY <1>7, <1>8, <1>9, <1>10, <1>11, <1>12, <1>13, <1>14, <1>15 DEF Dispatching
<1>16. CASE Readiness \/ ScanRead \/ ScanWrite
  BY <1>1, <1>16 DEF Readiness, ScanRead, ScanWrite, accounts
<1>17. CASE Crash
  BY <1>2, <1>3, <1>17 DEF Crash, accounts
<1>18. CASE Restart
  BY <1>1, <1>18 DEF Restart
<1>19. CASE SetStop \/ ToggleLive
  BY <1>1, <1>19 DEF SetStop, ToggleLive, accounts
<1>20. CASE Report \/ ReportAges \/ Guards
  BY <1>1, <1>20 DEF Report, ReportAges, Guards, BridgeStep, accounts
<1>21. CASE UNCHANGED dayVars
  BY <1>1, <1>21 DEF dayVars, accounts
<1> QED
  BY <1>5, <1>6, <1>15, <1>16, <1>17, <1>18, <1>19, <1>20, <1>21 DEF DayNext

\* A symbol is bought once a day at most, whatever is dispatched how often and
\* whatever crashes or goes unheard, orders without an answer aside.
THEOREM BoughtOnce == DaySpec => []OneBuyPerSymbol
<1>1. Inv => OneBuyPerSymbol
  BY DEF Inv
<1> QED
  BY <1>1, InitHolds, StepHolds, PTL DEF DaySpec

-----------------------------------------------------------------------------
(* The types of the dispatch, the journal and the scan.                     *)

LEMMA JournalIsFunction ==
  ASSUME NEW j
  PROVE  j \in Journal <=> \E K \in SUBSET (1..MaxOrders) : j \in [K -> {"today", "unknown"}]
  BY DEF Journal

LEMMA RecoveredIsJournal ==
  ASSUME NEW j \in Journal, NEW orders \in SUBSET (1..MaxOrders)
  PROVE  Recovered(j, orders) \in Journal /\ With(j, orders) \in Journal
<1>1. PICK K \in SUBSET (1..MaxOrders) : j \in [K -> {"today", "unknown"}]
  BY JournalIsFunction
<1>2. /\ Recovered(j, orders) \in [K \cup orders -> {"today", "unknown"}]
      /\ With(j, orders) \in [K \cup orders -> {"today", "unknown"}]
  BY <1>1 DEF Recovered, With
<1>3. K \cup orders \in SUBSET (1..MaxOrders)
  OBVIOUS
<1> QED
  BY <1>2, <1>3, JournalIsFunction

LEMMA EmptyJournal == <<>> \in Journal
<1>1. <<>> \in [{} -> {"today", "unknown"}]
  OBVIOUS
<1> QED
  BY <1>1, JournalIsFunction

LEMMA DispatchFields ==
  ASSUME NEW d \in Dispatch
  PROVE  /\ d # None
         /\ d.apply \in BOOLEAN /\ d.plan \in [Symbols -> Nat] /\ d.todo \subseteq Symbols
         /\ d.orders \subseteq 1..MaxOrders /\ d.queued \in Nat /\ d.previews \in Nat
         /\ d.read \in Journal /\ d.step \in {"intents", "journal"}
         /\ \A s \in Symbols : d.plan[s] \in Nat
<1>1. d.plan \in [Symbols -> 0..MaxLots]
  BY DEF Dispatch
<1>2. 0..MaxLots \subseteq Nat
  BY TradingDayAssumption
<1> QED
  BY <1>1, <1>2, NoneAssumption DEF Dispatch

\* One field of a dispatch after the other.
LEMMA DispatchUpdates ==
  ASSUME NEW d \in Dispatch, NEW s
  PROVE  /\ [d EXCEPT !.todo = d.todo \ {s}] \in Dispatch
         /\ \A n \in Nat : [d EXCEPT !.queued = n] \in Dispatch /\ [d EXCEPT !.previews = n] \in Dispatch
         /\ \A K \in SUBSET (1..MaxOrders) : [d EXCEPT !.orders = K] \in Dispatch
         /\ \A j \in Journal : [d EXCEPT !.read = j] \in Dispatch
         /\ [d EXCEPT !.step = "journal"] \in Dispatch
<1>1. [d EXCEPT !.todo = d.todo \ {s}] \in Dispatch
  BY DEF Dispatch
<1>2. \A n \in Nat : [d EXCEPT !.queued = n] \in Dispatch
  BY DEF Dispatch
<1>3. \A n \in Nat : [d EXCEPT !.previews = n] \in Dispatch
  BY DEF Dispatch
<1>4. \A K \in SUBSET (1..MaxOrders) : [d EXCEPT !.orders = K] \in Dispatch
  BY DEF Dispatch
<1>5. \A j \in Journal : [d EXCEPT !.read = j] \in Dispatch
  BY DEF Dispatch
<1>6. [d EXCEPT !.step = "journal"] \in Dispatch
  BY DEF Dispatch
<1> QED
  BY <1>1, <1>2, <1>3, <1>4, <1>5, <1>6

LEMMA DayTypeInit == DayInit => DayTypeOK
<1> SUFFICES ASSUME DayInit PROVE DayTypeOK
  OBVIOUS
<1>1. /\ book = <<>> /\ journal = <<>> /\ faults = 0 /\ counted = 0
      /\ job = None /\ record = None /\ scan = None /\ sent = {}
  BY DEF DayInit
<1>2. /\ up \in BOOLEAN /\ stop \in BOOLEAN /\ enabled \in Switches
      /\ queued \in [Symbols -> Nat]
      /\ bridge \in [reachable : BOOLEAN, old : BOOLEAN, blocked : BOOLEAN]
  BY DEF DayInit
<1>3. book \in Seq(Orders) /\ Len(book) \in 0..MaxOrders /\ faults \in 0..MaxFaults
  BY <1>1, TradingDayAssumption
<1> QED
  BY <1>1, <1>2, <1>3, EmptyJournal DEF DayTypeOK

LEMMA DayTypeStep == DayTypeOK /\ Inv /\ [DayNext]_dayVars => DayTypeOK'
<1> SUFFICES ASSUME DayTypeOK, Inv, [DayNext]_dayVars PROVE DayTypeOK'
  OBVIOUS
<1> USE DEF DayTypeOK, switches
<1>f. ASSUME NEW f, Fault(f) PROVE faults' \in 0..MaxFaults
  BY <1>f, TradingDayAssumption DEF Fault
<1>s. book' \in Seq(Orders)
  BY StepHolds DEF Inv, BookOK
<1>b. book \in Seq(Orders) /\ DOMAIN book \subseteq 1..MaxOrders
  BY TradingDayAssumption DEF Inv, BookOK
<1>t. ASSUME NEW s \in Symbols, NEW heard \in BOOLEAN, Takes(s, heard), job \in Dispatch
      PROVE  Len(book') \in 1..MaxOrders
  <2>1. /\ Len(book) < MaxOrders
        /\ book' = Append(book, [symbol |-> s, lots |-> job.plan[s], heard |-> heard])
    BY <1>t DEF Takes
  <2>2. [symbol |-> s, lots |-> job.plan[s], heard |-> heard] \in Orders
    BY <1>t, DispatchFields DEF Orders
  <2>3. Len(book') = Len(book) + 1 /\ Len(book) \in Nat
    BY <1>b, <2>1, <2>2
  <2> QED
    BY <2>1, <2>3, TradingDayAssumption
<1>1. ASSUME NEW apply \in BOOLEAN, NEW chosen, Begin(apply, chosen) PROVE DayTypeOK'
  <2>1. PICK plan \in Plans :
          job' = [apply |-> apply, plan |-> plan, todo |-> Approved(plan) \cap chosen,
                  blocked |-> apply /\ SubmitBlocked, bridgeDown |-> bridge.blocked,
                  orders |-> {}, queued |-> 0, previews |-> 0, step |-> "intents", read |-> <<>>]
    BY <1>1 DEF Begin
  <2>2. plan \in [Symbols -> 0..MaxLots] /\ Approved(plan) \subseteq Symbols
    BY DEF Plans, Approved
  <2>3. bridge.blocked \in BOOLEAN /\ (apply /\ SubmitBlocked) \in BOOLEAN
    OBVIOUS
  <2> HIDE DEF DayTypeOK
  <2>4. job' \in Dispatch
    BY <2>1, <2>2, <2>3, EmptyJournal DEF Dispatch
  <2> QED
    BY <1>1, <2>4 DEF Begin, accounts, DayTypeOK
<1>2. CASE Manual
  BY <1>1, <1>2 DEF Manual
<1>3. CASE AutoDispatch
  BY <1>1, <1>3 DEF AutoDispatch
<1>4. ASSUME NEW s \in Symbols, Hold(s) PROVE DayTypeOK'
  <2>1. job \in Dispatch
    BY <1>4 DEF Hold, Working
  <2>2. job' \in Dispatch
    <3> DEFINE e == [job EXCEPT !.todo = job.todo \ {s}]
               n == IF job.apply THEN job.previews ELSE job.previews + 1
    <3>1. job' = [e EXCEPT !.previews = n]
      BY <1>4 DEF Hold
    <3>2. e \in Dispatch /\ n \in Nat
      <4>1. e \in Dispatch
        BY <2>1, DispatchUpdates
      <4>2. n \in Nat
        BY <2>1, DispatchFields
      <4> QED
        BY <4>1, <4>2
    <3> HIDE DEF e, n
    <3> QED
      BY <3>1, <3>2, DispatchUpdates
  <2> QED
    BY <1>4, <2>2 DEF Hold, accounts
<1>5. ASSUME NEW s \in Symbols, Enqueue(s) PROVE DayTypeOK'
  <2>1. job \in Dispatch
    BY <1>5 DEF Enqueue, Goes, Working
  <2>2. job' \in Dispatch
    <3> DEFINE e == [job EXCEPT !.todo = job.todo \ {s}]
               n == job.queued + 1
    <3>1. job' = [e EXCEPT !.queued = n]
      BY <1>5 DEF Enqueue
    <3>2. e \in Dispatch /\ n \in Nat
      <4>1. e \in Dispatch
        BY <2>1, DispatchUpdates
      <4>2. n \in Nat
        BY <2>1, DispatchFields
      <4> QED
        BY <4>1, <4>2
    <3> HIDE DEF e, n
    <3> QED
      BY <3>1, <3>2, DispatchUpdates
  <2>3. counted' \in Nat
    BY <1>5, <2>1, DispatchFields DEF Enqueue
  <2>4. queued' \in [Symbols -> Nat]
    BY <1>5, <2>1, DispatchFields DEF Enqueue
  <2> QED
    BY <1>5, <2>2, <2>3, <2>4 DEF Enqueue
<1>6. ASSUME NEW s \in Symbols, PlaceOrder(s) PROVE DayTypeOK'
  <2>1. job \in Dispatch
    BY <1>6 DEF PlaceOrder, Goes, Working
  <2>2. Len(book') \in 1..MaxOrders
    BY <1>6, <1>t, <2>1 DEF PlaceOrder
  <2>3. job' \in Dispatch
    <3> DEFINE e == [job EXCEPT !.todo = job.todo \ {s}]
               K == job.orders \cup {Len(book')}
    <3>1. job' = [e EXCEPT !.orders = K]
      BY <1>6 DEF PlaceOrder
    <3>2. e \in Dispatch /\ K \in SUBSET (1..MaxOrders)
      BY <2>1, <2>2, DispatchFields, DispatchUpdates
    <3> HIDE DEF e, K
    <3> QED
      BY <3>1, <3>2, DispatchUpdates
  <2>4. Len(book') \in 0..MaxOrders
    BY <2>2
  <2> QED
    BY <1>6, <1>s, <2>3, <2>4 DEF PlaceOrder, Marked
<1>7. ASSUME NEW s \in Symbols, PlaceRefused(s) PROVE DayTypeOK'
  <2>1. job \in Dispatch
    BY <1>7 DEF PlaceRefused, Goes, Working
  <2>2. job' \in Dispatch
    BY <1>7, <2>1, DispatchUpdates DEF PlaceRefused
  <2> QED
    BY <1>7, <2>2 DEF PlaceRefused, accounts
<1>8. ASSUME NEW s \in Symbols, PlaceUnheard(s) PROVE DayTypeOK'
  <2>1. job \in Dispatch
    BY <1>8 DEF PlaceUnheard, Goes, Working
  <2>2. job' \in Dispatch
    BY <1>8, <2>1, DispatchUpdates DEF PlaceUnheard
  <2>3. Len(book') \in 1..MaxOrders
    BY <1>8, <1>t, <2>1 DEF PlaceUnheard
  <2> QED
    BY <1>8, <1>f, <1>s, <2>2, <2>3 DEF PlaceUnheard
<1>9. ASSUME NEW s \in Symbols, Retried(s) PROVE DayTypeOK'
  <2>1. job \in Dispatch
    BY <1>9 DEF Retried, Goes, Working
  <2>2. Len(book') \in 1..MaxOrders
    BY <1>9, <1>t, <2>1 DEF Retried
  <2> QED
    BY <1>9, <1>f, <1>s, <2>2 DEF Retried
<1>10. CASE PersistRecord
  <2>1. job \in Dispatch
    BY <1>10 DEF PersistRecord, Working
  <2>2. job' \in Dispatch
    <3> DEFINE e == [job EXCEPT !.step = "journal"]
    <3>1. job' = [e EXCEPT !.read = journal]
      BY <1>10 DEF PersistRecord
    <3>2. e \in Dispatch
      BY <2>1, DispatchUpdates
    <3> HIDE DEF e
    <3> QED
      BY <3>1, <3>2, DispatchUpdates
  <2>3. record' \in [apply : BOOLEAN, status : Statuses]
    BY <1>10, <2>1, DispatchFields DEF PersistRecord, Status, Statuses
  <2> QED
    BY <1>10, <2>2, <2>3 DEF PersistRecord
<1>11. CASE PersistJournal
  <2>1. job \in Dispatch
    BY <1>11 DEF PersistJournal, Working
  <2>2. With(job.read, job.orders) \in Journal
    BY <2>1, DispatchFields, RecoveredIsJournal
  <2> QED
    BY <1>11, <2>2 DEF PersistJournal
<1>12. CASE Dispatching
  BY <1>4, <1>5, <1>6, <1>7, <1>8, <1>9, <1>10, <1>11, <1>12 DEF Dispatching
<1>13. CASE Readiness
  BY <1>b, <1>13, RecoveredIsJournal DEF Readiness, Recover
<1>14. CASE ScanRead
  BY <1>b, <1>f, <1>14 DEF ScanRead, accounts
<1>15. CASE ScanWrite
  BY <1>15, RecoveredIsJournal DEF ScanWrite
<1>16. CASE Crash
  BY <1>f, <1>16 DEF Crash, accounts
<1>17. CASE Restart
  BY <1>b, <1>17, RecoveredIsJournal DEF Restart, Recover
<1>18. CASE SetStop \/ ToggleLive
  BY <1>18 DEF SetStop, ToggleLive, accounts
<1>19. CASE Report \/ ReportAges \/ Guards
  BY <1>19 DEF Report, ReportAges, Guards, BridgeStep, accounts
<1>20. CASE UNCHANGED dayVars
  BY <1>20 DEF dayVars, accounts
<1> QED
  BY <1>2, <1>3, <1>12, <1>13, <1>14, <1>15, <1>16, <1>17, <1>18, <1>19, <1>20 DEF DayNext

-----------------------------------------------------------------------------
(* The day's exposure.  Until a process dies, an answer is lost or a scan    *)
(* runs beside a handler, every order is in the journal or on the list of    *)
(* the dispatch in progress, and what that dispatch has still to send fits    *)
(* under the limit with what was bought.                                     *)

Remaining(plan, rest) == MapThenSumSet(LAMBDA s : plan[s], rest)

\* The book b, the journal j, the dispatch d, the lots c of the gateway's history.
WithinLimit(b, j, d, c) ==
  /\ \A k \in DOMAIN j : j[k] = "today"
  /\ DOMAIN b = DOMAIN j \cup (IF d = None THEN {} ELSE d.orders)
  /\ d # None /\ d.step = "journal" => d.todo = {} /\ d.read = j
  /\ LotsOf(b, DOMAIN b) + c + (IF d = None THEN 0 ELSE Remaining(d.plan, d.todo)) <= Limit

Quiet == faults = 0 => up = TRUE /\ scan = None /\ WithinLimit(book, journal, job, counted)

DayInv == Inv /\ DayTypeOK /\ Quiet

LEMMA RemainingIsSum ==
  ASSUME NEW plan, NEW rest
  PROVE  Remaining(plan, rest) = SumOf(plan, rest)
  BY DEF Remaining, MapThenSumSet, MapThenFoldSet, SumOf, IsSum, Taken

LEMMA LotsIsSum ==
  ASSUME NEW plan
  PROVE  Lots(plan) = SumOf(plan, Symbols)
  BY DEF Lots, MapThenSumSet, MapThenFoldSet, SumOf, IsSum, Taken

LotsIn(b, orders) == [k \in orders |-> b[k].lots]

LEMMA LotsOfIsSum ==
  ASSUME NEW b, NEW orders, IsFiniteSet(orders)
  PROVE  LotsOf(b, orders) = SumOf(LotsIn(b, orders), orders)
<1> DEFINE P(f) == f = [s \in SUBSET orders |->
                          IF s = {} THEN 0 ELSE b[Taken(s)].lots + f[s \ {Taken(s)}]]
<1>1. LotsOf(b, orders) = (CHOOSE f : P(f))[orders]
  BY DEF LotsOf, MapThenSumSet, MapThenFoldSet, Taken
<1>2. ASSUME NEW s \in SUBSET orders, s # {}
      PROVE  LotsIn(b, orders)[Taken(s)] = b[Taken(s)].lots
  BY <1>2, TakenIsIn DEF LotsIn
<1>3. \A f : P(f) <=> IsSum(f, orders, LotsIn(b, orders))
  <2> TAKE f
  <2>1. \A s \in SUBSET orders :
          (IF s = {} THEN 0 ELSE b[Taken(s)].lots + f[s \ {Taken(s)}])
        = (IF s = {} THEN 0 ELSE LotsIn(b, orders)[Taken(s)] + f[s \ {Taken(s)}])
    BY <1>2
  <2> QED
    BY <2>1, Zenon DEF IsSum
<1>4. PICK f : IsSum(f, orders, LotsIn(b, orders)) /\ SumOf(LotsIn(b, orders), orders) = f[orders]
  BY SumOfIsSum
<1> HIDE DEF P
<1>5. P(CHOOSE e : P(e))
  BY <1>3, <1>4
<1>6. IsSum(CHOOSE e : P(e), orders, LotsIn(b, orders))
  BY <1>3, <1>5
<1> QED
  BY <1>1, <1>4, <1>6, SumsAgree

LEMMA BookIsNat ==
  ASSUME NEW b \in Seq(Orders)
  PROVE  IsFiniteSet(DOMAIN b) /\ LotsOf(b, DOMAIN b) \in Nat
<1> DEFINE D == DOMAIN b
<1>1. D = 1..Len(b) /\ Len(b) \in Nat
  OBVIOUS
<1>2. IsFiniteSet(D)
  BY <1>1, FS_Interval
<1>3. \A k \in D : b[k] \in Orders
  OBVIOUS
<1> HIDE DEF D
<1>4. \A k \in D : LotsIn(b, D)[k] \in Nat
  BY <1>3 DEF LotsIn, Orders
<1>5. LotsOf(b, D) \in Nat
  BY <1>2, <1>4, SumOfNat, LotsOfIsSum
<1> QED
  BY <1>2, <1>5 DEF D

\* What the broker's orders come to, when it takes one more.
LEMMA BookGrows ==
  ASSUME NEW b \in Seq(Orders), NEW o \in Orders
  PROVE  /\ LotsOf(b, DOMAIN b) \in Nat
         /\ LotsOf(Append(b, o), DOMAIN Append(b, o)) = LotsOf(b, DOMAIN b) + o.lots
<1> DEFINE more == Append(b, o)
           n == Len(b) + 1
           all == DOMAIN more
<1>1. /\ more \in Seq(Orders) /\ Len(more) = n /\ more[n] = o
      /\ \A k \in DOMAIN b : more[k] = b[k]
      /\ DOMAIN b = 1..Len(b) /\ all = 1..n /\ n \in Nat /\ Len(b) \in Nat
  OBVIOUS
<1>2. /\ all \ {n} = DOMAIN b /\ n \in all
  BY <1>1
<1>3. IsFiniteSet(DOMAIN b) /\ IsFiniteSet(all)
  <2> HIDE DEF all, more
  <2>1. IsFiniteSet(1..Len(b)) /\ IsFiniteSet(1..n)
    BY <1>1, FS_Interval
  <2> QED
    BY <1>1, <2>1
<1>4. /\ \A k \in DOMAIN b : b[k].lots \in Nat
      /\ \A k \in all : more[k].lots \in Nat
  <2>1. \A e \in Orders : e.lots \in Nat
    BY DEF Orders
  <2>2. (\A k \in DOMAIN b : b[k] \in Orders) /\ (\A k \in all : more[k] \in Orders)
    <3> HIDE DEF all, more
    <3> QED
      BY <1>1
  <2> HIDE DEF all, more
  <2> QED
    BY <2>1, <2>2
<1> HIDE DEF all, more
<1>5. /\ \A k \in all : LotsIn(more, all)[k] \in Nat
      /\ LotsIn(more, all)[n] = more[n].lots
      /\ \A k \in DOMAIN b : LotsIn(more, all)[k] = LotsIn(b, DOMAIN b)[k]
      /\ \A k \in DOMAIN b : LotsIn(b, DOMAIN b)[k] \in Nat
  BY <1>1, <1>2, <1>4 DEF LotsIn
<1>6. SumOf(LotsIn(more, all), all)
        = LotsIn(more, all)[n] + SumOf(LotsIn(more, all), all \ {n})
  BY <1>2, <1>3, <1>5, SumOfWithout
<1>7. SumOf(LotsIn(more, all), DOMAIN b) = SumOf(LotsIn(b, DOMAIN b), DOMAIN b)
  BY <1>3, <1>5, SumOfSame
<1>8. SumOf(LotsIn(b, DOMAIN b), DOMAIN b) \in Nat
  BY <1>3, <1>5, SumOfNat
<1>9. /\ LotsOf(b, DOMAIN b) = SumOf(LotsIn(b, DOMAIN b), DOMAIN b)
      /\ LotsOf(more, all) = SumOf(LotsIn(more, all), all)
  BY <1>3, LotsOfIsSum
<1>10. more[n].lots = o.lots /\ o.lots \in Nat
  BY <1>1 DEF Orders
<1>11. LotsOf(more, all) = LotsOf(b, DOMAIN b) + o.lots
  BY <1>2, <1>5, <1>6, <1>7, <1>8, <1>9, <1>10
<1> QED
  BY <1>8, <1>9, <1>11 DEF more, all

\* What is left to send, when a symbol less is.
LEMMA RemainingShrinks ==
  ASSUME NEW plan \in [Symbols -> Nat], NEW rest \in SUBSET Symbols, NEW s \in rest
  PROVE  /\ Remaining(plan, rest) = plan[s] + Remaining(plan, rest \ {s})
         /\ Remaining(plan, rest \ {s}) \in Nat
<1>1. IsFiniteSet(rest) /\ IsFiniteSet(rest \ {s})
  BY TradingDayAssumption, FS_Subset
<1>2. SumOf(plan, rest) = plan[s] + SumOf(plan, rest \ {s})
  BY <1>1, SumOfWithout
<1>3. SumOf(plan, rest \ {s}) \in Nat
  BY <1>1, SumOfNat
<1> QED
  BY <1>2, <1>3, RemainingIsSum

LEMMA RemainingFacts ==
  ASSUME NEW plan \in [Symbols -> Nat], NEW rest \in SUBSET Symbols
  PROVE  /\ Remaining(plan, rest) \in Nat
         /\ Lots(plan) \in Nat
         /\ Remaining(plan, rest) <= Lots(plan)
<1>1. IsFiniteSet(Symbols) /\ IsFiniteSet(rest)
  BY TradingDayAssumption, FS_Subset
<1>2. /\ SumOf(plan, rest) \in Nat
      /\ SumOf(plan, Symbols) \in Nat
  BY <1>1, SumOfNat
<1>3. SumOf(plan, rest) <= SumOf(plan, Symbols)
  BY <1>1, SumOfPart
<1> QED
  BY <1>2, <1>3, RemainingIsSum, LotsIsSum

LEMMA NoOrders == LotsOf(<<>>, DOMAIN <<>>) = 0
<1>1. DOMAIN <<>> = {}
  OBVIOUS
<1> QED
  BY <1>1, LotsOfIsSum, FS_EmptySet, SumOfEmpty

LEMMA DayInvInit == DayInit => DayInv
<1> SUFFICES ASSUME DayInit PROVE DayInv
  OBVIOUS
<1>1. book = <<>> /\ journal = <<>> /\ job = None /\ counted = 0 /\ up = TRUE /\ scan = None /\ faults = 0
  BY DEF DayInit
<1>2. DOMAIN book = {} /\ DOMAIN journal = {}
  BY <1>1
<1>3. WithinLimit(book, journal, job, counted)
  BY <1>1, <1>2, NoOrders, TradingDayAssumption DEF WithinLimit
<1> QED
  BY <1>1, <1>3, InitHolds, DayTypeInit DEF DayInv, Quiet

\* The dispatch d has one intent less to send, and what it was for was put on
\* the gateway's list (queued lots q), given to the broker, or dropped.
LEMMA OneIntentLess ==
  ASSUME NEW b \in Seq(Orders), NEW j, NEW d, NEW e, NEW c \in Nat, NEW q \in Nat, NEW s,
         WithinLimit(b, j, d, c), d # None, e # None,
         d.plan \in [Symbols -> Nat], d.todo \in SUBSET Symbols, s \in d.todo,
         d.step = "intents", e.step = "intents",
         e.plan = d.plan, e.todo = d.todo \ {s}, e.orders = d.orders,
         q \in {0, d.plan[s]}
  PROVE  WithinLimit(b, j, e, c + q)
<1>1. /\ Remaining(d.plan, d.todo) = d.plan[s] + Remaining(d.plan, d.todo \ {s})
      /\ Remaining(d.plan, d.todo \ {s}) \in Nat
  BY RemainingShrinks
<1>2. d.plan[s] \in Nat
  OBVIOUS
<1>3. LotsOf(b, DOMAIN b) \in Nat
  BY BookIsNat
<1>4. LotsOf(b, DOMAIN b) + c + Remaining(d.plan, d.todo) <= Limit
  BY DEF WithinLimit
<1>5. LotsOf(b, DOMAIN b) + (c + q) + Remaining(d.plan, d.todo \ {s}) <= Limit
  <2> DEFINE bought == LotsOf(b, DOMAIN b)
             lots == d.plan[s]
             left == Remaining(d.plan, d.todo \ {s})
  <2>1. q \in Nat /\ q <= lots
    BY <1>2
  <2>2. c \in Nat /\ Limit \in Nat
    BY TradingDayAssumption
  <2>3. bought \in Nat /\ lots \in Nat /\ left \in Nat
    BY <1>1, <1>2, <1>3
  <2>4. bought + c + (lots + left) <= Limit
    BY <1>1, <1>4
  <2> HIDE DEF bought, lots, left
  <2>5. bought + (c + q) + left <= Limit
    BY ONLY <2>1, <2>2, <2>3, <2>4, SMT
  <2> QED
    BY <2>5 DEF bought, left
<1> QED
  BY <1>5 DEF WithinLimit

\* The order of an intent is one of the broker's.
LEMMA OneOrderMore ==
  ASSUME NEW b \in Seq(Orders), NEW j, NEW d, NEW e, NEW c \in Nat, NEW s, NEW o \in Orders,
         WithinLimit(b, j, d, c), d # None, e # None,
         d.plan \in [Symbols -> Nat], d.todo \in SUBSET Symbols, s \in d.todo,
         d.step = "intents", e.step = "intents", o.lots = d.plan[s],
         e.plan = d.plan, e.todo = d.todo \ {s}, e.orders = d.orders \cup {Len(b) + 1}
  PROVE  WithinLimit(Append(b, o), j, e, c)
<1>1. /\ Remaining(d.plan, d.todo) = d.plan[s] + Remaining(d.plan, d.todo \ {s})
      /\ Remaining(d.plan, d.todo \ {s}) \in Nat
  BY RemainingShrinks
<1>2. d.plan[s] \in Nat
  OBVIOUS
<1>3. /\ LotsOf(b, DOMAIN b) \in Nat
      /\ LotsOf(Append(b, o), DOMAIN Append(b, o)) = LotsOf(b, DOMAIN b) + d.plan[s]
  BY BookGrows
<1>4. LotsOf(b, DOMAIN b) + c + Remaining(d.plan, d.todo) <= Limit
  BY DEF WithinLimit
<1>5. LotsOf(Append(b, o), DOMAIN Append(b, o)) + c + Remaining(d.plan, d.todo \ {s}) <= Limit
  BY <1>1, <1>2, <1>3, <1>4, TradingDayAssumption
<1>6. DOMAIN Append(b, o) = DOMAIN b \cup {Len(b) + 1}
  OBVIOUS
<1> QED
  BY <1>5, <1>6 DEF WithinLimit

\* A new dispatch reckons with all that was bought.
LEMMA NewDispatch ==
  ASSUME DayInv, Quiet, faults = 0, job = None, NEW plan \in Plans, NEW rest \in SUBSET Symbols, NEW d,
         d # None, d.plan = plan, d.todo = rest, d.orders = {}, d.step = "intents"
  PROVE  WithinLimit(book, journal, d, counted)
<1>1. WithinLimit(book, journal, job, counted)
  BY DEF Quiet
<1>2. /\ {k \in DOMAIN journal : journal[k] = "today"} = DOMAIN book
      /\ LotsOf(book, DOMAIN book) + counted + 0 <= Limit
  BY <1>1 DEF WithinLimit
<1>3. Exposure = counted + LotsOf(book, DOMAIN book)
  BY <1>2 DEF Exposure
<1>4. /\ plan \in [Symbols -> Nat]
      /\ Lots(plan) > 0 => Exposure + Lots(plan) <= Limit
  BY TradingDayAssumption DEF Plans
<1>5. /\ Remaining(plan, rest) \in Nat
      /\ Lots(plan) \in Nat
      /\ Remaining(plan, rest) <= Lots(plan)
  BY <1>4, RemainingFacts
<1>6. LotsOf(book, DOMAIN book) \in Nat /\ counted \in Nat
  BY BookIsNat DEF DayInv, DayTypeOK, Inv, BookOK
<1>7. LotsOf(book, DOMAIN book) + counted + Remaining(plan, rest) <= Limit
  BY <1>2, <1>3, <1>4, <1>5, <1>6, TradingDayAssumption
<1> QED
  BY <1>1, <1>7 DEF WithinLimit

\* What the updates of a dispatch leave alone.
Narrower(d, e, s, K) ==
  /\ e \in Dispatch
  /\ e.plan = d.plan /\ e.todo = d.todo \ {s} /\ e.orders = K /\ e.step = d.step

LEMMA Narrowed ==
  ASSUME NEW d \in Dispatch, NEW s, NEW n \in Nat, NEW K \in SUBSET (1..MaxOrders)
  PROVE  /\ Narrower(d, [d EXCEPT !.todo = d.todo \ {s}], s, d.orders)
         /\ Narrower(d, [d EXCEPT !.todo = d.todo \ {s}, !.queued = n], s, d.orders)
         /\ Narrower(d, [d EXCEPT !.todo = d.todo \ {s}, !.previews = n], s, d.orders)
         /\ Narrower(d, [d EXCEPT !.todo = d.todo \ {s}, !.orders = K], s, K)
<1> DEFINE e == [d EXCEPT !.todo = d.todo \ {s}]
<1>1. Narrower(d, e, s, d.orders)
  BY DispatchUpdates DEF Narrower, Dispatch
<1>2. /\ [e EXCEPT !.queued = n] \in Dispatch
      /\ [e EXCEPT !.previews = n] \in Dispatch
      /\ [e EXCEPT !.orders = K] \in Dispatch
  <2>1. e \in Dispatch
    BY DispatchUpdates
  <2> HIDE DEF e
  <2> QED
    BY <2>1, DispatchUpdates
<1>3. Narrower(d, [e EXCEPT !.queued = n], s, d.orders)
  <2> HIDE DEF e
  <2> QED
    BY <1>1, <1>2 DEF Narrower, Dispatch
<1>4. Narrower(d, [e EXCEPT !.previews = n], s, d.orders)
  <2> HIDE DEF e
  <2> QED
    BY <1>1, <1>2 DEF Narrower, Dispatch
<1>5. Narrower(d, [e EXCEPT !.orders = K], s, K)
  <2> HIDE DEF e
  <2> QED
    BY <1>1, <1>2 DEF Narrower, Dispatch
<1> QED
  BY <1>1, <1>3, <1>4, <1>5

LEMMA DayInvStep == DayInv /\ [DayNext]_dayVars => DayInv'
<1> SUFFICES ASSUME DayInv, [DayNext]_dayVars PROVE DayInv'
  OBVIOUS
<1>0. Inv' /\ DayTypeOK'
  BY StepHolds, DayTypeStep DEF DayInv
<1>1. /\ faults \in Nat /\ counted \in Nat /\ book \in Seq(Orders) /\ Quiet
      /\ job \in Dispatch \cup {None} /\ job' \in Dispatch \cup {None}
  BY <1>0 DEF DayInv, DayTypeOK, Inv, BookOK
<1>2. ASSUME UNCHANGED <<up, scan, book, journal, job, counted, faults>> PROVE DayInv'
  BY <1>0, <1>1, <1>2 DEF DayInv, Quiet
<1>3. ASSUME NEW f, Fault(f) PROVE DayInv'
  <2>1. faults' # 0
    BY <1>1, <1>3 DEF Fault
  <2> QED
    BY <1>0, <2>1 DEF DayInv, Quiet
<1>4. ASSUME UNCHANGED <<up, scan, faults>>,
             faults = 0 /\ WithinLimit(book, journal, job, counted)
               => WithinLimit(book', journal', job', counted')
      PROVE  DayInv'
  BY <1>0, <1>1, <1>4 DEF DayInv, Quiet
<1>5. ASSUME NEW apply \in BOOLEAN, NEW chosen, Begin(apply, chosen) PROVE DayInv'
  <2>1. PICK plan \in Plans :
          job' = [apply |-> apply, plan |-> plan, todo |-> Approved(plan) \cap chosen,
                  blocked |-> apply /\ SubmitBlocked, bridgeDown |-> bridge.blocked,
                  orders |-> {}, queued |-> 0, previews |-> 0, step |-> "intents", read |-> <<>>]
    BY <1>5 DEF Begin
  <2>2. /\ job'.plan = plan /\ job'.todo = Approved(plan) \cap chosen
        /\ job'.orders = {} /\ job'.step = "intents"
    BY <2>1
  <2>3. UNCHANGED <<up, scan, faults, book, journal, counted>> /\ job = None
    BY <1>5 DEF Begin, accounts
  <2>4. Approved(plan) \cap chosen \in SUBSET Symbols
    BY DEF Approved
  <2>5. CASE job' = None
    BY <1>4, <2>3, <2>5
  <2>6. CASE job' # None
    <3>1. ASSUME faults = 0 PROVE WithinLimit(book, journal, job', counted)
      BY <1>1, <2>2, <2>3, <2>4, <2>6, <3>1, NewDispatch
    <3> QED
      BY <1>4, <2>3, <3>1
  <2> QED
    BY <2>5, <2>6
<1>6. CASE Manual
  BY <1>5, <1>6 DEF Manual
<1>7. CASE AutoDispatch
  BY <1>5, <1>7 DEF AutoDispatch
<1>8. ASSUME NEW s \in Symbols, Hold(s) \/ PlaceRefused(s) PROVE DayInv'
  <2>1. /\ job # None /\ job.step = "intents" /\ s \in job.todo
        /\ UNCHANGED <<up, scan, faults, book, journal, counted>>
    BY <1>8 DEF Hold, PlaceRefused, Goes, Working, accounts
  <2>2. job \in Dispatch
    BY <1>1, <2>1
  <2>3. /\ job'.plan = job.plan /\ job'.todo = job.todo \ {s}
        /\ job'.orders = job.orders /\ job'.step = "intents"
        /\ job' # None
    <3>1. Narrower(job, job', s, job.orders)
      <4>1. CASE PlaceRefused(s)
        BY <2>2, <4>1, Narrowed DEF PlaceRefused
      <4>2. CASE Hold(s)
        <5> DEFINE n == IF job.apply THEN job.previews ELSE job.previews + 1
        <5>1. n \in Nat
          BY <2>2, DispatchFields
        <5>2. job' = [job EXCEPT !.todo = job.todo \ {s}, !.previews = n]
          BY <4>2 DEF Hold
        <5> HIDE DEF n
        <5> QED
          BY <2>2, <5>1, <5>2, Narrowed
      <4> QED
        BY <1>8, <4>1, <4>2
    <3> QED
      BY <2>1, <3>1, NoneAssumption DEF Narrower
  <2>4. ASSUME WithinLimit(book, journal, job, counted)
        PROVE  WithinLimit(book, journal, job', counted + 0)
    BY <1>1, <2>1, <2>2, <2>3, <2>4, DispatchFields, OneIntentLess
  <2> QED
    BY <1>1, <1>4, <2>1, <2>4
<1>9. ASSUME NEW s \in Symbols, Enqueue(s) PROVE DayInv'
  <2>1. /\ job # None /\ job.step = "intents" /\ s \in job.todo
        /\ counted' = counted + job.plan[s]
        /\ UNCHANGED <<up, scan, faults, book, journal>>
    BY <1>9 DEF Enqueue, Goes, Working
  <2>2. job \in Dispatch
    BY <1>1, <2>1
  <2>3. /\ job'.plan = job.plan /\ job'.todo = job.todo \ {s}
        /\ job'.orders = job.orders /\ job'.step = "intents"
        /\ job' # None
    <3> DEFINE n == job.queued + 1
    <3>1. n \in Nat
      BY <2>2, DispatchFields
    <3>2. job' = [job EXCEPT !.todo = job.todo \ {s}, !.queued = n]
      BY <1>9 DEF Enqueue
    <3> HIDE DEF n
    <3>3. Narrower(job, job', s, job.orders)
      BY <2>2, <3>1, <3>2, Narrowed
    <3> QED
      BY <2>1, <3>3, NoneAssumption DEF Narrower
  <2>4. job.plan[s] \in Nat
    BY <2>2, DispatchFields
  <2>5. ASSUME WithinLimit(book, journal, job, counted)
        PROVE  WithinLimit(book, journal, job', counted + job.plan[s])
    BY <1>1, <2>1, <2>2, <2>3, <2>4, <2>5, DispatchFields, OneIntentLess
  <2> QED
    BY <1>4, <2>1, <2>5
<1>10. ASSUME NEW s \in Symbols, PlaceOrder(s) PROVE DayInv'
  <2> DEFINE o == [symbol |-> s, lots |-> job.plan[s], heard |-> TRUE]
  <2>1. /\ job # None /\ job.step = "intents" /\ s \in job.todo
        /\ book' = Append(book, o)
        /\ UNCHANGED <<up, scan, faults, journal, counted>>
    BY <1>10 DEF PlaceOrder, Takes, Goes, Working
  <2>2. job \in Dispatch
    BY <1>1, <2>1
  <2>3. o \in Orders /\ o.lots = job.plan[s]
    BY <2>2, DispatchFields DEF Orders
  <2> HIDE DEF o
  <2>4. Len(book') = Len(book) + 1
    BY <1>1, <2>1, <2>3
  <2>5. /\ job'.plan = job.plan /\ job'.todo = job.todo \ {s}
        /\ job'.orders = job.orders \cup {Len(book) + 1} /\ job'.step = "intents"
        /\ job' # None
    <3> DEFINE K == job.orders \cup {Len(book')}
    <3>1. K \in SUBSET (1..MaxOrders)
      <4>1. Len(book') \in 0..MaxOrders
        BY <1>0 DEF DayTypeOK
      <4>2. Len(book) \in Nat
        BY <1>1
      <4>3. job.orders \subseteq 1..MaxOrders
        BY <2>2, DispatchFields
      <4> QED
        BY <2>4, <4>1, <4>2, <4>3
    <3>2. job' = [job EXCEPT !.todo = job.todo \ {s}, !.orders = K]
      BY <1>10 DEF PlaceOrder
    <3> HIDE DEF K
    <3>3. Narrower(job, job', s, K)
      BY <2>2, <3>1, <3>2, Narrowed
    <3> QED
      BY <2>1, <2>4, <3>3, NoneAssumption DEF Narrower, K
  <2>6. ASSUME WithinLimit(book, journal, job, counted)
        PROVE  WithinLimit(Append(book, o), journal, job', counted)
    BY <1>1, <2>1, <2>2, <2>3, <2>5, <2>6, DispatchFields, OneOrderMore
  <2> QED
    BY <1>4, <2>1, <2>6
<1>11. ASSUME NEW s \in Symbols, PlaceUnheard(s) \/ Retried(s) PROVE DayInv'
  BY <1>3, <1>11 DEF PlaceUnheard, Retried
<1>12. CASE PersistRecord
  <2>1. /\ job # None /\ job.todo = {}
        /\ UNCHANGED <<up, scan, faults, book, journal, counted>>
    BY <1>12 DEF PersistRecord, Working
  <2>2. job \in Dispatch
    BY <1>1, <2>1
  <2>3. /\ job'.plan = job.plan /\ job'.todo = {} /\ job'.orders = job.orders
        /\ job'.read = journal /\ job' # None
    <3>1. job' = [[job EXCEPT !.step = "journal"] EXCEPT !.read = journal]
      BY <1>12 DEF PersistRecord
    <3>2. job' # None
      <4> DEFINE e == [job EXCEPT !.step = "journal"]
      <4>1. e \in Dispatch
        BY <2>2, DispatchUpdates
      <4>2. journal \in Journal
        BY DEF DayInv, DayTypeOK
      <4> HIDE DEF e
      <4>3. [e EXCEPT !.read = journal] \in Dispatch
        BY <4>1, <4>2, DispatchUpdates
      <4>4. job' = [e EXCEPT !.read = journal]
        BY <3>1 DEF e
      <4> QED
        BY <4>3, <4>4, NoneAssumption
    <3> QED
      BY <2>1, <2>2, <3>1, <3>2 DEF Dispatch
  <2> QED
    BY <1>4, <2>1, <2>3 DEF WithinLimit
<1>13. CASE PersistJournal
  <2>1. /\ job # None /\ job.step = "journal" /\ job' = None
        /\ journal' = With(job.read, job.orders)
        /\ UNCHANGED <<up, scan, faults, book, counted>>
    BY <1>13 DEF PersistJournal, Working
  <2>2. job \in Dispatch
    BY <1>1, <2>1
  <2>3. ASSUME WithinLimit(book, journal, job, counted)
        PROVE  WithinLimit(book, journal', None, counted)
    <3>1. /\ job.read = journal /\ job.todo = {}
          /\ DOMAIN book = DOMAIN journal \cup job.orders
          /\ \A k \in DOMAIN journal : journal[k] = "today"
          /\ LotsOf(book, DOMAIN book) + counted + Remaining(job.plan, {}) <= Limit
      BY <2>1, <2>3 DEF WithinLimit
    <3>2. Remaining(job.plan, {}) = 0
      BY RemainingIsSum, SumOfEmpty
    <3>3. DOMAIN journal' = DOMAIN book /\ \A k \in DOMAIN journal' : journal'[k] = "today"
      BY <2>1, <3>1 DEF With
    <3> QED
      BY <3>1, <3>2, <3>3 DEF WithinLimit
  <2> QED
    BY <1>4, <2>1, <2>3
<1>14. CASE Dispatching
  BY <1>8, <1>9, <1>10, <1>11, <1>12, <1>13, <1>14 DEF Dispatching
<1>15. CASE Readiness
  <2>1. /\ job = None /\ journal' = Recovered(journal, DOMAIN book)
        /\ UNCHANGED <<up, scan, faults, book, counted, job>>
    BY <1>15 DEF Readiness, Recover
  <2>2. ASSUME WithinLimit(book, journal, None, counted)
        PROVE  WithinLimit(book, journal', None, counted)
    <3>1. DOMAIN book = DOMAIN journal
      BY <2>2 DEF WithinLimit
    <3>2. DOMAIN journal' = DOMAIN journal /\ \A k \in DOMAIN journal : journal'[k] = journal[k]
      BY <2>1, <3>1 DEF Recovered
    <3> QED
      BY <2>2, <3>2 DEF WithinLimit
  <2> QED
    BY <1>4, <2>1, <2>2
<1>16. CASE ScanRead
  BY <1>3, <1>16 DEF ScanRead
<1>17. CASE ScanWrite
  BY <1>0, <1>1, <1>17 DEF ScanWrite, Quiet, DayInv
<1>18. CASE Crash
  BY <1>3, <1>18 DEF Crash
<1>19. CASE Restart
  BY <1>0, <1>1, <1>19 DEF Restart, Quiet, DayInv
<1>20. CASE SetStop \/ ToggleLive
  BY <1>2, <1>20 DEF SetStop, ToggleLive, accounts
<1>21. CASE Report \/ ReportAges \/ Guards
  BY <1>2, <1>21 DEF Report, ReportAges, Guards, BridgeStep, accounts
<1>22. CASE UNCHANGED dayVars
  BY <1>2, <1>22 DEF dayVars, accounts
<1> QED
  BY <1>6, <1>7, <1>14, <1>15, <1>16, <1>17, <1>18, <1>19, <1>20, <1>21, <1>22 DEF DayNext

\* Every variable of the day has its type.
THEOREM DayTypeCorrect == DaySpec => []DayTypeOK
<1>1. DayInv => DayTypeOK
  BY DEF DayInv
<1> QED
  BY <1>1, DayInvInit, DayInvStep, PTL DEF DaySpec

\* However many dispatches, previews and refreshes a day sees, what they made the
\* broker and the gateway buy stays within the day's limit, until a process dies,
\* an answer is lost or a scan runs beside a handler.
THEOREM DayWithinLimit == DaySpec => []DayExposureKept
<1>1. DayInv => DayExposureKept
  <2> SUFFICES ASSUME DayInv, faults = 0
               PROVE  LotsOf(book, DOMAIN book) + counted <= Limit
    BY DEF DayExposureKept
  <2>1. WithinLimit(book, journal, job, counted) /\ counted \in Nat
    BY DEF DayInv, DayTypeOK, Quiet
  <2>2. LotsOf(book, DOMAIN book) \in Nat
    BY BookIsNat DEF DayInv, Inv, BookOK
  <2>3. job # None => Remaining(job.plan, job.todo) \in Nat
    BY DispatchFields, RemainingFacts DEF DayInv, DayTypeOK
  <2> QED
    BY <2>1, <2>2, <2>3, TradingDayAssumption DEF WithinLimit
<1> QED
  BY <1>1, DayInvInit, DayInvStep, PTL DEF DaySpec

-----------------------------------------------------------------------------
(* The journal under crashes and lost answers.  Only a scan beside the       *)
(* handlers writes the journal between the moment a dispatch reads it and    *)
(* the moment it writes it; where none does, what the dispatch writes is the *)
(* journal and its own orders, and a restart adds what a crash left out.     *)

OrdersInSight ==
  \A k \in DOMAIN book : up /\ book[k].heard => k \in DOMAIN journal \/ (job # None /\ k \in job.orders)

ReadStillHolds ==
  /\ scan = None
  /\ ~up => job = None
  /\ job # None /\ job.step = "journal" => job.read = journal

InSight == OrdersInSight /\ ReadStillHolds

LEMMA InSightInit == DayInit => InSight
BY DEF DayInit, InSight, OrdersInSight, ReadStillHolds

\* A step that leaves the book and the orders in hand alone, and of the journal
\* at most adds to it.
LEMMA InSightKept ==
  ASSUME InSight, UNCHANGED <<book, up>>, DOMAIN journal \subseteq DOMAIN journal',
         job # None => job' # None /\ job'.orders = job.orders
  PROVE  OrdersInSight'
  BY DEF InSight, OrdersInSight

\* The broker takes one more order.
LEMMA InSightTaken ==
  ASSUME DayInv, InSight, job \in Dispatch, job' \in Dispatch,
         NEW s \in Symbols, NEW heard \in BOOLEAN, Takes(s, heard),
         UNCHANGED <<up, journal>>, job.orders \subseteq job'.orders,
         heard => Len(book') \in job'.orders
  PROVE  OrdersInSight'
<1> DEFINE o == [symbol |-> s, lots |-> job.plan[s], heard |-> heard]
<1>1. o \in Orders /\ o.heard = heard
  BY DispatchFields DEF Orders
<1>2. book' = Append(book, o) /\ book \in Seq(Orders)
  BY DEF Takes, DayInv, Inv, BookOK
<1> HIDE DEF o
<1>3. /\ Len(book') = Len(book) + 1 /\ DOMAIN book' = 1..Len(book')
      /\ \A k \in DOMAIN book : book'[k] = book[k]
      /\ book'[Len(book')] = o
  BY <1>1, <1>2
<1>4. ASSUME NEW k \in DOMAIN book', k \notin DOMAIN book PROVE k = Len(book')
  BY <1>2, <1>3, <1>4
<1>5. job # None /\ job' # None
  BY DispatchFields
<1>6. ASSUME NEW k \in DOMAIN book', up', book'[k].heard
      PROVE  k \in DOMAIN journal' \/ k \in job'.orders
  <2>1. CASE k \in DOMAIN book
    BY <1>3, <1>5, <1>6, <2>1 DEF InSight, OrdersInSight
  <2>2. CASE k \notin DOMAIN book
    <3>1. k = Len(book') /\ book'[k] = o
      BY <1>3, <1>4, <2>2
    <3> QED
      BY <1>1, <1>6, <3>1
  <2> QED
    BY <2>1, <2>2
<1> QED
  BY <1>5, <1>6 DEF OrdersInSight

LEMMA RecoveredAdds ==
  ASSUME NEW j, NEW orders
  PROVE  DOMAIN Recovered(j, orders) = DOMAIN j \cup orders /\ DOMAIN With(j, orders) = DOMAIN j \cup orders
  BY DEF Recovered, With

LEMMA InSightStep ==
  ASSUME "scan" \notin Faults, DayInv, DayInv', InSight, [DayNext]_dayVars
  PROVE  InSight' /\ DOMAIN journal \subseteq DOMAIN journal'
<1>1. job \in Dispatch \cup {None} /\ job' \in Dispatch \cup {None} /\ None \notin Dispatch
  BY NoneAssumption DEF DayInv, DayTypeOK
<1>2. ASSUME UNCHANGED <<up, job, scan, book, journal>>
      PROVE  InSight' /\ DOMAIN journal \subseteq DOMAIN journal'
  BY <1>2 DEF InSight, OrdersInSight, ReadStillHolds
<1>n. ASSUME NEW s \in Symbols, NEW heard \in BOOLEAN, Takes(s, heard), job \in Dispatch
      PROVE  Len(book') \in 1..MaxOrders
  <2>1. [symbol |-> s, lots |-> job.plan[s], heard |-> heard] \in Orders
    BY <1>n, DispatchFields DEF Orders
  <2>2. Len(book') = Len(book) + 1 /\ Len(book) \in Nat
    BY <1>n, <2>1 DEF Takes, DayInv, DayTypeOK
  <2> QED
    BY <1>n, <2>2, TradingDayAssumption DEF Takes
\* A step of the dispatch on its list of intents.
<1>3. ASSUME Working("intents"), job' # None, job'.step = "intents", OrdersInSight',
             UNCHANGED <<up, scan, journal>>
      PROVE  InSight' /\ DOMAIN journal \subseteq DOMAIN journal'
  BY <1>3 DEF InSight, ReadStillHolds, Working
<1>4. ASSUME NEW apply, NEW chosen, Begin(apply, chosen)
      PROVE  InSight' /\ DOMAIN journal \subseteq DOMAIN journal'
  <2>1. UNCHANGED <<up, scan, book, journal>> /\ up /\ job = None
    BY <1>4 DEF Begin, accounts
  <2>2. job'.step = "intents"
    BY <1>4 DEF Begin
  <2> QED
    BY <2>1, <2>2 DEF InSight, OrdersInSight, ReadStillHolds
<1>5. CASE Manual \/ AutoDispatch
  BY <1>4, <1>5 DEF Manual, AutoDispatch
<1>6. ASSUME NEW s \in Symbols, Hold(s) \/ Enqueue(s) \/ PlaceRefused(s)
      PROVE  InSight' /\ DOMAIN journal \subseteq DOMAIN journal'
  <2>1. /\ Working("intents") /\ job \in Dispatch
        /\ UNCHANGED <<up, scan, book, journal>>
    BY <1>1, <1>6 DEF Hold, Enqueue, PlaceRefused, Goes, Working, accounts
  <2>2. job' \in Dispatch /\ job'.orders = job.orders /\ job'.step = job.step
    <3> DEFINE e == [job EXCEPT !.todo = job.todo \ {s}]
    <3>1. e \in Dispatch /\ e.orders = job.orders /\ e.step = job.step
      BY <2>1, DispatchUpdates DEF Dispatch
    <3>2. \E n \in Nat : job' = e \/ job' = [e EXCEPT !.previews = n] \/ job' = [e EXCEPT !.queued = n]
      <4>1. job.previews \in Nat /\ job.queued \in Nat
        BY <2>1, DispatchFields
      <4>2. CASE Hold(s)
        <5> DEFINE n == IF job.apply THEN job.previews ELSE job.previews + 1
        <5>1. job' = [e EXCEPT !.previews = n]
          BY <4>2 DEF Hold
        <5>2. n \in Nat
          BY <4>1
        <5> HIDE DEF e, n
        <5> QED
          BY <5>1, <5>2
      <4>3. CASE Enqueue(s)
        <5> DEFINE n == job.queued + 1
        <5>1. job' = [e EXCEPT !.queued = n]
          BY <4>3 DEF Enqueue
        <5>2. n \in Nat
          BY <4>1
        <5> HIDE DEF e, n
        <5> QED
          BY <5>1, <5>2
      <4>4. CASE PlaceRefused(s)
        BY <4>1, <4>4 DEF PlaceRefused
      <4> QED
        BY <1>6, <4>2, <4>3, <4>4
    <3> HIDE DEF e
    <3>3. \A n \in Nat : [e EXCEPT !.previews = n] \in Dispatch /\ [e EXCEPT !.queued = n] \in Dispatch
      BY <3>1, DispatchUpdates
    <3>4. job'.orders = e.orders /\ job'.step = e.step
      BY <3>1, <3>2 DEF Dispatch
    <3>5. job' \in Dispatch
      BY <3>1, <3>2, <3>3
    <3> QED
      BY <3>1, <3>4, <3>5
  <2>3. job' # None /\ OrdersInSight'
    BY <1>1, <2>1, <2>2, InSightKept
  <2> QED
    BY <1>3, <2>1, <2>2, <2>3 DEF Working
<1>7. ASSUME NEW s \in Symbols, PlaceOrder(s)
      PROVE  InSight' /\ DOMAIN journal \subseteq DOMAIN journal'
  <2>1. Working("intents") /\ Takes(s, TRUE) /\ UNCHANGED <<up, scan, journal>> /\ job \in Dispatch
    BY <1>1, <1>7 DEF PlaceOrder, Goes, Working
  <2>2. job' = [job EXCEPT !.todo = job.todo \ {s}, !.orders = job.orders \cup {Len(book')}]
    BY <1>7 DEF PlaceOrder
  <2>3. job' \in Dispatch /\ job'.orders = job.orders \cup {Len(book')} /\ job'.step = job.step
    <3> DEFINE e == [job EXCEPT !.todo = job.todo \ {s}]
               K == job.orders \cup {Len(book')}
    <3>1. e \in Dispatch /\ e.step = job.step
      BY <2>1, DispatchUpdates DEF Dispatch
    <3>2. job' = [e EXCEPT !.orders = K]
      BY <2>2
    <3>3. K \in SUBSET (1..MaxOrders)
      BY <1>n, <2>1, DispatchFields
    <3> HIDE DEF e, K
    <3>4. job' \in Dispatch
      BY <3>1, <3>2, <3>3, DispatchUpdates
    <3>5. job'.orders = K /\ job'.step = e.step
      BY <3>1, <3>2 DEF Dispatch
    <3> QED
      BY <3>1, <3>4, <3>5 DEF K
  <2>4. job.orders \subseteq job'.orders /\ Len(book') \in job'.orders
    BY <2>3
  <2>5. OrdersInSight'
    BY <2>1, <2>3, <2>4, InSightTaken
  <2> QED
    BY <1>1, <1>3, <2>1, <2>3, <2>5 DEF Working
<1>8. ASSUME NEW s \in Symbols, PlaceUnheard(s) \/ Retried(s)
      PROVE  InSight' /\ DOMAIN journal \subseteq DOMAIN journal'
  <2>1. Working("intents") /\ Takes(s, FALSE) /\ UNCHANGED <<up, scan, journal>> /\ job \in Dispatch
    BY <1>1, <1>8 DEF PlaceUnheard, Retried, Goes, Working
  <2>2. job' = [job EXCEPT !.todo = job.todo \ {s}] \/ job' = job
    BY <1>8 DEF PlaceUnheard, Retried
  <2>3. job' \in Dispatch /\ job'.orders = job.orders /\ job'.step = job.step
    BY <2>1, <2>2, DispatchUpdates DEF Dispatch
  <2> QED
    BY <1>1, <1>3, <2>1, <2>3, InSightTaken DEF Working
<1>9. CASE PersistRecord
  <2>1. /\ Working("intents") /\ job \in Dispatch /\ UNCHANGED <<up, scan, book, journal>>
        /\ job' = [job EXCEPT !.step = "journal", !.read = journal]
    BY <1>1, <1>9 DEF PersistRecord, Working
  <2>2. job'.orders = job.orders /\ job'.read = journal
    BY <2>1 DEF Dispatch
  <2>3. job' # None
    <3> DEFINE e == [job EXCEPT !.step = "journal"]
    <3>1. e \in Dispatch /\ job' = [e EXCEPT !.read = journal] /\ journal \in Journal
      BY <2>1, DispatchUpdates DEF DayInv, DayTypeOK
    <3> HIDE DEF e
    <3> QED
      BY <1>1, <3>1, DispatchUpdates
  <2> QED
    BY <2>1, <2>2, <2>3, InSightKept DEF InSight, ReadStillHolds, Working
<1>10. CASE PersistJournal
  <2>1. /\ job # None /\ job.read = journal /\ UNCHANGED <<up, scan, book>>
        /\ journal' = With(job.read, job.orders) /\ job' = None
    BY <1>10 DEF PersistJournal, Working, InSight, ReadStillHolds
  <2>2. DOMAIN journal' = DOMAIN journal \cup job.orders
    BY <2>1, RecoveredAdds
  <2> QED
    BY <2>1, <2>2 DEF InSight, OrdersInSight, ReadStillHolds
<1>11. CASE Readiness
  <2>1. UNCHANGED <<up, job, scan, book>> /\ journal' = Recovered(journal, DOMAIN book) /\ job = None
    BY <1>11 DEF Readiness, Recover
  <2>2. DOMAIN journal' = DOMAIN journal \cup DOMAIN book
    BY <2>1, RecoveredAdds
  <2> QED
    BY <2>1, <2>2 DEF InSight, OrdersInSight, ReadStillHolds
<1>12. CASE ScanRead \/ ScanWrite
  BY <1>12 DEF ScanRead, ScanWrite, Fault, InSight, ReadStillHolds
<1>13. CASE Crash
  <2>1. up' = FALSE /\ job' = None /\ scan' = None /\ journal' = journal
    BY <1>13 DEF Crash, accounts
  <2> QED
    BY <2>1 DEF InSight, OrdersInSight, ReadStillHolds
<1>14. CASE Restart
  <2>1. UNCHANGED <<job, scan, book>> /\ journal' = Recovered(journal, DOMAIN book) /\ job = None
    BY <1>14 DEF Restart, Recover, InSight, ReadStillHolds
  <2>2. DOMAIN journal' = DOMAIN journal \cup DOMAIN book
    BY <2>1, RecoveredAdds
  <2> QED
    BY <2>1, <2>2 DEF InSight, OrdersInSight, ReadStillHolds
<1>15. CASE SetStop \/ ToggleLive
  BY <1>2, <1>15 DEF SetStop, ToggleLive, accounts
<1>16. CASE Report \/ ReportAges \/ Guards
  BY <1>2, <1>16 DEF Report, ReportAges, Guards, BridgeStep, accounts
<1>17. CASE UNCHANGED dayVars
  BY <1>2, <1>17 DEF dayVars, accounts
<1> QED
  BY <1>5, <1>6, <1>7, <1>8, <1>9, <1>10, <1>11, <1>12, <1>13, <1>14, <1>15, <1>16, <1>17
     DEF DayNext, Dispatching

\* However processes die and answers are lost, an order whose answer came is in
\* the journal or in the hands of the dispatch that placed it whenever the
\* process is up, unless a scan runs beside the handlers.
THEOREM HeardOrdersInSight == DaySpec => []("scan" \notin Faults => OrdersInSight)
<1>1. DayInit => ("scan" \notin Faults => InSight)
  BY InSightInit
<1>2. /\ DayInv /\ DayInv' /\ ("scan" \notin Faults => InSight) /\ [DayNext]_dayVars
      => ("scan" \notin Faults => InSight)'
  BY InSightStep
<1>3. ("scan" \notin Faults => InSight) => ("scan" \notin Faults => OrdersInSight)
  BY DEF InSight
<1> QED
  BY <1>1, <1>2, <1>3, DayInvInit, DayInvStep, PTL DEF DaySpec

\* The journal forgets no order (system_api.py writes back the whole list it
\* read), unless a scan runs beside the handlers.
THEOREM JournalForgetsNothing ==
  DaySpec => []["scan" \notin Faults => DOMAIN journal \subseteq DOMAIN journal']_dayVars
<1>1. DayInit => ("scan" \notin Faults => InSight)
  BY InSightInit
<1>2. /\ DayInv /\ DayInv' /\ ("scan" \notin Faults => InSight) /\ [DayNext]_dayVars
      => ("scan" \notin Faults => InSight)'
  BY InSightStep
<1>3. /\ DayInv /\ DayInv' /\ ("scan" \notin Faults => InSight) /\ [DayNext]_dayVars
      => ["scan" \notin Faults => DOMAIN journal \subseteq DOMAIN journal']_dayVars
  BY InSightStep
<1> QED
  BY <1>1, <1>2, <1>3, DayInvInit, DayInvStep, PTL DEF DaySpec

=============================================================================
