-------------------------- MODULE SellWatch_proofs --------------------------
(***************************************************************************)
(* Proofs about the position watches, for any deployment in which nothing  *)
(* but a cancelled order goes wrong.                                       *)
(*                                                                         *)
(* Each watch is safe by what it knows.  The fast watch's sells are in its *)
(* tracker, or the tracker will be made from the broker's orders; in a     *)
(* scan they are held, or their symbols are done with.  The deep watch's   *)
(* sells are in the journal, which is true as long as nobody else writes   *)
(* it.                                                                     *)
(***************************************************************************)
EXTENDS SellWatch, FiniteSetTheorems, TLAPS

\* Sells whose lots are in L; scans with availabilities in A, open symbols in O
\* and journals in R.  The arguments do not depend on those.
SellsOver(L) == [symbol : Symbols, by : {"fast", "deep"}, lots : L, status : SellStatuses, young : BOOLEAN]
FastOver(A, R) ==
  [on : BOOLEAN, todo : SUBSET Symbols, available : A, marks : Marks, recent : BOOLEAN,
   open : SUBSET Symbols, order : Nat, read : R]
DeepOver(A, O, R) ==
  [on : BOOLEAN, todo : SUBSET Symbols, available : A, loaded : BOOLEAN,
   open : O, order : Nat, read : R]

\* The part of TypeOK the arguments need.
SellTypes ==
  /\ deployed \in Deployments
  /\ \E L : sells \in Seq(SellsOver(L))
  /\ tracker \in Trackers
  /\ \E A, R : fast \in FastOver(A, R)
  /\ \E A, O, R : deep \in DeepOver(A, O, R)

\* At the broker no sell waits on the gateway's list.
NoneQueued == deployed.plane = "local" => \A k \in 1..Len(sells) : sells[k].status # "queued"

\* The fast watch's sells that may not be followed by another: at the broker
\* those that are open, for the gateway those under 600 seconds old.
Binds(sell) == sell.by = "fast" /\ IF deployed.plane = "local" THEN sell.status = "open" ELSE sell.young
Binding == {k \in 1..Len(sells) : Binds(sells[k])}

\* Between scans the tracker knows them, if it will be believed; in a scan the
\* scan does, and will not look at their symbols, or hold them.
FastKnows ==
  /\ ~fast.on /\ (deployed.plane = "local" => tracker.recent) =>
       \A k \in Binding : tracker.marks[sells[k].symbol] = "fresh"
  /\ fast.on =>
       \A k \in Binding : /\ fast.marks[sells[k].symbol] = "fresh"
                          /\ sells[k].symbol \notin fast.todo \/ sells[k].symbol \in fast.open
FastOnce == \A j, k \in Binding : sells[j].symbol = sells[k].symbol => j = k

FastSafe == NoneQueued /\ FastKnows /\ FastOnce

DeepAlone == deployed.plane = "local" /\ deployed.jobs \subseteq {"deep"} /\ Undisturbed
OpenSells == {k \in 1..Len(sells) : OpenAt(k)}

\* Nobody but the deep watch writes the journal, which lists every open sell
\* but the one about to be written.
JournalIsDeeps ==
  /\ ~fast.on /\ recon = None
  /\ DOMAIN journal \subseteq 1..Len(sells)
  /\ \A k \in DOMAIN journal : journal[k] = "open"
  /\ deep.on /\ deep.order # 0 => deep.read = journal /\ deep.order \in 1..Len(sells) /\ deep.loaded
  /\ \A k \in OpenSells : k \in DOMAIN journal \/ (deep.on /\ deep.order = k)
DeepKnows ==
  deep.on /\ deep.loaded =>
    \A k \in OpenSells : sells[k].symbol \notin deep.todo \/ sells[k].symbol \in deep.open
DeepOnce == \A j, k \in OpenSells : sells[j].symbol = sells[k].symbol => j = k

DeepSafe == JournalIsDeeps /\ DeepKnows /\ DeepOnce

SellInv == SellTypes /\ (Undisturbed => FastSafe) /\ (DeepAlone => DeepSafe)

-----------------------------------------------------------------------------
(* What a step does to the sells. *)

LEMMA SeqWidens == ASSUME NEW A, NEW B, A \subseteq B, NEW q \in Seq(A) PROVE q \in Seq(B)
<1>1. Len(q) \in Nat /\ q = [k \in 1..Len(q) |-> q[k]] /\ \A k \in 1..Len(q) : q[k] \in B
  OBVIOUS
<1>2. q \in [1..Len(q) -> B]
  BY <1>1
<1> QED
  BY <1>1, <1>2

\* A sell is added at the end.
LEMMA SellIs ==
  ASSUME SellTypes, NEW s \in Symbols, NEW by \in {"fast", "deep"}, NEW lots,
         NEW status \in SellStatuses, sells' = Sell(s, by, lots, status)
  PROVE  /\ \E L : sells' \in Seq(SellsOver(L))
         /\ Len(sells) \in Nat /\ Len(sells') = Len(sells) + 1
         /\ sells'[Len(sells) + 1].symbol = s /\ sells'[Len(sells) + 1].by = by
         /\ sells'[Len(sells) + 1].status = status
         /\ \A k \in 1..Len(sells) : sells'[k] = sells[k]
<1> DEFINE x == [symbol |-> s, by |-> by, lots |-> lots, status |-> status, young |-> TRUE]
<1>1. PICK L : sells \in Seq(SellsOver(L))
  BY DEF SellTypes
<1>2. SellsOver(L) \subseteq SellsOver(L \cup {lots}) /\ x \in SellsOver(L \cup {lots})
  BY DEF SellsOver
<1>3. sells' = Append(sells, x)
  BY DEF Sell
<1> HIDE DEF x
<1>4. sells \in Seq(SellsOver(L \cup {lots}))
  BY <1>1, <1>2, SeqWidens
<1>5. /\ sells' \in Seq(SellsOver(L \cup {lots}))
      /\ Len(sells) \in Nat /\ Len(sells') = Len(sells) + 1
      /\ sells'[Len(sells) + 1] = x
      /\ \A k \in 1..Len(sells) : sells'[k] = sells[k]
  BY <1>2, <1>3, <1>4
<1> QED
  BY <1>5 DEF x

\* A sell's status changes.
LEMMA StatusIs ==
  ASSUME SellTypes, NEW k \in 1..Len(sells), NEW status \in SellStatuses,
         sells' = [sells EXCEPT ![k].status = status]
  PROVE  /\ \E L : sells' \in Seq(SellsOver(L))
         /\ Len(sells') = Len(sells)
         /\ sells'[k].status = status
         /\ sells'[k].symbol = sells[k].symbol /\ sells'[k].by = sells[k].by
         /\ sells'[k].young = sells[k].young
         /\ \A j \in 1..Len(sells) : j # k => sells'[j] = sells[j]
<1> DEFINE x == [sells[k] EXCEPT !.status = status]
<1>1. PICK L : sells \in Seq(SellsOver(L))
  BY DEF SellTypes
<1>2. sells[k] \in SellsOver(L)
  BY <1>1
<1>3. /\ x \in SellsOver(L) /\ x.status = status
      /\ x.symbol = sells[k].symbol /\ x.by = sells[k].by /\ x.young = sells[k].young
  BY <1>2 DEF SellsOver
<1>4. sells' = [sells EXCEPT ![k] = x]
  BY <1>1
<1> HIDE DEF x
<1>5. /\ sells' \in Seq(SellsOver(L)) /\ Len(sells') = Len(sells) /\ sells'[k] = x
      /\ \A j \in 1..Len(sells) : j # k => sells'[j] = sells[j]
  BY <1>1, <1>3, <1>4
<1> QED
  BY <1>3, <1>5

\* A symbol's sells age.
LEMMA AgedSells ==
  ASSUME SellTypes, NEW s,
         sells' = [k \in 1..Len(sells) |->
                     IF sells[k].symbol = s THEN [sells[k] EXCEPT !.young = FALSE] ELSE sells[k]]
  PROVE  /\ \E L : sells' \in Seq(SellsOver(L))
         /\ Len(sells') = Len(sells)
         /\ \A k \in 1..Len(sells) :
              /\ sells'[k].symbol = sells[k].symbol /\ sells'[k].by = sells[k].by
              /\ sells'[k].status = sells[k].status
              /\ sells'[k].young = IF sells[k].symbol = s THEN FALSE ELSE sells[k].young
<1> DEFINE aged(k) == IF sells[k].symbol = s THEN [sells[k] EXCEPT !.young = FALSE] ELSE sells[k]
<1>1. PICK L : sells \in Seq(SellsOver(L))
  BY DEF SellTypes
<1>2. ASSUME NEW k \in 1..Len(sells)
      PROVE  /\ aged(k) \in SellsOver(L)
             /\ aged(k).symbol = sells[k].symbol /\ aged(k).by = sells[k].by
             /\ aged(k).status = sells[k].status
             /\ aged(k).young = IF sells[k].symbol = s THEN FALSE ELSE sells[k].young
  <2>1. sells[k] \in SellsOver(L)
    BY <1>1
  <2> QED
    BY <2>1 DEF SellsOver
<1>3. sells' = [k \in 1..Len(sells) |-> aged(k)] /\ Len(sells) \in Nat
  BY <1>1
<1> HIDE DEF aged
<1>4. sells' \in [1..Len(sells) -> SellsOver(L)]
  BY <1>2, <1>3
<1>5. sells' \in Seq(SellsOver(L)) /\ Len(sells') = Len(sells)
  BY <1>3, <1>4
<1> QED
  BY <1>2, <1>3, <1>5

-----------------------------------------------------------------------------
(* Types. *)

LEMMA UndisturbedFaults ==
  ASSUME Undisturbed, NEW kind, Fault(kind) PROVE kind = "cancel"
BY DEF Undisturbed, Fault

LEMMA LoadedMarks == SellTypes => Loaded \in Marks
BY DEF Loaded, Marks, SellTypes, Trackers

LEMMA PositionsAre == Positions \subseteq Symbols /\ BrokerOpenSells \subseteq Symbols
BY DEF Positions, BrokerOpenSells

LEMMA MarkedAre == ASSUME NEW marks PROVE Marked(marks) \subseteq Symbols
BY DEF Marked

\* A scan that starts.
LEMMA StartIs ==
  ASSUME SellTypes, NEW marks \in Marks, NEW recent \in BOOLEAN, NEW refreshed \in SUBSET Symbols,
         StartScan(marks, recent, refreshed)
  PROVE  /\ \E A, R : fast' \in FastOver(A, R)
         /\ fast'.on /\ fast'.marks = marks
         /\ fast'.open = IF refreshed # {} THEN refreshed ELSE Marked(Loaded)
<1> DEFINE avail == [s \in Symbols |-> Available(s)]
           open == IF refreshed # {} THEN refreshed ELSE Marked(Loaded)
<1>1. open \subseteq Symbols /\ Positions \subseteq Symbols
  BY PositionsAre, MarkedAre
<1>2. fast' = [on |-> TRUE, todo |-> Positions, available |-> avail, marks |-> marks, recent |-> recent,
               open |-> open, order |-> 0, read |-> <<>>]
  BY DEF StartScan
<1> HIDE DEF avail, open
<1>3. fast' \in FastOver({avail}, {<<>>})
  BY <1>1, <1>2 DEF FastOver
<1>4. fast'.on /\ fast'.marks = marks /\ fast'.open = open
  BY <1>2
<1> QED
  BY <1>3, <1>4 DEF open

\* The fields of the scans that a step changes.
LEMMA FastTodo ==
  ASSUME NEW A, NEW R, NEW f \in FastOver(A, R), NEW t \in SUBSET Symbols
  PROVE  /\ [f EXCEPT !.todo = t] \in FastOver(A, R)
         /\ [f EXCEPT !.todo = t].on = f.on /\ [f EXCEPT !.todo = t].todo = t
         /\ [f EXCEPT !.todo = t].marks = f.marks /\ [f EXCEPT !.todo = t].open = f.open
BY DEF FastOver

LEMMA FastMarks ==
  ASSUME NEW A, NEW R, NEW f \in FastOver(A, R), NEW m \in Marks
  PROVE  /\ [f EXCEPT !.marks = m] \in FastOver(A, R)
         /\ [f EXCEPT !.marks = m].on = f.on /\ [f EXCEPT !.marks = m].todo = f.todo
         /\ [f EXCEPT !.marks = m].marks = m /\ [f EXCEPT !.marks = m].open = f.open
BY DEF FastOver

LEMMA FastOrder ==
  ASSUME NEW A, NEW R, NEW f \in FastOver(A, R), NEW o \in Nat
  PROVE  /\ [f EXCEPT !.order = o] \in FastOver(A, R)
         /\ [f EXCEPT !.order = o].on = f.on /\ [f EXCEPT !.order = o].todo = f.todo
         /\ [f EXCEPT !.order = o].marks = f.marks /\ [f EXCEPT !.order = o].open = f.open
BY DEF FastOver

\* The fast watch's steps within a scan.
LEMMA FastGoesOn ==
  ASSUME SellTypes, NEW s \in Symbols,
         \/ fast' = [fast EXCEPT !.todo = FastLeaves(s)]
         \/ fast' = [fast EXCEPT !.todo = FastLeaves(s), !.marks = Marking(s)]
         \/ fast' = [fast EXCEPT !.todo = FastLeaves(s), !.marks = Marking(s),
                                 !.order = Len(sells) + 1, !.read = journal]
  PROVE  /\ \E A, R : fast' \in FastOver(A, R)
         /\ fast'.on = fast.on /\ fast'.open = fast.open /\ fast'.todo = fast.todo \ {s}
         /\ fast'.marks = fast.marks \/ fast'.marks = [fast.marks EXCEPT ![s] = "fresh"]
<1>1. PICK A, R : fast \in FastOver(A, R)
  BY DEF SellTypes
<1> DEFINE t == fast.todo \ {s}
           m == [fast.marks EXCEPT ![s] = "fresh"]
           f1 == [fast EXCEPT !.todo = t]
           f2 == [f1 EXCEPT !.marks = m]
           n == Len(sells) + 1
           f3 == [f2 EXCEPT !.order = n]
           f4 == [f3 EXCEPT !.read = journal]
<1>2. t \in SUBSET Symbols /\ m \in Marks /\ n \in Nat
  BY <1>1 DEF FastOver, Marks, SellTypes
<1> HIDE DEF t, m, n
<1>3. /\ f1 \in FastOver(A, R)
      /\ f1.on = fast.on /\ f1.todo = t /\ f1.marks = fast.marks /\ f1.open = fast.open
  BY <1>1, <1>2, FastTodo
<1> HIDE DEF f1
<1>4. /\ f2 \in FastOver(A, R)
      /\ f2.on = fast.on /\ f2.todo = t /\ f2.marks = m /\ f2.open = fast.open
  BY <1>2, <1>3, FastMarks
<1> HIDE DEF f2
<1>5. /\ f3 \in FastOver(A, R)
      /\ f3.on = fast.on /\ f3.todo = t /\ f3.marks = m /\ f3.open = fast.open
  BY <1>2, <1>4, FastOrder
<1> HIDE DEF f3
<1>6. /\ f4 \in FastOver(A, R \cup {journal})
      /\ f4.on = fast.on /\ f4.todo = t /\ f4.marks = m /\ f4.open = fast.open
  BY <1>5 DEF FastOver
<1> HIDE DEF f4
<1>7. fast' = f1 \/ fast' = f2 \/ fast' = f4
  BY DEF f1, f2, f3, f4, t, m, n, FastLeaves, Marking
<1> QED
  BY <1>3, <1>4, <1>6, <1>7 DEF t, m

\* The deep watch's.
LEMMA DeepStarts ==
  ASSUME DeepBegin
  PROVE  /\ \E A, O, R : deep' \in DeepOver(A, O, R)
         /\ deep'.loaded = FALSE /\ deep'.order = 0
<1> DEFINE avail == [s \in Symbols |-> Available(s)]
<1>1. deep' = [on |-> TRUE, todo |-> Positions, available |-> avail, loaded |-> FALSE,
               open |-> {}, order |-> 0, read |-> <<>>]
  BY DEF DeepBegin
<1> HIDE DEF avail
<1>2. deep' \in DeepOver({avail}, {{}}, {<<>>})
  BY <1>1, PositionsAre DEF DeepOver
<1> QED
  BY <1>1, <1>2

LEMMA DeepGoesOn ==
  ASSUME SellTypes, NEW s, NEW order \in Nat, NEW read, DeepMoves(s, order, read)
  PROVE  /\ \E A, O, R : deep' \in DeepOver(A, O, R)
         /\ deep'.on = deep.on /\ deep'.todo = deep.todo \ {s} /\ deep'.loaded
         /\ deep'.open = DeepOpen /\ deep'.order = order /\ deep'.read = read
<1>1. PICK A, O, R : deep \in DeepOver(A, O, R)
  BY DEF SellTypes
<1> DEFINE t == deep.todo \ {s}
           op == DeepOpen
           d1 == [deep EXCEPT !.todo = t]
           d2 == [d1 EXCEPT !.loaded = TRUE]
           d3 == [d2 EXCEPT !.open = op]
           d4 == [d3 EXCEPT !.order = order]
           d5 == [d4 EXCEPT !.read = read]
<1>2. t \in SUBSET Symbols
  BY <1>1 DEF DeepOver
<1> HIDE DEF t, op
<1>3. d1 \in DeepOver(A, O, R) /\ d1.on = deep.on /\ d1.todo = t
  BY <1>1, <1>2 DEF DeepOver
<1> HIDE DEF d1
<1>4. d2 \in DeepOver(A, O, R) /\ d2.on = deep.on /\ d2.todo = t /\ d2.loaded
  BY <1>3 DEF DeepOver
<1> HIDE DEF d2
<1>5. d3 \in DeepOver(A, O \cup {op}, R) /\ d3.on = deep.on /\ d3.todo = t /\ d3.loaded /\ d3.open = op
  BY <1>4 DEF DeepOver
<1> HIDE DEF d3
<1>6. /\ d4 \in DeepOver(A, O \cup {op}, R) /\ d4.on = deep.on /\ d4.todo = t /\ d4.loaded
      /\ d4.open = op /\ d4.order = order
  BY <1>5 DEF DeepOver
<1> HIDE DEF d4
<1>7. /\ d5 \in DeepOver(A, O \cup {op}, R \cup {read}) /\ d5.on = deep.on /\ d5.todo = t /\ d5.loaded
      /\ d5.open = op /\ d5.order = order /\ d5.read = read
  BY <1>6 DEF DeepOver
<1> HIDE DEF d5
<1>8. deep' = d5
  BY DEF DeepMoves, d1, d2, d3, d4, d5, t, op
<1> QED
  BY <1>7, <1>8 DEF t, op

\* A scan that wrote the journal.
LEMMA FastWrote ==
  ASSUME SellTypes, fast' = [fast EXCEPT !.order = 0, !.read = <<>>]
  PROVE  /\ \E A, R : fast' \in FastOver(A, R)
         /\ fast'.on = fast.on /\ fast'.todo = fast.todo /\ fast'.marks = fast.marks /\ fast'.open = fast.open
<1>1. PICK A, R : fast \in FastOver(A, R)
  BY DEF SellTypes
<1>2. /\ fast' \in FastOver(A, R \cup {<<>>})
      /\ fast'.on = fast.on /\ fast'.todo = fast.todo /\ fast'.marks = fast.marks /\ fast'.open = fast.open
  BY <1>1 DEF FastOver
<1> QED
  BY <1>2

LEMMA DeepWrote ==
  ASSUME SellTypes, deep' = [deep EXCEPT !.order = 0, !.read = <<>>]
  PROVE  /\ \E A, O, R : deep' \in DeepOver(A, O, R)
         /\ deep'.on = deep.on /\ deep'.todo = deep.todo /\ deep'.loaded = deep.loaded
         /\ deep'.open = deep.open /\ deep'.order = 0
<1>1. PICK A, O, R : deep \in DeepOver(A, O, R)
  BY DEF SellTypes
<1>2. /\ deep' \in DeepOver(A, O, R \cup {<<>>})
      /\ deep'.on = deep.on /\ deep'.todo = deep.todo /\ deep'.loaded = deep.loaded
      /\ deep'.open = deep.open /\ deep'.order = 0
  BY <1>1 DEF DeepOver
<1> QED
  BY <1>2

\* A symbol without a signal.
LEMMA DeepPassed ==
  ASSUME SellTypes, NEW s, deep' = [deep EXCEPT !.todo = @ \ {s}]
  PROVE  /\ \E A, O, R : deep' \in DeepOver(A, O, R)
         /\ deep'.on = deep.on /\ deep'.todo = deep.todo \ {s} /\ deep'.loaded = deep.loaded
         /\ deep'.open = deep.open /\ deep'.order = deep.order /\ deep'.read = deep.read
<1>1. PICK A, O, R : deep \in DeepOver(A, O, R)
  BY DEF SellTypes
<1>2. /\ deep' \in DeepOver(A, O, R)
      /\ deep'.on = deep.on /\ deep'.todo = deep.todo \ {s} /\ deep'.loaded = deep.loaded
      /\ deep'.open = deep.open /\ deep'.order = deep.order /\ deep'.read = deep.read
  BY <1>1 DEF DeepOver
<1> QED
  BY <1>2

LEMMA NoScans ==
  /\ \E A, R : NoFastScan \in FastOver(A, R)
  /\ \E A, O, R : NoDeepScan \in DeepOver(A, O, R)
<1> DEFINE zeros == [s \in Symbols |-> 0]
           blank == [s \in Symbols |-> None]
<1>1. blank \in Marks
  BY DEF Marks
<1>2. NoFastScan = [on |-> FALSE, todo |-> {}, available |-> zeros, marks |-> blank, recent |-> FALSE,
                    open |-> {}, order |-> 0, read |-> <<>>]
  BY DEF NoFastScan
<1>3. NoDeepScan = [on |-> FALSE, todo |-> {}, available |-> zeros, loaded |-> FALSE, open |-> {},
                    order |-> 0, read |-> <<>>]
  BY DEF NoDeepScan
<1> HIDE DEF zeros, blank
<1>4. NoFastScan \in FastOver({zeros}, {<<>>})
  BY <1>1, <1>2 DEF FastOver
<1>5. NoDeepScan \in DeepOver({zeros}, {{}}, {<<>>})
  BY <1>3 DEF DeepOver
<1> QED
  BY <1>4, <1>5

\* The tracker that a scan leaves, and an aged one.
LEMMA TrackersKept ==
  ASSUME SellTypes
  PROVE  /\ SavedTracker \in Trackers
         /\ [tracker EXCEPT !.recent = FALSE] \in Trackers
         /\ [tracker EXCEPT !.recent = FALSE].marks = tracker.marks
         /\ \A s \in Symbols :
              [marks  |-> [tracker.marks EXCEPT ![s] = IF @ = None THEN None ELSE "old"],
               recent |-> FALSE] \in Trackers
<1>1. PICK A, R : fast \in FastOver(A, R)
  BY DEF SellTypes
<1>2. SavedTracker \in Trackers
  BY <1>1 DEF SavedTracker, FastOver, Trackers
<1>3. tracker \in Trackers
  BY DEF SellTypes
<1>4. /\ [tracker EXCEPT !.recent = FALSE] \in Trackers
      /\ [tracker EXCEPT !.recent = FALSE].marks = tracker.marks
  BY <1>3 DEF Trackers
<1>5. ASSUME NEW s \in Symbols
      PROVE  [tracker.marks EXCEPT ![s] = IF @ = None THEN None ELSE "old"] \in Marks
  BY <1>3 DEF Trackers, Marks
<1> QED
  BY <1>2, <1>4, <1>5 DEF Trackers

LEMMA TypesInit == Init => SellTypes
<1> SUFFICES ASSUME Init PROVE SellTypes
  OBVIOUS
<1>1. sells \in Seq(SellsOver({})) /\ deployed \in Deployments
  BY DEF Init
<1>2. tracker \in Trackers
  <2>1. [s \in Symbols |-> None] \in Marks
    BY DEF Marks
  <2> QED
    BY <2>1 DEF Init, Trackers
<1> QED
  BY <1>1, <1>2, NoScans DEF SellTypes, Init

LEMMA TypesNext == SellTypes /\ [Next]_vars => SellTypes'
<1> SUFFICES ASSUME SellTypes, [Next]_vars PROVE SellTypes'
  OBVIOUS
<1>0. CASE UNCHANGED vars
  BY <1>0 DEF vars, SellTypes
<1>1. CASE FastBegin
  <2>1. UNCHANGED <<deployed, sells, tracker, deep>>
    BY <1>1 DEF FastBegin
  <2>2. \E A, R : fast' \in FastOver(A, R)
    <3>1. tracker.recent \in BOOLEAN
      BY DEF SellTypes, Trackers
    <3>2. [s \in Symbols |-> IF s \in BrokerOpenSells THEN "fresh" ELSE None] \in Marks
      BY DEF Marks
    <3> QED
      BY <1>1, <3>1, <3>2, StartIs, LoadedMarks, MarkedAre, PositionsAre DEF FastBegin
  <2> QED
    BY <2>1, <2>2 DEF SellTypes
<1>2. ASSUME NEW s \in Symbols, NEW r, FastHolds(s) \/ FastQueues(s, r) \/ FastPlaces(s, r) \/ FastUnheard(s, r)
      PROVE  SellTypes'
  <2>1. UNCHANGED <<deployed, tracker, deep>>
    BY <1>2 DEF FastHolds, FastQueues, FastPlaces, FastUnheard
  <2>2. \E A, R : fast' \in FastOver(A, R)
    BY <1>2, FastGoesOn DEF FastHolds, FastQueues, FastPlaces, FastUnheard
  <2>3. \E L : sells' \in Seq(SellsOver(L))
    <3>1. CASE UNCHANGED sells
      BY <3>1 DEF SellTypes
    <3>2. CASE ~UNCHANGED sells
      <4>1. \E status \in {"queued", "open"} : sells' = Sell(s, "fast", SellQuantity(fast.available[s], r), status)
        BY <1>2, <3>2 DEF FastHolds, FastQueues, FastPlaces, FastUnheard
      <4> QED
        BY <4>1, SellIs DEF SellStatuses, Unfinished
    <3> QED
      BY <3>1, <3>2
  <2> QED
    BY <2>1, <2>2, <2>3 DEF SellTypes
<1>3. CASE FastJournals
  BY <1>3, FastWrote DEF FastJournals, SellTypes
<1>4. CASE FastEnd \/ FastAbort
  <2>1. /\ UNCHANGED <<deployed, sells, deep>> /\ fast' = NoFastScan
        /\ tracker' \in {tracker, SavedTracker}
    BY <1>4 DEF FastEnd, FastAbort
  <2> QED
    BY <2>1, NoScans, TrackersKept DEF SellTypes
<1>5. CASE DeepBegin
  BY <1>5, DeepStarts DEF DeepBegin, SellTypes
<1>6. ASSUME NEW s \in Symbols, NEW r, DeepHolds(s) \/ DeepSkips(s) \/ DeepQueues(s, r) \/ DeepPlaces(s, r)
      PROVE  SellTypes'
  <2>1. UNCHANGED <<deployed, tracker, fast>>
    BY <1>6 DEF DeepHolds, DeepSkips, DeepQueues, DeepPlaces
  <2>2. \E A, O, R : deep' \in DeepOver(A, O, R)
    <3>1. Len(sells) + 1 \in Nat /\ 0 \in Nat
      BY DEF SellTypes
    <3> QED
      BY <1>6, <3>1, DeepGoesOn, DeepPassed DEF DeepHolds, DeepSkips, DeepQueues, DeepPlaces
  <2>3. \E L : sells' \in Seq(SellsOver(L))
    <3>1. CASE UNCHANGED sells
      BY <3>1 DEF SellTypes
    <3>2. CASE ~UNCHANGED sells
      <4>1. \E status \in {"queued", "open"} : sells' = Sell(s, "deep", SellQuantity(deep.available[s], r), status)
        BY <1>6, <3>2 DEF DeepHolds, DeepSkips, DeepQueues, DeepPlaces
      <4> QED
        BY <4>1, SellIs DEF SellStatuses, Unfinished
    <3> QED
      BY <3>1, <3>2
  <2> QED
    BY <2>1, <2>2, <2>3 DEF SellTypes
<1>7. CASE DeepJournals
  BY <1>7, DeepWrote DEF DeepJournals, SellTypes
<1>8. CASE DeepEnd
  BY <1>8, NoScans DEF DeepEnd, SellTypes
<1>9. CASE Reconcile
  BY <1>9 DEF Reconcile, ReconcileBegin, ReconcileEnd, SellTypes
<1>10. ASSUME NEW k \in 1..MaxSells, WorkerSubmits(k) \/ Fill(k) \/ Cancel(k) PROVE SellTypes'
  <2>1. /\ UNCHANGED <<deployed, tracker, fast, deep>> /\ k \in 1..Len(sells)
        /\ \E status \in {"open", "rejected", "filled", "cancelled"} :
             sells' = [sells EXCEPT ![k].status = status]
    BY <1>10 DEF WorkerSubmits, Fill, Cancel
  <2>2. \E L : sells' \in Seq(SellsOver(L))
    BY <2>1, StatusIs DEF SellStatuses, Unfinished
  <2> QED
    BY <2>1, <2>2 DEF SellTypes
<1>11. CASE RefreshDue
  BY <1>11, TrackersKept DEF RefreshDue, SellTypes
<1>12. ASSUME NEW s \in Symbols, Ages(s) PROVE SellTypes'
  BY <1>12, AgedSells, TrackersKept DEF Ages, SellTypes
<1> QED
  BY <1>0, <1>1, <1>2, <1>3, <1>4, <1>5, <1>6, <1>7, <1>8, <1>9, <1>10, <1>11, <1>12
     DEF Next, FastStep, DeepStep, Disturbance, Outside

-----------------------------------------------------------------------------
(* The fast watch. *)

LEMMA LenIs == SellTypes => Len(sells) \in Nat /\ \A k \in 1..Len(sells) : sells[k].symbol \in Symbols
<1> SUFFICES ASSUME SellTypes PROVE Len(sells) \in Nat /\ \A k \in 1..Len(sells) : sells[k].symbol \in Symbols
  OBVIOUS
<1>1. PICK L : sells \in Seq(SellsOver(L))
  BY DEF SellTypes
<1>2. Len(sells) \in Nat /\ \A k \in 1..Len(sells) : sells[k] \in SellsOver(L)
  BY <1>1
<1> QED
  BY <1>2 DEF SellsOver

\* What the watch knows stays true of fewer sells.
LEMMA FastKept ==
  ASSUME FastKnows, FastOnce, UNCHANGED <<deployed, tracker, fast>>,
         \A k \in Binding' : k \in Binding /\ sells'[k].symbol = sells[k].symbol
  PROVE  FastKnows' /\ FastOnce'
BY DEF FastKnows, FastOnce

\* A scan that starts knows what the tracker knew, or what the broker knows.
LEMMA FastBeginSafe == ASSUME SellTypes, Undisturbed, FastSafe, FastBegin PROVE FastSafe'
<1>1. UNCHANGED <<deployed, sells, tracker>> /\ ~fast.on
  BY DEF FastBegin
<1>2. Binding' = Binding
  BY <1>1 DEF Binding, Binds
<1>3. NoneQueued' /\ FastOnce'
  BY <1>1, <1>2 DEF FastSafe, NoneQueued, FastOnce
<1>4. FastKnows'
  <2>1. CASE ~Refreshes /\ StartScan(Loaded, tracker.recent, Marked(Loaded))
    <3>1. fast'.on /\ fast'.marks = Loaded /\ fast'.open = Marked(Loaded)
      <4>1. tracker.recent \in BOOLEAN
        BY DEF SellTypes, Trackers
      <4> QED
        BY <2>1, <4>1, StartIs, LoadedMarks, MarkedAre
    <3>2. \A k \in Binding : tracker.marks[sells[k].symbol] = "fresh" /\ sells[k].symbol \in Symbols
      BY <1>1, <2>1, LenIs DEF Refreshes, FastSafe, FastKnows, Binding
    <3>3. \A k \in Binding : Loaded[sells[k].symbol] = "fresh" /\ sells[k].symbol \in Marked(Loaded)
      BY <3>2, SellWatchAssumption DEF Loaded, Marked
    <3> QED
      BY <1>1, <1>2, <3>1, <3>3 DEF FastKnows
  <2>2. CASE /\ Refreshes
             /\ StartScan([s \in Symbols |-> IF s \in BrokerOpenSells THEN "fresh" ELSE None],
                          TRUE, BrokerOpenSells)
    <3> DEFINE m == [s \in Symbols |-> IF s \in BrokerOpenSells THEN "fresh" ELSE None]
    <3>1. m \in Marks /\ StartScan(m, TRUE, BrokerOpenSells)
      BY <2>2 DEF Marks
    <3> HIDE DEF m
    <3>2. /\ fast'.on /\ fast'.marks = m
          /\ fast'.open = IF BrokerOpenSells # {} THEN BrokerOpenSells ELSE Marked(Loaded)
      BY <3>1, StartIs, PositionsAre
    <3>3. \A k \in Binding : sells[k].symbol \in BrokerOpenSells
      BY <2>2, LenIs DEF Refreshes, Binding, Binds, BrokerOpenSells, PendingStatuses
    <3>4. \A k \in Binding : m[sells[k].symbol] = "fresh" /\ sells[k].symbol \in fast'.open
      BY <3>2, <3>3, PositionsAre DEF m
    <3> QED
      BY <1>1, <1>2, <3>2, <3>4 DEF FastKnows
  <2> QED
    BY <2>1, <2>2, UndisturbedFaults DEF FastBegin
<1> QED
  BY <1>3, <1>4 DEF FastSafe

\* A symbol the scan holds or passes.
LEMMA FastHoldsSafe ==
  ASSUME SellTypes, Undisturbed, FastSafe, NEW s \in Symbols, FastHolds(s) PROVE FastSafe'
<1>1. /\ UNCHANGED <<deployed, sells, tracker>>
      /\ fast' = [fast EXCEPT !.todo = FastLeaves(s)]
  BY DEF FastHolds
<1>2. PICK A, R : fast \in FastOver(A, R)
  BY DEF SellTypes
<1>3. /\ fast'.on = fast.on /\ fast'.open = fast.open /\ fast'.todo = fast.todo \ {s}
      /\ fast'.marks = fast.marks
  BY <1>1, <1>2 DEF FastOver, FastLeaves
<1>4. Binding' = Binding
  BY <1>1 DEF Binding, Binds
<1> QED
  BY <1>1, <1>3, <1>4 DEF FastSafe, NoneQueued, FastOnce, FastKnows

\* A sell: the symbol had none that binds, is marked, and is not looked at again.
LEMMA FastSellsSafe ==
  ASSUME SellTypes, Undisturbed, FastSafe, NEW s \in Symbols, NEW r,
         FastQueues(s, r) \/ FastPlaces(s, r)
  PROVE  FastSafe'
<1>1. /\ UNCHANGED <<deployed, tracker>> /\ fast.on /\ s \in fast.todo /\ s \notin fast.open
      /\ \/ fast' = [fast EXCEPT !.todo = FastLeaves(s), !.marks = Marking(s)]
         \/ fast' = [fast EXCEPT !.todo = FastLeaves(s), !.marks = Marking(s),
                                 !.order = Len(sells) + 1, !.read = journal]
  BY DEF FastQueues, FastPlaces, FastAt, FastSellable
<1>2. PICK status \in {"queued", "open"} :
        /\ sells' = Sell(s, "fast", SellQuantity(fast.available[s], r), status)
        /\ deployed.plane = "local" => status = "open"
  BY DEF FastQueues, FastPlaces
<1>3. /\ Len(sells) \in Nat /\ Len(sells') = Len(sells) + 1
      /\ sells'[Len(sells) + 1].symbol = s /\ sells'[Len(sells) + 1].status = status
      /\ \A k \in 1..Len(sells) : sells'[k] = sells[k]
  <2> DEFINE lots == SellQuantity(fast.available[s], r)
  <2>1. sells' = Sell(s, "fast", lots, status) /\ status \in SellStatuses /\ "fast" \in {"fast", "deep"}
    BY <1>2 DEF SellStatuses, Unfinished
  <2> HIDE DEF lots
  <2> QED
    BY <2>1, SellIs
<1>4. \A k \in Binding' : k = Len(sells) + 1 \/ (k \in Binding /\ sells'[k].symbol = sells[k].symbol)
  BY <1>1, <1>3 DEF Binding, Binds
<1>5. /\ fast'.on = fast.on /\ fast'.open = fast.open /\ fast'.todo = fast.todo \ {s}
      /\ fast'.marks = [fast.marks EXCEPT ![s] = "fresh"]
  <2>1. /\ fast'.on = fast.on /\ fast'.open = fast.open /\ fast'.todo = fast.todo \ {s}
    BY <1>1, FastGoesOn
  <2>2. PICK A, R : fast \in FastOver(A, R)
    BY DEF SellTypes
  <2>3. fast'.marks = Marking(s)
    BY <1>1, <2>2 DEF FastOver
  <2> QED
    BY <2>1, <2>3 DEF Marking
<1>6. fast.marks \in Marks
  BY DEF SellTypes, FastOver
<1>7. \A k \in Binding : /\ fast.marks[sells[k].symbol] = "fresh" /\ sells[k].symbol \in Symbols
                         /\ sells[k].symbol \notin fast.todo \/ sells[k].symbol \in fast.open
  BY <1>1, LenIs DEF FastSafe, FastKnows, Binding
<1>8. \A k \in Binding : sells[k].symbol # s
  BY <1>1, <1>7
<1>9. FastKnows'
  BY <1>1, <1>3, <1>4, <1>5, <1>6, <1>7 DEF FastKnows, Marks
<1>10. FastOnce'
  BY <1>3, <1>4, <1>8 DEF FastSafe, FastOnce
<1>11. NoneQueued'
  <2>1. \A k \in 1..Len(sells') : k \in 1..Len(sells) \/ k = Len(sells) + 1
    BY <1>3
  <2> QED
    BY <1>1, <1>2, <1>3, <2>1 DEF FastSafe, NoneQueued
<1> QED
  BY <1>9, <1>10, <1>11 DEF FastSafe

\* The scan's end: what it knew is in the tracker.
LEMMA FastEndSafe == ASSUME SellTypes, Undisturbed, FastSafe, FastEnd PROVE FastSafe'
<1>1. /\ UNCHANGED <<deployed, sells>> /\ fast.on /\ tracker' = SavedTracker /\ fast' = NoFastScan
  BY DEF FastEnd
<1>2. Binding' = Binding
  BY <1>1 DEF Binding, Binds
<1>3. ~fast'.on /\ tracker'.marks = fast.marks
  BY <1>1 DEF NoFastScan, SavedTracker
<1> QED
  BY <1>1, <1>2, <1>3 DEF FastSafe, NoneQueued, FastOnce, FastKnows

\* The deep watch and the reconciliation: its sells do not bind the fast watch.
LEMMA DeepStepFastSafe ==
  ASSUME SellTypes, Undisturbed, FastSafe, DeepStep \/ Reconcile PROVE FastSafe'
<1>1. UNCHANGED <<deployed, tracker, fast>>
  BY DEF DeepStep, Reconcile, DeepBegin, DeepJournals, DeepEnd, DeepHolds, DeepSkips, DeepQueues,
         DeepPlaces, ReconcileBegin, ReconcileEnd
<1>2. \/ UNCHANGED sells
      \/ \E lots : \E s \in Symbols, status \in {"queued", "open"} :
           /\ sells' = Sell(s, "deep", lots, status)
           /\ deployed.plane = "local" => status = "open"
  <2>1. ASSUME NEW s \in Symbols, NEW r, DeepQueues(s, r) \/ DeepPlaces(s, r)
        PROVE  \E status \in {"queued", "open"} :
                 /\ sells' = Sell(s, "deep", SellQuantity(deep.available[s], r), status)
                 /\ deployed.plane = "local" => status = "open"
    BY <2>1 DEF DeepQueues, DeepPlaces
  <2>2. CASE \E s \in Symbols, r \in deployed.ratios : DeepQueues(s, r) \/ DeepPlaces(s, r)
    <3>1. PICK s \in Symbols, r \in deployed.ratios : DeepQueues(s, r) \/ DeepPlaces(s, r)
      BY <2>2
    <3> DEFINE lots == SellQuantity(deep.available[s], r)
    <3>2. PICK status \in {"queued", "open"} :
            sells' = Sell(s, "deep", lots, status) /\ (deployed.plane = "local" => status = "open")
      BY <2>1, <3>1
    <3> HIDE DEF lots
    <3> QED
      BY <3>2
  <2>3. CASE ~\E s \in Symbols, r \in deployed.ratios : DeepQueues(s, r) \/ DeepPlaces(s, r)
    BY <2>3 DEF DeepStep, Reconcile, DeepBegin, DeepJournals, DeepEnd, DeepHolds, DeepSkips,
                ReconcileBegin, ReconcileEnd
  <2> QED
    BY <2>2, <2>3
<1>3. CASE UNCHANGED sells
  BY <1>1, <1>3 DEF FastSafe, NoneQueued, FastKnows, FastOnce, Binding, Binds
<1>4. ASSUME NEW s \in Symbols, NEW lots, NEW status \in {"queued", "open"},
             sells' = Sell(s, "deep", lots, status), deployed.plane = "local" => status = "open"
      PROVE  FastSafe'
  <2>1. /\ Len(sells) \in Nat /\ Len(sells') = Len(sells) + 1
        /\ sells'[Len(sells) + 1].by = "deep" /\ sells'[Len(sells) + 1].status = status
        /\ \A k \in 1..Len(sells) : sells'[k] = sells[k]
    <3>1. status \in SellStatuses /\ "deep" \in {"fast", "deep"}
      BY DEF SellStatuses, Unfinished
    <3> QED
      BY <1>4, <3>1, SellIs
  <2>2. \A k \in 1..Len(sells') : k \in 1..Len(sells) \/ k = Len(sells) + 1
    BY <2>1
  <2>3. \A k \in Binding' : k \in Binding /\ sells'[k].symbol = sells[k].symbol
    BY <1>1, <2>1, <2>2 DEF Binding, Binds
  <2>4. NoneQueued'
    BY <1>1, <1>4, <2>1, <2>2 DEF FastSafe, NoneQueued
  <2> QED
    BY <1>1, <2>3, <2>4, FastKept DEF FastSafe
<1> QED
  BY <1>2, <1>3, <1>4

\* Broker and worker: a sell that ends binds no more; at the broker none begins.
LEMMA MarketFastSafe ==
  ASSUME SellTypes, Undisturbed, FastSafe, NEW k, WorkerSubmits(k) \/ Fill(k) \/ Cancel(k)
  PROVE  FastSafe'
<1>1. UNCHANGED <<deployed, tracker, fast>> /\ k \in 1..Len(sells)
  BY DEF WorkerSubmits, Fill, Cancel
<1>2. PICK status \in {"open", "rejected", "filled", "cancelled"} :
        /\ sells' = [sells EXCEPT ![k].status = status]
        /\ sells[k].status \in {"queued", "open"}
        /\ status \in {"open", "rejected"} => sells[k].status = "queued"
  BY DEF WorkerSubmits, Fill, Cancel, OpenAt
<1>3. /\ Len(sells') = Len(sells)
      /\ sells'[k].status = status
      /\ sells'[k].symbol = sells[k].symbol /\ sells'[k].by = sells[k].by
      /\ sells'[k].young = sells[k].young
      /\ \A j \in 1..Len(sells) : j # k => sells'[j] = sells[j]
  BY <1>1, <1>2, StatusIs DEF SellStatuses, Unfinished
<1>4. deployed.plane = "local" => status \notin {"open", "queued"}
  BY <1>1, <1>2 DEF FastSafe, NoneQueued
<1>5. \A j \in Binding' : j \in Binding /\ sells'[j].symbol = sells[j].symbol
  BY <1>1, <1>3, <1>4 DEF Binding, Binds
<1>6. NoneQueued'
  BY <1>1, <1>3, <1>4 DEF FastSafe, NoneQueued
<1> QED
  BY <1>1, <1>5, <1>6, FastKept DEF FastSafe

\* Time: a tracker that is due is not believed; sells age with their marks.
LEMMA TimeFastSafe ==
  ASSUME SellTypes, Undisturbed, FastSafe, RefreshDue \/ \E s \in Symbols : Ages(s) PROVE FastSafe'
<1>1. CASE RefreshDue
  <2>1. /\ UNCHANGED <<deployed, sells, fast>> /\ tracker.recent
        /\ tracker'.marks = tracker.marks
    BY <1>1, TrackersKept DEF RefreshDue
  <2>2. Binding' = Binding
    BY <2>1 DEF Binding, Binds
  <2> QED
    BY <2>1, <2>2 DEF FastSafe, NoneQueued, FastOnce, FastKnows
<1>2. ASSUME NEW s \in Symbols, Ages(s) PROVE FastSafe'
  <2>1. /\ UNCHANGED <<deployed, fast>> /\ ~fast.on
        /\ tracker'.marks = [tracker.marks EXCEPT ![s] = IF @ = None THEN None ELSE "old"]
        /\ tracker'.recent = FALSE
    BY <1>2 DEF Ages
  <2>2. /\ Len(sells') = Len(sells)
        /\ \A k \in 1..Len(sells) :
              /\ sells'[k].symbol = sells[k].symbol /\ sells'[k].by = sells[k].by
              /\ sells'[k].status = sells[k].status
              /\ sells'[k].young = IF sells[k].symbol = s THEN FALSE ELSE sells[k].young
    BY <1>2, AgedSells DEF Ages
  <2>3. \A k \in Binding' : /\ k \in Binding /\ sells'[k].symbol = sells[k].symbol
                            /\ deployed.plane # "local" => sells[k].symbol # s
    BY <2>1, <2>2 DEF Binding, Binds
  <2>4. NoneQueued' /\ FastOnce'
    <3>1. NoneQueued'
      BY <2>1, <2>2 DEF FastSafe, NoneQueued
    <3>2. FastOnce'
      BY <2>3 DEF FastSafe, FastOnce
    <3> QED
      BY <3>1, <3>2
  <2>5. FastKnows'
    <3>1. tracker.marks \in Marks
      BY DEF SellTypes, Trackers
    <3>2. \A k \in Binding : sells[k].symbol \in Symbols
      BY LenIs DEF Binding
    <3> QED
      BY <2>1, <2>3, <3>1, <3>2 DEF FastSafe, FastKnows, Marks
  <2> QED
    BY <2>4, <2>5 DEF FastSafe
<1> QED
  BY <1>1, <1>2

LEMMA FastNext == SellTypes /\ Undisturbed /\ FastSafe /\ [Next]_vars => FastSafe'
<1> SUFFICES ASSUME SellTypes, Undisturbed, FastSafe, [Next]_vars PROVE FastSafe'
  OBVIOUS
<1>1. CASE UNCHANGED vars
  BY <1>1 DEF vars, FastSafe, NoneQueued, FastKnows, FastOnce, Binding, Binds
<1>2. CASE FastJournals
  <2>1. UNCHANGED <<deployed, sells, tracker>>
    BY <1>2 DEF FastJournals
  <2>2. fast'.on = fast.on /\ fast'.todo = fast.todo /\ fast'.marks = fast.marks /\ fast'.open = fast.open
    BY <1>2, FastWrote DEF FastJournals
  <2> QED
    BY <2>1, <2>2 DEF FastSafe, NoneQueued, FastKnows, FastOnce, Binding, Binds
<1>3. CASE FastStep
  BY <1>2, <1>3, FastBeginSafe, FastHoldsSafe, FastSellsSafe, FastEndSafe DEF FastStep
<1>4. CASE DeepStep \/ Reconcile
  BY <1>4, DeepStepFastSafe
<1>5. CASE Disturbance
  BY <1>5, UndisturbedFaults DEF Disturbance, FastAbort, FastUnheard
<1>6. CASE Outside
  BY <1>6, MarketFastSafe, TimeFastSafe DEF Outside
<1> QED
  BY <1>1, <1>3, <1>4, <1>5, <1>6 DEF Next

-----------------------------------------------------------------------------
(* The deep watch, alone. *)

\* While the scan is not at an order, the journal has every open sell, and the
\* scan knows the symbols it may not sell.
LEMMA DeepSees ==
  ASSUME SellTypes, DeepSafe, deep.order = 0, NEW k \in OpenSells
  PROVE  /\ k \in DOMAIN journal /\ k \in 1..Len(sells)
         /\ deep.on => sells[k].symbol \notin deep.todo \/ sells[k].symbol \in DeepOpen
<1>1. k \in 1..Len(sells) /\ k # 0
  BY LenIs DEF OpenSells
<1>2. k \in DOMAIN journal /\ journal[k] = "open"
  BY <1>1 DEF DeepSafe, JournalIsDeeps
<1>3. sells[k].symbol \in JournalOpenSells
  BY <1>2 DEF JournalOpenSells, PendingStatuses
<1> QED
  BY <1>1, <1>2, <1>3 DEF DeepOpen, DeepSafe, DeepKnows

LEMMA DeepBeginSafe == ASSUME SellTypes, DeepSafe, DeepBegin PROVE DeepSafe'
<1>1. UNCHANGED <<sells, journal, fast, recon>> /\ ~deep.on
  BY DEF DeepBegin
<1>2. deep'.loaded = FALSE /\ deep'.order = 0
  BY DeepStarts
<1>3. OpenSells' = OpenSells
  BY <1>1 DEF OpenSells, OpenAt
<1> QED
  BY <1>1, <1>2, <1>3 DEF DeepSafe, JournalIsDeeps, DeepKnows, DeepOnce

LEMMA DeepPassesSafe ==
  ASSUME SellTypes, DeepSafe, NEW s, DeepHolds(s) \/ DeepSkips(s) PROVE DeepSafe'
<1>1. UNCHANGED <<sells, journal, fast, recon>> /\ deep.on /\ deep.order = 0
  BY DEF DeepHolds, DeepSkips, DeepAt
<1>2. OpenSells' = OpenSells
  BY <1>1 DEF OpenSells, OpenAt
<1>3. CASE DeepHolds(s)
  <2>1. /\ deep'.on = deep.on /\ deep'.todo = deep.todo \ {s} /\ deep'.loaded = deep.loaded
        /\ deep'.open = deep.open /\ deep'.order = 0
    BY <1>1, <1>3, DeepPassed DEF DeepHolds
  <2> QED
    BY <1>1, <1>2, <2>1 DEF DeepSafe, JournalIsDeeps, DeepKnows, DeepOnce
<1>4. CASE DeepSkips(s)
  <2>1. /\ deep'.on = deep.on /\ deep'.todo = deep.todo \ {s} /\ deep'.loaded
        /\ deep'.open = DeepOpen /\ deep'.order = 0
    BY <1>4, DeepGoesOn DEF DeepSkips
  <2>2. \A k \in OpenSells : /\ k \in DOMAIN journal
                             /\ sells[k].symbol \notin deep.todo \/ sells[k].symbol \in DeepOpen
    BY <1>1, DeepSees
  <2> QED
    BY <1>1, <1>2, <2>1, <2>2 DEF DeepSafe, JournalIsDeeps, DeepKnows, DeepOnce
<1> QED
  BY <1>3, <1>4

LEMMA DeepSellsSafe ==
  ASSUME SellTypes, DeepSafe, NEW s \in Symbols, NEW r, DeepPlaces(s, r) PROVE DeepSafe'
<1>1. /\ UNCHANGED <<journal, fast, recon>> /\ deep.on /\ deep.order = 0
      /\ s \in deep.todo /\ s \notin DeepOpen
  BY DEF DeepPlaces, DeepAt, DeepSellable
<1>2. /\ Len(sells) \in Nat /\ Len(sells') = Len(sells) + 1 /\ sells'[Len(sells) + 1].symbol = s
      /\ \A k \in 1..Len(sells) : sells'[k] = sells[k]
  <2> DEFINE lots == SellQuantity(deep.available[s], r)
  <2>1. sells' = Sell(s, "deep", lots, "open")
    BY DEF DeepPlaces
  <2>2. "open" \in SellStatuses
    BY DEF SellStatuses, Unfinished
  <2> HIDE DEF lots
  <2> QED
    BY <2>1, <2>2, SellIs
<1> DEFINE n == Len(sells) + 1
<1>3. /\ deep'.on /\ deep'.todo = deep.todo \ {s} /\ deep'.loaded
      /\ deep'.open = DeepOpen /\ deep'.order = n /\ deep'.read = journal
  <2>1. DeepMoves(s, n, journal) /\ n \in Nat
    BY <1>2 DEF DeepPlaces
  <2> HIDE DEF n
  <2> QED
    BY <1>1, <2>1, DeepGoesOn
<1>4. \A k \in OpenSells' : k = n \/ (k \in OpenSells /\ sells'[k].symbol = sells[k].symbol)
  BY <1>2 DEF OpenSells, OpenAt
<1>5. \A k \in OpenSells : /\ k \in DOMAIN journal /\ k \in 1..Len(sells)
                           /\ sells[k].symbol \notin deep.todo \/ sells[k].symbol \in DeepOpen
                           /\ sells[k].symbol # s
  BY <1>1, DeepSees
<1>6. DeepOnce'
  BY <1>2, <1>4, <1>5 DEF DeepSafe, DeepOnce
<1>7. DeepKnows'
  BY <1>2, <1>3, <1>4, <1>5 DEF DeepKnows
<1>8. JournalIsDeeps'
  <2>1. n \in 1..Len(sells') /\ \A k \in 1..Len(sells) : k \in 1..Len(sells')
    BY <1>2
  <2> HIDE DEF n
  <2> QED
    BY <1>1, <1>3, <1>4, <1>5, <2>1 DEF DeepSafe, JournalIsDeeps
<1> QED
  BY <1>6, <1>7, <1>8 DEF DeepSafe

LEMMA DeepJournalsSafe == ASSUME SellTypes, DeepSafe, DeepJournals \/ DeepEnd PROVE DeepSafe'
<1>1. UNCHANGED <<sells, fast, recon>> /\ deep.on
  BY DEF DeepJournals, DeepEnd
<1>2. OpenSells' = OpenSells /\ DeepOnce'
  BY <1>1 DEF OpenSells, OpenAt, DeepSafe, DeepOnce
<1>3. CASE DeepJournals
  <2>1. /\ deep.order # 0 /\ deep.read = journal /\ deep.order \in 1..Len(sells) /\ deep.loaded
        /\ journal' = [j \in DOMAIN journal \cup {deep.order} |-> IF j = deep.order THEN "open" ELSE journal[j]]
    BY <1>1, <1>3 DEF DeepJournals, Listing, DeepSafe, JournalIsDeeps
  <2>2. /\ deep'.on = deep.on /\ deep'.todo = deep.todo /\ deep'.loaded = deep.loaded
        /\ deep'.open = deep.open /\ deep'.order = 0
    BY <1>3, DeepWrote DEF DeepJournals
  <2>3. /\ DOMAIN journal' = DOMAIN journal \cup {deep.order}
        /\ \A k \in DOMAIN journal' : journal'[k] = IF k = deep.order THEN "open" ELSE journal[k]
    BY <2>1
  <2>4. JournalIsDeeps'
    BY <1>1, <1>2, <2>1, <2>2, <2>3 DEF DeepSafe, JournalIsDeeps
  <2>5. DeepKnows'
    BY <1>1, <1>2, <2>2 DEF DeepSafe, DeepKnows
  <2> QED
    BY <1>2, <2>4, <2>5 DEF DeepSafe
<1>4. CASE DeepEnd
  <2>1. journal' = journal /\ deep.order = 0 /\ deep' = NoDeepScan
    BY <1>4 DEF DeepEnd
  <2>2. ~deep'.on
    BY <2>1 DEF NoDeepScan
  <2>3. \A k \in OpenSells : k \in DOMAIN journal
    BY <2>1, DeepSees
  <2> QED
    BY <1>1, <1>2, <2>1, <2>2, <2>3 DEF DeepSafe, JournalIsDeeps, DeepKnows
<1> QED
  BY <1>3, <1>4

\* Fewer open sells.
LEMMA DeepKept ==
  ASSUME SellTypes, DeepSafe, UNCHANGED <<journal, fast, deep, recon>>, Len(sells') = Len(sells),
         \A k \in OpenSells' : k \in OpenSells /\ sells'[k].symbol = sells[k].symbol
  PROVE  DeepSafe'
BY DEF DeepSafe, JournalIsDeeps, DeepKnows, DeepOnce

LEMMA DeepNext ==
  SellTypes /\ FastSafe /\ DeepAlone /\ DeepSafe /\ [Next]_vars => DeepSafe'
<1> SUFFICES ASSUME SellTypes, FastSafe, DeepAlone, DeepSafe, [Next]_vars PROVE DeepSafe'
  OBVIOUS
<1>0. ~fast.on /\ recon = None
  BY DEF DeepSafe, JournalIsDeeps
<1>1. CASE UNCHANGED vars
  BY <1>1 DEF vars, DeepSafe, JournalIsDeeps, DeepKnows, DeepOnce, OpenSells, OpenAt
<1>2. CASE FastStep \/ Disturbance \/ Reconcile
  <2>1. "fast" \notin deployed.jobs /\ "reconcile" \notin deployed.jobs
    BY DEF DeepAlone
  <2> QED
    BY <1>0, <1>2, <2>1
       DEF FastStep, Disturbance, Reconcile, FastBegin, FastJournals, FastEnd, FastHolds, FastQueues,
           FastPlaces, FastUnheard, FastAbort, FastAt, ReconcileBegin, ReconcileEnd
<1>3. CASE DeepStep
  <2>1. ASSUME NEW s, NEW r PROVE ~DeepQueues(s, r)
    BY DEF DeepAlone, DeepQueues
  <2> QED
    BY <1>3, <2>1, DeepBeginSafe, DeepPassesSafe, DeepSellsSafe, DeepJournalsSafe DEF DeepStep
<1>4. ASSUME NEW k, WorkerSubmits(k) \/ Fill(k) \/ Cancel(k) PROVE DeepSafe'
  <2>1. /\ UNCHANGED <<journal, fast, deep, recon>> /\ k \in 1..Len(sells)
        /\ sells[k].status # "queued"
    BY <1>4 DEF WorkerSubmits, Fill, Cancel, FastSafe, NoneQueued, DeepAlone
  <2>2. PICK status \in {"filled", "cancelled"} : sells' = [sells EXCEPT ![k].status = status]
    BY <1>4, <2>1 DEF WorkerSubmits, Fill, Cancel
  <2>3. /\ Len(sells') = Len(sells) /\ sells'[k].status = status /\ sells'[k].symbol = sells[k].symbol
        /\ \A j \in 1..Len(sells) : j # k => sells'[j] = sells[j]
    BY <2>1, <2>2, StatusIs DEF SellStatuses, Unfinished
  <2>4. \A j \in OpenSells' : j \in OpenSells /\ sells'[j].symbol = sells[j].symbol
    BY <2>3 DEF OpenSells, OpenAt
  <2> QED
    BY <2>1, <2>3, <2>4, DeepKept
<1>5. CASE RefreshDue
  BY <1>5 DEF RefreshDue, DeepSafe, JournalIsDeeps, DeepKnows, DeepOnce, OpenSells, OpenAt
<1>6. ASSUME NEW s \in Symbols, Ages(s) PROVE DeepSafe'
  <2>1. UNCHANGED <<journal, fast, deep, recon>>
    BY <1>6 DEF Ages
  <2>2. /\ Len(sells') = Len(sells)
        /\ \A k \in 1..Len(sells) : sells'[k].symbol = sells[k].symbol /\ sells'[k].status = sells[k].status
    BY <1>6, AgedSells DEF Ages
  <2>3. \A k \in OpenSells' : k \in OpenSells /\ sells'[k].symbol = sells[k].symbol
    BY <2>2 DEF OpenSells, OpenAt
  <2> QED
    BY <2>1, <2>2, <2>3, DeepKept
<1> QED
  BY <1>1, <1>2, <1>3, <1>4, <1>5, <1>6 DEF Next, Outside

-----------------------------------------------------------------------------
(* The theorems. *)

LEMMA DeployedStays == [Next]_vars => UNCHANGED deployed
BY DEF vars, Next, FastStep, DeepStep, Reconcile, Disturbance, Outside, FastBegin, FastJournals, FastEnd,
       FastHolds, FastQueues, FastPlaces, DeepBegin, DeepJournals, DeepEnd, DeepHolds, DeepSkips,
       DeepQueues, DeepPlaces, ReconcileBegin, ReconcileEnd, FastAbort, FastUnheard, WorkerSubmits,
       Fill, Cancel, RefreshDue, Ages

LEMMA SellInvAlways == Spec => []SellInv
<1>1. Init => SellInv
  <2> SUFFICES ASSUME Init PROVE SellInv
    OBVIOUS
  <2>1. Binding = {} /\ OpenSells = {} /\ Len(sells) = 0 /\ ~fast.on /\ ~deep.on /\ DOMAIN journal = {}
    BY DEF Init, Binding, OpenSells, NoFastScan, NoDeepScan
  <2>2. FastSafe
    BY <2>1 DEF FastSafe, NoneQueued, FastKnows, FastOnce
  <2>3. DeepSafe
    BY <2>1 DEF DeepSafe, JournalIsDeeps, DeepKnows, DeepOnce, Init
  <2> QED
    BY <2>2, <2>3, TypesInit DEF SellInv
<1>2. SellInv /\ [Next]_vars => SellInv'
  BY TypesNext, FastNext, DeepNext, DeployedStays DEF SellInv, Undisturbed, DeepAlone
<1> QED
  BY <1>1, <1>2, PTL DEF Spec

LEMMA AtMostOne ==
  ASSUME NEW S, \A j, k \in S : j = k
  PROVE  Cardinality(S) <= 1
<1>1. CASE S = {}
  BY <1>1, FS_EmptySet
<1>2. CASE S # {}
  <2>1. PICK k \in S : TRUE
    BY <1>2
  <2>2. S = {k}
    BY <2>1
  <2>3. Cardinality({k}) = 1
    BY FS_Singleton
  <2> QED
    BY <2>2, <2>3
<1> QED
  BY <1>1, <1>2

\* Straight at the broker the fast watch never has two sells of a symbol open
\* (_refresh_fast_pending_sell_tracker_from_orders and the marks of a scan),
\* whatever the deep watch sells beside it and however the broker, the time and
\* cancelled orders interleave.
THEOREM FastSellsOnce == Spec => []OneOpenFastSell
<1>1. SellInv => OneOpenFastSell
  <2> SUFFICES ASSUME SellInv, deployed.plane = "local", Undisturbed, NEW s \in Symbols
               PROVE  Cardinality({k \in SellsOf(s, "fast") : OpenAt(k)}) <= 1
    BY DEF OneOpenFastSell
  <2> DEFINE S == {k \in SellsOf(s, "fast") : OpenAt(k)}
  <2>1. \A k \in S : k \in Binding /\ sells[k].symbol = s
    BY DEF SellsOf, OpenAt, Binding, Binds
  <2>2. \A j, k \in S : j = k
    BY <2>1 DEF SellInv, FastSafe, FastOnce
  <2> HIDE DEF S
  <2>3. Cardinality(S) <= 1
    BY <2>2, AtMostOne
  <2> QED
    BY <2>3 DEF S
<1> QED
  BY <1>1, SellInvAlways, PTL

\* For the gateway, two sells of a symbol by the fast watch are 600 seconds
\* apart (_load_fast_pending_sell_tracker).
THEOREM FastSellsApart == Spec => []FastSellsSpaced
<1>1. SellInv => FastSellsSpaced
  <2> SUFFICES ASSUME SellInv, deployed.plane = "gateway", Undisturbed, NEW s \in Symbols
               PROVE  Cardinality({k \in SellsOf(s, "fast") : sells[k].young}) <= 1
    BY DEF FastSellsSpaced
  <2> DEFINE S == {k \in SellsOf(s, "fast") : sells[k].young}
  <2>1. \A k \in S : k \in Binding /\ sells[k].symbol = s
    BY DEF SellsOf, Binding, Binds
  <2>2. \A j, k \in S : j = k
    BY <2>1 DEF SellInv, FastSafe, FastOnce
  <2> HIDE DEF S
  <2>3. Cardinality(S) <= 1
    BY <2>2, AtMostOne
  <2> QED
    BY <2>3 DEF S
<1> QED
  BY <1>1, SellInvAlways, PTL

\* Straight at the broker the deep watch alone never has two sells of a symbol
\* open: the journal it writes is the journal it reads.
THEOREM DeepSellsOnce == Spec => []OneOpenDeepSell
<1>1. SellInv => OneOpenDeepSell
  <2> SUFFICES ASSUME SellInv, DeepAlone, NEW s \in Symbols
               PROVE  Cardinality({k \in SellsOf(s, "deep") : OpenAt(k)}) <= 1
    BY DEF OneOpenDeepSell, DeepAlone
  <2> DEFINE S == {k \in SellsOf(s, "deep") : OpenAt(k)}
  <2>1. \A k \in S : k \in OpenSells /\ sells[k].symbol = s
    BY DEF SellsOf, OpenSells
  <2>2. \A j, k \in S : j = k
    BY <2>1 DEF SellInv, DeepSafe, DeepOnce
  <2> HIDE DEF S
  <2>3. Cardinality(S) <= 1
    BY <2>2, AtMostOne
  <2> QED
    BY <2>3 DEF S
<1> QED
  BY <1>1, SellInvAlways, PTL

=============================================================================
