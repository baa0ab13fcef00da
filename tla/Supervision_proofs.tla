------------------------- MODULE Supervision_proofs -------------------------
(***************************************************************************)
(* However the two supervisors and the acknowledgements write the control  *)
(* state over each other, a message is sharpened only about a matter that  *)
(* was warned of before.                                                   *)
(*                                                                         *)
(* The last message in the record may be an old one that an acknowledgement *)
(* has brought back.  So the inductive invariant speaks of every copy of   *)
(* the record: what it says of its last message was told.                  *)
(***************************************************************************)
EXTENDS Supervision, TLAPS

\* A copy of the record says of its last message what was told.
Vouched(c, t) ==
  c.last # Nobody /\ c.last.level # "info" => c.last.sig \in t

\* So does the copy in hand; and a message that is sent was told, as was one that
\* is sharpened.
RunVouched(r, t) ==
  r # Nobody =>
    /\ r.read # Nobody => Vouched(r.read, t)
    /\ r.stage \in {"sent", "loaded"} /\ r.level # "info" => r.sig \in t
    /\ r.stage = "built" /\ r.level = "critical" => r.sig \in t

Told ==
  /\ Vouched(control, told)
  /\ \A s \in Supervisors : RunVouched(run[s], told)

IInv == SupervisionTypeOK /\ Told

-----------------------------------------------------------------------------
(* Types. *)

\* A signature is one of Signatures.
LEMMA SignatureType ==
  ASSUME SupervisionTypeOK, NEW s \in Supervisors
  PROVE  Signature(s) \in Signatures
<1>1. Attention \in SUBSET Staff
  BY DEF Attention
<1>2. [a \in Attention |-> status[a]] \in [Attention -> {"needs_work", "overdue"}]
  BY <1>1 DEF Attention
<1>3. (s = "api" /\ Attention \cap Discussants # {}) \in BOOLEAN
  OBVIOUS
<1> QED
  BY <1>1, <1>2, <1>3 DEF Signature, Signatures, SupervisionTypeOK

\* A level is one of Levels, and "critical" only about what the record's last
\* message was about, which was no mere notice.
LEMMA LevelType ==
  ASSUME NEW s \in Supervisors
  PROVE  /\ Level(s) \in Levels
         /\ Level(s) = "critical" =>
              /\ control.last # Nobody
              /\ control.last.sig = Signature(s)
              /\ control.last.level # "info"
BY DEF Level, Levels, Escalates, SameMatter

\* Ageing a copy of the record changes no more than the age of its last message.
LEMMA AgedKeeps ==
  ASSUME NEW c \in Controls \cup {Nobody}, NEW t
  PROVE  /\ Aged(c) \in Controls \cup {Nobody}
         /\ c \in Controls => Aged(c) \in Controls
         /\ Vouched(c, t) => Vouched(Aged(c), t)
BY DEF Aged, Controls, Vouched

Hand == Messages \cup Answers \cup {Nobody}

RunTyped ==
  /\ run \in [Supervisors -> Hand]
  /\ \A s \in Supervisors : Stage(s, "loaded") => run[s].read \in Controls

\* A supervisor's hand is replaced, and the other's kept.
LEMMA HoldType ==
  ASSUME RunTyped, NEW s \in Supervisors, NEW what \in Hand,
         what # Nobody /\ what.stage = "loaded" => what.read \in Controls,
         Hold(s, what)
  PROVE  RunTyped'
<1>1. run' \in [Supervisors -> Hand] /\ \A r \in Supervisors : run'[r] = IF r = s THEN what ELSE run[r]
  BY DEF Hold, RunTyped
<1> QED
  BY <1>1 DEF Stage, RunTyped

\* Every step keeps the types.
LEMMA TypeKept ==
  ASSUME SupervisionTypeOK, [SupervisionNext]_supervisionVars
  PROVE  SupervisionTypeOK'
<1> USE DEF RunTyped, staffVars
<1>0. RunTyped /\ control \in Controls /\ "api" \in Supervisors /\ told \subseteq Signatures
  BY DEF SupervisionTypeOK, Hand, Supervisors
<1>a. ASSUME RunTyped', control' \in Controls, told' \subseteq Signatures, UNCHANGED staffVars
      PROVE  SupervisionTypeOK'
  BY <1>a DEF SupervisionTypeOK, Hand
<1>b. ASSUME UNCHANGED <<control, run, told>>,
             status' \in [Staff -> {"working", "needs_work", "overdue"}], turn' \in Nat, behind' \in Nat
      PROVE  SupervisionTypeOK'
  BY <1>b DEF SupervisionTypeOK, Stage
<1>1. ASSUME NEW s \in Supervisors, Look(s)  PROVE SupervisionTypeOK'
  <2> DEFINE what == [stage |-> "built", sig |-> Signature(s), level |-> Level(s),
                      urged |-> Urged(s), read |-> Nobody]
  <2>1. Urged(s) \in SUBSET Staff
    BY DEF Urged, ToNotify, Attention
  <2>2. what \in Hand
    BY <2>1, SignatureType, LevelType DEF Hand, Messages
  <2>3. RunTyped'
    <3> HIDE DEF RunTyped
    <3>1. what # Nobody /\ what.stage = "loaded" => what.read \in Controls
      OBVIOUS
    <3> QED
      BY <1>0, <1>1, <2>2, <3>1, HoldType DEF Look
  <2> QED
    BY <1>0, <1>1, <1>a, <2>3 DEF Look
<1>2. ASSUME NEW s \in Supervisors, Send(s)  PROVE SupervisionTypeOK'
  <2> DEFINE what == [run[s] EXCEPT !.stage = "sent"]
  <2>1. run[s] \in Messages /\ run[s].stage = "built"
    BY <1>0, <1>2 DEF Send, Stage, Hand, Messages, Answers
  <2>2. what \in Hand /\ what.stage = "sent"
    BY <2>1 DEF Hand, Messages
  <2>3. RunTyped'
    <3> HIDE DEF RunTyped
    <3> QED
      BY <1>0, <1>2, <2>2, HoldType DEF Send
  <2>4. told' \subseteq Signatures
    BY <1>0, <1>2, <2>1 DEF Send, Messages
  <2> QED
    BY <1>0, <1>2, <1>a, <2>3, <2>4 DEF Send
<1>3. ASSUME NEW s \in Supervisors, Load(s)  PROVE SupervisionTypeOK'
  <2> DEFINE what == [run[s] EXCEPT !.stage = "loaded", !.read = control]
  <2>1. run[s] \in Messages
    BY <1>0, <1>3 DEF Load, Stage, Hand, Messages, Answers
  <2>2. what \in Hand /\ what.read = control
    BY <1>0, <2>1 DEF Hand, Messages
  <2>3. RunTyped'
    <3> HIDE DEF RunTyped
    <3> QED
      BY <1>0, <1>3, <2>2, HoldType DEF Load
  <2> QED
    BY <1>0, <1>3, <1>a, <2>3 DEF Load
<1>d. ASSUME NEW s \in Supervisors, Hold(s, Nobody)  PROVE RunTyped'
  <2> HIDE DEF RunTyped
  <2> QED
    BY <1>0, <1>d, HoldType DEF Hand
<1>4. ASSUME NEW s \in Supervisors, Save(s)  PROVE SupervisionTypeOK'
  <2>1. run[s] \in Messages /\ run[s].read \in Controls
    BY <1>0, <1>4 DEF Save, Stage, Hand, Messages, Answers
  <2>2. control' \in Controls
    BY <1>4, <2>1 DEF Save, Controls, Messages
  <2> QED
    BY <1>0, <1>4, <1>a, <1>d, <2>2 DEF Save
<1>5. ASSUME NEW s \in Supervisors, GiveUp(s)  PROVE SupervisionTypeOK'
  BY <1>0, <1>5, <1>a, <1>d DEF GiveUp
<1>6. ASSUME Acknowledge  PROVE SupervisionTypeOK'
  <2>1. PICK targets \in (SUBSET Attention) \ {{}} :
          Hold("api", [stage |-> "acks", sig |-> Signature("api"), left |-> targets, read |-> Nobody])
    BY <1>6 DEF Acknowledge
  <2> DEFINE what == [stage |-> "acks", sig |-> Signature("api"), left |-> targets, read |-> Nobody]
  <2>2. targets \in SUBSET Staff
    BY <2>1 DEF Attention
  <2>3. what \in Hand /\ what.stage = "acks"
    BY <1>0, <2>2, SignatureType DEF Hand, Answers
  <2>4. RunTyped'
    <3> HIDE DEF RunTyped
    <3> QED
      BY <1>0, <2>1, <2>3, HoldType
  <2> QED
    BY <1>0, <1>6, <1>a, <2>4 DEF Acknowledge
<1>7. ASSUME AckLoad  PROVE SupervisionTypeOK'
  <2> DEFINE what == [run["api"] EXCEPT !.read = control]
  <2>1. run["api"] \in Answers
    BY <1>0, <1>7 DEF AckLoad, Stage, Hand, Messages, Answers
  <2>2. what \in Hand /\ what.stage = "acks"
    BY <1>0, <2>1 DEF Hand, Answers
  <2>3. RunTyped'
    <3> HIDE DEF RunTyped
    <3> QED
      BY <1>0, <1>7, <2>2, HoldType DEF AckLoad
  <2> QED
    BY <1>0, <1>7, <1>a, <2>3 DEF AckLoad
<1>8. ASSUME AckSave  PROVE SupervisionTypeOK'
  <2>1. run["api"] \in Answers /\ run["api"].read \in Controls
    BY <1>0, <1>8 DEF AckSave, Stage, Hand, Messages, Answers
  <2>2. PICK a \in run["api"].left :
          /\ control' = [run["api"].read EXCEPT !.acks = @ \cup {[agent |-> a, sig |-> run["api"].sig]}]
          /\ Hold("api", IF run["api"].left = {a} THEN Nobody
                         ELSE [run["api"] EXCEPT !.left = @ \ {a}, !.read = Nobody])
    BY <1>8 DEF AckSave
  <2> DEFINE what == [run["api"] EXCEPT !.left = @ \ {a}, !.read = Nobody]
  <2>3. control' \in Controls
    BY <2>1, <2>2 DEF Controls, Answers
  <2>4. what \in Hand /\ what.stage = "acks"
    BY <2>1 DEF Hand, Answers
  <2>5. RunTyped'
    <3>1. CASE run["api"].left = {a}
      BY <1>0, <1>d, <2>2, <3>1
    <3>2. CASE run["api"].left # {a}
      <4> HIDE DEF RunTyped
      <4> QED
        BY <1>0, <2>2, <2>4, <3>2, HoldType
    <3> QED
      BY <3>1, <3>2
  <2> QED
    BY <1>0, <1>8, <1>a, <2>3, <2>5 DEF AckSave
<1>9. ASSUME NEW a \in Staff, CatchUp(a) \/ FallBehind(a)  PROVE SupervisionTypeOK'
  BY <1>9, <1>b DEF CatchUp, FallBehind, SupervisionTypeOK
<1>10. ASSUME NextRound  PROVE SupervisionTypeOK'
  BY <1>10, <1>b DEF NextRound, SupervisionTypeOK
<1>11. ASSUME MessageAges  PROVE SupervisionTypeOK'
  <2>1. control' \in Controls
    BY <1>0, <1>11, AgedKeeps DEF MessageAges
  <2>2. ASSUME NEW s \in Supervisors
        PROVE  /\ run'[s] \in Hand
               /\ Stage(s, "loaded")' => run'[s].read \in Controls
    <3>1. CASE Free(s)
      BY <1>11, <3>1 DEF MessageAges, Hand, Stage
    <3>2. CASE ~Free(s)
      <4>1. run'[s] = [run[s] EXCEPT !.read = Aged(@)]
        BY <1>11, <3>2 DEF MessageAges
      <4>2. run[s] \in Messages \cup Answers
        BY <1>0, <3>2 DEF Free, Hand
      <4>3. run[s].read \in Controls \cup {Nobody}
        BY <4>2 DEF Messages, Answers
      <4>4. Aged(run[s].read) \in Controls \cup {Nobody}
        BY <4>3, AgedKeeps
      <4>5. run'[s] \in Hand /\ run'[s].read = Aged(run[s].read) /\ run'[s].stage = run[s].stage
        BY <4>1, <4>2, <4>4 DEF Hand, Messages, Answers
      <4>6. run[s].stage = "loaded" => Aged(run[s].read) \in Controls
        BY <1>0, <3>2, AgedKeeps DEF Stage, Free
      <4> QED
        BY <4>5, <4>6 DEF Stage
    <3> QED
      BY <3>1, <3>2
  <2>3. run' = [s \in Supervisors |-> run'[s]]
    BY <1>11 DEF MessageAges
  <2>4. RunTyped'
    BY <2>2, <2>3
  <2> QED
    BY <1>0, <1>11, <1>a, <2>1, <2>4 DEF MessageAges
<1>12. ASSUME UNCHANGED supervisionVars  PROVE SupervisionTypeOK'
  BY <1>12 DEF supervisionVars, SupervisionTypeOK, Stage
<1> QED
  BY <1>1, <1>2, <1>3, <1>4, <1>5, <1>6, <1>7, <1>8, <1>9, <1>10, <1>11, <1>12
  DEF SupervisionNext, Records

\* More may be told.
LEMMA ToldMore ==
  ASSUME NEW t, NEW u, t \subseteq u
  PROVE  /\ \A c : Vouched(c, t) => Vouched(c, u)
         /\ \A r : RunVouched(r, t) => RunVouched(r, u)
BY DEF Vouched, RunVouched

\* A supervisor takes something in hand.
LEMMA HoldTold ==
  ASSUME NEW s \in Supervisors, NEW what, RunTyped, Told, Hold(s, what), RunVouched(what, told)
  PROVE  \A r \in Supervisors : RunVouched(run'[r], told)
<1>1. \A r \in Supervisors : run'[r] = IF r = s THEN what ELSE run[r]
  BY DEF Hold, RunTyped
<1> QED
  BY <1>1 DEF Told

\* Every step keeps every copy of the record true to what was told.
LEMMA ToldKept ==
  ASSUME IInv, [SupervisionNext]_supervisionVars
  PROVE  Told'
<1>0. RunTyped /\ control \in Controls /\ "api" \in Supervisors /\ Told /\ SupervisionTypeOK
  BY DEF IInv, SupervisionTypeOK, RunTyped, Hand, Supervisors
<1>a. ASSUME NEW s \in Supervisors, Hold(s, Nobody)
      PROVE  \A r \in Supervisors : RunVouched(run'[r], told)
  BY <1>0, <1>a, HoldTold DEF RunVouched
<1>1. ASSUME NEW s \in Supervisors, Look(s)  PROVE Told'
  <2> DEFINE what == [stage |-> "built", sig |-> Signature(s), level |-> Level(s),
                      urged |-> Urged(s), read |-> Nobody]
  <2>1. Level(s) = "critical" => Signature(s) \in told
    BY <1>0, LevelType DEF Told, Vouched
  <2>2. RunVouched(what, told)
    BY <2>1 DEF RunVouched, Vouched
  <2>3. \A r \in Supervisors : RunVouched(run'[r], told)
    BY <1>0, <1>1, <2>2, HoldTold DEF Look
  <2> QED
    BY <1>0, <1>1, <2>3 DEF Look, Told
<1>2. ASSUME NEW s \in Supervisors, Send(s)  PROVE Told'
  <2> DEFINE what == [run[s] EXCEPT !.stage = "sent"]
  <2>1. run[s] \in Messages /\ RunVouched(run[s], told) /\ run[s] # Nobody
    BY <1>0, <1>2 DEF Send, Stage, Hand, Messages, Answers, RunTyped, Told
  <2>2. told \subseteq told' /\ (run[s].level # "info" => run[s].sig \in told')
    BY <1>2 DEF Send
  <2>3. RunVouched(what, told')
    BY <2>1, <2>2, ToldMore DEF RunVouched, Messages
  <2>4. \A r \in Supervisors : run'[r] = IF r = s THEN what ELSE run[r]
    BY <1>0, <1>2 DEF Send, Hold, RunTyped
  <2>5. \A r \in Supervisors : RunVouched(run'[r], told')
    BY <1>0, <2>2, <2>3, <2>4, ToldMore DEF Told
  <2> QED
    BY <1>0, <1>2, <2>2, <2>5, ToldMore DEF Send, Told
<1>3. ASSUME NEW s \in Supervisors, Load(s)  PROVE Told'
  <2> DEFINE what == [run[s] EXCEPT !.stage = "loaded", !.read = control]
  <2>1. run[s] \in Messages /\ RunVouched(run[s], told) /\ run[s] # Nobody /\ run[s].stage = "sent"
    BY <1>0, <1>3 DEF Load, Stage, Hand, Messages, Answers, RunTyped, Told
  <2>2. RunVouched(what, told)
    BY <1>0, <2>1 DEF RunVouched, Messages, Told
  <2>3. \A r \in Supervisors : RunVouched(run'[r], told)
    BY <1>0, <1>3, <2>2, HoldTold DEF Load
  <2> QED
    BY <1>0, <1>3, <2>3 DEF Load, Told
<1>4. ASSUME NEW s \in Supervisors, Save(s)  PROVE Told'
  <2>1. run[s] \in Messages /\ run[s].read \in Controls /\ run[s].stage = "loaded"
        /\ RunVouched(run[s], told) /\ run[s] # Nobody
    BY <1>0, <1>4 DEF Save, Stage, Hand, Messages, Answers, RunTyped, Told
  <2>2. control'.last = [sig |-> run[s].sig, level |-> run[s].level, old |-> FALSE]
    BY <1>4, <2>1 DEF Save, Controls
  <2>3. Vouched(control', told)
    BY <2>1, <2>2 DEF Vouched, RunVouched
  <2>4. \A r \in Supervisors : RunVouched(run'[r], told)
    BY <1>a, <1>4 DEF Save
  <2> QED
    BY <1>4, <2>3, <2>4 DEF Save, Told
<1>5. ASSUME NEW s \in Supervisors, GiveUp(s)  PROVE Told'
  BY <1>0, <1>5, <1>a DEF GiveUp, Told
<1>6. ASSUME Acknowledge  PROVE Told'
  <2>1. PICK targets \in (SUBSET Attention) \ {{}} :
          Hold("api", [stage |-> "acks", sig |-> Signature("api"), left |-> targets, read |-> Nobody])
    BY <1>6 DEF Acknowledge
  <2>2. RunVouched([stage |-> "acks", sig |-> Signature("api"), left |-> targets, read |-> Nobody], told)
    BY DEF RunVouched, Vouched
  <2>3. \A r \in Supervisors : RunVouched(run'[r], told)
    BY <1>0, <2>1, <2>2, HoldTold
  <2> QED
    BY <1>0, <1>6, <2>3 DEF Acknowledge, Told
<1>7. ASSUME AckLoad  PROVE Told'
  <2> DEFINE what == [run["api"] EXCEPT !.read = control]
  <2>1. run["api"] \in Answers
    BY <1>0, <1>7 DEF AckLoad, Stage, Hand, Messages, Answers, RunTyped
  <2>2. RunVouched(what, told)
    BY <1>0, <2>1 DEF RunVouched, Answers, Told
  <2>3. \A r \in Supervisors : RunVouched(run'[r], told)
    BY <1>0, <1>7, <2>2, HoldTold DEF AckLoad
  <2> QED
    BY <1>0, <1>7, <2>3 DEF AckLoad, Told
<1>8. ASSUME AckSave  PROVE Told'
  <2>1. /\ run["api"] \in Answers /\ run["api"].read \in Controls /\ run["api"].read # Nobody
        /\ Vouched(run["api"].read, told)
    BY <1>0, <1>8 DEF AckSave, Stage, Hand, Messages, Answers, RunTyped, Told, RunVouched
  <2>2. PICK a \in run["api"].left :
          /\ control' = [run["api"].read EXCEPT !.acks = @ \cup {[agent |-> a, sig |-> run["api"].sig]}]
          /\ Hold("api", IF run["api"].left = {a} THEN Nobody
                         ELSE [run["api"] EXCEPT !.left = @ \ {a}, !.read = Nobody])
    BY <1>8 DEF AckSave
  <2>3. control'.last = run["api"].read.last
    BY <2>1, <2>2 DEF Controls
  <2>4. Vouched(control', told)
    BY <2>1, <2>3 DEF Vouched
  <2>5. RunVouched([run["api"] EXCEPT !.left = @ \ {a}, !.read = Nobody], told)
    BY <2>1 DEF RunVouched, Vouched, Answers
  <2>6. \A r \in Supervisors : RunVouched(run'[r], told)
    <3>1. CASE run["api"].left = {a}
      BY <1>0, <1>a, <2>2, <3>1
    <3>2. CASE run["api"].left # {a}
      BY <1>0, <2>2, <2>5, <3>2, HoldTold
    <3> QED
      BY <3>1, <3>2
  <2> QED
    BY <1>8, <2>4, <2>6 DEF AckSave, Told
<1>9. ASSUME UNCHANGED <<control, run, told>>  PROVE Told'
  BY <1>0, <1>9 DEF Told
<1>10. ASSUME MessageAges  PROVE Told'
  <2>1. Vouched(control', told)
    BY <1>0, <1>10, AgedKeeps DEF MessageAges, Told
  <2>2. ASSUME NEW s \in Supervisors  PROVE RunVouched(run'[s], told)
    <3>1. CASE Free(s)
      BY <1>10, <3>1 DEF MessageAges, RunVouched
    <3>2. CASE ~Free(s)
      <4>1. run'[s] = [run[s] EXCEPT !.read = Aged(@)]
        BY <1>10, <3>2 DEF MessageAges
      <4>2. run[s] \in Messages \cup Answers
        BY <1>0, <3>2 DEF Free, Hand, RunTyped
      <4>3. run[s].read \in Controls \cup {Nobody}
        BY <4>2 DEF Messages, Answers
      <4>4. RunVouched(run[s], told) /\ run[s] # Nobody
        BY <1>0, <3>2 DEF Free, Told
      <4>5. Aged(run[s].read) # Nobody => Vouched(Aged(run[s].read), told)
        BY <4>3, <4>4, AgedKeeps DEF RunVouched, Aged
      <4>6. /\ run'[s].read = Aged(run[s].read) /\ run'[s].stage = run[s].stage
            /\ run'[s].sig = run[s].sig
            /\ run[s] \in Messages => run'[s].level = run[s].level
        BY <4>1, <4>2 DEF Messages, Answers
      <4>7. run[s] \in Answers => run[s].stage = "acks"
        BY DEF Answers
      <4> QED
        BY <4>2, <4>4, <4>5, <4>6, <4>7 DEF RunVouched
    <3> QED
      BY <3>1, <3>2
  <2> QED
    BY <1>10, <2>1, <2>2 DEF MessageAges, Told
<1> QED
  BY <1>1, <1>2, <1>3, <1>4, <1>5, <1>6, <1>7, <1>8, <1>9, <1>10
  DEF SupervisionNext, Records, CatchUp, FallBehind, NextRound, supervisionVars

-----------------------------------------------------------------------------
(* Theorems. *)

\* The invariant holds at the start and is kept.
THEOREM Invariance == SupervisionSpec => []IInv
<1>1. SupervisionInit => IInv
  <2> SUFFICES ASSUME SupervisionInit  PROVE IInv
    OBVIOUS
  <2>1. SupervisionTypeOK
    BY DEF SupervisionInit, SupervisionTypeOK, Controls, Stage, Supervisors
  <2>2. Told
    BY DEF SupervisionInit, Told, Vouched, RunVouched, Supervisors
  <2> QED
    BY <2>1, <2>2 DEF IInv
<1>2. IInv /\ [SupervisionNext]_supervisionVars => IInv'
  BY TypeKept, ToldKept DEF IInv
<1> QED
  BY <1>1, <1>2, PTL DEF SupervisionSpec

\* The supervision keeps its types.
THEOREM TypeCorrect == SupervisionSpec => []SupervisionTypeOK
<1>1. IInv => SupervisionTypeOK
  BY DEF IInv
<1> QED
  BY <1>1, Invariance, PTL

\* A message is sharpened only if the same matter was warned of before, whoever
\* sent that warning and whatever was written over what.
THEOREM WarnedBeforeEscalated == SupervisionSpec => []EscalatedAfterWarning
<1>1. IInv => EscalatedAfterWarning
  BY DEF IInv, Told, RunVouched, EscalatedAfterWarning, Stage
<1> QED
  BY <1>1, Invariance, PTL

=============================================================================
