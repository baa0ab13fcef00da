--------------------------- MODULE ApprovalLedger ---------------------------
(***************************************************************************)
(* What the execution gateway promises about money: the control plane      *)
(* approves an intent, once or again, and an approval is acted upon at     *)
(* most once, by whichever worker, and never before it was given.          *)
(***************************************************************************)
EXTENDS Naturals, Sequences

CONSTANT Intents

VARIABLES
  approvals,  \* how many times each intent was approved
  executed    \* the approvals <<intent, number>> acted upon, in order

Init ==
  /\ approvals = [i \in Intents |-> 0]
  /\ executed = <<>>

Approve(i) ==
  /\ approvals' = [approvals EXCEPT ![i] = @ + 1]
  /\ UNCHANGED executed

Execute(i, n) ==
  /\ \A k \in 1..Len(executed) : executed[k] # <<i, n>>
  /\ executed' = Append(executed, <<i, n>>)
  /\ UNCHANGED approvals

Next ==
  \E i \in Intents : Approve(i) \/ \E n \in 1..approvals[i] : Execute(i, n)

Spec == Init /\ [][Next]_<<approvals, executed>>
=============================================================================
