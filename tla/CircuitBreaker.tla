--------------------------- MODULE CircuitBreaker ---------------------------
(***************************************************************************)
(* The circuit breakers of the subsystems.  They share one file, which the *)
(* API's handlers and the scheduler's threads read and write back as a     *)
(* whole; a check writes it too, when it finds a breaker open for longer   *)
(* than five minutes.                                                      *)
(*                                                                         *)
(* A count of failures is only compared with the threshold: beyond it, it  *)
(* stays there.                                                            *)
(***************************************************************************)
EXTENDS Naturals

CONSTANTS
  Subsystems,
  Users,      \* the handlers and threads that use the registry
  Threshold   \* failure_threshold

ASSUME ThresholdAssumption == Threshold \in Nat \ {0}

VARIABLES
  file,   \* the breaker of each subsystem
  user    \* what each user is at

vars == <<file, user>>

Counts == 0..Threshold
Breakers == [status : {"closed", "open", "half_open"}, count : Counts, due : BOOLEAN]
Files == [Subsystems -> Breakers]

\* due: open for open_seconds.
Closed == [status |-> "closed", count |-> 0, due |-> FALSE]

Next1(n) == IF n < Threshold THEN n + 1 ELSE n

\* record_failure.
Failed(b) == [status |-> IF Next1(b.count) >= Threshold THEN "open" ELSE "closed",
              count  |-> Next1(b.count),
              due    |-> FALSE]

\* record_success.
\* Mutant: the failures are not forgotten.
SucceededKeeping(b) == [Closed EXCEPT !.count = b.count]
Succeeded(b) == Closed

-----------------------------------------------------------------------------
Places == {"idle", "reopens", "calls", "succeeded", "failed"}

At(u, place) == user[u].at = place
Goes(u, place, s, read) == user' = [user EXCEPT ![u] = [at |-> place, of |-> s, read |-> read]]

\* check: what is open and not due is not called.
\* Mutant: nothing falls due.
NeverDue(b) == FALSE
Due(b) == b.status = "open" /\ b.due

CheckAnswers(u, s) ==
  /\ At(u, "idle")
  /\ ~Due(file[s])
  /\ file[s].status # "open"
  /\ Goes(u, "calls", s, file)
  /\ UNCHANGED file

\* An open breaker stops only a caller that has an earlier result to fall back on.
CallsAnyway(u, s) ==
  /\ At(u, "idle")
  /\ file[s].status = "open" /\ ~Due(file[s])
  /\ Goes(u, "calls", s, file)
  /\ UNCHANGED file

CheckFindsDue(u, s) ==
  /\ At(u, "idle")
  /\ Due(file[s])
  /\ Goes(u, "reopens", s, file)
  /\ UNCHANGED file

CheckReopens(u) ==
  /\ At(u, "reopens")
  /\ LET s == user[u].of
     IN /\ file' = [user[u].read EXCEPT ![s] = [@ EXCEPT !.status = "half_open", !.due = FALSE]]
        /\ Goes(u, "calls", s, user[u].read)

\* The call ends; the registry reads the file.
CallSucceeds(u) ==
  /\ At(u, "calls")
  /\ Goes(u, "succeeded", user[u].of, file)
  /\ UNCHANGED file

CallFails(u) ==
  /\ At(u, "calls")
  /\ Goes(u, "failed", user[u].of, file)
  /\ UNCHANGED file

\* A check for the dashboard only, or a call of which nothing is recorded.
GoesIdle(u) ==
  /\ At(u, "calls")
  /\ Goes(u, "idle", user[u].of, user[u].read)
  /\ UNCHANGED file

RecordSuccess(u) ==
  /\ At(u, "succeeded")
  /\ file' = [user[u].read EXCEPT ![user[u].of] = Succeeded(@)]
  /\ Goes(u, "idle", user[u].of, user[u].read)

RecordFailure(u) ==
  /\ At(u, "failed")
  /\ file' = [user[u].read EXCEPT ![user[u].of] = Failed(@)]
  /\ Goes(u, "idle", user[u].of, user[u].read)

\* Five minutes pass since s opened, for the file as for what was read of it.
Aged(f, s) == [f EXCEPT ![s].due = @ \/ f[s].status = "open"]
FallsDue(s) ==
  /\ file[s].status = "open" /\ ~file[s].due
  /\ file' = Aged(file, s)
  /\ user' = [u \in Users |-> [user[u] EXCEPT !.read = Aged(@, s)]]

-----------------------------------------------------------------------------
Init ==
  /\ file = [s \in Subsystems |-> Closed]
  /\ user \in [Users -> [at : {"idle"}, of : Subsystems, read : {file}]]

Registry(u) == CheckReopens(u) \/ RecordSuccess(u) \/ RecordFailure(u)
Caller(u) == CallSucceeds(u) \/ CallFails(u) \/ GoesIdle(u)

Next ==
  \/ \E u \in Users : \/ \E s \in Subsystems : CheckAnswers(u, s) \/ CallsAnyway(u, s) \/ CheckFindsDue(u, s)
                      \/ Registry(u) \/ Caller(u)
  \/ \E s \in Subsystems : FallsDue(s)

Spec == Init /\ [][Next]_vars

\* A registry call ends, a subsystem call ends, time passes, and every breaker
\* is asked for again and again.
FairSpec ==
  /\ Spec
  /\ \A u \in Users : WF_vars(Registry(u)) /\ WF_vars(Caller(u))
  /\ \A u \in Users, s \in Subsystems : SF_vars(CheckFindsDue(u, s))
  /\ \A s \in Subsystems : WF_vars(FallsDue(s))

-----------------------------------------------------------------------------
(* Properties. *)

\* Every variable has its type.
TypeOK ==
  /\ file \in Files
  /\ user \in [Users -> [at : Places, of : Subsystems, read : Files]]

\* A breaker is open or half open exactly when its count has reached the
\* threshold, and falls due only when open, in the file and in every copy of it
\* that is about to be written back.
Sound(b) == /\ b.status \in {"open", "half_open"} <=> b.count = Threshold
            /\ b.due => b.status = "open"
BreakersSound ==
  \A s \in Subsystems : Sound(file[s]) /\ \A u \in Users : Sound(user[u].read[s])

\* A subsystem whose breaker opened is called again in the end, whatever the
\* users write.
OpenIsProbed ==
  \A s \in Subsystems :
    file[s].status = "open" ~>
      file[s].status # "open" \/ \E u \in Users : user[u].at = "calls" /\ user[u].of = s

\* "each key subsystem has a breaker of its own": only a use of a subsystem
\* moves its breaker.
BreakersIndependent ==
  [][\A s \in Subsystems :
       file'[s].count # file[s].count \/ file'[s].status # file[s].status
         => \E u \in Users : user[u].of = s /\ user'[u] # user[u]]_vars

=============================================================================
