------------------------------- MODULE GoLane -------------------------------
(***************************************************************************)
(* The Go data platform between the Python programs and the Windows        *)
(* gateway.  A request goes to the lane of its kind: into the lane's       *)
(* queue, which one goroutine empties by starting a goroutine for each     *)
(* job, and those wait for one of the lane's workers.  Cacheable reads of  *)
(* one key that come together share one call (singleflight), whose answer  *)
(* is cached for a second.                                                 *)
(*                                                                         *)
(* A handler waits for its job or for its client to leave; the job outlives *)
(* it.  An account read returns how many orders Windows had executed.      *)
(***************************************************************************)
EXTENDS Naturals, Sequences, FiniteSets, FiniteSetsExt

CONSTANTS
  Reads,     \* cacheable GET requests
  Orders,    \* requests that place an order
  KeyOf,     \* a read's URL, an order's idempotency key
  Workers,   \* workers of a lane
  QueueSize, \* places in a lane's queue
  Leaving,   \* requests whose client may leave
  None

Requests == Reads \cup Orders

ASSUME GoLaneAssumption ==
  /\ Reads \cap Orders = {}
  /\ DOMAIN KeyOf = Requests
  /\ Workers \in Nat \ {0}
  /\ QueueSize \in Nat \ {0}
  /\ Leaving \subseteq Requests
  /\ None \notin Requests

VARIABLES
  handler,  \* where each request's handler is
  answer,   \* what each request was answered
  floor,    \* orders acknowledged when the request came
  gone,     \* requests whose client left: their contexts are cancelled
  queue,    \* the lanes' queues
  job,      \* where each request's job is
  seen,     \* what the job's call read
  flight,   \* the leader of the call in flight for a key
  cache,    \* the cached answer for a key
  executed  \* orders Windows executed

vars == <<handler, answer, floor, gone, queue, job, seen, flight, cache, executed>>
clients == <<answer, floor, gone>>
jobs == <<queue, job, seen>>

Keys == {KeyOf[r] : r \in Reads}
Lanes == {"account_fast", "trade_slow"}

\* resolveLane.
LaneOf(r) == IF r \in Orders THEN "trade_slow" ELSE "account_fast"

-----------------------------------------------------------------------------
(* ServeHTTP. *)

Data(n) == [what |-> "data", orders |-> n]
Plain(what) == [what |-> what, orders |-> 0]
Answer(rs, what) == answer' = [r \in Requests |-> IF r \in rs THEN what ELSE answer[r]]
Leave(rs, place) == handler' = [r \in Requests |-> IF r \in rs THEN place ELSE handler[r]]

Acknowledged == Cardinality({o \in Orders : answer[o] = Plain("ok")})

\* A cached answer is served at once.
Arrive(r) ==
  /\ handler[r] = "new"
  /\ floor' = [floor EXCEPT ![r] = Acknowledged]
  /\ IF r \in Reads /\ cache[KeyOf[r]] # None
     THEN Leave({r}, "over") /\ Answer({r}, Data(cache[KeyOf[r]]))
     ELSE Leave({r}, IF r \in Reads THEN "missed" ELSE "submit") /\ UNCHANGED answer
  /\ UNCHANGED <<gone, queue, job, seen, flight, cache, executed>>

\* sf.Do: the first leads, the others wait for it.
\* Mutant: everyone leads.
Alone(r) == TRUE
Leads(r) == flight[KeyOf[r]] = None

Join(r) ==
  /\ handler[r] = "missed"
  /\ IF Leads(r)
     THEN flight' = [flight EXCEPT ![KeyOf[r]] = r] /\ Leave({r}, "submit")
     ELSE Leave({r}, "follows") /\ UNCHANGED flight
  /\ UNCHANGED <<clients, jobs, cache, executed>>

\* A read's leader ends the flight for those that follow it.
Party(r) == {r} \cup {f \in Reads : r \in Reads /\ handler[f] = "follows" /\ KeyOf[f] = KeyOf[r]}

\* http.Error for reads; an order's error is logged and the answer left empty.
End(r, what) ==
  /\ Leave(Party(r), "over")
  /\ Answer(Party(r), what)
  /\ flight' = [k \in Keys |-> IF flight[k] = r THEN None ELSE flight[k]]

Failure(r) == Plain(IF r \in Reads THEN "error" ELSE "empty")

-----------------------------------------------------------------------------
(* Lane.Execute. *)

Full(lane) == Len(queue[lane]) = QueueSize

Submit(r) ==
  /\ handler[r] = "submit"
  /\ ~Full(LaneOf(r))
  /\ queue' = [queue EXCEPT ![LaneOf(r)] = Append(@, r)]
  /\ job' = [job EXCEPT ![r] = "queued"]
  /\ Leave({r}, "waits")
  /\ UNCHANGED <<clients, seen, flight, cache, executed>>

\* The queue stayed full for the lane's time, or the client left.
SubmitFails(r) ==
  /\ handler[r] = "submit"
  /\ Full(LaneOf(r)) \/ gone[r]
  /\ End(r, Failure(r))
  /\ UNCHANGED <<floor, gone, jobs, cache, executed>>

\* The lane's consumer: "go job".
Dispatch(lane) ==
  /\ queue[lane] # <<>>
  /\ queue' = [queue EXCEPT ![lane] = Tail(@)]
  /\ job' = [job EXCEPT ![Head(queue[lane])] = "spawned"]
  /\ UNCHANGED <<handler, clients, seen, flight, cache, executed>>

\* A worker is freed by every job that ends.
\* Mutant: by those that succeed.
BusyFailed == {"running", "calling", "failed"}
Busy == {"running", "calling"}
Free(lane) == Cardinality({r \in Requests : LaneOf(r) = lane /\ job[r] \in Busy}) < Workers

Work(r) ==
  /\ job[r] = "spawned"
  /\ Free(LaneOf(r))
  /\ job' = [job EXCEPT ![r] = "running"]
  /\ UNCHANGED <<handler, clients, queue, seen, flight, cache, executed>>

\* forward uses the request's context: nothing is sent for a client that left.
\* Mutant: it uses a context of its own.
Background(r) == TRUE
Alive(r) == ~gone[r]

Forward(r) ==
  /\ job[r] = "running"
  /\ job' = [job EXCEPT ![r] = IF Alive(r) THEN "calling" ELSE "failed"]
  /\ UNCHANGED <<handler, clients, queue, seen, flight, cache, executed>>

\* Windows executes an order, or reads the account.
Serve(r) ==
  /\ job[r] = "calling"
  /\ r \notin executed
  /\ executed' = IF r \in Orders THEN executed \cup {r} ELSE executed
  /\ seen' = [seen EXCEPT ![r] = Cardinality(executed')]
  /\ job' = IF r \in Orders THEN job ELSE [job EXCEPT ![r] = "served"]
  /\ UNCHANGED <<handler, clients, queue, flight, cache>>

OrderServed(r) ==
  /\ job[r] = "calling"
  /\ r \in executed
  /\ job' = [job EXCEPT ![r] = "served"]
  /\ UNCHANGED <<handler, clients, queue, seen, flight, cache, executed>>

\* An error of Windows, the 30 seconds, or a client that left.
CallFails(r) ==
  /\ job[r] = "calling"
  /\ job' = [job EXCEPT ![r] = "failed"]
  /\ UNCHANGED <<handler, clients, queue, seen, flight, cache, executed>>

Finish(r) ==
  /\ handler[r] = "waits"
  /\ \/ /\ job[r] = "served"
        /\ End(r, IF r \in Reads THEN Data(seen[r]) ELSE Plain("ok"))
        /\ cache' = IF r \in Reads THEN [cache EXCEPT ![KeyOf[r]] = seen[r]] ELSE cache
     \/ /\ job[r] = "failed" \/ gone[r]
        /\ End(r, Failure(r))
        /\ UNCHANGED cache
  /\ UNCHANGED <<floor, gone, jobs, executed>>

-----------------------------------------------------------------------------
(* Clients and time. *)

\* The client gives up, or its host fails.
ClientLeaves(r) ==
  /\ r \in Leaving
  /\ handler[r] \notin {"new", "over"}
  /\ ~gone[r]
  /\ gone' = [gone EXCEPT ![r] = TRUE]
  /\ UNCHANGED <<handler, answer, floor, jobs, flight, cache, executed>>

Expire(k) ==
  /\ cache[k] # None
  /\ cache' = [cache EXCEPT ![k] = None]
  /\ UNCHANGED <<handler, clients, jobs, flight, executed>>

-----------------------------------------------------------------------------
Init ==
  /\ handler = [r \in Requests |-> "new"]
  /\ answer = [r \in Requests |-> Plain("none")]
  /\ floor = [r \in Requests |-> 0]
  /\ gone = [r \in Requests |-> FALSE]
  /\ queue = [lane \in Lanes |-> <<>>]
  /\ job = [r \in Requests |-> "none"]
  /\ seen = [r \in Requests |-> 0]
  /\ flight = [k \in Keys |-> None]
  /\ cache = [k \in Keys |-> None]
  /\ executed = {}

Platform(r) == Join(r) \/ Submit(r) \/ SubmitFails(r) \/ Work(r) \/ Forward(r) \/ Finish(r)
Windows(r) == Serve(r) \/ OrderServed(r) \/ CallFails(r)

Next ==
  \/ \E r \in Requests : Arrive(r) \/ Platform(r) \/ Windows(r) \/ ClientLeaves(r)
  \/ \E lane \in Lanes : Dispatch(lane)
  \/ \E k \in Keys : Expire(k)

Spec == Init /\ [][Next]_vars

\* The goroutines run, a freed worker goes to each job in the end, and a call
\* ends, if only by the HTTP client's 30 seconds.
FairSpec ==
  /\ Spec
  /\ \A r \in Requests : WF_vars(Join(r) \/ Submit(r) \/ SubmitFails(r) \/ Forward(r) \/ Finish(r))
  /\ \A r \in Requests : SF_vars(Work(r))
  /\ \A r \in Requests : WF_vars(Windows(r))
  /\ \A lane \in Lanes : WF_vars(Dispatch(lane))

-----------------------------------------------------------------------------
(* Properties. *)

Counts == 0..Cardinality(Orders)

\* Every variable has its type.
TypeOK ==
  /\ handler \in [Requests -> {"new", "missed", "follows", "submit", "waits", "over"}]
  /\ answer \in [Requests -> [what : {"none", "ok", "empty", "error", "data"}, orders : Counts]]
  /\ floor \in [Requests -> Counts]
  /\ gone \in [Requests -> BOOLEAN]
  /\ \A lane \in Lanes : Len(queue[lane]) <= QueueSize /\ Range(queue[lane]) \subseteq Requests
  /\ job \in [Requests -> {"none", "queued", "spawned", "running", "calling", "served", "failed"}]
  /\ seen \in [Requests -> Counts]
  /\ flight \in [Keys -> Reads \cup {None}]
  /\ cache \in [Keys -> Counts \cup {None}]
  /\ executed \subseteq Orders

\* Singleflight: of the calls at Windows for one key, at most one is for a
\* client that still waits, whatever leaders left before it.
OneLiveCallPerKey ==
  \A k \in Keys : Cardinality({r \in Reads : KeyOf[r] = k /\ job[r] = "calling" /\ ~gone[r]}) <= 1

\* An order whose client left before a worker took it is not sent later.
AbandonedOrderNotSent ==
  [][\A o \in Orders : (gone[o] /\ job[o] \in {"none", "queued", "spawned", "running"})
                         => o \notin executed' /\ job'[o] # "calling"]_vars

\* No worker of a lane is lost and no follower forgotten: every request is
\* answered, also when leaders leave and calls fail.
EveryRequestAnswered ==
  \A r \in Requests : handler[r] # "new" ~> handler[r] = "over"

\* "the platform refuses a repeated idempotency key for a minute".
OrderOncePerKey ==
  \A o, p \in executed : KeyOf[o] = KeyOf[p] => o = p

\* "Queue Size": a lane holds no more jobs than it has workers and places in
\* its queue.
LaneWithinBounds ==
  \A lane \in Lanes :
    Cardinality({r \in Requests : LaneOf(r) = lane /\ job[r] \in {"queued", "spawned"} \cup Busy})
      <= Workers + QueueSize

\* "with the Windows gateway killed, an agent gets an explicit 503": no failure
\* is answered by an empty success.
FailureIsTold == \A r \in Requests : answer[r] = Plain("empty") => gone[r]

\* "an execution voids the cached account": an account read that comes after an
\* order was acknowledged shows it.
AccountShowsAcknowledged ==
  \A r \in Reads : answer[r].what = "data" => answer[r].orders >= floor[r]

=============================================================================
