--------------------------- MODULE GoLane_proofs ---------------------------
(***************************************************************************)
(* Proofs about the Go data platform.                                      *)
(*                                                                         *)
(* That a key has one live call rests on who leads: a read that submits or *)
(* waits leads the flight of its key, a flight has such a leader, and a    *)
(* job that outlives its handler is one whose client left.  That an        *)
(* abandoned order is not sent rests on the queues: what a consumer takes  *)
(* has not been started before, for a job is queued once.                  *)
(***************************************************************************)
EXTENDS GoLane, FiniteSetTheorems, TLAPS

Places == {"new", "missed", "follows", "submit", "waits", "over"}
Stages == {"none", "queued", "spawned", "running", "calling", "served", "failed"}
Ended == {"none", "served", "failed"}

\* The part of TypeOK the arguments need.
LaneTypes ==
  /\ handler \in [Requests -> Places]
  /\ gone \in [Requests -> BOOLEAN]
  /\ queue \in [Lanes -> Seq(Requests)]
  /\ job \in [Requests -> Stages]
  /\ flight \in [Keys -> Reads \cup {None}]
  /\ executed \subseteq Orders

\* A lane's queue q holds each of its jobs once, while they are queued.
HoldsOnce(q, lane, stage) ==
  /\ \A i \in 1..Len(q) : stage[q[i]] = "queued" /\ LaneOf(q[i]) = lane
  /\ \A i, j \in 1..Len(q) : q[i] = q[j] => i = j

QueuedOnce == \A lane \in Lanes : HoldsOnce(queue[lane], lane, job)

\* A job is made by a handler that then waits for it, and lives on without the
\* handler only if the client left.
JobsOfHandlers ==
  \A r \in Requests :
    /\ job[r] # "none" => handler[r] \in {"waits", "over"}
    /\ handler[r] = "over" => job[r] \in Ended \/ gone[r]

\* Who leads a flight, and that those who follow one have one to follow.
LeadersFly == \A r \in Reads : handler[r] \in {"submit", "waits"} => flight[KeyOf[r]] = r
FlightsLed ==
  \A k \in Keys : flight[k] # None => KeyOf[flight[k]] = k /\ handler[flight[k]] \in {"submit", "waits"}
FollowersLed == \A r \in Reads : handler[r] = "follows" => flight[KeyOf[r]] # None
OrdersAlone == \A o \in Orders : handler[o] \notin {"missed", "follows"}

ExecutedWereSent == \A o \in executed : job[o] \in {"calling", "served", "failed"}

LaneInv ==
  /\ LaneTypes
  /\ QueuedOnce
  /\ JobsOfHandlers
  /\ LeadersFly
  /\ FlightsLed
  /\ FollowersLed
  /\ OrdersAlone
  /\ ExecutedWereSent

-----------------------------------------------------------------------------
(* Queues. *)

\* What the consumer takes from a queue is queued and is not in the rest.
LEMMA TakenFromQueue ==
  ASSUME NEW q \in Seq(Requests), NEW lane, NEW stage, HoldsOnce(q, lane, stage), q # <<>>
  PROVE  /\ Head(q) \in Requests /\ stage[Head(q)] = "queued" /\ LaneOf(Head(q)) = lane
         /\ Tail(q) \in Seq(Requests)
         /\ \A i \in 1..Len(Tail(q)) : Tail(q)[i] # Head(q)
         /\ HoldsOnce(Tail(q), lane, stage)
<1>1. /\ Len(q) \in Nat \ {0} /\ 1 \in 1..Len(q)
      /\ Head(q) = q[1] /\ Head(q) \in Requests /\ Tail(q) \in Seq(Requests)
      /\ Len(Tail(q)) = Len(q) - 1
      /\ \A i \in 1..Len(Tail(q)) : Tail(q)[i] = q[i + 1] /\ i + 1 \in 1..Len(q)
  OBVIOUS
<1>2. \A i \in 1..Len(Tail(q)) : i + 1 # 1
  BY <1>1
<1>3. \A i, j \in 1..Len(Tail(q)) : i + 1 = j + 1 => i = j
  BY <1>1
<1> QED
  BY <1>1, <1>2, <1>3 DEF HoldsOnce

\* A queue does not mind what happens to jobs that are not in it.
LEMMA QueueKeeps ==
  ASSUME NEW q \in Seq(Requests), NEW lane, NEW stage, NEW stage2, HoldsOnce(q, lane, stage),
         \A i \in 1..Len(q) : stage2[q[i]] = stage[q[i]]
  PROVE  HoldsOnce(q, lane, stage2)
BY DEF HoldsOnce

\* A job that was not queued may be.
LEMMA QueueGrows ==
  ASSUME NEW q \in Seq(Requests), NEW r \in Requests, NEW stage, NEW stage2,
         HoldsOnce(q, LaneOf(r), stage), stage[r] # "queued", stage2[r] = "queued",
         \A p \in Requests : p # r => stage2[p] = stage[p]
  PROVE  Append(q, r) \in Seq(Requests) /\ HoldsOnce(Append(q, r), LaneOf(r), stage2)
<1> DEFINE a == Append(q, r)
<1>1. /\ Len(q) \in Nat /\ a \in Seq(Requests) /\ Len(a) = Len(q) + 1 /\ a[Len(q) + 1] = r
      /\ \A i \in 1..Len(q) : a[i] = q[i] /\ q[i] \in Requests /\ q[i] # r
  BY DEF HoldsOnce
<1>2. \A i \in 1..Len(a) : i \in 1..Len(q) \/ i = Len(q) + 1
  BY <1>1
<1> HIDE DEF a
<1>3. \A i \in 1..Len(a) : stage2[a[i]] = "queued" /\ LaneOf(a[i]) = LaneOf(r)
  BY <1>1, <1>2 DEF HoldsOnce
<1>4. \A i, j \in 1..Len(a) : a[i] = a[j] => i = j
  BY <1>1, <1>2 DEF HoldsOnce
<1> QED
  BY <1>1, <1>3, <1>4 DEF HoldsOnce, a

\* A step of one job that is not in a queue leaves the queues as they are.
LEMMA QueuesKeep ==
  ASSUME LaneTypes, QueuedOnce, NEW r \in Requests, job[r] # "queued", NEW stage,
         job' = [job EXCEPT ![r] = stage], UNCHANGED queue
  PROVE  QueuedOnce'
<1> SUFFICES ASSUME NEW lane \in Lanes PROVE HoldsOnce(queue[lane], lane, job')
  BY DEF QueuedOnce
<1>1. queue[lane] \in Seq(Requests) /\ HoldsOnce(queue[lane], lane, job)
  BY DEF LaneTypes, QueuedOnce
<1>2. \A i \in 1..Len(queue[lane]) : queue[lane][i] \in Requests /\ queue[lane][i] # r
  BY <1>1 DEF HoldsOnce
<1>3. \A i \in 1..Len(queue[lane]) : job'[queue[lane][i]] = job[queue[lane][i]]
  BY <1>2 DEF LaneTypes
<1> QED
  BY <1>1, <1>3, QueueKeeps

LEMMA LaneOfType == ASSUME NEW r \in Requests PROVE LaneOf(r) \in Lanes
BY DEF LaneOf, Lanes

-----------------------------------------------------------------------------
(* The invariant. *)

LEMMA LaneInvInit == Init => LaneInv
<1> SUFFICES ASSUME Init PROVE LaneInv
  OBVIOUS
<1> USE DEF Init
<1>1. LaneTypes
  BY DEF LaneTypes, Places, Stages
<1>2. QueuedOnce
  BY DEF QueuedOnce, HoldsOnce
<1>3. JobsOfHandlers
  BY DEF JobsOfHandlers, Ended
<1>4. LeadersFly /\ FollowersLed /\ OrdersAlone
  BY DEF LeadersFly, FollowersLed, OrdersAlone, Requests
<1>5. FlightsLed /\ ExecutedWereSent
  BY DEF FlightsLed, ExecutedWereSent
<1> QED
  BY <1>1, <1>2, <1>3, <1>4, <1>5 DEF LaneInv

LEMMA KeyOfRead == ASSUME NEW r \in Reads PROVE KeyOf[r] \in Keys /\ r \in Requests
BY DEF Keys, Requests

\* A handler's end leaves no one behind who waits for it.
LEMMA EndKeeps ==
  ASSUME LaneInv, NEW r \in Requests, handler[r] \in {"submit", "waits"},
         job[r] \in Ended \/ gone[r], NEW what, End(r, what), UNCHANGED <<gone, queue, job, executed>>
  PROVE  LaneInv'
<1> DEFINE P == Party(r)
<1>1. /\ handler' = [p \in Requests |-> IF p \in P THEN "over" ELSE handler[p]]
      /\ flight' = [k \in Keys |-> IF flight[k] = r THEN None ELSE flight[k]]
      /\ gone' = gone /\ queue' = queue /\ job' = job /\ executed' = executed
  BY DEF End, Leave
<1>2. P = {r} \cup {f \in Reads : r \in Reads /\ handler[f] = "follows" /\ KeyOf[f] = KeyOf[r]}
  BY DEF Party
<1> HIDE DEF P
<1>3. LaneTypes'
  BY <1>1 DEF LaneInv, LaneTypes, Places
<1>4. QueuedOnce' /\ ExecutedWereSent'
  BY <1>1 DEF LaneInv, QueuedOnce, ExecutedWereSent
<1>5. \A p \in P : p = r \/ (handler[p] = "follows" /\ job[p] = "none")
  BY <1>2, KeyOfRead DEF LaneInv, JobsOfHandlers
<1>6. JobsOfHandlers'
  BY <1>1, <1>5 DEF LaneInv, JobsOfHandlers, Ended
<1>7. LeadersFly'
  <2> SUFFICES ASSUME NEW p \in Reads, handler'[p] \in {"submit", "waits"}
               PROVE  flight'[KeyOf[p]] = p
    BY DEF LeadersFly
  <2>1. handler[p] = handler'[p] /\ p \notin P /\ p # r
    BY <1>1, <1>2, KeyOfRead
  <2> QED
    BY <1>1, <2>1, KeyOfRead DEF LaneInv, LeadersFly
<1>8. FlightsLed'
  <2> SUFFICES ASSUME NEW k \in Keys, flight'[k] # None
               PROVE  KeyOf[flight'[k]] = k /\ handler'[flight'[k]] \in {"submit", "waits"}
    BY DEF FlightsLed
  <2>1. flight'[k] = flight[k] /\ flight[k] # r /\ flight[k] # None
    BY <1>1
  <2>2. flight[k] \in Reads /\ KeyOf[flight[k]] = k /\ handler[flight[k]] \in {"submit", "waits"}
    BY <2>1 DEF LaneInv, LaneTypes, FlightsLed
  <2>3. flight[k] \notin P
    BY <2>1, <2>2, <1>2
  <2> QED
    BY <1>1, <2>1, <2>2, <2>3, KeyOfRead
<1>9. FollowersLed'
  <2> SUFFICES ASSUME NEW f \in Reads, handler'[f] = "follows" PROVE flight'[KeyOf[f]] # None
    BY DEF FollowersLed
  <2>1. handler[f] = "follows" /\ f \notin P
    BY <1>1, KeyOfRead
  <2>2. flight[KeyOf[f]] # None /\ flight[KeyOf[f]] \in Reads /\ KeyOf[flight[KeyOf[f]]] = KeyOf[f]
    BY <2>1, KeyOfRead DEF LaneInv, LaneTypes, FlightsLed, FollowersLed
  <2>3. flight[KeyOf[f]] # r
    BY <1>2, <2>1, <2>2
  <2> QED
    BY <1>1, <2>2, <2>3, KeyOfRead
<1>10. OrdersAlone'
  BY <1>1 DEF LaneInv, OrdersAlone, Requests
<1> QED
  BY <1>3, <1>4, <1>6, <1>7, <1>8, <1>9, <1>10 DEF LaneInv

\* A step of a job that is not in a queue: what it becomes agrees with its
\* handler and with what Windows executed.
LEMMA JobKeeps ==
  ASSUME LaneInv, NEW r \in Requests, job[r] \notin {"none", "queued"} \cup Ended,
         NEW stage \in Stages \ {"none", "queued"}, job' = [job EXCEPT ![r] = stage],
         UNCHANGED <<handler, gone, queue, flight>>,
         executed' = executed \/ (r \in Orders /\ executed' = executed \cup {r}),
         r \in executed' => stage \in {"calling", "served", "failed"}
  PROVE  LaneInv'
<1>1. /\ handler' = handler /\ gone' = gone /\ queue' = queue /\ flight' = flight
      /\ job'[r] = stage /\ \A p \in Requests : p # r => job'[p] = job[p]
  BY DEF LaneInv, LaneTypes
<1>2. LaneTypes'
  BY DEF LaneInv, LaneTypes
<1>3. QueuedOnce'
  BY <1>1, QueuesKeep DEF LaneInv
<1>4. JobsOfHandlers'
  BY <1>1 DEF LaneInv, JobsOfHandlers, Ended
<1>5. LeadersFly' /\ FlightsLed' /\ FollowersLed' /\ OrdersAlone'
  BY <1>1 DEF LaneInv, LeadersFly, FlightsLed, FollowersLed, OrdersAlone
<1>6. ExecutedWereSent'
  <2> SUFFICES ASSUME NEW o \in executed' PROVE job'[o] \in {"calling", "served", "failed"}
    BY DEF ExecutedWereSent
  <2>1. o \in Requests /\ (o # r => o \in executed)
    BY DEF LaneInv, LaneTypes, Requests
  <2> QED
    BY <1>1, <2>1 DEF LaneInv, ExecutedWereSent
<1> QED
  BY <1>2, <1>3, <1>4, <1>5, <1>6 DEF LaneInv

LEMMA LeaveIs ==
  ASSUME LaneTypes, NEW r \in Requests, NEW place \in Places, Leave({r}, place)
  PROVE  /\ handler' \in [Requests -> Places]
         /\ handler'[r] = place
         /\ \A p \in Requests : p # r => handler'[p] = handler[p]
BY DEF Leave, LaneTypes

LEMMA ArriveKeeps == ASSUME LaneInv, NEW r \in Requests, Arrive(r) PROVE LaneInv'
<1>1. /\ handler[r] = "new"
      /\ gone' = gone /\ queue' = queue /\ job' = job /\ flight' = flight /\ executed' = executed
  BY DEF Arrive, jobs
<1>2. PICK place \in {"over", "missed", "submit"} :
        Leave({r}, place) /\ (r \notin Reads => place = "submit") /\ (r \in Reads => place # "submit")
  BY DEF Arrive
<1>3. /\ handler' \in [Requests -> Places]
      /\ handler'[r] = place
      /\ \A p \in Requests : p # r => handler'[p] = handler[p]
  BY <1>2, LeaveIs DEF LaneInv, Places
<1>4. LaneTypes'
  BY <1>1, <1>3 DEF LaneInv, LaneTypes
<1>5. QueuedOnce' /\ ExecutedWereSent'
  BY <1>1 DEF LaneInv, QueuedOnce, ExecutedWereSent
<1>6. job[r] = "none"
  BY <1>1 DEF LaneInv, JobsOfHandlers
<1>7. JobsOfHandlers'
  BY <1>1, <1>3, <1>6 DEF LaneInv, JobsOfHandlers, Ended
<1>8. LeadersFly' /\ FollowersLed' /\ OrdersAlone'
  BY <1>1, <1>2, <1>3, KeyOfRead, GoLaneAssumption
     DEF LaneInv, LeadersFly, FollowersLed, OrdersAlone, Requests
<1>9. FlightsLed'
  BY <1>1, <1>3, KeyOfRead DEF LaneInv, LaneTypes, FlightsLed
<1> QED
  BY <1>4, <1>5, <1>7, <1>8, <1>9 DEF LaneInv

LEMMA JoinKeeps == ASSUME LaneInv, NEW r \in Requests, Join(r) PROVE LaneInv'
<1>1. /\ handler[r] = "missed" /\ r \in Reads /\ KeyOf[r] \in Keys
      /\ gone' = gone /\ queue' = queue /\ job' = job /\ executed' = executed
  BY KeyOfRead DEF Join, jobs, clients, LaneInv, OrdersAlone, Requests
<1>2. PICK place \in {"submit", "follows"} :
        /\ Leave({r}, place)
        /\ place = "submit" => flight[KeyOf[r]] = None /\ flight' = [flight EXCEPT ![KeyOf[r]] = r]
        /\ place = "follows" => flight[KeyOf[r]] # None /\ flight' = flight
  BY DEF Join, Leads
<1>3. /\ handler' \in [Requests -> Places]
      /\ handler'[r] = place
      /\ \A p \in Requests : p # r => handler'[p] = handler[p]
  BY <1>2, LeaveIs DEF LaneInv, Places
<1>4. flight' \in [Keys -> Reads \cup {None}]
  BY <1>1, <1>2 DEF LaneInv, LaneTypes
<1>5. LaneTypes'
  BY <1>1, <1>3, <1>4 DEF LaneInv, LaneTypes
<1>6. QueuedOnce' /\ ExecutedWereSent'
  BY <1>1 DEF LaneInv, QueuedOnce, ExecutedWereSent
<1>7. job[r] = "none"
  BY <1>1 DEF LaneInv, JobsOfHandlers
<1>8. JobsOfHandlers'
  BY <1>1, <1>3, <1>7 DEF LaneInv, JobsOfHandlers, Ended
<1>9. OrdersAlone'
  BY <1>1, <1>3, GoLaneAssumption DEF LaneInv, OrdersAlone, Requests
<1>10. LeadersFly' /\ FlightsLed' /\ FollowersLed'
  <2>1. CASE place = "follows"
    <3>1. flight' = flight /\ flight[KeyOf[r]] # None
      BY <1>2, <2>1
    <3>2. LeadersFly' /\ FollowersLed'
      BY <3>1, <2>1, <1>1, <1>3, KeyOfRead DEF LaneInv, LeadersFly, FollowersLed
    <3>3. FlightsLed'
      BY <3>1, <2>1, <1>1, <1>3, KeyOfRead DEF LaneInv, LaneTypes, FlightsLed
    <3> QED
      BY <3>2, <3>3
  <2>2. CASE place = "submit"
    <3>1. /\ flight[KeyOf[r]] = None /\ flight'[KeyOf[r]] = r
          /\ \A k \in Keys : k # KeyOf[r] => flight'[k] = flight[k]
      BY <1>1, <1>2, <2>2 DEF LaneInv, LaneTypes
    <3>2. r # None
      BY GoLaneAssumption
    <3>3. LeadersFly'
      <4> SUFFICES ASSUME NEW p \in Reads, handler'[p] \in {"submit", "waits"}, p # r
                   PROVE  flight'[KeyOf[p]] = p
        BY <3>1 DEF LeadersFly
      <4>1. flight[KeyOf[p]] = p /\ p # None /\ KeyOf[p] \in Keys
        BY <1>3, KeyOfRead, GoLaneAssumption DEF LaneInv, LeadersFly
      <4> QED
        BY <4>1, <3>1
    <3>4. FlightsLed'
      <4> SUFFICES ASSUME NEW k \in Keys, flight'[k] # None, k # KeyOf[r]
                   PROVE  KeyOf[flight'[k]] = k /\ handler'[flight'[k]] \in {"submit", "waits"}
        BY <3>1, <1>3, <2>2 DEF FlightsLed
      <4>1. /\ flight'[k] = flight[k] /\ flight[k] \in Requests
            /\ KeyOf[flight[k]] = k /\ handler[flight[k]] \in {"submit", "waits"}
        BY <3>1, KeyOfRead DEF LaneInv, LaneTypes, FlightsLed
      <4> QED
        BY <4>1, <1>3
    <3>5. FollowersLed'
      BY <1>1, <1>3, <2>2, <3>1, <3>2, KeyOfRead DEF LaneInv, FollowersLed
    <3> QED
      BY <3>3, <3>4, <3>5
  <2> QED
    BY <2>1, <2>2
<1> QED
  BY <1>5, <1>6, <1>8, <1>9, <1>10 DEF LaneInv

LEMMA SubmitKeeps == ASSUME LaneInv, NEW r \in Requests, Submit(r) PROVE LaneInv'
<1>1. /\ handler[r] = "submit" /\ job[r] = "none"
      /\ gone' = gone /\ flight' = flight /\ executed' = executed
  BY DEF Submit, clients, LaneInv, JobsOfHandlers
<1>2. /\ job' \in [Requests -> Stages] /\ job'[r] = "queued"
      /\ \A p \in Requests : p # r => job'[p] = job[p]
  BY DEF Submit, LaneInv, LaneTypes, Stages
<1>3. /\ handler' \in [Requests -> Places] /\ handler'[r] = "waits"
      /\ \A p \in Requests : p # r => handler'[p] = handler[p]
  BY LeaveIs DEF Submit, LaneInv, Places
<1>4. /\ queue'[LaneOf(r)] = Append(queue[LaneOf(r)], r)
      /\ \A lane \in Lanes : lane # LaneOf(r) => queue'[lane] = queue[lane]
      /\ \A lane \in Lanes : queue[lane] \in Seq(Requests) /\ HoldsOnce(queue[lane], lane, job)
      /\ DOMAIN queue' = Lanes /\ queue' = [lane \in Lanes |-> queue'[lane]]
  BY LaneOfType DEF Submit, LaneInv, LaneTypes, QueuedOnce
<1>5. /\ Append(queue[LaneOf(r)], r) \in Seq(Requests)
      /\ HoldsOnce(Append(queue[LaneOf(r)], r), LaneOf(r), job')
  BY <1>1, <1>2, <1>4, LaneOfType, QueueGrows
<1>6. \A lane \in Lanes : queue'[lane] \in Seq(Requests)
  BY <1>4, <1>5
<1>7. LaneTypes'
  BY <1>1, <1>2, <1>3, <1>4, <1>6 DEF LaneInv, LaneTypes
<1>8. QueuedOnce'
  <2> SUFFICES ASSUME NEW lane \in Lanes, lane # LaneOf(r) PROVE HoldsOnce(queue[lane], lane, job')
    BY <1>4, <1>5 DEF QueuedOnce
  <2>1. \A i \in 1..Len(queue[lane]) : queue[lane][i] \in Requests /\ queue[lane][i] # r
    BY <1>4 DEF HoldsOnce
  <2>2. \A i \in 1..Len(queue[lane]) : job'[queue[lane][i]] = job[queue[lane][i]]
    BY <2>1, <1>2
  <2> QED
    BY <1>4, <2>2, QueueKeeps
<1>9. JobsOfHandlers'
  BY <1>1, <1>2, <1>3 DEF LaneInv, JobsOfHandlers
<1>10. LeadersFly' /\ FollowersLed' /\ OrdersAlone'
  BY <1>1, <1>3, KeyOfRead DEF LaneInv, LeadersFly, FollowersLed, OrdersAlone, Requests
<1>11. FlightsLed'
  BY <1>1, <1>3, KeyOfRead DEF LaneInv, LaneTypes, FlightsLed
<1>12. ExecutedWereSent'
  BY <1>1, <1>2 DEF LaneInv, LaneTypes, ExecutedWereSent, Requests
<1> QED
  BY <1>7, <1>8, <1>9, <1>10, <1>11, <1>12 DEF LaneInv

LEMMA DispatchKeeps == ASSUME LaneInv, NEW lane \in Lanes, Dispatch(lane) PROVE LaneInv'
<1> DEFINE r == Head(queue[lane])
<1>1. /\ queue[lane] # <<>> /\ queue' = [queue EXCEPT ![lane] = Tail(queue[lane])]
      /\ job' = [job EXCEPT ![r] = "spawned"]
      /\ handler' = handler /\ gone' = gone /\ flight' = flight /\ executed' = executed
  BY DEF Dispatch, clients
<1>2. \A l \in Lanes : queue[l] \in Seq(Requests) /\ HoldsOnce(queue[l], l, job)
  BY DEF LaneInv, LaneTypes, QueuedOnce
<1>3. /\ r \in Requests /\ job[r] = "queued" /\ LaneOf(r) = lane
      /\ Tail(queue[lane]) \in Seq(Requests)
      /\ \A i \in 1..Len(Tail(queue[lane])) : Tail(queue[lane])[i] # r
      /\ HoldsOnce(Tail(queue[lane]), lane, job)
  BY <1>1, <1>2, TakenFromQueue
<1> HIDE DEF r
<1>4. /\ job' \in [Requests -> Stages] /\ job'[r] = "spawned"
      /\ \A p \in Requests : p # r => job'[p] = job[p]
  BY <1>1, <1>3 DEF LaneInv, LaneTypes, Stages
<1>5. /\ queue'[lane] = Tail(queue[lane])
      /\ \A l \in Lanes : l # lane => queue'[l] = queue[l]
      /\ queue' \in [Lanes -> Seq(Requests)]
  BY <1>1, <1>3 DEF LaneInv, LaneTypes
<1>6. LaneTypes'
  BY <1>1, <1>4, <1>5 DEF LaneInv, LaneTypes
<1>7. QueuedOnce'
  <2> SUFFICES ASSUME NEW l \in Lanes PROVE HoldsOnce(queue'[l], l, job')
    BY DEF QueuedOnce
  <2>1. queue'[l] \in Seq(Requests) /\ HoldsOnce(queue'[l], l, job)
    BY <1>2, <1>3, <1>5
  <2>2. \A i \in 1..Len(queue'[l]) : queue'[l][i] \in Requests /\ LaneOf(queue'[l][i]) = l
    BY <2>1 DEF HoldsOnce
  <2>3. \A i \in 1..Len(queue'[l]) : queue'[l][i] # r
    BY <2>2, <1>3, <1>5
  <2>4. \A i \in 1..Len(queue'[l]) : job'[queue'[l][i]] = job[queue'[l][i]]
    BY <2>2, <2>3, <1>4
  <2> QED
    BY <2>1, <2>4, QueueKeeps
<1>8. JobsOfHandlers'
  BY <1>1, <1>3, <1>4 DEF LaneInv, JobsOfHandlers, Ended
<1>9. LeadersFly' /\ FlightsLed' /\ FollowersLed' /\ OrdersAlone'
  BY <1>1 DEF LaneInv, LeadersFly, FlightsLed, FollowersLed, OrdersAlone
<1>10. ExecutedWereSent'
  BY <1>1, <1>3, <1>4 DEF LaneInv, LaneTypes, ExecutedWereSent, Requests
<1> QED
  BY <1>6, <1>7, <1>8, <1>9, <1>10 DEF LaneInv

\* Work, Forward and the steps of Windows.
LEMMA CallKeeps ==
  ASSUME LaneInv, NEW r \in Requests, Work(r) \/ Forward(r) \/ Windows(r)
  PROVE  LaneInv'
<1>1. CASE Work(r)
  <2>1. r \notin executed
    BY <1>1 DEF Work, LaneInv, ExecutedWereSent
  <2> QED
    BY <1>1, <2>1, JobKeeps DEF Work, clients, Stages, Ended
<1>2. CASE Forward(r)
  <2>1. r \notin executed
    BY <1>2 DEF Forward, LaneInv, ExecutedWereSent
  <2>2. PICK stage \in {"calling", "failed"} : job' = [job EXCEPT ![r] = stage]
    BY <1>2 DEF Forward
  <2> QED
    BY <1>2, <2>1, <2>2, JobKeeps DEF Forward, clients, Stages, Ended
<1>3. CASE Serve(r)
  <2>1. job[r] = "calling" /\ UNCHANGED <<handler, gone, queue, flight>>
    BY <1>3 DEF Serve, clients
  <2>2. PICK stage \in {"calling", "served"} : job' = [job EXCEPT ![r] = stage]
    <3>1. job = [job EXCEPT ![r] = "calling"]
      BY <2>1 DEF LaneInv, LaneTypes
    <3> QED
      BY <3>1, <1>3 DEF Serve
  <2>3. executed' = executed \/ (r \in Orders /\ executed' = executed \cup {r})
    BY <1>3 DEF Serve
  <2> QED
    BY <2>1, <2>2, <2>3, JobKeeps DEF Stages, Ended
<1>4. CASE OrderServed(r)
  BY <1>4, JobKeeps DEF OrderServed, clients, Stages, Ended
<1>5. CASE CallFails(r)
  BY <1>5, JobKeeps DEF CallFails, clients, Stages, Ended
<1> QED
  BY <1>1, <1>2, <1>3, <1>4, <1>5 DEF Windows

LEMMA FinishKeeps ==
  ASSUME LaneInv, NEW r \in Requests, SubmitFails(r) \/ Finish(r)
  PROVE  LaneInv'
<1>1. CASE SubmitFails(r)
  <2>1. job[r] = "none"
    BY <1>1 DEF SubmitFails, LaneInv, JobsOfHandlers
  <2> QED
    BY <1>1, <2>1, EndKeeps DEF SubmitFails, jobs, Ended
<1>2. CASE Finish(r)
  <2>1. /\ handler[r] = "waits" /\ UNCHANGED <<gone, queue, job, executed>>
        /\ job[r] \in Ended \/ gone[r]
    BY <1>2 DEF Finish, jobs, Ended
  <2>2. \E what : End(r, what)
    BY <1>2 DEF Finish
  <2> QED
    BY <2>1, <2>2, EndKeeps
<1> QED
  BY <1>1, <1>2

LEMMA LeavingKeeps == ASSUME LaneInv, NEW r \in Requests, ClientLeaves(r) PROVE LaneInv'
<1>1. /\ handler' = handler /\ queue' = queue /\ job' = job /\ flight' = flight
      /\ executed' = executed /\ gone' = [gone EXCEPT ![r] = TRUE]
  BY DEF ClientLeaves, jobs
<1>2. gone' \in [Requests -> BOOLEAN] /\ \A p \in Requests : gone[p] => gone'[p]
  BY <1>1 DEF LaneInv, LaneTypes
<1>3. LaneTypes' /\ JobsOfHandlers'
  BY <1>1, <1>2 DEF LaneInv, LaneTypes, JobsOfHandlers
<1>4. QueuedOnce' /\ ExecutedWereSent'
  BY <1>1 DEF LaneInv, QueuedOnce, ExecutedWereSent
<1>5. LeadersFly' /\ FlightsLed' /\ FollowersLed' /\ OrdersAlone'
  BY <1>1 DEF LaneInv, LeadersFly, FlightsLed, FollowersLed, OrdersAlone
<1> QED
  BY <1>3, <1>4, <1>5 DEF LaneInv

LEMMA IdleKeeps ==
  ASSUME LaneInv, UNCHANGED <<handler, gone, queue, job, flight, executed>> PROVE LaneInv'
BY DEF LaneInv, LaneTypes, QueuedOnce, JobsOfHandlers, LeadersFly, FlightsLed, FollowersLed,
       OrdersAlone, ExecutedWereSent

LEMMA LaneInvNext == LaneInv /\ [Next]_vars => LaneInv'
<1> SUFFICES ASSUME LaneInv, [Next]_vars PROVE LaneInv'
  OBVIOUS
<1>1. ASSUME NEW r \in Requests, Arrive(r) \/ Platform(r) \/ Windows(r) \/ ClientLeaves(r)
      PROVE  LaneInv'
  BY <1>1, ArriveKeeps, JoinKeeps, SubmitKeeps, CallKeeps, FinishKeeps, LeavingKeeps DEF Platform
<1>2. ASSUME NEW lane \in Lanes, Dispatch(lane) PROVE LaneInv'
  BY <1>2, DispatchKeeps
<1>3. ASSUME NEW k \in Keys, Expire(k) PROVE LaneInv'
  BY <1>3, IdleKeeps DEF Expire, clients, jobs
<1>4. CASE UNCHANGED vars
  BY <1>4, IdleKeeps DEF vars
<1> QED
  BY <1>1, <1>2, <1>3, <1>4 DEF Next

LEMMA LaneInvAlways == Spec => []LaneInv
<1> QED
  BY LaneInvInit, LaneInvNext, PTL DEF Spec

-----------------------------------------------------------------------------
(* The theorems. *)

\* Singleflight (resolveLane, sf.Do): of the calls at Windows for one key, at
\* most one is for a client that still waits.  Its read leads the key's flight.
THEOREM OneLiveCall == Spec => []OneLiveCallPerKey
<1>1. LaneInv => OneLiveCallPerKey
  <2> SUFFICES ASSUME LaneInv, NEW k \in Keys
               PROVE  Cardinality({r \in Reads : KeyOf[r] = k /\ job[r] = "calling" /\ ~gone[r]}) <= 1
    BY DEF OneLiveCallPerKey
  <2> DEFINE Live == {r \in Reads : KeyOf[r] = k /\ job[r] = "calling" /\ ~gone[r]}
  <2>1. \A r \in Live : r = flight[k]
    <3> SUFFICES ASSUME NEW r \in Live PROVE r = flight[k]
      OBVIOUS
    <3>1. handler[r] = "waits"
      BY KeyOfRead DEF LaneInv, JobsOfHandlers, Ended
    <3> QED
      BY <3>1 DEF LaneInv, LeadersFly
  <2>2. Live \subseteq {flight[k]}
    BY <2>1
  <2> HIDE DEF Live
  <2>3. IsFiniteSet({flight[k]}) /\ Cardinality({flight[k]}) = 1
    BY FS_Singleton
  <2>4. Cardinality(Live) <= 1
    BY <2>2, <2>3, FS_Subset
  <2> QED
    BY <2>4 DEF Live
<1> QED
  BY <1>1, LaneInvAlways, PTL

\* An order whose client left before a worker forwarded it is not sent later
\* (the request's context in forward): only Serve executes an order, and only
\* Forward calls for one, and neither for what a consumer takes from a queue.
THEOREM AbandonedStaysUnsent == Spec => AbandonedOrderNotSent
<1>1. LaneInv /\ [Next]_vars =>
        [\A o \in Orders : (gone[o] /\ job[o] \in {"none", "queued", "spawned", "running"})
                             => o \notin executed' /\ job'[o] # "calling"]_vars
  <2> SUFFICES ASSUME LaneInv, Next, NEW o \in Orders, gone[o],
                      job[o] \in {"none", "queued", "spawned", "running"}
               PROVE  o \notin executed' /\ job'[o] # "calling"
    OBVIOUS
  <2>1. o \notin executed /\ o \in Requests /\ job[o] # "calling"
    BY DEF LaneInv, ExecutedWereSent, Requests
  <2>2. ASSUME NEW r \in Requests, Arrive(r) \/ Platform(r) \/ ClientLeaves(r)
        PROVE  o \notin executed' /\ job'[o] # "calling"
    <3>1. executed' = executed
      BY <2>2 DEF Arrive, Platform, Join, Submit, SubmitFails, Work, Forward, Finish, ClientLeaves
    <3>2. job' = job \/ \E stage \in {"queued", "running", "failed"} : job' = [job EXCEPT ![r] = stage]
                     \/ (r # o /\ job' = [job EXCEPT ![r] = "calling"])
      BY <2>2, <2>1
         DEF Arrive, Platform, Join, Submit, SubmitFails, Work, Forward, Alive, Finish, ClientLeaves, jobs
    <3>3. job'[o] # "calling"
      BY <3>2, <2>1 DEF LaneInv, LaneTypes
    <3> QED
      BY <3>1, <3>3, <2>1
  <2>3. ASSUME NEW r \in Requests, Windows(r)
        PROVE  o \notin executed' /\ job'[o] # "calling"
    <3>1. job[r] = "calling" /\ r # o
      BY <2>3, <2>1 DEF Windows, Serve, OrderServed, CallFails
    <3>2. executed' = executed \/ executed' = executed \cup {r}
      BY <2>3 DEF Windows, Serve, OrderServed, CallFails
    <3>3. job' = job \/ \E stage \in {"served", "failed"} : job' = [job EXCEPT ![r] = stage]
      BY <2>3 DEF Windows, Serve, OrderServed, CallFails
    <3> QED
      BY <3>1, <3>2, <3>3, <2>1 DEF LaneInv, LaneTypes
  <2>4. ASSUME NEW lane \in Lanes, Dispatch(lane)
        PROVE  o \notin executed' /\ job'[o] # "calling"
    BY <2>4, <2>1 DEF Dispatch, LaneInv, LaneTypes
  <2>5. ASSUME NEW k \in Keys, Expire(k)
        PROVE  o \notin executed' /\ job'[o] # "calling"
    BY <2>5, <2>1 DEF Expire, jobs
  <2> QED
    BY <2>2, <2>3, <2>4, <2>5 DEF Next
<1> QED
  BY <1>1, LaneInvAlways, PTL DEF Spec, AbandonedOrderNotSent

\* No follower is forgotten: a read that waits for a flight has a leader that
\* still submits or waits, and that will end the flight for it (End).  That
\* the leader does end is liveness.
THEOREM FollowersHaveLeaders ==
  Spec => [](\A r \in Reads : handler[r] = "follows" =>
               \E leader \in Reads : KeyOf[leader] = KeyOf[r] /\ handler[leader] \in {"submit", "waits"})
<1>1. LaneInv => \A r \in Reads : handler[r] = "follows" =>
               \E leader \in Reads : KeyOf[leader] = KeyOf[r] /\ handler[leader] \in {"submit", "waits"}
  <2> SUFFICES ASSUME LaneInv, NEW r \in Reads, handler[r] = "follows"
               PROVE  \E leader \in Reads : /\ KeyOf[leader] = KeyOf[r]
                                            /\ handler[leader] \in {"submit", "waits"}
    OBVIOUS
  <2>1. flight[KeyOf[r]] # None /\ KeyOf[r] \in Keys
    BY KeyOfRead DEF LaneInv, FollowersLed
  <2>2. /\ flight[KeyOf[r]] \in Reads /\ KeyOf[flight[KeyOf[r]]] = KeyOf[r]
        /\ handler[flight[KeyOf[r]]] \in {"submit", "waits"}
    BY <2>1 DEF LaneInv, LaneTypes, FlightsLed
  <2> QED
    BY <2>2
<1> QED
  BY <1>1, LaneInvAlways, PTL

=============================================================================
