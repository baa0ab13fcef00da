------------------------------ MODULE EventBus ------------------------------
(***************************************************************************)
(* The scheduler's event bus.  Jobs publish from the threads of the pool,  *)
(* outside any event loop: each runs a loop of its own that puts the event *)
(* into the one priority queue, takes one event out of it, its own or      *)
(* another's, and calls that event's handlers.                             *)
(*                                                                         *)
(* The number that orders events of one priority is read and increased in  *)
(* two steps.  Two jobs that read the same number have events the queue    *)
(* cannot compare: putting or taking may then raise, and the job ends.     *)
(***************************************************************************)
EXTENDS Integers, FiniteSets

CONSTANTS
  Publishers, \* jobs
  Capacity,   \* max_queue_size
  Priorities,
  SameNumber, \* whether two jobs may read the same number
  MaxEvents   \* bound: events published

\* The queue holds a thousand, the pool has ten threads.
ASSUME BusAssumption ==
  /\ IsFiniteSet(Publishers)
  /\ Capacity \in Nat /\ Cardinality(Publishers) <= Capacity
  /\ Priorities \subseteq Int
  /\ SameNumber \in BOOLEAN
  /\ MaxEvents \in Nat

VARIABLES
  queue,     \* _queue
  number,    \* _event_count
  published, \* events published
  doing,     \* what each job is at, and with which event
  handled    \* events of which the handlers were called

busVars == <<queue, number, published, doing, handled>>

Events == [id : 1..MaxEvents, priority : Priorities, number : 0..MaxEvents]
Nothing == [id |-> 0, priority |-> 0, number |-> 0]
Idle == [at |-> "idle", event |-> Nothing]
Becomes(p, place, event) == doing' = [doing EXCEPT ![p] = [at |-> place, event |-> event]]
Drainers == {p \in Publishers : doing[p].at = "drains"}

SameKey(e, f) == e # f /\ e.priority = f.priority /\ e.number = f.number
Comparable == ~\E e, f \in queue : SameKey(e, f)

-----------------------------------------------------------------------------
(* publish. *)

TakeNumber(p, priority) ==
  /\ doing[p].at = "idle"
  /\ published < MaxEvents
  /\ SameNumber \/ \A q \in Publishers : doing[q].at # "numbered"
  /\ published' = published + 1
  /\ Becomes(p, "numbered", [id |-> published + 1, priority |-> priority, number |-> number])
  /\ UNCHANGED <<queue, number, handled>>

\* A full queue drops the event.
Full == Cardinality(queue) >= Capacity
\* Mutant: events are queued for a consumer that does not run.
AfterPut == "idle"
AfterPublishing == "drains"
Put(p) ==
  /\ doing[p].at = "numbered"
  /\ queue' = IF Full THEN queue ELSE queue \cup {doing[p].event}
  /\ number' = doing[p].event.number + 1
  /\ Becomes(p, AfterPublishing, Nothing)
  /\ UNCHANGED <<published, handled>>

\* The event is left in the queue.
PutRaises(p) ==
  /\ doing[p].at = "numbered"
  /\ ~Full
  /\ \E e \in queue : SameKey(e, doing[p].event)
  /\ queue' = queue \cup {doing[p].event}
  /\ number' = doing[p].event.number + 1
  /\ doing' = [doing EXCEPT ![p] = Idle]
  /\ UNCHANGED <<published, handled>>

-----------------------------------------------------------------------------
(* _drain_once; it returns when the queue is empty, which no job finds it. *)

Before(e, f) == e.priority > f.priority \/ (e.priority = f.priority /\ e.number <= f.number)
IsHead(e) == e \in queue /\ \A f \in queue : Before(e, f)

\* Mutant: what is queued is taken at once.
NothingLeft(e) == {}
Rest(e) == queue \ {e}
Take(p) ==
  /\ doing[p].at = "drains"
  /\ \E e \in queue :
       /\ IsHead(e)
       /\ queue' = Rest(e)
       /\ Becomes(p, "handles", e)
  /\ UNCHANGED <<number, published, handled>>

\* The event taken is lost.
TakeRaises(p) ==
  /\ doing[p].at = "drains"
  /\ ~Comparable
  /\ \E e \in queue : IsHead(e) /\ queue' = queue \ {e}
  /\ doing' = [doing EXCEPT ![p] = Idle]
  /\ UNCHANGED <<number, published, handled>>

\* _dispatch_event: a handler that raises is logged.
Handle(p) ==
  /\ doing[p].at = "handles"
  /\ handled' = handled \cup {doing[p].event.id}
  /\ doing' = [doing EXCEPT ![p] = Idle]
  /\ UNCHANGED <<queue, number, published>>

-----------------------------------------------------------------------------
BusInit ==
  /\ queue = {}
  /\ number = 0
  /\ published = 0
  /\ doing = [p \in Publishers |-> Idle]
  /\ handled = {}

Publishing(p) == Put(p) \/ PutRaises(p) \/ Take(p) \/ TakeRaises(p) \/ Handle(p)

BusNext ==
  \E p \in Publishers : (\E priority \in Priorities : TakeNumber(p, priority)) \/ Publishing(p)

BusSpec == BusInit /\ [][BusNext]_busVars

\* A thread that publishes runs on.
BusFairness == \A p \in Publishers : WF_busVars(Publishing(p))

-----------------------------------------------------------------------------
(* Properties. *)

\* Every variable has its type.
BusTypeOK ==
  /\ queue \in SUBSET Events
  /\ number \in 0..MaxEvents
  /\ published \in 0..MaxEvents
  /\ doing \in [Publishers -> [at : {"idle", "numbered", "drains", "handles"}, event : Events \cup {Nothing}]]
  /\ handled \in SUBSET (1..MaxEvents)

\* A job that waits for an event finds one: there are at least as many queued as
\* jobs about to take one, whatever was dropped, whoever took whose event and
\* whatever raised.  The scheduler's job would otherwise never end.
DrainFindsAnEvent == Cardinality(Drainers) <= Cardinality(queue)

\* Every event published is handled by some job, although no job stays to
\* consume the queue, unless two events cannot be compared.
EveryEventHandled ==
  \A id \in 1..MaxEvents : published >= id ~> id \in handled \/ SameNumber

=============================================================================
