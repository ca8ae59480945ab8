---------------------------- MODULE WaitingQueue ----------------------------
(***************************************************************************)
(* The backend's queue of events: FixedFIFO (bounded) and FIFO (unbounded) *)
(* of queue/goconcurrentqueue, between the copier goroutine that enqueues  *)
(* and the one goroutine that dequeues or waits.  An enqueue and a dequeue *)
(* are several channel operations and critical sections each, and they     *)
(* interleave.  Only GetCap locks a queue, before either starts.           *)
(***************************************************************************)
EXTENDS Naturals, Sequences, FiniteSets

CONSTANTS
  NEvents,       \* bound: events are numbered in the order they arrive
  Whitelisted,   \* those whose source the copier skips
  Modes,         \* the modes to start in: TRUE for a bounded queue
  Capacity,      \* of a bounded queue
  WaitCapacity,  \* WaitForNextElementChanCapacity
  Retries        \* dequeueOrWaitForNextElementInvokeGapTime

Events == 1..NEvents
NoEvent == 0

ASSUME QueueAssumption ==
  /\ NEvents \in Nat
  /\ Whitelisted \subseteq Events
  /\ Modes \subseteq BOOLEAN /\ Modes # {}
  /\ Capacity \in Nat \ {0}
  /\ WaitCapacity \in Nat \ {0}
  /\ Retries \in Nat \ {0}

VARIABLES
  bounded,    \* FixedFIFO or FIFO
  arrived,    \* number of events the copier has taken from the worker
  copier,     \* Enqueue in the copier's goroutine
  items,      \* the channel or slice of elements
  waiters,    \* waitForNextElementChan
  taker,      \* DequeueOrWaitForNextElement
  discarded,  \* events refused by a full queue
  out         \* history: the events handed out, in order

queueVars == <<bounded, arrived, copier, items, waiters, taker, discarded, out>>

QueueTypeOK ==
  /\ bounded \in BOOLEAN
  /\ arrived \in 0..NEvents
  /\ copier \in [pc : {"idle", "look", "offer", "store"},
                 evt : Events \cup {NoEvent}, waiter : 0..(NEvents + 1)]
  /\ items \in Seq(Events)
  /\ bounded => Len(items) <= Capacity
  /\ waiters \in Seq(1..(NEvents + 1)) /\ Len(waiters) <= WaitCapacity
  /\ taker \in [pc : {"idle", "take", "register", "select", "poll",
                      "again", "wait", "got"},
                evt : Events \cup {NoEvent}, tries : 0..Retries]
  /\ discarded \subseteq Events
  /\ out \in Seq(Events)

QueueInit ==
  /\ bounded \in Modes
  /\ arrived = 0
  /\ copier = [pc |-> "idle", evt |-> NoEvent, waiter |-> 0]
  /\ items = <<>> /\ waiters = <<>>
  /\ taker = [pc |-> "idle", evt |-> NoEvent, tries |-> 0]
  /\ discarded = {}
  /\ out = <<>>

\* The dequeuing goroutine registers at most once for each element it gets, so
\* the number of that element names the channel it waits on.
Ticket == Len(out) + 1

\* It is parked in a select or a receive on that channel.
Receiving(w) == taker.pc \in {"select", "wait"} /\ w = Ticket

HandOut(e) ==
  /\ out' = Append(out, e)
  /\ taker' = [taker EXCEPT !.pc = "got", !.evt = e]

TakerGoto(step) == taker' = [taker EXCEPT !.pc = step]

-----------------------------------------------------------------------------
(* The copier and Enqueue. *)

CopierFrame == UNCHANGED <<bounded, arrived>>

Arrive ==
  /\ copier.pc = "idle" /\ arrived < NEvents
  /\ arrived' = arrived + 1
  /\ copier' = IF arrived + 1 \in Whitelisted THEN copier
               ELSE [copier EXCEPT !.pc = "look", !.evt = arrived + 1]
  /\ UNCHANGED <<bounded, items, waiters, taker, discarded, out>>

\* The first select: is anybody registered?
EnqueueLook ==
  /\ copier.pc = "look"
  /\ IF waiters = <<>>
     THEN copier' = [copier EXCEPT !.pc = "store"] /\ UNCHANGED waiters
     ELSE /\ copier' = [copier EXCEPT !.pc = "offer", !.waiter = Head(waiters)]
          /\ waiters' = Tail(waiters)
  /\ CopierFrame /\ UNCHANGED <<items, taker, discarded, out>>

\* listener <- value
EnqueueHandOver ==
  /\ copier.pc = "offer" /\ Receiving(copier.waiter)
  /\ HandOut(copier.evt)
  /\ copier' = [copier EXCEPT !.pc = "idle"]
  /\ CopierFrame /\ UNCHANGED <<items, waiters, discarded>>

\* Variant: the element of a listener that is not ready is dropped.
EnqueueNotReady_Drop ==
  /\ copier.pc = "offer" /\ ~bounded /\ ~Receiving(copier.waiter)
  /\ copier' = [copier EXCEPT !.pc = "idle"]
  /\ CopierFrame /\ UNCHANGED <<items, waiters, taker, discarded, out>>

\* FIFO stores the element of a listener that is not ready; FixedFIFO blocks.
EnqueueNotReady ==
  /\ copier.pc = "offer" /\ ~bounded /\ ~Receiving(copier.waiter)
  /\ copier' = [copier EXCEPT !.pc = "store"]
  /\ CopierFrame /\ UNCHANGED <<items, waiters, taker, discarded, out>>

\* Variant: one element more than the capacity.
Full_Late == bounded /\ Len(items) > Capacity

Full == bounded /\ Len(items) = Capacity

EnqueueStore ==
  /\ copier.pc = "store"
  /\ IF Full
     THEN discarded' = discarded \cup {copier.evt} /\ UNCHANGED items
     ELSE items' = Append(items, copier.evt) /\ UNCHANGED discarded
  /\ copier' = [copier EXCEPT !.pc = "idle"]
  /\ CopierFrame /\ UNCHANGED <<waiters, taker, out>>

-----------------------------------------------------------------------------
(* DequeueOrWaitForNextElement. *)

TakerFrame == UNCHANGED <<bounded, arrived, copier, discarded>>

TakeFirst ==
  /\ HandOut(Head(items))
  /\ items' = Tail(items)

\* Variant: the queue is not looked at before waiting.
DequeueLook_WaitFirst ==
  /\ taker.pc = "idle"
  /\ TakerGoto("register") /\ UNCHANGED <<items, out>>
  /\ TakerFrame /\ UNCHANGED waiters

\* FixedFIFO receives in one select; FIFO reads the length, unlocks, locks again.
DequeueLook ==
  /\ taker.pc = "idle"
  /\ IF items = <<>> THEN TakerGoto("register") /\ UNCHANGED <<items, out>>
     ELSE IF bounded THEN TakeFirst
     ELSE TakerGoto("take") /\ UNCHANGED <<items, out>>
  /\ TakerFrame /\ UNCHANGED waiters

DequeueTake ==
  /\ taker.pc = "take"
  /\ IF items = <<>> THEN TakerGoto("idle") /\ UNCHANGED <<items, out>> ELSE TakeFirst
  /\ TakerFrame /\ UNCHANGED waiters

\* Variant: FixedFIFO polls its queue while it waits, as FIFO does.
Register_Polling ==
  /\ taker.pc = "register"
  /\ IF Len(waiters) < WaitCapacity
     THEN /\ waiters' = Append(waiters, Ticket)
          /\ taker' = [taker EXCEPT !.pc = "select", !.tries = 0]
     ELSE TakerGoto("idle") /\ UNCHANGED waiters
  /\ TakerFrame /\ UNCHANGED <<items, out>>

\* Too many registered is an error, and Dequeue starts again.
Register ==
  /\ taker.pc = "register"
  /\ IF Len(waiters) < WaitCapacity
     THEN /\ waiters' = Append(waiters, Ticket)
          /\ taker' = [taker EXCEPT !.pc = IF bounded THEN "wait" ELSE "select",
                                    !.tries = 0]
     ELSE TakerGoto("idle") /\ UNCHANGED waiters
  /\ TakerFrame /\ UNCHANGED <<items, out>>

\* time.After fires first in the select of FIFO.
RetryTimer ==
  /\ taker.pc = "select"
  /\ TakerGoto("poll")
  /\ TakerFrame /\ UNCHANGED <<items, waiters, out>>

\* FIFO.Dequeue: on success the registered channel stays behind.
RetryPoll ==
  /\ taker.pc = "poll"
  /\ IF items # <<>>
     THEN TakeFirst
     ELSE /\ taker' = [taker EXCEPT !.pc = "again", !.tries = @ + 1]
          /\ UNCHANGED <<items, out>>
  /\ TakerFrame /\ UNCHANGED waiters

\* The next round, or `return <-waitChan' after the last one.
RetryAgain ==
  /\ taker.pc = "again"
  /\ TakerGoto(IF taker.tries = Retries THEN "wait" ELSE "select")
  /\ TakerFrame /\ UNCHANGED <<items, waiters, out>>

Enqueue == EnqueueLook \/ EnqueueHandOver \/ EnqueueNotReady \/ EnqueueStore

DequeueOrWait == \/ DequeueLook \/ DequeueTake \/ Register \/ RetryTimer
                 \/ RetryPoll \/ RetryAgain

QueueNext == Arrive \/ Enqueue \/ DequeueOrWait

-----------------------------------------------------------------------------
(* Properties *)

Elements(s) == {s[i] : i \in 1..Len(s)}

InQueue == Elements(items)
HandedOut == Elements(out)
InHand == IF copier.pc = "idle" THEN {} ELSE {copier.evt}

\* Every event that arrived, and was not whitelisted, is in exactly one place:
\* with the copier, in the queue, discarded or handed out once; whatever listeners
\* were left behind.
Accounted ==
  /\ InHand \cup InQueue \cup discarded \cup HandedOut = (1..arrived) \ Whitelisted
  /\ Cardinality(InHand) + Len(items) + Cardinality(discarded) + Len(out)
       = Cardinality((1..arrived) \ Whitelisted)

\* A bounded queue never keeps the copier: the listener it took is waiting.
ListenerWaits ==
  bounded /\ copier.pc = "offer" => Receiving(copier.waiter)

\* "First in first out", but for one case: Enqueue finds nobody waiting and stores
\* the event after a consumer that saw an empty queue has registered; the next
\* event is handed to that consumer first.  No event is overtaken twice.
OvertakenOnce ==
  \A j \in 1..Len(out) : Cardinality({i \in 1..(j - 1) : out[i] > out[j]}) <= 1

\* "Waits until the next element gets enqueued": who waits without a time limit
\* is still registered, or an enqueue that saw it waiting holds its channel.
WaiterRegistered ==
  taker.pc = "wait" => \/ \E i \in 1..Len(waiters) : waiters[i] = Ticket
                       \/ copier.pc = "offer" /\ copier.waiter = Ticket
=============================================================================
