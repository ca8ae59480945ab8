----------------------------- MODULE EventQueue -----------------------------
(***************************************************************************)
(* queue.EventQueue: the goroutine that dequeues an event and offers it to *)
(* every directive in turn, the listener of each directive that waits for  *)
(* its manager for a limited time.                                         *)
(***************************************************************************)
EXTENDS WaitingQueue

CONSTANT NDirs     \* number of directives

Dirs == 1..NDirs

ASSUME DirsAssumption == NDirs \in Nat \ {0}

VARIABLES
  turn,       \* the directive Dequeue offers the event to next
  listener,   \* the event each directive's listener holds
  manager,    \* whether the directive's manager waits for an event
  got,        \* history: events each manager has received, in order
  lost        \* history: events each directive has timed out on

vars == <<bounded, arrived, copier, items, waiters, taker, discarded, out,
          turn, listener, manager, got, lost>>
dispatchVars == <<turn, listener, manager, got, lost>>

TypeOK ==
  /\ QueueTypeOK
  /\ turn \in Dirs
  /\ listener \in [Dirs -> Events \cup {NoEvent}]
  /\ manager \in [Dirs -> {"ready", "busy"}]
  /\ got \in [Dirs -> Seq(Events)]
  /\ lost \in [Dirs -> SUBSET Events]

Init ==
  /\ QueueInit
  /\ turn = 1
  /\ listener = [d \in Dirs |-> NoEvent]
  /\ manager = [d \in Dirs |-> "ready"]
  /\ got = [d \in Dirs |-> <<>>]
  /\ lost = [d \in Dirs |-> {}]

QueueFrame == UNCHANGED <<bounded, arrived, copier, items, waiters, discarded, out>>

\* Variant: a listener that is still busy is passed over.
Offer_Skip ==
  /\ taker.pc = "got"
  /\ listener' = IF listener[turn] # NoEvent THEN listener
                 ELSE [listener EXCEPT ![turn] = taker.evt]
  /\ turn' = IF turn = NDirs THEN 1 ELSE turn + 1
  /\ taker' = [taker EXCEPT !.pc = IF turn = NDirs THEN "idle" ELSE "got"]
  /\ QueueFrame /\ UNCHANGED <<manager, got, lost>>

\* eq.bufChans[i].ch <- bEvt, received by the listener; after the last directive
\* Dequeue goes for the next event.
Offer ==
  /\ taker.pc = "got" /\ listener[turn] = NoEvent
  /\ listener' = [listener EXCEPT ![turn] = taker.evt]
  /\ turn' = IF turn = NDirs THEN 1 ELSE turn + 1
  /\ taker' = [taker EXCEPT !.pc = IF turn = NDirs THEN "idle" ELSE "got"]
  /\ QueueFrame /\ UNCHANGED <<manager, got, lost>>

\* target[i].Ch <- be.evt
Deliver(d) ==
  /\ listener[d] # NoEvent /\ manager[d] = "ready"
  /\ got' = [got EXCEPT ![d] = Append(@, listener[d])]
  /\ manager' = [manager EXCEPT ![d] = "busy"]
  /\ listener' = [listener EXCEPT ![d] = NoEvent]
  /\ UNCHANGED queueVars /\ UNCHANGED <<turn, lost>>

Drop(d) ==
  /\ lost' = [lost EXCEPT ![d] = @ \cup {listener[d]}]
  /\ listener' = [listener EXCEPT ![d] = NoEvent]
  /\ UNCHANGED queueVars /\ UNCHANGED <<turn, manager, got>>

\* Variant: the unbounded mode has no time limit.
TimeOut_BoundedOnly(d) ==
  /\ listener[d] # NoEvent /\ bounded
  /\ Drop(d)

\* The event is dropped.  The limit (none, be.maxWait, deadlockLimit) only decides
\* how soon that may be; a timer that has fired may win against a ready manager.
TimeOut(d) ==
  /\ listener[d] # NoEvent
  /\ Drop(d)

\* The manager of BacklogManager comes back to its channel.
ManagerReady(d) ==
  /\ manager[d] = "busy"
  /\ manager' = [manager EXCEPT ![d] = "ready"]
  /\ UNCHANGED queueVars /\ UNCHANGED <<turn, listener, got, lost>>

\* All events have come and gone, whatever is left in the queue.
Quiet ==
  /\ arrived = NEvents /\ copier.pc = "idle" /\ taker.pc = "wait"
  /\ \A d \in Dirs : listener[d] = NoEvent
  /\ UNCHANGED vars

Listen(d) == Deliver(d) \/ TimeOut(d)

Next == \/ QueueNext /\ UNCHANGED dispatchVars
        \/ Offer
        \/ \E d \in Dirs : Listen(d) \/ ManagerReady(d)
        \/ Quiet

Spec == Init /\ [][Next]_vars

\* The goroutines of the queue run and timers fire.  Nothing is assumed of the
\* managers or of the arrival of events.
FairSpec ==
  /\ Spec
  /\ WF_vars(Enqueue /\ UNCHANGED dispatchVars)
  /\ WF_vars(DequeueOrWait /\ UNCHANGED dispatchVars)
  /\ WF_vars(Offer)
  /\ \A d \in Dirs : WF_vars(Listen(d))

-----------------------------------------------------------------------------
(* Properties *)

\* What directive d has not been offered yet of the event at hand, and holds.
Unsent(d) == IF taker.pc = "got" /\ d >= turn THEN <<taker.evt>> ELSE <<>>
Held(d) == IF listener[d] # NoEvent THEN <<listener[d]>> ELSE <<>>

\* What directive d has received, holds and is still offered.
Stream(d) == got[d] \o Held(d) \o Unsent(d)

\* An element of s comes before another only if it does so in o.
InOrder(s, o) ==
  \A i, j \in 1..Len(s), k, l \in 1..Len(o) :
    i < j /\ o[k] = s[i] /\ o[l] = s[j] => k < l

\* Each directive receives the events in the order they were handed out, none
\* twice, and misses only those it timed out on.
EachInOrder ==
  \A d \in Dirs : Elements(Stream(d)) = HandedOut \ lost[d] /\ InOrder(Stream(d), out)

\* A directive whose manager never comes back does not keep the event from the
\* others: Dequeue always returns to the queue.
DispatchCompletes == taker.pc = "got" ~> taker.pc # "got"
=============================================================================
