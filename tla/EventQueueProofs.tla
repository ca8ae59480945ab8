-------------------------- MODULE EventQueueProofs --------------------------
(***************************************************************************)
(* The queue of events and its dispatch, for every capacity, stream of     *)
(* events and number of directives: a bounded queue never blocks the       *)
(* goroutine that enqueues, every event is in one place, is overtaken once *)
(* at most, and reaches the directives in the order it was handed out.     *)
(***************************************************************************)
EXTENDS EventQueue, SequenceTheorems, FiniteSetTheorems, TLAPS

CopierSteps == {"idle", "look", "offer", "store"}
TakerSteps == {"idle", "take", "register", "select", "poll", "again", "wait", "got"}

\* The shapes of the values; the ranges of TypeOK are not needed.
Shapes ==
  /\ arrived \in Nat
  /\ copier \in [pc : CopierSteps, evt : Nat, waiter : Nat]
  /\ taker \in [pc : TakerSteps, evt : Nat, tries : Nat]
  /\ items \in Seq(Nat)
  /\ waiters \in Seq(Nat)
  /\ out \in Seq(Nat)

\* With a bounded queue at most one listener exists, the one the dequeuing
\* goroutine is waiting on, registered or in the copier's hand.
OneListener ==
  bounded =>
    /\ taker.pc \notin {"take", "select", "poll", "again"}
    /\ waiters # <<>> => /\ waiters = <<Ticket>>
                         /\ taker.pc = "wait"
                         /\ copier.pc # "offer"
    /\ copier.pc = "offer" => /\ taker.pc = "wait"
                              /\ copier.waiter = Ticket

QInv == Shapes /\ OneListener

-----------------------------------------------------------------------------

\* The invariant of the two goroutines holds when they start.
LEMMA InitQInv == Init => QInv
  BY DEF Init, QueueInit, QInv, Shapes, OneListener, NoEvent, CopierSteps, TakerSteps

\* The number of a channel is a number.
LEMMA TicketNat == Shapes => Ticket \in Nat
  BY DEF Shapes, Ticket

\* A sequence of one channel.
LEMMA OneElement ==
  ASSUME NEW w \in Nat
  PROVE  Head(<<w>>) = w /\ Tail(<<w>>) = <<>> /\ Append(<<>>, w) = <<w>>
  OBVIOUS

\* Moving on to another step keeps the shape of the dequeuing goroutine.
LEMMA GotoShape ==
  ASSUME Shapes, NEW s \in TakerSteps, TakerGoto(s)
  PROVE  /\ taker' \in [pc : TakerSteps, evt : Nat, tries : Nat]
         /\ taker'.pc = s
  BY DEF Shapes, TakerGoto

\* Handing an element out keeps the shapes of the history and of the goroutine.
LEMMA HandOutShape ==
  ASSUME Shapes, NEW e \in Nat, HandOut(e)
  PROVE  /\ out' \in Seq(Nat)
         /\ taker' \in [pc : TakerSteps, evt : Nat, tries : Nat]
         /\ taker'.pc = "got"
<1>1. out' \in Seq(Nat)
  BY DEF Shapes, HandOut
<1>2. taker' = [taker EXCEPT !.pc = "got", !.evt = e]
  BY DEF HandOut
<1>3. taker \in [pc : TakerSteps, evt : Nat, tries : Nat] /\ "got" \in TakerSteps
  BY DEF Shapes, TakerSteps
<1> QED BY <1>1, <1>2, <1>3

\* So does taking the first element of the queue.
LEMMA TakeFirstShape ==
  ASSUME Shapes, items # <<>>, TakeFirst
  PROVE  /\ items' \in Seq(Nat)
         /\ out' \in Seq(Nat)
         /\ taker' \in [pc : TakerSteps, evt : Nat, tries : Nat]
         /\ taker'.pc = "got"
<1>1. Head(items) \in Nat /\ Tail(items) \in Seq(Nat)
  BY DEF Shapes
<1> QED BY <1>1, HandOutShape DEF TakeFirst

\* The copier's goroutine keeps the invariant, one step for each of its actions.
LEMMA CopierStep == QInv /\ (Arrive \/ Enqueue) => QInv'
<1> SUFFICES ASSUME Shapes, OneListener, Arrive \/ Enqueue
             PROVE  Shapes' /\ OneListener'
  BY DEF QInv
<1>1. CASE Arrive
  <2>1. Shapes'
    <3>1. arrived + 1 \in Nat /\ "look" \in CopierSteps
      BY DEF Shapes, CopierSteps
    <3>2. CASE arrived + 1 \in Whitelisted
      BY <1>1, <3>1, <3>2 DEF Shapes, Arrive
    <3>3. CASE arrived + 1 \notin Whitelisted
      <4>1. copier' = [copier EXCEPT !.pc = "look", !.evt = arrived + 1]
        BY <1>1, <3>3 DEF Arrive
      <4>2. copier' \in [pc : CopierSteps, evt : Nat, waiter : Nat]
        BY <3>1, <4>1 DEF Shapes
      <4> QED BY <1>1, <3>1, <4>2 DEF Shapes, Arrive
    <3> QED BY <3>2, <3>3
  <2>2. copier'.pc # "offer" /\ Ticket' = Ticket
    BY <1>1 DEF Shapes, Arrive, Ticket
  <2>3. OneListener'
    BY <1>1, <2>2 DEF OneListener, Arrive
  <2> QED BY <2>1, <2>3
<1>2. CASE EnqueueLook
  <2>1. CASE waiters = <<>>
    <3>1. Shapes'
      BY <1>2, <2>1 DEF Shapes, EnqueueLook, CopierFrame, CopierSteps
    <3>2. copier'.pc = "store" /\ Ticket' = Ticket
      BY <1>2, <2>1 DEF Shapes, EnqueueLook, Ticket
    <3>3. OneListener'
      BY <1>2, <2>1, <3>2 DEF OneListener, EnqueueLook, CopierFrame
    <3> QED BY <3>1, <3>3
  <2>2. CASE waiters # <<>>
    <3>1. Shapes'
      <4>1. Head(waiters) \in Nat /\ Tail(waiters) \in Seq(Nat) /\ "offer" \in CopierSteps
        BY <2>2 DEF Shapes, CopierSteps
      <4>2. /\ copier' = [copier EXCEPT !.pc = "offer", !.waiter = Head(waiters)]
            /\ waiters' = Tail(waiters)
        BY <1>2, <2>2 DEF EnqueueLook
      <4>3. copier' \in [pc : CopierSteps, evt : Nat, waiter : Nat]
        BY <4>1, <4>2 DEF Shapes
      <4> QED BY <1>2, <4>1, <4>2, <4>3 DEF Shapes, EnqueueLook, CopierFrame
    <3>2. Ticket' = Ticket /\ copier'.waiter = Head(waiters) /\ waiters' = Tail(waiters)
      BY <1>2, <2>2 DEF Shapes, EnqueueLook, Ticket
    <3>3. bounded => waiters = <<Ticket>> /\ taker.pc = "wait"
      BY <2>2 DEF OneListener
    <3>4. bounded => Head(waiters) = Ticket /\ Tail(waiters) = <<>>
      BY <3>3, TicketNat, OneElement
    <3>5. bounded' = bounded /\ taker' = taker
      BY <1>2 DEF EnqueueLook, CopierFrame
    <3>6. OneListener'
      BY <3>2, <3>3, <3>4, <3>5 DEF OneListener
    <3> QED BY <3>1, <3>6
  <2> QED BY <2>1, <2>2
<1>3. CASE EnqueueHandOver
  <2>1. /\ copier.pc = "offer" /\ HandOut(copier.evt)
        /\ UNCHANGED <<bounded, arrived, items, waiters>>
    BY <1>3 DEF EnqueueHandOver, CopierFrame
  <2>2. copier.evt \in Nat
    BY DEF Shapes
  <2>3. copier' \in [pc : CopierSteps, evt : Nat, waiter : Nat] /\ copier'.pc = "idle"
    BY <1>3 DEF Shapes, EnqueueHandOver, CopierSteps
  <2>4. /\ out' \in Seq(Nat)
        /\ taker' \in [pc : TakerSteps, evt : Nat, tries : Nat]
        /\ taker'.pc = "got"
    BY <2>1, <2>2, HandOutShape
  <2>5. Shapes'
    BY <2>1, <2>3, <2>4 DEF Shapes
  <2>6. bounded => waiters = <<>>
    BY <2>1 DEF OneListener
  <2>7. OneListener'
    BY <2>1, <2>3, <2>4, <2>6 DEF OneListener
  <2> QED BY <2>5, <2>7
<1>4. CASE EnqueueNotReady
  <2>1. Shapes'
    BY <1>4 DEF Shapes, EnqueueNotReady, CopierFrame, CopierSteps
  <2>2. ~bounded'
    BY <1>4 DEF EnqueueNotReady, CopierFrame
  <2> QED BY <2>1, <2>2 DEF OneListener
<1>5. CASE EnqueueStore
  <2>1. /\ copier' = [copier EXCEPT !.pc = "idle"]
        /\ items' \in {items, Append(items, copier.evt)}
        /\ UNCHANGED <<bounded, arrived, waiters, taker, out>>
    BY <1>5 DEF EnqueueStore, CopierFrame
  <2>2. Shapes'
    <3>1. items' \in Seq(Nat)
      <4>1. items \in Seq(Nat) /\ copier.evt \in Nat
        BY DEF Shapes
      <4>2. Append(items, copier.evt) \in Seq(Nat)
        BY <4>1
      <4> QED BY <2>1, <4>1, <4>2
    <3>2. copier' \in [pc : CopierSteps, evt : Nat, waiter : Nat]
      BY <2>1 DEF Shapes, CopierSteps
    <3> QED BY <2>1, <3>1, <3>2 DEF Shapes
  <2>3. copier'.pc # "offer" /\ Ticket' = Ticket
    BY <2>1 DEF Shapes, Ticket
  <2>4. OneListener'
    BY <2>1, <2>3 DEF OneListener
  <2> QED BY <2>2, <2>4
<1> QED BY <1>1, <1>2, <1>3, <1>4, <1>5 DEF Enqueue

\* Nobody is registered, and nobody is in the copier's hand, unless the dequeuing
\* goroutine of a bounded queue waits.
LEMMA NobodyElse ==
  ASSUME OneListener, bounded, taker.pc # "wait"
  PROVE  waiters = <<>> /\ copier.pc # "offer"
  BY DEF OneListener

\* Once the dequeuing goroutine has left its channel, and is not on its way to
\* poll, the other parts of the invariant are untouched.
LEMMA Elsewhere ==
  ASSUME OneListener, taker.pc # "wait", UNCHANGED <<bounded, waiters, copier>>,
         bounded => taker'.pc \notin {"take", "select", "poll", "again"}
  PROVE  OneListener'
  BY NobodyElse DEF OneListener

\* The dequeuing goroutine keeps the invariant, one step for each of its actions.
LEMMA TakerStep == QInv /\ DequeueOrWait => QInv'
<1> SUFFICES ASSUME Shapes, OneListener, DequeueOrWait
             PROVE  Shapes' /\ OneListener'
  BY DEF QInv
<1>0. /\ UNCHANGED <<bounded, arrived, copier>>
      /\ taker.pc # "wait"
  BY DEF DequeueOrWait, DequeueLook, DequeueTake, Register, RetryTimer, RetryPoll,
         RetryAgain, TakerFrame
<1>1. CASE DequeueLook
  <2>1. CASE items # <<>> /\ bounded
    <3>1. TakeFirst /\ waiters' = waiters
      BY <1>1, <2>1 DEF DequeueLook
    <3> QED BY <1>0, <2>1, <3>1, TakeFirstShape, Elsewhere DEF Shapes
  <2>2. CASE items # <<>> /\ ~bounded
    <3>1. TakerGoto("take") /\ UNCHANGED <<waiters, items, out>>
      BY <1>1, <2>2 DEF DequeueLook
    <3> QED BY <1>0, <2>2, <3>1, GotoShape DEF Shapes, TakerSteps, OneListener
  <2>3. CASE items = <<>>
    <3>1. TakerGoto("register") /\ UNCHANGED <<waiters, items, out>>
      BY <1>1, <2>3 DEF DequeueLook
    <3>2. /\ taker' \in [pc : TakerSteps, evt : Nat, tries : Nat]
          /\ taker'.pc = "register"
      BY <3>1, GotoShape DEF TakerSteps
    <3> QED BY <1>0, <3>1, <3>2, Elsewhere DEF Shapes
  <2> QED BY <2>1, <2>2, <2>3
<1>2. CASE Register
  <2>1. CASE Len(waiters) < WaitCapacity
    <3>1. /\ waiters' = Append(waiters, Ticket)
          /\ taker' = [taker EXCEPT !.pc = IF bounded THEN "wait" ELSE "select",
                                    !.tries = 0]
          /\ UNCHANGED <<items, out>>
      BY <1>2, <2>1 DEF Register
    <3>2. Shapes'
      <4>1. waiters' \in Seq(Nat)
        BY <3>1, TicketNat DEF Shapes
      <4>2. "wait" \in TakerSteps /\ "select" \in TakerSteps
        BY DEF TakerSteps
      <4>3. taker' \in [pc : TakerSteps, evt : Nat, tries : Nat]
        BY <3>1, <4>2 DEF Shapes
      <4> QED BY <1>0, <3>1, <4>1, <4>3 DEF Shapes
    <3>3. Ticket' = Ticket
      BY <3>1 DEF Ticket
    <3>4. bounded => taker'.pc = "wait"
      BY <3>1 DEF Shapes
    <3>5. bounded => waiters' = <<Ticket>> /\ copier.pc # "offer"
      BY <1>0, <3>1, NobodyElse, TicketNat, OneElement
    <3>6. OneListener'
      BY <1>0, <3>3, <3>4, <3>5 DEF OneListener
    <3> QED BY <3>2, <3>6
  <2>2. CASE ~(Len(waiters) < WaitCapacity)
    <3>1. TakerGoto("idle") /\ UNCHANGED <<waiters, items, out>>
      BY <1>2, <2>2 DEF Register
    <3>2. /\ taker' \in [pc : TakerSteps, evt : Nat, tries : Nat]
          /\ taker'.pc = "idle"
      BY <3>1, GotoShape DEF TakerSteps
    <3> QED BY <1>0, <3>1, <3>2, Elsewhere DEF Shapes
  <2> QED BY <2>1, <2>2
<1>3. CASE taker.pc \in {"take", "select", "poll", "again"}
  <2>1. ~bounded'
    BY <1>0, <1>3 DEF OneListener
  <2>2. Shapes'
    <3>1. CASE DequeueTake
      <4>1. CASE items = <<>>
        BY <1>0, <3>1, <4>1, GotoShape DEF Shapes, TakerSteps, DequeueTake
      <4>2. CASE items # <<>>
        BY <1>0, <3>1, <4>2, TakeFirstShape DEF Shapes, DequeueTake
      <4> QED BY <4>1, <4>2
    <3>2. CASE RetryTimer
      BY <1>0, <3>2, GotoShape DEF Shapes, TakerSteps, RetryTimer
    <3>3. CASE RetryPoll
      <4>1. CASE items = <<>>
        <5>1. /\ taker' = [taker EXCEPT !.pc = "again", !.tries = @ + 1]
              /\ UNCHANGED <<items, waiters, out>>
          BY <3>3, <4>1 DEF RetryPoll
        <5>2. taker.tries + 1 \in Nat /\ "again" \in TakerSteps
          BY DEF Shapes, TakerSteps
        <5>3. taker' \in [pc : TakerSteps, evt : Nat, tries : Nat]
          BY <5>1, <5>2 DEF Shapes
        <5> QED BY <1>0, <5>1, <5>3 DEF Shapes
      <4>2. CASE items # <<>>
        BY <1>0, <3>3, <4>2, TakeFirstShape DEF Shapes, RetryPoll
      <4> QED BY <4>1, <4>2
    <3>4. CASE RetryAgain
      <4>1. \E s \in TakerSteps : TakerGoto(s) /\ UNCHANGED <<items, waiters, out>>
        BY <3>4 DEF RetryAgain, TakerSteps
      <4> QED BY <1>0, <4>1, GotoShape DEF Shapes
    <3> QED BY <1>3, <3>1, <3>2, <3>3, <3>4 DEF DequeueOrWait, DequeueLook, Register
  <2> QED BY <2>1, <2>2 DEF OneListener
<1> QED BY <1>1, <1>2, <1>3 DEF DequeueOrWait, DequeueTake, RetryTimer, RetryPoll, RetryAgain

\* The dispatch to the directives gives the goroutine back to the queue at most.
LEMMA DispatchStep == QInv /\ (Offer \/ \E d \in Dirs : Listen(d) \/ ManagerReady(d)) => QInv'
<1> SUFFICES ASSUME Shapes, OneListener,
                    Offer \/ \E d \in Dirs : Listen(d) \/ ManagerReady(d)
             PROVE  Shapes' /\ OneListener'
  BY DEF QInv
<1>1. CASE Offer
  <2>1. /\ taker.pc = "got"
        /\ \E s \in {"idle", "got"} : taker' = [taker EXCEPT !.pc = s]
        /\ UNCHANGED <<bounded, arrived, copier, items, waiters, out>>
    BY <1>1 DEF Offer, QueueFrame
  <2>2. Shapes' /\ taker'.pc \in {"idle", "got"}
    BY <2>1 DEF Shapes, TakerSteps
  <2>3. OneListener'
    BY <2>1, <2>2, Elsewhere
  <2> QED BY <2>2, <2>3
<1>2. CASE \E d \in Dirs : Listen(d) \/ ManagerReady(d)
  <2>1. UNCHANGED queueVars
    BY <1>2 DEF Listen, Deliver, TimeOut, Drop, ManagerReady
  <2> QED BY <2>1 DEF queueVars, Shapes, OneListener, Ticket
<1> QED BY <1>1, <1>2

\* The invariant of the two goroutines of the queue.
LEMMA QueueInvariant == Spec => []QInv
<1>1. QInv /\ [Next]_vars => QInv'
  <2> SUFFICES ASSUME QInv, [Next]_vars PROVE QInv'
    OBVIOUS
  <2>1. CASE QueueNext
    BY <2>1, CopierStep, TakerStep DEF QueueNext
  <2>2. CASE Offer \/ \E d \in Dirs : Listen(d) \/ ManagerReady(d)
    BY <2>2, DispatchStep
  <2>3. CASE UNCHANGED vars
    BY <2>3 DEF vars, QInv, Shapes, OneListener, Ticket
  <2> QED BY <2>1, <2>2, <2>3 DEF Next, Quiet
<1> QED BY <1>1, InitQInv, PTL DEF Spec

-----------------------------------------------------------------------------

\* A bounded Enqueue whose select has taken a listener finds it waiting, so
\* `listener <- value' never keeps the copier.
THEOREM CopierNeverKept == Spec => []ListenerWaits
<1>1. QInv => ListenerWaits
  BY DEF QInv, OneListener, ListenerWaits, Receiving
<1> QED BY <1>1, QueueInvariant, PTL

-----------------------------------------------------------------------------
(* Where the events are *)

\* A sequence holds no event twice.
Distinct(s) == \A i, j \in 1..Len(s) : s[i] = s[j] => i = j

\* The events the copier did not skip.
Arrivals == (1..arrived) \ Whitelisted

\* Events in exactly one place, each sequence without repetitions; the copier has
\* the event that arrived last.
Placed ==
  /\ arrived \in 0..NEvents
  /\ items \in Seq(Events) /\ out \in Seq(Events)
  /\ copier.pc # "idle" => copier.evt = arrived
  /\ InHand \cup InQueue \cup discarded \cup HandedOut = Arrivals
  /\ InHand \cap (InQueue \cup discarded \cup HandedOut) = {}
  /\ InQueue \cap (discarded \cup HandedOut) = {}
  /\ discarded \cap HandedOut = {}
  /\ Distinct(items) /\ Distinct(out)

\* The dequeuing goroutine has seen an empty queue and not come back yet.
Waiting == taker.pc \in {"register", "select", "poll", "again", "wait"}

\* The queue is in the order of arrival.  An event that waits in it was overtaken
\* once at most, and not yet while the consumer is waiting.
Ordered ==
  /\ \A i, j \in 1..Len(items) : i < j => items[i] < items[j]
  /\ \A x \in InQueue, i, k \in 1..Len(out) : out[i] > x /\ out[k] > x => i = k
  /\ Waiting => \A x \in InQueue, i \in 1..Len(out) : out[i] < x
  /\ \A j \in 1..Len(out) : \A i, k \in 1..(j - 1) :
       out[i] > out[j] /\ out[k] > out[j] => i = k

\* The ranges of the values, and the counter of the polls.
Ranges ==
  /\ bounded \in BOOLEAN /\ (bounded => Len(items) <= Capacity)
  /\ copier.evt \in Events \cup {NoEvent} /\ copier.waiter \in 0..(NEvents + 1)
  /\ waiters \in Seq(1..(NEvents + 1)) /\ Len(waiters) <= WaitCapacity
  /\ taker.evt \in Events \cup {NoEvent} /\ (taker.pc = "got" => taker.evt \in Events)
  /\ taker.tries <= Retries /\ (taker.pc \in {"select", "poll"} => taker.tries < Retries)

\* An offer begins with the first directive; only what was handed out is lost.
Offering ==
  /\ turn \in Dirs /\ (taker.pc # "got" => turn = 1)
  /\ listener \in [Dirs -> Events \cup {NoEvent}]
  /\ manager \in [Dirs -> {"ready", "busy"}]
  /\ got \in [Dirs -> Seq(Events)]
  /\ lost \in [Dirs -> SUBSET HandedOut]

-----------------------------------------------------------------------------
(* What a step of the queue does with the events *)

Enters ==
  /\ copier.pc = "idle" /\ arrived < NEvents /\ arrived' = arrived + 1
  /\ IF arrived' \in Whitelisted THEN copier' = copier
     ELSE copier'.pc # "idle" /\ copier'.evt = arrived'
  /\ UNCHANGED <<items, discarded, out, taker>>

HandedOver ==
  /\ copier.pc # "idle" /\ copier'.pc = "idle" /\ Waiting
  /\ out' = Append(out, copier.evt) /\ taker'.pc = "got" /\ taker'.evt = copier.evt
  /\ UNCHANGED <<arrived, items, discarded>>

Stored ==
  /\ copier.pc # "idle" /\ copier'.pc = "idle"
  /\ items' = Append(items, copier.evt)
  /\ UNCHANGED <<arrived, discarded, out, taker>>

Refused ==
  /\ copier.pc # "idle" /\ copier'.pc = "idle"
  /\ discarded' = discarded \cup {copier.evt}
  /\ UNCHANGED <<arrived, items, out, taker>>

Taken ==
  /\ items # <<>> /\ taker.pc # "got"
  /\ out' = Append(out, Head(items)) /\ taker'.pc = "got" /\ taker'.evt = Head(items)
  /\ items' = Tail(items)
  /\ UNCHANGED <<arrived, copier, discarded>>

Stands ==
  /\ copier'.evt = copier.evt /\ (copier'.pc = "idle" <=> copier.pc = "idle")
  /\ UNCHANGED <<arrived, items, discarded, out>>
  /\ \/ taker' = taker
     \/ taker.pc # "got" /\ taker'.pc # "got" /\ (Waiting' => Waiting \/ items = <<>>)

Moves == Enters \/ HandedOver \/ Stored \/ Refused \/ Taken \/ Stands

\* Taking the first element.
LEMMA TakenFirst ==
  ASSUME Shapes, TakeFirst, items # <<>>, taker.pc # "got",
         UNCHANGED <<arrived, copier, discarded>>
  PROVE  Taken
  BY DEF Shapes, TakeFirst, HandOut, Taken

\* Going to a step of the search for an element.
LEMMA Goes ==
  ASSUME Shapes, NEW s \in TakerSteps \ {"got"}, TakerGoto(s), taker.pc # "got",
         UNCHANGED <<arrived, copier, discarded, items, out>>,
         s # "register" /\ s # "idle" /\ s # "take" => Waiting, s = "register" => items = <<>>
  PROVE  Stands
  BY DEF Shapes, TakerGoto, Stands, Waiting

\* Every step of the queue is one of these.
LEMMA QueueMoves == QInv /\ QueueNext => Moves
<1> SUFFICES ASSUME Shapes, OneListener, QueueNext PROVE Moves
  BY DEF QInv
<1>1. CASE Arrive
  BY <1>1 DEF Arrive, Shapes, Moves, Enters
<1>2. CASE EnqueueLook
  BY <1>2 DEF EnqueueLook, CopierFrame, Shapes, Moves, Stands
<1>3. CASE EnqueueHandOver
  BY <1>3 DEF EnqueueHandOver, HandOut, Receiving, CopierFrame, Shapes, Moves, HandedOver, Waiting
<1>4. CASE EnqueueNotReady
  BY <1>4 DEF EnqueueNotReady, CopierFrame, Shapes, Moves, Stands
<1>5. CASE EnqueueStore
  BY <1>5 DEF EnqueueStore, CopierFrame, Shapes, Moves, Stored, Refused
<1>6. CASE DequeueLook
  <2>1. CASE items = <<>>
    BY <1>6, <2>1, Goes DEF DequeueLook, TakerFrame, Moves, TakerSteps
  <2>2. CASE items # <<>> /\ bounded
    BY <1>6, <2>2, TakenFirst DEF DequeueLook, TakerFrame, Moves
  <2>3. CASE items # <<>> /\ ~bounded
    BY <1>6, <2>3, Goes DEF DequeueLook, TakerFrame, Moves, TakerSteps
  <2> QED BY <2>1, <2>2, <2>3
<1>7. CASE DequeueTake
  <2>1. CASE items = <<>>
    BY <1>7, <2>1, Goes DEF DequeueTake, TakerFrame, Moves, TakerSteps
  <2>2. CASE items # <<>>
    BY <1>7, <2>2, TakenFirst DEF DequeueTake, TakerFrame, Moves
  <2> QED BY <2>1, <2>2
<1>8. CASE Register
  <2>1. CASE Len(waiters) < WaitCapacity
    BY <1>8, <2>1 DEF Register, TakerFrame, Shapes, Moves, Stands, Waiting
  <2>2. CASE ~(Len(waiters) < WaitCapacity)
    BY <1>8, <2>2, Goes DEF Register, TakerFrame, Moves, TakerSteps
  <2> QED BY <2>1, <2>2
<1>9. CASE RetryTimer
  BY <1>9, Goes DEF RetryTimer, TakerFrame, Moves, TakerSteps, Waiting
<1>10. CASE RetryPoll
  <2>1. CASE items = <<>>
    BY <1>10, <2>1 DEF RetryPoll, TakerFrame, Shapes, Moves, Stands, Waiting
  <2>2. CASE items # <<>>
    BY <1>10, <2>2, TakenFirst DEF RetryPoll, TakerFrame, Moves
  <2> QED BY <2>1, <2>2
<1>11. CASE RetryAgain
  BY <1>11, Goes DEF RetryAgain, TakerFrame, Moves, TakerSteps, Waiting
<1> QED
  BY <1>1, <1>2, <1>3, <1>4, <1>5, <1>6, <1>7, <1>8, <1>9, <1>10, <1>11
     DEF QueueNext, Enqueue, DequeueOrWait

-----------------------------------------------------------------------------
(* Sequences of events *)

\* An event is appended.
LEMMA Appended ==
  ASSUME NEW s \in Seq(Events), NEW e \in Events
  PROVE  /\ Append(s, e) \in Seq(Events) /\ Len(s) \in Nat /\ Len(Append(s, e)) = Len(s) + 1
         /\ \A i \in 1..Len(s) : Append(s, e)[i] = s[i]
         /\ Append(s, e)[Len(s) + 1] = e
         /\ Elements(Append(s, e)) = Elements(s) \cup {e}
         /\ Distinct(s) /\ e \notin Elements(s) => Distinct(Append(s, e))
<1>1. PICK t : t = Append(s, e)
  OBVIOUS
<1>2. /\ t \in Seq(Events) /\ Len(t) = Len(s) + 1 /\ Len(s) \in Nat
      /\ \A i \in 1..Len(s) : t[i] = s[i]
      /\ t[Len(s) + 1] = e
  BY <1>1, AppendProperties, LenProperties
<1>3. Elements(t) = Elements(s) \cup {e}
  BY <1>2 DEF Elements
<1>4. ASSUME Distinct(s), e \notin Elements(s) PROVE Distinct(t)
  BY <1>2, <1>4 DEF Distinct, Elements
<1> QED BY <1>1, <1>2, <1>3, <1>4

\* The first event is removed.
LEMMA Removed ==
  ASSUME NEW s \in Seq(Events), s # <<>>
  PROVE  /\ Head(s) \in Events /\ Tail(s) \in Seq(Events)
         /\ Len(s) \in Nat /\ Len(s) >= 1 /\ Len(Tail(s)) = Len(s) - 1
         /\ Head(s) = s[1] /\ \A i \in 1..Len(Tail(s)) : Tail(s)[i] = s[i + 1]
         /\ Distinct(s) => /\ Distinct(Tail(s))
                           /\ Elements(Tail(s)) = Elements(s) \ {Head(s)}
         /\ Head(s) \in Elements(s)
<1>1. PICK t, h : t = Tail(s) /\ h = Head(s)
  OBVIOUS
<1>2. /\ h \in Events /\ t \in Seq(Events)
      /\ Len(s) \in Nat /\ Len(s) >= 1 /\ Len(t) = Len(s) - 1
      /\ \A i \in 1..Len(t) : t[i] = s[i + 1]
      /\ h = s[1]
  BY <1>1, HeadTailProperties, LenProperties, EmptySeq
<1>3. h \in Elements(s)
  BY <1>2 DEF Elements
<1>4. ASSUME Distinct(s) PROVE Distinct(t) /\ Elements(t) = Elements(s) \ {h}
  <2>1. Distinct(t) /\ Elements(t) \subseteq Elements(s) \ {h}
    BY <1>2, <1>4 DEF Elements, Distinct
  <2>2. ASSUME NEW x \in Elements(s) \ {h} PROVE x \in Elements(t)
    <3>1. PICK i \in 1..Len(s) : x = s[i]
      BY <2>2 DEF Elements
    <3>2. i - 1 \in 1..Len(t) /\ (i - 1) + 1 = i
      BY <1>2, <2>2, <3>1
    <3>3. t[i - 1] = x
      BY <1>2, <3>1, <3>2
    <3> QED BY <3>2, <3>3 DEF Elements
  <2> QED BY <2>1, <2>2
<1> QED BY <1>1, <1>2, <1>3, <1>4

\* A sequence without repetitions has as many elements as it is long.
LEMMA Length ==
  ASSUME NEW s \in Seq(Events), Distinct(s)
  PROVE  IsFiniteSet(Elements(s)) /\ Cardinality(Elements(s)) = Len(s)
<1>1. Len(s) \in Nat /\ DOMAIN s = 1..Len(s) /\ s \in [1..Len(s) -> Events]
  BY LenProperties
<1>2. s \in Bijection(1..Len(s), Elements(s))
  BY <1>1 DEF Distinct, Elements, Bijection, Injection, IsInjective, Surjection
<1>3. IsFiniteSet(1..Len(s)) /\ Cardinality(1..Len(s)) = Len(s)
  BY <1>1, FS_Interval
<1>4. ExistsBijection(1..Len(s), Elements(s))
  BY <1>2 DEF ExistsBijection
<1> QED BY <1>3, <1>4, FS_Bijection

\* Finite sets without a common element.
LEMMA DisjointUnion ==
  ASSUME NEW S, NEW T, IsFiniteSet(S), IsFiniteSet(T), S \cap T = {}
  PROVE  IsFiniteSet(S \cup T) /\ Cardinality(S \cup T) = Cardinality(S) + Cardinality(T)
<1>1. /\ IsFiniteSet(S \cup T)
      /\ Cardinality(S \cup T) = Cardinality(S) + Cardinality(T) - Cardinality(S \cap T)
  BY FS_Union
<1>2. Cardinality(S \cap T) = 0 /\ Cardinality(S) \in Nat /\ Cardinality(T) \in Nat
  BY FS_EmptySet, FS_CardinalityType
<1> QED BY <1>1, <1>2

\* It holds no more than all events.
LEMMA AtMostAll ==
  ASSUME NEW s \in Seq(Events), Distinct(s)
  PROVE  Len(s) <= NEvents
<1>1. IsFiniteSet(1..NEvents) /\ Cardinality(1..NEvents) = NEvents
  BY QueueAssumption, FS_Interval
<1>2. Elements(s) \in SUBSET (1..NEvents)
  BY ElementOfSeq DEF Elements, Events
<1>3. Cardinality(Elements(s)) <= Cardinality(1..NEvents)
  BY <1>1, <1>2, FS_Subset
<1> QED BY <1>1, <1>3, Length

-----------------------------------------------------------------------------
(* Where the events are: every step keeps Placed *)

LEMMA InitPlaced == Init => Placed
<1> SUFFICES ASSUME Init PROVE Placed
  OBVIOUS
<1>1. /\ arrived = 0 /\ copier.pc = "idle" /\ items = <<>> /\ out = <<>> /\ discarded = {}
  BY DEF Init, QueueInit
<1>2. Elements(<<>>) = {} /\ Distinct(<<>>)
  BY DEF Elements, Distinct
<1>3. Arrivals = {}
  BY <1>1 DEF Arrivals
<1> QED
  BY <1>1, <1>2, <1>3, QueueAssumption DEF Placed, InHand, InQueue, HandedOut

\* The events at hand are known.
LEMMA InCopiersHand ==
  ASSUME Placed, copier.pc # "idle"
  PROVE  /\ InHand = {copier.evt} /\ copier.evt = arrived /\ copier.evt \in Events
         /\ copier.evt \notin InQueue /\ copier.evt \notin HandedOut
         /\ copier.evt \notin discarded
<1>1. InHand = {copier.evt} /\ copier.evt = arrived
  BY DEF Placed, InHand
<1>2. copier.evt \in Arrivals
  BY <1>1 DEF Placed
<1>3. copier.evt \in Events
  BY <1>2, QueueAssumption DEF Placed, Arrivals, Events
<1> QED BY <1>1, <1>3 DEF Placed

LEMMA PlacedStep == Placed /\ Moves => Placed'
<1> SUFFICES ASSUME Placed, Moves PROVE Placed'
  OBVIOUS
<1>0. /\ items \in Seq(Events) /\ out \in Seq(Events) /\ Distinct(items) /\ Distinct(out)
      /\ arrived \in 0..NEvents /\ NEvents \in Nat
  BY QueueAssumption DEF Placed
<1>1. CASE Enters
  <2>1. /\ UNCHANGED <<items, discarded, out>> /\ copier.pc = "idle"
        /\ arrived' = arrived + 1 /\ arrived' \in 0..NEvents
    BY <1>0, <1>1 DEF Enters
  <2>2. CASE arrived' \in Whitelisted
    <3>1. copier' = copier /\ Arrivals' = Arrivals
      BY <1>0, <1>1, <2>1, <2>2 DEF Enters, Arrivals
    <3> QED BY <2>1, <3>1 DEF Placed, InHand, InQueue, HandedOut
  <2>3. CASE arrived' \notin Whitelisted
    <3>1. /\ Arrivals' = Arrivals \cup {arrived'} /\ arrived' \notin Arrivals
          /\ copier'.pc # "idle" /\ copier'.evt = arrived'
      BY <1>0, <1>1, <2>1, <2>3 DEF Enters, Arrivals
    <3>2. /\ InHand = {} /\ InHand' = {arrived'} /\ InQueue' = InQueue
          /\ HandedOut' = HandedOut
      BY <2>1, <3>1 DEF InHand, InQueue, HandedOut
    <3> QED BY <2>1, <3>1, <3>2 DEF Placed
  <2> QED BY <2>2, <2>3
<1>2. CASE HandedOver
  <2>1. /\ UNCHANGED <<arrived, items, discarded>> /\ copier'.pc = "idle"
        /\ copier.pc # "idle" /\ out' = Append(out, copier.evt)
    BY <1>2 DEF HandedOver
  <2>2. /\ out' \in Seq(Events) /\ HandedOut' = HandedOut \cup {copier.evt} /\ Distinct(out')
    BY <1>0, <2>1, InCopiersHand, Appended DEF HandedOut
  <2>3. InHand' = {} /\ InQueue' = InQueue /\ Arrivals' = Arrivals
    BY <2>1 DEF InHand, InQueue, Arrivals
  <2> QED BY <2>1, <2>2, <2>3, InCopiersHand DEF Placed
<1>3. CASE Stored
  <2>1. /\ UNCHANGED <<arrived, out, discarded>> /\ copier'.pc = "idle"
        /\ copier.pc # "idle" /\ items' = Append(items, copier.evt)
    BY <1>3 DEF Stored
  <2>2. /\ items' \in Seq(Events) /\ InQueue' = InQueue \cup {copier.evt} /\ Distinct(items')
    BY <1>0, <2>1, InCopiersHand, Appended DEF InQueue
  <2>3. InHand' = {} /\ HandedOut' = HandedOut /\ Arrivals' = Arrivals
    BY <2>1 DEF InHand, HandedOut, Arrivals
  <2> QED BY <2>1, <2>2, <2>3, InCopiersHand DEF Placed
<1>4. CASE Refused
  <2>1. /\ UNCHANGED <<arrived, out, items>> /\ copier'.pc = "idle"
        /\ copier.pc # "idle" /\ discarded' = discarded \cup {copier.evt}
    BY <1>4 DEF Refused
  <2>2. /\ InHand' = {} /\ InQueue' = InQueue /\ HandedOut' = HandedOut
        /\ Arrivals' = Arrivals
    BY <2>1 DEF InHand, InQueue, HandedOut, Arrivals
  <2> QED BY <2>1, <2>2, InCopiersHand DEF Placed
<1>5. CASE Taken
  <2>1. /\ UNCHANGED <<arrived, copier, discarded>> /\ items # <<>>
        /\ out' = Append(out, Head(items)) /\ items' = Tail(items)
    BY <1>5 DEF Taken
  <2>2. PICK e : e = Head(items)
    OBVIOUS
  <2>3. /\ e \in Events /\ e \in InQueue /\ items' \in Seq(Events) /\ Distinct(items')
        /\ InQueue' = InQueue \ {e}
    BY <1>0, <2>1, <2>2, Removed DEF InQueue
  <2>4. e \notin HandedOut /\ e \notin InHand /\ e \notin discarded
    BY <2>3 DEF Placed
  <2>5. /\ out' \in Seq(Events) /\ HandedOut' = HandedOut \cup {e} /\ Distinct(out')
    BY <1>0, <2>1, <2>2, <2>3, <2>4, Appended DEF HandedOut
  <2>6. InHand' = InHand /\ Arrivals' = Arrivals
    BY <2>1 DEF InHand, Arrivals
  <2> QED BY <2>1, <2>3, <2>4, <2>5, <2>6 DEF Placed
<1>6. CASE Stands
  <2>1. /\ UNCHANGED <<arrived, items, discarded, out>> /\ InHand' = InHand
        /\ InQueue' = InQueue /\ HandedOut' = HandedOut /\ Arrivals' = Arrivals
    BY <1>6 DEF Stands, InHand, InQueue, HandedOut, Arrivals
  <2> QED BY <1>6, <2>1 DEF Placed, Stands
<1> QED BY <1>1, <1>2, <1>3, <1>4, <1>5, <1>6 DEF Moves

\* The dispatch and the managers leave the events of the queue where they are.
LEMMA DispatchMoves ==
  QInv /\ (Offer \/ (\E d \in Dirs : Listen(d) \/ ManagerReady(d)) \/ UNCHANGED vars)
    => /\ UNCHANGED <<bounded, arrived, copier, items, waiters, discarded, out>>
       /\ Waiting' => Waiting
<1>1. Offer => UNCHANGED <<bounded, arrived, copier, items, waiters, discarded, out>>
  BY DEF Offer, QueueFrame
<1>2. (\E d \in Dirs : Listen(d) \/ ManagerReady(d)) \/ UNCHANGED vars => UNCHANGED queueVars
  BY DEF Listen, Deliver, TimeOut, Drop, ManagerReady, vars, queueVars
<1>3. QInv /\ Offer => ~Waiting'
  BY DEF QInv, Shapes, Offer, Waiting
<1> QED BY <1>1, <1>2, <1>3 DEF queueVars, Waiting

LEMMA PlacedInvariant == Spec => []Placed
<1>1. QInv /\ Placed /\ [Next]_vars => Placed'
  <2> SUFFICES ASSUME QInv, Placed, [Next]_vars PROVE Placed'
    OBVIOUS
  <2>1. CASE QueueNext
    BY <2>1, QueueMoves, PlacedStep
  <2>2. CASE Offer \/ (\E d \in Dirs : Listen(d) \/ ManagerReady(d)) \/ UNCHANGED vars
    BY <2>2, DispatchMoves DEF Placed, InHand, InQueue, HandedOut, Arrivals
  <2> QED BY <2>1, <2>2 DEF Next, Quiet
<1> QED BY <1>1, InitPlaced, QueueInvariant, PTL DEF Spec

\* Every event that arrived, and was not whitelisted, is with the copier, in the
\* queue, discarded or handed out, and in one of them once, whatever listeners were
\* left behind, in a queue of either kind and of any capacity.
THEOREM NothingLost == Spec => []Accounted
<1>1. Placed => Accounted
  <2> SUFFICES ASSUME Placed PROVE Accounted
    OBVIOUS
  <2>1. /\ IsFiniteSet(InQueue) /\ Cardinality(InQueue) = Len(items)
        /\ IsFiniteSet(HandedOut) /\ Cardinality(HandedOut) = Len(out)
    BY Length DEF Placed, InQueue, HandedOut
  <2>2. IsFiniteSet(InHand)
    BY FS_Singleton, FS_EmptySet DEF InHand
  <2>3. IsFiniteSet(discarded)
    <3>1. IsFiniteSet(1..arrived)
      BY FS_Interval DEF Placed
    <3>2. discarded \in SUBSET (1..arrived)
      BY DEF Placed, Arrivals
    <3> QED BY <3>1, <3>2, FS_Subset
  <2>4. /\ IsFiniteSet(InHand \cup InQueue)
        /\ Cardinality(InHand \cup InQueue) = Cardinality(InHand) + Cardinality(InQueue)
    <3>1. InHand \cap InQueue = {}
      BY DEF Placed
    <3> QED BY <2>1, <2>2, <3>1, DisjointUnion
  <2>5. /\ IsFiniteSet((InHand \cup InQueue) \cup discarded)
        /\ Cardinality((InHand \cup InQueue) \cup discarded)
             = Cardinality(InHand \cup InQueue) + Cardinality(discarded)
    <3>1. (InHand \cup InQueue) \cap discarded = {}
      BY DEF Placed
    <3> QED BY <2>3, <2>4, <3>1, DisjointUnion
  <2>6. Cardinality(((InHand \cup InQueue) \cup discarded) \cup HandedOut)
          = Cardinality((InHand \cup InQueue) \cup discarded) + Cardinality(HandedOut)
    <3>1. ((InHand \cup InQueue) \cup discarded) \cap HandedOut = {}
      BY DEF Placed
    <3> QED BY <2>1, <2>5, <3>1, DisjointUnion
  <2>7. ((InHand \cup InQueue) \cup discarded) \cup HandedOut = (1..arrived) \ Whitelisted
    BY DEF Placed, Arrivals
  <2>8. /\ Cardinality(InHand) \in Nat /\ Cardinality(discarded) \in Nat
        /\ Len(items) \in Nat /\ Len(out) \in Nat
    BY <2>1, <2>2, <2>3, FS_CardinalityType
  <2> QED BY <2>1, <2>4, <2>5, <2>6, <2>7, <2>8 DEF Accounted
<1> QED BY <1>1, PlacedInvariant, PTL

-----------------------------------------------------------------------------
(* The order of the queue: every step keeps Ordered *)

LEMMA InitOrdered == Init => Ordered
  BY DEF Init, QueueInit, Ordered, InQueue, Elements

\* Elements of the queue, and what was handed out, came before the last event.
LEMMA Earlier ==
  ASSUME Placed, copier.pc # "idle"
  PROVE  /\ \A x \in InQueue : x < copier.evt
         /\ \A i \in 1..Len(out) : out[i] < copier.evt
<1>1. InQueue \cup HandedOut \subseteq 1..arrived /\ arrived \in Nat
  BY DEF Placed, Arrivals
<1>2. \A x \in InQueue \cup HandedOut : x < copier.evt
  BY <1>1, InCopiersHand
<1>3. \A i \in 1..Len(out) : out[i] \in HandedOut
  BY DEF HandedOut, Elements
<1> QED BY <1>2, <1>3

LEMMA OrderedStep == Placed /\ Ordered /\ Moves => Ordered'
<1> SUFFICES ASSUME Placed, Ordered, Moves PROVE Ordered'
  OBVIOUS
<1>0. items \in Seq(Events) /\ out \in Seq(Events) /\ Distinct(items) /\ Events \subseteq Nat
  BY DEF Placed, Events
<1>1. CASE Enters \/ Refused
  BY <1>1 DEF Enters, Refused, Ordered, InQueue, Waiting
<1>2. CASE HandedOver
  <2>1. PICK e, o : e = copier.evt /\ o = Append(out, e)
    OBVIOUS
  <2>2. /\ items' = items /\ out' = o /\ ~Waiting' /\ Waiting /\ copier.pc # "idle"
    BY <1>2, <2>1 DEF HandedOver, Waiting
  <2>3. /\ Len(o) = Len(out) + 1 /\ Len(out) \in Nat /\ o[Len(out) + 1] = e
        /\ \A i \in 1..Len(out) : o[i] = out[i]
    BY <1>0, <2>1, <2>2, InCopiersHand, Appended
  <2>4. \A i \in 1..Len(out) : out[i] < e
    BY <2>1, <2>2, Earlier
  <2>5. \A x \in InQueue, i \in 1..Len(out) : out[i] < x
    BY <2>2 DEF Ordered
  <2>6. \A x \in InQueue : x \in Nat
    BY <1>0, ElementOfSeq DEF InQueue, Elements
  <2>7. \A i \in 1..Len(out) : out[i] \in Nat
    BY <1>0, ElementOfSeq
  <2>8. \A x \in InQueue, i, k \in 1..Len(o) : o[i] > x /\ o[k] > x => i = k
    <3> SUFFICES ASSUME NEW x \in InQueue, NEW i \in 1..Len(o), o[i] > x
                 PROVE  i = Len(out) + 1
      OBVIOUS
    <3> QED BY <2>3, <2>5, <2>6, <2>7
  <2>9. \A j \in 1..Len(o) : \A i, k \in 1..(j - 1) : o[i] > o[j] /\ o[k] > o[j] => i = k
    <3> SUFFICES ASSUME NEW j \in 1..Len(o), NEW i \in 1..(j - 1), NEW k \in 1..(j - 1),
                        o[i] > o[j], o[k] > o[j]
                 PROVE  i = k
      OBVIOUS
    <3>1. CASE j = Len(out) + 1
      <4>1. i \in 1..Len(out) /\ o[j] = e
        BY <2>3, <3>1
      <4>2. o[i] = out[i] /\ out[i] < e /\ out[i] \in Nat
        BY <2>3, <2>4, <2>7, <4>1
      <4>3. e \in Nat
        BY <1>0, <2>1, <2>2, InCopiersHand
      <4> QED BY <4>1, <4>2, <4>3
    <3>2. CASE j \in 1..Len(out)
      <4>1. /\ i \in 1..Len(out) /\ k \in 1..Len(out)
            /\ o[i] = out[i] /\ o[j] = out[j] /\ o[k] = out[k]
        BY <2>3, <3>2
      <4> QED BY <3>2, <4>1 DEF Ordered
    <3> QED BY <2>3, <3>1, <3>2
  <2>10. InQueue' = InQueue
    BY <2>2 DEF InQueue
  <2> QED BY <2>2, <2>8, <2>9, <2>10 DEF Ordered
<1>3. CASE Stored
  <2>1. PICK e, q : e = copier.evt /\ q = Append(items, e)
    OBVIOUS
  <2>2. /\ items' = q /\ out' = out /\ taker' = taker /\ copier.pc # "idle"
    BY <1>3, <2>1 DEF Stored
  <2>3. /\ Len(q) = Len(items) + 1 /\ Len(items) \in Nat /\ q[Len(items) + 1] = e
        /\ \A i \in 1..Len(items) : q[i] = items[i]
        /\ Elements(q) = InQueue \cup {e} /\ e \in Nat
    BY <1>0, <2>1, <2>2, InCopiersHand, Appended DEF InQueue
  <2>4. /\ \A i \in 1..Len(out) : out[i] < e /\ out[i] \in Nat
        /\ \A i \in 1..Len(items) : items[i] < e
    <3>1. \A x \in InQueue : x < e
      BY <2>1, <2>2, Earlier
    <3>2. \A i \in 1..Len(items) : items[i] \in InQueue
      BY DEF InQueue, Elements
    <3> QED BY <1>0, <2>1, <2>2, <3>1, <3>2, Earlier, ElementOfSeq
  <2>5. \A i, j \in 1..Len(q) : i < j => q[i] < q[j]
    <3> SUFFICES ASSUME NEW i \in 1..Len(q), NEW j \in 1..Len(q), i < j
                 PROVE  q[i] < q[j]
      OBVIOUS
    <3>1. i \in 1..Len(items) /\ q[i] = items[i]
      BY <2>3
    <3>2. CASE j = Len(items) + 1
      BY <2>3, <2>4, <3>1, <3>2
    <3>3. CASE j \in 1..Len(items)
      BY <2>3, <3>1, <3>3 DEF Ordered
    <3> QED BY <2>3, <3>2, <3>3
  <2>6. \A x \in Elements(q), i, k \in 1..Len(out) : out[i] > x /\ out[k] > x => i = k
    <3> SUFFICES ASSUME NEW x \in Elements(q), NEW i \in 1..Len(out), NEW k \in 1..Len(out),
                        out[i] > x, out[k] > x
                 PROVE  i = k
      OBVIOUS
    <3>1. x # e
      BY <2>3, <2>4
    <3>2. x \in InQueue
      BY <2>3, <3>1
    <3> QED BY <3>2 DEF Ordered
  <2>7. Waiting => \A x \in Elements(q), i \in 1..Len(out) : out[i] < x
    BY <2>3, <2>4 DEF Ordered
  <2>8. InQueue' = Elements(q) /\ Waiting' = Waiting
    BY <2>2 DEF InQueue, Waiting
  <2> QED BY <2>2, <2>5, <2>6, <2>7, <2>8 DEF Ordered
<1>4. CASE Taken
  <2>1. PICK e, q, o : e = Head(items) /\ q = Tail(items) /\ o = Append(out, e)
    OBVIOUS
  <2>2. items' = q /\ out' = o /\ items # <<>> /\ ~Waiting'
    BY <1>4, <2>1 DEF Taken, Waiting
  <2>3. /\ e \in Events /\ e \in InQueue /\ e = items[1]
        /\ Len(items) \in Nat /\ Len(items) >= 1 /\ Len(q) = Len(items) - 1
        /\ \A i \in 1..Len(q) : q[i] = items[i + 1]
        /\ Elements(q) = InQueue \ {e}
    BY <1>0, <2>1, <2>2, Removed DEF InQueue
  <2>4. /\ Len(o) = Len(out) + 1 /\ Len(out) \in Nat /\ o[Len(out) + 1] = e
        /\ \A i \in 1..Len(out) : o[i] = out[i]
    BY <1>0, <2>1, <2>3, Appended
  <2>5. \A i, j \in 1..Len(q) : i < j => q[i] < q[j]
    <3> SUFFICES ASSUME NEW i \in 1..Len(q), NEW j \in 1..Len(q), i < j PROVE q[i] < q[j]
      OBVIOUS
    <3>1. /\ i + 1 \in 1..Len(items) /\ j + 1 \in 1..Len(items) /\ i + 1 < j + 1
          /\ q[i] = items[i + 1] /\ q[j] = items[j + 1]
      BY <2>3
    <3>2. items[i + 1] < items[j + 1]
      BY <3>1 DEF Ordered
    <3> QED BY <3>1, <3>2
  <2>6. \A x \in Elements(q) : e < x /\ x \in Nat
    <3> SUFFICES ASSUME NEW x \in Elements(q) PROVE e < x /\ x \in Nat
      OBVIOUS
    <3>1. PICK i \in 1..Len(q) : x = q[i]
      BY DEF Elements
    <3>2. i + 1 \in 1..Len(items) /\ 1 \in 1..Len(items) /\ 1 < i + 1 /\ x = items[i + 1]
      BY <2>3, <3>1
    <3>3. items[1] < items[i + 1]
      BY <3>2 DEF Ordered
    <3> QED BY <1>0, <2>3, <3>2, <3>3, ElementOfSeq
  <2>7. \A x \in Elements(q), i, k \in 1..Len(o) : o[i] > x /\ o[k] > x => i = k
    <3> SUFFICES ASSUME NEW x \in Elements(q), NEW i \in 1..Len(o), NEW k \in 1..Len(o),
                        o[i] > x, o[k] > x
                 PROVE  i = k
      OBVIOUS
    <3>1. x \in InQueue /\ e < x /\ x \in Nat /\ e \in Nat
      BY <1>0, <2>3, <2>6
    <3>2. i # Len(out) + 1 /\ k # Len(out) + 1
      BY <2>4, <3>1
    <3>3. /\ i \in 1..Len(out) /\ k \in 1..Len(out) /\ o[i] = out[i] /\ o[k] = out[k]
      BY <2>4, <3>2
    <3> QED BY <3>1, <3>3 DEF Ordered
  <2>8. \A j \in 1..Len(o) : \A i, k \in 1..(j - 1) : o[i] > o[j] /\ o[k] > o[j] => i = k
    <3> SUFFICES ASSUME NEW j \in 1..Len(o), NEW i \in 1..(j - 1), NEW k \in 1..(j - 1),
                        o[i] > o[j], o[k] > o[j]
                 PROVE  i = k
      OBVIOUS
    <3>1. i \in 1..Len(out) /\ k \in 1..Len(out) /\ o[i] = out[i] /\ o[k] = out[k]
      BY <2>4
    <3>2. CASE j = Len(out) + 1
      <4>1. o[j] = e
        BY <2>4, <3>2
      <4> QED BY <2>3, <3>1, <4>1 DEF Ordered
    <3>3. CASE j \in 1..Len(out)
      <4>1. o[j] = out[j]
        BY <2>4, <3>3
      <4> QED BY <3>1, <3>3, <4>1 DEF Ordered
    <3> QED BY <2>4, <3>2, <3>3
  <2>9. InQueue' = Elements(q)
    BY <2>2 DEF InQueue
  <2> QED BY <2>2, <2>5, <2>7, <2>8, <2>9 DEF Ordered
<1>5. CASE Stands
  <2>1. items' = items /\ out' = out /\ InQueue' = InQueue
    BY <1>5 DEF Stands, InQueue
  <2>2. items = <<>> => InQueue = {}
    BY DEF InQueue, Elements
  <2>3. Waiting' => Waiting \/ items = <<>>
    BY <1>5 DEF Stands, Waiting
  <2> QED BY <2>1, <2>2, <2>3 DEF Ordered
<1> QED BY <1>1, <1>2, <1>3, <1>4, <1>5 DEF Moves

LEMMA OrderedInvariant == Spec => []Ordered
<1>1. QInv /\ Placed /\ Ordered /\ [Next]_vars => Ordered'
  <2> SUFFICES ASSUME QInv, Placed, Ordered, [Next]_vars PROVE Ordered'
    OBVIOUS
  <2>1. CASE QueueNext
    BY <2>1, QueueMoves, OrderedStep
  <2>2. CASE Offer \/ (\E d \in Dirs : Listen(d) \/ ManagerReady(d)) \/ UNCHANGED vars
    BY <2>2, DispatchMoves DEF Ordered, InQueue
  <2> QED BY <2>1, <2>2 DEF Next, Quiet
<1> QED BY <1>1, InitOrdered, QueueInvariant, PlacedInvariant, PTL DEF Spec

\* An event is handed out after at most one that arrived later: while the consumer
\* waits nothing that waits in the queue has been overtaken, and it comes back to
\* the queue before it waits again.
THEOREM OvertakenCorrect == Spec => []OvertakenOnce
<1>1. Ordered => OvertakenOnce
  <2> SUFFICES ASSUME Ordered, NEW j \in 1..Len(out)
               PROVE  Cardinality({i \in 1..(j - 1) : out[i] > out[j]}) <= 1
    BY DEF OvertakenOnce
  <2>1. PICK S : S = {i \in 1..(j - 1) : out[i] > out[j]}
    OBVIOUS
  <2>2. \A i, k \in S : i = k
    BY <2>1 DEF Ordered
  <2>3. CASE S = {}
    <3>1. Cardinality(S) = 0
      BY <2>3, FS_EmptySet
    <3> QED BY <2>1, <3>1
  <2>4. CASE S # {}
    <3>1. PICK i : i \in S
      BY <2>4
    <3>2. S = {i}
      BY <2>2, <3>1
    <3>3. Cardinality(S) = 1
      BY <3>2, FS_Singleton
    <3> QED BY <2>1, <3>3
  <2> QED BY <2>3, <2>4
<1> QED BY <1>1, OrderedInvariant, PTL

-----------------------------------------------------------------------------
(* The ranges of the values *)

LEMMA InitRanges == Init => Ranges
<1>1. <<>> \in Seq(1..(NEvents + 1)) /\ Len(<<>>) = 0
  OBVIOUS
<1> QED BY <1>1, QueueAssumption DEF Init, QueueInit, Ranges

\* The part of Ranges about the dequeuing goroutine, for its moves.
LEMMA RangesGoto ==
  ASSUME Shapes, Ranges, NEW s \in TakerSteps \ {"got"}, TakerGoto(s),
         s \in {"select", "poll"} => taker.tries < Retries
  PROVE  /\ taker'.pc = s /\ taker'.evt \in Events \cup {NoEvent} /\ taker'.tries <= Retries
         /\ taker'.pc # "got"
         /\ taker'.pc \in {"select", "poll"} => taker'.tries < Retries
  BY DEF Shapes, Ranges, TakerGoto

\* Handing an event out.
LEMMA RangesHandOut ==
  ASSUME Shapes, Ranges, NEW e \in Events, HandOut(e)
  PROVE  /\ taker'.pc = "got" /\ taker'.evt \in Events /\ taker'.tries <= Retries
         /\ taker'.pc \notin {"select", "poll"}
  BY DEF Shapes, Ranges, HandOut

\* Taking the first element leaves room.
LEMMA RangesTakeFirst ==
  ASSUME Shapes, Placed, Ranges, items # <<>>, TakeFirst
  PROVE  /\ taker'.pc = "got" /\ taker'.evt \in Events /\ taker'.tries <= Retries
         /\ taker'.pc \notin {"select", "poll"}
         /\ bounded => Len(items') <= Capacity
<1>1. Head(items) \in Events /\ Len(items') = Len(items) - 1 /\ Len(items) \in Nat
  BY Removed DEF Placed, TakeFirst
<1> QED BY <1>1, RangesHandOut, QueueAssumption DEF TakeFirst, Ranges

\* The number of a channel is in range.
LEMMA TicketRange == Placed => Ticket \in 1..(NEvents + 1)
<1> SUFFICES ASSUME Placed PROVE Ticket \in 1..(NEvents + 1)
  OBVIOUS
<1>1. Len(out) \in Nat /\ Len(out) <= NEvents /\ NEvents \in Nat
  BY AtMostAll, LenProperties, QueueAssumption DEF Placed
<1> QED BY <1>1 DEF Ticket

\* The copier's goroutine keeps the ranges, one step for each of its actions.
LEMMA RangesCopier == QInv /\ Placed /\ Ranges /\ (Arrive \/ Enqueue) => Ranges'
<1> SUFFICES ASSUME Shapes, Placed, Ranges, Arrive \/ Enqueue PROVE Ranges'
  BY DEF QInv
<1>0. /\ bounded' = bounded /\ NEvents \in Nat
  BY QueueAssumption DEF Arrive, Enqueue, EnqueueLook, EnqueueHandOver, EnqueueNotReady,
                         EnqueueStore, CopierFrame
<1>1. CASE Arrive
  <2>1. arrived + 1 \in Events
    BY <1>0, <1>1 DEF Arrive, Placed, Events
  <2>2. copier'.evt \in Events \cup {NoEvent} /\ copier'.waiter = copier.waiter
    <3>1. CASE arrived + 1 \in Whitelisted
      BY <1>1, <3>1 DEF Arrive, Ranges
    <3>2. CASE arrived + 1 \notin Whitelisted
      BY <1>1, <2>1, <3>2 DEF Arrive, Shapes
    <3> QED BY <3>1, <3>2
  <2> QED BY <1>0, <1>1, <2>2 DEF Arrive, Ranges
<1>2. CASE EnqueueLook
  <2>1. CASE waiters = <<>>
    <3>1. copier'.evt = copier.evt /\ copier'.waiter = copier.waiter /\ UNCHANGED <<waiters, items, taker>>
      BY <1>2, <2>1 DEF EnqueueLook, Shapes
    <3> QED BY <1>0, <3>1 DEF Ranges
  <2>2. CASE waiters # <<>>
    <3>1. PICK h, t : h = Head(waiters) /\ t = Tail(waiters)
      OBVIOUS
    <3>2. /\ copier' = [copier EXCEPT !.pc = "offer", !.waiter = h] /\ waiters' = t
          /\ UNCHANGED <<items, taker>>
      BY <1>2, <2>2, <3>1 DEF EnqueueLook
    <3>3. /\ h \in 1..(NEvents + 1) /\ t \in Seq(1..(NEvents + 1)) /\ Len(t) = Len(waiters) - 1
          /\ Len(waiters) \in Nat
      BY <2>2, <3>1, HeadTailProperties, LenProperties DEF Ranges
    <3>4. copier'.evt = copier.evt /\ copier'.waiter = h
      BY <3>2 DEF Shapes
    <3> QED BY <1>0, <3>2, <3>3, <3>4, QueueAssumption DEF Ranges
  <2> QED BY <2>1, <2>2
<1>3. CASE EnqueueHandOver
  <2>1. /\ HandOut(copier.evt) /\ copier.pc # "idle" /\ UNCHANGED <<items, waiters>>
        /\ copier' = [copier EXCEPT !.pc = "idle"]
    BY <1>3 DEF EnqueueHandOver
  <2>2. copier'.evt = copier.evt /\ copier'.waiter = copier.waiter
    BY <2>1 DEF Shapes
  <2>3. /\ taker'.pc = "got" /\ taker'.evt \in Events /\ taker'.tries <= Retries
        /\ taker'.pc \notin {"select", "poll"}
    BY <2>1, InCopiersHand, RangesHandOut
  <2> QED BY <1>0, <2>1, <2>2, <2>3 DEF Ranges
<1>4. CASE EnqueueNotReady
  <2>1. /\ UNCHANGED <<items, waiters, taker>> /\ copier'.evt = copier.evt
        /\ copier'.waiter = copier.waiter
    BY <1>4 DEF EnqueueNotReady, Shapes
  <2> QED BY <1>0, <2>1 DEF Ranges
<1>5. CASE EnqueueStore
  <2>1. /\ UNCHANGED <<waiters, taker>> /\ copier'.evt = copier.evt /\ copier.pc # "idle"
        /\ copier'.waiter = copier.waiter
    BY <1>5 DEF EnqueueStore, Shapes
  <2>2. CASE Full
    BY <1>0, <1>5, <2>1, <2>2 DEF EnqueueStore, Ranges
  <2>3. CASE ~Full
    <3>1. items' = Append(items, copier.evt)
      BY <1>5, <2>3 DEF EnqueueStore
    <3>2. Len(items') = Len(items) + 1 /\ Len(items) \in Nat
      BY <2>1, <3>1, InCopiersHand, Appended DEF Placed
    <3>3. bounded => Len(items') <= Capacity
      BY <2>3, <3>2, QueueAssumption DEF Full, Ranges
    <3> QED BY <1>0, <2>1, <3>3 DEF Ranges
  <2> QED BY <2>2, <2>3
<1> QED BY <1>1, <1>2, <1>3, <1>4, <1>5 DEF Enqueue

\* So does the dequeuing goroutine.
LEMMA RangesTaker == QInv /\ Placed /\ Ranges /\ DequeueOrWait => Ranges'
<1> SUFFICES ASSUME Shapes, Placed, Ranges, DequeueOrWait PROVE Ranges'
  BY DEF QInv
<1>0. UNCHANGED <<bounded, copier>>
  BY DEF DequeueOrWait, DequeueLook, DequeueTake, Register, RetryTimer, RetryPoll, RetryAgain,
         TakerFrame
<1>1. ASSUME items # <<>>, TakeFirst, waiters' = waiters PROVE Ranges'
  BY <1>0, <1>1, RangesTakeFirst DEF Ranges
<1>2. ASSUME NEW s \in TakerSteps \ {"got"}, TakerGoto(s), UNCHANGED <<items, waiters>>,
             s \in {"select", "poll"} => taker.tries < Retries
      PROVE  Ranges'
  BY <1>0, <1>2, RangesGoto DEF Ranges
<1>3. CASE DequeueLook
  BY <1>1, <1>2, <1>3 DEF DequeueLook, TakerSteps
<1>4. CASE DequeueTake
  BY <1>1, <1>2, <1>4 DEF DequeueTake, TakerSteps
<1>5. CASE Register
  <2>1. CASE Len(waiters) < WaitCapacity
    <3>1. /\ waiters' = Append(waiters, Ticket) /\ UNCHANGED items
          /\ taker' = [taker EXCEPT !.pc = IF bounded THEN "wait" ELSE "select", !.tries = 0]
      BY <1>5, <2>1 DEF Register
    <3>2. /\ taker'.pc \in {"wait", "select"} /\ taker'.evt = taker.evt /\ taker'.tries = 0
      BY <3>1 DEF Shapes
    <3>3. PICK t \in 1..(NEvents + 1) : t = Ticket
      BY TicketRange
    <3>4. /\ waiters' \in Seq(1..(NEvents + 1)) /\ Len(waiters') = Len(waiters) + 1
          /\ Len(waiters) \in Nat
      BY <3>1, <3>3, AppendProperties, LenProperties DEF Ranges
    <3>5. Len(waiters') <= WaitCapacity
      BY <2>1, <3>4, QueueAssumption
    <3>6. /\ taker'.evt \in Events \cup {NoEvent} /\ taker'.pc # "got"
          /\ taker'.tries <= Retries /\ taker'.tries < Retries
      BY <3>2, QueueAssumption DEF Ranges
    <3>7. items' = items
      BY <3>1
    <3> QED BY <1>0, <3>4, <3>5, <3>6, <3>7 DEF Ranges
  <2>2. CASE ~(Len(waiters) < WaitCapacity)
    BY <1>2, <1>5, <2>2 DEF Register, TakerSteps
  <2> QED BY <2>1, <2>2
<1>6. CASE RetryTimer
  BY <1>2, <1>6 DEF RetryTimer, TakerSteps, Ranges
<1>7. CASE RetryPoll
  <2>1. CASE items = <<>>
    <3>1. /\ taker.pc = "poll" /\ UNCHANGED <<items, waiters>>
          /\ taker' = [taker EXCEPT !.pc = "again", !.tries = @ + 1]
      BY <1>7, <2>1 DEF RetryPoll
    <3>2. /\ taker'.pc = "again" /\ taker'.evt = taker.evt /\ taker'.tries = taker.tries + 1
          /\ taker.tries \in Nat
      BY <3>1 DEF Shapes
    <3>3. taker'.tries <= Retries
      BY <3>1, <3>2, QueueAssumption DEF Ranges
    <3> QED BY <1>0, <3>1, <3>2, <3>3 DEF Ranges
  <2>2. CASE items # <<>>
    BY <1>1, <1>7, <2>2 DEF RetryPoll
  <2> QED BY <2>1, <2>2
<1>8. CASE RetryAgain
  <2>1. CASE taker.tries = Retries
    BY <1>2, <1>8, <2>1 DEF RetryAgain, TakerSteps
  <2>2. CASE taker.tries # Retries
    <3>1. taker.tries < Retries
      BY <2>2, QueueAssumption DEF Shapes, Ranges
    <3> QED BY <1>2, <1>8, <2>2, <3>1 DEF RetryAgain, TakerSteps
  <2> QED BY <2>1, <2>2
<1> QED BY <1>3, <1>4, <1>5, <1>6, <1>7, <1>8 DEF DequeueOrWait

LEMMA RangesInvariant == Spec => []Ranges
<1>1. QInv /\ Placed /\ Ranges /\ [Next]_vars => Ranges'
  <2> SUFFICES ASSUME QInv, Placed, Ranges, [Next]_vars PROVE Ranges'
    OBVIOUS
  <2>1. CASE QueueNext
    BY <2>1, RangesCopier, RangesTaker DEF QueueNext
  <2>2. CASE Offer
    <3>1. /\ UNCHANGED <<bounded, copier, items, waiters>>
          /\ taker.pc = "got" /\ taker'.pc \in {"idle", "got"}
          /\ taker'.evt = taker.evt /\ taker'.tries = taker.tries
      BY <2>2 DEF Offer, QueueFrame, QInv, Shapes
    <3> QED BY <3>1 DEF Ranges
  <2>3. CASE (\E d \in Dirs : Listen(d) \/ ManagerReady(d)) \/ UNCHANGED vars
    <3>1. UNCHANGED queueVars
      BY <2>3 DEF Listen, Deliver, TimeOut, Drop, ManagerReady, vars, queueVars
    <3> QED BY <3>1 DEF queueVars, Ranges
  <2> QED BY <2>1, <2>2, <2>3 DEF Next, Quiet
<1> QED BY <1>1, InitRanges, QueueInvariant, PlacedInvariant, PTL DEF Spec

-----------------------------------------------------------------------------
(* The dispatch: what each directive gets of what was handed out *)

\* What a directive gets is what was handed out, but for what it lost.
Gets(s, o, l) == Elements(s) = Elements(o) \ l /\ InOrder(s, o)

\* An event is handed out, to be offered to everybody.
LEMMA Extended ==
  ASSUME NEW s \in Seq(Events), NEW o \in Seq(Events), NEW l, NEW e \in Events \ Elements(o),
         l \subseteq Elements(o), Gets(s, o, l)
  PROVE  Gets(s \o <<e>>, Append(o, e), l)
<1>1. PICK t, p : t = Append(s, e) /\ p = Append(o, e)
  OBVIOUS
<1>2. s \o <<e>> = t
  BY <1>1, AppendIsConcat
<1>3. /\ Len(s) \in Nat /\ Len(t) = Len(s) + 1 /\ \A i \in 1..Len(s) : t[i] = s[i]
      /\ t[Len(s) + 1] = e /\ Elements(t) = Elements(s) \cup {e}
  BY <1>1, Appended
<1>4. /\ Len(o) \in Nat /\ Len(p) = Len(o) + 1 /\ \A i \in 1..Len(o) : p[i] = o[i]
      /\ p[Len(o) + 1] = e /\ Elements(p) = Elements(o) \cup {e}
  BY <1>1, Appended
<1>5. Elements(t) = Elements(p) \ l
  BY <1>3, <1>4 DEF Gets
<1>6. ASSUME NEW i \in 1..Len(t), NEW j \in 1..Len(t), NEW k \in 1..Len(p), NEW m \in 1..Len(p),
             i < j, p[k] = t[i], p[m] = t[j]
      PROVE  k < m
  <2>1. i \in 1..Len(s) /\ t[i] = s[i]
    BY <1>3, <1>6
  <2>2. s[i] \in Elements(o)
    BY <2>1 DEF Gets, Elements
  <2>3. k \in 1..Len(o) /\ p[k] = o[k]
    BY <1>4, <1>6, <2>1, <2>2
  <2>4. CASE m = Len(o) + 1
    BY <1>4, <2>3, <2>4
  <2>5. CASE m \in 1..Len(o)
    <3>1. p[m] = o[m] /\ o[m] \in Elements(o)
      BY <1>4, <2>5 DEF Elements
    <3>2. t[j] # e
      BY <1>6, <3>1
    <3>3. j \in 1..Len(s) /\ t[j] = s[j]
      BY <1>3, <1>6, <3>2
    <3> QED BY <1>6, <2>1, <2>3, <2>5, <3>1, <3>3 DEF Gets, InOrder
  <2> QED BY <1>4, <2>4, <2>5
<1> QED BY <1>1, <1>2, <1>5, <1>6 DEF Gets, InOrder

\* An event is given up.
LEMMA GivenUp ==
  ASSUME NEW a \in Seq(Events), NEW b \in Seq(Events), NEW x \in Events,
         NEW o \in Seq(Events), NEW l, Gets((a \o <<x>>) \o b, o, l)
  PROVE  Gets(a \o b, o, l \cup {x}) /\ x \in Elements(o)
<1>1. PICK s, t, n : s = (a \o <<x>>) \o b /\ t = a \o b /\ n = Len(a) + 1
  OBVIOUS
<1>2. <<x>> \in Seq(Events) /\ Len(<<x>>) = 1 /\ <<x>>[1] = x
  OBVIOUS
<1>3. PICK c : c = a \o <<x>>
  OBVIOUS
<1>4. /\ c \in Seq(Events) /\ Len(a) \in Nat /\ Len(c) = n /\ c[n] = x
      /\ \A i \in 1..Len(a) : c[i] = a[i]
  BY <1>1, <1>2, <1>3, ConcatProperties, LenProperties
<1>5. /\ Len(b) \in Nat /\ Len(s) = n + Len(b) /\ s \in Seq(Events)
      /\ \A i \in 1..(n + Len(b)) : s[i] = IF i <= n THEN c[i] ELSE b[i - n]
  BY <1>1, <1>3, <1>4, ConcatProperties, LenProperties
<1>6. /\ Len(t) = Len(a) + Len(b)
      /\ \A i \in 1..(Len(a) + Len(b)) : t[i] = IF i <= Len(a) THEN a[i] ELSE b[i - Len(a)]
  BY <1>1, ConcatProperties
<1>7. \A i \in 1..Len(a) : t[i] = s[i] /\ i \in 1..Len(s)
  BY <1>1, <1>4, <1>5, <1>6
<1>8. ASSUME NEW i \in n..Len(t) PROVE t[i] = s[i + 1] /\ i + 1 \in 1..Len(s)
  <2>1. /\ i \in 1..(Len(a) + Len(b)) /\ ~(i <= Len(a))
        /\ i + 1 \in 1..(n + Len(b)) /\ ~(i + 1 <= n) /\ (i + 1) - n = i - Len(a)
    BY <1>1, <1>4, <1>5, <1>6
  <2> QED BY <1>5, <1>6, <2>1
<1>9. n \in 1..Len(s) /\ s[n] = x
  BY <1>1, <1>4, <1>5
<1>10. Elements(s) = Elements(o) \ l /\ InOrder(s, o)
  BY <1>1 DEF Gets
<1>11. PICK k \in 1..Len(o) : o[k] = x
  <2>1. x \in Elements(s)
    BY <1>9 DEF Elements
  <2> QED BY <1>10, <2>1 DEF Elements
<1>12. \A j \in 1..Len(s) : j # n => s[j] # x
  <2> SUFFICES ASSUME NEW j \in 1..Len(s), j # n, s[j] = x PROVE FALSE
    OBVIOUS
  <2>1. Len(o) \in Nat
    BY LenProperties
  <2>2. j < n => k < k
    BY <1>9, <1>10, <1>11 DEF InOrder
  <2>3. n < j => k < k
    BY <1>9, <1>10, <1>11 DEF InOrder
  <2> QED BY <1>1, <1>4, <1>5, <2>1, <2>2, <2>3
<1>13. Elements(t) = Elements(s) \ {x}
  <2>1. ASSUME NEW y \in Elements(t) PROVE y \in Elements(s) \ {x}
    <3>1. PICK i \in 1..Len(t) : y = t[i]
      BY DEF Elements
    <3>2. CASE i \in 1..Len(a)
      <4>1. i # n
        BY <1>1, <1>4, <3>2
      <4>2. y = s[i] /\ i \in 1..Len(s)
        BY <1>7, <3>1, <3>2
      <4> QED BY <1>12, <4>1, <4>2 DEF Elements
    <3>3. CASE i \in n..Len(t)
      <4>1. i + 1 # n
        BY <1>1, <1>4, <3>3
      <4> QED BY <1>8, <1>12, <3>1, <3>3, <4>1 DEF Elements
    <3> QED BY <1>1, <1>4, <1>5, <1>6, <3>2, <3>3
  <2>2. ASSUME NEW y \in Elements(s), y # x PROVE y \in Elements(t)
    <3>1. PICK j \in 1..Len(s) : y = s[j]
      BY DEF Elements
    <3>2. CASE j \in 1..Len(a)
      <4>1. j \in 1..Len(t) /\ t[j] = y
        BY <1>4, <1>5, <1>6, <1>7, <3>1, <3>2
      <4> QED BY <4>1 DEF Elements
    <3>3. CASE j \notin 1..Len(a)
      <4>1. j # n
        BY <1>9, <2>2, <3>1
      <4>2. j - 1 \in n..Len(t) /\ (j - 1) + 1 = j
        BY <1>1, <1>4, <1>5, <1>6, <3>3, <4>1
      <4>3. t[j - 1] = y /\ j - 1 \in 1..Len(t)
        BY <1>1, <1>4, <1>8, <3>1, <4>2
      <4> QED BY <4>3 DEF Elements
    <3> QED BY <3>2, <3>3
  <2> QED BY <2>1, <2>2
<1>14. ASSUME NEW i \in 1..Len(t), NEW j \in 1..Len(t), i < j
       PROVE  \E f, g \in 1..Len(s) : f < g /\ t[i] = s[f] /\ t[j] = s[g]
  <2>1. CASE j \in 1..Len(a)
    <3>1. i \in 1..Len(a)
      BY <1>4, <1>14, <2>1
    <3> QED BY <1>7, <1>14, <2>1, <3>1
  <2>2. CASE j \in n..Len(t) /\ i \in 1..Len(a)
    <3>1. i < j + 1
      BY <1>14
    <3> QED BY <1>7, <1>8, <2>2, <3>1
  <2>3. CASE i \in n..Len(t)
    <3>1. j \in n..Len(t) /\ i + 1 < j + 1
      BY <1>1, <1>4, <1>6, <1>14, <2>3
    <3> QED BY <1>8, <2>3, <3>1
  <2>4. /\ i \in 1..Len(a) \/ i \in n..Len(t)
        /\ j \in 1..Len(a) \/ j \in n..Len(t)
    BY <1>1, <1>4, <1>5, <1>6
  <2> QED BY <2>1, <2>2, <2>3, <2>4
<1>15. ASSUME NEW i \in 1..Len(t), NEW j \in 1..Len(t),
              NEW k1 \in 1..Len(o), NEW k2 \in 1..Len(o), i < j, o[k1] = t[i], o[k2] = t[j]
       PROVE  k1 < k2
  <2>1. PICK f \in 1..Len(s), g \in 1..Len(s) : f < g /\ t[i] = s[f] /\ t[j] = s[g]
    BY <1>14, <1>15
  <2> QED BY <1>10, <1>15, <2>1 DEF InOrder
<1>16. InOrder(t, o)
  BY <1>15 DEF InOrder
<1>17. Elements(t) = Elements(o) \ (l \cup {x})
  BY <1>10, <1>13
<1>18. x \in Elements(o)
  BY <1>11 DEF Elements
<1> QED BY <1>1, <1>16, <1>17, <1>18 DEF Gets

\* The parts of what a directive gets.
LEMMA Parts ==
  ASSUME Offering, Ranges, NEW d \in Dirs
  PROVE  /\ got[d] \in Seq(Events) /\ Held(d) \in Seq(Events) /\ Unsent(d) \in Seq(Events)
         /\ Stream(d) \in Seq(Events)
         /\ listener[d] # NoEvent => listener[d] \in Events
         /\ lost[d] \subseteq HandedOut
<1>1. /\ got[d] \in Seq(Events) /\ lost[d] \subseteq HandedOut
      /\ listener[d] # NoEvent => listener[d] \in Events
      /\ taker.pc = "got" => taker.evt \in Events
  BY DEF Offering, Ranges
<1>2. <<>> \in Seq(Events) /\ \A e \in Events : <<e>> \in Seq(Events)
  OBVIOUS
<1>3. Held(d) \in Seq(Events) /\ Unsent(d) \in Seq(Events)
  BY <1>1, <1>2 DEF Held, Unsent
<1>4. Stream(d) \in Seq(Events)
  BY <1>1, <1>3, ConcatProperties DEF Stream
<1> QED BY <1>1, <1>3, <1>4

LEMMA InitDispatch == Init => Offering /\ EachInOrder
<1> SUFFICES ASSUME Init PROVE Offering /\ EachInOrder
  OBVIOUS
<1>1. Offering
  <2>1. <<>> \in Seq(Events)
    OBVIOUS
  <2> QED BY <2>1, DirsAssumption DEF Init, QueueInit, Offering, Dirs
<1>2. ASSUME NEW d \in Dirs PROVE Stream(d) = <<>> /\ lost[d] = {}
  <2>1. got[d] = <<>> /\ Held(d) = <<>> /\ Unsent(d) = <<>> /\ lost[d] = {}
    BY DEF Init, QueueInit, Held, Unsent
  <2> QED BY <2>1 DEF Stream
<1>3. Elements(<<>>) = {} /\ InOrder(<<>>, out)
  BY DEF Elements, InOrder
<1>4. HandedOut = {}
  BY DEF Init, QueueInit, HandedOut, Elements
<1> QED BY <1>1, <1>2, <1>3, <1>4 DEF EachInOrder

\* A step of the queue hands out one event or none.
LEMMA HandsOut ==
  ASSUME Placed, Moves
  PROVE  \/ out' = out /\ (taker' = taker \/ (taker.pc # "got" /\ taker'.pc # "got"))
         \/ /\ taker.pc # "got" /\ taker'.pc = "got"
            /\ \E e \in Events \ HandedOut : taker'.evt = e /\ out' = Append(out, e)
<1>1. ASSUME Enters \/ Stored \/ Refused \/ Stands
      PROVE  out' = out /\ (taker' = taker \/ (taker.pc # "got" /\ taker'.pc # "got"))
  <2>1. Enters \/ Stored \/ Refused => out' = out /\ taker' = taker
    BY DEF Enters, Stored, Refused
  <2>2. Stands => out' = out /\ (taker' = taker \/ (taker.pc # "got" /\ taker'.pc # "got"))
    BY DEF Stands
  <2> QED BY <1>1, <2>1, <2>2
<1>2. CASE HandedOver
  <2>1. copier.evt \in Events \ HandedOut
    BY <1>2, InCopiersHand DEF HandedOver
  <2> QED BY <1>2, <2>1 DEF HandedOver, Waiting
<1>3. CASE Taken
  <2>1. Head(items) \in Events /\ Head(items) \in InQueue
    BY <1>3, Removed DEF Taken, Placed, InQueue
  <2>2. Head(items) \notin HandedOut
    BY <2>1 DEF Placed
  <2> QED BY <1>3, <2>1, <2>2 DEF Taken
<1> QED BY <1>1, <1>2, <1>3 DEF Moves

\* The dispatch, while the queue takes a step.
LEMMA DispatchWaits ==
  ASSUME Placed, Ranges, Offering, EachInOrder, Moves, UNCHANGED dispatchVars
  PROVE  Offering' /\ EachInOrder'
<1>0. UNCHANGED <<turn, listener, manager, got, lost>>
  BY DEF dispatchVars
<1>1. CASE out' = out /\ (taker' = taker \/ (taker.pc # "got" /\ taker'.pc # "got"))
  <2>1. HandedOut' = HandedOut
    BY <1>1 DEF HandedOut
  <2>2. Offering'
    BY <1>0, <1>1, <2>1 DEF Offering
  <2>3. ASSUME NEW d \in Dirs PROVE Stream(d)' = Stream(d)
    BY <1>0, <1>1 DEF Stream, Held, Unsent
  <2> QED BY <1>0, <1>1, <2>1, <2>2, <2>3 DEF EachInOrder
<1>2. CASE /\ taker.pc # "got" /\ taker'.pc = "got"
           /\ \E e \in Events \ HandedOut : taker'.evt = e /\ out' = Append(out, e)
  <2>1. PICK e \in Events \ HandedOut : taker'.evt = e /\ out' = Append(out, e)
    BY <1>2
  <2>2. HandedOut' = HandedOut \cup {e} /\ out \in Seq(Events)
    BY <2>1, Appended DEF HandedOut, Placed
  <2>3. turn = 1 /\ \A d \in Dirs : d >= turn
    BY <1>2 DEF Offering, Dirs
  <2>4. Offering'
    BY <1>0, <1>2, <2>2, <2>3 DEF Offering
  <2>5. ASSUME NEW d \in Dirs
        PROVE  /\ Elements(Stream(d)') = HandedOut' \ lost'[d]
               /\ InOrder(Stream(d)', out')
    <3>1. PICK a, b : a = got[d] \o Held(d) /\ b = Stream(d)
      OBVIOUS
    <3>2. Unsent(d) = <<>> /\ Unsent(d)' = <<e>> /\ Held(d)' = Held(d)
      BY <1>0, <1>2, <2>1, <2>3 DEF Unsent, Held
    <3>3. a \in Seq(Events) /\ lost[d] \subseteq Elements(out) /\ b = a
      BY <3>1, <3>2, Parts, ConcatProperties, ConcatEmptySeq DEF Stream, HandedOut
    <3>4. Stream(d)' = a \o <<e>>
      BY <1>0, <3>1, <3>2 DEF Stream
    <3>5. Gets(a, out, lost[d]) /\ e \notin Elements(out)
      BY <2>1, <3>1, <3>3 DEF EachInOrder, Gets, HandedOut
    <3>6. Gets(a \o <<e>>, Append(out, e), lost[d])
      BY <2>1, <2>2, <3>3, <3>5, Extended
    <3> QED BY <1>0, <2>1, <3>4, <3>6 DEF Gets, HandedOut
  <2> QED BY <2>4, <2>5 DEF EachInOrder
<1> QED BY <1>1, <1>2, HandsOut

\* Offering an event to a listener, or receiving it from one, moves it within what
\* the directive gets.
LEMMA OfferDispatch ==
  ASSUME Shapes, Ranges, Offering, EachInOrder, Offer PROVE Offering' /\ EachInOrder'
<1>1. /\ taker.pc = "got" /\ listener[turn] = NoEvent
      /\ listener' = [listener EXCEPT ![turn] = taker.evt]
      /\ turn' = IF turn = NDirs THEN 1 ELSE turn + 1
      /\ taker' = [taker EXCEPT !.pc = IF turn = NDirs THEN "idle" ELSE "got"]
      /\ UNCHANGED <<out, manager, got, lost>>
  BY DEF Offer, QueueFrame
<1>2. /\ taker'.evt = taker.evt /\ taker'.pc = IF turn = NDirs THEN "idle" ELSE "got"
      /\ taker.evt \in Events /\ turn \in 1..NDirs /\ NDirs \in Nat
      /\ taker.evt # NoEvent
  BY <1>1, DirsAssumption DEF Shapes, Ranges, Offering, Dirs, Events, NoEvent
<1>3. HandedOut' = HandedOut
  BY <1>1 DEF HandedOut
<1>4. Offering'
  <2>1. turn' \in Dirs /\ (taker'.pc # "got" => turn' = 1)
    BY <1>1, <1>2 DEF Dirs
  <2>2. listener' \in [Dirs -> Events \cup {NoEvent}]
    BY <1>1, <1>2 DEF Offering
  <2> QED BY <1>1, <1>3, <2>1, <2>2 DEF Offering
<1>5. ASSUME NEW d \in Dirs PROVE Stream(d)' = Stream(d)
  <2>1. d \in 1..NDirs /\ listener \in [Dirs -> Events \cup {NoEvent}]
    BY DEF Dirs, Offering
  <2>2. CASE d = turn
    <3>1. Held(d) = <<>> /\ Unsent(d) = <<taker.evt>>
      BY <1>1, <1>2, <2>2 DEF Held, Unsent
    <3>2. Held(d)' = <<taker.evt>>
      BY <1>1, <1>2, <2>1, <2>2 DEF Held
    <3>3. Unsent(d)' = <<>>
      BY <1>1, <1>2, <2>1, <2>2 DEF Unsent
    <3>4. PICK g, u : g = got[d] /\ u = <<taker.evt>>
      OBVIOUS
    <3>5. g \in Seq(Events) /\ u \in Seq(Events) /\ g \o u \in Seq(Events)
      BY <1>2, <3>4, ConcatProperties DEF Offering
    <3>6. (g \o <<>>) \o u = (g \o u) \o <<>>
      BY <3>5, ConcatEmptySeq
    <3> QED BY <1>1, <3>1, <3>2, <3>3, <3>4, <3>6 DEF Stream
  <2>3. CASE d # turn
    <3>1. Held(d)' = Held(d)
      BY <1>1, <2>1, <2>3 DEF Held
    <3>2. Unsent(d)' = Unsent(d)
      BY <1>1, <1>2, <2>1, <2>3 DEF Unsent
    <3> QED BY <1>1, <3>1, <3>2 DEF Stream
  <2> QED BY <2>2, <2>3
<1> QED BY <1>1, <1>3, <1>4, <1>5 DEF EachInOrder

\* A listener passes its event on, or gives it up; a manager comes back.
LEMMA ListenDispatch ==
  ASSUME Placed, Ranges, Offering, EachInOrder, NEW c \in Dirs, Listen(c) \/ ManagerReady(c)
  PROVE  Offering' /\ EachInOrder'
<1>0. UNCHANGED <<out, taker, turn>>
  BY DEF Listen, Deliver, TimeOut, Drop, ManagerReady, queueVars
<1>1. HandedOut' = HandedOut /\ \A d : Unsent(d)' = Unsent(d)
  BY <1>0 DEF HandedOut, Unsent
<1>2. CASE ManagerReady(c)
  <2>1. /\ manager' = [manager EXCEPT ![c] = "ready"] /\ UNCHANGED <<listener, got, lost>>
    BY <1>2 DEF ManagerReady
  <2>2. Offering'
    BY <1>0, <1>1, <2>1 DEF Offering
  <2>3. ASSUME NEW d \in Dirs PROVE Stream(d)' = Stream(d)
    BY <1>1, <2>1 DEF Stream, Held
  <2> QED BY <1>0, <1>1, <2>1, <2>2, <2>3 DEF EachInOrder
<1>3. CASE Deliver(c)
  <2>1. PICK e : e = listener[c]
    OBVIOUS
  <2>2. /\ e # NoEvent /\ got' = [got EXCEPT ![c] = Append(@, e)]
        /\ manager' = [manager EXCEPT ![c] = "busy"]
        /\ listener' = [listener EXCEPT ![c] = NoEvent] /\ lost' = lost
    BY <1>3, <2>1 DEF Deliver
  <2>3. e \in Events /\ got[c] \in Seq(Events) /\ Append(got[c], e) \in Seq(Events)
    BY <2>1, <2>2, Parts, AppendProperties
  <2>4. Offering'
    BY <1>0, <1>1, <2>2, <2>3 DEF Offering
  <2>5. ASSUME NEW d \in Dirs PROVE Stream(d)' = Stream(d)
    <3>1. CASE d = c
      <4>1. Held(d) = <<e>> /\ Held(d)' = <<>> /\ got'[d] = Append(got[d], e)
        BY <2>1, <2>2, <3>1 DEF Held, Offering
      <4>2. PICK g : g = got[d]
        OBVIOUS
      <4>3. g \in Seq(Events) /\ Append(g, e) \in Seq(Events)
        BY <2>3, <3>1, <4>2
      <4>4. Append(g, e) = g \o <<e>> /\ Append(g, e) \o <<>> = Append(g, e)
        BY <2>3, <4>3, AppendIsConcat, ConcatEmptySeq
      <4> QED BY <1>1, <4>1, <4>2, <4>4 DEF Stream
    <3>2. CASE d # c
      BY <1>1, <2>2, <3>2 DEF Stream, Held, Offering
    <3> QED BY <3>1, <3>2
  <2> QED BY <1>0, <1>1, <2>2, <2>4, <2>5 DEF EachInOrder
<1>4. CASE TimeOut(c)
  <2>1. PICK e : e = listener[c]
    OBVIOUS
  <2>2. /\ e # NoEvent /\ lost' = [lost EXCEPT ![c] = @ \cup {e}]
        /\ listener' = [listener EXCEPT ![c] = NoEvent] /\ UNCHANGED <<manager, got>>
    BY <1>4, <2>1 DEF TimeOut, Drop
  <2>3. e \in Events /\ lost \in [Dirs -> SUBSET HandedOut] /\ out \in Seq(Events)
    BY <2>1, <2>2, Parts DEF Offering, Placed
  <2>4. PICK a, b : a = got[c] /\ b = Unsent(c)
    OBVIOUS
  <2>5. Held(c) = <<e>> /\ Held(c)' = <<>> /\ lost'[c] = lost[c] \cup {e} /\ got' = got
    BY <2>1, <2>2, <2>3 DEF Held, Offering
  <2>6. a \in Seq(Events) /\ b \in Seq(Events)
    BY <2>4, Parts
  <2>7. Gets((a \o <<e>>) \o b, out, lost[c])
    BY <2>4, <2>5 DEF EachInOrder, Gets, Stream, HandedOut
  <2>8. Gets(a \o b, out, lost[c] \cup {e}) /\ e \in HandedOut
    BY <2>3, <2>6, <2>7, GivenUp DEF HandedOut
  <2>9. Stream(c)' = a \o b
    <3>1. a \o <<>> = a
      BY <2>6, ConcatEmptySeq
    <3> QED BY <1>1, <2>4, <2>5, <3>1 DEF Stream
  <2>10. ASSUME NEW d \in Dirs, d # c
         PROVE  Stream(d)' = Stream(d) /\ lost'[d] = lost[d]
    BY <1>1, <2>2, <2>3, <2>10 DEF Stream, Held, Offering
  <2>11. Offering'
    <3>1. lost' \in [Dirs -> SUBSET HandedOut]
      BY <2>2, <2>3, <2>8
    <3> QED BY <1>0, <1>1, <2>2, <3>1 DEF Offering
  <2>12. ASSUME NEW d \in Dirs
         PROVE  Elements(Stream(d)') = HandedOut' \ lost'[d] /\ InOrder(Stream(d)', out')
    <3>1. CASE d = c
      BY <1>0, <1>1, <2>5, <2>8, <2>9, <3>1 DEF Gets, HandedOut
    <3>2. CASE d # c
      BY <1>0, <1>1, <2>10, <3>2 DEF EachInOrder
    <3> QED BY <3>1, <3>2
  <2> QED BY <2>11, <2>12 DEF EachInOrder
<1> QED BY <1>2, <1>3, <1>4 DEF Listen

LEMMA DispatchInvariant == Spec => [](Offering /\ EachInOrder)
<1>1. QInv /\ Placed /\ Ranges /\ (Offering /\ EachInOrder) /\ [Next]_vars
        => (Offering /\ EachInOrder)'
  <2> SUFFICES ASSUME QInv, Placed, Ranges, Offering, EachInOrder, [Next]_vars
               PROVE  Offering' /\ EachInOrder'
    OBVIOUS
  <2>1. CASE QueueNext /\ UNCHANGED dispatchVars
    BY <2>1, QueueMoves, DispatchWaits
  <2>2. CASE Offer
    BY <2>2, OfferDispatch DEF QInv
  <2>3. CASE \E d \in Dirs : Listen(d) \/ ManagerReady(d)
    BY <2>3, ListenDispatch
  <2>4. CASE UNCHANGED vars
    BY <2>4 DEF vars, Offering, EachInOrder, Stream, Held, Unsent, HandedOut
  <2> QED BY <2>1, <2>2, <2>3, <2>4 DEF Next, Quiet
<1> QED BY <1>1, InitDispatch, QueueInvariant, PlacedInvariant, RangesInvariant, PTL DEF Spec

\* Each directive receives what was handed out, in that order and each event once,
\* but for the events it timed out on, for every number of directives and whatever
\* their managers do.
THEOREM StreamsInOrder == Spec => []EachInOrder
  BY DispatchInvariant, PTL

\* The variables have their types: no channel is numbered higher than the events
\* allow, no queue and no list of channels grows beyond its capacity, and the
\* dequeuing goroutine polls no more often than it is told to.
THEOREM TypeCorrect == Spec => []TypeOK
<1>1. QInv /\ Placed /\ Ranges /\ Offering => TypeOK
  <2> SUFFICES ASSUME QInv, Placed, Ranges, Offering PROVE TypeOK
    OBVIOUS
  <2>1. copier \in [pc : CopierSteps, evt : Events \cup {NoEvent}, waiter : 0..(NEvents + 1)]
    BY DEF QInv, Shapes, Ranges
  <2>2. taker \in [pc : TakerSteps, evt : Events \cup {NoEvent}, tries : 0..Retries]
    <3>1. taker.tries \in 0..Retries
      BY QueueAssumption DEF QInv, Shapes, Ranges
    <3> QED BY <3>1 DEF QInv, Shapes, Ranges
  <2>3. discarded \subseteq Events /\ HandedOut \subseteq Events
    BY QueueAssumption DEF Placed, Arrivals, Events
  <2>4. QueueTypeOK
    BY <2>1, <2>2, <2>3 DEF QueueTypeOK, Placed, Ranges, CopierSteps, TakerSteps
  <2>5. lost \in [Dirs -> SUBSET Events]
    BY <2>3 DEF Offering
  <2> QED BY <2>4, <2>5 DEF TypeOK, Offering
<1> QED BY <1>1, QueueInvariant, PlacedInvariant, RangesInvariant, DispatchInvariant, PTL
=============================================================================
