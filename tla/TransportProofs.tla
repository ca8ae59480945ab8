---------------------------- MODULE TransportProofs ----------------------------
(* The worker of a backend waits for itself, in its own error channel, only     *)
(* after a row of failed attempts; and the events that clients were told of are *)
(* accounted for.  Both for channels of any capacity and any set of requests.   *)
EXTENDS Transport, SequenceTheorems, FiniteSetTheorems, TLAPS

-----------------------------------------------------------------------------
(* The inductive invariant of HangNeedsOutage *)

Steps == {"receive", "error1", "sendbool", "error2", "look", "loop", "forward"}

\* The worker's state, whatever event it holds.
WorkerShape ==
  /\ w = [pc |-> w.pc, rx |-> w.rx, tx |-> w.tx, tries |-> w.tries, evt |-> w.evt]
  /\ w.pc \in Steps /\ w.rx \in BOOLEAN /\ w.tx \in BOOLEAN /\ w.tries \in Nat
  /\ errs \in 0..ErrCap

\* The errors of the attempt under way.
Pending == IF w.pc \in {"sendbool", "error2"} THEN 1 ELSE IF w.pc = "look" THEN 2 ELSE 0

\* An attempt fails only as long as there is no connection; until then each has
\* left one error more than was taken out.
ErrorsOfAttempts ==
  /\ w.pc \in {"error1", "error2"} => ~Connected
  /\ ~Connected => \/ w.tries >= ErrCap - 1
                   \/ errs <= w.tries + Pending

WInv == WorkerShape /\ ErrorsOfAttempts

-----------------------------------------------------------------------------
\* The worker begins without a connection and without an error.
LEMMA InitW == Init => WInv
  BY TransportAssumption DEF Init, WInv, WorkerShape, ErrorsOfAttempts, Steps, Connected, Pending

\* A step that leaves the worker and its error channel alone.
LEMMA Aside == WInv /\ UNCHANGED <<errs, w>> => WInv'
  BY DEF WInv, WorkerShape, ErrorsOfAttempts, Connected, Pending

\* A step between two positions, with the errors it leaves.
LEMMA Moved ==
  ASSUME WInv, NEW p \in Steps, NEW x \in BOOLEAN, NEW y \in BOOLEAN, NEW n \in Nat, NEW v,
         w' = [pc |-> p, rx |-> x, tx |-> y, tries |-> n, evt |-> v],
         errs' \in 0..ErrCap
  PROVE  WorkerShape' /\ w'.pc = p /\ w'.rx = x /\ w'.tx = y /\ w'.tries = n
  BY DEF WorkerShape

\* Two fields of a record set at once, for a record of the worker's shape.
LEMMA Succeeded ==
  ASSUME NEW p, NEW t,
         w = [pc |-> w.pc, rx |-> w.rx, tx |-> w.tx, tries |-> w.tries, evt |-> w.evt]
  PROVE  /\ [w EXCEPT !.pc = p, !.rx = t]
              = [pc |-> p, rx |-> t, tx |-> w.tx, tries |-> w.tries, evt |-> w.evt]
         /\ [w EXCEPT !.pc = p, !.tx = t]
              = [pc |-> p, rx |-> w.rx, tx |-> t, tries |-> w.tries, evt |-> w.evt]
  <1>1. PICK q : q = [w EXCEPT !.pc = p]
    OBVIOUS
  <1>2. q = [pc |-> p, rx |-> w.rx, tx |-> w.tx, tries |-> w.tries, evt |-> w.evt]
    BY <1>1
  <1>3. [q EXCEPT !.rx = t]
          = [pc |-> p, rx |-> t, tx |-> w.tx, tries |-> w.tries, evt |-> w.evt]
    BY <1>2
  <1>4. [q EXCEPT !.tx = t]
          = [pc |-> p, rx |-> w.rx, tx |-> t, tries |-> w.tries, evt |-> w.evt]
    BY <1>2
  <1> QED
    BY <1>1, <1>3, <1>4, Zenon

\* Every step keeps the invariant.
LEMMA StepW == WInv /\ [Next]_vars => WInv'
  <1> SUFFICES ASSUME WInv, [Next]_vars PROVE WInv'
    OBVIOUS
  <1>0. /\ w = [pc |-> w.pc, rx |-> w.rx, tx |-> w.tx, tries |-> w.tries, evt |-> w.evt]
        /\ w.pc \in Steps /\ w.rx \in BOOLEAN /\ w.tx \in BOOLEAN /\ w.tries \in Nat
        /\ errs \in 0..ErrCap /\ ErrCap \in Nat /\ ErrCap >= 1
    BY TransportAssumption DEF WInv, WorkerShape
  <1>1. ASSUME NEW r \in Requests, HandleEvents(r) PROVE WInv'
    BY <1>1, Aside DEF HandleEvents, Refuse, Push, PushTimesOut, ErrorReceived
  <1>2. CASE Publisher \/ Outage
    BY <1>2, Aside DEF Publisher, PublisherTakes, Publish, PublishFails, ReportFailure, Outage
  <1>3. CASE Receive
    <2>1. w' = IF Connected \/ up
               THEN [pc |-> "sendbool", rx |-> TRUE, tx |-> w.tx, tries |-> w.tries, evt |-> w.evt]
               ELSE [pc |-> "error1", rx |-> w.rx, tx |-> w.tx, tries |-> w.tries, evt |-> w.evt]
      <3>1. w' = IF Connected \/ up THEN [w EXCEPT !.pc = "sendbool", !.rx = TRUE]
                                    ELSE [w EXCEPT !.pc = "error1"]
        BY <1>3 DEF Receive, Attempt
      <3>2. [w EXCEPT !.pc = "sendbool", !.rx = TRUE]
              = [pc |-> "sendbool", rx |-> TRUE, tx |-> w.tx, tries |-> w.tries, evt |-> w.evt]
        BY <1>0, Succeeded
      <3>3. [w EXCEPT !.pc = "error1"]
              = [pc |-> "error1", rx |-> w.rx, tx |-> w.tx, tries |-> w.tries, evt |-> w.evt]
        BY <1>0
      <3> QED
        BY <3>1, <3>2, <3>3
    <2>2. errs' = errs /\ w.pc = "receive"
      BY <1>3 DEF Receive, Attempt
    <2>3. CASE Connected \/ up
      <3>1. WorkerShape' /\ w'.pc = "sendbool" /\ w'.rx = TRUE
        BY <1>0, <2>1, <2>2, <2>3, Moved DEF Steps
      <3> QED
        BY <3>1 DEF WInv, ErrorsOfAttempts, Connected
    <2>4. CASE ~(Connected \/ up)
      <3>1. WorkerShape' /\ w'.pc = "error1" /\ w'.rx = w.rx /\ w'.tx = w.tx /\ w'.tries = w.tries
        BY <1>0, <2>1, <2>2, <2>4, Moved DEF Steps
      <3> QED
        BY <2>2, <2>4, <3>1 DEF WInv, ErrorsOfAttempts, Connected, Pending
    <2> QED
      BY <2>3, <2>4
  <1>4. CASE SendBool
    <2>1. w' = IF Connected \/ up
               THEN [pc |-> "look", rx |-> w.rx, tx |-> TRUE, tries |-> w.tries, evt |-> w.evt]
               ELSE [pc |-> "error2", rx |-> w.rx, tx |-> w.tx, tries |-> w.tries, evt |-> w.evt]
      <3>1. w' = IF Connected \/ up THEN [w EXCEPT !.pc = "look", !.tx = TRUE]
                                    ELSE [w EXCEPT !.pc = "error2"]
        BY <1>4 DEF SendBool, Attempt
      <3>2. [w EXCEPT !.pc = "look", !.tx = TRUE]
              = [pc |-> "look", rx |-> w.rx, tx |-> TRUE, tries |-> w.tries, evt |-> w.evt]
        BY <1>0, Succeeded
      <3>3. [w EXCEPT !.pc = "error2"]
              = [pc |-> "error2", rx |-> w.rx, tx |-> w.tx, tries |-> w.tries, evt |-> w.evt]
        BY <1>0
      <3> QED
        BY <3>1, <3>2, <3>3
    <2>2. errs' = errs /\ w.pc = "sendbool"
      BY <1>4 DEF SendBool, Attempt
    <2>3. CASE Connected \/ up
      <3>1. WorkerShape' /\ w'.pc = "look" /\ w'.tx = TRUE
        BY <1>0, <2>1, <2>2, <2>3, Moved DEF Steps
      <3> QED
        BY <3>1 DEF WInv, ErrorsOfAttempts, Connected
    <2>4. CASE ~(Connected \/ up)
      <3>1. WorkerShape' /\ w'.pc = "error2" /\ w'.rx = w.rx /\ w'.tx = w.tx /\ w'.tries = w.tries
        BY <1>0, <2>1, <2>2, <2>4, Moved DEF Steps
      <3> QED
        BY <2>2, <2>4, <3>1 DEF WInv, ErrorsOfAttempts, Connected, Pending
    <2> QED
      BY <2>3, <2>4
  <1>5. CASE SendError
    <2> DEFINE p == IF w.pc = "error1" THEN "sendbool" ELSE "look"
    <2>1. w' = [pc |-> p, rx |-> w.rx, tx |-> w.tx, tries |-> w.tries, evt |-> w.evt]
      BY <1>0, <1>5 DEF SendError
    <2>2. errs' = errs + 1 /\ errs' \in 0..ErrCap /\ w.pc \in {"error1", "error2"}
      BY <1>0, <1>5 DEF SendError
    <2>3. WorkerShape' /\ w'.pc = p /\ w'.rx = w.rx /\ w'.tx = w.tx /\ w'.tries = w.tries
      BY <1>0, <2>1, <2>2, Moved DEF Steps
    <2> QED
      BY <1>0, <2>2, <2>3 DEF WInv, ErrorsOfAttempts, Connected, Pending
  <1>6. CASE LookForError
    <2> DEFINE p == IF errs > 0 THEN "receive" ELSE "loop"
               n == IF errs > 0 /\ w.tries < ErrCap THEN w.tries + 1 ELSE w.tries
    <2>1. w' = [pc |-> p, rx |-> w.rx, tx |-> w.tx, tries |-> n, evt |-> w.evt]
      BY <1>0, <1>6 DEF LookForError
    <2>2. errs' = (IF errs > 0 THEN errs - 1 ELSE 0) /\ errs' \in 0..ErrCap /\ w.pc = "look"
      BY <1>0, <1>6 DEF LookForError
    <2>3. n \in Nat
      BY <1>0
    <2>4. WorkerShape' /\ w'.pc = p /\ w'.rx = w.rx /\ w'.tx = w.tx /\ w'.tries = n
      BY <2>1, <2>2, <2>3, <1>0, Moved DEF Steps
    <2>5. ~Connected => w.tries >= ErrCap - 1 \/ errs <= w.tries + 2
      BY <2>2 DEF WInv, ErrorsOfAttempts, Pending
    <2>6. ~Connected => n >= ErrCap - 1 \/ errs' <= n
      BY <1>0, <2>2, <2>5
    <2>7. p \in {"receive", "loop"} /\ (~Connected' => ~Connected)
      BY <2>4 DEF Connected
    <2>8. Pending' = 0
      BY <2>4, <2>7 DEF Pending
    <2> HIDE DEF p, n
    <2>9. ErrorsOfAttempts'
      BY <1>0, <2>2, <2>3, <2>4, <2>6, <2>7, <2>8 DEF ErrorsOfAttempts
    <2> QED
      BY <2>4, <2>9 DEF WInv
  <1>7. CASE TakeEvent \/ Forward
    <2> DEFINE p == IF w.pc = "loop" THEN "forward" ELSE "loop"
    <2>1. PICK v : w' = [pc |-> p, rx |-> w.rx, tx |-> w.tx, tries |-> w.tries, evt |-> v]
      BY <1>0, <1>7 DEF TakeEvent, Forward
    <2>2. errs' = errs /\ w.pc \in {"loop", "forward"}
      BY <1>7 DEF TakeEvent, Forward
    <2>3. WorkerShape' /\ w'.pc = p /\ w'.rx = w.rx /\ w'.tx = w.tx /\ w'.tries = w.tries
      BY <1>0, <2>1, <2>2, Moved DEF Steps
    <2> QED
      BY <1>0, <2>2, <2>3 DEF WInv, ErrorsOfAttempts, Connected, Pending
  <1>8. CASE TakeError
    <2>1. w' = [pc |-> "receive", rx |-> w.rx, tx |-> w.tx, tries |-> w.tries, evt |-> w.evt]
      BY <1>0, <1>8 DEF TakeError
    <2>2. errs' = errs - 1 /\ errs' \in 0..ErrCap /\ w.pc = "loop"
      BY <1>0, <1>8 DEF TakeError
    <2>3. WorkerShape' /\ w'.pc = "receive" /\ w'.rx = w.rx /\ w'.tx = w.tx /\ w'.tries = w.tries
      BY <1>0, <2>1, <2>2, Moved DEF Steps
    <2> QED
      BY <1>0, <2>2, <2>3 DEF WInv, ErrorsOfAttempts, Connected, Pending
  <1>9. CASE BoolPublishFails
    <2>1. w' = w /\ errs' \in 0..ErrCap /\ w.tx
      BY <1>0, <1>9 DEF BoolPublishFails
    <2> QED
      BY <1>0, <2>1 DEF WInv, WorkerShape, ErrorsOfAttempts, Connected
  <1>10. CASE UNCHANGED vars
    BY <1>10, Aside DEF vars
  <1> QED
    BY <1>1, <1>2, <1>3, <1>4, <1>5, <1>6, <1>7, <1>8, <1>9, <1>10 DEF Next, Worker

\* The worker can only wait for itself, forever, if the message queue refused it as
\* often in a row, but for one, as its error channel has room for; a connection
\* once made protects it from that.
THEOREM HangCorrect == Spec => []HangNeedsOutage
  <1>1. WInv => HangNeedsOutage
    BY TransportAssumption
    DEF WInv, WorkerShape, ErrorsOfAttempts, HangNeedsOutage, Hung, Pending
  <1> QED
    BY <1>1, InitW, StepW, PTL DEF Spec

-----------------------------------------------------------------------------
(* Where events are: the inductive invariant of Accounted *)

Places == {"chan", "publisher", "subscriber", "worker", "failed", "dropped", "delivered"}
Answers == {"start", "refused", "ok", "timeout", "unavailable"}

Accepted == {r \in Requests : req[r] = "ok"}
Unavailable == {r \in Requests : req[r] = "unavailable"}

\* A channel holds no event twice.
Distinct(s) == \A i, j \in DOMAIN s : s[i] = s[j] => i = j

\* A family of sets U divides S.
Divides(U, S) ==
  /\ \A x : x \in S <=> \E p \in Places : x \in U[p]
  /\ \A p, q \in Places : \A x : x \in U[p] /\ x \in U[q] => p = q

\* The values of the variables; what the publisher and the worker hold.
EventShape ==
  /\ req \in [Requests -> Answers]
  /\ evtChan \in Seq(Requests) /\ sub \in Seq(Requests)
  /\ ferrs \in Nat
  /\ pub = [pc |-> pub.pc, evt |-> pub.evt]
  /\ pub.pc \in {"take", "publish", "report"}
  /\ pub.pc = "publish" => pub.evt \in Requests
  /\ IF w.pc = "forward" THEN w.evt \in Requests ELSE w.evt = None
  /\ gone = [failed |-> gone.failed, dropped |-> gone.dropped, delivered |-> gone.delivered]

\* Every accepted event is in one place and once in it.
Placed == Divides(Under, Accepted) /\ Distinct(evtChan) /\ Distinct(sub)

\* Each failed publication is an error still to be answered with, or an answer.
Answered ==
  /\ IsFiniteSet(gone.failed) /\ IsFiniteSet(Unavailable)
  /\ Cardinality(Unavailable) + ferrs + (IF pub.pc = "report" THEN 1 ELSE 0)
       = Cardinality(gone.failed)

AInv == EventShape /\ Placed /\ Answered

-----------------------------------------------------------------------------
(* Channels *)

\* What is in a channel after a send.
LEMMA Sent ==
  ASSUME NEW s \in Seq(Requests), NEW e \in Requests
  PROVE  /\ Append(s, e) \in Seq(Requests)
         /\ Elements(Append(s, e)) = Elements(s) \cup {e}
         /\ Distinct(s) /\ e \notin Elements(s) => Distinct(Append(s, e))
  <1>1. PICK t : t = Append(s, e)
    OBVIOUS
  <1>2. /\ t \in Seq(Requests) /\ Len(t) = Len(s) + 1 /\ Len(s) \in Nat
        /\ DOMAIN t = 1..(Len(s) + 1) /\ DOMAIN s = 1..Len(s)
        /\ \A i \in 1..Len(s) : t[i] = s[i]
        /\ t[Len(s) + 1] = e
    BY <1>1, AppendProperties, LenProperties
  <1>3. Elements(t) = Elements(s) \cup {e}
    BY <1>2 DEF Elements
  <1>4. ASSUME Distinct(s), e \notin Elements(s) PROVE Distinct(t)
    BY <1>2, <1>4 DEF Distinct, Elements
  <1> QED
    BY <1>1, <1>2, <1>3, <1>4

\* What is left of a channel after a receive.
LEMMA Received ==
  ASSUME NEW s \in Seq(Requests), s # <<>>, Distinct(s)
  PROVE  /\ Head(s) \in Requests /\ Tail(s) \in Seq(Requests)
         /\ Head(s) \in Elements(s)
         /\ Elements(Tail(s)) = Elements(s) \ {Head(s)}
         /\ Distinct(Tail(s))
  <1>1. PICK t, h : t = Tail(s) /\ h = Head(s)
    OBVIOUS
  <1>2. /\ h \in Requests /\ t \in Seq(Requests)
        /\ Len(s) \in Nat /\ Len(s) >= 1 /\ Len(t) = Len(s) - 1
        /\ DOMAIN s = 1..Len(s) /\ DOMAIN t = 1..Len(t)
        /\ \A i \in 1..Len(t) : t[i] = s[i + 1]
        /\ h = s[1]
    BY <1>1, HeadTailProperties, LenProperties, EmptySeq
  <1>3. h \in Elements(s)
    BY <1>2 DEF Elements
  <1>4. Elements(t) \subseteq Elements(s) \ {h}
    BY <1>2 DEF Elements, Distinct
  <1>5. ASSUME NEW x \in Elements(s) \ {h} PROVE x \in Elements(t)
    <2>1. PICK i \in 1..Len(s) : x = s[i]
      BY <1>2, <1>5 DEF Elements
    <2>2. i - 1 \in 1..Len(t) /\ (i - 1) + 1 = i
      BY <1>2, <1>5, <2>1
    <2>3. t[i - 1] = x
      BY <1>2, <2>1, <2>2
    <2> QED
      BY <1>2, <2>2, <2>3 DEF Elements
  <1>6. Distinct(t)
    BY <1>2 DEF Distinct
  <1> QED
    BY <1>1, <1>2, <1>3, <1>4, <1>5, <1>6

\* A channel without repetitions has as many events as it is long.
LEMMA Length ==
  ASSUME NEW s \in Seq(Requests), Distinct(s)
  PROVE  Cardinality(Elements(s)) = Len(s)
  <1>1. Len(s) \in Nat /\ DOMAIN s = 1..Len(s) /\ s \in [1..Len(s) -> Requests]
    BY LenProperties
  <1>2. s \in Bijection(1..Len(s), Elements(s))
    BY <1>1 DEF Distinct, Elements, Bijection, Injection, IsInjective, Surjection
  <1>3. IsFiniteSet(1..Len(s)) /\ Cardinality(1..Len(s)) = Len(s)
    BY <1>1, FS_Interval
  <1>4. ExistsBijection(1..Len(s), Elements(s))
    BY <1>2 DEF ExistsBijection
  <1> QED
    BY <1>3, <1>4, FS_Bijection

-----------------------------------------------------------------------------
(* Families of sets *)

\* A new element is added in one place.
LEMMA Arrives ==
  ASSUME NEW U, NEW V, NEW S, NEW e, NEW p \in Places, Divides(U, S), e \notin S,
         V[p] = U[p] \cup {e}, \A q \in Places \ {p} : V[q] = U[q]
  PROVE  Divides(V, S \cup {e})
  BY DEF Divides

\* An element moves from one place to another.
LEMMA Moves ==
  ASSUME NEW U, NEW V, NEW S, NEW e, NEW p \in Places, NEW q \in Places, p # q,
         Divides(U, S), e \in U[p], V[p] = U[p] \ {e}, V[q] = U[q] \cup {e},
         \A r \in Places \ {p, q} : V[r] = U[r]
  PROVE  Divides(V, S)
  BY DEF Divides

\* Nothing moves.
LEMMA Stays ==
  ASSUME NEW U, NEW V, NEW S, Divides(U, S), \A q \in Places : V[q] = U[q]
  PROVE  Divides(V, S)
  BY DEF Divides

\* The places one by one, before and after a step.
LEMMA PlaceOf ==
  /\ Under["chan"] = Elements(evtChan)
  /\ Under["publisher"] = IF pub.pc = "publish" THEN {pub.evt} ELSE {}
  /\ Under["subscriber"] = Elements(sub)
  /\ Under["worker"] = {w.evt} \ {None}
  /\ Under["failed"] = gone.failed
  /\ Under["dropped"] = gone.dropped
  /\ Under["delivered"] = gone.delivered
  /\ DOMAIN Under = Places
  BY DEF Under, Places

LEMMA PlaceOfNext ==
  /\ Under'["chan"] = Elements(evtChan')
  /\ Under'["publisher"] = IF pub'.pc = "publish" THEN {pub'.evt} ELSE {}
  /\ Under'["subscriber"] = Elements(sub')
  /\ Under'["worker"] = {w'.evt} \ {None}
  /\ Under'["failed"] = gone'.failed
  /\ Under'["dropped"] = gone'.dropped
  /\ Under'["delivered"] = gone'.delivered
  BY DEF Under

-----------------------------------------------------------------------------
\* Nothing is anywhere when the system starts.
LEMMA InitA == Init => AInv
  <1> SUFFICES ASSUME Init PROVE AInv
    OBVIOUS
  <1>1. /\ EventShape /\ Accepted = {} /\ Unavailable = {} /\ gone.failed = {}
        /\ gone.dropped = {} /\ gone.delivered = {}
        /\ evtChan = <<>> /\ sub = <<>> /\ pub.pc = "take" /\ w.evt = None /\ ferrs = 0
    BY DEF Init, EventShape, Answers, Accepted, Unavailable
  <1>2. Elements(evtChan) = {} /\ Elements(sub) = {} /\ Distinct(evtChan) /\ Distinct(sub)
    BY <1>1 DEF Elements, Distinct
  <1>3. \A p \in Places : Under[p] = {}
    BY <1>1, <1>2, PlaceOf DEF Places
  <1>4. Placed
    BY <1>1, <1>2, <1>3 DEF Placed, Divides
  <1>5. Answered
    BY <1>1, FS_EmptySet DEF Answered
  <1> QED
    BY <1>1, <1>4, <1>5 DEF AInv

\* An answer other than "ok" and "unavailable" changes no set of requests.
LEMMA Answering ==
  ASSUME EventShape, NEW r \in Requests, NEW a \in Answers, Answer(r, a)
  PROVE  /\ req' \in [Requests -> Answers]
         /\ r \notin Accepted /\ r \notin Unavailable
         /\ Accepted' = IF a = "ok" THEN Accepted \cup {r} ELSE Accepted
         /\ Unavailable' = IF a = "unavailable" THEN Unavailable \cup {r} ELSE Unavailable
  BY DEF EventShape, Answer, Answers, Accepted, Unavailable

\* What is told apart of the steps that move no event.
LEMMA Nothing ==
  ASSUME AInv, UNCHANGED <<evtChan, sub, gone, pub>>, w'.evt = w.evt, w'.pc = "forward" <=> w.pc = "forward",
         req' \in [Requests -> Answers], Accepted' = Accepted,
         Unavailable' = Unavailable, ferrs' = ferrs
  PROVE  AInv'
  <1>1. EventShape'
    BY DEF AInv, EventShape
  <1>2. Placed'
    <2>1. Under' = Under
      BY DEF Under
    <2> QED
      BY <2>1 DEF AInv, Placed
  <1>3. Answered'
    BY DEF AInv, Answered
  <1> QED
    BY <1>1, <1>2, <1>3 DEF AInv

\* The event of a request is accepted.
LEMMA PushA == ASSUME AInv, NEW r \in Requests, Push(r) PROVE AInv'
  <1>1. /\ evtChan' = Append(evtChan, r) /\ Answer(r, "ok")
        /\ UNCHANGED <<ferrs, pub, sub, gone, w>>
    BY DEF Push
  <1>2. EventShape /\ Divides(Under, Accepted) /\ Distinct(evtChan) /\ Distinct(sub)
    BY DEF AInv, Placed
  <1>3. /\ req' \in [Requests -> Answers] /\ r \notin Accepted
        /\ Accepted' = Accepted \cup {r} /\ Unavailable' = Unavailable
    BY <1>1, <1>2, Answering DEF Answers
  <1>4. r \notin Elements(evtChan)
    BY <1>2, <1>3, PlaceOf DEF Divides, Places
  <1>5. /\ evtChan' \in Seq(Requests) /\ Elements(evtChan') = Elements(evtChan) \cup {r}
        /\ Distinct(evtChan')
    BY <1>1, <1>2, <1>4, Sent DEF EventShape
  <1>6. EventShape'
    BY <1>1, <1>2, <1>3, <1>5 DEF EventShape
  <1>7. /\ Under'["chan"] = Under["chan"] \cup {r}
        /\ \A q \in Places \ {"chan"} : Under'[q] = Under[q]
    BY <1>1, <1>5, PlaceOf, PlaceOfNext DEF Places
  <1>8. Divides(Under', Accepted')
    <2>1. PICK U, V, S : U = Under /\ V = Under' /\ S = Accepted
      OBVIOUS
    <2>2. Divides(V, S \cup {r})
      BY <1>2, <1>3, <1>7, <2>1, Arrives DEF Places
    <2> QED
      BY <1>3, <2>1, <2>2
  <1>9. Placed'
    BY <1>1, <1>2, <1>5, <1>8 DEF Placed
  <1>10. Answered'
    BY <1>1, <1>3 DEF AInv, Answered
  <1> QED
    BY <1>6, <1>9, <1>10 DEF AInv

\* The other answers of a request.
LEMMA AnswerA ==
  ASSUME AInv, NEW r \in Requests, Refuse(r) \/ PushTimesOut(r) \/ ErrorReceived(r)
  PROVE  AInv'
  <1>1. UNCHANGED <<evtChan, sub, gone, pub, w>>
    BY DEF Refuse, PushTimesOut, ErrorReceived
  <1>2. CASE Refuse(r) \/ PushTimesOut(r)
    <2>1. PICK a \in {"refused", "timeout"} : Answer(r, a)
      BY <1>2 DEF Refuse, PushTimesOut
    <2>2. /\ req' \in [Requests -> Answers] /\ Accepted' = Accepted
          /\ Unavailable' = Unavailable
      BY <2>1, Answering DEF AInv, Answers
    <2>3. ferrs' = ferrs
      BY <1>2 DEF Refuse, PushTimesOut
    <2> QED
      BY <1>1, <2>2, <2>3, Nothing
  <1>3. CASE ErrorReceived(r)
    <2>1. Answer(r, "unavailable") /\ ferrs > 0 /\ ferrs' = ferrs - 1
      BY <1>3 DEF ErrorReceived
    <2>2. /\ req' \in [Requests -> Answers] /\ Accepted' = Accepted
          /\ r \notin Unavailable /\ Unavailable' = Unavailable \cup {r}
      BY <2>1, Answering DEF AInv, Answers
    <2>3. ferrs \in Nat /\ ferrs' \in Nat
      BY <2>1 DEF AInv, EventShape
    <2>4. EventShape'
      BY <1>1, <2>2, <2>3 DEF AInv, EventShape
    <2>5. Placed'
      <3>1. Under' = Under
        BY <1>1 DEF Under
      <3> QED
        BY <1>1, <2>2, <3>1 DEF AInv, Placed
    <2>6. Answered'
      <3>1. /\ IsFiniteSet(Unavailable) /\ IsFiniteSet(gone.failed)
            /\ Cardinality(Unavailable) + ferrs + (IF pub.pc = "report" THEN 1 ELSE 0)
                 = Cardinality(gone.failed)
        BY DEF AInv, Answered
      <3>2. /\ IsFiniteSet(Unavailable')
            /\ Cardinality(Unavailable') = Cardinality(Unavailable) + 1
            /\ Cardinality(Unavailable) \in Nat
        BY <2>2, <3>1, FS_AddElement, FS_CardinalityType
      <3>3. Cardinality(Unavailable') + ferrs' = Cardinality(Unavailable) + ferrs
        BY <2>1, <2>3, <3>2
      <3> QED
        BY <1>1, <3>1, <3>2, <3>3 DEF Answered
    <2> QED
      BY <2>4, <2>5, <2>6 DEF AInv
  <1> QED
    BY <1>2, <1>3

\* A step that only moves an event: from p to q.
LEMMA MovesA ==
  ASSUME AInv, EventShape', UNCHANGED req, Distinct(evtChan'), Distinct(sub'), Answered',
         NEW e, NEW p \in Places, NEW q \in Places, p # q, e \in Under[p],
         Under'[p] = Under[p] \ {e}, Under'[q] = Under[q] \cup {e},
         \A r \in Places \ {p, q} : Under'[r] = Under[r]
  PROVE  AInv'
  <1>1. PICK U, V, S : U = Under /\ V = Under' /\ S = Accepted
    OBVIOUS
  <1>2. Divides(U, S)
    BY <1>1 DEF AInv, Placed
  <1>3. Divides(V, S)
    BY <1>1, <1>2, Moves
  <1>4. Accepted' = S
    BY <1>1 DEF Accepted
  <1> QED
    BY <1>1, <1>3, <1>4 DEF AInv, Placed

\* The errors are counted as before.
LEMMA AnsweredAside ==
  ASSUME AInv, UNCHANGED <<req, ferrs>>, gone'.failed = gone.failed,
         pub.pc # "report", pub'.pc # "report"
  PROVE  Answered'
  BY DEF AInv, Answered, Unavailable

\* An accepted event goes from p to q, or stays where it is.

\* The publisher keeps it, one step for each of its actions.
LEMMA PublisherA == ASSUME AInv, Publisher PROVE AInv'
  <1>0. /\ EventShape /\ Divides(Under, Accepted) /\ Distinct(evtChan) /\ Distinct(sub)
        /\ UNCHANGED <<req, w>>
    BY DEF AInv, Placed, Publisher, PublisherTakes, Publish, PublishFails, ReportFailure
  <1>1. CASE PublisherTakes
    <2>1. /\ pub.pc = "take" /\ evtChan # <<>> /\ evtChan' = Tail(evtChan)
          /\ pub' = [pc |-> "publish", evt |-> Head(evtChan)]
          /\ UNCHANGED <<ferrs, sub, gone>>
      BY <1>1 DEF PublisherTakes
    <2>2. PICK e : e = Head(evtChan)
      OBVIOUS
    <2>3. /\ e \in Requests /\ e \in Elements(evtChan)
          /\ evtChan' \in Seq(Requests) /\ Distinct(evtChan')
          /\ Elements(evtChan') = Elements(evtChan) \ {e}
      BY <1>0, <2>1, <2>2, Received DEF EventShape
    <2>4. pub'.pc = "publish" /\ pub'.evt = e /\ pub' = [pc |-> pub'.pc, evt |-> pub'.evt]
      BY <2>1, <2>2
    <2>5. EventShape'
      BY <1>0, <2>1, <2>3, <2>4 DEF EventShape
    <2>6. /\ e \in Under["chan"] /\ Under'["chan"] = Under["chan"] \ {e}
          /\ Under'["publisher"] = Under["publisher"] \cup {e}
          /\ \A r \in Places \ {"chan", "publisher"} : Under'[r] = Under[r]
      BY <1>0, <2>1, <2>3, <2>4, PlaceOf, PlaceOfNext DEF Places
    <2>7. Answered'
      BY <1>0, <2>1, <2>4, AnsweredAside
    <2> QED
      BY <1>0, <2>1, <2>3, <2>5, <2>6, <2>7, MovesA DEF Places
  <1>2. CASE Publish
    <2>1. /\ pub.pc = "publish" /\ pub' = [pc |-> "take", evt |-> None]
          /\ UNCHANGED <<evtChan, ferrs>>
      BY <1>2 DEF Publish
    <2>2. PICK e : e = pub.evt
      OBVIOUS
    <2>3. e \in Requests /\ Under["publisher"] = {e} /\ Under'["publisher"] = {}
      BY <1>0, <2>1, <2>2, PlaceOf, PlaceOfNext DEF EventShape
    <2>4. CASE sub' = Append(sub, e) /\ UNCHANGED gone
      <3>1. e \notin Elements(sub)
        BY <1>0, <2>3, PlaceOf DEF Divides, Places
      <3>2. /\ sub' \in Seq(Requests) /\ Distinct(sub')
            /\ Elements(sub') = Elements(sub) \cup {e}
        BY <1>0, <2>3, <2>4, <3>1, Sent DEF EventShape
      <3>3. EventShape'
        BY <1>0, <2>1, <2>4, <3>2 DEF EventShape
      <3>4. /\ Under'["subscriber"] = Under["subscriber"] \cup {e}
            /\ \A r \in Places \ {"publisher", "subscriber"} : Under'[r] = Under[r]
        BY <1>0, <2>1, <2>4, <3>2, PlaceOf, PlaceOfNext DEF Places
      <3>5. Answered'
        BY <1>0, <2>1, <2>4, AnsweredAside
      <3> QED
        BY <1>0, <2>1, <2>3, <3>2, <3>3, <3>4, <3>5, MovesA DEF Places
    <2>5. CASE gone' = [gone EXCEPT !.dropped = @ \cup {e}] /\ UNCHANGED sub
      <3>1. /\ gone'.failed = gone.failed /\ gone'.delivered = gone.delivered
            /\ gone'.dropped = gone.dropped \cup {e}
            /\ gone' = [failed |-> gone'.failed, dropped |-> gone'.dropped,
                        delivered |-> gone'.delivered]
        BY <1>0, <2>5 DEF EventShape
      <3>2. EventShape'
        BY <1>0, <2>1, <2>5, <3>1 DEF EventShape
      <3>3. /\ Under'["dropped"] = Under["dropped"] \cup {e}
            /\ \A r \in Places \ {"publisher", "dropped"} : Under'[r] = Under[r]
        BY <1>0, <2>1, <2>5, <3>1, PlaceOf, PlaceOfNext DEF Places
      <3>4. Answered'
        BY <1>0, <2>1, <3>1, AnsweredAside
      <3> QED
        BY <1>0, <2>1, <2>3, <2>5, <3>2, <3>3, <3>4, MovesA DEF Places
    <2> QED
      BY <1>2, <2>2, <2>4, <2>5 DEF Publish
  <1>3. CASE PublishFails
    <2>1. /\ pub.pc = "publish" /\ pub' = [pub EXCEPT !.pc = "report"]
          /\ gone' = [gone EXCEPT !.failed = @ \cup {pub.evt}]
          /\ UNCHANGED <<evtChan, ferrs, sub>>
      BY <1>3 DEF PublishFails
    <2>2. PICK e : e = pub.evt
      OBVIOUS
    <2>3. /\ pub'.pc = "report" /\ pub' = [pc |-> pub'.pc, evt |-> pub'.evt]
          /\ e \in Requests
      BY <1>0, <2>1, <2>2 DEF EventShape
    <2>4. /\ gone'.failed = gone.failed \cup {e} /\ gone'.dropped = gone.dropped
          /\ gone'.delivered = gone.delivered
          /\ gone' = [failed |-> gone'.failed, dropped |-> gone'.dropped,
                      delivered |-> gone'.delivered]
      BY <1>0, <2>1, <2>2 DEF EventShape
    <2>5. EventShape'
      BY <1>0, <2>1, <2>3, <2>4 DEF EventShape
    <2>6. /\ Under["publisher"] = {e} /\ Under'["publisher"] = {}
          /\ Under'["failed"] = Under["failed"] \cup {e}
          /\ \A r \in Places \ {"publisher", "failed"} : Under'[r] = Under[r]
      BY <1>0, <2>1, <2>2, <2>3, <2>4, PlaceOf, PlaceOfNext DEF Places
    <2>7. e \notin gone.failed
      BY <1>0, <2>6, PlaceOf DEF Divides, Places
    <2>8. Answered'
      <3>1. /\ IsFiniteSet(Unavailable) /\ IsFiniteSet(gone.failed)
            /\ Cardinality(Unavailable) + ferrs + 0 = Cardinality(gone.failed)
        BY <2>1 DEF AInv, Answered
      <3>2. /\ IsFiniteSet(gone'.failed)
            /\ Cardinality(gone'.failed) = Cardinality(gone.failed) + 1
            /\ Cardinality(Unavailable) \in Nat /\ ferrs \in Nat
        BY <1>0, <2>4, <2>7, <3>1, FS_AddElement, FS_CardinalityType DEF EventShape
      <3>3. Unavailable' = Unavailable /\ ferrs' = ferrs
        BY <1>0, <2>1 DEF Unavailable
      <3> QED
        BY <2>3, <3>1, <3>2, <3>3 DEF Answered
    <2> QED
      BY <1>0, <2>1, <2>5, <2>6, <2>8, MovesA DEF Places
  <1>4. CASE ReportFailure
    <2>1. /\ pub.pc = "report" /\ pub' = [pc |-> "take", evt |-> None] /\ ferrs' = ferrs + 1
          /\ UNCHANGED <<evtChan, sub, gone>>
      BY <1>4 DEF ReportFailure
    <2>2. EventShape'
      BY <1>0, <2>1 DEF EventShape
    <2>3. Placed'
      <3>1. \A q \in Places : Under'[q] = Under[q]
        BY <1>0, <2>1, PlaceOf, PlaceOfNext DEF Places
      <3>2. Accepted' = Accepted
        BY <1>0 DEF Accepted
      <3>3. PICK U, V, S : U = Under /\ V = Under' /\ S = Accepted
        OBVIOUS
      <3>4. Divides(V, S)
        BY <1>0, <3>1, <3>3, Stays
      <3> QED
        BY <1>0, <2>1, <3>2, <3>3, <3>4 DEF Placed
    <2>4. Answered'
      <3>1. /\ IsFiniteSet(Unavailable) /\ IsFiniteSet(gone.failed)
            /\ Cardinality(Unavailable) + ferrs + 1 = Cardinality(gone.failed)
        BY <2>1 DEF AInv, Answered
      <3>2. Cardinality(Unavailable) \in Nat /\ ferrs \in Nat
        BY <1>0, <3>1, FS_CardinalityType DEF EventShape
      <3>3. Unavailable' = Unavailable /\ pub'.pc = "take"
        BY <1>0, <2>1 DEF Unavailable
      <3> QED
        BY <2>1, <3>1, <3>2, <3>3 DEF Answered
    <2> QED
      BY <2>2, <2>3, <2>4 DEF AInv
  <1> QED
    BY <1>1, <1>2, <1>3, <1>4 DEF Publisher

\* The worker keeps it: only two of its steps move an event.
LEMMA WorkerA == ASSUME WorkerShape, AInv, Worker PROVE AInv'
  <1>0. /\ EventShape /\ Divides(Under, Accepted) /\ Distinct(evtChan) /\ Distinct(sub)
        /\ UNCHANGED front
    BY DEF AInv, Placed, Worker, Receive, SendBool, Attempt, SendError, LookForError,
           TakeEvent, Forward, TakeError
  <1>1. w = [pc |-> w.pc, rx |-> w.rx, tx |-> w.tx, tries |-> w.tries, evt |-> w.evt]
    BY DEF WorkerShape
  <1>2. CASE TakeEvent
    <2>1. /\ w.pc = "loop" /\ sub # <<>> /\ sub' = Tail(sub)
          /\ w' = [w EXCEPT !.pc = "forward", !.evt = Head(sub)]
          /\ UNCHANGED gone
      BY <1>2 DEF TakeEvent
    <2>2. PICK e : e = Head(sub)
      OBVIOUS
    <2>3. /\ e \in Requests /\ e \in Elements(sub)
          /\ sub' \in Seq(Requests) /\ Distinct(sub')
          /\ Elements(sub') = Elements(sub) \ {e}
      BY <1>0, <2>1, <2>2, Received DEF EventShape
    <2>4. w'.pc = "forward" /\ w'.evt = e /\ w.evt = None /\ e # None
      BY <1>0, <1>1, <2>1, <2>2, <2>3, TransportAssumption DEF EventShape
    <2>5. EventShape'
      BY <1>0, <2>1, <2>3, <2>4 DEF EventShape, front
    <2>6. /\ e \in Under["subscriber"] /\ Under'["subscriber"] = Under["subscriber"] \ {e}
          /\ Under'["worker"] = Under["worker"] \cup {e}
          /\ \A r \in Places \ {"subscriber", "worker"} : Under'[r] = Under[r]
      <3>1. /\ e \in Under["subscriber"] /\ Under'["subscriber"] = Under["subscriber"] \ {e}
        BY <2>3, PlaceOf, PlaceOfNext
      <3>2. Under["worker"] = {} /\ Under'["worker"] = {e}
        BY <2>4, PlaceOf, PlaceOfNext
      <3>3. \A r \in Places \ {"subscriber", "worker"} : Under'[r] = Under[r]
        BY <1>0, <2>1, PlaceOf, PlaceOfNext DEF Places, front
      <3> QED
        BY <3>1, <3>2, <3>3
    <2>7. Answered'
      BY <1>0, <2>1 DEF AInv, Answered, Unavailable, front
    <2> QED
      BY <1>0, <2>3, <2>5, <2>6, <2>7, MovesA DEF Places, front
  <1>3. CASE Forward
    <2>1. /\ w.pc = "forward" /\ w' = [w EXCEPT !.pc = "loop", !.evt = None]
          /\ gone' = [gone EXCEPT !.delivered = @ \cup {w.evt}] /\ UNCHANGED sub
      BY <1>3 DEF Forward
    <2>2. PICK e : e = w.evt
      OBVIOUS
    <2>3. e \in Requests /\ e # None /\ w'.pc = "loop" /\ w'.evt = None
      BY <1>0, <1>1, <2>1, <2>2, TransportAssumption DEF EventShape
    <2>4. /\ gone'.failed = gone.failed /\ gone'.dropped = gone.dropped
          /\ gone'.delivered = gone.delivered \cup {e}
          /\ gone' = [failed |-> gone'.failed, dropped |-> gone'.dropped,
                      delivered |-> gone'.delivered]
      BY <1>0, <2>1, <2>2 DEF EventShape
    <2>5. EventShape'
      BY <1>0, <2>1, <2>3, <2>4 DEF EventShape, front
    <2>6. /\ Under["worker"] = {e} /\ Under'["worker"] = {}
          /\ Under'["delivered"] = Under["delivered"] \cup {e}
          /\ \A r \in Places \ {"worker", "delivered"} : Under'[r] = Under[r]
      BY <1>0, <2>1, <2>2, <2>3, <2>4, PlaceOf, PlaceOfNext DEF Places, front
    <2>7. Answered'
      BY <1>0, <2>4 DEF AInv, Answered, Unavailable, front
    <2> QED
      BY <1>0, <2>1, <2>5, <2>6, <2>7, MovesA DEF Places, front
  <1>4. CASE Receive \/ SendBool \/ SendError \/ LookForError \/ TakeError
    <2>1. /\ w'.evt = w.evt /\ w.pc # "forward" /\ w'.pc # "forward"
          /\ UNCHANGED <<sub, gone>>
      BY <1>1, <1>4 DEF Receive, SendBool, Attempt, SendError, LookForError, TakeError
    <2>2. /\ req' \in [Requests -> Answers] /\ Accepted' = Accepted
          /\ Unavailable' = Unavailable
      BY <1>0 DEF EventShape, Accepted, Unavailable, front
    <2> QED
      BY <1>0, <2>1, <2>2, Nothing DEF front
  <1> QED
    BY <1>2, <1>3, <1>4 DEF Worker

\* Every step keeps the invariant.
LEMMA StepA == WInv /\ AInv /\ [Next]_vars => AInv'
  <1> SUFFICES ASSUME WInv, AInv, [Next]_vars PROVE AInv'
    OBVIOUS
  <1>1. ASSUME NEW r \in Requests, HandleEvents(r) PROVE AInv'
    BY <1>1, PushA, AnswerA DEF HandleEvents
  <1>2. CASE BoolPublishFails \/ Outage \/ UNCHANGED vars
    <2>1. UNCHANGED <<req, evtChan, ferrs, pub, sub, gone, w>>
      BY <1>2 DEF BoolPublishFails, Outage, vars, front
    <2>2. /\ req' \in [Requests -> Answers] /\ Accepted' = Accepted
          /\ Unavailable' = Unavailable
      BY <2>1 DEF AInv, EventShape, Accepted, Unavailable
    <2> QED
      BY <2>1, <2>2, Nothing
  <1> QED
    BY <1>1, <1>2, PublisherA, WorkerA DEF Next, WInv

\* An event that was answered with "ok" is in exactly one place, an event that was
\* not is nowhere, and each failed publication answers for one request that failed,
\* for any number of requests and channels of any capacity.
THEOREM EventsAccounted == Spec => []Accounted
  <1>1. AInv => Accounted
    <2> SUFFICES ASSUME AInv PROVE Accounted
      OBVIOUS
    <2>1. UNION {Under[p] : p \in DOMAIN Under} = {r \in Requests : req[r] = "ok"}
      BY PlaceOf DEF AInv, Placed, Divides, Accepted
    <2>2. \A p, q \in DOMAIN Under : p # q => Under[p] \cap Under[q] = {}
      BY PlaceOf DEF AInv, Placed, Divides
    <2>3. Cardinality(Elements(evtChan)) = Len(evtChan) /\ Cardinality(Elements(sub)) = Len(sub)
      BY Length DEF AInv, EventShape, Placed
    <2> QED
      BY <2>1, <2>2, <2>3 DEF Accounted, AInv, Answered, Unavailable
  <1> QED
    BY <1>1, InitW, StepW, InitA, StepA, PTL DEF Spec
=============================================================================
