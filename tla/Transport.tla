------------------------------ MODULE Transport ------------------------------
(* The way of an event from a request to the backend: handleEvents            *)
(* (server/handler.go), the publisher and subscriber goroutines and the error *)
(* channel of the transport (vice/nats), the loop of the worker               *)
(* (worker/worker.go) and its connection to the message queue.                *)
EXTENDS Naturals, Sequences, FiniteSets

CONSTANTS
  Requests,    \* each with an event of its own
  SendCap,     \* the channels of 1024 events
  ErrCap,      \* the error channels of 10
  MaxOutages,  \* bound: times the message queue goes down
  None

ASSUME TransportAssumption ==
  /\ None \notin Requests
  /\ SendCap \in Nat \ {0} /\ ErrCap \in Nat \ {0} /\ MaxOutages \in Nat

VARIABLES
  req,       \* a goroutine of handleEvents: under way, or its answer
  evtChan,   \* EvtChan, which the publisher reads
  ferrs,     \* errors in the error channel of the frontend
  pub,       \* the publisher: position and event
  sub,       \* the channel of the subscriber
  gone,      \* events whose publication failed, was not delivered, or that
             \* have reached the backend
  up,        \* the message queue accepts connections
  outages,
  errs,      \* errors in the error channel of the worker
  w          \* the goroutine of the worker; tries: attempts that failed in a row

vars == <<req, evtChan, ferrs, pub, sub, gone, up, outages, errs, w>>
front == <<req, evtChan, ferrs, pub>>
queue == <<up, outages>>

Init ==
  /\ req = [r \in Requests |-> "start"]
  /\ evtChan = <<>> /\ ferrs = 0 /\ pub = [pc |-> "take", evt |-> None]
  /\ sub = <<>>
  /\ gone = [failed |-> {}, dropped |-> {}, delivered |-> {}]
  /\ up \in BOOLEAN /\ outages = 0
  /\ errs = 0
  /\ w = [pc |-> "receive", rx |-> FALSE, tx |-> FALSE, tries |-> 0, evt |-> None]

-----------------------------------------------------------------------------
(* handleEvents; the frontend serves when its own connection is made *)

Answer(r, a) == req[r] = "start" /\ req' = [req EXCEPT ![r] = a]

\* An event that cannot be parsed, is not valid, or has no usable timestamp.
Refuse(r) ==
  /\ Answer(r, "refused")
  /\ UNCHANGED <<evtChan, ferrs, pub, sub, gone, queue, errs, w>>

\* The three cases of the select.
Push(r) ==
  /\ Answer(r, "ok")
  /\ Len(evtChan) < SendCap
  /\ evtChan' = Append(evtChan, r)
  /\ UNCHANGED <<ferrs, pub, sub, gone, queue, errs, w>>

PushTimesOut(r) ==
  /\ Answer(r, "timeout")
  /\ UNCHANGED <<evtChan, ferrs, pub, sub, gone, queue, errs, w>>

ErrorReceived_Kept(r) ==
  /\ Answer(r, "unavailable")
  /\ ferrs > 0
  /\ UNCHANGED <<evtChan, ferrs, pub, sub, gone, queue, errs, w>>

\* The error of some earlier event; this request's event is not sent.
ErrorReceived(r) ==
  /\ Answer(r, "unavailable")
  /\ ferrs > 0 /\ ferrs' = ferrs - 1
  /\ UNCHANGED <<evtChan, pub, sub, gone, queue, errs, w>>

HandleEvents(r) == \/ Refuse(r) \/ Push(r)
                   \/ PushTimesOut(r) \/ ErrorReceived(r)

-----------------------------------------------------------------------------
(* The publisher of the frontend and the subscription of the backend *)

PublisherTakes ==
  /\ pub.pc = "take" /\ evtChan # <<>>
  /\ pub' = [pc |-> "publish", evt |-> Head(evtChan)]
  /\ evtChan' = Tail(evtChan)
  /\ UNCHANGED <<req, ferrs, sub, gone, queue, errs, w>>

\* Publish succeeds; delivery is at most once, and needs a subscriber.
Publish ==
  /\ pub.pc = "publish" /\ pub' = [pc |-> "take", evt |-> None]
  /\ \/ w.rx /\ Len(sub) < SendCap /\ sub' = Append(sub, pub.evt) /\ UNCHANGED gone
     \/ gone' = [gone EXCEPT !.dropped = @ \cup {pub.evt}] /\ UNCHANGED sub
  /\ UNCHANGED <<req, evtChan, ferrs, queue, errs, w>>

\* It fails: the event is given up, handlePublishError waits for room for the error.
PublishFails ==
  /\ pub.pc = "publish" /\ pub' = [pub EXCEPT !.pc = "report"]
  /\ gone' = [gone EXCEPT !.failed = @ \cup {pub.evt}]
  /\ UNCHANGED <<req, evtChan, ferrs, sub, queue, errs, w>>

ReportFailure ==
  /\ pub.pc = "report" /\ pub' = [pc |-> "take", evt |-> None]
  /\ ferrs < ErrCap /\ ferrs' = ferrs + 1
  /\ UNCHANGED <<req, evtChan, sub, gone, queue, errs, w>>

-----------------------------------------------------------------------------
(* The worker: initMsgQueue until no error is left, then the loop of Start *)

Connected == w.rx \/ w.tx     \* natsEncodedConn is made once and kept

\* Receive and SendBool: an error is sent to the channel this goroutine reads.
Attempt(pc, next, failed, field) ==
  /\ w.pc = pc
  /\ w' = IF Connected \/ up THEN [w EXCEPT !.pc = next, ![field] = TRUE]
                             ELSE [w EXCEPT !.pc = failed]
  /\ UNCHANGED <<front, sub, gone, queue, errs>>

Receive  == Attempt("receive", "sendbool", "error1", "rx")
SendBool == Attempt("sendbool", "look", "error2", "tx")

SendError ==
  /\ w.pc \in {"error1", "error2"}
  /\ errs < ErrCap /\ errs' = errs + 1
  /\ w' = [w EXCEPT !.pc = IF @ = "error1" THEN "sendbool" ELSE "look"]
  /\ UNCHANGED <<front, sub, gone, queue>>

LookForError_Peek ==
  /\ w.pc = "look"
  /\ w' = [w EXCEPT !.pc = IF errs > 0 THEN "receive" ELSE "loop",
                    !.tries = IF errs > 0 /\ @ < ErrCap THEN @ + 1 ELSE @]
  /\ UNCHANGED <<front, sub, gone, queue, errs>>

LookForError_Once ==
  /\ w.pc = "look"
  /\ errs' = IF errs > 0 THEN errs - 1 ELSE 0
  /\ w' = [w EXCEPT !.pc = IF errs > 0 THEN "stopped" ELSE "loop",
                    !.tries = IF errs > 0 /\ @ < ErrCap THEN @ + 1 ELSE @]
  /\ UNCHANGED <<front, sub, gone, queue>>

\* One error at most is taken out before the next attempt, three seconds later.
LookForError ==
  /\ w.pc = "look"
  /\ errs' = IF errs > 0 THEN errs - 1 ELSE 0
  /\ w' = [w EXCEPT !.pc = IF errs > 0 THEN "receive" ELSE "loop",
                    !.tries = IF errs > 0 /\ @ < ErrCap THEN @ + 1 ELSE @]
  /\ UNCHANGED <<front, sub, gone, queue>>

TakeEvent ==
  /\ w.pc = "loop" /\ sub # <<>>
  /\ w' = [w EXCEPT !.pc = "forward", !.evt = Head(sub)]
  /\ sub' = Tail(sub)
  /\ UNCHANGED <<front, gone, queue, errs>>

\* The copier of the backend takes it.
Forward ==
  /\ w.pc = "forward" /\ w' = [w EXCEPT !.pc = "loop", !.evt = None]
  /\ gone' = [gone EXCEPT !.delivered = @ \cup {w.evt}]
  /\ UNCHANGED <<front, sub, queue, errs>>

\* An error, of the overload publisher, makes the worker check the connection.
TakeError ==
  /\ w.pc = "loop" /\ errs > 0 /\ errs' = errs - 1
  /\ w' = [w EXCEPT !.pc = "receive"]
  /\ UNCHANGED <<front, sub, gone, queue>>

BoolPublishFails ==
  /\ w.tx /\ ~up
  /\ errs < ErrCap /\ errs' = errs + 1
  /\ UNCHANGED <<front, sub, gone, queue, w>>

Worker == \/ Receive \/ SendBool \/ SendError \/ LookForError
          \/ TakeEvent \/ Forward \/ TakeError

\* The message queue goes down or comes back.
Outage == /\ IF up THEN outages < MaxOutages /\ outages' = outages + 1
                   ELSE UNCHANGED outages
          /\ up' = ~up
          /\ UNCHANGED <<front, sub, gone, errs, w>>

-----------------------------------------------------------------------------
Publisher == PublisherTakes \/ Publish \/ PublishFails \/ ReportFailure

Next == \/ \E r \in Requests : HandleEvents(r)
        \/ Publisher \/ Worker \/ BoolPublishFails \/ Outage

Spec == Init /\ [][Next]_vars

\* The goroutines run; requests and outages come as they like.
FairSpec == Spec /\ WF_vars(Worker) /\ WF_vars(Publisher)

-----------------------------------------------------------------------------
(* Properties *)

Elements(s) == {s[i] : i \in DOMAIN s}

\* Where an event is that was answered with "ok".
Under == [chan |-> Elements(evtChan),
          publisher |-> IF pub.pc = "publish" THEN {pub.evt} ELSE {},
          subscriber |-> Elements(sub), worker |-> {w.evt} \ {None},
          failed |-> gone.failed, dropped |-> gone.dropped,
          delivered |-> gone.delivered]

\* An event has been accepted if and only if it is in exactly one place: nothing a
\* client was told to send again is delivered, nothing is delivered twice, and
\* nothing disappears but by a failed publication or in the message queue.  Each
\* failed publication makes one request fail, though not the one whose event it
\* was: errors and answers correspond one to one.
Accounted ==
  /\ UNION {Under[p] : p \in DOMAIN Under} = {r \in Requests : req[r] = "ok"}
  /\ \A p, q \in DOMAIN Under : p # q => Under[p] \cap Under[q] = {}
  /\ Cardinality(Elements(evtChan)) = Len(evtChan) /\ Cardinality(Elements(sub)) = Len(sub)
  /\ Cardinality({r \in Requests : req[r] = "unavailable"}) + ferrs
       + (IF pub.pc = "report" THEN 1 ELSE 0) = Cardinality(gone.failed)

\* The worker waits for room in a channel that only it reads.
Hung == w.pc \in {"error1", "error2"} /\ errs = ErrCap

\* It takes a row of failed attempts, one less than the channel has room for.
HangNeedsOutage == Hung => w.tries >= ErrCap - 1

\* "Reconnecting in 3 seconds..": once the message queue is back for good the
\* worker returns to its loop, unless it hung before.
WorkerReconnects == <>[]up => []<>(w.pc = "loop" \/ Hung)
=============================================================================
