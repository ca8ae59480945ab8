------------------------------ MODULE Overload ------------------------------
(* Back-pressure: the backends notice that events come late and report it    *)
(* (InitBackLogManager, initBpTicker, siem/backlogmgr.go), the frontend keeps *)
(* one flag (overloadManager, server/server.go) and moves the rate at which   *)
(* it accepts events (limiter/limiter.go).                                    *)
EXTENDS Integers, Sequences

CONSTANTS
  Backends,
  MaxRPS, MinRPSs,         \* maxEPS, and the values minEPS may have
  RaiseSteps, LowerSteps,  \* 100 and 10 in the code
  Cap,                     \* messages between a backend and the detector
  MaxFlips                 \* bound: changes of the load

ASSUME OverloadAssumption ==
  /\ Backends # {}
  /\ MaxRPS \in Nat /\ MinRPSs \subseteq 0..MaxRPS
  /\ RaiseSteps \in Nat \ {0} /\ LowerSteps \in Nat \ {0}
  /\ Cap \in Nat \ {0} /\ MaxFlips \in Nat

VARIABLES
  pressure,  \* late events keep coming, at intervals below holdDuration
  flips,     \* how often that has changed
  back,      \* initBpTicker of each backend
  wire,      \* messages on their way to the detector
  lost,      \* a message could not be published
  late,      \* the initial message of a backend came after its first true
  flag,      \* overloadFlag
  lim        \* the limiter: its rate and minRPS

vars == <<pressure, flips, back, wire, lost, late, flag, lim>>

\* initial: the goroutine with the initial false has not sent it; armed, tick:
\* the timer, and an expiry in its channel; got: the timer goroutine has taken
\* one and is about to lock.
Ticker == [prev : BOOLEAN, initial : BOOLEAN, armed : BOOLEAN, tick : BOOLEAN,
           got : BOOLEAN]

Init ==
  /\ pressure = [b \in Backends |-> FALSE] /\ flips = 0
  /\ back = [b \in Backends |-> [prev |-> FALSE, initial |-> TRUE, armed |-> TRUE,
                                 tick |-> FALSE, got |-> FALSE]]
  /\ wire = [b \in Backends |-> <<>>] /\ lost = FALSE /\ late = FALSE
  /\ flag = FALSE
  /\ \E min \in MinRPSs : lim = [min |-> min, rate |-> MaxRPS - (MaxRPS - min) \div 2]

-----------------------------------------------------------------------------
(* A backend *)

Room(b) == Len(wire[b]) < Cap

Report_Unsent(b, v, ticker) ==
  /\ back' = [back EXCEPT ![b] = [ticker EXCEPT !.prev = v]]
  /\ IF ticker.prev # v /\ Room(b) THEN wire' = [wire EXCEPT ![b] = Append(@, v)]
                                   ELSE UNCHANGED wire

Report_KeepsPrev(b, v, ticker) ==
  IF ticker.prev # v /\ Room(b)
  THEN /\ wire' = [wire EXCEPT ![b] = Append(@, v)]
       /\ back' = [back EXCEPT ![b] = [ticker EXCEPT !.prev = TRUE]]
  ELSE back' = [back EXCEPT ![b] = ticker] /\ UNCHANGED wire

\* The send in a critical section of initBpTicker: prevState only changes with it.
Report(b, v, ticker) ==
  IF ticker.prev # v /\ Room(b)
  THEN /\ wire' = [wire EXCEPT ![b] = Append(@, v)]
       /\ back' = [back EXCEPT ![b] = [ticker EXCEPT !.prev = v]]
  ELSE back' = [back EXCEPT ![b] = ticker] /\ UNCHANGED wire

SendInitial(b) ==
  /\ back[b].initial /\ Room(b)
  /\ back' = [back EXCEPT ![b].initial = FALSE]
  /\ wire' = [wire EXCEPT ![b] = Append(@, FALSE)]
  /\ late' = (late \/ back[b].prev)
  /\ UNCHANGED <<pressure, flips, lost, flag, lim>>

\* A late event reaches the merged channel; the timer is set again, which leaves
\* an expiry in its channel where it is.
Signal(b) ==
  /\ pressure[b]
  /\ Report(b, TRUE, [back[b] EXCEPT !.armed = TRUE])
  /\ UNCHANGED <<pressure, flips, lost, late, flag, lim>>

Expire(b) ==
  /\ back[b].armed /\ ~pressure[b]
  /\ back' = [back EXCEPT ![b].armed = FALSE, ![b].tick = TRUE]
  /\ UNCHANGED <<pressure, flips, wire, lost, late, flag, lim>>

TakeTick(b) ==
  /\ back[b].tick /\ ~back[b].got
  /\ back' = [back EXCEPT ![b].tick = FALSE, ![b].got = TRUE]
  /\ UNCHANGED <<pressure, flips, wire, lost, late, flag, lim>>

HoldOver_NoReset(b) ==
  /\ back[b].got
  /\ Report(b, FALSE, [back[b] EXCEPT !.got = FALSE])
  /\ UNCHANGED <<pressure, flips, lost, late, flag, lim>>

HoldOver(b) ==
  /\ back[b].got
  /\ Report(b, FALSE, [back[b] EXCEPT !.got = FALSE, !.armed = TRUE])
  /\ UNCHANGED <<pressure, flips, lost, late, flag, lim>>

-----------------------------------------------------------------------------
(* The environment *)

\* The load of a backend changes.
Flip(b) ==
  /\ flips < MaxFlips /\ flips' = flips + 1
  /\ pressure' = [pressure EXCEPT ![b] = ~@]
  /\ UNCHANGED <<back, wire, lost, late, flag, lim>>

\* The transport loses a message, which is not sent again.
Lose(b) ==
  /\ wire[b] # <<>> /\ ~lost /\ lost' = TRUE
  /\ wire' = [wire EXCEPT ![b] = Tail(@)]
  /\ UNCHANGED <<pressure, flips, back, late, flag, lim>>

-----------------------------------------------------------------------------
(* The frontend *)

\* The detector: whichever backend it is from, the last message counts.
Detect(b) ==
  /\ wire[b] # <<>>
  /\ flag' = Head(wire[b])
  /\ wire' = [wire EXCEPT ![b] = Tail(@)]
  /\ UNCHANGED <<pressure, flips, back, lost, late, lim>>

Raise(l) == LET target == l.rate + (MaxRPS - l.min) \div RaiseSteps IN
            [l EXCEPT !.rate = IF target > MaxRPS THEN MaxRPS ELSE target]

Lower_Unbounded(l) == [l EXCEPT !.rate = @ - (MaxRPS - l.min) \div LowerSteps]

Lower(l) == LET target == l.rate - (MaxRPS - l.min) \div LowerSteps IN
            [l EXCEPT !.rate = IF target < l.min THEN l.min ELSE target]

\* The modifier, every second tick.
Modify == lim' = (IF flag THEN Lower(lim) ELSE Raise(lim))
          /\ UNCHANGED <<pressure, flips, back, wire, lost, late, flag>>

-----------------------------------------------------------------------------
Backend(b) == SendInitial(b) \/ Signal(b) \/ Expire(b) \/ TakeTick(b) \/ HoldOver(b)

Next == \/ \E b \in Backends : Backend(b) \/ Flip(b) \/ Lose(b) \/ Detect(b)
        \/ Modify

Spec == Init /\ [][Next]_vars

\* Goroutines run, timers fire, late events keep coming under pressure.
FairSpec ==
  /\ Spec
  /\ \A b \in Backends : /\ WF_vars(SendInitial(b)) /\ WF_vars(Signal(b))
                         /\ WF_vars(Expire(b)) /\ WF_vars(TakeTick(b))
                         /\ WF_vars(HoldOver(b)) /\ WF_vars(Detect(b))
  /\ WF_vars(Modify)

-----------------------------------------------------------------------------
(* Properties *)

\* Types; the rate the frontend accepts never leaves minEPS..maxEPS, whatever
\* the steps round to.
TypeOK ==
  /\ pressure \in [Backends -> BOOLEAN] /\ flips \in 0..MaxFlips
  /\ back \in [Backends -> Ticker] /\ wire \in [Backends -> Seq(BOOLEAN)]
  /\ \A b \in Backends : Len(wire[b]) <= Cap
  /\ lost \in BOOLEAN /\ late \in BOOLEAN /\ flag \in BOOLEAN
  /\ lim \in [min : MinRPSs, rate : 0..MaxRPS] /\ lim.rate >= lim.min

\* Where no message was lost or overtaken by an initial one: when none is on its
\* way and all backends agree, the flag is what they agree on.
FlagAgrees ==
  ~lost /\ ~late /\ (\A b \in Backends : wire[b] = <<>>) =>
    \A v \in BOOLEAN : (\A b \in Backends : back[b].prev = v) => flag = v

\* "Frontends will gradually increase its ingestion rate again once the backends
\* no longer report overload condition": up to the maximum, unless a hundredth of
\* the range is less than one.
RateRecovers ==
  [](~lost) /\ MaxRPS - lim.min >= RaiseSteps /\ <>[](\A b \in Backends : ~pressure[b])
  => <>[](lim.rate = MaxRPS)

\* If all backends stay overloaded the rate goes down to the minimum; an expiry
\* that was under way when the load came back does not undo it.
OverloadLowers ==
  [](~lost /\ ~late) /\ MaxRPS - lim.min >= LowerSteps /\ <>[](\A b \in Backends : pressure[b])
  => <>[](lim.rate = lim.min)
=============================================================================
