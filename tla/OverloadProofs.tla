---------------------------- MODULE OverloadProofs ----------------------------
(* The rate stays in its range and the flag follows the backends, for any      *)
(* number of backends, any limits and steps, and channels of any capacity.     *)
EXTENDS Overload, SequenceTheorems, TLAPS

-----------------------------------------------------------------------------
(* The limiter *)

Limiter == [min : MinRPSs, rate : 0..MaxRPS]
InBounds(l) == l \in Limiter /\ l.rate >= l.min

\* A step of the limiter, an integer part of the range, is not negative.
LEMMA StepInRange ==
  ASSUME NEW a \in Nat, NEW k \in Nat \ {0}
  PROVE  a \div k \in Nat
  OBVIOUS

\* The rate the limiter begins with is in its range.
LEMMA StartInBounds ==
  ASSUME NEW min \in MinRPSs
  PROVE  InBounds([min |-> min, rate |-> MaxRPS - (MaxRPS - min) \div 2])
  <1>1. min \in 0..MaxRPS /\ MaxRPS \in Nat
    BY OverloadAssumption
  <1> DEFINE h == (MaxRPS - min) \div 2
  <1>2. h \in 0..(MaxRPS - min)
    BY <1>1
  <1>3. MaxRPS - h \in 0..MaxRPS /\ MaxRPS - h >= min
    BY <1>1, <1>2
  <1> QED
    BY <1>3 DEF InBounds, Limiter

\* Raising the rate stops at the maximum, whatever the step is rounded to.
LEMMA RaiseInBounds ==
  ASSUME NEW l, InBounds(l)
  PROVE  InBounds(Raise(l))
  <1>1. l \in [min : MinRPSs, rate : 0..MaxRPS] /\ l.rate >= l.min /\ l.min \in 0..MaxRPS
    BY OverloadAssumption DEF InBounds, Limiter
  <1> DEFINE s == (MaxRPS - l.min) \div RaiseSteps
  <1>2. MaxRPS \in Nat /\ MaxRPS - l.min \in Nat /\ RaiseSteps \in Nat \ {0}
    BY <1>1, OverloadAssumption
  <1>3. s \in Nat
    BY <1>2, StepInRange
  <1> HIDE DEF s
  <1>4. Raise(l) = [l EXCEPT !.rate = IF l.rate + s > MaxRPS THEN MaxRPS ELSE l.rate + s]
    BY DEF Raise, s
  <1>5. (IF l.rate + s > MaxRPS THEN MaxRPS ELSE l.rate + s) \in l.rate..MaxRPS
    BY <1>1, <1>2, <1>3
  <1> QED
    BY <1>1, <1>2, <1>4, <1>5 DEF InBounds, Limiter

\* Lowering it stops at the minimum.
LEMMA LowerInBounds ==
  ASSUME NEW l, InBounds(l)
  PROVE  InBounds(Lower(l))
  <1>1. l \in [min : MinRPSs, rate : 0..MaxRPS] /\ l.rate >= l.min /\ l.min \in 0..MaxRPS
    BY OverloadAssumption DEF InBounds, Limiter
  <1> DEFINE s == (MaxRPS - l.min) \div LowerSteps
  <1>2. MaxRPS \in Nat /\ MaxRPS - l.min \in Nat /\ LowerSteps \in Nat \ {0}
    BY <1>1, OverloadAssumption
  <1>3. s \in Nat
    BY <1>2, StepInRange
  <1> HIDE DEF s
  <1>4. Lower(l) = [l EXCEPT !.rate = IF l.rate - s < l.min THEN l.min ELSE l.rate - s]
    BY DEF Lower, s
  <1>5. (IF l.rate - s < l.min THEN l.min ELSE l.rate - s) \in l.min..l.rate
    BY <1>1, <1>2, <1>3
  <1> QED
    BY <1>1, <1>2, <1>4, <1>5 DEF InBounds, Limiter

-----------------------------------------------------------------------------
(* Types *)

\* What a critical section of initBpTicker leaves.
LEMMA ReportType ==
  ASSUME TypeOK, NEW b \in Backends, NEW v \in BOOLEAN, NEW t \in Ticker, Report(b, v, t)
  PROVE  /\ back' \in [Backends -> Ticker]
         /\ wire' \in [Backends -> Seq(BOOLEAN)]
         /\ \A c \in Backends : Len(wire'[c]) <= Cap
  <1>1. [t EXCEPT !.prev = v] \in Ticker
    BY DEF Ticker
  <1>2. CASE t.prev # v /\ Room(b)
    <2>1. wire' = [wire EXCEPT ![b] = Append(@, v)] /\ back' = [back EXCEPT ![b] = [t EXCEPT !.prev = v]]
      BY <1>2 DEF Report
    <2>2. Append(wire[b], v) \in Seq(BOOLEAN) /\ Len(Append(wire[b], v)) <= Cap
      BY <1>2, OverloadAssumption DEF TypeOK, Room
    <2> QED
      BY <2>1, <2>2, <1>1 DEF TypeOK
  <1>3. CASE ~(t.prev # v /\ Room(b))
    BY <1>3 DEF Report, TypeOK
  <1> QED
    BY <1>2, <1>3

\* Taking the first message leaves the channel as it should be.
LEMMA TakeType ==
  ASSUME TypeOK, NEW b \in Backends, wire[b] # <<>>, wire' = [wire EXCEPT ![b] = Tail(@)]
  PROVE  wire' \in [Backends -> Seq(BOOLEAN)] /\ \A c \in Backends : Len(wire'[c]) <= Cap
  <1>1. wire[b] \in Seq(BOOLEAN) /\ Len(wire[b]) <= Cap
    BY DEF TypeOK
  <1>2. Tail(wire[b]) \in Seq(BOOLEAN) /\ Len(Tail(wire[b])) = Len(wire[b]) - 1
    BY <1>1, HeadTailProperties
  <1>3. Cap \in Nat /\ Len(wire[b]) \in Nat
    BY <1>1, OverloadAssumption
  <1> QED
    BY <1>1, <1>2, <1>3 DEF TypeOK

\* The state begins as it should be.
LEMMA InitType == Init => TypeOK
  <1> SUFFICES ASSUME Init PROVE TypeOK
    OBVIOUS
  <1>1. lim \in Limiter /\ lim.rate >= lim.min
    BY StartInBounds DEF Init, InBounds
  <1>2. back \in [Backends -> Ticker]
    BY DEF Init, Ticker
  <1>3. wire \in [Backends -> Seq(BOOLEAN)] /\ \A b \in Backends : Len(wire[b]) <= Cap
    <2>1. <<>> \in Seq(BOOLEAN) /\ Len(<<>>) = 0 /\ 0 <= Cap
      BY OverloadAssumption
    <2> QED
      BY <2>1 DEF Init
  <1>4. pressure \in [Backends -> BOOLEAN] /\ lost \in BOOLEAN /\ late \in BOOLEAN
        /\ flag \in BOOLEAN
    BY DEF Init
  <1>5. flips \in 0..MaxFlips
    BY OverloadAssumption DEF Init
  <1> QED
    BY <1>1, <1>2, <1>3, <1>4, <1>5 DEF TypeOK, Limiter

\* Every step keeps types and bounds.
LEMMA StepType == TypeOK /\ [Next]_vars => TypeOK'
  <1> SUFFICES ASSUME TypeOK, [Next]_vars PROVE TypeOK'
    OBVIOUS
  <1>1. ASSUME NEW b \in Backends, SendInitial(b) PROVE TypeOK'
    <2>1. Append(wire[b], FALSE) \in Seq(BOOLEAN) /\ Len(Append(wire[b], FALSE)) <= Cap
      BY <1>1, OverloadAssumption DEF TypeOK, SendInitial, Room
    <2>2. back'[b] \in Ticker
      BY <1>1 DEF TypeOK, SendInitial, Ticker
    <2> QED
      BY <1>1, <2>1, <2>2 DEF TypeOK, SendInitial, Ticker
  <1>2. ASSUME NEW b \in Backends, Signal(b) PROVE TypeOK'
    <2>1. [back[b] EXCEPT !.armed = TRUE] \in Ticker
      BY DEF TypeOK, Ticker
    <2> QED
      BY <1>2, <2>1, ReportType DEF TypeOK, Signal
  <1>3. ASSUME NEW b \in Backends, Expire(b) PROVE TypeOK'
    BY <1>3 DEF TypeOK, Expire, Ticker
  <1>4. ASSUME NEW b \in Backends, TakeTick(b) PROVE TypeOK'
    BY <1>4 DEF TypeOK, TakeTick, Ticker
  <1>5. ASSUME NEW b \in Backends, HoldOver(b) PROVE TypeOK'
    <2>1. [back[b] EXCEPT !.got = FALSE, !.armed = TRUE] \in Ticker
      BY DEF TypeOK, Ticker
    <2> QED
      BY <1>5, <2>1, ReportType DEF TypeOK, HoldOver
  <1>6. ASSUME NEW b \in Backends, Flip(b) PROVE TypeOK'
    BY <1>6, OverloadAssumption DEF TypeOK, Flip
  <1>7. ASSUME NEW b \in Backends, Lose(b) PROVE TypeOK'
    BY <1>7, TakeType DEF TypeOK, Lose
  <1>8. ASSUME NEW b \in Backends, Detect(b) PROVE TypeOK'
    <2>1. Head(wire[b]) \in BOOLEAN
      BY <1>8 DEF TypeOK, Detect
    <2> QED
      BY <1>8, <2>1, TakeType DEF TypeOK, Detect
  <1>9. CASE Modify
    <2>1. InBounds(lim)
      BY DEF TypeOK, InBounds, Limiter
    <2>2. InBounds(lim')
      BY <1>9, <2>1, RaiseInBounds, LowerInBounds DEF Modify
    <2> QED
      BY <1>9, <2>2 DEF TypeOK, Modify, InBounds, Limiter
  <1>10. CASE UNCHANGED vars
    BY <1>10 DEF TypeOK, vars
  <1> QED
    BY <1>1, <1>2, <1>3, <1>4, <1>5, <1>6, <1>7, <1>8, <1>9, <1>10 DEF Next, Backend

\* The rate at which the frontend accepts events never leaves minEPS..maxEPS, and no
\* channel holds more than its capacity.
THEOREM TypeCorrect == Spec => []TypeOK
  BY InitType, StepType, PTL DEF Spec
-----------------------------------------------------------------------------
(* The flag *)

Reliable == ~lost /\ ~late

\* The last message of a backend that is under way says what it believes it has
\* told; and where no message of some backend is under way the flag is that, for
\* one backend at least, the one that was heard last.
LastIsPrev == \A b \in Backends : wire[b] # <<>> => wire[b][Len(wire[b])] = back[b].prev
HeardLast == \E b \in Backends : wire[b] = <<>> => back[b].prev = flag

FlagInv == TypeOK /\ (Reliable => LastIsPrev /\ HeardLast)

\* The message that is sent is the last one of the channel.
LEMMA LastOfAppend ==
  ASSUME NEW s \in Seq(BOOLEAN), NEW v \in BOOLEAN
  PROVE  Append(s, v) # <<>> /\ Append(s, v)[Len(Append(s, v))] = v
  BY AppendProperties

\* The message that is taken out is the last one, or leaves the last one there.
LEMMA LastOfTail ==
  ASSUME NEW s \in Seq(BOOLEAN), s # <<>>
  PROVE  /\ Tail(s) # <<>> => Tail(s)[Len(Tail(s))] = s[Len(s)]
         /\ Tail(s) = <<>> => Head(s) = s[Len(s)]
  <1>1. Len(s) \in Nat \ {0} /\ Head(s) = s[1]
    OBVIOUS
  <1>2. /\ Tail(s) \in Seq(BOOLEAN) /\ Len(Tail(s)) = Len(s) - 1
        /\ \A i \in 1..Len(Tail(s)) : Tail(s)[i] = s[i + 1]
    BY HeadTailProperties
  <1>3. Tail(s) = <<>> <=> Len(Tail(s)) = 0
    BY <1>2, EmptySeq
  <1>4. CASE Len(s) = 1
    BY <1>1, <1>2, <1>3, <1>4
  <1>5. CASE Len(s) # 1
    <2>1. Len(Tail(s)) \in 1..Len(Tail(s)) /\ Len(Tail(s)) + 1 = Len(s)
      BY <1>1, <1>2, <1>5
    <2> QED
      BY <1>1, <1>2, <1>3, <2>1
  <1> QED
    BY <1>4, <1>5

\* A critical section of initBpTicker keeps both.
LEMMA ReportKeeps ==
  ASSUME TypeOK, LastIsPrev, HeardLast, UNCHANGED flag,
         NEW b \in Backends, NEW v \in BOOLEAN, NEW t \in Ticker, t.prev = back[b].prev,
         Report(b, v, t)
  PROVE  LastIsPrev' /\ HeardLast'
  <1>1. CASE t.prev # v /\ Room(b)
    <2>1. /\ wire' = [wire EXCEPT ![b] = Append(@, v)]
          /\ back' = [back EXCEPT ![b] = [t EXCEPT !.prev = v]]
      BY <1>1 DEF Report
    <2>2. wire[b] \in Seq(BOOLEAN) /\ wire'[b] = Append(wire[b], v)
      BY <2>1 DEF TypeOK
    <2>3. wire'[b] # <<>> /\ wire'[b][Len(wire'[b])] = v
      BY <2>2, LastOfAppend
    <2>4. back'[b].prev = v
      BY <2>1 DEF TypeOK, Ticker
    <2>5. \A c \in Backends \ {b} : wire'[c] = wire[c] /\ back'[c] = back[c]
      BY <2>1 DEF TypeOK
    <2> QED
      BY <2>3, <2>4, <2>5 DEF LastIsPrev, HeardLast
  <1>2. CASE ~(t.prev # v /\ Room(b))
    <2>1. UNCHANGED wire /\ \A c \in Backends : back'[c].prev = back[c].prev
      BY <1>2 DEF Report, TypeOK
    <2> QED
      BY <2>1 DEF LastIsPrev, HeardLast
  <1> QED
    BY <1>1, <1>2

\* What a step leaves that touches neither the channels, nor what was told, nor
\* the flag.
LEMMA QuietKeeps ==
  ASSUME LastIsPrev, HeardLast, UNCHANGED <<wire, flag>>,
         \A c \in Backends : back'[c].prev = back[c].prev
  PROVE  LastIsPrev' /\ HeardLast'
  BY DEF LastIsPrev, HeardLast

\* At first nobody has told anything and the flag is down.
LEMMA InitFlag == Init => FlagInv
  <1> SUFFICES ASSUME Init PROVE LastIsPrev /\ HeardLast
    BY InitType DEF FlagInv
  <1>1. \A b \in Backends : wire[b] = <<>> /\ back[b].prev = flag
    BY DEF Init
  <1> QED
    BY <1>1, OverloadAssumption DEF LastIsPrev, HeardLast

\* Every step keeps the invariant, as long as no message is lost or overtaken.
LEMMA StepFlag == FlagInv /\ [Next]_vars => FlagInv'
  <1> SUFFICES ASSUME FlagInv, [Next]_vars, Reliable' PROVE LastIsPrev' /\ HeardLast'
    BY StepType DEF FlagInv
  <1> USE DEF FlagInv
  <1>0. TypeOK /\ TypeOK'
    BY StepType
  <1>1. ASSUME NEW b \in Backends, SendInitial(b) PROVE LastIsPrev' /\ HeardLast'
    <2>1. Reliable /\ back[b].prev = FALSE
      BY <1>0, <1>1 DEF Reliable, SendInitial, TypeOK, Ticker
    <2>2. wire[b] \in Seq(BOOLEAN) /\ wire'[b] = Append(wire[b], FALSE)
      BY <1>0, <1>1 DEF TypeOK, SendInitial
    <2>3. wire'[b] # <<>> /\ wire'[b][Len(wire'[b])] = FALSE
      BY <2>2, LastOfAppend
    <2>4. back'[b].prev = FALSE
      BY <1>0, <1>1, <2>1 DEF SendInitial, TypeOK, Ticker
    <2>5. \A c \in Backends \ {b} : wire'[c] = wire[c] /\ back'[c] = back[c]
      BY <1>0, <1>1 DEF TypeOK, SendInitial
    <2> QED
      BY <1>0, <1>1, <2>1, <2>3, <2>4, <2>5 DEF LastIsPrev, HeardLast, SendInitial
  <1>2. ASSUME NEW b \in Backends, Signal(b) PROVE LastIsPrev' /\ HeardLast'
    <2> DEFINE t == [back[b] EXCEPT !.armed = TRUE]
    <2>1. t \in Ticker /\ t.prev = back[b].prev
      BY <1>0 DEF TypeOK, Ticker
    <2>2. Report(b, TRUE, t) /\ UNCHANGED flag /\ Reliable
      BY <1>2 DEF Signal, Reliable
    <2> QED
      BY <1>0, <2>1, <2>2, ReportKeeps
  <1>3. ASSUME NEW b \in Backends, Expire(b) \/ TakeTick(b) PROVE LastIsPrev' /\ HeardLast'
    <2>1. \A c \in Backends : back'[c].prev = back[c].prev
      <3>1. back \in [Backends -> Ticker]
        BY <1>0 DEF TypeOK
      <3>2. CASE Expire(b)
        BY <3>1, <3>2 DEF Expire, Ticker
      <3>3. CASE TakeTick(b)
        BY <3>1, <3>3 DEF TakeTick, Ticker
      <3> QED
        BY <1>3, <3>2, <3>3
    <2> QED
      BY <1>3, <2>1, QuietKeeps DEF Expire, TakeTick, Reliable
  <1>4. ASSUME NEW b \in Backends, HoldOver(b) PROVE LastIsPrev' /\ HeardLast'
    <2> DEFINE t == [back[b] EXCEPT !.got = FALSE, !.armed = TRUE]
    <2>1. t \in Ticker /\ t.prev = back[b].prev
      BY <1>0 DEF TypeOK, Ticker
    <2>2. Report(b, FALSE, t) /\ UNCHANGED flag /\ Reliable
      BY <1>4 DEF HoldOver, Reliable
    <2> QED
      BY <1>0, <2>1, <2>2, ReportKeeps
  <1>5. ASSUME NEW b \in Backends, Flip(b) PROVE LastIsPrev' /\ HeardLast'
    BY <1>5, QuietKeeps DEF Flip, Reliable
  <1>6. ASSUME NEW b \in Backends, Lose(b) PROVE FALSE
    BY <1>6 DEF Lose, Reliable
  <1>7. ASSUME NEW b \in Backends, Detect(b) PROVE LastIsPrev' /\ HeardLast'
    <2>1. Reliable /\ LastIsPrev
      BY <1>7 DEF Detect, Reliable
    <2>2. wire[b] \in Seq(BOOLEAN) /\ wire[b] # <<>> /\ wire'[b] = Tail(wire[b])
      BY <1>0, <1>7 DEF TypeOK, Detect
    <2>3. wire'[b] # <<>> => wire'[b][Len(wire'[b])] = wire[b][Len(wire[b])]
      BY <2>2, LastOfTail
    <2>4. wire'[b] = <<>> => Head(wire[b]) = wire[b][Len(wire[b])]
      BY <2>2, LastOfTail
    <2>5. \A c \in Backends \ {b} : wire'[c] = wire[c]
      BY <1>0, <1>7 DEF TypeOK, Detect
    <2> QED
      BY <1>7, <2>1, <2>2, <2>3, <2>4, <2>5 DEF LastIsPrev, HeardLast, Detect
  <1>8. CASE Modify
    BY <1>8, QuietKeeps DEF Modify, Reliable
  <1>9. CASE UNCHANGED vars
    BY <1>9, QuietKeeps DEF vars, Reliable
  <1> QED
    BY <1>1, <1>2, <1>3, <1>4, <1>5, <1>6, <1>7, <1>8, <1>9 DEF Next, Backend

\* If nothing is under way and the backends agree, so does the one heard last.
LEMMA FlagInvAgrees == FlagInv => FlagAgrees
  BY DEF FlagInv, FlagAgrees, HeardLast, Reliable

\* Once no message is on its way and all backends agree, the frontend's overload
\* flag is what they agree on, however their messages interleave, as long as the
\* queue lost none and no initial message came late.
THEOREM FlagCorrect == Spec => []FlagAgrees
  BY InitFlag, StepFlag, FlagInvAgrees, PTL DEF Spec
=============================================================================
