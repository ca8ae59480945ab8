---------------------------- MODULE BacklogProofs ----------------------------
(***************************************************************************)
(* Safety of one backlog, for every directive, stream of events and number *)
(* of concurrent handlers: the types, the absence of panics, the order of  *)
(* timestamps and the synchronisation of the alarm.                        *)
(***************************************************************************)
EXTENDS Backlog, FiniteSetTheorems, TLAPS

\* An event is at hand wherever one is about to be used.
EventAtHand ==
  /\ mgr.pc # "idle" => mgr.evt \in Events
  /\ worker.pc \notin {"off", "recv", "exit"} => worker.evt \in Events

TypeInv == TypeOK /\ EventAtHand

-----------------------------------------------------------------------------
(* What the shared steps do to the types. *)

\* increaseStage stays within the rules.
LEMMA NextStageType ==
  ASSUME NEW i \in Stages PROVE (IF i < NRules THEN i + 1 ELSE i) \in Stages
  BY RulesAssumption DEF Stages

\* A positive count can be decremented.
LEMMA PredType == ASSUME NEW n \in Nat, n > 0 PROVE n - 1 \in Nat
  OBVIOUS

\* Moving a handler to another step.
LEMMA ProcGotoType ==
  ASSUME proc \in [Procs -> Handlers], NEW p \in Procs, NEW s \in ProcSteps,
         ProcGoto(p, s)
  PROVE  proc' \in [Procs -> Handlers]
<1>1. [proc[p] EXCEPT !.pc = s] \in Handlers BY DEF Handlers
<1> QED BY <1>1 DEF ProcGoto

\* Appending an event to a rule.
LEMMA AppendType ==
  ASSUME b \in Structs, NEW e \in Events, NEW i \in Stages, AppendEvent(e, i)
  PROVE  b' \in Structs
<1>1. [b.events EXCEPT ![i] = @ \cup {e}] \in [Stages -> SUBSET Events]
  BY DEF Structs
<1> QED BY <1>1 DEF AppendEvent, Structs

\* Recording a sticky value.
LEMMA RecordType ==
  ASSUME b \in Structs, NEW e \in Events, NEW S, Record(e, S)
  PROVE  b' \in Structs
<1>1. [i \in Stages |-> IF i \in S /\ Sticky[i] /\ i \in Touches[e]
                        THEN b.seen[i] \cup {Value[e]} ELSE b.seen[i]]
        \in [Stages -> SUBSET {Value[x] : x \in Events}]
  BY DEF Structs
<1> QED BY <1>1 DEF Record, Structs

\* Setting the status of the current rule.
LEMMA StatusType ==
  ASSUME b \in Structs, NEW s \in Statuses, SetRuleStatus(s)
  PROVE  b' \in Structs
<1> DEFINE f == [b.status EXCEPT ![b.stage] = s]
<1>1. f \in [Stages -> Statuses] BY DEF Structs
<1>2. b' = [b EXCEPT !.status = f] BY DEF SetRuleStatus
<1> HIDE DEF f
<1> QED BY <1>1, <1>2 DEF Structs

\* Publishing a snapshot.
LEMMA AlarmType == ASSUME b \in Structs, UpdateAlarm PROVE alarm' \in Snapshots
  BY DEF UpdateAlarm, Structs, Snapshots

\* Starting a goroutine of backlogs.delete.
LEMMA DispatchType ==
  ASSUME life \in Lives, panics \subseteq Panics, Dispatch
  PROVE  life' \in Lives /\ panics' \subseteq Panics
<1>1. [life EXCEPT !.waiting = @ + 1] \in Lives BY DEF Lives
<1> QED BY <1>1 DEF Dispatch, Panic, Panics

\* Returning from processMatchedEvent.
LEMMA ReturnType ==
  ASSUME worker \in Workers, proc \in [Procs -> Handlers], NEW p \in Procs, Return(p)
  PROVE  /\ worker' \in Workers
         /\ proc' \in [Procs -> Handlers]
         /\ checker' = checker \/ checker' = "tick"
         /\ worker' = worker \/ worker'.pc = "recv"
<1>1. proc' \in [Procs -> Handlers] BY ProcGotoType DEF Return, ProcSteps
<1>2. worker' = worker \/ worker' = [worker EXCEPT !.pc = "recv"]
  BY DEF Return, WorkerGoto
<1> QED BY <1>1, <1>2 DEF Return, Workers

-----------------------------------------------------------------------------
(* Type correctness *)

\* The initial values have their types.
LEMMA TypeInit == Init => TypeInv
<1> SUFFICES ASSUME Init PROVE TypeInv OBVIOUS
<1> USE RulesAssumption, EventsAssumption, BoundsAssumption
<1>1. b \in Structs BY DEF Init, Structs, Statuses, Stages
<1>2. alarm \in Snapshots BY <1>1 DEF Init, Structs, Snapshots
<1>3. proc \in [Procs -> Handlers] BY DEF Init, Handlers, ProcSteps, Stages
<1>4. worker \in Workers BY DEF Init, Workers, Stages
<1>5. life \in Lives /\ mgr \in Managers /\ pending \subseteq Events
      /\ checker = "off" /\ clock \in Nat /\ panics \subseteq Panics
  BY DEF Init, Lives, Managers, Panics
<1>6. EventAtHand BY DEF Init, EventAtHand
<1> QED BY <1>1, <1>2, <1>3, <1>4, <1>5, <1>6 DEF TypeInv, TypeOK

\* The manager's steps keep the types.
LEMMA TypeManager ==
  ASSUME TypeInv, (\E e \in Events : MgrLock(e)) \/ Forward
  PROVE  TypeInv'
<1> USE DEF TypeInv, TypeOK, EventAtHand
<1>1. ASSUME NEW e \in Events, MgrLock(e) PROVE TypeInv'
  BY <1>1 DEF MgrLock, Managers
<1>2. CASE MgrCheckDone BY <1>2 DEF MgrCheckDone, MgrGoto, Managers
<1>3. CASE MgrLeave BY <1>3 DEF MgrLeave, MgrGoto, Managers
<1>4. CASE MgrSend BY <1>4 DEF MgrSend, MgrGoto, Managers, Workers, Panic, Panics
<1>5. CASE MgrUnlock BY <1>5 DEF MgrUnlock, MgrGoto, Managers
<1> QED BY <1>1, <1>2, <1>3, <1>4, <1>5 DEF Forward

\* The worker's steps keep the types.
LEMMA TypeWorker == ASSUME TypeInv, Work PROVE TypeInv'
<1> USE DEF TypeInv, TypeOK, EventAtHand
<1>1. CASE WorkerSnapshot BY <1>1 DEF WorkerSnapshot, Structs, Workers
<1>2. CASE WorkerMatch
  <2>1. b' \in Structs BY <1>2, RecordType DEF WorkerMatch
  <2>2. worker' \in Workers /\ worker'.evt = worker.evt
    BY <1>2 DEF WorkerMatch, Workers
  <2> QED BY <1>2, <2>1, <2>2 DEF WorkerMatch
<1>3. CASE WorkerNoMatch
  <2>1. b' \in Structs BY <1>3, RecordType DEF WorkerNoMatch
  <2>2. PrevRules(worker.evt, worker.idx) \subseteq Stages
    BY RulesAssumption DEF PrevRules, Stages, Workers
  <2>3. worker' \in Workers /\ worker'.evt = worker.evt
    BY <1>3, <2>2 DEF WorkerNoMatch, Workers
  <2> QED BY <1>3, <2>1, <2>3 DEF WorkerNoMatch
<1>4. CASE WorkerPrevAppend
  <2>1. b' \in Structs BY <1>4, AppendType DEF WorkerPrevAppend, Workers
  <2> QED BY <1>4, <2>1 DEF WorkerPrevAppend, WorkerGoto, Workers
<1>5. CASE WorkerPrevAlarm
  BY <1>5, AlarmType DEF WorkerPrevAlarm, Workers
<1>6. CASE WorkerReply BY <1>6 DEF WorkerReply, WorkerGoto, Managers, Workers
<1>7. CASE WorkerOrder
  BY <1>7 DEF WorkerOrder, WorkerGoto, Workers, Panic, Panics
<1>8. CASE WorkerExit BY <1>8 DEF WorkerExit, WorkerGoto, Workers
<1>9. ASSUME NEW p \in Procs, WorkerSpawn(p) PROVE TypeInv'
  <2>1. [pc |-> "append", evt |-> worker.evt, idx |-> worker.idx, risk |-> 0]
          \in Handlers
    BY <1>9 DEF WorkerSpawn, Handlers, ProcSteps, Workers
  <2>2. proc' \in [Procs -> Handlers] BY <1>9, <2>1 DEF WorkerSpawn
  <2>3. panics' \subseteq Panics BY <1>9 DEF WorkerSpawn, Panic, Panics
  <2> QED BY <1>9, <2>2, <2>3 DEF WorkerSpawn, WorkerGoto, Workers
<1> QED BY <1>1, <1>2, <1>3, <1>4, <1>5, <1>6, <1>7, <1>8, <1>9 DEF Work

\* The handlers' steps keep the types.
LEMMA TypeProcess ==
  ASSUME TypeInv, NEW p \in Procs, Process(p) PROVE TypeInv'
<1> USE DEF TypeInv, TypeOK, EventAtHand, ProcFrame
<1>a. ASSUME NEW s \in ProcSteps, Continue(p, s)
      PROVE  proc' \in [Procs -> Handlers] /\ UNCHANGED <<worker, checker, panics>>
  BY <1>a, ProcGotoType DEF Continue
<1>b. proc[p] \in Handlers OBVIOUS
<1>1. CASE ProcAppend(p)
  <2>1. b' \in Structs BY <1>1, <1>b, AppendType DEF ProcAppend, Handlers
  <2> QED BY <1>1, <1>a, <2>1 DEF ProcAppend, ProcSteps
<1>2. CASE ProcCheck(p)
  <2>1. CASE Return(p) /\ UNCHANGED panics BY <1>2, <2>1, ReturnType DEF ProcCheck
  <2>2. CASE Continue(p, "finish") BY <1>2, <2>2, <1>a DEF ProcCheck, ProcSteps
  <2> QED BY <1>2, <2>1, <2>2 DEF ProcCheck
<1>3. CASE ProcFinish(p)
  <2>1. b' \in Structs BY <1>3, StatusType DEF ProcFinish, Statuses
  <2> QED BY <1>3, <1>a, <2>1 DEF ProcFinish, ProcSteps
<1>4. CASE ProcEndTime(p)
  <2>1. [b.end EXCEPT ![b.stage] = Ts[proc[p].evt]] \in [Stages -> Nat]
    BY <1>b, EventsAssumption DEF Structs, Handlers
  <2>2. b' \in Structs BY <1>4, <2>1 DEF ProcEndTime, Structs
  <2> QED BY <1>4, <1>a, <2>2 DEF ProcEndTime, ProcSteps
<1>5. CASE ProcReadRisk(p)
  <2> DEFINE r == RuleRisk[b.stage]
             h == [proc[p] EXCEPT !.pc = IF r # b.risk THEN "setrisk" ELSE "last",
                                  !.risk = r]
  <2>1. r \in Nat BY RulesAssumption DEF Structs
  <2>2. h \in Handlers BY <1>b, <2>1 DEF Handlers, ProcSteps
  <2>3. proc' = [proc EXCEPT ![p] = h] BY <1>5 DEF ProcReadRisk
  <2>4. proc' \in [Procs -> Handlers] BY <2>2, <2>3
  <2> QED BY <1>5, <2>4 DEF ProcReadRisk
<1>6. CASE ProcSetRisk(p)
  <2>1. b' \in Structs BY <1>6, <1>b DEF ProcSetRisk, Structs, Handlers
  <2> QED BY <1>6, <1>a, <2>1 DEF ProcSetRisk, ProcSteps
<1>7. CASE ProcLast(p) BY <1>7, <1>a DEF ProcLast, ProcSteps
<1>8. CASE ProcLastAlarm(p)
  BY <1>8, <1>a, AlarmType DEF ProcLastAlarm, ProcSteps
<1>9. CASE ProcDelete(p)
  <2>1. CASE Return(p) /\ UNCHANGED panics BY <1>9, <2>1, ReturnType DEF ProcDelete
  <2>2. CASE Continue(p, "dispatch") BY <1>9, <2>2, <1>a DEF ProcDelete, ProcSteps
  <2> QED BY <1>9, <2>1, <2>2 DEF ProcDelete
<1>10. CASE ProcDispatch(p)
  BY <1>10, DispatchType, ReturnType DEF ProcDispatch
<1>11. CASE ProcIncrease(p)
  <2> DEFINE n == IF b.stage < NRules THEN b.stage + 1 ELSE b.stage
  <2>0. b.stage \in Stages BY DEF Structs
  <2>1. n \in Stages BY <2>0, NextStageType
  <2>2. b' = [b EXCEPT !.stage = n] BY <1>11 DEF ProcIncrease
  <2> HIDE DEF n
  <2>3. b' \in Structs BY <2>1, <2>2 DEF Structs
  <2> QED BY <1>11, <1>a, <2>3 DEF ProcIncrease, ProcSteps
<1>12. CASE ProcStartTime(p)
  <2>1. [b.start EXCEPT ![b.stage] = Ts[proc[p].evt]] \in [Stages -> Nat]
    BY <1>b, EventsAssumption DEF Structs, Handlers
  <2>2. b' \in Structs BY <1>12, <2>1 DEF ProcStartTime, Structs
  <2> QED BY <1>12, <1>a, <2>2 DEF ProcStartTime, ProcSteps
<1>13. CASE ProcAlarm(p) BY <1>13, AlarmType, ReturnType DEF ProcAlarm
<1> QED BY <1>1, <1>2, <1>3, <1>4, <1>5, <1>6, <1>7, <1>8, <1>9, <1>10, <1>11,
           <1>12, <1>13 DEF Process

\* The steps of the checker and of the deleting goroutines keep the types.
LEMMA TypeCheckDelete == ASSUME TypeInv, Check \/ Delete PROVE TypeInv'
<1> USE DEF TypeInv, TypeOK, EventAtHand, CheckerGoto, DeleteFrame
<1>1. CASE CheckerTick BY <1>1 DEF CheckerTick
<1>2. CASE CheckerExpiry BY <1>2 DEF CheckerExpiry
<1>3. CASE CheckerStatus BY <1>3, StatusType DEF CheckerStatus, Statuses
<1>4. CASE CheckerAlarm BY <1>4, AlarmType DEF CheckerAlarm
<1>5. CASE CheckerDelete BY <1>5 DEF CheckerDelete
<1>6. CASE CheckerDispatch BY <1>6, DispatchType DEF CheckerDispatch
<1>7. CASE DeleteEnter
  <2>0. life.waiting \in Nat /\ life.waiting > 0 BY <1>7 DEF DeleteEnter, Lives
  <2>1. life.waiting - 1 \in Nat BY <2>0, PredType
  <2> DEFINE w == life.waiting - 1
  <2>2. \/ life' = [life EXCEPT !.waiting = w]
        \/ life' = [life EXCEPT !.waiting = w, !.deleted = TRUE,
                               !.chDone = TRUE, !.pc = "grace1"]
    BY <1>7 DEF DeleteEnter
  <2> HIDE DEF w
  <2>3. life' \in Lives BY <2>1, <2>2 DEF Lives, w
  <2> QED BY <1>7, <2>3 DEF DeleteEnter, Panic, Panics
<1>8. CASE DeleteCloseData BY <1>8 DEF DeleteCloseData, Panic, Lives, Panics
<1>9. CASE DeleteRemove BY <1>9 DEF DeleteRemove, Lives
<1>10. CASE DeleteAlarm BY <1>10 DEF DeleteAlarm, Lives
<1> QED BY <1>1, <1>2, <1>3, <1>4, <1>5, <1>6, <1>7, <1>8, <1>9, <1>10
        DEF Check, Delete

\* The type invariant is inductive.
LEMMA TypeStep == TypeInv /\ [Next]_vars => TypeInv'
<1> SUFFICES ASSUME TypeInv, [Next]_vars PROVE TypeInv' OBVIOUS
<1>1. CASE Tick BY <1>1 DEF Tick, TypeInv, TypeOK, EventAtHand
<1>2. CASE UNCHANGED vars BY <1>2 DEF vars, TypeInv, TypeOK, EventAtHand
<1> QED BY <1>1, <1>2, TypeManager, TypeWorker, TypeProcess, TypeCheckDelete
        DEF Next, Terminated

\* The type invariant holds throughout.
LEMMA TypeAlways == Spec => []TypeInv
  BY TypeInit, TypeStep, PTL DEF Spec

\* Every reachable state of Backlog is type-correct.
THEOREM TypeCorrect == Spec => []TypeOK
  BY TypeAlways, PTL DEF TypeInv

-----------------------------------------------------------------------------
(* No panic *)

\* The flag, the two channels and the map entry move together, and the
\* manager's goroutine is past its first select only on a live backlog.
Channels ==
  /\ life.chDone = life.deleted
  /\ life.pc = "none" <=> ~life.deleted
  /\ life.chData <=> life.pc \in {"grace2", "removed", "gone"}
  /\ life.inMap <=> life.pc \notin {"removed", "gone"}
  /\ mgr.pc \in {"send", "await"} => ~life.deleted

\* A removed backlog has no goroutine left that could follow bLogs.
Silent == ~life.inMap => GraceOver

\* Until start() returns its handler is alone; it leaves the first stage.
Startup ==
  /\ worker.pc = "off" =>
       /\ mgr.pc = "idle" /\ checker = "off"
       /\ \A p \in Procs : p # Starter => proc[p].pc = "free"
       /\ proc[Starter].pc \notin {"free", "lastalarm", "delete", "dispatch"}
       /\ proc[Starter].evt = Initial /\ proc[Starter].idx = 1
       /\ proc[Starter].pc = "append" => b.events[1] = {}
       /\ proc[Starter].pc = "check" => b.events[1] = {Initial}
       /\ b.stage = IF proc[Starter].pc \in {"starttime", "alarm"} THEN 2 ELSE 1
  /\ worker.pc # "off" => b.stage >= 2

\* The worker compares with the rule before its own only past the first.
RuleIndex ==
  /\ worker.pc \in {"match", "order", "spawn"} => worker.idx >= 2
  /\ worker.pc = "reply" /\ worker.found /\ worker.fresh => worker.idx >= 2

SafeInv == TypeInv /\ Channels /\ Silent /\ Startup /\ RuleIndex /\ NoPanic

\* It holds of a new backlog.
LEMMA SafeInit == Init => SafeInv
<1> SUFFICES ASSUME Init PROVE SafeInv OBVIOUS
<1>1. Channels /\ Silent /\ RuleIndex /\ NoPanic
  BY DEF Init, Channels, Silent, RuleIndex, NoPanic
<1>2. Startup BY RulesAssumption, BoundsAssumption DEF Init, Startup, Stages
<1> QED BY <1>1, <1>2, TypeInit DEF SafeInv

\* The life of the backlog, step by step.
LEMMA ChannelsStep == SafeInv /\ [Next]_vars => Channels'
<1> SUFFICES ASSUME SafeInv, [Next]_vars PROVE Channels' OBVIOUS
<1> USE DEF SafeInv, TypeInv, TypeOK, Lives, Managers, Channels
<1>1. ASSUME NEW e \in Events, MgrLock(e) PROVE Channels' BY <1>1 DEF MgrLock
<1>2. CASE Forward
  BY <1>2 DEF Forward, MgrCheckDone, MgrLeave, MgrSend,
              MgrUnlock, MgrGoto
<1>3. CASE Work
  BY <1>3 DEF Work, WorkerSnapshot, WorkerMatch, WorkerNoMatch,
              WorkerPrevAppend, WorkerPrevAlarm, WorkerReply, WorkerOrder,
              WorkerExit, WorkerSpawn
<1>4. ASSUME NEW p \in Procs, Process(p) PROVE Channels'
  BY <1>4 DEF Process, ProcFrame, ProcAppend, ProcCheck, ProcFinish,
              ProcEndTime, ProcReadRisk, ProcSetRisk, ProcLast, ProcLastAlarm,
              ProcDelete, ProcDispatch, ProcIncrease, ProcStartTime, ProcAlarm,
              Dispatch
<1>5. CASE Check
  BY <1>5 DEF Check, CheckerTick, CheckerExpiry, CheckerStatus, CheckerAlarm,
              CheckerDelete, CheckerDispatch, CheckerGoto, Dispatch
<1>6. CASE Delete
  BY <1>6 DEF Delete, DeleteEnter, DeleteCloseData, DeleteRemove, DeleteAlarm,
              DeleteFrame, WriterLockFree
<1>7. CASE Tick \/ Terminated \/ UNCHANGED vars BY <1>7 DEF Tick, Terminated, vars
<1> QED BY <1>1, <1>2, <1>3, <1>4, <1>5, <1>6, <1>7 DEF Next

\* After the removal nothing starts again: chDone is closed, the worker gets
\* no event and spawns no handler.
LEMMA SilentStep == SafeInv /\ [Next]_vars => Silent'
<1> SUFFICES ASSUME SafeInv, [Next]_vars PROVE Silent' OBVIOUS
<1> USE DEF SafeInv, TypeInv, TypeOK, Lives, Channels, Silent, GraceOver, ProcsIdle
<1>1. ASSUME NEW e \in Events, MgrLock(e) PROVE Silent' BY <1>1 DEF MgrLock
<1>2. CASE Forward
  BY <1>2 DEF Forward, MgrCheckDone, MgrLeave, MgrSend,
              MgrUnlock, MgrGoto
<1>3. CASE Work
  <2>1. life' = life
    BY <1>3 DEF Work, WorkerSnapshot, WorkerMatch, WorkerNoMatch,
                WorkerPrevAppend, WorkerPrevAlarm, WorkerReply, WorkerOrder,
                WorkerExit, WorkerSpawn
  <2>2. ASSUME ~life.inMap PROVE GraceOver'
    BY <1>3, <2>2 DEF Work, WorkerSnapshot, WorkerMatch, WorkerNoMatch,
                WorkerPrevAppend, WorkerPrevAlarm, WorkerReply, WorkerOrder,
                WorkerExit, WorkerSpawn, WorkerGoto, Workers
  <2> QED BY <2>1, <2>2
<1>4. ASSUME NEW p \in Procs, Process(p) PROVE Silent'
  <2>1. proc[p].pc # "free"
    BY <1>4 DEF Process, ProcAppend, ProcCheck, ProcFinish,
                ProcEndTime, ProcReadRisk, ProcSetRisk, ProcLast, ProcLastAlarm,
                ProcDelete, ProcDispatch, ProcIncrease, ProcStartTime, ProcAlarm
  <2>2. life.inMap BY <2>1
  <2>3. life'.inMap = life.inMap
    BY <1>4 DEF Process, ProcFrame, ProcAppend, ProcCheck, ProcFinish,
                ProcEndTime, ProcReadRisk, ProcSetRisk, ProcLast, ProcLastAlarm,
                ProcDelete, ProcDispatch, ProcIncrease, ProcStartTime, ProcAlarm,
                Dispatch
  <2> QED BY <2>2, <2>3
<1>5. CASE Check
  <2>1. life'.inMap = life.inMap
    BY <1>5 DEF Check, CheckerTick, CheckerExpiry, CheckerStatus, CheckerAlarm,
                CheckerDelete, CheckerDispatch, CheckerGoto, Dispatch
  <2>2. ASSUME ~life.inMap PROVE GraceOver'
    BY <1>5, <2>2 DEF Check, CheckerTick, CheckerExpiry, CheckerStatus,
                CheckerAlarm, CheckerDelete, CheckerDispatch, CheckerGoto
  <2> QED BY <2>1, <2>2
<1>6. CASE Delete
  BY <1>6 DEF Delete, DeleteEnter, DeleteCloseData, DeleteRemove, DeleteAlarm,
              DeleteFrame
<1>7. CASE Tick \/ Terminated \/ UNCHANGED vars BY <1>7 DEF Tick, Terminated, vars
<1> QED BY <1>1, <1>2, <1>3, <1>4, <1>5, <1>6, <1>7 DEF Next

\* No step raises a panic.
LEMMA NoPanicStep == SafeInv /\ [Next]_vars => NoPanic'
<1> SUFFICES ASSUME SafeInv, [Next]_vars PROVE NoPanic' OBVIOUS
<1> USE DEF SafeInv, TypeInv, TypeOK, Lives, Channels, NoPanic, Panic
<1>1. ASSUME NEW e \in Events, MgrLock(e) PROVE NoPanic' BY <1>1 DEF MgrLock
<1>2. CASE Forward
  BY <1>2 DEF Forward, MgrCheckDone, MgrLeave, MgrSend, MgrUnlock
<1>3. CASE Work
  <2>1. ASSUME NEW p \in Procs, WorkerSpawn(p) PROVE NoPanic'
    BY <2>1 DEF WorkerSpawn, Silent, GraceOver
  <2>2. CASE WorkerOrder
    <3>1. worker.idx \in Nat BY RulesAssumption DEF Workers, Stages
    <3>2. worker.pc = "order" BY <2>2 DEF WorkerOrder
    <3>3. worker.idx >= 2 BY <3>2 DEF RuleIndex
    <3>4. worker.idx # 1 BY <3>1, <3>3
    <3> QED BY <2>2, <3>4 DEF WorkerOrder
  <2> QED
    BY <1>3, <2>1, <2>2 DEF Work, WorkerSnapshot, WorkerMatch, WorkerNoMatch,
                WorkerPrevAppend, WorkerPrevAlarm, WorkerReply, WorkerExit
<1>4. ASSUME NEW p \in Procs, Process(p) PROVE NoPanic'
  <2>1. CASE ProcDispatch(p)
    BY <2>1 DEF ProcDispatch, Dispatch, Silent, GraceOver, ProcsIdle
  <2> QED
    BY <1>4, <2>1 DEF Process, Continue, ProcAppend, ProcCheck, ProcFinish,
                ProcEndTime, ProcReadRisk, ProcSetRisk, ProcLast, ProcLastAlarm,
                ProcDelete, ProcIncrease, ProcStartTime, ProcAlarm
<1>5. CASE Check
  BY <1>5 DEF Check, CheckerTick, CheckerExpiry, CheckerStatus, CheckerAlarm,
              CheckerDelete, CheckerDispatch, Dispatch, Silent, GraceOver
<1>6. CASE Delete
  BY <1>6 DEF Delete, DeleteEnter, DeleteCloseData, DeleteRemove, DeleteAlarm
<1>7. CASE Tick \/ Terminated \/ UNCHANGED vars BY <1>7 DEF Tick, Terminated, vars
<1> QED BY <1>1, <1>2, <1>3, <1>4, <1>5, <1>6, <1>7 DEF Next

\* The worker reads the stage only after start() has moved past the first.
LEMMA RuleIndexStep == SafeInv /\ [Next]_vars => RuleIndex'
<1> SUFFICES ASSUME SafeInv, [Next]_vars PROVE RuleIndex' OBVIOUS
<1> USE DEF SafeInv, TypeInv, TypeOK, RuleIndex
<1>1. ASSUME NEW e \in Events, MgrLock(e) PROVE RuleIndex' BY <1>1 DEF MgrLock
<1>2. CASE Forward
  BY <1>2 DEF Forward, MgrCheckDone, MgrLeave, MgrSend,
              MgrUnlock, Workers
<1>3. CASE Work
  <2>1. CASE WorkerSnapshot BY <2>1 DEF WorkerSnapshot, Startup, Workers
  <2>2. CASE WorkerMatch BY <2>2 DEF WorkerMatch, Workers
  <2>3. CASE WorkerNoMatch BY <2>3 DEF WorkerNoMatch, Workers
  <2>4. CASE WorkerReply BY <2>4 DEF WorkerReply, WorkerGoto, Workers
  <2>5. CASE WorkerOrder BY <2>5 DEF WorkerOrder, WorkerGoto, Workers
  <2>6. ASSUME NEW p \in Procs, WorkerSpawn(p) PROVE RuleIndex'
    BY <2>6 DEF WorkerSpawn, WorkerGoto, Workers
  <2>7. CASE WorkerPrevAppend \/ WorkerPrevAlarm \/ WorkerExit
    BY <2>7 DEF WorkerPrevAppend, WorkerPrevAlarm, WorkerExit, WorkerGoto, Workers
  <2> QED BY <1>3, <2>1, <2>2, <2>3, <2>4, <2>5, <2>6, <2>7 DEF Work
<1>4. ASSUME NEW p \in Procs, Process(p) PROVE RuleIndex'
  <2>1. worker' = worker \/ Return(p)
    BY <1>4 DEF Process, Continue, ProcAppend, ProcCheck, ProcFinish,
                ProcEndTime, ProcReadRisk, ProcSetRisk, ProcLast, ProcLastAlarm,
                ProcDelete, ProcDispatch, ProcIncrease, ProcStartTime, ProcAlarm
  <2> QED BY <2>1, ReturnType
<1>5. CASE Check
  BY <1>5 DEF Check, CheckerTick, CheckerExpiry, CheckerStatus, CheckerAlarm,
              CheckerDelete, CheckerDispatch, CheckerGoto
<1>6. CASE Delete
  BY <1>6 DEF Delete, DeleteEnter, DeleteCloseData, DeleteRemove, DeleteAlarm,
              DeleteFrame
<1>7. CASE Tick \/ Terminated \/ UNCHANGED vars BY <1>7 DEF Tick, Terminated, vars
<1> QED BY <1>1, <1>2, <1>3, <1>4, <1>5, <1>6, <1>7 DEF Next

\* While start() runs only its handler moves the backlog, to the second stage.
LEMMA StartupStep == SafeInv /\ [Next]_vars => Startup'
<1> SUFFICES ASSUME SafeInv, [Next]_vars PROVE Startup' OBVIOUS
<1> USE DEF SafeInv, TypeInv, TypeOK, Startup
<1>1. ASSUME NEW e \in Events, MgrLock(e) PROVE Startup'
  BY <1>1 DEF MgrLock, Started
<1>2. CASE Forward
  BY <1>2 DEF Forward, MgrCheckDone, MgrLeave, MgrSend,
              MgrUnlock, MgrGoto, Workers
<1>3. CASE Work
  <2>1. worker.pc # "off" /\ worker'.pc # "off"
    BY <1>3 DEF Work, WorkerSnapshot, WorkerMatch, WorkerNoMatch,
                WorkerPrevAppend, WorkerPrevAlarm, WorkerReply, WorkerOrder,
                WorkerExit, WorkerSpawn, WorkerGoto, Workers
  <2>2. b'.stage = b.stage
    BY <1>3 DEF Work, WorkerSnapshot, WorkerMatch, WorkerNoMatch, Record,
                WorkerPrevAppend, WorkerPrevAlarm, WorkerReply, WorkerOrder,
                WorkerExit, WorkerSpawn, AppendEvent, Structs
  <2> QED BY <2>1, <2>2
<1>4. ASSUME NEW p \in Procs, Process(p) PROVE Startup'
  <2>1. CASE worker.pc # "off"
    <3>1. worker'.pc # "off"
      BY <1>4, <2>1, ReturnType DEF Process, Continue, ProcAppend, ProcCheck,
         ProcFinish, ProcEndTime, ProcReadRisk, ProcSetRisk, ProcLast,
         ProcLastAlarm, ProcDelete, ProcDispatch, ProcIncrease, ProcStartTime,
         ProcAlarm
    <3>2. b'.stage = b.stage \/ b'.stage = b.stage + 1
      BY <1>4 DEF Process, ProcAppend, ProcCheck, AppendEvent,
         ProcFinish, SetRuleStatus, ProcEndTime, ProcReadRisk, ProcSetRisk,
         ProcLast, ProcLastAlarm, ProcDelete, ProcDispatch, ProcIncrease,
         ProcStartTime, ProcAlarm, Structs
    <3>3. b.stage \in Nat BY RulesAssumption DEF Structs, Stages
    <3> QED BY <2>1, <3>1, <3>2, <3>3
  <2>2. CASE worker.pc = "off"
    <3>a. p = Starter
      BY <1>4, <2>2 DEF Process, ProcAppend, ProcCheck, ProcFinish,
         ProcEndTime, ProcReadRisk, ProcSetRisk, ProcLast, ProcLastAlarm,
         ProcDelete, ProcDispatch, ProcIncrease, ProcStartTime, ProcAlarm
    <3>b. ASSUME NEW s \in ProcSteps, Continue(p, s), mgr' = mgr
          PROVE  /\ worker'.pc = "off" /\ mgr'.pc = "idle" /\ checker' = "off"
                 /\ \A q \in Procs : q # Starter => proc'[q].pc = "free"
                 /\ proc'[Starter].pc = s
                 /\ proc'[Starter].evt = Initial /\ proc'[Starter].idx = 1
      BY <2>2, <3>a, <3>b DEF Continue, ProcGoto, Handlers
    <3> USE DEF ProcFrame, ProcSteps
    <3>1. CASE ProcAppend(p)
      <4>1. b'.events[1] = {Initial} /\ b'.stage = b.stage
        BY <2>2, <3>1, <3>a, RulesAssumption
           DEF ProcAppend, AppendEvent, Structs, Stages
      <4> QED BY <2>2, <3>1, <3>a, <3>b, <4>1 DEF ProcAppend
    <3>2. CASE ProcCheck(p)
      <4>1. ReachedMax(1)
        <5>1. Cardinality({Initial}) = 1 BY FS_Singleton
        <5>2. b.events[1] = {Initial} BY <2>2, <3>2, <3>a DEF ProcCheck
        <5>3. Cardinality(b.events[1]) = 1 BY <5>1, <5>2
        <5>4. Occurrence[1] = 1 BY RulesAssumption
        <5>5. 1 >= 1 OBVIOUS
        <5> QED BY <5>3, <5>4, <5>5 DEF ReachedMax
      <4> QED BY <2>2, <3>2, <3>a, <3>b, <4>1 DEF ProcCheck
    <3>3. CASE ProcFinish(p)
      BY <2>2, <3>3, <3>a, <3>b DEF ProcFinish, SetRuleStatus, Structs
    <3>4. CASE ProcEndTime(p)
      BY <2>2, <3>4, <3>a, <3>b DEF ProcEndTime, Structs
    <3>5. CASE ProcReadRisk(p)
      BY <2>2, <3>5, <3>a DEF ProcReadRisk, Handlers
    <3>6. CASE ProcSetRisk(p)
      BY <2>2, <3>6, <3>a, <3>b DEF ProcSetRisk, Structs
    <3>7. CASE ProcLast(p)
      <4>1. b.stage = 1 /\ NRules # 1 BY <2>2, <3>7, <3>a, RulesAssumption DEF ProcLast
      <4>2. Continue(p, "increase") BY <3>7, <4>1 DEF ProcLast
      <4> QED BY <2>2, <3>7, <3>a, <3>b, <4>1, <4>2 DEF ProcLast
    <3>8. CASE ProcIncrease(p)
      <4>1. b'.stage = 2
        BY <2>2, <3>8, <3>a, RulesAssumption DEF ProcIncrease, Structs
      <4> QED BY <2>2, <3>8, <3>a, <3>b, <4>1 DEF ProcIncrease
    <3>9. CASE ProcStartTime(p)
      BY <2>2, <3>9, <3>a, <3>b DEF ProcStartTime, Structs
    <3>10. CASE ProcAlarm(p)
      <4>1. b'.stage = 2 /\ worker'.pc = "recv"
        BY <2>2, <3>10, <3>a DEF ProcAlarm, Return, Started, WorkerGoto, Workers
      <4> QED BY <4>1
    <3>11. CASE ProcLastAlarm(p) \/ ProcDelete(p) \/ ProcDispatch(p)
      BY <2>2, <3>11, <3>a DEF ProcLastAlarm, ProcDelete, ProcDispatch
    <3> QED BY <1>4, <3>1, <3>2, <3>3, <3>4, <3>5, <3>6, <3>7, <3>8, <3>9, <3>10,
               <3>11 DEF Process
  <2> QED BY <2>1, <2>2
<1>5. CASE Check
  <2>1. b'.stage = b.stage /\ worker' = worker /\ checker # "off"
    BY <1>5 DEF Check, CheckerTick, CheckerExpiry, CheckerStatus, CheckerAlarm,
                CheckerDelete, CheckerDispatch, CheckerGoto, SetRuleStatus, Structs
  <2> QED BY <2>1
<1>6. CASE Delete
  BY <1>6 DEF Delete, DeleteEnter, DeleteCloseData, DeleteRemove, DeleteAlarm,
              DeleteFrame
<1>7. CASE Tick \/ Terminated \/ UNCHANGED vars BY <1>7 DEF Tick, Terminated, vars
<1> QED BY <1>1, <1>2, <1>3, <1>4, <1>5, <1>6, <1>7 DEF Next

\* The safety invariant is inductive and holds throughout.
LEMMA SafeAlways == Spec => []SafeInv
<1>1. SafeInv /\ [Next]_vars => SafeInv'
  BY TypeStep, ChannelsStep, SilentStep, NoPanicStep, RuleIndexStep, StartupStep
     DEF SafeInv
<1> QED BY <1>1, SafeInit, PTL DEF Spec

\* Whatever the interleaving of manager, worker, handlers, checker and deleting
\* goroutines, no channel is closed twice or sent on after its close, and the rule
\* before the first is never read.  GraceOver is assumed with the specification.
THEOREM NeverPanics == Spec => []NoPanic
  BY SafeAlways, PTL DEF SafeInv

-----------------------------------------------------------------------------
(* Timestamps *)

\* An event on its way to a rule was compared with an end time that no handler
\* can change any more: handlers write the end of the current stage only, and
\* the event is for that stage or an earlier one.
InOrder(s, e, i) == i <= s.stage /\ (i >= 2 => s.end[i - 1] < Ts[e] + Slack)

WorkerInOrder ==
  /\ worker.pc \notin {"prev", "prevalarm"}
  /\ worker.pc \in {"match", "reply", "order", "spawn"} => worker.idx <= b.stage
  /\ worker.pc = "spawn" => InOrder(b, worker.evt, worker.idx)

HandlersInOrder ==
  \A p \in Procs : proc[p].pc = "append" => InOrder(b, proc[p].evt, proc[p].idx)

EventsInOrder == \A i \in Stages : \A e \in b.events[i] : InOrder(b, e, i)

Ordering == ~AllRules => WorkerInOrder /\ HandlersInOrder /\ EventsInOrder

\* The handler of start() is at the first rule.
LEMMA OrderingInit == Init => Ordering
<1> SUFFICES ASSUME Init PROVE Ordering OBVIOUS
<1>1. WorkerInOrder /\ EventsInOrder
  BY DEF Init, WorkerInOrder, EventsInOrder, Stages
<1>2. HandlersInOrder BY DEF Init, HandlersInOrder, InOrder
<1> QED BY <1>1, <1>2 DEF Ordering

\* A stage is a number.
LEMMA StageType == ASSUME NEW i \in Stages PROVE i \in Nat
  BY RulesAssumption DEF Stages

\* A step that leaves the stages and end times alone, or changes them only at
\* or after the current stage, keeps an event in order.
LEMMA InOrderKept ==
  ASSUME TypeInv, NEW e \in Events, NEW i \in Stages, InOrder(b, e, i),
         b' \in Structs, b'.stage >= b.stage,
         \A j \in Stages : j < b.stage => b'.end[j] = b.end[j]
  PROVE  InOrder(b', e, i)
<1>0. b.stage \in Stages /\ b'.stage \in Stages BY DEF TypeInv, TypeOK, Structs
<1>1. b.stage \in Nat /\ b'.stage \in Nat /\ i \in Nat BY <1>0, StageType
<1>2. i <= b'.stage BY <1>1 DEF InOrder
<1>3. ASSUME i >= 2 PROVE b'.end[i - 1] < Ts[e] + Slack
  <2>1. i - 1 \in Stages /\ i - 1 < b.stage
    BY <1>1, <1>3, RulesAssumption DEF InOrder, Stages
  <2> QED BY <2>1, <1>3 DEF InOrder
<1> QED BY <1>2, <1>3 DEF InOrder

\* What a step may do to the struct: stage and earlier end times only grow.
LEMMA StructStep ==
  ASSUME TypeInv, [Next]_vars
  PROVE  /\ b'.stage >= b.stage
         /\ \A j \in Stages : j < b.stage => b'.end[j] = b.end[j]
<1> USE DEF TypeInv, TypeOK
<1>a. b.stage \in Stages BY DEF Structs
<1>0. b.stage \in Nat BY <1>a, StageType
<1>1. CASE UNCHANGED b BY <1>0, <1>1
<1>2. ASSUME NEW p \in Procs, ProcIncrease(p)
      PROVE  /\ b'.stage >= b.stage
             /\ \A j \in Stages : j < b.stage => b'.end[j] = b.end[j]
  <2>1. b'.stage = b.stage \/ b'.stage = b.stage + 1
    BY <1>2 DEF ProcIncrease, Structs
  <2>2. b'.end = b.end BY <1>2 DEF ProcIncrease, Structs
  <2> QED BY <1>0, <2>1, <2>2
<1>3. ASSUME NEW p \in Procs, ProcEndTime(p)
      PROVE  /\ b'.stage >= b.stage
             /\ \A j \in Stages : j < b.stage => b'.end[j] = b.end[j]
  <2>1. b'.stage = b.stage BY <1>3 DEF ProcEndTime, Structs
  <2>2. b'.end = [b.end EXCEPT ![b.stage] = Ts[proc[p].evt]]
    BY <1>3 DEF ProcEndTime, Structs
  <2>3. \A j \in Stages : j # b.stage => b'.end[j] = b.end[j]
    BY <2>2 DEF Structs
  <2> QED BY <1>0, <2>1, <2>3
<1>4. ASSUME b'.stage = b.stage, b'.end = b.end
      PROVE  /\ b'.stage >= b.stage
             /\ \A j \in Stages : j < b.stage => b'.end[j] = b.end[j]
  BY <1>0, <1>4
<1>5. ASSUME Work PROVE b'.stage = b.stage /\ b'.end = b.end
  BY <1>5 DEF Work, WorkerSnapshot, WorkerMatch, WorkerNoMatch, Record,
              WorkerPrevAppend, WorkerPrevAlarm, WorkerReply, WorkerOrder,
              WorkerExit, WorkerSpawn, AppendEvent, Structs
<1>6. ASSUME NEW p \in Procs, Process(p), ~ProcIncrease(p), ~ProcEndTime(p)
      PROVE  b'.stage = b.stage /\ b'.end = b.end
  BY <1>6 DEF Process, ProcAppend, ProcCheck, AppendEvent, ProcFinish,
     SetRuleStatus, ProcReadRisk, ProcSetRisk, ProcLast, ProcLastAlarm,
     ProcDelete, ProcDispatch, ProcStartTime, ProcAlarm, Structs
<1>7. ASSUME Check PROVE b'.stage = b.stage /\ b'.end = b.end
  BY <1>7 DEF Check, CheckerTick, CheckerExpiry, CheckerStatus, CheckerAlarm,
              CheckerDelete, CheckerDispatch, SetRuleStatus, Structs
<1>8. ASSUME \/ \E e \in Events : MgrLock(e)
             \/ Forward \/ Delete \/ Tick \/ Terminated \/ UNCHANGED vars
      PROVE  UNCHANGED b
  BY <1>8 DEF MgrLock, Forward, MgrCheckDone, MgrLeave, MgrSend,
              MgrUnlock, MgrGoto, Delete, DeleteEnter, DeleteCloseData,
              DeleteRemove, DeleteAlarm, DeleteFrame, Tick, Terminated, vars
<1> QED BY <1>1, <1>2, <1>3, <1>4, <1>5, <1>6, <1>7, <1>8 DEF Next

\* An event in order stays in order, in the types every step keeps.
LEMMA InOrderStep ==
  ASSUME TypeInv, [Next]_vars, NEW e \in Events, NEW i \in Stages, InOrder(b, e, i)
  PROVE  InOrder(b', e, i)
<1>1. b' \in Structs BY TypeStep DEF TypeInv, TypeOK
<1> QED BY <1>1, InOrderKept, StructStep

\* What the worker holds.
LEMMA WorkerInOrderStep ==
  ASSUME TypeInv, [Next]_vars, WorkerInOrder, ~AllRules, RuleIndex
  PROVE  WorkerInOrder'
<1> USE DEF TypeInv, TypeOK, WorkerInOrder
<1>0. b.stage \in Nat /\ b'.stage \in Nat /\ worker.idx \in Stages
      /\ worker.idx \in Nat /\ b'.stage >= b.stage
  <2>1. b.stage \in Stages /\ worker.idx \in Stages BY DEF Structs, Workers
  <2>2. b'.stage \in Stages BY TypeStep DEF Structs
  <2> QED BY <2>1, <2>2, StageType, StructStep
<1>1. CASE worker' = worker
  <2>1. worker.pc = "spawn" => InOrder(b', worker.evt, worker.idx)
    BY <1>0, InOrderStep DEF EventAtHand
  <2> QED BY <1>0, <1>1, <2>1
<1>2. CASE worker'.pc \in {"recv", "exit", "snap"} BY <1>2
<1>3. CASE WorkerSnapshot
  <2>1. worker'.pc = "match" /\ worker'.idx = b'.stage
    BY <1>3 DEF WorkerSnapshot, Workers
  <2> QED BY <1>0, <2>1
<1>4. CASE WorkerMatch \/ WorkerNoMatch
  <2>1. worker'.pc = "reply" /\ worker'.idx = worker.idx /\ worker.pc = "match"
    BY <1>4 DEF WorkerMatch, WorkerNoMatch, PrevRules, Workers
  <2> QED BY <1>0, <2>1
<1>5. CASE WorkerReply
  <2>1. worker'.pc \in {"order", "recv"} /\ worker'.idx = worker.idx
        /\ worker.pc = "reply"
    BY <1>5 DEF WorkerReply, WorkerGoto, Workers
  <2> QED BY <1>0, <2>1
<1>6. CASE WorkerOrder
  <2>1. worker'.idx = worker.idx /\ worker'.evt = worker.evt
        /\ worker.pc = "order" /\ worker'.pc \in {"spawn", "recv", "exit"}
    BY <1>6 DEF WorkerOrder, WorkerGoto, Workers
  <2>2. worker'.pc = "spawn" => b.end[worker.idx - 1] < Ts[worker.evt] + Slack
    BY <1>6 DEF WorkerOrder, IsTimeInOrder, WorkerGoto, Workers
  <2>3. worker'.pc = "spawn" => InOrder(b, worker.evt, worker.idx)
    BY <2>1, <2>2 DEF InOrder
  <2>4. worker'.pc = "spawn" => InOrder(b', worker.evt, worker.idx)
    BY <1>0, <2>1, <2>3, InOrderStep DEF EventAtHand
  <2> QED BY <1>0, <2>1, <2>4
<1>7. \/ worker' = worker \/ worker'.pc \in {"recv", "exit", "snap"}
      \/ WorkerSnapshot \/ WorkerMatch \/ WorkerNoMatch \/ WorkerReply
      \/ WorkerOrder
  <2>1. ASSUME (\E e \in Events : MgrLock(e)) \/ Forward
        PROVE  worker' = worker \/ worker'.pc = "snap"
    BY <2>1 DEF MgrLock, Forward, MgrCheckDone, MgrLeave, MgrSend, MgrUnlock, Workers
  <2>2. ASSUME NEW p \in Procs, Process(p) PROVE worker' = worker \/ worker'.pc = "recv"
    <3>1. worker' = worker \/ Return(p)
      BY <2>2 DEF Process, Continue, ProcAppend, ProcCheck, ProcFinish,
                ProcEndTime, ProcReadRisk, ProcSetRisk, ProcLast, ProcLastAlarm,
                ProcDelete, ProcDispatch, ProcIncrease, ProcStartTime, ProcAlarm
    <3> QED BY <3>1, ReturnType
  <2>3. ASSUME Check \/ Delete \/ Tick \/ Terminated \/ UNCHANGED vars
        PROVE  worker' = worker
    BY <2>3 DEF Check, CheckerTick, CheckerExpiry, CheckerStatus, CheckerAlarm,
       CheckerDelete, CheckerDispatch, CheckerGoto, Delete, DeleteEnter,
       DeleteCloseData, DeleteRemove, DeleteAlarm, DeleteFrame, Tick, Terminated,
       vars
  <2>4. ASSUME NEW p \in Procs, WorkerSpawn(p) PROVE worker'.pc = "recv"
    BY <2>4 DEF WorkerSpawn, WorkerGoto, Workers
  <2>5. ASSUME WorkerPrevAppend \/ WorkerPrevAlarm \/ WorkerExit
        PROVE  worker'.pc \in {"recv", "exit"}
    BY <2>5 DEF WorkerPrevAppend, WorkerPrevAlarm, WorkerExit, WorkerGoto, Workers
  <2> QED BY <2>1, <2>2, <2>3, <2>4, <2>5 DEF Next, Work
<1> QED BY <1>1, <1>2, <1>3, <1>4, <1>5, <1>6, <1>7

\* What the handlers are about to append.
LEMMA HandlersInOrderStep ==
  ASSUME TypeInv, [Next]_vars, WorkerInOrder, HandlersInOrder
  PROVE  HandlersInOrder'
<1> USE DEF TypeInv, TypeOK
<1>1. SUFFICES ASSUME NEW q \in Procs, proc'[q].pc = "append"
               PROVE  InOrder(b', proc'[q].evt, proc'[q].idx)
  BY DEF HandlersInOrder
<1>2. CASE proc'[q] = proc[q]
  <2>1. InOrder(b, proc[q].evt, proc[q].idx) BY <1>1, <1>2 DEF HandlersInOrder
  <2>2. proc[q].evt \in Events /\ proc[q].idx \in Stages BY DEF Handlers
  <2> QED BY <1>2, <2>1, <2>2, InOrderStep
<1>3. CASE /\ worker.pc = "spawn" /\ proc'[q].evt = worker.evt
           /\ proc'[q].idx = worker.idx
  <2>1. InOrder(b, worker.evt, worker.idx) BY <1>3 DEF WorkerInOrder
  <2>2. worker.evt \in Events /\ worker.idx \in Stages
    BY <1>3 DEF Workers, EventAtHand
  <2> QED BY <1>3, <2>1, <2>2, InOrderStep
<1>4. ASSUME NEW p \in Procs, Process(p) PROVE proc'[q] = proc[q]
  <2>1. ASSUME NEW s \in ProcSteps \ {"append"}, ProcGoto(p, s)
        PROVE  q # p
    BY <1>1, <2>1 DEF ProcGoto, Handlers
  <2>2. ProcReadRisk(p) => q # p BY <1>1 DEF ProcReadRisk, Handlers
  <2>3. q # p
    BY <1>4, <2>1, <2>2 DEF Process, Continue, Return, ProcSteps, ProcAppend,
       ProcCheck, ProcFinish, ProcEndTime, ProcSetRisk, ProcLast, ProcLastAlarm,
       ProcDelete, ProcDispatch, ProcIncrease, ProcStartTime, ProcAlarm
  <2> QED
    BY <1>4, <2>3 DEF Process, Continue, Return, ProcGoto, ProcAppend,
       ProcCheck, ProcFinish, ProcEndTime, ProcReadRisk, ProcSetRisk, ProcLast,
       ProcLastAlarm, ProcDelete, ProcDispatch, ProcIncrease, ProcStartTime,
       ProcAlarm
<1>5. ASSUME NEW p \in Procs, WorkerSpawn(p)
      PROVE  \/ proc'[q] = proc[q]
             \/ /\ worker.pc = "spawn" /\ proc'[q].evt = worker.evt
                /\ proc'[q].idx = worker.idx
  BY <1>5 DEF WorkerSpawn
<1>6. ASSUME \/ \E e \in Events : MgrLock(e)
             \/ Forward \/ Check \/ Delete \/ Tick \/ Terminated \/ UNCHANGED vars
      PROVE  proc' = proc
  BY <1>6 DEF MgrLock, Forward, MgrCheckDone, MgrLeave, MgrSend,
     MgrUnlock, MgrGoto, Check, CheckerTick, CheckerExpiry, CheckerStatus,
     CheckerAlarm, CheckerDelete, CheckerDispatch, CheckerGoto, Delete,
     DeleteEnter, DeleteCloseData, DeleteRemove, DeleteAlarm, DeleteFrame, Tick,
     Terminated, vars
<1>7. Work => proc' = proc \/ \E p \in Procs : WorkerSpawn(p)
  BY DEF Work, WorkerSnapshot, WorkerMatch, WorkerNoMatch, WorkerPrevAppend,
     WorkerPrevAlarm, WorkerReply, WorkerOrder, WorkerExit
<1> QED BY <1>2, <1>3, <1>4, <1>5, <1>6, <1>7 DEF Next

\* What has been appended.
LEMMA EventsInOrderStep ==
  ASSUME TypeInv, [Next]_vars, WorkerInOrder, HandlersInOrder, EventsInOrder
  PROVE  EventsInOrder'
<1> USE DEF TypeInv, TypeOK
<1>1. SUFFICES ASSUME NEW i \in Stages, NEW e \in b'.events[i] PROVE InOrder(b', e, i)
  BY DEF EventsInOrder
<1>2. CASE e \in b.events[i]
  <2>1. InOrder(b, e, i) /\ e \in Events BY <1>2 DEF EventsInOrder, Structs
  <2> QED BY <2>1, InOrderStep
<1>3. ASSUME NEW p \in Procs, ProcAppend(p), e \notin b.events[i]
      PROVE  InOrder(b', e, i)
  <2>1. e = proc[p].evt /\ i = proc[p].idx
    BY <1>1, <1>3 DEF ProcAppend, AppendEvent, Structs
  <2>2. InOrder(b, e, i) BY <1>3, <2>1 DEF ProcAppend, HandlersInOrder
  <2>3. e \in Events BY <2>1 DEF Handlers
  <2> QED BY <2>2, <2>3, InOrderStep
<1>4. ASSUME NEW p \in Procs, Process(p), ~ProcAppend(p) PROVE b'.events = b.events
  BY <1>4 DEF Process, ProcCheck, ProcFinish, SetRuleStatus, ProcEndTime,
     ProcReadRisk, ProcSetRisk, ProcLast, ProcLastAlarm, ProcDelete,
     ProcDispatch, ProcIncrease, ProcStartTime, ProcAlarm, Structs
<1>5. ASSUME Work PROVE b'.events = b.events
  BY <1>5 DEF WorkerInOrder, Work, WorkerSnapshot, WorkerMatch, WorkerNoMatch,
     Record, WorkerPrevAppend, WorkerPrevAlarm, WorkerReply, WorkerOrder,
     WorkerExit, WorkerSpawn, Structs
<1>6. ASSUME Check PROVE b'.events = b.events
  BY <1>6 DEF Check, CheckerTick, CheckerExpiry, CheckerStatus, CheckerAlarm,
              CheckerDelete, CheckerDispatch, SetRuleStatus, Structs
<1>7. ASSUME \/ \E x \in Events : MgrLock(x)
             \/ Forward \/ Delete \/ Tick \/ Terminated \/ UNCHANGED vars
      PROVE  b'.events = b.events
  BY <1>7 DEF MgrLock, Forward, MgrCheckDone, MgrLeave, MgrSend,
     MgrUnlock, MgrGoto, Delete, DeleteEnter, DeleteCloseData, DeleteRemove,
     DeleteAlarm, DeleteFrame, Tick, Terminated, vars
<1> QED BY <1>1, <1>2, <1>3, <1>4, <1>5, <1>6, <1>7 DEF Next

\* Ordering, on top of the safety invariant, is inductive.
LEMMA OrderingAlways == Spec => []Ordering
<1>1. SafeInv /\ Ordering /\ [Next]_vars => Ordering'
  BY WorkerInOrderStep, HandlersInOrderStep, EventsInOrderStep DEF Ordering, SafeInv
<1> QED BY <1>1, OrderingInit, SafeAlways, PTL DEF Spec

\* Unless earlier rules stay active, an event counted for a rule is never older,
\* by more than the slack, than the end of the rule before it: the check of
\* isTimeInOrder is not undone by a handler that finishes later.
THEOREM CountedInOrder == Spec => []InTimeOrder
<1>1. SafeInv /\ Ordering => InTimeOrder
  <2> SUFFICES ASSUME SafeInv, Ordering, ~AllRules, NEW i \in 2..NRules,
                      NEW e \in b.events[i]
               PROVE  b.end[i - 1] < Ts[e] + Slack
    BY DEF InTimeOrder
  <2>1. i \in Stages /\ i >= 2 BY RulesAssumption DEF Stages
  <2> QED BY <2>1 DEF Ordering, EventsInOrder, InOrder
<1> QED BY <1>1, SafeAlways, OrderingAlways, PTL

-----------------------------------------------------------------------------
(* The alarm *)

Snapshot == [status |-> b.status, start |-> b.start, risk |-> b.risk]

\* Where a handler stands between a write and the updateAlarm that follows it.
Unpublished == {"endtime", "readrisk", "setrisk", "last", "lastalarm",
                "increase", "starttime", "alarm"}

\* A snapshot that is out of date has somebody who is going to replace it.
Publishing ==
  alarm = Snapshot \/ checker = "alarm" \/ \E p \in Procs : proc[p].pc \in Unpublished

\* Every write is followed by updateAlarm, in its goroutine.
LEMMA PublishingStep == SafeInv /\ Publishing /\ [Next]_vars => Publishing'
<1> SUFFICES ASSUME SafeInv, Publishing, [Next]_vars PROVE Publishing' OBVIOUS
<1> USE DEF SafeInv, TypeInv, TypeOK, Publishing, Snapshot
<1>1. ASSUME b'.status = b.status, b'.start = b.start, b'.risk = b.risk,
             UNCHANGED <<alarm, checker, proc>>
      PROVE  Publishing'
  BY <1>1
<1>2. ASSUME NEW e \in Events, MgrLock(e) PROVE Publishing' BY <1>2 DEF MgrLock
<1>3. CASE Forward
  BY <1>3 DEF Forward, MgrCheckDone, MgrLeave, MgrSend,
              MgrUnlock, MgrGoto
<1>4. CASE Work
  <2>1. CASE WorkerPrevAlarm
    <3>1. alarm' = Snapshot' BY <2>1 DEF WorkerPrevAlarm, UpdateAlarm
    <3> QED BY <3>1
  <2>2. ASSUME NEW p \in Procs, WorkerSpawn(p) PROVE Publishing'
    <3>1. \A q \in Procs : q # p => proc'[q] = proc[q] BY <2>2 DEF WorkerSpawn
    <3>2. proc[p].pc \notin Unpublished BY <2>2 DEF WorkerSpawn, Unpublished
    <3>3. UNCHANGED <<b, alarm, checker>> BY <2>2 DEF WorkerSpawn
    <3> QED BY <3>1, <3>2, <3>3
  <2>3. ASSUME ~WorkerPrevAlarm, ~\E p \in Procs : WorkerSpawn(p)
        PROVE  /\ b'.status = b.status /\ b'.start = b.start /\ b'.risk = b.risk
               /\ UNCHANGED <<alarm, checker, proc>>
    BY <1>4, <2>3 DEF Work, WorkerSnapshot, WorkerMatch, WorkerNoMatch, Record,
       WorkerPrevAppend, WorkerReply, WorkerOrder, WorkerExit, AppendEvent, Structs
  <2> QED BY <1>1, <2>1, <2>2, <2>3
<1>5. ASSUME NEW p \in Procs, Process(p) PROVE Publishing'
  <2>a. ASSUME NEW s \in Unpublished, ProcGoto(p, s) PROVE Publishing'
    <3>1. proc'[p].pc = s BY <2>a DEF ProcGoto, Handlers
    <3> QED BY <3>1
  <2>b. ASSUME NEW s \in ProcSteps, ProcGoto(p, s), proc[p].pc \notin Unpublished,
               b'.status = b.status, b'.start = b.start, b'.risk = b.risk,
               alarm' = alarm, checker' = checker \/ checker = "off"
        PROVE  Publishing'
    <3>1. \A q \in Procs : q # p => proc'[q] = proc[q] BY <2>b DEF ProcGoto
    <3> QED BY <2>b, <3>1
  <2>c. ASSUME UpdateAlarm, b' = b PROVE Publishing'
    <3>1. alarm' = Snapshot' BY <2>c DEF UpdateAlarm
    <3> QED BY <3>1
  <2>1. CASE ProcAppend(p)
    <3>1. b'.status = b.status /\ b'.start = b.start /\ b'.risk = b.risk
      BY <2>1 DEF ProcAppend, AppendEvent, Structs
    <3> QED BY <2>1, <2>b, <3>1 DEF ProcAppend, Continue, ProcSteps, Unpublished
  <2>2. CASE ProcCheck(p) \/ ProcDelete(p) \/ ProcDispatch(p)
    <3>1. /\ b' = b /\ alarm' = alarm /\ proc[p].pc \in {"check", "delete", "dispatch"}
          /\ \E s \in ProcSteps : ProcGoto(p, s)
      BY <2>2 DEF ProcCheck, ProcDelete, ProcDispatch, Continue, Return, ProcSteps
    <3>2. checker' = checker \/ checker = "off"
      BY <2>2 DEF ProcCheck, ProcDelete, ProcDispatch, Continue, Return,
                  Started, Startup
    <3> QED BY <3>1, <3>2, <2>b DEF Unpublished
  <2>3. CASE ProcFinish(p) \/ ProcEndTime(p) \/ ProcSetRisk(p) \/ ProcLast(p)
             \/ ProcIncrease(p) \/ ProcStartTime(p)
    BY <2>3, <2>a DEF ProcFinish, ProcEndTime, ProcSetRisk, ProcLast,
       ProcIncrease, ProcStartTime, Continue, Unpublished
  <2>4. CASE ProcReadRisk(p)
    <3>1. proc'[p].pc \in Unpublished
      BY <2>4 DEF ProcReadRisk, Handlers, Unpublished
    <3> QED BY <3>1
  <2>5. CASE ProcLastAlarm(p) \/ ProcAlarm(p)
    BY <2>5, <2>c DEF ProcLastAlarm, ProcAlarm
  <2> QED BY <1>5, <2>1, <2>2, <2>3, <2>4, <2>5 DEF Process
<1>6. CASE Check
  <2>1. CASE CheckerAlarm
    <3>1. alarm' = Snapshot' BY <2>1 DEF CheckerAlarm, UpdateAlarm
    <3> QED BY <3>1
  <2>2. CASE CheckerStatus BY <2>2 DEF CheckerStatus, CheckerGoto
  <2>3. CASE CheckerTick \/ CheckerExpiry \/ CheckerDelete \/ CheckerDispatch
    BY <2>3 DEF CheckerTick, CheckerExpiry, CheckerDelete, CheckerDispatch,
                CheckerGoto
  <2> QED BY <1>6, <2>1, <2>2, <2>3 DEF Check
<1>7. CASE Delete
  BY <1>7 DEF Delete, DeleteEnter, DeleteCloseData, DeleteRemove, DeleteAlarm,
              DeleteFrame
<1>8. CASE Tick \/ Terminated \/ UNCHANGED vars BY <1>8 DEF Tick, Terminated, vars
<1> QED BY <1>2, <1>3, <1>4, <1>5, <1>6, <1>7, <1>8 DEF Next

\* When no handler is at work and the checker is not publishing, the alarm was
\* handed the current status, start times and risk.
THEOREM AlarmFollows == Spec => []AlarmInSync
<1>1. Init => Publishing BY DEF Init, Publishing, Snapshot
<1>2. Spec => []Publishing BY <1>1, SafeAlways, PublishingStep, PTL DEF Spec
<1>3. Publishing => AlarmInSync
  BY DEF Publishing, AlarmInSync, ProcsIdle, Unpublished, Snapshot
<1> QED BY <1>2, <1>3, PTL

-----------------------------------------------------------------------------
(* The refinement: when the events of a directive come one at a time, the *)
(* goroutines of Backlog implement the stages of StagedDirective, for every *)
(* directive: any number of rules, any occurrences, all rules active or not. *)

Full(i) == Cardinality(b.events[i]) >= Occurrence[i]

\* The event is in no rule and will not come a second time.
Unused(e) == e \notin pending /\ \A i \in Stages : e \notin b.events[i]

\* No handler is needed: the stage waits for events, or it was the last one.
Resting == \/ ~Full(b.stage)
           \/ b.stage = NRules /\ b.risk = RuleRisk[NRules]

\* The steps at which the worker holds an event that is going to be counted.
Carrying ==
  \/ worker.pc \in {"snap", "match", "prev", "order", "spawn"}
  \/ worker.pc = "reply" /\ worker.found /\ worker.fresh

\* One event at a time: it is with the manager, the worker or one handler.
Alone ==
  /\ \A p, q \in Procs : proc[p].pc # "free" /\ proc[q].pc # "free" => p = q
  /\ worker.pc \notin {"off", "recv", "exit"} => ProcsIdle
  /\ mgr.pc \in {"scan", "send"} => ProcsIdle /\ worker.pc \in {"recv", "exit"}

\* Wherever it is, it has not been counted yet.
Fresh ==
  /\ \A e \in pending : \A i \in Stages : e \notin b.events[i]
  /\ mgr.pc \in {"scan", "send"} => Unused(mgr.evt)
  /\ Carrying => Unused(worker.evt)
  /\ \A p \in Procs : proc[p].pc = "append" => Unused(proc[p].evt)

\* The stage the worker read is the current one when the event is counted.
Indexes ==
  /\ Carrying /\ worker.pc \notin {"snap", "prev"} => worker.idx = b.stage
  /\ worker.pc = "prev" => AllRules /\ worker.idx < b.stage
  /\ \A p \in Procs : proc[p].pc \in {"append", "check"} => proc[p].idx = b.stage

\* What a handler has established when it gets to a step.
Progress(h) ==
  /\ h.pc \in {"append", "starttime", "alarm"} => Resting
  /\ h.pc \in {"finish", "endtime", "readrisk", "setrisk", "last", "lastalarm",
               "delete", "dispatch", "increase"} => Full(b.stage)
  /\ h.pc = "setrisk" => h.risk = RuleRisk[b.stage]
  /\ h.pc \in {"last", "lastalarm", "delete", "dispatch", "increase"}
       => b.risk = RuleRisk[b.stage]
  /\ h.pc \in {"lastalarm", "delete", "dispatch"} => b.stage = NRules
  /\ h.pc = "increase" => b.stage < NRules

Counts ==
  /\ \A i \in Stages : i > b.stage => b.events[i] = {}
  /\ ProcsIdle => Resting
  /\ \A p \in Procs : Progress(proc[p])

StagedInv == Alone /\ Fresh /\ Indexes /\ Counts

StagedBase == TypeInv /\ StagedInv

-----------------------------------------------------------------------------
(* The invariant *)

\* A stage without events is not complete.
LEMMA EmptyNotFull ==
  ASSUME NEW i \in Stages, b.events[i] = {} PROVE ~Full(i)
<1>1. Cardinality(b.events[i]) = 0 BY FS_EmptySet
<1>2. Occurrence[i] \in Nat /\ Occurrence[i] # 0 BY RulesAssumption
<1> QED BY <1>1, <1>2 DEF Full

\* A new backlog's first event is with the handler inside start().
LEMMA StagedInit == Init => StagedInv
<1> SUFFICES ASSUME Init PROVE StagedInv OBVIOUS
<1> USE RulesAssumption, EventsAssumption, BoundsAssumption
<1>1. Alone BY DEF Init, Alone
<1>2. Fresh BY DEF Init, Fresh, Unused, Carrying
<1>3. Indexes BY DEF Init, Indexes, Carrying
<1>4. 1 \in Stages /\ b.stage = 1 /\ \A i \in Stages : b.events[i] = {}
  BY DEF Init, Stages
<1>5. Resting BY <1>4, EmptyNotFull DEF Resting
<1>6. Counts BY <1>4, <1>5 DEF Init, Counts, Progress
<1> QED BY <1>1, <1>2, <1>3, <1>6 DEF StagedInv

\* Nothing else is read from the struct than the stage, the events and the risk.
LEMMA StagedKept ==
  ASSUME StagedBase, b'.stage = b.stage, b'.events = b.events, b'.risk = b.risk,
         UNCHANGED <<pending, mgr, worker, proc>>
  PROVE  StagedInv'
  BY DEF StagedBase, StagedInv, Alone, Fresh, Unused, Carrying, Indexes, Counts,
         Progress, Resting, Full, ProcsIdle

\* The manager passes its event on.
LEMMA StagedManager ==
  ASSUME StagedBase, Spaced, (\E e \in Events : MgrLock(e)) \/ Forward
  PROVE  StagedInv'
<1> USE DEF StagedBase, TypeInv, TypeOK
<1>1. b' = b /\ proc' = proc
  BY DEF MgrLock, Forward, MgrCheckDone, MgrLeave, MgrSend, MgrUnlock, MgrGoto
<1>2. Counts' BY <1>1 DEF StagedInv, Counts, Progress, Resting, Full, ProcsIdle
<1>3. ASSUME NEW e \in Events, MgrLock(e) PROVE StagedInv'
  <2>1. Alone' BY <1>1, <1>3 DEF StagedInv, MgrLock, Alone, ProcsIdle
  <2>2. Fresh' BY <1>1, <1>3 DEF StagedInv, MgrLock, Fresh, Unused, Carrying, Managers
  <2>3. Indexes' BY <1>1, <1>3 DEF StagedInv, MgrLock, Indexes, Carrying
  <2> QED BY <1>2, <2>1, <2>2, <2>3 DEF StagedInv
<1>4. CASE MgrSend /\ worker' # worker
  <2>1. /\ mgr.pc = "send" /\ mgr' = [mgr EXCEPT !.pc = "await"]
        /\ worker.pc = "recv" /\ pending' = pending
        /\ worker' = [worker EXCEPT !.pc = "snap", !.evt = mgr.evt]
    BY <1>4 DEF MgrSend, MgrGoto
  <2>2. worker'.pc = "snap" /\ worker'.evt = mgr.evt /\ mgr'.pc = "await"
    BY <2>1 DEF Workers, Managers
  <2>3. Alone' BY <1>1, <2>1, <2>2 DEF StagedInv, Alone, ProcsIdle
  <2>4. Fresh' BY <1>1, <2>1, <2>2 DEF StagedInv, Fresh, Unused, Carrying
  <2>5. Indexes' BY <1>1, <2>1, <2>2 DEF StagedInv, Indexes, Carrying
  <2> QED BY <1>2, <2>3, <2>4, <2>5 DEF StagedInv
<1>5. CASE Forward /\ worker' = worker
  <2>1. /\ pending' = pending /\ mgr'.evt = mgr.evt
        /\ mgr'.pc \in {"scan", "send"} => mgr.pc \in {"scan", "send"}
    BY <1>5 DEF Forward, MgrCheckDone, MgrLeave, MgrSend, MgrUnlock, MgrGoto,
                Managers, Workers
  <2>2. Alone' BY <1>1, <1>5, <2>1 DEF StagedInv, Alone, ProcsIdle
  <2>3. Fresh' BY <1>1, <1>5, <2>1 DEF StagedInv, Fresh, Unused, Carrying
  <2>4. Indexes' BY <1>1, <1>5, <2>1 DEF StagedInv, Indexes, Carrying
  <2> QED BY <1>2, <2>2, <2>3, <2>4 DEF StagedInv
<1> QED BY <1>3, <1>4, <1>5 DEF Forward, MgrCheckDone, MgrLeave, MgrUnlock

\* While the worker holds an event it is the only one at work.
LEMMA StagedWorker == ASSUME StagedBase, Work PROVE StagedInv'
<1> USE DEF StagedBase, TypeInv, TypeOK
<1>a. ASSUME b'.stage = b.stage, b'.events = b.events, b'.risk = b.risk, proc' = proc
      PROVE  Counts' /\ \A e : Unused(e) /\ pending' = pending => Unused(e)'
  BY <1>a DEF StagedInv, Counts, Progress, Resting, Full, ProcsIdle, Unused
<1>1. CASE WorkerSnapshot
  <2>1. worker'.pc = "match" /\ worker'.idx = b.stage /\ worker'.evt = worker.evt
    BY <1>1 DEF WorkerSnapshot, Workers
  <2>2. /\ UNCHANGED <<b, mgr, pending, proc>> /\ worker.pc = "snap"
    BY <1>1 DEF WorkerSnapshot
  <2>3. Alone' /\ Indexes'
    BY <2>1, <2>2 DEF StagedInv, Alone, Indexes, Carrying, ProcsIdle
  <2>4. Fresh' BY <2>1, <2>2 DEF StagedInv, Fresh, Unused, Carrying
  <2> QED BY <1>a, <2>2, <2>3, <2>4 DEF StagedInv
<1>2. CASE WorkerMatch \/ WorkerNoMatch
  <2>1. /\ b'.stage = b.stage /\ b'.events = b.events /\ b'.risk = b.risk
        /\ UNCHANGED <<mgr, pending, proc>> /\ worker.pc = "match"
    BY <1>2 DEF WorkerMatch, WorkerNoMatch, Record, Structs
  <2>2. /\ worker'.evt = worker.evt /\ worker'.pc \in {"reply", "prev"}
        /\ worker'.pc = "reply" => worker'.idx = worker.idx
        /\ worker'.pc = "prev" => worker'.idx \in PrevRules(worker.evt, worker.idx)
    BY <1>2 DEF WorkerMatch, WorkerNoMatch, Workers
  <2>3. worker.idx = b.stage BY <2>1 DEF StagedInv, Indexes, Carrying
  <2>4. worker'.pc = "prev" => AllRules /\ worker'.idx < b.stage
    BY <2>2, <2>3 DEF PrevRules, Stages, Workers
  <2>5. Alone' BY <2>1, <2>2 DEF StagedInv, Alone, ProcsIdle
  <2>6. Indexes' BY <2>1, <2>2, <2>3, <2>4 DEF StagedInv, Indexes, Carrying
  <2>7. Fresh' BY <2>1, <2>2 DEF StagedInv, Fresh, Unused, Carrying
  <2> QED BY <1>a, <2>1, <2>5, <2>6, <2>7 DEF StagedInv
<1>3. CASE WorkerPrevAppend
  <2> DEFINE e == worker.evt i == worker.idx
  <2>1. /\ worker.pc = "prev" /\ UNCHANGED <<mgr, pending, proc>>
        /\ b'.stage = b.stage /\ b'.risk = b.risk
        /\ b'.events = [b.events EXCEPT ![i] = @ \cup {e}]
        /\ worker'.pc = "prevalarm"
    BY <1>3 DEF WorkerPrevAppend, AppendEvent, WorkerGoto, Structs, Workers
  <2>2. i < b.stage /\ Unused(e) /\ ProcsIdle
    BY <2>1 DEF StagedInv, Indexes, Fresh, Carrying, Alone
  <2>3. i \in Stages /\ b.stage \in Stages /\ i \in Nat /\ b.stage \in Nat
    <3>1. i \in Stages /\ b.stage \in Stages BY DEF Workers, Structs
    <3> QED BY <3>1, StageType
  <2>4. \A j \in Stages : j >= b.stage => b'.events[j] = b.events[j]
    BY <2>1, <2>2, <2>3 DEF Stages, Structs
  <2>5. Resting' /\ (ProcsIdle')
    BY <2>1, <2>2, <2>3, <2>4 DEF StagedInv, Counts, Resting, Full, ProcsIdle
  <2>6. Counts'
    <3>1. \A j \in Stages : j > b'.stage => b'.events[j] = {}
      BY <2>1, <2>3, <2>4 DEF StagedInv, Counts, Stages
    <3>2. \A p \in Procs : Progress(proc[p])'
      BY <2>1, <2>2 DEF ProcsIdle, Progress
    <3> QED BY <2>5, <3>1, <3>2 DEF Counts
  <2>7. Alone' /\ Indexes'
    BY <2>1, <2>2 DEF StagedInv, Alone, Indexes, Carrying, ProcsIdle
  <2>8. mgr.pc \notin {"scan", "send"} BY <2>1 DEF StagedInv, Alone
  <2>9. \A x \in pending : \A j \in Stages : x \notin b'.events[j]
    BY <2>1, <2>2 DEF StagedInv, Fresh, Unused, Structs
  <2>10. Fresh'
    BY <2>1, <2>2, <2>8, <2>9 DEF Fresh, Carrying, ProcsIdle
  <2> QED BY <2>6, <2>7, <2>10 DEF StagedInv
<1>4. CASE WorkerPrevAlarm \/ WorkerExit
  <2>1. /\ UNCHANGED <<b, mgr, pending, proc>> /\ ~Carrying'
        /\ worker.pc \in {"prevalarm", "recv"}
        /\ worker.pc = "recv" => worker'.pc = "exit"
    BY <1>4 DEF WorkerPrevAlarm, WorkerExit, WorkerGoto, Carrying, Workers
  <2>2. Alone' BY <2>1 DEF StagedInv, Alone, ProcsIdle
  <2>3. Indexes' BY <2>1 DEF StagedInv, Indexes, Carrying
  <2>4. Fresh' BY <2>1 DEF StagedInv, Fresh, Unused
  <2> QED BY <1>a, <2>1, <2>2, <2>3, <2>4 DEF StagedInv
<1>5. CASE WorkerReply
  <2>1. /\ UNCHANGED <<b, pending, proc>> /\ mgr'.pc = "unlock" /\ worker.pc = "reply"
        /\ worker'.idx = worker.idx /\ worker'.evt = worker.evt
        /\ worker'.pc \in {"order", "recv"}
        /\ worker'.pc = "order" => worker.found /\ worker.fresh
    BY <1>5 DEF WorkerReply, WorkerGoto, Workers, Managers
  <2>2. Alone' /\ Indexes'
    BY <2>1 DEF StagedInv, Alone, Indexes, Carrying, ProcsIdle
  <2>3. Fresh' BY <2>1 DEF StagedInv, Fresh, Unused, Carrying
  <2> QED BY <1>a, <2>1, <2>2, <2>3 DEF StagedInv
<1>6. CASE WorkerOrder
  <2>1. /\ UNCHANGED <<b, mgr, pending, proc>> /\ worker.pc = "order"
        /\ worker'.idx = worker.idx /\ worker'.evt = worker.evt
        /\ worker'.pc \in {"spawn", "recv", "exit"}
    BY <1>6 DEF WorkerOrder, WorkerGoto, Workers
  <2>2. Alone' /\ Indexes'
    BY <2>1 DEF StagedInv, Alone, Indexes, Carrying, ProcsIdle
  <2>3. Fresh' BY <2>1 DEF StagedInv, Fresh, Unused, Carrying
  <2> QED BY <1>a, <2>1, <2>2, <2>3 DEF StagedInv
<1>7. ASSUME NEW p \in Procs, WorkerSpawn(p) PROVE StagedInv'
  <2>1. /\ UNCHANGED <<b, mgr, pending>> /\ worker.pc = "spawn" /\ worker'.pc = "recv"
        /\ worker'.evt = worker.evt
        /\ proc' = [proc EXCEPT ![p] = [pc |-> "append", evt |-> worker.evt,
                                        idx |-> worker.idx, risk |-> 0]]
    BY <1>7 DEF WorkerSpawn, WorkerGoto, Workers
  <2>2. ProcsIdle /\ worker.idx = b.stage /\ Unused(worker.evt) /\ Resting
        /\ mgr.pc \notin {"scan", "send"}
    BY <2>1 DEF StagedInv, Alone, Indexes, Fresh, Carrying, Counts
  <2>3. /\ \A q \in Procs : q # p => proc'[q].pc = "free"
        /\ proc'[p].pc = "append" /\ proc'[p].evt = worker.evt
        /\ proc'[p].idx = worker.idx
    BY <2>1, <2>2 DEF ProcsIdle
  <2>4. Alone' BY <2>1, <2>2, <2>3 DEF Alone
  <2>5. Indexes' BY <2>1, <2>2, <2>3 DEF Indexes, Carrying
  <2>6. Unused(worker.evt)' /\ \A x \in pending : \A i \in Stages : x \notin b'.events[i]
    BY <2>1, <2>2 DEF StagedInv, Fresh, Unused
  <2>7. Fresh'
    <3>1. ~Carrying' BY <2>1 DEF Carrying
    <3>2. \A q \in Procs : proc'[q].pc = "append" => Unused(proc[q].evt)'
      BY <2>1, <2>2, <2>3 DEF Unused
    <3> QED BY <2>1, <2>2, <2>6, <3>1, <3>2 DEF Fresh
  <2>8. Counts'
    <3>1. Resting' BY <2>1, <2>2 DEF Resting, Full
    <3>2. \A q \in Procs : Progress(proc[q])'
      BY <2>3, <3>1 DEF Progress
    <3> QED BY <2>1, <3>1, <3>2 DEF StagedInv, Counts
  <2> QED BY <2>4, <2>5, <2>7, <2>8 DEF StagedInv
<1> QED BY <1>1, <1>2, <1>3, <1>4, <1>5, <1>6, <1>7 DEF Work

\* The only handler at work moves to another step.
LEMMA HandlerMoves ==
  ASSUME StagedBase, TypeInv', NEW p \in Procs, proc[p].pc # "free", NEW h \in Handlers,
         proc' = [proc EXCEPT ![p] = h], h.pc # "append", UNCHANGED <<mgr, pending>>,
         worker' = worker \/ worker'.pc = "recv",
         \A i \in Stages : i > b'.stage => b'.events[i] = {},
         \A i \in Stages, e \in pending : e \notin b'.events[i],
         h.pc = "check" => h.idx = b'.stage,
         h.pc = "free" => Resting', Progress(h)'
  PROVE  StagedInv'
<1> USE DEF StagedBase, TypeInv, TypeOK
<1>1. /\ \A q \in Procs : q # p => proc[q].pc = "free" /\ proc'[q].pc = "free"
      /\ proc'[p] = h
  BY DEF StagedInv, Alone
<1>2. /\ ~ProcsIdle /\ worker.pc \in {"off", "recv", "exit"}
      /\ mgr.pc \notin {"scan", "send"}
      /\ worker'.pc \in {"off", "recv", "exit"} /\ mgr'.pc \notin {"scan", "send"}
  BY DEF StagedInv, Alone, ProcsIdle
<1>3. Alone' BY <1>1, <1>2 DEF Alone
<1>4. ~Carrying' BY <1>2 DEF Carrying
<1>5. Fresh' BY <1>1, <1>2, <1>4 DEF Fresh
<1>6. Indexes' BY <1>1, <1>2, <1>4 DEF Indexes
<1>7. Counts'
  <2>1. \A q \in Procs : Progress(proc[q])'
    BY <1>1 DEF Progress
  <2>2. (ProcsIdle => Resting)' BY <1>1 DEF ProcsIdle
  <2> QED BY <2>1, <2>2 DEF Counts
<1> QED BY <1>3, <1>5, <1>6, <1>7 DEF StagedInv

\* A step that leaves the stage, the events and the risk alone.
LEMMA HandlerKeeps ==
  ASSUME StagedBase, TypeInv', NEW p \in Procs, proc[p].pc # "free", NEW s \in ProcSteps,
         ProcGoto(p, s), s \notin {"append", "check"}, UNCHANGED <<mgr, pending>>,
         worker' = worker \/ worker'.pc = "recv",
         b'.stage = b.stage, b'.events = b.events, b'.risk = b.risk,
         s = "free" => Resting, Progress([proc[p] EXCEPT !.pc = s])
  PROVE  StagedInv'
<1> USE DEF StagedBase, TypeInv, TypeOK
<1> DEFINE h == [proc[p] EXCEPT !.pc = s]
<1>1. h \in Handlers /\ h.pc = s /\ h.risk = proc[p].risk BY DEF Handlers
<1>2. proc' = [proc EXCEPT ![p] = h] BY DEF ProcGoto
<1>3. /\ \A i \in Stages : i > b'.stage => b'.events[i] = {}
      /\ \A i \in Stages, e \in pending : e \notin b'.events[i]
  BY DEF StagedInv, Counts, Fresh
<1>4. Resting => Resting' BY DEF Resting, Full
<1>5. /\ s \in {"starttime", "alarm"} => Resting
      /\ s \in {"finish", "endtime", "readrisk", "setrisk", "last", "lastalarm",
                 "delete", "dispatch", "increase"} => Full(b.stage)
      /\ s = "setrisk" => proc[p].risk = RuleRisk[b.stage]
      /\ s \in {"last", "lastalarm", "delete", "dispatch", "increase"}
           => b.risk = RuleRisk[b.stage]
      /\ s \in {"lastalarm", "delete", "dispatch"} => b.stage = NRules
      /\ s = "increase" => b.stage < NRules
  BY <1>1 DEF Progress
<1> HIDE DEF h
<1> SUFFICES ASSUME NEW g \in Handlers, g = h PROVE StagedInv' BY <1>1
<1>6. Progress(g)' BY <1>1, <1>4, <1>5 DEF Progress, Full
<1> QED BY <1>1, <1>2, <1>3, <1>4, <1>6, HandlerMoves

\* Every step of processMatchedEvent establishes what the next one relies on.
LEMMA StagedProcess ==
  ASSUME StagedBase, TypeInv', NEW p \in Procs, Process(p)
  PROVE  StagedInv'
<1> USE DEF StagedBase, TypeInv, TypeOK, ProcFrame
<1>0. /\ proc[p] \in Handlers /\ proc[p].pc # "free" /\ Progress(proc[p])
      /\ UNCHANGED <<mgr, pending>> /\ b.stage \in Stages
  <2>1. proc[p].pc # "free" /\ UNCHANGED <<mgr, pending>>
    BY DEF Process, ProcAppend, ProcCheck, ProcFinish, ProcEndTime, ProcReadRisk,
       ProcSetRisk, ProcLast, ProcLastAlarm, ProcDelete, ProcDispatch,
       ProcIncrease, ProcStartTime, ProcAlarm
  <2> QED BY <2>1 DEF StagedInv, Counts, Structs
<1>a. Return(p) => worker' = worker \/ worker'.pc = "recv" BY ReturnType
<1>b. \A h : h = [proc[p] EXCEPT !.pc = h.pc] => h.risk = proc[p].risk
  BY DEF Handlers
<1>1. CASE ProcAppend(p)
  <2> DEFINE e == proc[p].evt i == b.stage
  <2>1. /\ proc[p].pc = "append" /\ worker' = worker
        /\ proc[p].idx = i /\ Unused(e)
        /\ b'.events = [b.events EXCEPT ![i] = @ \cup {e}] /\ b'.stage = i
        /\ proc' = [proc EXCEPT ![p] = [proc[p] EXCEPT !.pc = "check"]]
    BY <1>1 DEF ProcAppend, AppendEvent, Continue, ProcGoto, StagedInv, Indexes,
                Fresh, Structs
  <2>2. PICK h \in Handlers : /\ proc' = [proc EXCEPT ![p] = h]
                              /\ h.pc = "check" /\ h.idx = i
    <3>1. PICK h : h = [proc[p] EXCEPT !.pc = "check"] OBVIOUS
    <3>2. h \in Handlers /\ h.pc = "check" /\ h.idx = i
      BY <1>0, <2>1, <3>1 DEF Handlers, ProcSteps
    <3> QED BY <2>1, <3>1, <3>2
  <2>3. \A j \in Stages : j > b'.stage => b'.events[j] = {}
    <3>1. i \in Nat /\ \A j \in Stages : j \in Nat BY <1>0, StageType
    <3> QED BY <1>0, <2>1, <3>1 DEF StagedInv, Counts
  <2>4. \A j \in Stages, x \in pending : x \notin b'.events[j]
    BY <1>0, <2>1 DEF StagedInv, Fresh, Unused, Structs
  <2>5. Progress(h)' BY <2>2 DEF Progress
  <2> QED BY <1>0, <2>1, <2>2, <2>3, <2>4, <2>5, HandlerMoves
<1>2. CASE ProcCheck(p)
  <2>0. b' = b /\ proc[p].idx = b.stage /\ proc[p].pc = "check"
    BY <1>2 DEF ProcCheck, StagedInv, Indexes
  <2>1. CASE Full(b.stage)
    <3>1. ProcGoto(p, "finish") /\ worker' = worker
      BY <1>2, <2>0, <2>1 DEF ProcCheck, ReachedMax, Full, Continue
    <3>2. Progress([proc[p] EXCEPT !.pc = "finish"]) BY <1>0, <2>1 DEF Progress, Handlers
    <3> QED BY <1>0, <2>0, <3>1, <3>2, HandlerKeeps DEF ProcSteps
  <2>2. CASE ~Full(b.stage)
    <3>1. Return(p) BY <1>2, <2>0, <2>2 DEF ProcCheck, ReachedMax, Full
    <3>2. ProcGoto(p, "free") /\ Resting BY <2>2, <3>1 DEF Return, Resting
    <3>3. Progress([proc[p] EXCEPT !.pc = "free"]) BY <1>0 DEF Progress, Handlers
    <3> QED BY <1>0, <1>a, <2>0, <3>1, <3>2, <3>3, HandlerKeeps DEF ProcSteps
  <2> QED BY <2>1, <2>2
<1>3. CASE ProcFinish(p)
  <2>1. b'.stage = b.stage /\ b'.events = b.events /\ b'.risk = b.risk
        /\ ProcGoto(p, "endtime") /\ worker' = worker /\ proc[p].pc = "finish"
    BY <1>3 DEF ProcFinish, SetRuleStatus, Continue, Structs
  <2>2. Progress([proc[p] EXCEPT !.pc = "endtime"]) BY <1>0, <2>1 DEF Progress, Handlers
  <2> QED BY <1>0, <2>1, <2>2, HandlerKeeps DEF ProcSteps
<1>4. CASE ProcEndTime(p)
  <2>1. b'.stage = b.stage /\ b'.events = b.events /\ b'.risk = b.risk
        /\ ProcGoto(p, "readrisk") /\ worker' = worker /\ proc[p].pc = "endtime"
    BY <1>4 DEF ProcEndTime, Continue, Structs
  <2>2. Progress([proc[p] EXCEPT !.pc = "readrisk"])
    BY <1>0, <2>1 DEF Progress, Handlers
  <2> QED BY <1>0, <2>1, <2>2, HandlerKeeps DEF ProcSteps
<1>5. CASE ProcReadRisk(p)
  <2> DEFINE r == RuleRisk[b.stage]
  <2>1. /\ proc[p].pc = "readrisk" /\ b' = b /\ worker' = worker
        /\ proc' = [proc EXCEPT
             ![p] = [proc[p] EXCEPT !.pc = IF r # b.risk THEN "setrisk" ELSE "last",
                                    !.risk = r]]
    BY <1>5 DEF ProcReadRisk
  <2>2. r \in Nat BY <1>0, RulesAssumption
  <2>3. PICK h \in Handlers :
          /\ proc' = [proc EXCEPT ![p] = h] /\ h.pc \in {"setrisk", "last"}
          /\ h.risk = r /\ (h.pc = "last" => r = b.risk)
    <3>1. PICK h : h = [proc[p] EXCEPT !.pc = IF r # b.risk THEN "setrisk" ELSE "last",
                                       !.risk = r]
      OBVIOUS
    <3>2. /\ h \in Handlers /\ h.pc \in {"setrisk", "last"}
          /\ h.risk = r /\ (h.pc = "last" => r = b.risk)
      BY <1>0, <2>2, <3>1 DEF Handlers, ProcSteps
    <3> QED BY <2>1, <3>1, <3>2
  <2>4. Full(b.stage) BY <1>0, <2>1 DEF Progress
  <2>5. Progress(h)' BY <2>1, <2>3, <2>4 DEF Progress, Full
  <2>6. /\ \A i \in Stages : i > b'.stage => b'.events[i] = {}
        /\ \A i \in Stages, e \in pending : e \notin b'.events[i]
    BY <2>1 DEF StagedInv, Counts, Fresh
  <2> QED BY <1>0, <2>1, <2>3, <2>5, <2>6, HandlerMoves
<1>6. CASE ProcSetRisk(p)
  <2>1. /\ proc[p].pc = "setrisk" /\ worker' = worker
        /\ proc' = [proc EXCEPT ![p] = [proc[p] EXCEPT !.pc = "last"]]
        /\ b'.stage = b.stage /\ b'.events = b.events /\ b'.risk = proc[p].risk
    BY <1>6 DEF ProcSetRisk, Continue, ProcGoto, Structs
  <2>2. PICK h \in Handlers : proc' = [proc EXCEPT ![p] = h] /\ h.pc = "last"
    <3>1. PICK h : h = [proc[p] EXCEPT !.pc = "last"] OBVIOUS
    <3>2. h \in Handlers /\ h.pc = "last" BY <1>0, <3>1 DEF Handlers, ProcSteps
    <3> QED BY <2>1, <3>1, <3>2
  <2>3. Full(b.stage) /\ b'.risk = RuleRisk[b.stage] BY <1>0, <2>1 DEF Progress
  <2>4. Progress(h)' BY <2>1, <2>2, <2>3 DEF Progress, Full
  <2>5. /\ \A i \in Stages : i > b'.stage => b'.events[i] = {}
        /\ \A i \in Stages, e \in pending : e \notin b'.events[i]
    BY <2>1 DEF StagedInv, Counts, Fresh
  <2> QED BY <1>0, <2>1, <2>2, <2>4, <2>5, HandlerMoves
<1>7. CASE ProcLast(p)
  <2>1. /\ b' = b /\ worker' = worker /\ proc[p].pc = "last"
        /\ ProcGoto(p, IF b.stage = NRules THEN "lastalarm" ELSE "increase")
    BY <1>7 DEF ProcLast, Continue
  <2>2. Full(b.stage) /\ b.risk = RuleRisk[b.stage] BY <1>0, <2>1 DEF Progress
  <2>3. CASE b.stage = NRules
    <3>1. Progress([proc[p] EXCEPT !.pc = "lastalarm"])
      BY <1>0, <2>2, <2>3 DEF Progress, Handlers
    <3> QED BY <1>0, <2>1, <2>3, <3>1, HandlerKeeps DEF ProcSteps
  <2>4. CASE b.stage # NRules
    <3>1. b.stage < NRules BY <1>0, <2>4, RulesAssumption DEF Stages
    <3>2. Progress([proc[p] EXCEPT !.pc = "increase"])
      BY <1>0, <2>2, <3>1 DEF Progress, Handlers
    <3> QED BY <1>0, <2>1, <2>4, <3>2, HandlerKeeps DEF ProcSteps
  <2> QED BY <2>3, <2>4
<1>8. CASE ProcLastAlarm(p)
  <2>1. b' = b /\ worker' = worker /\ proc[p].pc = "lastalarm" /\ ProcGoto(p, "delete")
    BY <1>8 DEF ProcLastAlarm, Continue
  <2>2. Progress([proc[p] EXCEPT !.pc = "delete"]) BY <1>0, <2>1 DEF Progress, Handlers
  <2> QED BY <1>0, <2>1, <2>2, HandlerKeeps DEF ProcSteps
<1>9. CASE ProcDelete(p) \/ ProcDispatch(p)
  <2>1. b' = b /\ proc[p].pc \in {"delete", "dispatch"}
    BY <1>9 DEF ProcDelete, ProcDispatch
  <2>2. Resting BY <1>0, <2>1 DEF Progress, Resting
  <2>3. CASE Return(p)
    <3>1. ProcGoto(p, "free") BY <2>3 DEF Return
    <3>2. Progress([proc[p] EXCEPT !.pc = "free"]) BY <1>0 DEF Progress, Handlers
    <3> QED BY <1>0, <1>a, <2>1, <2>2, <2>3, <3>1, <3>2, HandlerKeeps DEF ProcSteps
  <2>4. CASE Continue(p, "dispatch")
    <3>1. Progress([proc[p] EXCEPT !.pc = "dispatch"])
      BY <1>0, <2>1 DEF Progress, Handlers
    <3> QED BY <1>0, <2>1, <2>4, <3>1, HandlerKeeps DEF Continue, ProcSteps
  <2> QED BY <1>9, <2>3, <2>4 DEF ProcDelete, ProcDispatch
<1>10. CASE ProcIncrease(p)
  <2>0. proc[p].pc = "increase" BY <1>10 DEF ProcIncrease
  <2>1. b.stage < NRules BY <1>0, <2>0 DEF Progress
  <2>2. /\ worker' = worker
        /\ proc' = [proc EXCEPT ![p] = [proc[p] EXCEPT !.pc = "starttime"]]
        /\ b'.stage = b.stage + 1 /\ b'.events = b.events /\ b'.risk = b.risk
    BY <1>10, <2>1 DEF ProcIncrease, Continue, ProcGoto, Structs
  <2>3. PICK h \in Handlers : proc' = [proc EXCEPT ![p] = h] /\ h.pc = "starttime"
    <3>1. PICK h : h = [proc[p] EXCEPT !.pc = "starttime"] OBVIOUS
    <3>2. h \in Handlers /\ h.pc = "starttime" BY <1>0, <3>1 DEF Handlers, ProcSteps
    <3> QED BY <2>2, <3>1, <3>2
  <2>4. b.stage \in Nat /\ b'.stage \in Stages
    BY <1>0, <2>1, <2>2, RulesAssumption DEF Stages
  <2>5. b.events[b'.stage] = {} /\ \A i \in Stages : i > b'.stage => b.events[i] = {}
    BY <2>2, <2>4 DEF StagedInv, Counts, Stages
  <2>6. ~Full(b'.stage) BY <2>4, <2>5, EmptyNotFull
  <2>7. Resting' BY <2>2, <2>6 DEF Resting, Full
  <2>8. Progress(h)' BY <2>3, <2>7 DEF Progress
  <2>9. \A i \in Stages, e \in pending : e \notin b'.events[i]
    BY <2>2 DEF StagedInv, Fresh
  <2> QED BY <1>0, <2>2, <2>3, <2>5, <2>8, <2>9, HandlerMoves
<1>11. CASE ProcStartTime(p)
  <2>1. b'.stage = b.stage /\ b'.events = b.events /\ b'.risk = b.risk
        /\ ProcGoto(p, "alarm") /\ worker' = worker /\ proc[p].pc = "starttime"
    BY <1>11 DEF ProcStartTime, Continue, Structs
  <2>2. Progress([proc[p] EXCEPT !.pc = "alarm"]) BY <1>0, <2>1 DEF Progress, Handlers
  <2> QED BY <1>0, <2>1, <2>2, HandlerKeeps DEF ProcSteps
<1>12. CASE ProcAlarm(p)
  <2>1. b' = b /\ Return(p) /\ proc[p].pc = "alarm" BY <1>12 DEF ProcAlarm
  <2>2. Resting /\ ProcGoto(p, "free") BY <1>0, <2>1 DEF Progress, Return
  <2>3. Progress([proc[p] EXCEPT !.pc = "free"]) BY <1>0 DEF Progress, Handlers
  <2> QED BY <1>0, <1>a, <2>1, <2>2, <2>3, HandlerKeeps DEF ProcSteps
<1> QED BY <1>1, <1>2, <1>3, <1>4, <1>5, <1>6, <1>7, <1>8, <1>9, <1>10, <1>11,
           <1>12 DEF Process

\* The other goroutines change nothing that the invariant reads.
LEMMA StagedStep == Spaced /\ StagedBase /\ [Next]_vars => StagedInv'
<1> SUFFICES ASSUME Spaced, StagedBase, [Next]_vars PROVE StagedInv' OBVIOUS
<1>1. TypeInv' BY TypeStep DEF StagedBase
<1>2. ASSUME Check \/ Delete \/ Tick \/ Terminated \/ UNCHANGED vars PROVE StagedInv'
  <2>1. UNCHANGED <<pending, mgr, worker, proc>>
    BY <1>2 DEF Check, CheckerTick, CheckerExpiry, CheckerStatus, CheckerAlarm,
       CheckerDelete, CheckerDispatch, CheckerGoto, Delete, DeleteEnter,
       DeleteCloseData, DeleteRemove, DeleteAlarm, DeleteFrame, Tick, Terminated,
       vars
  <2>2. b'.stage = b.stage /\ b'.events = b.events /\ b'.risk = b.risk
    BY <1>2 DEF Check, CheckerTick, CheckerExpiry, CheckerStatus, CheckerAlarm,
       CheckerDelete, CheckerDispatch, SetRuleStatus, Delete, DeleteEnter,
       DeleteCloseData, DeleteRemove, DeleteAlarm, DeleteFrame, Tick, Terminated,
       vars, StagedBase, TypeInv, TypeOK, Structs
  <2> QED BY <2>1, <2>2, StagedKept
<1> QED BY <1>1, <1>2, StagedManager, StagedWorker, StagedProcess DEF Next

-----------------------------------------------------------------------------
(* The refinement *)

\* Both modules count with the cardinality of the standard module.
LEMMA SameFull == \A i : Staged!Full(i) <=> Full(i)
  BY DEF Staged!Full, Full, Staged!Cardinality, Cardinality

\* A new backlog is a new staged directive.
LEMMA StagesInit == Init => Staged!Init
  BY DEF Init, Staged!Init, Stages

\* A step of a handler is the step of the stages it stands for, or none.
LEMMA ProcessStages ==
  ASSUME StagedBase, NEW p \in Procs, Process(p)
  PROVE  [Staged!Next]_(Staged!vars)
<1> USE DEF StagedBase, TypeInv, TypeOK
<1>0. life'.deleted = life.deleted
  BY DEF Process, ProcFrame, ProcAppend, ProcCheck, ProcFinish, ProcEndTime,
     ProcReadRisk, ProcSetRisk, ProcLast, ProcLastAlarm, ProcDelete,
     ProcDispatch, ProcIncrease, ProcStartTime, ProcAlarm, Dispatch, Lives
<1>1. CASE ProcAppend(p)
  <2> DEFINE e == proc[p].evt
  <2>1. /\ Unused(e) /\ proc[p].idx = b.stage /\ Resting /\ e \in Events
        /\ b'.events = [b.events EXCEPT ![b.stage] = @ \cup {e}]
        /\ b'.stage = b.stage /\ b'.risk = b.risk
    BY <1>1 DEF ProcAppend, AppendEvent, StagedInv, Fresh, Indexes, Counts,
                Progress, Structs, Handlers
  <2>2. Staged!New(e) BY <2>1 DEF Staged!New, Unused, Stages
  <2>3. CASE Full(b.stage)
    <3>1. Staged!CountLast(e)
      BY <1>0, <2>1, <2>2, <2>3, SameFull DEF Staged!CountLast, Resting
    <3> QED BY <2>1, <3>1 DEF Staged!Next
  <2>4. CASE ~Full(b.stage)
    <3>1. Staged!Count(e)
      BY <1>0, <2>1, <2>2, <2>4, SameFull DEF Staged!Count
    <3> QED BY <2>1, <3>1 DEF Staged!Next
  <2> QED BY <2>3, <2>4
<1>2. CASE ProcSetRisk(p)
  <2>1. /\ Full(b.stage) /\ proc[p].risk = RuleRisk[b.stage]
        /\ b'.stage = b.stage /\ b'.events = b.events /\ b'.risk = proc[p].risk
    BY <1>2 DEF ProcSetRisk, StagedInv, Counts, Progress, Structs
  <2>2. Staged!Assess BY <1>0, <2>1, SameFull DEF Staged!Assess
  <2> QED BY <2>2 DEF Staged!Next
<1>3. CASE ProcIncrease(p)
  <2>1. Full(b.stage) /\ b.risk = RuleRisk[b.stage] /\ b.stage < NRules
    BY <1>3 DEF ProcIncrease, StagedInv, Counts, Progress
  <2>2. b'.stage = b.stage + 1 /\ b'.events = b.events /\ b'.risk = b.risk
    BY <1>3, <2>1 DEF ProcIncrease, Structs
  <2>3. Staged!Advance BY <1>0, <2>1, <2>2, SameFull DEF Staged!Advance
  <2> QED BY <2>3 DEF Staged!Next
<1>4. ASSUME ~ProcAppend(p), ~ProcSetRisk(p), ~ProcIncrease(p)
      PROVE  UNCHANGED Staged!vars
  <2>1. b'.stage = b.stage /\ b'.events = b.events /\ b'.risk = b.risk
    BY <1>4 DEF Process, ProcCheck, ProcFinish, SetRuleStatus, ProcEndTime,
       ProcReadRisk, ProcLast, ProcLastAlarm, ProcDelete, ProcDispatch,
       ProcStartTime, ProcAlarm, Structs
  <2> QED BY <1>0, <2>1 DEF Staged!vars
<1> QED BY <1>1, <1>2, <1>3, <1>4

\* So is a step of the worker: it only ever counts for an earlier stage.
LEMMA WorkerStages ==
  ASSUME StagedBase, Work PROVE [Staged!Next]_(Staged!vars)
<1> USE DEF StagedBase, TypeInv, TypeOK
<1>0. life' = life
  BY DEF Work, WorkerSnapshot, WorkerMatch, WorkerNoMatch, WorkerPrevAppend,
     WorkerPrevAlarm, WorkerReply, WorkerOrder, WorkerExit, WorkerSpawn
<1>1. CASE WorkerPrevAppend
  <2> DEFINE e == worker.evt i == worker.idx
  <2>1. /\ Unused(e) /\ AllRules /\ i < b.stage /\ e \in Events /\ i \in Stages
        /\ b'.events = [b.events EXCEPT ![i] = @ \cup {e}]
        /\ b'.stage = b.stage /\ b'.risk = b.risk
    BY <1>1 DEF WorkerPrevAppend, AppendEvent, StagedInv, Fresh, Carrying, Indexes,
                Structs, Workers, EventAtHand
  <2>2. i \in 1..(b.stage - 1)
    <3>1. b.stage \in Stages BY DEF Structs
    <3> QED BY <2>1, <3>1, RulesAssumption DEF Stages
  <2>3. Staged!New(e) BY <2>1 DEF Staged!New, Unused, Stages
  <2>4. Staged!CountEarlier(e) BY <1>0, <2>1, <2>2, <2>3 DEF Staged!CountEarlier
  <2> QED BY <2>1, <2>4 DEF Staged!Next
<1>2. ASSUME ~WorkerPrevAppend PROVE UNCHANGED Staged!vars
  <2>1. b'.stage = b.stage /\ b'.events = b.events /\ b'.risk = b.risk
    BY <1>2 DEF Work, WorkerSnapshot, WorkerMatch, WorkerNoMatch, Record,
       WorkerPrevAlarm, WorkerReply, WorkerOrder, WorkerExit, WorkerSpawn, Structs
  <2> QED BY <1>0, <2>1 DEF Staged!vars
<1> QED BY <1>1, <1>2

\* The rest of the goroutines close the backlog, once, or do nothing.
LEMMA OtherStages ==
  ASSUME StagedBase,
         \/ \E e \in Events : MgrLock(e)
         \/ Forward \/ Check \/ Delete \/ Tick \/ Terminated \/ UNCHANGED vars
  PROVE  [Staged!Next]_(Staged!vars)
<1> USE DEF StagedBase, TypeInv, TypeOK
<1>1. b'.stage = b.stage /\ b'.events = b.events /\ b'.risk = b.risk
  BY DEF MgrLock, Forward, MgrCheckDone, MgrLeave, MgrSend, MgrUnlock, MgrGoto,
     Check, CheckerTick, CheckerExpiry, CheckerStatus, CheckerAlarm,
     CheckerDelete, CheckerDispatch, SetRuleStatus, Delete, DeleteEnter,
     DeleteCloseData, DeleteRemove, DeleteAlarm, DeleteFrame, Tick, Terminated,
     vars, Structs
<1>2. life'.deleted = life.deleted \/ life'.deleted
  BY DEF MgrLock, Forward, MgrCheckDone, MgrLeave, MgrSend, MgrUnlock, MgrGoto,
     Check, CheckerTick, CheckerExpiry, CheckerStatus, CheckerAlarm,
     CheckerDelete, CheckerDispatch, Dispatch, Delete, DeleteEnter,
     DeleteCloseData, DeleteRemove, DeleteAlarm, Tick, Terminated, vars, Lives
<1>3. CASE life'.deleted = life.deleted BY <1>1, <1>3 DEF Staged!vars
<1>4. CASE life'.deleted
  <2>1. Staged!Close BY <1>1, <1>4 DEF Staged!Close
  <2> QED BY <2>1 DEF Staged!Next
<1> QED BY <1>2, <1>3, <1>4

\* When a directive's events are spaced out, a backlog goes through its stages
\* as the documentation describes: an event is counted once, for the current
\* stage and never beyond the occurrence of an inner one, the risk of a
\* complete stage is assessed before the next one begins, and no other
\* goroutine disturbs that.
THEOREM StagesImplemented == ASSUME Spaced PROVE Spec => ImplementsStages
<1>1. Init => StagedInv BY StagedInit
<1>2. TypeInv /\ StagedInv /\ [Next]_vars => StagedInv' BY StagedStep DEF StagedBase
<1>3. TypeInv /\ StagedInv /\ [Next]_vars => [Staged!Next]_(Staged!vars)
  BY ProcessStages, WorkerStages, OtherStages DEF StagedBase, Next
<1> QED BY <1>1, <1>2, <1>3, StagesInit, TypeAlways, PTL
        DEF Spec, ImplementsStages, Staged!Spec
=============================================================================
