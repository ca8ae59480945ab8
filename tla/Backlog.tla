------------------------------- MODULE Backlog -------------------------------
(***************************************************************************)
(* One backlog of one directive (siem/backlog.go) with every goroutine     *)
(* that touches it: the directive's manager forwarding events under the    *)
(* reader lock of `backlogs', the backlog's worker (newEventProcessor),    *)
(* one goroutine per matched event (processMatchedEvent), the expiration   *)
(* checker, and the goroutines of backlogs.delete.  A step is one critical *)
(* section of the backlog's lock or one channel operation.                 *)
(***************************************************************************)
EXTENDS Naturals, FiniteSets

CONSTANTS
  NRules,       \* number of rules of the directive, also its highest stage
  Occurrence,   \* Rules[i].Occurrence
  Timeout,      \* Rules[i].Timeout
  RuleRisk,     \* priority * Rules[i].Reliability * asset value / 25
  Sticky,       \* whether Rules[i].StickyDiff is set
  AllRules,     \* Directive.AllRulesAlwaysActive
  Lifetime,     \* minAlarmLifetime
  Slack,        \* the 5 seconds of isTimeInOrder
  Events,       \* the events this directive receives, each one once
  Initial,      \* the event that created the backlog
  Matches,      \* the rules an event satisfies
  Touches,      \* the rules whose sticky list records the event's value
  Value,        \* the value of the event's sticky field
  Ts,           \* the event's timestamp
  Dated,        \* the events whose timestamp can be parsed
  Procs,        \* bound: goroutines of processMatchedEvent alive at once
  Starter,      \* the one that runs inside start()
  Now,          \* wall clock at creation, seconds since the epoch
  MaxClock,     \* bound on the wall clock
  Spaced,       \* environment: an event comes only when the previous is done
  NoEvent

Stages == 1..NRules

ASSUME RulesAssumption ==
  /\ NRules \in Nat /\ NRules >= 2             \* ValidateDirective
  /\ Occurrence \in [Stages -> Nat \ {0}]
  /\ Occurrence[1] = 1                         \* ValidateRules
  /\ Timeout \in [Stages -> Nat]
  /\ RuleRisk \in [Stages -> Nat]
  /\ Sticky \in [Stages -> BOOLEAN]
  /\ AllRules \in BOOLEAN

ASSUME EventsAssumption ==
  /\ Initial \in Events
  /\ NoEvent \notin Events
  /\ Matches \in [Events -> SUBSET Stages]
  /\ Touches \in [Events -> SUBSET Stages]
  /\ \A e \in Events : Matches[e] \subseteq Touches[e]
  /\ Ts \in [Events -> Nat]
  /\ Dated \subseteq Events /\ Initial \in Dated   \* createNewBackLog

ASSUME BoundsAssumption ==
  /\ Starter \in Procs
  /\ Lifetime \in Nat /\ Slack \in Nat
  /\ Now \in Nat /\ MaxClock \in Nat /\ Now <= MaxClock
  /\ Spaced \in BOOLEAN

VARIABLES
  b,            \* the backLog struct: stage, rules, risk, sticky values
  alarm,        \* the snapshot updateAlarm published last
  life,         \* deletion flag, channels, map entry, backlogs.delete
  mgr,          \* the manager's goroutine for this backlog, and its event
  pending,      \* events not yet taken from the directive's channel
  worker,       \* newEventProcessor
  proc,         \* processMatchedEvent, one per goroutine
  checker,      \* expirationChecker
  clock,
  panics        \* run-time panics raised so far

vars == <<b, alarm, life, mgr, pending, worker, proc, checker, clock, panics>>

Statuses  == {"none", "finished", "timeout"}
Panics    == {"close of closed channel", "send on closed channel",
              "nil parent", "index out of range"}
Structs   == [stage : Stages, events : [Stages -> SUBSET Events],
              status : [Stages -> Statuses], start : [Stages -> Nat],
              end : [Stages -> Nat], risk : Nat,
              seen : [Stages -> SUBSET {Value[e] : e \in Events}]]
Snapshots == [status : [Stages -> Statuses], start : [Stages -> Nat], risk : Nat]
Lives     == [deleted : BOOLEAN, chDone : BOOLEAN, chData : BOOLEAN,
              inMap : BOOLEAN, waiting : Nat,
              pc : {"none", "grace1", "grace2", "removed", "gone"}]
Managers  == [pc : {"idle", "scan", "send", "await", "unlock"},
              evt : Events \cup {NoEvent}]
Workers   == [pc : {"off", "recv", "snap", "match", "prev", "prevalarm",
                    "reply", "order", "spawn", "exit"},
              evt : Events \cup {NoEvent}, idx : Stages,
              found : BOOLEAN, fresh : BOOLEAN]
ProcSteps == {"free", "append", "check", "finish", "endtime", "readrisk",
              "setrisk", "last", "lastalarm", "delete", "dispatch",
              "increase", "starttime", "alarm"}
Handlers  == [pc : ProcSteps, evt : Events, idx : Stages, risk : Nat]

\* Every variable holds a value of the kind the Go declarations allow.
TypeOK ==
  /\ b \in Structs
  /\ alarm \in Snapshots
  /\ life \in Lives
  /\ mgr \in Managers
  /\ pending \subseteq Events
  /\ worker \in Workers
  /\ proc \in [Procs -> Handlers]
  /\ checker \in {"off", "tick", "expiry", "status", "alarm", "delete",
                  "dispatch", "exit"}
  /\ clock \in Nat
  /\ panics \subseteq Panics

(***************************************************************************)
(* createNewBackLog, and the manager entering start() with the event that  *)
(* created the backlog: processMatchedEvent(initialEvent, 0) runs first,   *)
(* the worker and the expiration checker are started when it returns.      *)
(***************************************************************************)
Init ==
  /\ b = [stage |-> 1, risk |-> 0,
          events |-> [i \in Stages |-> {}], status |-> [i \in Stages |-> "none"],
          start |-> [i \in Stages |-> IF i = 1 THEN Ts[Initial] ELSE 0],
          end |-> [i \in Stages |-> 0], seen |-> [i \in Stages |-> {}]]
  /\ alarm = [status |-> b.status, start |-> b.start, risk |-> b.risk]
  /\ life = [deleted |-> FALSE, chDone |-> FALSE, chData |-> FALSE,
             inMap |-> TRUE, waiting |-> 0, pc |-> "none"]
  /\ mgr = [pc |-> "idle", evt |-> NoEvent]
  /\ pending = Events \ {Initial}
  /\ worker = [pc |-> "off", evt |-> NoEvent, idx |-> 1,
               found |-> FALSE, fresh |-> FALSE]
  /\ proc = [p \in Procs |-> [pc |-> IF p = Starter THEN "append" ELSE "free",
                              evt |-> Initial, idx |-> 1, risk |-> 0]]
  /\ checker = "off"
  /\ clock = Now
  /\ panics = {}

-----------------------------------------------------------------------------
(* Steps shared by several goroutines. *)

Panic(kind) == panics' = panics \cup {kind}

AppendEvent(e, i) == b' = [b EXCEPT !.events[i] = @ \cup {e}]

\* The rule of the current stage, not of the caller's index.
SetRuleStatus(s) == b' = [b EXCEPT !.status[b.stage] = s]

\* The snapshot handed to alarm.Upsert.
UpdateAlarm == alarm' = [status |-> b.status, start |-> b.start, risk |-> b.risk]

\* b.bLogs.delete(b) starts a goroutine; bLogs is nil after the removal.
Dispatch ==
  IF life.inMap
  THEN life' = [life EXCEPT !.waiting = @ + 1] /\ UNCHANGED panics
  ELSE Panic("nil parent") /\ UNCHANGED life

-----------------------------------------------------------------------------
(* The manager's goroutine for this backlog. *)

\* The manager is inside start() until the worker runs.
Started == worker.pc # "off"

ProcsIdle == \A p \in Procs : proc[p].pc = "free"

MgrGoto(step) ==
  /\ mgr' = [mgr EXCEPT !.pc = step]
  /\ UNCHANGED <<b, alarm, life, pending, proc, checker, clock>>

\* Takes the next event and the reader lock of `backlogs'.
MgrLock(e) ==
  /\ mgr.pc = "idle" /\ Started /\ life.inMap
  /\ Spaced => ProcsIdle /\ worker.pc = "recv"
  /\ e \in pending
  /\ pending' = pending \ {e}
  /\ mgr' = [pc |-> "scan", evt |-> e]
  /\ UNCHANGED <<b, alarm, life, worker, proc, checker, clock, panics>>

\* The first select finds chDone open.
MgrCheckDone ==
  /\ mgr.pc = "scan" /\ ~life.chDone
  /\ MgrGoto("send")
  /\ UNCHANGED <<worker, panics>>

\* Each of the three selects leaves when chDone is closed.
MgrLeave ==
  /\ mgr.pc \in {"scan", "send", "await"} /\ life.chDone
  /\ MgrGoto("unlock")
  /\ UNCHANGED <<worker, panics>>

\* The chData case: a hand-over to the waiting worker.
MgrSend ==
  /\ mgr.pc = "send"
  /\ IF life.chData
     THEN /\ Panic("send on closed channel")
          /\ MgrGoto("unlock")
          /\ UNCHANGED worker
     ELSE /\ worker.pc = "recv"
          /\ MgrGoto("await")
          /\ worker' = [worker EXCEPT !.pc = "snap", !.evt = mgr.evt]
          /\ UNCHANGED panics

\* The reader lock is given back once every backlog has answered.
MgrUnlock ==
  /\ mgr.pc = "unlock"
  /\ MgrGoto("idle")
  /\ UNCHANGED <<worker, panics>>

-----------------------------------------------------------------------------
(* The worker, newEventProcessor. *)

WorkerGoto(step) == worker' = [worker EXCEPT !.pc = step]

\* Reads the current stage under the reader lock and lets go of it.
WorkerSnapshot ==
  /\ worker.pc = "snap"
  /\ worker' = [worker EXCEPT !.pc = "match", !.idx = b.stage]
  /\ UNCHANGED <<b, alarm, life, mgr, pending, proc, checker, clock, panics>>

\* The earlier rules tried, in order, for an event the current one rejects.
PrevRules(e, i) ==
  {j \in 1..(i - 1) : AllRules /\ \A k \in 1..(j - 1) : k \notin Matches[e]}

\* DoesEventMatch on the rules in S: a sticky list grows even when a later
\* check of the rule rejects the event.
Record(e, S) ==
  b' = [b EXCEPT !.seen = [i \in Stages |->
          IF i \in S /\ Sticky[i] /\ i \in Touches[e]
          THEN b.seen[i] \cup {Value[e]} ELSE b.seen[i]]]

\* The event matches the rule of the stage that was read.
WorkerMatch ==
  LET e == worker.evt i == worker.idx
  IN /\ worker.pc = "match" /\ i \in Matches[e]
     /\ worker' = [worker EXCEPT !.pc = "reply", !.found = TRUE,
                     !.fresh = Sticky[i] => Value[e] \notin b.seen[i]]
     /\ Record(e, {i})
     /\ UNCHANGED <<alarm, life, mgr, pending, proc, checker, clock, panics>>

\* Variant: an event that matches nothing gets no answer.
WorkerNoMatch_Silent ==
  /\ worker.pc = "match" /\ worker.idx \notin Matches[worker.evt]
  /\ WorkerGoto("recv")
  /\ UNCHANGED <<b, alarm, life, mgr, pending, proc, checker, clock, panics>>

\* It does not; under AllRulesAlwaysActive an earlier rule may take it.
WorkerNoMatch ==
  LET e == worker.evt
      tried == PrevRules(e, worker.idx)
      hits == tried \cap Matches[e]
  IN /\ worker.pc = "match" /\ worker.idx \notin Matches[e]
     /\ Record(e, {worker.idx} \cup tried)
     /\ IF hits = {}
        THEN worker' = [worker EXCEPT !.pc = "reply", !.found = FALSE]
        ELSE \E j \in hits : worker' = [worker EXCEPT !.pc = "prev", !.idx = j]
     /\ UNCHANGED <<alarm, life, mgr, pending, proc, checker, clock, panics>>

\* The event is appended to that earlier rule and nothing else is processed.
WorkerPrevAppend ==
  /\ worker.pc = "prev"
  /\ AppendEvent(worker.evt, worker.idx)
  /\ WorkerGoto("prevalarm")
  /\ UNCHANGED <<alarm, life, mgr, pending, proc, checker, clock, panics>>

WorkerPrevAlarm ==
  /\ worker.pc = "prevalarm"
  /\ UpdateAlarm
  /\ worker' = [worker EXCEPT !.pc = "reply", !.found = TRUE, !.fresh = FALSE]
  /\ UNCHANGED <<b, life, mgr, pending, proc, checker, clock, panics>>

\* chFound <- found, received by the manager.  An event that brings no new
\* sticky value, or was taken by an earlier rule, ends here.
WorkerReply ==
  /\ worker.pc = "reply" /\ mgr.pc = "await"
  /\ mgr' = [mgr EXCEPT !.pc = "unlock"]
  /\ WorkerGoto(IF worker.found /\ worker.fresh THEN "order" ELSE "recv")
  /\ UNCHANGED <<b, alarm, life, pending, proc, checker, clock, panics>>

\* Variant: compares with the end of the rule itself.
IsTimeInOrder_SameRule(i, e) == b.end[i] < Ts[e] + Slack

IsTimeInOrder(i, e) == b.end[i - 1] < Ts[e] + Slack

\* An event without a valid timestamp is discarded; the others are compared with
\* the end of the previous rule.  Rules[-1] panics.
WorkerOrder ==
  LET e == worker.evt i == worker.idx
  IN /\ worker.pc = "order"
     /\ IF i = 1 /\ e \in Dated
        THEN Panic("index out of range") /\ WorkerGoto("exit")
        ELSE /\ WorkerGoto(IF e \in Dated /\ IsTimeInOrder(i, e)
                           THEN "spawn" ELSE "recv")
             /\ UNCHANGED panics
     /\ UNCHANGED <<b, alarm, life, mgr, pending, proc, checker, clock>>

\* A pressure signal goes through bLogs; then go processMatchedEvent.
WorkerSpawn(p) ==
  /\ worker.pc = "spawn" /\ proc[p].pc = "free"
  /\ \E pressed \in BOOLEAN :
       IF pressed /\ ~life.inMap THEN Panic("nil parent") ELSE UNCHANGED panics
  /\ proc' = [proc EXCEPT ![p] = [pc |-> "append", evt |-> worker.evt,
                                  idx |-> worker.idx, risk |-> 0]]
  /\ WorkerGoto("recv")
  /\ UNCHANGED <<b, alarm, life, mgr, pending, checker, clock>>

\* A closed chData ends the worker.
WorkerExit ==
  /\ worker.pc = "recv" /\ life.chData
  /\ WorkerGoto("exit")
  /\ UNCHANGED <<b, alarm, life, mgr, pending, proc, checker, clock, panics>>

-----------------------------------------------------------------------------
(* processMatchedEvent in goroutine p. *)

ProcGoto(p, step) == proc' = [proc EXCEPT ![p].pc = step]

ProcFrame == UNCHANGED <<mgr, pending, clock>>

\* A step that is neither the last of its goroutine nor a panic.
Continue(p, step) ==
  /\ ProcGoto(p, step)
  /\ UNCHANGED <<worker, checker, panics>>

\* Returning; inside start() this is where the two loops are started.
Return(p) ==
  /\ ProcGoto(p, "free")
  /\ IF Started
     THEN UNCHANGED <<worker, checker>>
     ELSE WorkerGoto("recv") /\ checker' = "tick"

ProcAppend(p) ==
  /\ proc[p].pc = "append"
  /\ AppendEvent(proc[p].evt, proc[p].idx)
  /\ Continue(p, "check")
  /\ ProcFrame /\ UNCHANGED <<alarm, life>>

\* Variant: one event too early.
ReachedMax_Early(i) == Cardinality(b.events[i]) + 1 >= Occurrence[i]

\* isStageReachMaxEvtCount, for the index the event was matched at.
ReachedMax(i) == Cardinality(b.events[i]) >= Occurrence[i]

ProcCheck(p) ==
  /\ proc[p].pc = "check"
  /\ IF ReachedMax(proc[p].idx)
     THEN Continue(p, "finish")
     ELSE Return(p) /\ UNCHANGED panics
  /\ ProcFrame /\ UNCHANGED <<b, alarm, life>>

ProcFinish(p) ==
  /\ proc[p].pc = "finish"
  /\ SetRuleStatus("finished")
  /\ Continue(p, "endtime")
  /\ ProcFrame /\ UNCHANGED <<alarm, life>>

\* setRuleEndTime, on the current stage as well.
ProcEndTime(p) ==
  /\ proc[p].pc = "endtime"
  /\ b' = [b EXCEPT !.end[b.stage] = Ts[proc[p].evt]]
  /\ Continue(p, "readrisk")
  /\ ProcFrame /\ UNCHANGED <<alarm, life>>

\* calcRisk reads under the reader lock and writes under the writer lock.
ProcReadRisk(p) ==
  /\ proc[p].pc = "readrisk"
  /\ LET r == RuleRisk[b.stage]
     IN proc' = [proc EXCEPT ![p].pc = IF r # b.risk THEN "setrisk" ELSE "last",
                             ![p].risk = r]
  /\ ProcFrame /\ UNCHANGED <<b, alarm, life, worker, checker, panics>>

ProcSetRisk(p) ==
  /\ proc[p].pc = "setrisk"
  /\ b' = [b EXCEPT !.risk = proc[p].risk]
  /\ Continue(p, "last")
  /\ ProcFrame /\ UNCHANGED <<alarm, life>>

\* Variant: the last stage deletes the backlog without a last updateAlarm.
ProcLast_Unpublished(p) ==
  /\ proc[p].pc = "last"
  /\ Continue(p, IF b.stage = NRules THEN "delete" ELSE "increase")
  /\ ProcFrame /\ UNCHANGED <<b, alarm, life>>

\* isLastStage
ProcLast(p) ==
  /\ proc[p].pc = "last"
  /\ Continue(p, IF b.stage = NRules THEN "lastalarm" ELSE "increase")
  /\ ProcFrame /\ UNCHANGED <<b, alarm, life>>

ProcLastAlarm(p) ==
  /\ proc[p].pc = "lastalarm"
  /\ UpdateAlarm
  /\ Continue(p, "delete")
  /\ ProcFrame /\ UNCHANGED <<b, life>>

\* backLog.delete reads the flag, then calls backlogs.delete.
ProcDelete(p) ==
  /\ proc[p].pc = "delete"
  /\ IF life.deleted
     THEN Return(p) /\ UNCHANGED panics
     ELSE Continue(p, "dispatch")
  /\ ProcFrame /\ UNCHANGED <<b, alarm, life>>

ProcDispatch(p) ==
  /\ proc[p].pc = "dispatch"
  /\ Dispatch
  /\ Return(p)
  /\ ProcFrame /\ UNCHANGED <<b, alarm>>

\* Variant: the stage grows without looking at HighestStage.
ProcIncrease_Unbounded(p) ==
  /\ proc[p].pc = "increase"
  /\ b' = [b EXCEPT !.stage = b.stage + 1]
  /\ Continue(p, "starttime")
  /\ ProcFrame /\ UNCHANGED <<alarm, life>>

ProcIncrease(p) ==
  /\ proc[p].pc = "increase"
  /\ b' = [b EXCEPT !.stage = IF b.stage < NRules THEN b.stage + 1 ELSE b.stage]
  /\ Continue(p, "starttime")
  /\ ProcFrame /\ UNCHANGED <<alarm, life>>

ProcStartTime(p) ==
  /\ proc[p].pc = "starttime"
  /\ b' = [b EXCEPT !.start[b.stage] = Ts[proc[p].evt]]
  /\ Continue(p, "alarm")
  /\ ProcFrame /\ UNCHANGED <<alarm, life>>

ProcAlarm(p) ==
  /\ proc[p].pc = "alarm"
  /\ UpdateAlarm
  /\ Return(p)
  /\ ProcFrame /\ UNCHANGED <<b, life, panics>>

-----------------------------------------------------------------------------
(* expirationChecker *)

CheckerGoto(step) ==
  /\ checker' = step
  /\ UNCHANGED <<mgr, pending, worker, proc, clock>>

\* A tick: leave when chDone is closed.
CheckerTick ==
  /\ checker = "tick"
  /\ CheckerGoto(IF life.chDone THEN "exit" ELSE "expiry")
  /\ UNCHANGED <<b, alarm, life, panics>>

\* Variant: the comparison the other way round.
IsExpired_Reversed == clock < b.start[b.stage] + Timeout[b.stage] + Lifetime

IsExpired == b.start[b.stage] + Timeout[b.stage] + Lifetime < clock

CheckerExpiry ==
  /\ checker = "expiry"
  /\ CheckerGoto(IF IsExpired THEN "status" ELSE "tick")
  /\ UNCHANGED <<b, alarm, life, panics>>

CheckerStatus ==
  /\ checker = "status"
  /\ SetRuleStatus("timeout")
  /\ CheckerGoto("alarm")
  /\ UNCHANGED <<alarm, life, panics>>

CheckerAlarm ==
  /\ checker = "alarm"
  /\ UpdateAlarm
  /\ CheckerGoto("delete")
  /\ UNCHANGED <<b, life, panics>>

CheckerDelete ==
  /\ checker = "delete"
  /\ CheckerGoto(IF life.deleted THEN "exit" ELSE "dispatch")
  /\ UNCHANGED <<b, alarm, life, panics>>

CheckerDispatch ==
  /\ checker = "dispatch"
  /\ Dispatch
  /\ CheckerGoto("exit")
  /\ UNCHANGED <<b, alarm>>

-----------------------------------------------------------------------------
(* The goroutines of backlogs.delete. *)

DeleteFrame == UNCHANGED <<b, alarm, mgr, pending, worker, proc, checker, clock>>

\* Variant: the deleting goroutine takes no lock on `backlogs'.
WriterLockFree_NoLock == TRUE

\* The writer lock of `backlogs' needs the manager's reader lock released.
WriterLockFree == mgr.pc = "idle"

\* Three seconds outlast every goroutine that is running: the assumption the
\* two sleeps stand for.  It is not a fact about the code, and it alone keeps
\* bLogs from being followed after the removal.
GraceOver ==
  ProcsIdle /\ worker.pc \in {"recv", "exit"} /\ checker \in {"tick", "exit"}

\* Under both writer locks: the first one closes chDone, the others leave.
DeleteEnter ==
  /\ life.waiting > 0 /\ WriterLockFree
  /\ IF life.deleted
     THEN life' = [life EXCEPT !.waiting = @ - 1] /\ UNCHANGED panics
     ELSE /\ life' = [life EXCEPT !.waiting = @ - 1, !.deleted = TRUE,
                                  !.chDone = TRUE, !.pc = "grace1"]
          /\ IF life.chDone THEN Panic("close of closed channel")
                            ELSE UNCHANGED panics
  /\ DeleteFrame

DeleteCloseData ==
  /\ life.pc = "grace1" /\ GraceOver
  /\ life' = [life EXCEPT !.chData = TRUE, !.pc = "grace2"]
  /\ IF life.chData THEN Panic("close of closed channel") ELSE UNCHANGED panics
  /\ DeleteFrame

\* bLogs = nil and out of the map, under the writer lock.
DeleteRemove ==
  /\ life.pc = "grace2" /\ GraceOver /\ WriterLockFree
  /\ life' = [life EXCEPT !.inMap = FALSE, !.pc = "removed"]
  /\ DeleteFrame /\ UNCHANGED panics

\* alarm.RemovalChannel() <- b.ID
DeleteAlarm ==
  /\ life.pc = "removed"
  /\ life' = [life EXCEPT !.pc = "gone"]
  /\ DeleteFrame /\ UNCHANGED panics

-----------------------------------------------------------------------------
Tick ==
  /\ clock < MaxClock
  /\ clock' = clock + 1
  /\ UNCHANGED <<b, alarm, life, mgr, pending, worker, proc, checker, panics>>

\* Every goroutine of the backlog has ended.
Terminated ==
  /\ life.pc = "gone" /\ life.waiting = 0 /\ mgr.pc = "idle"
  /\ worker.pc = "exit" /\ checker = "exit" /\ ProcsIdle
  /\ UNCHANGED vars

Forward == MgrCheckDone \/ MgrLeave \/ MgrSend \/ MgrUnlock

Work == \/ WorkerSnapshot \/ WorkerMatch \/ WorkerNoMatch \/ WorkerPrevAppend
        \/ WorkerPrevAlarm \/ WorkerReply \/ WorkerOrder \/ WorkerExit
        \/ \E p \in Procs : WorkerSpawn(p)

Process(p) == \/ ProcAppend(p) \/ ProcCheck(p) \/ ProcFinish(p) \/ ProcEndTime(p)
              \/ ProcReadRisk(p) \/ ProcSetRisk(p) \/ ProcLast(p)
              \/ ProcLastAlarm(p) \/ ProcDelete(p) \/ ProcDispatch(p)
              \/ ProcIncrease(p) \/ ProcStartTime(p) \/ ProcAlarm(p)

Check == \/ CheckerTick \/ CheckerExpiry \/ CheckerStatus \/ CheckerAlarm
         \/ CheckerDelete \/ CheckerDispatch

Delete == DeleteEnter \/ DeleteCloseData \/ DeleteRemove \/ DeleteAlarm

Next == \/ \E e \in Events : MgrLock(e)
        \/ Forward \/ Work \/ (\E p \in Procs : Process(p))
        \/ Check \/ Delete \/ Tick \/ Terminated

Spec == Init /\ [][Next]_vars

\* Every started goroutine keeps running and time passes.  The arrival of an
\* event is not fair: a directive may never receive another one.
FairSpec ==
  /\ Spec
  /\ WF_vars(Forward) /\ WF_vars(Work) /\ WF_vars(Check)
  /\ \A p \in Procs : WF_vars(Process(p))
  /\ WF_vars(DeleteEnter) /\ WF_vars(DeleteCloseData)
  /\ WF_vars(DeleteRemove) /\ WF_vars(DeleteAlarm) /\ WF_vars(Tick)

-----------------------------------------------------------------------------
(* Properties *)

\* No interleaving of the handlers, the checker, the manager and the deleting
\* goroutines closes a channel twice, sends on a closed one, or looks up the rule
\* before the first.  (That none follows the nil bLogs of a removed backlog is
\* GraceOver, not a result.)
NoPanic == panics = {}

\* What isTimeInOrder filtered stays true: an event counted for a rule is not
\* older, by more than the slack, than the end of the rule before it, although
\* handlers of the earlier stage may still write that end time.
InTimeOrder ==
  ~AllRules => \A i \in 2..NRules : \A e \in b.events[i] :
                 b.end[i - 1] < Ts[e] + Slack

\* Once no handler is at work, the last snapshot handed to the alarm shows the
\* current status, start times and risk: no write is left unpublished.
AlarmInSync ==
  ProcsIdle /\ checker \in {"tick", "expiry", "exit"} =>
    alarm = [status |-> b.status, start |-> b.start, risk |-> b.risk]

\* A handler deletes the backlog as complete only when the last rule has
\* received its occurrence of events.
CompleteWhenLastReached ==
  \A p \in Procs : proc[p].pc \in {"lastalarm", "delete", "dispatch"}
                     => ReachedMax(NRules)

\* A rule is timed out only when its timeout has passed since the event that
\* completed the rule before it.
NoPrematureTimeout ==
  [][\A i \in 2..NRules :
       b.status[i] # "timeout" /\ b'.status[i] = "timeout"
         => b.end[i - 1] + Timeout[i] < clock]_vars

\* With events spaced out, the goroutines together do what the documentation
\* says of a directive's stages.
Staged == INSTANCE StagedDirective
            WITH stage <- b.stage, matched <- b.events, risk <- b.risk,
                 open <- ~life.deleted

ImplementsStages == Staged!Spec

\* Every backlog is removed in the end, by completion or by timeout, and all of
\* its goroutines end.
EventuallyRemoved == <>(life.pc = "gone" /\ worker.pc = "exit" /\ checker = "exit")

\* The manager is never kept from the directive's next event for good.
ManagerReleased == mgr.pc # "idle" ~> mgr.pc = "idle"
=============================================================================
