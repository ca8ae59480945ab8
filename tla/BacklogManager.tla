---------------------------- MODULE BacklogManager ----------------------------
(***************************************************************************)
(* The manager of one directive and all its backlogs (backlogmgr.go): the  *)
(* forwarding of an event to every backlog under the reader lock, the      *)
(* search for its ID in the existing ones, the creation of a new backlog   *)
(* and the removal of finished ones.  What a backlog does with an event is *)
(* reduced here to its stage and the IDs it holds; module Backlog has the  *)
(* rest.                                                                   *)
(***************************************************************************)
EXTENDS Naturals, FiniteSets

CONSTANTS
  Backlogs,     \* bound: the backlogs that may ever be created
  NRules,
  RuleType,     \* "PluginRule" or "TaxonomyRule"
  Events,       \* event IDs
  Pairs,        \* the rules whose plugin or taxonomy pair an event carries
  Matches,      \* the rules an event satisfies
  AllActive,    \* the directive's AllRulesAlwaysActive
  Deliveries,   \* bound: how often an event ID may be delivered
  NoEvent

Stages == 1..NRules

ASSUME ManagerAssumption ==
  /\ NRules \in Nat /\ NRules >= 2
  /\ RuleType \in [Stages -> {"PluginRule", "TaxonomyRule"}]
  /\ Pairs \in [Events -> SUBSET Stages]
  /\ Matches \in [Events -> SUBSET Stages]
  /\ \A e \in Events : Matches[e] \subseteq Pairs[e]
  /\ AllActive \in BOOLEAN
  /\ Deliveries \in [Events -> Nat]
  /\ NoEvent \notin Events

VARIABLES
  mgr,          \* the manager: step, event, whether a backlog consumed it
  forward,      \* its goroutine for each backlog while it holds the lock
  lock,         \* the lock of `backlogs'
  bl,           \* the backlogs: map entry, stage, event IDs
  worker,       \* newEventProcessor of each backlog
  matched,      \* processMatchedEvent goroutines not yet run, per backlog
  deletion,     \* backlogs.delete of each backlog
  left          \* deliveries left for each event

vars == <<mgr, forward, lock, bl, worker, matched, deletion, left>>

TypeOK ==
  /\ mgr \in [pc : {"recv", "rlock", "forward", "scan", "create", "map", "start"},
              evt : Events \cup {NoEvent}, found : BOOLEAN]
  /\ forward \in [Backlogs -> {"idle", "check", "send", "await"}]
  /\ lock \in {"free", "read", "write"}
  /\ bl \in [Backlogs -> [listed : BOOLEAN, used : BOOLEAN, stage : Stages,
                          first : Events \cup {NoEvent}, events : SUBSET Events]]
  /\ worker \in [Backlogs -> [pc : {"off", "recv", "snap", "match", "reply", "exit"},
                              evt : Events \cup {NoEvent}, idx : Stages]]
  /\ matched \in [Backlogs -> [Events -> Nat]]
  /\ deletion \in [Backlogs -> {"none", "want", "done", "closed", "remove", "gone"}]
  /\ left \in [Events -> Nat]

Init ==
  /\ mgr = [pc |-> "recv", evt |-> NoEvent, found |-> FALSE]
  /\ forward = [k \in Backlogs |-> "idle"]
  /\ lock = "free"
  /\ bl = [k \in Backlogs |-> [listed |-> FALSE, used |-> FALSE, stage |-> 1,
                               first |-> NoEvent, events |-> {}]]
  /\ worker = [k \in Backlogs |-> [pc |-> "off", evt |-> NoEvent, idx |-> 1]]
  /\ matched = [k \in Backlogs |-> [e \in Events |-> 0]]
  /\ deletion = [k \in Backlogs |-> "none"]
  /\ left = Deliveries

Listed == {k \in Backlogs : bl[k].listed}
ChDone(k) == deletion[k] \in {"done", "closed", "remove", "gone"}

-----------------------------------------------------------------------------
(* The manager's loop. *)

\* The pairs of the plugin rules if there is one, else of the taxonomy rules.
QuickCheck(e) ==
  LET plugin == {i \in Stages : RuleType[i] = "PluginRule"}
  IN Pairs[e] \cap (IF plugin # {} THEN plugin ELSE Stages) # {}

MgrGoto(step) == mgr' = [mgr EXCEPT !.pc = step]

\* Bound: no event is taken when every backlog of the pool has been used.
Receive(e) ==
  /\ mgr.pc = "recv" /\ left[e] > 0
  /\ \E k \in Backlogs : ~bl[k].used
  /\ left' = [left EXCEPT ![e] = @ - 1]
  /\ mgr' = [pc |-> IF QuickCheck(e) THEN "rlock" ELSE "recv",
             evt |-> e, found |-> FALSE]
  /\ UNCHANGED <<forward, lock, bl, worker, matched, deletion>>

\* RLock, and one goroutine for each backlog in the map.
ReadLock ==
  /\ mgr.pc = "rlock" /\ lock = "free"
  /\ lock' = "read"
  /\ forward' = [k \in Backlogs |-> IF k \in Listed THEN "check" ELSE "idle"]
  /\ MgrGoto("forward")
  /\ UNCHANGED <<bl, worker, matched, deletion, left>>

\* Any of the three selects finds chDone closed.
ForwardLeave(k) ==
  /\ forward[k] # "idle" /\ ChDone(k)
  /\ forward' = [forward EXCEPT ![k] = "idle"]
  /\ UNCHANGED <<mgr, lock, bl, worker, matched, deletion, left>>

ForwardCheck(k) ==
  /\ forward[k] = "check" /\ ~ChDone(k)
  /\ forward' = [forward EXCEPT ![k] = "send"]
  /\ UNCHANGED <<mgr, lock, bl, worker, matched, deletion, left>>

\* chData <- evt
ForwardSend(k) ==
  /\ forward[k] = "send" /\ worker[k].pc = "recv"
  /\ forward' = [forward EXCEPT ![k] = "await"]
  /\ worker' = [worker EXCEPT ![k].pc = "snap", ![k].evt = mgr.evt]
  /\ UNCHANGED <<mgr, lock, bl, matched, deletion, left>>

\* With all_rules_always_active an event that the current rule does not match may
\* still be one for an earlier rule.
Earlier(k) ==
  /\ AllActive /\ worker[k].idx \notin Matches[worker[k].evt]
  /\ \E i \in Matches[worker[k].evt] : i < worker[k].idx

\* f := <-chFound.  After a true answer for the current rule the worker may still
\* discard the event (sticky value, timestamp); otherwise it starts
\* processMatchedEvent.
ForwardAnswer(k) ==
  LET f == worker[k].idx \in Matches[worker[k].evt]
  IN /\ forward[k] = "await" /\ worker[k].pc = "reply"
     /\ forward' = [forward EXCEPT ![k] = "idle"]
     /\ mgr' = [mgr EXCEPT !.found = @ \/ f \/ Earlier(k)]
     /\ worker' = [worker EXCEPT ![k].pc = "recv"]
     /\ \/ f /\ matched' = [matched EXCEPT ![k][worker[k].evt] = @ + 1]
        \/ UNCHANGED matched
     /\ UNCHANGED <<lock, bl, deletion, left>>

\* wg.Wait(), Unlock, and the first rule when no backlog consumed the event.
AllAnswered ==
  /\ mgr.pc = "forward" /\ \A k \in Backlogs : forward[k] = "idle"
  /\ lock' = "free"
  /\ MgrGoto(IF ~mgr.found /\ 1 \in Matches[mgr.evt] THEN "scan" ELSE "recv")
  /\ UNCHANGED <<forward, bl, worker, matched, deletion, left>>

\* Variant: the event is not compared with those of the backlogs.
Scan_NoCheck ==
  /\ mgr.pc = "scan" /\ lock = "free"
  /\ MgrGoto("create")
  /\ UNCHANGED <<forward, lock, bl, worker, matched, deletion, left>>

\* Variant: `continue' without Unlock when the event is found.
Scan_KeepsLock ==
  /\ mgr.pc = "scan" /\ lock = "free"
  /\ \E used \in {\E k \in Listed : mgr.evt \in bl[k].events} :
       /\ MgrGoto(IF used THEN "recv" ELSE "create")
       /\ lock' = IF used THEN "write" ELSE lock
  /\ UNCHANGED <<forward, bl, worker, matched, deletion, left>>

\* Under the writer lock: is the event already used in a backlog?
Scan ==
  /\ mgr.pc = "scan" /\ lock = "free"
  /\ MgrGoto(IF \E k \in Listed : mgr.evt \in bl[k].events THEN "recv" ELSE "create")
  /\ UNCHANGED <<forward, lock, bl, worker, matched, deletion, left>>

\* createNewBackLog and the entry in the map, under the writer lock again.
Create(k) ==
  /\ mgr.pc = "create" /\ lock = "free"
  /\ ~bl[k].used
  /\ bl' = [bl EXCEPT ![k].used = TRUE, ![k].listed = TRUE]
  /\ MgrGoto("map")
  /\ UNCHANGED <<forward, lock, worker, matched, deletion, left>>

\* It fails on an ID or a timestamp.
CreateFails ==
  /\ mgr.pc = "create" /\ lock = "free"
  /\ MgrGoto("recv")
  /\ UNCHANGED <<forward, lock, bl, worker, matched, deletion, left>>

\* blogs.bl[b.ID] is looked up with no lock held ...
LookUp ==
  /\ mgr.pc = "map"
  /\ MgrGoto("start")
  /\ UNCHANGED <<forward, lock, bl, worker, matched, deletion, left>>

\* ... and start() runs: the first rule is complete, the worker waits.
Start(k) ==
  /\ mgr.pc = "start"
  /\ bl[k].listed /\ worker[k].pc = "off"
  /\ bl' = [bl EXCEPT ![k].stage = 2, ![k].first = mgr.evt, ![k].events = {mgr.evt}]
  /\ worker' = [worker EXCEPT ![k].pc = "recv"]
  /\ MgrGoto("recv")
  /\ UNCHANGED <<forward, lock, matched, deletion, left>>

-----------------------------------------------------------------------------
(* A backlog. *)

WorkerSnapshot(k) ==
  /\ worker[k].pc = "snap"
  /\ worker' = [worker EXCEPT ![k].pc = "match", ![k].idx = bl[k].stage]
  /\ UNCHANGED <<mgr, forward, lock, bl, matched, deletion, left>>

\* The comparison; an event for an earlier rule is only appended to it.
WorkerMatch(k) ==
  /\ worker[k].pc = "match"
  /\ worker' = [worker EXCEPT ![k].pc = "reply"]
  /\ bl' = [bl EXCEPT ![k].events = IF Earlier(k) THEN @ \cup {worker[k].evt} ELSE @]
  /\ UNCHANGED <<mgr, forward, lock, matched, deletion, left>>

\* backLog.delete: what it starts beyond the first deletion finds the flag set.
Want(k) == IF deletion[k] = "none" THEN [deletion EXCEPT ![k] = "want"] ELSE deletion

Append(k, e, stage) ==
  bl' = [bl EXCEPT ![k].events = @ \cup {e}, ![k].stage = stage]

\* Variant: HighestStage is not looked at.
Process_Unbounded(k, e) ==
  /\ matched[k][e] > 0
  /\ matched' = [matched EXCEPT ![k][e] = @ - 1]
  /\ \E stage \in {bl[k].stage, bl[k].stage + 1} : Append(k, e, stage)
  /\ UNCHANGED <<mgr, forward, lock, worker, deletion, left>>

\* processMatchedEvent: the event is appended; when it completes the current
\* stage the backlog moves on, or is deleted after the last.
Process(k, e) ==
  /\ matched[k][e] > 0
  /\ matched' = [matched EXCEPT ![k][e] = @ - 1]
  /\ \/ Append(k, e, bl[k].stage) /\ UNCHANGED deletion
     \/ bl[k].stage < NRules /\ Append(k, e, bl[k].stage + 1) /\ UNCHANGED deletion
     \/ bl[k].stage = NRules /\ Append(k, e, bl[k].stage) /\ deletion' = Want(k)
  /\ UNCHANGED <<mgr, forward, lock, worker, left>>

\* The expiration checker gives up on the backlog.
Expire(k) ==
  /\ worker[k].pc \notin {"off", "exit"} /\ deletion[k] = "none"
  /\ deletion' = Want(k)
  /\ UNCHANGED <<mgr, forward, lock, bl, worker, matched, left>>

-----------------------------------------------------------------------------
(* backlogs.delete *)

\* Variant: the flag is set and chDone closed with no lock on `backlogs'.
DeleteMark_NoLock(k) ==
  /\ deletion[k] = "want"
  /\ deletion' = [deletion EXCEPT ![k] = "done"]
  /\ UNCHANGED <<mgr, forward, lock, bl, worker, matched, left>>

DeleteMark(k) ==
  /\ deletion[k] = "want" /\ lock = "free"
  /\ deletion' = [deletion EXCEPT ![k] = "done"]
  /\ UNCHANGED <<mgr, forward, lock, bl, worker, matched, left>>

NoHandler(k) == \A e \in Events : matched[k][e] = 0

\* After three seconds, which outlast the goroutines at work.
DeleteClose(k) ==
  /\ deletion[k] = "done" /\ worker[k].pc = "recv" /\ NoHandler(k)
  /\ deletion' = [deletion EXCEPT ![k] = "closed"]
  /\ worker' = [worker EXCEPT ![k].pc = "exit"]
  /\ UNCHANGED <<mgr, forward, lock, bl, matched, left>>

DeleteLock(k) ==
  /\ deletion[k] = "closed" /\ lock = "free"
  /\ lock' = "write"
  /\ deletion' = [deletion EXCEPT ![k] = "remove"]
  /\ UNCHANGED <<mgr, forward, bl, worker, matched, left>>

\* Variant: the writer lock is kept.
DeleteUnlock_Kept(k) ==
  /\ deletion[k] = "remove"
  /\ bl' = [bl EXCEPT ![k].listed = FALSE]
  /\ deletion' = [deletion EXCEPT ![k] = "gone"]
  /\ UNCHANGED <<mgr, forward, lock, worker, matched, left>>

\* delete(blogs.bl, b.ID)
DeleteUnlock(k) ==
  /\ deletion[k] = "remove"
  /\ lock' = "free"
  /\ bl' = [bl EXCEPT ![k].listed = FALSE]
  /\ deletion' = [deletion EXCEPT ![k] = "gone"]
  /\ UNCHANGED <<mgr, forward, worker, matched, left>>

-----------------------------------------------------------------------------
\* No event is left to take and nothing is under way.
Idle ==
  /\ mgr.pc = "recv"
  /\ (\A k \in Backlogs : bl[k].used) \/ (\A e \in Events : left[e] = 0)
  /\ \A k \in Backlogs : deletion[k] \in {"none", "gone"} /\ NoHandler(k)
  /\ UNCHANGED vars

Manage == \/ ReadLock \/ AllAnswered \/ Scan \/ CreateFails \/ LookUp
          \/ \E k \in Backlogs : Create(k) \/ Start(k)

Forward(k) == ForwardLeave(k) \/ ForwardCheck(k) \/ ForwardSend(k) \/ ForwardAnswer(k)

Work(k) == \/ WorkerSnapshot(k) \/ WorkerMatch(k)
           \/ \E e \in Events : Process(k, e)

Delete(k) == DeleteMark(k) \/ DeleteClose(k) \/ DeleteLock(k) \/ DeleteUnlock(k)

Next == \/ \E e \in Events : Receive(e)
        \/ Manage
        \/ \E k \in Backlogs : Forward(k) \/ Work(k) \/ Expire(k) \/ Delete(k)
        \/ Idle

Spec == Init /\ [][Next]_vars

\* Goroutines run; the writer lock is strongly fair because a waiting writer
\* holds back new readers.  Events and expirations need not come.
FairSpec ==
  /\ Spec
  /\ WF_vars(Manage)
  /\ \A k \in Backlogs :
       /\ WF_vars(Forward(k)) /\ WF_vars(Work(k))
       /\ SF_vars(DeleteMark(k)) /\ WF_vars(DeleteClose(k))
       /\ SF_vars(DeleteLock(k)) /\ WF_vars(DeleteUnlock(k))

-----------------------------------------------------------------------------
(* Properties *)

\* A worker that has an answer always has the manager's goroutine waiting for
\* it: nothing else reads chFound, a worker left alone would hang for good.
AnswerAwaited ==
  \A k \in Backlogs : worker[k].pc \in {"snap", "match", "reply"} => forward[k] = "await"

\* No two backlogs in the map were opened by one event, however often and
\* whenever the event is delivered again.
UniqueOpeners ==
  \A j, k \in Listed : bl[j].first = bl[k].first /\ bl[j].first # NoEvent => j = k

\* The map is never read without the lock while a deletion writes it.
MapReadLocked ==
  ~(mgr.pc = "map" /\ \E k \in Backlogs : deletion[k] = "remove")

\* The manager always comes back for the next event.
ManagerReturns == mgr.pc # "recv" ~> mgr.pc = "recv"

\* A backlog to be deleted leaves the map, whatever the manager is doing.
DeletionCompletes ==
  \A k \in Backlogs : deletion[k] = "want" ~> deletion[k] = "gone"
=============================================================================
