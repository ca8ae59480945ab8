------------------------------- MODULE Alarms -------------------------------
(* One alarm (one ID): the goroutines of Upsert that its backlog starts, the *)
(* lookups they start in turn, the locks of the alarm, the file the alarm is  *)
(* written to and the store that the records of the file end up in.          *)
EXTENDS Integers, Sequences, FiniteSets

CONSTANTS
  Upserts,      \* the calls of Upsert; an alarm object bears the name of the
                \* call that created it
  Risks, Time,  \* the risks a call may pass, and its statusTime
  Checked,      \* the calls with checkIntelVuln
  Terms,        \* Terms[u][k]: what a call gives the checker of kind k to look up
  Sources,      \* Sources[k]: entries of intel_*.json or vuln_*.json
  Usable,       \* those enabled, registered and initialised
  None

Kinds == {"intel", "vuln"}

Goroutines == Upserts \X Kinds     \* the checkers: one of each kind per call

AllTerms == UNION {Terms[u][k] : u \in Upserts, k \in Kinds}

ASSUME AlarmAssumption ==
  /\ None \notin Upserts \cup Goroutines
  /\ Risks \in [Upserts -> SUBSET (0..10)] /\ Time \in [Upserts -> Nat \ {0}]
  /\ Checked \subseteq Upserts

VARIABLES
  entry,     \* the object alarms.al holds under the ID, or None
  obj,       \* the alarm objects
  up,        \* goroutines of Upsert: position and object
  chk,       \* goroutines of asyncIntelCheck and asyncVulnCheck
  lock,      \* of each object: the writer that has announced itself, and readers
  mutex,     \* IntelMu and VulnMu of each object
  cache,     \* intelCache and vulnCache: answers, {} for "n/f", or None
  file,      \* records written
  lost,      \* a full queue of the file writer has refused a record
  indexed,   \* records the store has seen
  doc        \* the alarm in the store; risk 0 before the first record; found:
             \* the kinds of results it has

vars == <<entry, obj, up, chk, lock, mutex, cache, file, lost, indexed, doc>>

-----------------------------------------------------------------------------
(* Looking a term up *)

\* A backlog's addresses; private ones only if the configuration says so.
IntelTerms(ips, private, checkPrivate) == IF checkPrivate THEN ips ELSE ips \ private

\* Pairs of one side of the rules, as SetRules has left them: the addresses that
\* name one host with every port of the rule and with the port of the last event,
\* if that has one.
VulnTerms(rules, hosts, last) ==
  UNION {(r.ips \cap hosts) \X ((r.ports \ {"ANY"}) \cup ({last} \ {"0"})) : r \in rules}

Checkers(k) == Sources[k] \cap Usable

Enabled(k) == Checkers(k) # {}

\* The answers the loop over the checkers may get: an error, nothing, a result.
Answers(k) == [Checkers(k) -> {"error", "none", "found"}]

Results(k, answer) == {s \in Checkers(k) : answer[s] = "found"}

Success(k, answer) == \E s \in Checkers(k) : answer[s] # "error"

-----------------------------------------------------------------------------
(* The lock of an object (sync.RWMutex) *)

NewObject == [risk |-> 0, time |-> 0, terms |-> [k \in Kinds |-> {}],
              found |-> [k \in Kinds |-> <<>>]]

Idle == [pc |-> "off", copy |-> NewObject, todo |-> {}, hit |-> None,
         changed |-> FALSE]

Init ==
  /\ entry = None
  /\ obj = [o \in Upserts |-> NewObject]
  /\ up = [u \in Upserts |-> [pc |-> "off", o |-> u]]
  /\ chk = [c \in Goroutines |-> Idle]
  /\ lock = [o \in Upserts |-> [writer |-> None, readers |-> {}]]
  /\ mutex = [o \in Upserts |-> [k \in Kinds |-> None]]
  /\ cache = [k \in Kinds |-> [t \in AllTerms |-> None]]
  /\ file = {} /\ lost = FALSE /\ indexed = {}
  /\ doc = [risk |-> 0, time |-> 0, found |-> {}]

\* Lock() first announces the writer, which shuts out new readers ...
Announce(o, g) ==
  /\ lock[o].writer = None
  /\ lock' = [lock EXCEPT ![o].writer = g]

\* ... and enters when the present readers have left; the section is one step.
Enter(o, g) ==
  /\ lock[o] = [writer |-> g, readers |-> {}]
  /\ lock' = [lock EXCEPT ![o].writer = None]

CanRead(o) == lock[o].writer = None

-----------------------------------------------------------------------------
(* Writing the alarm *)

Record(o, a) == [o |-> o, risk |-> a.risk, time |-> a.time, found |-> a.found]

\* EnqueueWrite; the queue of 1000 is shared by all alarms and may be full.
EnqueueWrite(r) == \/ file' = file \cup {r} /\ UNCHANGED lost
                   \/ lost' = TRUE /\ UNCHANGED file

OutOfOrder_TimeOnly(r) == r.time < doc.time

\* The script of the store refuses a record with a lower risk, or with the
\* same risk and an earlier time.
OutOfOrder(r) == r.risk < doc.risk \/ (r.risk = doc.risk /\ r.time < doc.time)

Found(r) == {k \in Kinds : r.found[k] # <<>>}

\* Records are delivered at least once, in any order; one without results of a
\* kind leaves those of the store alone.
Index(r) ==
  /\ indexed' = indexed \cup {r}
  /\ doc' = IF OutOfOrder(r) THEN doc
            ELSE [risk |-> r.risk, time |-> r.time, found |-> doc.found \cup Found(r)]
  /\ UNCHANGED <<entry, obj, up, chk, lock, mutex, cache, file, lost>>

-----------------------------------------------------------------------------
(* Upsert *)

At(u, from, to) == up[u].pc = from /\ up' = [up EXCEPT ![u].pc = to]

\* The backlog starts the goroutine; findOrCreateAlarm looks the ID up ...
Find(u) ==
  /\ up[u].pc = "off"
  /\ up' = [up EXCEPT ![u].pc = IF entry = None THEN "create" ELSE "lock1",
                      ![u].o = IF entry = None THEN u ELSE entry]
  /\ UNCHANGED <<entry, obj, chk, lock, mutex, cache, file, lost, indexed, doc>>

\* ... and, under the lock of another section, stores a new alarm.
Create(u) ==
  /\ At(u, "create", "lock1")
  /\ entry' = u
  /\ UNCHANGED <<obj, chk, lock, mutex, cache, file, lost, indexed, doc>>

Lock(u) ==
  /\ At(u, "lock1", "set1") \/ At(u, "lock2", "set2")
  /\ Announce(up[u].o, u)
  /\ UNCHANGED <<entry, obj, chk, mutex, cache, file, lost, indexed, doc>>

\* The first section; the checkers of the kinds in use are started after it.
SetFields(u) ==
  LET o == up[u].o IN
  /\ At(u, "set1", "lock2")
  /\ Enter(o, u)
  /\ \E risk \in Risks[u] :
       obj' = [obj EXCEPT ![o].risk = risk, ![o].time = Time[u],
                          ![o].terms["intel"] = Terms[u]["intel"]]
  /\ chk' = [c \in Goroutines |->
               IF c[1] = u /\ u \in Checked /\ Enabled(c[2])
               THEN [chk[c] EXCEPT !.pc = "mutex"] ELSE chk[c]]
  /\ UNCHANGED <<entry, mutex, cache, file, lost, indexed, doc>>

\* The second section: networks and rules, from which the terms to check for
\* vulnerabilities are made.
SetRules(u) ==
  LET o == up[u].o IN
  /\ At(u, "set2", "read")
  /\ Enter(o, u)
  /\ obj' = [obj EXCEPT ![o].terms["vuln"] = Terms[u]["vuln"]]
  /\ UNCHANGED <<entry, chk, mutex, cache, file, lost, indexed, doc>>

ReadLock_AnyRisk(u) ==
  /\ CanRead(up[u].o)
  /\ At(u, "read", "reread")
  /\ lock' = [lock EXCEPT ![up[u].o].readers = @ \cup {u}]
  /\ UNCHANGED <<entry, obj, chk, mutex, cache, file, lost, indexed, doc>>

\* updateElasticsearch takes the lock for reading and keeps it ...
ReadLock(u) ==
  LET o == up[u].o IN
  /\ CanRead(o)
  /\ \/ /\ obj[o].risk = 0
        /\ At(u, "read", "done") /\ UNCHANGED lock
     \/ /\ obj[o].risk # 0
        /\ At(u, "read", "reread")
        /\ lock' = [lock EXCEPT ![o].readers = @ \cup {u}]
  /\ UNCHANGED <<entry, obj, chk, mutex, cache, file, lost, indexed, doc>>

\* ... while logToES takes it again.
ReadAgain(u) ==
  /\ CanRead(up[u].o)
  /\ At(u, "reread", "write")
  /\ UNCHANGED <<entry, obj, chk, lock, mutex, cache, file, lost, indexed, doc>>

Write(u) ==
  LET o == up[u].o IN
  /\ At(u, "write", "done")
  /\ EnqueueWrite(Record(o, obj[o]))
  /\ lock' = [lock EXCEPT ![o].readers = @ \ {u}]
  /\ UNCHANGED <<entry, obj, chk, mutex, cache, indexed, doc>>

\* The backlog is gone: its ID arrives on the removal channel.
RemoveAlarm ==
  /\ entry # None /\ entry' = None
  /\ UNCHANGED <<obj, up, chk, lock, mutex, cache, file, lost, indexed, doc>>

-----------------------------------------------------------------------------
(* asyncIntelCheck and asyncVulnCheck: c is the call and the kind *)

Of(c) == up[c[1]].o

LookedUp(a, k) == {a.found[k][i].term : i \in DOMAIN a.found[k]}

TakeMutex_Shared(c) ==
  /\ chk[c].pc = "mutex"
  /\ mutex' = [mutex EXCEPT ![Of(c)][c[2]] = c]
  /\ chk' = [chk EXCEPT ![c].pc = "copy"]
  /\ UNCHANGED <<entry, obj, up, lock, cache, file, lost, indexed, doc>>

TakeMutex(c) ==
  /\ chk[c].pc = "mutex"
  /\ mutex[Of(c)][c[2]] = None
  /\ mutex' = [mutex EXCEPT ![Of(c)][c[2]] = c]
  /\ chk' = [chk EXCEPT ![c].pc = "copy"]
  /\ UNCHANGED <<entry, obj, up, lock, cache, file, lost, indexed, doc>>

\* copyAlarm; what already has a result is not looked up again.
CopyAlarm(c) ==
  LET a == obj[Of(c)] IN
  /\ chk[c].pc = "copy"
  /\ CanRead(Of(c))
  /\ chk' = [chk EXCEPT ![c].pc = "look", ![c].copy = a,
                        ![c].todo = a.terms[c[2]] \ LookedUp(a, c[2])]
  /\ UNCHANGED <<entry, obj, up, lock, mutex, cache, file, lost, indexed, doc>>

\* The next term, and the sources with a result for it.
Looked(c, t, by) ==
  chk' = [chk EXCEPT ![c].todo = @ \ {t},
                     ![c].hit = IF by = {} THEN None ELSE [term |-> t, by |-> by],
                     ![c].pc = IF by = {} THEN "look" ELSE "lock"]

LookUpCached(c) ==
  /\ chk[c].pc = "look"
  /\ \E t \in chk[c].todo : /\ cache[c[2]][t] # None
                            /\ Looked(c, t, cache[c[2]][t])
  /\ UNCHANGED <<entry, obj, up, lock, mutex, cache, file, lost, indexed, doc>>

\* The answer is cached if any checker had one, found or not.
LookUp(c) ==
  /\ chk[c].pc = "look"
  /\ \E t \in chk[c].todo, answer \in Answers(c[2]) :
       /\ cache[c[2]][t] = None
       /\ Looked(c, t, Results(c[2], answer))
       /\ cache' = IF Success(c[2], answer)
                   THEN [cache EXCEPT ![c[2]][t] = Results(c[2], answer)] ELSE cache
  /\ UNCHANGED <<entry, obj, up, lock, mutex, file, lost, indexed, doc>>

\* An entry of the cache ends its life.
Evict(k, t) ==
  /\ cache[k][t] # None
  /\ cache' = [cache EXCEPT ![k][t] = None]
  /\ UNCHANGED <<entry, obj, up, chk, lock, mutex, file, lost, indexed, doc>>

LockSource(c) ==
  /\ chk[c].pc = "lock"
  /\ Announce(Of(c), c)
  /\ chk' = [chk EXCEPT ![c].pc = "append"]
  /\ UNCHANGED <<entry, obj, up, mutex, cache, file, lost, indexed, doc>>

AppendResult_SourceOnly(c) ==
  /\ chk[c].pc = "append"
  /\ Enter(Of(c), c)
  /\ obj' = [obj EXCEPT ![Of(c)].found[c[2]] = Append(@, chk[c].hit)]
  /\ chk' = [chk EXCEPT ![c].pc = "look", ![c].hit = None, ![c].changed = TRUE]
  /\ UNCHANGED <<entry, up, mutex, cache, file, lost, indexed, doc>>

\* The result goes to the alarm itself and to the copy.
AppendResult(c) ==
  /\ chk[c].pc = "append"
  /\ Enter(Of(c), c)
  /\ obj' = [obj EXCEPT ![Of(c)].found[c[2]] = Append(@, chk[c].hit)]
  /\ chk' = [chk EXCEPT ![c].pc = "look", ![c].hit = None, ![c].changed = TRUE,
                        ![c].copy.found[c[2]] = Append(@, chk[c].hit)]
  /\ UNCHANGED <<entry, up, mutex, cache, file, lost, indexed, doc>>

Finish_KeepsMutex(c) ==
  LET k == chk[c] IN
  /\ k.pc = "look" /\ k.todo = {}
  /\ IF k.changed /\ k.copy.risk # 0 THEN EnqueueWrite(Record(Of(c), k.copy))
                                     ELSE UNCHANGED <<file, lost>>
  /\ chk' = [chk EXCEPT ![c] = [Idle EXCEPT !.pc =
               IF k.changed /\ k.copy.risk = 0 THEN "silent" ELSE "done"]]
  /\ mutex' = IF k.changed THEN [mutex EXCEPT ![Of(c)][c[2]] = None] ELSE mutex
  /\ UNCHANGED <<entry, obj, up, lock, cache, indexed, doc>>

\* The end: a changed copy is written, unless its risk is 0, and the mutex left.
Finish(c) ==
  LET k == chk[c] IN
  /\ k.pc = "look" /\ k.todo = {}
  /\ IF k.changed /\ k.copy.risk # 0 THEN EnqueueWrite(Record(Of(c), k.copy))
                                     ELSE UNCHANGED <<file, lost>>
  /\ chk' = [chk EXCEPT ![c] = [Idle EXCEPT !.pc =
               IF k.changed /\ k.copy.risk = 0 THEN "silent" ELSE "done"]]
  /\ mutex' = [mutex EXCEPT ![Of(c)][c[2]] = None]
  /\ UNCHANGED <<entry, obj, up, lock, cache, indexed, doc>>

-----------------------------------------------------------------------------

Upsert(u) == \/ Create(u) \/ Lock(u) \/ SetFields(u) \/ SetRules(u)
             \/ ReadLock(u) \/ ReadAgain(u) \/ Write(u)

Check(c) == \/ TakeMutex(c) \/ CopyAlarm(c) \/ LookUpCached(c) \/ LookUp(c)
            \/ LockSource(c) \/ AppendResult(c) \/ Finish(c)

Environment == \/ \E u \in Upserts : Find(u)
               \/ RemoveAlarm
               \/ \E k \in Kinds, t \in AllTerms : Evict(k, t)

Store == \E r \in file : Index(r)

Next == \/ Environment \/ Store
        \/ \E u \in Upserts : Upsert(u)
        \/ \E c \in Goroutines : Check(c)

Spec == Init /\ [][Next]_vars

\* The goroutines run.  Since the calls are finitely many no lock is wanted for
\* ever, and weak fairness is enough.
FairSpec ==
  /\ Spec
  /\ \A u \in Upserts : WF_vars(Upsert(u))
  /\ \A c \in Goroutines : WF_vars(Check(c))

-----------------------------------------------------------------------------
(* Properties *)

Outcome == [term : AllTerms, by : SUBSET UNION {Checkers(k) : k \in Kinds}]

Object == [risk : 0..10, time : Nat, terms : [Kinds -> SUBSET AllTerms],
           found : [Kinds -> Seq(Outcome)]]

\* Types of the variables; a record in the file has a risk.
TypeOK ==
  /\ entry \in Upserts \cup {None}
  /\ obj \in [Upserts -> Object]
  /\ up \in [Upserts -> [pc : {"off", "create", "lock1", "set1", "lock2", "set2",
                               "read", "reread", "write", "done"}, o : Upserts]]
  /\ chk \in [Goroutines ->
                [pc : {"off", "mutex", "copy", "look", "lock", "append", "done", "silent"},
                 copy : Object, todo : SUBSET AllTerms, hit : Outcome \cup {None},
                 changed : BOOLEAN]]
  /\ lock \in [Upserts -> [writer : Upserts \cup Goroutines \cup {None},
                           readers : SUBSET Upserts]]
  /\ mutex \in [Upserts -> [Kinds -> Goroutines \cup {None}]]
  /\ file \subseteq [o : Upserts, risk : 1..10, time : Nat,
                     found : [Kinds -> Seq(Outcome)]]
  /\ indexed \subseteq file
  /\ lost \in BOOLEAN /\ doc \in [risk : 0..10, time : Nat, found : SUBSET Kinds]

\* However many checkers an alarm has had, it lists a term once: IntelMu and
\* VulnMu make a checker see what the one before has found.
OneResultPerTerm ==
  \A o \in Upserts, k \in Kinds :
    LET s == obj[o].found[k] IN
    \A i, j \in DOMAIN s : s[i].term = s[j].term => i = j

\* When the goroutines of an alarm have ended, all results of either kind are in
\* some record of the file, unless the queue refused one or a checker
\* worked on a copy from before the alarm had a risk.
ResultsWritten ==
  \A o \in Upserts, k \in Kinds :
    /\ obj[o].found[k] # <<>>
    /\ ~lost
    /\ \A u \in Upserts : up[u].o = o =>
         /\ up[u].pc \in {"off", "done"}
         /\ \A c \in {u} \X Kinds : chk[c].pc \in {"off", "done"}
    => \E r \in file : r.o = o /\ r.found[k] = obj[o].found[k]

\* In whatever order and however often the records arrive, the store keeps
\* the highest risk and, of that risk, the latest time; what it has of results is not
\* taken away by a record without them.  updateAlarm starts a goroutine per snapshot,
\* which may overtake each other: when they have ended and the records are in, the
\* store is at least as far as the alarm.
StoreNewest ==
  /\ \A r \in indexed :
       /\ r.risk <= doc.risk
       /\ r.risk = doc.risk => r.time <= doc.time
       /\ ~OutOfOrder(r) => Found(r) \subseteq doc.found
  /\ ~lost /\ indexed = file /\ (\A u \in Upserts : up[u].pc \in {"off", "done"})
     => \A u \in Upserts : LET a == obj[up[u].o] IN
          \/ a.risk < doc.risk
          \/ a.risk = doc.risk /\ a.time <= doc.time
          \/ a.risk = 0

\* A reader waits between its two RLocks behind a writer that waits for it.
Hung(o) == \E u \in Upserts : /\ up[u].pc = "reread" /\ up[u].o = o
                              /\ lock[o].writer # None

\* Each Upsert and each checker ends, or is caught in the one deadlock that the
\* nested read lock of logToES makes possible.
Ended ==
  /\ \A u \in Upserts : up[u].pc \in {"off", "done"} \/ Hung(up[u].o)
  /\ \A c \in Goroutines : chk[c].pc \in {"off", "done", "silent"} \/ Hung(Of(c))

GoroutinesEnd == <>[]Ended
=============================================================================
