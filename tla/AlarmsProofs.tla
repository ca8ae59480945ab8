---------------------------- MODULE AlarmsProofs ----------------------------
(***************************************************************************)
(* Safety of one alarm, for any calls of Upsert, terms, sources and cached *)
(* answers: the types, one result per term, no result left unwritten, and  *)
(* a store that is never behind the alarm.                                 *)
(***************************************************************************)
EXTENDS Alarms, SequenceTheorems, TLAPS

\* The sources that may be named in a result.
Named == UNION {Checkers(k) : k \in Kinds}

Cached == cache \in [Kinds -> [AllTerms -> (SUBSET Named) \cup {None}]]

\* Between the two read locks and the write nobody changes the alarm.
Reading ==
  \A u \in Upserts : up[u].pc \in {"reread", "write"} =>
    u \in lock[up[u].o].readers /\ obj[up[u].o].risk # 0

\* What has been found is at hand until it has been appended.
Hits == \A c \in Goroutines : chk[c].pc \in {"lock", "append"} => chk[c].hit \in Outcome

TypeInv == TypeOK /\ Cached /\ Reading /\ Hits

-----------------------------------------------------------------------------
\* A checker runs only after the first section of its call, which has its
\* object by then.
Started ==
  \A c \in Goroutines : chk[c].pc # "off" =>
    up[c[1]].pc \in {"lock2", "set2", "read", "reread", "write", "done"}

\* Of each object and kind one checker is at work.
Holding ==
  \A c \in Goroutines : chk[c].pc \in {"copy", "look", "lock", "append"} =>
    mutex[Of(c)][c[2]] = c

\* Its copy has the results of the alarm, and none for what is still to do.
Looking ==
  \A c \in Goroutines : chk[c].pc \in {"look", "lock", "append"} =>
    /\ chk[c].copy.found[c[2]] = obj[Of(c)].found[c[2]]
    /\ chk[c].todo \cap LookedUp(obj[Of(c)], c[2]) = {}
    /\ chk[c].pc \in {"lock", "append"} =>
         chk[c].hit.term \notin chk[c].todo \cup LookedUp(obj[Of(c)], c[2])

ResultInv == TypeInv /\ Started /\ Holding /\ Looking /\ OneResultPerTerm

\* The checker that is going to write the results of kind k, or never will.
Pending(o, k) ==
  \E c \in Goroutines :
    /\ Of(c) = o /\ c[2] = k
    /\ \/ chk[c].pc \in {"look", "lock", "append"} /\ chk[c].changed
       \/ chk[c].pc = "silent"

Written ==
  \A o \in Upserts, k \in Kinds : obj[o].found[k] # <<>> /\ ~lost =>
    \/ Pending(o, k)
    \/ \E r \in file : r.o = o /\ r.found[k] = obj[o].found[k]

\* The call that is going to write the risk and time of an object.
Upserting(o) ==
  \E u \in Upserts : /\ up[u].o = o
                     /\ up[u].pc \in {"lock2", "set2", "read", "reread", "write"}

Kept ==
  \A o \in Upserts : obj[o].risk # 0 /\ ~lost =>
    \/ Upserting(o)
    \/ \E r \in file : r.risk = obj[o].risk /\ r.time = obj[o].time

Indexed ==
  \A r \in indexed :
    /\ r.risk <= doc.risk
    /\ r.risk = doc.risk => r.time <= doc.time
    /\ ~OutOfOrder(r) => Found(r) \subseteq doc.found

-----------------------------------------------------------------------------
(* Types *)

UpPcs == {"off", "create", "lock1", "set1", "lock2", "set2", "read", "reread",
          "write", "done"}

ChkPcs == {"off", "mutex", "copy", "look", "lock", "append", "done", "silent"}

ChkRecord == [pc : ChkPcs, copy : Object, todo : SUBSET AllTerms,
              hit : Outcome \cup {None}, changed : BOOLEAN]

Records == [o : Upserts, risk : 1..10, time : Nat, found : [Kinds -> Seq(Outcome)]]

\* A new object, and the checker that is not running.
LEMMA NewTypes == NewObject \in Object /\ Idle \in ChkRecord
<1>1. NewObject \in Object BY DEF NewObject, Object, Kinds
<1> QED BY <1>1 DEF Idle, ChkRecord, ChkPcs

\* Appending a result changes one list of one object.
LEMMA AppendFound ==
  ASSUME NEW a \in Object, NEW k \in Kinds, NEW h \in Outcome, NEW n,
         n = [a EXCEPT !.found[k] = Append(@, h)]
  PROVE  /\ n \in Object /\ n.risk = a.risk /\ n.time = a.time
         /\ n.terms = a.terms /\ n.found[k] = Append(a.found[k], h)
         /\ \A j \in Kinds : j # k => n.found[j] = a.found[j]
<1>1. Append(a.found[k], h) \in Seq(Outcome) BY AppendProperties DEF Object
<1> DEFINE f == [a.found EXCEPT ![k] = Append(a.found[k], h)]
<1>2. f \in [Kinds -> Seq(Outcome)] BY <1>1 DEF Object
<1>3. f[k] = Append(a.found[k], h) /\ \A j \in Kinds : j # k => f[j] = a.found[j]
  BY DEF Object
<1>4. n = [a EXCEPT !.found = f] OBVIOUS
<1> HIDE DEF f
<1> QED BY <1>2, <1>3, <1>4 DEF Object

\* Moving an Upsert to another step.
LEMMA AtType ==
  ASSUME TypeOK, NEW u \in Upserts, NEW from, NEW to \in UpPcs, At(u, from, to)
  PROVE  /\ up' \in [Upserts -> [pc : UpPcs, o : Upserts]]
         /\ up[u].pc = from /\ up'[u].pc = to
         /\ \A v \in Upserts : up'[v].o = up[v].o
         /\ \A v \in Upserts : v # u => up'[v] = up[v]
<1>1. [up[u] EXCEPT !.pc = to] \in [pc : UpPcs, o : Upserts]
  BY DEF TypeOK, UpPcs
<1> QED BY <1>1 DEF At, TypeOK, UpPcs

\* The lock.
LEMMA AnnounceType ==
  ASSUME TypeOK, NEW o \in Upserts, NEW g \in Upserts \cup Goroutines,
         Announce(o, g) \/ Enter(o, g)
  PROVE  /\ lock' \in [Upserts -> [writer : Upserts \cup Goroutines \cup {None},
                                  readers : SUBSET Upserts]]
         /\ \A x \in Upserts : lock'[x].readers = lock[x].readers
<1>1. PICK w \in {g, None} : lock' = [lock EXCEPT ![o].writer = w]
  BY DEF Announce, Enter
<1>2. w \in Upserts \cup Goroutines \cup {None} OBVIOUS
<1> QED BY <1>1, <1>2 DEF TypeOK

\* The readers of an object.
LEMMA ReadersType ==
  ASSUME TypeOK, NEW o \in Upserts, NEW S \in SUBSET Upserts,
         lock' = [lock EXCEPT ![o].readers = S]
  PROVE  /\ lock' \in [Upserts -> [writer : Upserts \cup Goroutines \cup {None},
                                  readers : SUBSET Upserts]]
         /\ lock'[o].readers = S
         /\ \A x \in Upserts : x # o => lock'[x] = lock[x]
  BY DEF TypeOK

\* A record of the file.
LEMMA RecordType ==
  ASSUME NEW o \in Upserts, NEW a \in Object, a.risk # 0
  PROVE  /\ Record(o, a) \in Records /\ Record(o, a).o = o
         /\ Record(o, a).risk = a.risk /\ Record(o, a).time = a.time
         /\ Record(o, a).found = a.found
  BY DEF Record, Records, Object

\* The initial values have their types.
LEMMA TypeInit == Init => TypeInv
<1> SUFFICES ASSUME Init PROVE TypeInv OBVIOUS
<1>1. obj \in [Upserts -> Object] /\ chk \in [Goroutines -> ChkRecord]
  BY NewTypes DEF Init
<1>2. TypeOK
  <2>1. up \in [Upserts -> [pc : UpPcs, o : Upserts]] BY DEF Init, UpPcs
  <2>2. lock \in [Upserts -> [writer : Upserts \cup Goroutines \cup {None},
                              readers : SUBSET Upserts]]
    BY DEF Init
  <2>3. mutex \in [Upserts -> [Kinds -> Goroutines \cup {None}]] BY DEF Init
  <2>4. /\ entry = None /\ file = {} /\ indexed = {} /\ lost = FALSE
        /\ doc \in [risk : 0..10, time : Nat, found : SUBSET Kinds]
    BY DEF Init
  <2> QED BY <1>1, <2>1, <2>2, <2>3, <2>4 DEF TypeOK, ChkRecord, ChkPcs, UpPcs
<1>3. Cached BY DEF Init, Cached
<1>4. Reading BY DEF Init, Reading
<1>5. Hits BY DEF Init, Hits, Idle
<1> QED BY <1>2, <1>3, <1>4, <1>5 DEF TypeInv

\* The environment, and the store.
LEMMA TypeEnvironment == ASSUME TypeInv, Environment \/ Store PROVE TypeInv'
<1> USE DEF TypeInv
<1>1. ASSUME NEW u \in Upserts, Find(u) PROVE TypeInv'
  <2> DEFINE n == [up[u] EXCEPT !.pc = IF entry = None THEN "create" ELSE "lock1",
                                !.o = IF entry = None THEN u ELSE entry]
  <2>1. n \in [pc : UpPcs, o : Upserts] /\ n.pc \in {"create", "lock1"}
    <3>1. up[u] \in [pc : UpPcs, o : Upserts] BY DEF TypeOK, UpPcs
    <3>2. CASE entry = None BY <3>1, <3>2 DEF UpPcs
    <3>3. CASE entry \in Upserts BY <3>1, <3>3, AlarmAssumption DEF UpPcs
    <3> QED BY <3>2, <3>3 DEF TypeOK
  <2>2. up' = [up EXCEPT ![u] = n] BY <1>1 DEF Find
  <2> HIDE DEF n
  <2>3. up' \in [Upserts -> [pc : UpPcs, o : Upserts]]
    BY <2>1, <2>2 DEF TypeOK, UpPcs
  <2>a. TypeOK' BY <1>1, <2>3 DEF Find, TypeOK, UpPcs
  <2>4. Reading' BY <1>1, <2>1, <2>2 DEF Find, Reading, TypeOK
  <2> QED BY <1>1, <2>a, <2>4 DEF Find, Cached, Hits
<1>2. CASE RemoveAlarm BY <1>2 DEF RemoveAlarm, TypeOK, Cached, Reading, Hits
<1>3. ASSUME NEW k \in Kinds, NEW t \in AllTerms, Evict(k, t) PROVE TypeInv'
  <2>1. UNCHANGED <<entry, obj, up, chk, lock, mutex, file, lost, indexed, doc>>
        /\ cache' = [cache EXCEPT ![k][t] = None]
    BY <1>3 DEF Evict
  <2>2. Cached' BY <2>1 DEF Cached
  <2>3. TypeOK' BY <2>1 DEF TypeOK
  <2> QED BY <2>1, <2>2, <2>3 DEF Reading, Hits
<1>4. ASSUME NEW r \in file, Index(r) PROVE TypeInv'
  <2>1. r.risk \in 0..10 /\ r.time \in Nat /\ Found(r) \subseteq Kinds
    BY DEF TypeOK, Found
  <2>2. doc' \in [risk : 0..10, time : Nat, found : SUBSET Kinds]
    BY <1>4, <2>1 DEF Index, TypeOK
  <2> QED BY <1>4, <2>2 DEF Index, TypeOK, Cached, Reading, Hits
<1> QED BY <1>1, <1>2, <1>3, <1>4 DEF Environment, Store

\* The steps of Upsert.
LEMMA TypeUpsert ==
  ASSUME TypeInv, NEW u \in Upserts, Upsert(u) PROVE TypeInv'
<1> USE DEF TypeInv
<1> DEFINE o == up[u].o
<1>0. /\ o \in Upserts /\ obj[o] \in Object /\ u \in Upserts \cup Goroutines
      /\ up \in [Upserts -> [pc : UpPcs, o : Upserts]]
  BY DEF TypeOK, UpPcs
<1>1. CASE Create(u) \/ ReadAgain(u)
  <2>1. \/ At(u, "create", "lock1") \/ At(u, "reread", "write")
    BY <1>1 DEF Create, ReadAgain
  <2>a. "lock1" \in UpPcs /\ "write" \in UpPcs BY DEF UpPcs
  <2>2. /\ entry' \in Upserts \cup {None}
        /\ UNCHANGED <<obj, chk, lock, mutex, cache, file, lost, indexed, doc>>
    BY <1>1 DEF Create, ReadAgain, TypeOK
  <2>3. TypeOK' BY <2>1, <2>a, <2>2, AtType DEF TypeOK, UpPcs
  <2>4. CASE At(u, "create", "lock1")
    <3>1. Reading' BY <2>a, <2>2, <2>4, AtType DEF Reading
    <3> QED BY <2>2, <2>3, <3>1 DEF Cached, Hits
  <2>5. CASE At(u, "reread", "write")
    <3>1. Reading' BY <2>a, <2>2, <2>5, AtType DEF Reading
    <3> QED BY <2>2, <2>3, <3>1 DEF Cached, Hits
  <2> QED BY <2>1, <2>4, <2>5
<1>2. CASE Lock(u)
  <2>1. PICK from \in UpPcs, to \in {"set1", "set2"} : At(u, from, to)
    BY <1>2 DEF Lock, UpPcs
  <2>2. UNCHANGED <<entry, obj, chk, mutex, cache, file, lost, indexed, doc>>
        /\ Announce(o, u)
    BY <1>2 DEF Lock
  <2>3. to \in UpPcs BY DEF UpPcs
  <2>4. TypeOK' BY <1>0, <2>1, <2>2, <2>3, AtType, AnnounceType DEF TypeOK, UpPcs
  <2>5. Reading'
    <3>1. \A x \in Upserts : lock'[x].readers = lock[x].readers
      BY <1>0, <2>2, AnnounceType
    <3>2. up'[u].pc = to /\ (\A v \in Upserts : v # u => up'[v] = up[v])
      BY <2>1, <2>3, AtType
    <3> QED BY <1>0, <2>2, <3>1, <3>2 DEF Reading, UpPcs
  <2> QED BY <2>2, <2>4, <2>5 DEF Cached, Hits
<1>3. CASE SetFields(u) \/ SetRules(u)
  <2>1. PICK from \in UpPcs, to \in {"lock2", "read"} : At(u, from, to)
    BY <1>3 DEF SetFields, SetRules, UpPcs
  <2>2. UNCHANGED <<entry, mutex, cache, file, lost, indexed, doc>> /\ Enter(o, u)
    BY <1>3 DEF SetFields, SetRules
  <2>3. to \in UpPcs BY DEF UpPcs
  <2>4. PICK n \in Object : obj' = [obj EXCEPT ![o] = n]
    <3>1. CASE SetFields(u)
      <4>1. PICK risk \in Risks[u] :
              obj' = [obj EXCEPT ![o].risk = risk, ![o].time = Time[u],
                                 ![o].terms["intel"] = Terms[u]["intel"]]
        BY <3>1 DEF SetFields
      <4>2. risk \in 0..10 /\ Time[u] \in Nat BY AlarmAssumption
      <4>3. [obj[o].terms EXCEPT !["intel"] = Terms[u]["intel"]]
              \in [Kinds -> SUBSET AllTerms]
        BY <1>0 DEF AllTerms, Kinds, Object
      <4> DEFINE n == [obj[o] EXCEPT !.risk = risk, !.time = Time[u],
                         !.terms = [obj[o].terms EXCEPT !["intel"] = Terms[u]["intel"]]]
      <4>4. n \in Object BY <1>0, <4>2, <4>3 DEF Object
      <4>5. obj' = [obj EXCEPT ![o] = n] BY <4>1
      <4> QED BY <4>4, <4>5
    <3>2. CASE SetRules(u)
      <4>1. [obj[o].terms EXCEPT !["vuln"] = Terms[u]["vuln"]]
              \in [Kinds -> SUBSET AllTerms]
        BY <1>0 DEF AllTerms, Kinds, Object
      <4> DEFINE n == [obj[o] EXCEPT
                         !.terms = [obj[o].terms EXCEPT !["vuln"] = Terms[u]["vuln"]]]
      <4>2. n \in Object BY <1>0, <4>1 DEF Object
      <4>3. obj' = [obj EXCEPT ![o] = n] BY <3>2 DEF SetRules
      <4> QED BY <4>2, <4>3
    <3> QED BY <1>3, <3>1, <3>2
  <2>5. /\ chk' \in [Goroutines -> ChkRecord]
        /\ \A c \in Goroutines : chk'[c] = chk[c] \/ chk'[c].pc = "mutex"
    <3>1. chk \in [Goroutines -> ChkRecord] BY DEF TypeOK, ChkRecord, ChkPcs
    <3>2. \A c \in Goroutines : /\ [chk[c] EXCEPT !.pc = "mutex"] \in ChkRecord
                                /\ [chk[c] EXCEPT !.pc = "mutex"].pc = "mutex"
      BY <3>1 DEF ChkRecord, ChkPcs
    <3>3. chk' = chk
          \/ chk' = [c \in Goroutines |->
                       IF c[1] = u /\ u \in Checked /\ Enabled(c[2])
                       THEN [chk[c] EXCEPT !.pc = "mutex"] ELSE chk[c]]
      BY <1>3 DEF SetFields, SetRules
    <3> QED BY <3>1, <3>2, <3>3
  <2>6. obj' \in [Upserts -> Object] BY <1>0, <2>4 DEF TypeOK
  <2>a. up' \in [Upserts -> [pc : UpPcs, o : Upserts]] BY <2>1, <2>3, AtType
  <2>b. lock' \in [Upserts -> [writer : Upserts \cup Goroutines \cup {None},
                              readers : SUBSET Upserts]]
    BY <1>0, <2>2, AnnounceType
  <2>7. TypeOK'
    BY <2>2, <2>5, <2>6, <2>a, <2>b DEF TypeOK, UpPcs, ChkRecord, ChkPcs
  <2>8. Reading'
    <3>1. lock[o].readers = {} BY <2>2 DEF Enter
    <3>2. \A v \in Upserts : up[v].o # o => obj'[up'[v].o] = obj[up[v].o]
      BY <1>0, <2>1, <2>3, <2>4, AtType DEF TypeOK
    <3>3. \A x \in Upserts : lock'[x].readers = lock[x].readers
      BY <1>0, <2>2, AnnounceType
    <3>4. up[u].pc = from /\ up'[u].pc = to
          /\ \A v \in Upserts : v # u => up'[v] = up[v]
      BY <2>1, <2>3, AtType
    <3> QED BY <1>0, <3>1, <3>2, <3>3, <3>4 DEF Reading
  <2>9. Hits' BY <2>5 DEF Hits
  <2> QED BY <2>2, <2>7, <2>8, <2>9 DEF Cached
<1>4. CASE ReadLock(u)
  <2>1. UNCHANGED <<entry, obj, chk, mutex, cache, file, lost, indexed, doc>>
    BY <1>4 DEF ReadLock
  <2>2. CASE At(u, "read", "done") /\ UNCHANGED lock
    <3>1. "done" \in UpPcs BY DEF UpPcs
    <3>2. TypeOK' BY <2>1, <2>2, <3>1, AtType DEF TypeOK, UpPcs
    <3>3. Reading' BY <2>1, <2>2, <3>1, AtType DEF Reading
    <3> QED BY <2>1, <3>2, <3>3 DEF Cached, Hits
  <2>3. CASE /\ At(u, "read", "reread") /\ obj[o].risk # 0
             /\ lock' = [lock EXCEPT ![o].readers = @ \cup {u}]
    <3> DEFINE S == lock[o].readers \cup {u}
    <3>1. "reread" \in UpPcs BY DEF UpPcs
    <3>2. S \in SUBSET Upserts /\ lock' = [lock EXCEPT ![o].readers = S]
      BY <1>0, <2>3 DEF TypeOK
    <3> HIDE DEF S
    <3>3. TypeOK' BY <1>0, <2>1, <2>3, <3>1, <3>2, AtType, ReadersType DEF TypeOK, UpPcs
    <3>4. \A x \in Upserts : lock[x].readers \subseteq lock'[x].readers
      BY <1>0, <3>2, ReadersType DEF S
    <3>a. u \in S BY DEF S
    <3>5. u \in lock'[o].readers BY <1>0, <3>2, <3>a, ReadersType
    <3>6. Reading' BY <1>0, <2>1, <2>3, <3>1, <3>4, <3>5, AtType DEF Reading
    <3> QED BY <2>1, <3>3, <3>6 DEF Cached, Hits
  <2> QED BY <1>4, <2>2, <2>3 DEF ReadLock
<1>5. CASE Write(u)
  <2> DEFINE r == Record(o, obj[o]) S == lock[o].readers \ {u}
  <2>1. /\ At(u, "write", "done") /\ "done" \in UpPcs
        /\ UNCHANGED <<entry, obj, chk, mutex, cache, indexed, doc>>
        /\ lock' = [lock EXCEPT ![o].readers = S]
        /\ S \in SUBSET Upserts
    BY <1>0, <1>5 DEF Write, UpPcs, TypeOK
  <2>2. obj[o].risk # 0 BY <1>0, <2>1, AtType DEF Reading
  <2>3. r \in Records BY <1>0, <2>2, RecordType
  <2>4. /\ file' \subseteq Records /\ lost' \in BOOLEAN /\ file \subseteq file'
    BY <1>5, <2>3 DEF Write, EnqueueWrite, TypeOK, Records
  <2> HIDE DEF r, S
  <2>5. TypeOK'
    BY <1>0, <2>1, <2>4, AtType, ReadersType DEF TypeOK, Records, UpPcs
  <2>6. \A x \in Upserts : x # o => lock'[x].readers = lock[x].readers
    BY <1>0, <2>1, ReadersType
  <2>a. lock'[o].readers = S
    <3>1. o \in Upserts /\ S \in SUBSET Upserts /\ lock' = [lock EXCEPT ![o].readers = S]
      BY <1>0, <2>1
    <3> HIDE DEF o
    <3> QED BY <3>1, ReadersType
  <2>7. lock'[o].readers = lock[o].readers \ {u} BY <2>a DEF S
  <2>8. Reading' BY <1>0, <2>1, <2>6, <2>7, AtType DEF Reading
  <2> QED BY <2>1, <2>5, <2>8 DEF Cached, Hits
<1> QED BY <1>1, <1>2, <1>3, <1>4, <1>5 DEF Upsert

\* Moving a checker to another step, with what it has found so far.
LEMMA ChkType ==
  ASSUME TypeOK, NEW c \in Goroutines, NEW n \in ChkRecord,
         chk' = [chk EXCEPT ![c] = n]
  PROVE  /\ chk' \in [Goroutines -> ChkRecord] /\ chk'[c] = n
         /\ \A d \in Goroutines : d # c => chk'[d] = chk[d]
  BY DEF TypeOK, ChkRecord, ChkPcs

\* The parts of a call.
LEMMA CallType ==
  ASSUME TypeOK, NEW c \in Goroutines
  PROVE  /\ c[1] \in Upserts /\ c[2] \in Kinds /\ c = <<c[1], c[2]>>
         /\ Of(c) \in Upserts /\ obj[Of(c)] \in Object
         /\ chk[c] \in ChkRecord /\ c \in Upserts \cup Goroutines
  BY DEF Goroutines, TypeOK, Of, ChkRecord, ChkPcs

\* The sources with a result can be named in one.
LEMMA ResultsType ==
  ASSUME NEW k \in Kinds, NEW answer PROVE Results(k, answer) \in SUBSET Named
  BY DEF Results, Named

\* A result for a term that is looked up.
LEMMA LookedType ==
  ASSUME TypeOK, NEW c \in Goroutines, NEW t \in chk[c].todo, NEW by \in SUBSET Named,
         Looked(c, t, by)
  PROVE  \E n \in ChkRecord :
           /\ chk' = [chk EXCEPT ![c] = n]
           /\ n.todo = chk[c].todo \ {t} /\ n.copy = chk[c].copy
           /\ n.changed = chk[c].changed
           /\ \/ n.pc = "look"
              \/ n.pc = "lock" /\ n.hit \in Outcome /\ n.hit.term = t
<1> DEFINE h == [term |-> t, by |-> by]
<1>1. chk[c] \in ChkRecord BY CallType
<1>2. h \in Outcome /\ h.term = t BY <1>1 DEF ChkRecord, Outcome, Named
<1> HIDE DEF h
<1>3. CASE by = {}
  <2> DEFINE n == [chk[c] EXCEPT !.todo = @ \ {t}, !.hit = None, !.pc = "look"]
  <2>1. chk' = [chk EXCEPT ![c] = n] BY <1>1, <1>3 DEF Looked
  <2>2. /\ n \in ChkRecord /\ n.todo = chk[c].todo \ {t} /\ n.copy = chk[c].copy
        /\ n.changed = chk[c].changed /\ n.pc = "look"
    BY <1>1 DEF ChkRecord, ChkPcs
  <2> HIDE DEF n
  <2> QED BY <2>1, <2>2
<1>4. CASE by # {}
  <2> DEFINE n == [chk[c] EXCEPT !.todo = @ \ {t}, !.hit = h, !.pc = "lock"]
  <2>1. chk' = [chk EXCEPT ![c] = n] BY <1>1, <1>4 DEF Looked, h
  <2>2. /\ n \in ChkRecord /\ n.todo = chk[c].todo \ {t} /\ n.copy = chk[c].copy
        /\ n.changed = chk[c].changed /\ n.pc = "lock" /\ n.hit = h
    BY <1>1, <1>2 DEF ChkRecord, ChkPcs
  <2> HIDE DEF n
  <2> QED BY <1>2, <2>1, <2>2
<1> QED BY <1>3, <1>4

\* What a step of a checker does, whichever source answers.
CheckerStep(c, n) ==
  LET k == c[2] o == Of(c)
  IN \/ /\ chk[c].pc = "mutex" /\ n = [chk[c] EXCEPT !.pc = "copy"]
        /\ mutex[o][k] = None /\ mutex' = [mutex EXCEPT ![o][k] = c]
        /\ UNCHANGED <<obj, lock, file, lost>>
     \/ /\ chk[c].pc = "copy" /\ n.pc = "look" /\ n.copy = obj[o]
        /\ n.todo = obj[o].terms[k] \ LookedUp(obj[o], k)
        /\ n.changed = chk[c].changed
        /\ UNCHANGED <<obj, lock, mutex, file, lost>>
     \/ /\ chk[c].pc = "look" /\ n.copy = chk[c].copy /\ n.changed = chk[c].changed
        /\ \E t \in chk[c].todo :
             /\ n.todo = chk[c].todo \ {t}
             /\ \/ n.pc = "look"
                \/ n.pc = "lock" /\ n.hit \in Outcome /\ n.hit.term = t
        /\ UNCHANGED <<obj, lock, mutex, file, lost>>
     \/ /\ chk[c].pc = "lock" /\ n = [chk[c] EXCEPT !.pc = "append"]
        /\ Announce(o, c)
        /\ UNCHANGED <<obj, mutex, file, lost>>
     \/ /\ chk[c].pc = "append" /\ n.pc = "look" /\ n.changed
        /\ n.todo = chk[c].todo
        /\ n.copy = [chk[c].copy EXCEPT !.found[k] = Append(@, chk[c].hit)]
        /\ obj' = [obj EXCEPT ![o].found[k] = Append(@, chk[c].hit)]
        /\ Enter(o, c)
        /\ UNCHANGED <<mutex, file, lost>>
     \/ /\ chk[c].pc = "look" /\ chk[c].todo = {}
        /\ n = [Idle EXCEPT !.pc = IF chk[c].changed /\ chk[c].copy.risk = 0
                                   THEN "silent" ELSE "done"]
        /\ IF chk[c].changed /\ chk[c].copy.risk # 0
           THEN EnqueueWrite(Record(o, chk[c].copy)) ELSE UNCHANGED <<file, lost>>
        /\ mutex' = [mutex EXCEPT ![o][k] = None]
        /\ UNCHANGED <<obj, lock>>

\* Every step of a checker has one of these forms.
LEMMA CheckerSteps ==
  ASSUME TypeInv, NEW c \in Goroutines, Check(c)
  PROVE  /\ UNCHANGED <<entry, up, indexed, doc>> /\ Cached'
         /\ \E n \in ChkRecord : chk' = [chk EXCEPT ![c] = n] /\ CheckerStep(c, n)
<1> USE DEF TypeInv
<1>0. /\ c[2] \in Kinds /\ Of(c) \in Upserts /\ obj[Of(c)] \in Object
      /\ chk[c] \in ChkRecord
  BY CallType
<1>1. CASE TakeMutex(c)
  <2> DEFINE n == [chk[c] EXCEPT !.pc = "copy"]
  <2>1. n \in ChkRecord BY <1>0 DEF ChkRecord, ChkPcs
  <2>2. chk' = [chk EXCEPT ![c] = n] BY <1>1 DEF TakeMutex
  <2>3. CheckerStep(c, n) BY <1>1 DEF TakeMutex, CheckerStep
  <2> HIDE DEF n
  <2> QED BY <1>1, <2>1, <2>2, <2>3 DEF TakeMutex, Cached
<1>2. CASE CopyAlarm(c)
  <2> DEFINE n == [chk[c] EXCEPT !.pc = "look", !.copy = obj[Of(c)],
                     !.todo = obj[Of(c)].terms[c[2]] \ LookedUp(obj[Of(c)], c[2])]
  <2>1. obj[Of(c)].terms[c[2]] \ LookedUp(obj[Of(c)], c[2]) \in SUBSET AllTerms
    BY <1>0 DEF Object
  <2>2. /\ n \in ChkRecord /\ n.pc = "look" /\ n.copy = obj[Of(c)]
        /\ n.todo = obj[Of(c)].terms[c[2]] \ LookedUp(obj[Of(c)], c[2])
        /\ n.changed = chk[c].changed
    BY <1>0, <2>1 DEF ChkRecord, ChkPcs
  <2>3. chk' = [chk EXCEPT ![c] = n] BY <1>2 DEF CopyAlarm
  <2> HIDE DEF n
  <2>4. CheckerStep(c, n) BY <1>2, <2>2 DEF CopyAlarm, CheckerStep
  <2> QED BY <1>2, <2>2, <2>3, <2>4 DEF CopyAlarm, Cached
<1>3. CASE LookUpCached(c) \/ LookUp(c)
  <2>1. /\ chk[c].pc = "look"
        /\ UNCHANGED <<entry, obj, up, lock, mutex, file, lost, indexed, doc>>
    BY <1>3 DEF LookUpCached, LookUp
  <2>2. \E t \in chk[c].todo, by \in SUBSET Named :
          /\ Looked(c, t, by)
          /\ cache' = cache \/ cache' = [cache EXCEPT ![c[2]][t] = by]
    <3>1. CASE LookUpCached(c)
      <4>1. PICK t \in chk[c].todo : /\ cache[c[2]][t] # None
                                     /\ Looked(c, t, cache[c[2]][t])
        BY <3>1 DEF LookUpCached
      <4>2. t \in AllTerms BY <1>0 DEF ChkRecord
      <4>3. cache[c[2]][t] \in SUBSET Named BY <1>0, <4>1, <4>2 DEF Cached
      <4>4. cache' = cache BY <3>1 DEF LookUpCached
      <4> QED BY <4>1, <4>3, <4>4
    <3>2. CASE LookUp(c)
      <4>1. PICK t \in chk[c].todo, answer \in Answers(c[2]) :
              /\ Looked(c, t, Results(c[2], answer))
              /\ cache' = IF Success(c[2], answer)
                          THEN [cache EXCEPT ![c[2]][t] = Results(c[2], answer)]
                          ELSE cache
        BY <3>2 DEF LookUp
      <4>2. Results(c[2], answer) \in SUBSET Named BY <1>0, ResultsType
      <4> QED BY <4>1, <4>2
    <3> QED BY <1>3, <3>1, <3>2
  <2>3. PICK t \in chk[c].todo, by \in SUBSET Named :
          /\ Looked(c, t, by)
          /\ cache' = cache \/ cache' = [cache EXCEPT ![c[2]][t] = by]
    BY <2>2
  <2>4. Cached'
    <3>1. t \in AllTerms BY <1>0 DEF ChkRecord
    <3>2. [cache[c[2]] EXCEPT ![t] = by] \in [AllTerms -> (SUBSET Named) \cup {None}]
      BY <1>0, <3>1 DEF Cached
    <3> QED BY <1>0, <2>3, <3>2 DEF Cached
  <2>5. PICK n \in ChkRecord :
          /\ chk' = [chk EXCEPT ![c] = n]
          /\ n.todo = chk[c].todo \ {t} /\ n.copy = chk[c].copy
          /\ n.changed = chk[c].changed
          /\ \/ n.pc = "look"
             \/ n.pc = "lock" /\ n.hit \in Outcome /\ n.hit.term = t
    BY <2>3, LookedType
  <2>6. CheckerStep(c, n) BY <2>1, <2>5 DEF CheckerStep
  <2> QED BY <2>1, <2>4, <2>5, <2>6
<1>4. CASE LockSource(c)
  <2> DEFINE n == [chk[c] EXCEPT !.pc = "append"]
  <2>1. n \in ChkRecord BY <1>0 DEF ChkRecord, ChkPcs
  <2>2. chk' = [chk EXCEPT ![c] = n] BY <1>4 DEF LockSource
  <2>3. CheckerStep(c, n) BY <1>4 DEF LockSource, CheckerStep
  <2> HIDE DEF n
  <2> QED BY <1>4, <2>1, <2>2, <2>3 DEF LockSource, Cached
<1>5. CASE AppendResult(c)
  <2> DEFINE a == [chk[c].copy EXCEPT !.found[c[2]] = Append(@, chk[c].hit)]
             n == [chk[c] EXCEPT !.pc = "look", !.hit = None, !.changed = TRUE,
                                 !.copy = a]
  <2>1. chk[c].hit \in Outcome /\ chk[c].copy \in Object
    BY <1>0, <1>5 DEF AppendResult, Hits, ChkRecord
  <2>2. a \in Object BY <1>0, <2>1, AppendFound
  <2>3. chk' = [chk EXCEPT ![c] = n] BY <1>5 DEF AppendResult
  <2> HIDE DEF a
  <2>4. /\ n \in ChkRecord /\ n.pc = "look" /\ n.changed /\ n.todo = chk[c].todo
        /\ n.copy = a
    BY <1>0, <2>2 DEF ChkRecord, ChkPcs
  <2> HIDE DEF n
  <2>5. CheckerStep(c, n) BY <1>5, <2>4 DEF AppendResult, CheckerStep, a
  <2> QED BY <1>5, <2>3, <2>4, <2>5 DEF AppendResult, Cached
<1>6. CASE Finish(c)
  <2> DEFINE n == [Idle EXCEPT !.pc = IF chk[c].changed /\ chk[c].copy.risk = 0
                                      THEN "silent" ELSE "done"]
  <2>1. n \in ChkRecord BY NewTypes DEF ChkRecord, ChkPcs
  <2>2. chk' = [chk EXCEPT ![c] = n] BY <1>6 DEF Finish
  <2>3. CheckerStep(c, n) BY <1>6 DEF Finish, CheckerStep
  <2> HIDE DEF n
  <2> QED BY <1>6, <2>1, <2>2, <2>3 DEF Finish, Cached
<1> QED BY <1>1, <1>2, <1>3, <1>4, <1>5, <1>6 DEF Check

\* The steps of a checker.
LEMMA TypeCheck ==
  ASSUME TypeInv, NEW c \in Goroutines, Check(c) PROVE TypeInv'
<1> USE DEF TypeInv
<1> DEFINE o == Of(c) k == c[2]
<1>0. /\ k \in Kinds /\ o \in Upserts /\ obj[o] \in Object
      /\ chk[c] \in ChkRecord /\ c \in Upserts \cup Goroutines
      /\ UNCHANGED <<entry, up, indexed, doc>> /\ Cached'
  BY CallType, CheckerSteps
<1>1. PICK n \in ChkRecord : chk' = [chk EXCEPT ![c] = n] /\ CheckerStep(c, n)
  BY CheckerSteps
<1>2. /\ chk' \in [Goroutines -> ChkRecord] /\ chk'[c] = n
      /\ \A d \in Goroutines : d # c => chk'[d] = chk[d]
  BY <1>1, ChkType
<1>3. /\ lock' \in [Upserts -> [writer : Upserts \cup Goroutines \cup {None},
                                readers : SUBSET Upserts]]
      /\ \A x \in Upserts : lock'[x].readers = lock[x].readers
  <2>1. lock' = lock \/ Announce(o, c) \/ Enter(o, c) BY <1>1 DEF CheckerStep
  <2> QED BY <1>0, <2>1, AnnounceType DEF TypeOK
<1>4. mutex' \in [Upserts -> [Kinds -> Goroutines \cup {None}]]
  <2>1. mutex' = mutex \/ \E g \in {c, None} : mutex' = [mutex EXCEPT ![o][k] = g]
    BY <1>1 DEF CheckerStep
  <2>2. CASE mutex' = mutex BY <2>2 DEF TypeOK
  <2>3. ASSUME NEW g \in {c, None}, mutex' = [mutex EXCEPT ![o][k] = g]
        PROVE  mutex' \in [Upserts -> [Kinds -> Goroutines \cup {None}]]
    <3>1. [mutex[o] EXCEPT ![k] = g] \in [Kinds -> Goroutines \cup {None}]
      BY <1>0 DEF TypeOK
    <3> QED BY <1>0, <2>3, <3>1 DEF TypeOK
  <2> QED BY <2>1, <2>2, <2>3
<1>5. /\ obj' \in [Upserts -> Object]
      /\ \A x \in Upserts : obj'[x].risk = obj[x].risk
  <2>1. CASE obj' = obj BY <2>1 DEF TypeOK
  <2>2. CASE /\ chk[c].pc = "append"
             /\ obj' = [obj EXCEPT ![o].found[k] = Append(@, chk[c].hit)]
    <3> DEFINE a == [obj[o] EXCEPT !.found[k] = Append(@, chk[c].hit)]
    <3>1. a \in Object /\ a.risk = obj[o].risk BY <1>0, <2>2, AppendFound DEF Hits
    <3>2. obj' = [obj EXCEPT ![o] = a] BY <2>2
    <3> HIDE DEF a
    <3> QED BY <1>0, <3>1, <3>2 DEF TypeOK
  <2> QED BY <1>1, <2>1, <2>2 DEF CheckerStep
<1>6. file' \subseteq Records /\ lost' \in BOOLEAN /\ file \subseteq file'
  <2>1. CASE UNCHANGED <<file, lost>> BY <2>1 DEF TypeOK, Records
  <2>2. CASE chk[c].copy.risk # 0 /\ EnqueueWrite(Record(o, chk[c].copy))
    <3>1. chk[c].copy \in Object BY <1>0 DEF ChkRecord
    <3>2. Record(o, chk[c].copy) \in Records BY <1>0, <2>2, <3>1, RecordType
    <3> QED BY <2>2, <3>2 DEF EnqueueWrite, TypeOK, Records
  <2> QED BY <1>1, <2>1, <2>2 DEF CheckerStep
<1>7. TypeOK'
  BY <1>0, <1>2, <1>3, <1>4, <1>5, <1>6 DEF TypeOK, ChkRecord, ChkPcs, Records
<1>8. Reading'
  <2>1. \A u \in Upserts : up[u].o \in Upserts BY DEF TypeOK
  <2> QED BY <1>0, <1>3, <1>5, <2>1 DEF Reading
<1>9. Hits'
  <2>1. n.pc \in {"lock", "append"} => n.hit \in Outcome
    BY <1>0, <1>1 DEF CheckerStep, Hits, Idle, ChkRecord
  <2> QED BY <1>2, <2>1 DEF Hits
<1> QED BY <1>0, <1>7, <1>8, <1>9

\* The type invariant is inductive.
LEMMA TypeStep == TypeInv /\ [Next]_vars => TypeInv'
<1> SUFFICES ASSUME TypeInv, [Next]_vars PROVE TypeInv' OBVIOUS
<1>1. CASE UNCHANGED vars
  BY <1>1 DEF vars, TypeInv, TypeOK, Cached, Reading, Hits
<1> QED BY <1>1, TypeEnvironment, TypeUpsert, TypeCheck DEF Next

\* It holds throughout.
LEMMA TypeAlways == Spec => []TypeInv
  BY TypeInit, TypeStep, PTL DEF Spec

\* Every variable keeps the type of its Go declaration; in particular no record
\* with risk 0 reaches the file, although the risk is read long before the write.
THEOREM TypeCorrect == Spec => []TypeOK
  BY TypeAlways, PTL DEF TypeInv

-----------------------------------------------------------------------------
(* The store *)

\* The numbers the script compares.
LEMMA StoreTypes ==
  ASSUME TypeOK
  PROVE  /\ doc.risk \in Nat /\ doc.time \in Nat /\ indexed \subseteq file
         /\ \A r \in file : r.risk \in Nat /\ r.time \in Nat
<1>1. file \subseteq Records /\ indexed \subseteq file BY DEF TypeOK, Records
<1>2. \A r \in Records : r.risk \in 1..10 /\ r.time \in Nat BY DEF Records
<1>3. doc.risk \in 0..10 /\ doc.time \in Nat BY DEF TypeOK
<1>4. 1..10 \subseteq Nat /\ 0..10 \subseteq Nat OBVIOUS
<1> QED BY <1>1, <1>2, <1>3, <1>4

\* A record that arrives late, or twice, never takes the store back.
LEMMA IndexedStep == TypeInv /\ Indexed /\ [Next]_vars => Indexed'
<1> SUFFICES ASSUME TypeInv, Indexed, [Next]_vars PROVE Indexed' OBVIOUS
<1> USE DEF TypeInv
<1>1. ASSUME UNCHANGED <<indexed, doc>> PROVE Indexed'
  BY <1>1 DEF Indexed, OutOfOrder, Found
<1>2. ASSUME NEW r \in file, Index(r) PROVE Indexed'
  <2>0. /\ r.risk \in Nat /\ r.time \in Nat /\ doc.risk \in Nat /\ doc.time \in Nat
        /\ \A x \in indexed : x.risk \in Nat /\ x.time \in Nat
    BY StoreTypes
  <2>1. indexed' = indexed \cup {r} BY <1>2 DEF Index
  <2>2. CASE OutOfOrder(r)
    <3>1. doc' = doc BY <1>2, <2>2 DEF Index
    <3> QED BY <2>0, <2>1, <2>2, <3>1 DEF Indexed, OutOfOrder, Found
  <2>3. CASE ~OutOfOrder(r)
    <3>1. /\ doc'.risk = r.risk /\ doc'.time = r.time
          /\ doc'.found = doc.found \cup Found(r)
      BY <1>2, <2>3 DEF Index
    <3>2. \/ r.risk > doc.risk
          \/ r.risk = doc.risk /\ r.time >= doc.time
      BY <2>0, <2>3 DEF OutOfOrder
    <3>3. ASSUME NEW x \in indexed
          PROVE  /\ x.risk <= doc'.risk
                 /\ x.risk = doc'.risk => x.time <= doc'.time
                 /\ ~OutOfOrder(x)' => Found(x) \subseteq doc'.found
      <4>1. /\ x.risk <= doc.risk
            /\ x.risk = doc.risk => x.time <= doc.time
            /\ ~OutOfOrder(x) => Found(x) \subseteq doc.found
        BY DEF Indexed
      <4>2. x.risk <= doc'.risk /\ (x.risk = doc'.risk => x.time <= doc'.time)
        BY <2>0, <3>1, <3>2, <4>1
      <4>3. ~OutOfOrder(x)' => ~OutOfOrder(x)
        BY <2>0, <3>1, <3>2, <4>1 DEF OutOfOrder
      <4> QED BY <3>1, <4>1, <4>2, <4>3
    <3>4. /\ r.risk <= doc'.risk /\ (r.risk = doc'.risk => r.time <= doc'.time)
          /\ Found(r) \subseteq doc'.found
      BY <2>0, <3>1
    <3> QED BY <2>1, <3>3, <3>4 DEF Indexed, Found
  <2> QED BY <2>2, <2>3
<1>3. Environment => UNCHANGED <<indexed, doc>>
  BY DEF Environment, Find, RemoveAlarm, Evict
<1>4. ASSUME NEW u \in Upserts, Upsert(u) PROVE UNCHANGED <<indexed, doc>>
  BY <1>4 DEF Upsert, Create, Lock, SetFields, SetRules, ReadLock, ReadAgain, Write
<1>5. ASSUME NEW c \in Goroutines, Check(c) PROVE UNCHANGED <<indexed, doc>>
  BY <1>5, CheckerSteps
<1> QED BY <1>1, <1>2, <1>3, <1>4, <1>5 DEF Next, Store, vars

\* Whoever sets the risk and the time is going to write them, whatever others
\* set in between.
LEMMA KeptStep == TypeInv /\ Kept /\ [Next]_vars => Kept'
<1> SUFFICES ASSUME TypeInv, Kept, [Next]_vars PROVE Kept' OBVIOUS
<1> USE DEF TypeInv
<1>a. ASSUME \A x \in Upserts : obj'[x].risk = obj[x].risk /\ obj'[x].time = obj[x].time,
             file \subseteq file', lost => lost',
             \A x \in Upserts : Upserting(x) => Upserting(x)'
      PROVE  Kept'
  BY <1>a DEF Kept
<1>b. ASSUME up' = up PROVE \A x \in Upserts : Upserting(x) => Upserting(x)'
  BY <1>b DEF Upserting
<1>1. CASE Environment \/ Store \/ UNCHANGED vars
  <2>1. UNCHANGED <<obj, file, lost>>
    BY <1>1 DEF Environment, Find, RemoveAlarm, Evict, Store, Index, vars
  <2>2. up' = up \/ \E u \in Upserts : Find(u)
    BY <1>1 DEF Environment, RemoveAlarm, Evict, Store, Index, vars
  <2>3. ASSUME NEW u \in Upserts, Find(u)
        PROVE  \A x \in Upserts : Upserting(x) => Upserting(x)'
    <3>1. up[u].pc = "off" /\ \A v \in Upserts : v # u => up'[v] = up[v]
      BY <2>3 DEF Find, TypeOK
    <3> QED BY <3>1 DEF Upserting
  <2> QED BY <1>a, <1>b, <2>1, <2>2, <2>3
<1>2. ASSUME NEW u \in Upserts, Upsert(u) PROVE Kept'
  <2> DEFINE o == up[u].o
             Busy == {"lock2", "set2", "read", "reread", "write"}
  <2>0. o \in Upserts /\ obj[o] \in Object BY DEF TypeOK
  <2>a. ASSUME NEW from, NEW to \in UpPcs, At(u, from, to), from \in Busy => to \in Busy
        PROVE  \A x \in Upserts : Upserting(x) => Upserting(x)'
    BY <2>a, AtType DEF Upserting
  <2>b. Busy \subseteq UpPcs /\ "lock1" \in UpPcs /\ "set1" \in UpPcs /\ "done" \in UpPcs
    BY DEF UpPcs
  <2>1. CASE Create(u) \/ ReadAgain(u) \/ Lock(u)
    <3>1. UNCHANGED <<obj, file, lost>> BY <1>2, <2>1 DEF Create, ReadAgain, Lock
    <3>2. \/ At(u, "create", "lock1") \/ At(u, "reread", "write")
          \/ At(u, "lock1", "set1") \/ At(u, "lock2", "set2")
      BY <2>1 DEF Create, ReadAgain, Lock
    <3> QED BY <1>a, <2>a, <2>b, <3>1, <3>2
  <2>2. CASE SetFields(u)
    <3>1. At(u, "set1", "lock2") /\ UNCHANGED <<file, lost>> BY <2>2 DEF SetFields
    <3>2. \A x \in Upserts : x # o => obj'[x] = obj[x]
      BY <2>0, <2>2 DEF SetFields, TypeOK
    <3>3. \A x \in Upserts : x = o => Upserting(x)'
      BY <2>b, <3>1, AtType DEF Upserting
    <3>4. \A x \in Upserts : Upserting(x) => Upserting(x)' BY <2>a, <2>b, <3>1
    <3> QED BY <3>1, <3>2, <3>3, <3>4 DEF Kept
  <2>3. CASE SetRules(u)
    <3>1. At(u, "set2", "read") /\ UNCHANGED <<file, lost>> BY <2>3 DEF SetRules
    <3>2. obj' = [obj EXCEPT ![o].terms["vuln"] = Terms[u]["vuln"]]
      BY <2>3 DEF SetRules
    <3>3. \A x \in Upserts : obj'[x].risk = obj[x].risk /\ obj'[x].time = obj[x].time
      BY <2>0, <3>2 DEF TypeOK, Object
    <3>4. \A x \in Upserts : Upserting(x) => Upserting(x)' BY <2>a, <2>b, <3>1
    <3> QED BY <1>a, <3>1, <3>3, <3>4
  <2>4. CASE ReadLock(u)
    <3>1. UNCHANGED <<obj, file, lost>> BY <2>4 DEF ReadLock
    <3>2. CASE At(u, "read", "reread") BY <1>a, <2>a, <2>b, <3>1, <3>2
    <3>3. CASE obj[o].risk = 0 /\ At(u, "read", "done")
      <4>1. \A x \in Upserts : x # o /\ Upserting(x) => Upserting(x)'
        BY <2>b, <3>3, AtType DEF Upserting
      <4> QED BY <3>1, <3>3, <4>1 DEF Kept
    <3> QED BY <2>4, <3>2, <3>3 DEF ReadLock
  <2>5. CASE Write(u)
    <3>1. /\ At(u, "write", "done") /\ obj' = obj
          /\ EnqueueWrite(Record(o, obj[o]))
      BY <2>5 DEF Write
    <3>2. \A x \in Upserts : x # o /\ Upserting(x) => Upserting(x)'
      BY <2>b, <3>1, AtType DEF Upserting
    <3>3. Record(o, obj[o]).risk = obj[o].risk /\ Record(o, obj[o]).time = obj[o].time
      BY DEF Record
    <3> QED BY <2>0, <3>1, <3>2, <3>3 DEF EnqueueWrite, Kept
  <2> QED BY <1>2, <2>1, <2>2, <2>3, <2>4, <2>5 DEF Upsert
<1>3. ASSUME NEW c \in Goroutines, Check(c) PROVE Kept'
  <2>1. PICK n \in ChkRecord : CheckerStep(c, n) BY <1>3, CheckerSteps
  <2>2. up' = up BY <1>3, CheckerSteps
  <2>3. file \subseteq file' /\ (lost => lost') BY <2>1 DEF CheckerStep, EnqueueWrite
  <2>4. \A x \in Upserts : obj'[x].risk = obj[x].risk /\ obj'[x].time = obj[x].time
    <3>1. Of(c) \in Upserts /\ obj[Of(c)] \in Object BY CallType
    <3>2. obj' = obj
          \/ obj' = [obj EXCEPT ![Of(c)].found[c[2]] = Append(@, chk[c].hit)]
      BY <2>1 DEF CheckerStep
    <3> DEFINE a == [obj[Of(c)] EXCEPT !.found[c[2]] = Append(@, chk[c].hit)]
    <3>3. a.risk = obj[Of(c)].risk /\ a.time = obj[Of(c)].time BY <3>1 DEF Object
    <3>4. obj' = obj \/ obj' = [obj EXCEPT ![Of(c)] = a] BY <3>2
    <3> HIDE DEF a
    <3> QED BY <3>1, <3>3, <3>4 DEF TypeOK
  <2> QED BY <1>a, <1>b, <2>2, <2>3, <2>4
<1> QED BY <1>1, <1>2, <1>3 DEF Next

\* However late, repeated or out of order the records reach the store, and
\* however the calls of Upsert overtake each other, the store keeps the highest
\* risk with its latest time, does not lose the results it has, and is at
\* least as far as the alarm once the calls have ended and the file is read.
THEOREM StoreIsNewest == Spec => []StoreNewest
<1>1. Init => Indexed /\ Kept
  BY DEF Init, Indexed, Kept, NewObject
<1>2. TypeInv /\ Indexed /\ Kept => StoreNewest
  <2> SUFFICES ASSUME TypeInv, Indexed, Kept, ~lost, indexed = file,
                      \A u \in Upserts : up[u].pc \in {"off", "done"},
                      NEW v \in Upserts, obj[up[v].o].risk # 0
               PROVE  \/ obj[up[v].o].risk < doc.risk
                      \/ obj[up[v].o].risk = doc.risk /\ obj[up[v].o].time <= doc.time
    BY DEF StoreNewest, Indexed
  <2>1. up[v].o \in Upserts BY DEF TypeInv, TypeOK
  <2>2. ~Upserting(up[v].o) BY DEF Upserting
  <2>3. PICK r \in file : r.risk = obj[up[v].o].risk /\ r.time = obj[up[v].o].time
    BY <2>1, <2>2 DEF Kept
  <2>4. r.risk <= doc.risk /\ (r.risk = doc.risk => r.time <= doc.time)
    BY DEF Indexed
  <2>5. r.risk \in Nat /\ doc.risk \in Nat BY StoreTypes DEF TypeInv
  <2> QED BY <2>3, <2>4, <2>5
<1> QED BY <1>1, <1>2, TypeAlways, IndexedStep, KeptStep, PTL DEF Spec

-----------------------------------------------------------------------------
(* The results *)

\* Past its first section a call keeps its object.
Late == {"lock2", "set2", "read", "reread", "write", "done"}

LEMMA ObjectKept ==
  ASSUME TypeInv, [Next]_vars
  PROVE  \A u \in Upserts : up[u].pc \in Late =>
           up'[u].pc \in Late /\ up'[u].o = up[u].o
<1> USE DEF TypeInv
<1>1. CASE up' = up BY <1>1
<1>2. ASSUME NEW u \in Upserts, Find(u)
      PROVE  up[u].pc = "off" /\ \A v \in Upserts : v # u => up'[v] = up[v]
  BY <1>2 DEF Find, TypeOK
<1>3. ASSUME NEW u \in Upserts, NEW from, NEW to \in UpPcs, At(u, from, to),
             from \in Late => to \in Late
      PROVE  \A v \in Upserts : up[v].pc \in Late =>
               up'[v].pc \in Late /\ up'[v].o = up[v].o
  BY <1>3, AtType
<1>4. ASSUME NEW u \in Upserts, Upsert(u)
      PROVE  \/ At(u, "create", "lock1") \/ At(u, "lock1", "set1")
             \/ \E from \in Late, to \in Late : At(u, from, to)
             \/ At(u, "set1", "lock2")
  BY <1>4 DEF Upsert, Create, Lock, SetFields, SetRules, ReadLock, ReadAgain, Write, Late
<1>5. Late \subseteq UpPcs /\ {"create", "lock1", "set1"} \subseteq UpPcs
      /\ {"off", "create", "lock1", "set1"} \cap Late = {} /\ "lock2" \in Late
  BY DEF Late, UpPcs
<1>6. ASSUME NEW u \in Upserts, Upsert(u)
      PROVE  \A v \in Upserts : up[v].pc \in Late =>
               up'[v].pc \in Late /\ up'[v].o = up[v].o
  BY <1>3, <1>4, <1>5, <1>6
<1>7. \/ up' = up \/ (\E u \in Upserts : Find(u)) \/ (\E u \in Upserts : Upsert(u))
  <2>1. ASSUME NEW c \in Goroutines, Check(c) PROVE up' = up BY <2>1, CheckerSteps
  <2> QED BY <2>1 DEF Next, Environment, RemoveAlarm, Evict, Store, Index, vars
<1> QED BY <1>1, <1>2, <1>5, <1>6, <1>7

\* A checker that runs stays with its object.
LEMMA OfKept ==
  ASSUME TypeInv, Started, [Next]_vars, NEW c \in Goroutines, chk[c].pc # "off"
  PROVE  Of(c)' = Of(c) /\ up'[c[1]].pc \in Late
<1>1. c[1] \in Upserts BY CallType DEF TypeInv
<1> QED BY <1>1, ObjectKept DEF Started, Late, Of

\* All but the checkers leave the results alone, and start checkers at most.
LEMMA OthersKeep ==
  ASSUME TypeInv, Started, [Next]_vars, ~\E c \in Goroutines : Check(c)
  PROVE  /\ mutex' = mutex /\ file \subseteq file' /\ (lost => lost')
         /\ \A x \in Upserts : obj'[x].found = obj[x].found
         /\ \A c \in Goroutines :
              \/ chk'[c] = chk[c]
              \/ /\ chk[c].pc = "off" /\ chk'[c].pc = "mutex"
                 /\ up'[c[1]].pc = "lock2"
<1> USE DEF TypeInv
<1>1. CASE Environment \/ Store \/ UNCHANGED vars
  <2>1. UNCHANGED <<obj, chk, mutex, file, lost>>
    BY <1>1 DEF Environment, Find, RemoveAlarm, Evict, Store, Index, vars
  <2> QED BY <2>1
<1>2. ASSUME NEW u \in Upserts, Upsert(u)
      PROVE  /\ mutex' = mutex /\ file \subseteq file' /\ (lost => lost')
             /\ \A x \in Upserts : obj'[x].found = obj[x].found
             /\ \A c \in Goroutines :
                  \/ chk'[c] = chk[c]
                  \/ /\ chk[c].pc = "off" /\ chk'[c].pc = "mutex"
                     /\ up'[c[1]].pc = "lock2"
  <2>0. up[u].o \in Upserts /\ obj[up[u].o] \in Object BY DEF TypeOK
  <2>1. CASE Create(u) \/ Lock(u) \/ ReadLock(u) \/ ReadAgain(u)
    BY <2>1 DEF Create, Lock, ReadLock, ReadAgain
  <2>2. CASE SetRules(u)
    <3>1. UNCHANGED <<chk, mutex, file, lost>>
          /\ obj' = [obj EXCEPT ![up[u].o].terms["vuln"] = Terms[u]["vuln"]]
      BY <2>2 DEF SetRules
    <3> QED BY <2>0, <3>1 DEF TypeOK, Object
  <2>3. CASE SetFields(u)
    <3>1. UNCHANGED <<mutex, file, lost>> /\ At(u, "set1", "lock2") BY <2>3 DEF SetFields
    <3>2. \A x \in Upserts : obj'[x].found = obj[x].found
      <4>1. PICK risk \in Risks[u] :
              obj' = [obj EXCEPT ![up[u].o].risk = risk, ![up[u].o].time = Time[u],
                                 ![up[u].o].terms["intel"] = Terms[u]["intel"]]
        BY <2>3 DEF SetFields
      <4> QED BY <2>0, <4>1 DEF TypeOK, Object
    <3>3. up[u].pc = "set1" /\ up'[u].pc = "lock2"
      <4>1. "lock2" \in UpPcs BY DEF UpPcs
      <4> QED BY <3>1, <4>1, AtType
    <3>4. \A c \in Goroutines : c[1] = u => chk[c].pc = "off"
      BY <3>3 DEF Started
    <3>5. \A c \in Goroutines : \/ chk'[c] = chk[c]
                                \/ c[1] = u /\ chk'[c] = [chk[c] EXCEPT !.pc = "mutex"]
      BY <2>3 DEF SetFields
    <3>6. \A c \in Goroutines : [chk[c] EXCEPT !.pc = "mutex"].pc = "mutex"
      BY DEF TypeOK
    <3> QED BY <3>1, <3>2, <3>3, <3>4, <3>5, <3>6
  <2>4. CASE Write(u)
    BY <2>4 DEF Write, EnqueueWrite
  <2> QED BY <1>2, <2>1, <2>2, <2>3, <2>4 DEF Upsert
<1> QED BY <1>1, <1>2 DEF Next

\* A checker runs only late in its call.
LEMMA StartedStep == TypeInv /\ Started /\ [Next]_vars => Started'
<1> SUFFICES ASSUME TypeInv, Started, [Next]_vars, NEW c \in Goroutines,
                    chk'[c].pc # "off"
             PROVE  up'[c[1]].pc \in Late
  BY DEF Started, Late
<1>1. CASE chk[c].pc # "off" BY <1>1, OfKept
<1>2. CASE chk[c].pc = "off"
  <2>1. ASSUME NEW d \in Goroutines, Check(d) PROVE FALSE
    <3>1. PICK n \in ChkRecord : chk' = [chk EXCEPT ![d] = n] /\ CheckerStep(d, n)
      BY <2>1, CheckerSteps
    <3>2. chk[d].pc # "off" BY <3>1 DEF CheckerStep
    <3>3. chk'[c] = chk[c] BY <1>2, <3>1, <3>2, ChkType DEF TypeInv
    <3> QED BY <1>2, <3>3
  <2> QED BY <1>2, <2>1, OthersKeep DEF Late
<1> QED BY <1>1, <1>2

Working == {"copy", "look", "lock", "append"}

\* An appended result adds its term to those that have been looked up, and no
\* term is listed twice if it was not among them.
LEMMA AppendTerms ==
  ASSUME NEW s \in Seq(Outcome), NEW h \in Outcome, NEW n, n = Append(s, h),
         \A i, j \in DOMAIN s : s[i].term = s[j].term => i = j,
         h.term \notin {s[i].term : i \in DOMAIN s}
  PROVE  /\ {n[i].term : i \in DOMAIN n} = {s[i].term : i \in DOMAIN s} \cup {h.term}
         /\ \A i, j \in DOMAIN n : n[i].term = n[j].term => i = j
<1>1. /\ Len(s) \in Nat /\ DOMAIN s = 1..Len(s) /\ DOMAIN n = 1..(Len(s) + 1)
      /\ \A i \in 1..Len(s) : n[i] = s[i]
      /\ n[Len(s) + 1] = h
  BY AppendProperties, LenProperties
<1>2. DOMAIN n = DOMAIN s \cup {Len(s) + 1} /\ Len(s) + 1 \notin DOMAIN s BY <1>1
<1>3. \A i \in DOMAIN s : n[i] = s[i] BY <1>1
<1> QED BY <1>1, <1>2, <1>3

\* A step of a checker in the terms of the invariant: the object and kind it
\* works for, and what the others keep.
LEMMA CheckerFrame ==
  ASSUME TypeInv, Holding, NEW c \in Goroutines, Check(c)
  PROVE  /\ up' = up /\ Of(c) \in Upserts /\ c[2] \in Kinds
         /\ \A d \in Goroutines : Of(d)' = Of(d)
         /\ \A d \in Goroutines : d # c => chk'[d] = chk[d]
         /\ \A d \in Goroutines :
              chk[c].pc \in Working /\ d # c /\ chk[d].pc \in Working
                => Of(d) # Of(c) \/ d[2] # c[2]
         /\ \A x \in Upserts, j \in Kinds :
              chk[c].pc # "append" \/ x # Of(c) \/ j # c[2]
                => obj'[x].found[j] = obj[x].found[j]
         /\ chk[c].pc = "append" =>
              obj'[Of(c)].found[c[2]] = Append(obj[Of(c)].found[c[2]], chk[c].hit)
<1> USE DEF TypeInv
<1>0. Of(c) \in Upserts /\ c[2] \in Kinds /\ obj[Of(c)] \in Object BY CallType
<1>1. up' = up BY CheckerSteps
<1>2. PICK n \in ChkRecord : chk' = [chk EXCEPT ![c] = n] /\ CheckerStep(c, n)
  BY CheckerSteps
<1>3. \A d \in Goroutines : d # c => chk'[d] = chk[d] BY <1>2, ChkType
<1>4. \A d \in Goroutines :
        chk[c].pc \in Working /\ d # c /\ chk[d].pc \in Working
          => Of(d) # Of(c) \/ d[2] # c[2]
  BY DEF Holding, Working
<1>5. CASE obj' = obj /\ chk[c].pc # "append"
  BY <1>0, <1>1, <1>3, <1>4, <1>5 DEF Of
<1>6. CASE /\ chk[c].pc = "append"
           /\ obj' = [obj EXCEPT ![Of(c)].found[c[2]] = Append(@, chk[c].hit)]
  <2>0. chk[c].hit \in Outcome BY <1>6 DEF Hits
  <2>a. PICK a : a = [obj[Of(c)] EXCEPT !.found[c[2]] = Append(@, chk[c].hit)] OBVIOUS
  <2>1. /\ a.found[c[2]] = Append(obj[Of(c)].found[c[2]], chk[c].hit)
        /\ \A j \in Kinds : j # c[2] => a.found[j] = obj[Of(c)].found[j]
    BY <1>0, <2>0, <2>a, AppendFound
  <2>2. obj' = [obj EXCEPT ![Of(c)] = a] BY <1>6, <2>a
  <2>3. obj'[Of(c)] = a /\ \A x \in Upserts : x # Of(c) => obj'[x] = obj[x]
    BY <1>0, <2>2 DEF TypeOK
  <2>4. obj'[Of(c)].found[c[2]] = Append(obj[Of(c)].found[c[2]], chk[c].hit)
    BY <2>1, <2>3
  <2>5. \A x \in Upserts, j \in Kinds :
          x # Of(c) \/ j # c[2] => obj'[x].found[j] = obj[x].found[j]
    BY <2>1, <2>3
  <2>6. \A d \in Goroutines : Of(d)' = Of(d) BY <1>1 DEF Of
  <2> QED BY <1>0, <1>1, <1>3, <1>4, <1>6, <2>4, <2>5, <2>6
<1> QED BY <1>2, <1>5, <1>6 DEF CheckerStep

\* The mutex is taken when it is free and left by its holder.
LEMMA HoldingStep == TypeInv /\ Started /\ Holding /\ [Next]_vars => Holding'
<1> SUFFICES ASSUME TypeInv, Started, Holding, [Next]_vars, NEW d \in Goroutines,
                    chk'[d].pc \in Working
             PROVE  mutex'[Of(d)'][d[2]] = d
  BY DEF Holding, Of, Working
<1> USE DEF TypeInv
<1>0. Of(d) \in Upserts /\ d[2] \in Kinds /\ d # None
  BY CallType, AlarmAssumption
<1>1. CASE ~\E c \in Goroutines : Check(c)
  <2>1. chk'[d] = chk[d] /\ mutex' = mutex BY <1>1, OthersKeep DEF Working
  <2>2. Of(d)' = Of(d) BY <2>1, OfKept DEF Working
  <2> QED BY <2>1, <2>2 DEF Holding, Working
<1>2. ASSUME NEW c \in Goroutines, Check(c) PROVE mutex'[Of(d)'][d[2]] = d
  <2>0. Of(c) \in Upserts /\ c[2] \in Kinds BY CallType
  <2>1. PICK n \in ChkRecord : chk' = [chk EXCEPT ![c] = n] /\ CheckerStep(c, n)
    BY <1>2, CheckerSteps
  <2>2. Of(d)' = Of(d) /\ chk'[c] = n /\ (d # c => chk'[d] = chk[d])
    BY <1>2, <2>1, CheckerFrame, ChkType
  <2>3. \A g \in {c, None} : mutex' = [mutex EXCEPT ![Of(c)][c[2]] = g] =>
          /\ mutex'[Of(c)][c[2]] = g
          /\ \A x \in Upserts, j \in Kinds : x # Of(c) \/ j # c[2]
               => mutex'[x][j] = mutex[x][j]
    BY <2>0 DEF TypeOK
  <2>4. CASE d = c
    <3>1. \/ chk[c].pc \in Working /\ mutex' = mutex
          \/ mutex' = [mutex EXCEPT ![Of(c)][c[2]] = c]
      BY <2>1, <2>2, <2>4 DEF CheckerStep, Working, Idle
    <3> QED BY <2>2, <2>3, <2>4, <3>1 DEF Holding, Working
  <2>5. CASE d # c
    <3>1. mutex[Of(d)][d[2]] = d BY <2>2, <2>5 DEF Holding, Working
    <3>2. \/ mutex' = mutex
          \/ /\ mutex[Of(c)][c[2]] \in {c, None}
             /\ \E g \in {c, None} : mutex' = [mutex EXCEPT ![Of(c)][c[2]] = g]
      BY <2>1 DEF CheckerStep, Holding
    <3>3. Of(d) # Of(c) \/ d[2] # c[2] \/ mutex' = mutex
      BY <1>0, <2>5, <3>1, <3>2
    <3> QED BY <1>0, <2>2, <2>3, <3>1, <3>2, <3>3
  <2> QED BY <2>4, <2>5
<1> QED BY <1>1, <1>2

\* What a checker has copied stays the alarm's list while it holds the mutex,
\* and so no term is appended twice.
LEMMA LookingStep ==
  ResultInv /\ [Next]_vars => Looking' /\ OneResultPerTerm'
<1> SUFFICES ASSUME ResultInv, [Next]_vars PROVE Looking' /\ OneResultPerTerm'
  OBVIOUS
<1> USE DEF ResultInv, TypeInv
<1>1. CASE ~\E c \in Goroutines : Check(c)
  <2>1. \A x \in Upserts : obj'[x].found = obj[x].found BY <1>1, OthersKeep
  <2>2. OneResultPerTerm' BY <2>1 DEF OneResultPerTerm
  <2>3. ASSUME NEW d \in Goroutines, chk'[d].pc \in {"look", "lock", "append"}
        PROVE  chk'[d] = chk[d] /\ obj'[Of(d)'].found = obj[Of(d)].found
    <3>1. chk'[d] = chk[d] BY <1>1, <2>3, OthersKeep
    <3>2. Of(d)' = Of(d) BY <2>3, <3>1, OfKept
    <3>3. Of(d) \in Upserts BY CallType
    <3> QED BY <2>1, <3>1, <3>2, <3>3
  <2>4. ASSUME NEW d \in Goroutines, chk'[d].pc \in {"look", "lock", "append"}
        PROVE  LookedUp(obj'[Of(d)'], d[2]) = LookedUp(obj[Of(d)], d[2])
    BY <2>3, <2>4 DEF LookedUp
  <2>5. Looking' BY <2>3, <2>4 DEF Looking
  <2> QED BY <2>2, <2>5
<1>2. ASSUME NEW c \in Goroutines, Check(c) PROVE Looking' /\ OneResultPerTerm'
  <2> DEFINE o == Of(c) k == c[2] s == obj[o].found[k]
  <2>0. /\ o \in Upserts /\ k \in Kinds /\ obj[o] \in Object /\ s \in Seq(Outcome)
        /\ chk[c] \in ChkRecord
    BY CallType DEF Object
  <2>1. PICK n \in ChkRecord : chk' = [chk EXCEPT ![c] = n] /\ CheckerStep(c, n)
    BY <1>2, CheckerSteps
  <2>2. chk'[c] = n /\ \A d \in Goroutines : Of(d)' = Of(d) /\ Of(d) \in Upserts
                                             /\ d[2] \in Kinds
    BY <1>2, <2>1, CheckerFrame, ChkType, CallType
  <2>3. CASE chk[c].pc # "append"
    <3>1. \A x \in Upserts, j \in Kinds : obj'[x].found[j] = obj[x].found[j]
      BY <1>2, <2>3, CheckerFrame
    <3>2. OneResultPerTerm' BY <3>1 DEF OneResultPerTerm
    <3>3. ASSUME n.pc \in {"look", "lock", "append"}
          PROVE  /\ n.copy.found[k] = s /\ n.todo \cap LookedUp(obj[o], k) = {}
                 /\ n.pc \in {"lock", "append"} =>
                      n.hit.term \notin n.todo \cup LookedUp(obj[o], k)
      BY <2>0, <2>1, <2>3, <3>3 DEF CheckerStep, Looking, ChkRecord, Idle
    <3>4. \A x \in Upserts, j \in Kinds : LookedUp(obj'[x], j) = LookedUp(obj[x], j)
      BY <3>1 DEF LookedUp
    <3>5. ASSUME NEW d \in Goroutines, chk'[d].pc \in {"look", "lock", "append"}
          PROVE  /\ chk'[d].copy.found[d[2]] = obj'[Of(d)].found[d[2]]
                 /\ chk'[d].todo \cap LookedUp(obj'[Of(d)], d[2]) = {}
                 /\ chk'[d].pc \in {"lock", "append"} => chk'[d].hit.term
                      \notin chk'[d].todo \cup LookedUp(obj'[Of(d)], d[2])
      <4>1. CASE d = c BY <2>0, <2>2, <3>1, <3>3, <3>4, <3>5, <4>1
      <4>2. CASE d # c
        <5>1. chk'[d] = chk[d] BY <1>2, <4>2, CheckerFrame
        <5> QED BY <2>2, <3>1, <3>4, <3>5, <5>1 DEF Looking
      <4> QED BY <4>1, <4>2
    <3>6. Looking' BY <2>2, <3>5 DEF Looking
    <3> QED BY <3>2, <3>6
  <2>4. CASE chk[c].pc = "append"
    <3> DEFINE h == chk[c].hit
    <3>1. h \in Outcome BY <2>4 DEF Hits
    <3>2. /\ chk[c].copy.found[k] = s /\ chk[c].todo \cap LookedUp(obj[o], k) = {}
          /\ h.term \notin chk[c].todo \cup LookedUp(obj[o], k)
      BY <2>4 DEF Looking
    <3>3. obj'[o].found[k] = Append(s, h) BY <1>2, <2>4, CheckerFrame
    <3>4. \A x \in Upserts, j \in Kinds : x # o \/ j # k
            => obj'[x].found[j] = obj[x].found[j]
      BY <1>2, CheckerFrame
    <3>5. \A i, j \in DOMAIN s : s[i].term = s[j].term => i = j
      BY <2>0 DEF OneResultPerTerm
    <3>6. PICK t : t = obj'[o].found[k] OBVIOUS
    <3>7. /\ {t[i].term : i \in DOMAIN t} = LookedUp(obj[o], k) \cup {h.term}
          /\ \A i, j \in DOMAIN t : t[i].term = t[j].term => i = j
      <4>1. h.term \notin {s[i].term : i \in DOMAIN s} BY <3>2 DEF LookedUp
      <4> HIDE DEF s, h
      <4>2. /\ {t[i].term : i \in DOMAIN t} = {s[i].term : i \in DOMAIN s} \cup {h.term}
            /\ \A i, j \in DOMAIN t : t[i].term = t[j].term => i = j
        BY <2>0, <3>1, <3>3, <3>5, <3>6, <4>1, AppendTerms
      <4> QED BY <4>2 DEF LookedUp, s
    <3>8. OneResultPerTerm' BY <3>4, <3>6, <3>7 DEF OneResultPerTerm
    <3>9. /\ n.pc = "look" /\ n.todo = chk[c].todo
          /\ n.copy = [chk[c].copy EXCEPT !.found[k] = Append(@, h)]
      BY <2>1, <2>4 DEF CheckerStep
    <3>10. n.copy.found[k] = Append(s, h)
      <4>1. chk[c].copy \in Object BY <2>0 DEF ChkRecord
      <4>2. n.copy.found[k] = Append(chk[c].copy.found[k], h)
        <5>1. k \in Kinds /\ h \in Outcome BY <2>0, <3>1
        <5> HIDE DEF k, h
        <5> QED BY <3>9, <4>1, <5>1, AppendFound
      <4> QED BY <3>2, <4>2
    <3>11. n.todo \cap LookedUp(obj'[o], k) = {}
      <4>1. LookedUp(obj'[o], k) = {t[i].term : i \in DOMAIN t}
        BY <3>6 DEF LookedUp
      <4> QED BY <3>2, <3>7, <3>9, <4>1
    <3>12. ASSUME NEW d \in Goroutines, chk'[d].pc \in {"look", "lock", "append"}
           PROVE  /\ chk'[d].copy.found[d[2]] = obj'[Of(d)].found[d[2]]
                  /\ chk'[d].todo \cap LookedUp(obj'[Of(d)], d[2]) = {}
                  /\ chk'[d].pc \in {"lock", "append"} => chk'[d].hit.term
                       \notin chk'[d].todo \cup LookedUp(obj'[Of(d)], d[2])
      <4>1. CASE d = c BY <2>2, <3>3, <3>9, <3>10, <3>11, <4>1
      <4>2. CASE d # c
        <5>1. chk'[d] = chk[d] BY <1>2, <4>2, CheckerFrame
        <5>2. Of(d) # o \/ d[2] # k
          BY <1>2, <2>4, <3>12, <4>2, <5>1, CheckerFrame DEF Working
        <5>3. obj'[Of(d)].found[d[2]] = obj[Of(d)].found[d[2]] BY <2>2, <3>4, <5>2
        <5>4. LookedUp(obj'[Of(d)], d[2]) = LookedUp(obj[Of(d)], d[2])
          BY <5>3 DEF LookedUp
        <5> QED BY <3>12, <5>1, <5>3, <5>4 DEF Looking
      <4> QED BY <4>1, <4>2
    <3>13. Looking' BY <2>2, <3>12 DEF Looking
    <3> QED BY <3>8, <3>13
  <2> QED BY <2>3, <2>4
<1> QED BY <1>1, <1>2

\* A call, its checkers and those of other calls never list a term twice: the
\* mutex of the kind makes each of them see what the one before has found.
LEMMA ResultAlways == Spec => []ResultInv
<1>1. Init => Started /\ Holding /\ Looking /\ OneResultPerTerm
  BY DEF Init, Started, Holding, Looking, OneResultPerTerm, NewObject, Idle
<1>2. ResultInv /\ [Next]_vars => ResultInv'
  BY TypeStep, StartedStep, HoldingStep, LookingStep DEF ResultInv
<1> QED BY <1>1, <1>2, TypeInit, PTL DEF Spec, ResultInv

\* However many calls are made for an alarm and however their checkers are
\* interleaved, no term is listed twice: the mutex of the kind makes each of
\* them see what the one before has found.
THEOREM OneResult == Spec => []OneResultPerTerm
  BY ResultAlways, PTL DEF ResultInv

\* A checker that has appended a result writes its copy at the end, and then the
\* copy has all the alarm has.
LEMMA WrittenStep == ResultInv /\ Written /\ [Next]_vars => Written'
<1> SUFFICES ASSUME ResultInv, Written, [Next]_vars,
                    NEW x \in Upserts, NEW j \in Kinds,
                    obj'[x].found[j] # <<>>, ~lost'
             PROVE  \/ Pending(x, j)'
                    \/ \E r \in file' : r.o = x /\ r.found[j] = obj'[x].found[j]
  BY DEF Written
<1> USE DEF ResultInv, TypeInv
<1>1. CASE ~\E c \in Goroutines : Check(c)
  <2>1. obj'[x].found = obj[x].found /\ file \subseteq file' /\ ~lost
    BY <1>1, OthersKeep
  <2>2. ASSUME NEW c \in Goroutines, chk[c].pc \notin {"off"}
        PROVE  chk'[c] = chk[c] /\ Of(c)' = Of(c)
    BY <1>1, <2>2, OthersKeep, OfKept
  <2>3. Pending(x, j) => Pending(x, j)' BY <2>2 DEF Pending
  <2> QED BY <2>1, <2>3 DEF Written
<1>2. ASSUME NEW c \in Goroutines, Check(c)
      PROVE  \/ Pending(x, j)'
             \/ \E r \in file' : r.o = x /\ r.found[j] = obj'[x].found[j]
  <2>0. Of(c) \in Upserts /\ c[2] \in Kinds /\ chk[c] \in ChkRecord BY CallType
  <2>1. PICK n \in ChkRecord : chk' = [chk EXCEPT ![c] = n] /\ CheckerStep(c, n)
    BY <1>2, CheckerSteps
  <2>2. /\ chk'[c] = n /\ \A d \in Goroutines : Of(d)' = Of(d)
        /\ \A d \in Goroutines : d # c => chk'[d] = chk[d]
    BY <1>2, <2>1, CheckerFrame, ChkType
  <2>3. file \subseteq file' /\ ~lost BY <2>1 DEF CheckerStep, EnqueueWrite
  <2>4. ASSUME NEW d \in Goroutines, d # c, Of(d) = x, d[2] = j,
               \/ chk[d].pc \in {"look", "lock", "append"} /\ chk[d].changed
               \/ chk[d].pc = "silent"
        PROVE  Pending(x, j)'
    BY <2>2, <2>4 DEF Pending
  <2>5. CASE Of(c) # x \/ c[2] # j
    <3>1. obj'[x].found[j] = obj[x].found[j] BY <1>2, <2>5, CheckerFrame
    <3>2. Pending(x, j) => Pending(x, j)' BY <2>4, <2>5 DEF Pending
    <3> QED BY <2>3, <3>1, <3>2 DEF Written
  <2>6. CASE Of(c) = x /\ c[2] = j
    <3>a. (n.pc \in {"look", "lock", "append"} /\ n.changed) \/ n.pc = "silent"
            => Pending(x, j)'
      BY <2>2, <2>6 DEF Pending
    <3>1. CASE chk[c].pc = "append"
      <4>1. n.pc = "look" /\ n.changed BY <2>1, <3>1 DEF CheckerStep
      <4> QED BY <3>a, <4>1
    <3>2. ASSUME chk[c].pc # "append"
          PROVE  \/ Pending(x, j) \/ \E r \in file' : r.o = x /\ r.found[j] = obj'[x].found[j]
      <4>1. obj'[x].found[j] = obj[x].found[j] BY <1>2, <3>2, CheckerFrame
      <4> QED BY <2>3, <4>1 DEF Written
    <3>3. ASSUME chk[c].pc # "append", Pending(x, j),
                 chk[c].pc = "look" => n.pc \in {"look", "lock"},
                 n.changed = chk[c].changed
          PROVE  Pending(x, j)'
      <4>1. PICK d \in Goroutines :
              /\ Of(d) = x /\ d[2] = j
              /\ \/ chk[d].pc \in {"look", "lock", "append"} /\ chk[d].changed
                 \/ chk[d].pc = "silent"
        BY <3>3 DEF Pending
      <4>2. CASE d = c
        <5>1. chk[c].pc \in {"look", "lock"} /\ n.changed
          BY <2>1, <3>3, <4>1, <4>2 DEF CheckerStep
        <5>2. n.pc \in {"look", "lock", "append"}
          BY <2>0, <2>1, <3>3, <5>1 DEF CheckerStep, ChkRecord
        <5> QED BY <3>a, <5>1, <5>2
      <4> QED BY <2>4, <4>1, <4>2
    <3>4. CASE /\ chk[c].pc = "look" /\ chk[c].todo = {}
               /\ n = [Idle EXCEPT !.pc = IF chk[c].changed /\ chk[c].copy.risk = 0
                                          THEN "silent" ELSE "done"]
               /\ IF chk[c].changed /\ chk[c].copy.risk # 0
                  THEN EnqueueWrite(Record(Of(c), chk[c].copy)) ELSE UNCHANGED <<file, lost>>
      <4>1. CASE chk[c].changed /\ chk[c].copy.risk = 0
        <5>1. n.pc = "silent" BY <3>4, <4>1 DEF Idle
        <5> QED BY <3>a, <5>1
      <4>2. CASE chk[c].changed /\ chk[c].copy.risk # 0
        <5> DEFINE r == Record(Of(c), chk[c].copy)
        <5>1. r \in file' BY <2>3, <3>4, <4>2 DEF EnqueueWrite
        <5>2. r.o = x /\ r.found = chk[c].copy.found BY <2>6 DEF Record
        <5>3. chk[c].copy.found[j] = obj[x].found[j] BY <2>6, <3>4 DEF Looking
        <5>4. obj'[x].found[j] = obj[x].found[j] BY <1>2, <3>4, CheckerFrame
        <5> QED BY <5>1, <5>2, <5>3, <5>4
      <4>3. CASE ~chk[c].changed
        <5>1. Pending(x, j) => Pending(x, j)'
          BY <2>4, <3>4, <4>3 DEF Pending
        <5> QED BY <3>2, <3>4, <5>1
      <4> QED BY <4>1, <4>2, <4>3
    <3>5. CASE /\ chk[c].pc # "append" /\ n.changed = chk[c].changed
               /\ chk[c].pc = "look" => n.pc \in {"look", "lock"}
      BY <3>2, <3>3, <3>5
    <3> QED BY <2>0, <2>1, <3>1, <3>4, <3>5 DEF CheckerStep, ChkRecord
  <2> QED BY <2>5, <2>6
<1> QED BY <1>1, <1>2

\* When the goroutines of an alarm have ended, its results are in the file, unless
\* a record was refused or a checker worked on a copy without a risk.
THEOREM ResultsReachFile == Spec => []ResultsWritten
<1>1. Init => Written BY DEF Init, Written, NewObject
<1>2. ResultInv /\ Written => ResultsWritten
  <2> SUFFICES ASSUME ResultInv, Written, NEW o \in Upserts, NEW k \in Kinds,
                      obj[o].found[k] # <<>>, ~lost,
                      \A u \in Upserts : up[u].o = o =>
                        \A c \in {u} \X Kinds : chk[c].pc \in {"off", "done"}
               PROVE  \E r \in file : r.o = o /\ r.found[k] = obj[o].found[k]
    BY DEF ResultsWritten
  <2>1. ASSUME NEW c \in Goroutines, Of(c) = o PROVE chk[c].pc \in {"off", "done"}
    <3>1. c[1] \in Upserts /\ c \in {c[1]} \X Kinds BY DEF Goroutines
    <3> QED BY <2>1, <3>1 DEF Of
  <2>2. ~Pending(o, k) BY <2>1 DEF Pending
  <2> QED BY <2>2 DEF Written
<1> QED BY <1>1, <1>2, ResultAlways, WrittenStep, PTL DEF Spec
=============================================================================
