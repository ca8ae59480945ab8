---------------------------- MODULE DplugerProofs ----------------------------
(* What the operators on directives compute: lists, references, loading, the   *)
(* tables and files of dpluger.  DeploymentProofs has the theorems that use it. *)
EXTENDS Dpluger, SequenceTheorems, FiniteSetTheorems, WellFoundedInduction, TLAPS

\* The loop of isNetAddrMatchCSVRule and isStringMatchCSVRule, which ends at the
\* first term that is hit, computes what its comment says, if no value is both
\* asked for and excluded.
LEMMA ListLoop ==
  ASSUME NEW ts, NEW v, Consistent(ts)
  PROVE  ListMatch(ts, v) <=> ListMeaning(ts, v)
  <1> DEFINE hit == Hits(ts, v)
             inverse == {i \in DOMAIN ts : ts[i].inverse}
  <1>1. ASSUME NEW i \in hit, ~ts[i].inverse
        PROVE  \A j \in hit : ~ts[j].inverse
    \* A term that excludes the value would contradict term i.
    <2>1. \A j \in hit : v \in ts[j].set /\ j \in DOMAIN ts
      BY DEF Hits
    <2> QED
      BY <1>1, <2>1 DEF Consistent
  <1>2. ListMatch(ts, v) => ListMeaning(ts, v)
    <2>1. CASE hit = {} /\ \E i \in DOMAIN ts : ts[i].inverse
      <3>1. inverse # {} /\ \A i \in inverse : v \notin ts[i].set
        BY <2>1 DEF Hits
      <3> QED
        BY <3>1 DEF ListMeaning
    <2>2. CASE \E i \in hit : ~ts[i].inverse
      <3>1. \E i \in DOMAIN ts \ inverse : v \in ts[i].set
        BY <2>2 DEF Hits
      <3> QED
        BY <3>1 DEF ListMeaning
    <2> QED
      BY <2>1, <2>2 DEF ListMatch
  <1>3. ListMeaning(ts, v) => ListMatch(ts, v)
    <2>1. CASE \E i \in DOMAIN ts \ inverse : v \in ts[i].set
      <3>1. PICK i \in hit : ~ts[i].inverse
        BY <2>1 DEF Hits
      <3>2. \A j \in hit : ts[j].inverse => i < j
        BY <1>1, <3>1
      <3> QED
        BY <3>1, <3>2 DEF ListMatch
    <2>2. CASE /\ inverse # {} /\ \A i \in inverse : v \notin ts[i].set
               /\ ~\E i \in DOMAIN ts \ inverse : v \in ts[i].set
      <3>1. hit = {} /\ \E i \in DOMAIN ts : ts[i].inverse
        BY <2>2 DEF Hits
      <3> QED
        BY <3>1 DEF ListMatch
    <2> QED
      BY <2>1, <2>2 DEF ListMeaning
  <1> QED
    BY <1>2, <1>3

-----------------------------------------------------------------------------
(* Induction: the theorems of the library that take a predicate as a parameter *)
(* are stated here for the set of the numbers that have it.                     *)

\* A set of numbers has a least one.
LEMMA Least ==
  ASSUME NEW T, T \subseteq Nat, T # {}
  PROVE  \E n \in T : \A m \in T : n <= m
  <1> DEFINE R == OpToRel(<, Nat)
  <1>1. IsWellFoundedOn(R, Nat)
    BY NatLessThanWellFounded
  <1>2. \A x, y \in Nat : x < y => <<x, y>> \in R
    BY DEF OpToRel
  <1> HIDE DEF R
  <1>3. PICK n \in T : \A m \in T : ~(<<m, n>> \in R)
    BY <1>1, WFMin
  <1>4. \A m \in T : ~(m < n)
    BY <1>2, <1>3
  <1> QED
    BY <1>4

\* Each number is in the set if all the smaller ones are;
LEMMA Induction ==
  ASSUME NEW S, \A n \in Nat : (\A m \in 0..(n - 1) : m \in S) => n \in S
  PROVE  Nat \subseteq S
  <1> SUFFICES ASSUME Nat \ S # {} PROVE FALSE
    OBVIOUS
  <1>1. PICK n \in Nat \ S : \A m \in Nat \ S : n <= m
    BY Least
  <1>2. \A m \in 0..(n - 1) : m \in Nat /\ ~(n <= m)
    BY <1>1
  <1> QED
    BY <1>1, <1>2

\* or if its predecessor is.
LEMMA Counting ==
  ASSUME NEW S, 0 \in S, \A n \in Nat : n \in S => n + 1 \in S
  PROVE  Nat \subseteq S
  <1>1. ASSUME NEW n \in Nat, \A m \in 0..(n - 1) : m \in S PROVE n \in S
    <2>1. n = 0 \/ (n - 1 \in 0..(n - 1) /\ n - 1 \in Nat /\ n = (n - 1) + 1)
      OBVIOUS
    <2> QED
      BY <1>1, <2>1
  <1> QED
    BY <1>1, Induction

\* A finite set of numbers has a greatest one.
LEMMA Greatest ==
  ASSUME NEW T, T \subseteq Nat, T # {}, IsFiniteSet(T)
  PROVE  \E n \in T : \A m \in T : m <= n
  <1> DEFINE N == Cardinality(T)
  <1>1. N \in Nat /\ \E f : f \in Bijection(1..N, T)
    BY FS_CardinalityType DEF ExistsBijection
  <1>2. PICK f : f \in Bijection(1..N, T)
    BY <1>1
  <1>3. f \in [1..N -> T] /\ \A t \in T : \E i \in 1..N : f[i] = t
    BY <1>2 DEF Bijection, Injection, Surjection
  <1>4. \A j \in 1..N : f[j] \in Nat
    BY <1>3
  <1> DEFINE S == {n \in Nat : n \in 1..N => \E i \in 1..n : \A j \in 1..n : f[j] <= f[i]}
  <1> HIDE DEF N
  <1>5. 0 \in S
    OBVIOUS
  <1>6. ASSUME NEW n \in Nat, n \in S PROVE n + 1 \in S
    <2> SUFFICES ASSUME n + 1 \in 1..N
                 PROVE  \E i \in 1..(n + 1) : \A j \in 1..(n + 1) : f[j] <= f[i]
      OBVIOUS
    <2>1. \A j \in 1..(n + 1) : f[j] \in Nat /\ (j \in 1..n \/ j = n + 1)
      <3>1. \A j \in 1..(n + 1) : j \in 1..N /\ (j \in 1..n \/ j = n + 1)
        BY <1>1
      <3> QED
        BY <1>4, <3>1
    <2>2. CASE n = 0
      BY <2>1, <2>2
    <2>3. CASE n # 0
      <3>1. PICK i \in 1..n : \A j \in 1..n : f[j] <= f[i]
        BY <1>1, <1>6, <2>3
      <3>2. i \in 1..(n + 1) /\ n + 1 \in 1..(n + 1)
        OBVIOUS
      <3>3. CASE f[n + 1] <= f[i]
        BY <2>1, <3>1, <3>2, <3>3
      <3>4. CASE ~(f[n + 1] <= f[i])
        <4>1. \A j \in 1..(n + 1) : f[j] <= f[n + 1]
          BY <2>1, <3>1, <3>2, <3>4
        <4> QED
          BY <3>2, <4>1
      <3> QED
        BY <3>3, <3>4
    <2> QED
      BY <2>2, <2>3
  <1>7. N \in S
    BY <1>1, <1>5, <1>6, Counting
  <1>8. N \in 1..N
    <2>1. PICK t \in T : TRUE
      OBVIOUS
    <2>2. PICK i \in 1..N : f[i] = t
      BY <1>3, <2>1
    <2> QED
      BY <1>1, <2>2
  <1>9. PICK i \in 1..N : \A j \in 1..N : f[j] <= f[i]
    BY <1>7, <1>8
  <1> QED
    BY <1>3, <1>9

-----------------------------------------------------------------------------
(* Lists *)

LEMMA Appended ==
  ASSUME NEW s, ListOf(s), NEW x
  PROVE  LET a == Append(s, x) IN
         /\ ListOf(a)
         /\ \A i \in DOMAIN a : (i \in DOMAIN s /\ a[i] = s[i]) \/ a[i] = x
         /\ DOMAIN s \subseteq DOMAIN a /\ \A i \in DOMAIN s : a[i] = s[i]
         /\ a # <<>>
         /\ \E k \in DOMAIN a : k \notin DOMAIN s /\ a[k] = x /\ DOMAIN a = DOMAIN s \cup {k}
  <1> DEFINE S == {s[i] : i \in DOMAIN s} \cup {x}
             a == Append(s, x)
  <1>1. s \in Seq(S) /\ x \in S
    BY SeqMonotonic DEF ListOf
  <1>2. /\ a \in Seq(S) /\ a # <<>> /\ Len(a) = Len(s) + 1
        /\ (\A i \in 1..Len(s) : a[i] = s[i]) /\ a[Len(s) + 1] = x
    BY <1>1, AppendProperties
  <1>3. Len(s) \in Nat /\ DOMAIN s = 1..Len(s) /\ DOMAIN a = 1..(Len(s) + 1)
    BY <1>1, <1>2, LenProperties
  <1>4. \A i \in DOMAIN a : i \in DOMAIN s \/ i = Len(s) + 1
    BY <1>3
  <1>5. DOMAIN s \subseteq DOMAIN a /\ Len(s) + 1 \in DOMAIN a
    BY <1>3
  <1>6. S \subseteq {a[i] : i \in DOMAIN a}
    BY <1>2, <1>3, <1>5
  <1>7. ListOf(a)
    BY <1>2, <1>6, SeqMonotonic DEF ListOf
  <1>8. Len(s) + 1 \notin DOMAIN s /\ DOMAIN a = DOMAIN s \cup {Len(s) + 1}
    BY <1>3
  <1> QED
    BY <1>2, <1>3, <1>4, <1>5, <1>7, <1>8

LEMMA Rest ==
  ASSUME NEW s, ListOf(s), s # <<>>
  PROVE  /\ 1 \in DOMAIN s /\ Head(s) = s[1]
         /\ ListOf(Tail(s))
         /\ \A i \in DOMAIN Tail(s) : i + 1 \in DOMAIN s /\ Tail(s)[i] = s[i + 1]
  <1> DEFINE S == {s[i] : i \in DOMAIN s}
             t == Tail(s)
  <1>1. s \in Seq(S)
    BY DEF ListOf
  <1>2. Len(s) \in Nat \ {0} /\ DOMAIN s = 1..Len(s)
    BY <1>1, EmptySeq, LenProperties
  <1>3. /\ t \in Seq(S) /\ Len(t) = Len(s) - 1
        /\ \A i \in 1..Len(t) : t[i] = s[i + 1]
    BY <1>1, HeadTailProperties
  <1>4. DOMAIN t = 1..Len(t) /\ t \in [1..Len(t) -> S]
    BY <1>3, LenProperties
  <1>5. t \in Seq({t[i] : i \in DOMAIN t})
    <2>1. Len(t) \in Nat /\ t \in [1..Len(t) -> {t[i] : i \in DOMAIN t}]
      <3>1. Len(t) \in Nat
        BY <1>2, <1>3
      <3>2. t = [i \in DOMAIN t |-> t[i]] /\ DOMAIN t = 1..Len(t)
        BY <1>4
      <3> QED
        BY <3>1, <3>2
    <2> QED
      BY <2>1, SeqDef
  <1>6. Head(s) = s[1]
    BY <1>1, <1>2
  <1>7. \A i \in DOMAIN t : i + 1 \in DOMAIN s /\ t[i] = s[i + 1]
    BY <1>2, <1>3, <1>4
  <1>8. 1 \in DOMAIN s
    BY <1>2
  <1> QED
    BY <1>5, <1>6, <1>7, <1>8 DEF ListOf

-----------------------------------------------------------------------------
(* Loading *)

\* What ValidateDirective lets pass, normalised.
Runnable(d) ==
  /\ DirectiveDecoded(d) /\ d.priority \in 1..5 /\ Len(d.rules) > 1
  /\ \A i \in DOMAIN d.rules :
       /\ RuleValid(d.rules[i], Len(d.rules))
       /\ d.rules[i].stage = 1 => d.rules[i].occurrence = 1

\* Normalising changes priority, occurrence and reliability only.
LEMMA RuleNormalised ==
  ASSUME NEW r, RuleDecoded(r), NEW n
  PROVE  /\ RuleDecoded(NormalRule(r))
         /\ RuleValid(r, n) => RuleValid(NormalRule(r), n)
         /\ NormalRule(r).stage = 1 => NormalRule(r).occurrence = 1
  <1> DEFINE q == NormalRule(r)
             kept == Fields \cup {"stage", "type", "plugin", "sids", "products", "category",
                                  "subcategories", "custom", "sticky"}
  <1>1. /\ DOMAIN q = DOMAIN r /\ q = [x \in DOMAIN q |-> q[x]]
        /\ \A x \in kept : q[x] = r[x]
        /\ q.occurrence = IF r.stage = 1 THEN 1 ELSE r.occurrence
    BY DEF RuleDecoded, Record, NormalRule, Fields
  <1>2. RuleDecoded(q)
    BY <1>1 DEF RuleDecoded, Record, Fields
  <1>3. /\ q.stage = r.stage /\ q.type = r.type /\ q.plugin = r.plugin /\ q.sids = r.sids
        /\ q.products = r.products /\ q.category = r.category /\ q.from = r.from /\ q.to = r.to
        /\ q.portFrom = r.portFrom /\ q.portTo = r.portTo
    BY <1>1 DEF Fields
  <1>4. RuleValid(r, n) => RuleValid(q, n)
    BY <1>3 DEF RuleValid
  <1> QED
    BY <1>1, <1>2, <1>3, <1>4

LEMMA ValidRuns ==
  ASSUME NEW d, NEW loaded, DirectiveDecoded(d), DirectiveValid(d, loaded)
  PROVE  Runnable(Normal(d))
  <1> DEFINE q == Normal(d)
             rs == [i \in DOMAIN d.rules |-> NormalRule(d.rules[i])]
  <1>1. /\ DOMAIN q = DOMAIN d /\ q = [x \in DOMAIN q |-> q[x]]
        /\ q.rules = rs /\ q.priority \in 1..5
    <2>1. d = [x \in DOMAIN d |-> d[x]] /\ {"priority", "rules"} \subseteq DOMAIN d
      BY DEF DirectiveDecoded, Record
    <2>2. q = [x \in DOMAIN d |-> IF x = "rules" THEN rs
                                 ELSE IF x = "priority" THEN q.priority ELSE d[x]]
      BY <2>1 DEF Normal
    <2>3. q.priority = IF d.priority \in 1..5 THEN d.priority ELSE 1
      BY <2>1 DEF Normal
    <2> QED
      BY <2>1, <2>2, <2>3
  <1>2. /\ d.rules \in Seq({d.rules[i] : i \in DOMAIN d.rules})
        /\ Len(d.rules) \in Nat /\ DOMAIN d.rules = 1..Len(d.rules)
    BY LenProperties DEF DirectiveDecoded, ListOf
  <1>3. rs \in Seq({rs[i] : i \in DOMAIN rs})
    <2>1. DOMAIN rs = 1..Len(d.rules) /\ rs \in [1..Len(d.rules) -> {rs[i] : i \in DOMAIN rs}]
      BY <1>2
    <2> QED
      BY <1>2, <2>1, SeqDef
  <1>4. Len(rs) = Len(d.rules)
    BY <1>2, <1>3, LenProperties
  <1>5. Len(d.rules) > 1 /\ \A i \in DOMAIN d.rules : RuleValid(d.rules[i], Len(d.rules))
    BY DEF DirectiveValid
  <1>6. \A i \in DOMAIN rs : /\ RuleDecoded(rs[i]) /\ RuleValid(rs[i], Len(rs))
                             /\ rs[i].stage = 1 => rs[i].occurrence = 1
    BY <1>4, <1>5, RuleNormalised DEF DirectiveDecoded
  <1>7. DirectiveDecoded(q)
    <2>1. \A i, j \in DOMAIN rs : DOMAIN rs[i].custom = DOMAIN rs[j].custom
      <3>1. \A i \in DOMAIN rs : rs[i].custom = d.rules[i].custom
        <4>1. \A i \in DOMAIN d.rules : Record(d.rules[i], {"custom"})
          BY DEF DirectiveDecoded, RuleDecoded, Record
        <4> QED
          BY <4>1 DEF NormalRule, Record
      <3>2. DOMAIN rs = DOMAIN d.rules
        OBVIOUS
      <3>3. \A i, j \in DOMAIN d.rules : DOMAIN d.rules[i].custom = DOMAIN d.rules[j].custom
        BY DEF DirectiveDecoded
      <3> HIDE DEF rs
      <3> QED
        BY <3>1, <3>2, <3>3
    <2> QED
      BY <1>1, <1>3, <1>6, <2>1 DEF DirectiveDecoded, Record, ListOf
  <1> QED
    BY <1>1, <1>4, <1>5, <1>6, <1>7 DEF Runnable

\* Of a directive that runs, only an address that is taken for a reference may name a
\* rule it does not have.
LEMMA ReferencesExist ==
  ASSUME NEW d, Runnable(d), NEW i \in DOMAIN d.rules, NEW f \in Fields,
         BeyondRules(d.rules[i][f], Len(d.rules))
  PROVE  f \in {"from", "to"} /\ d.rules[i][f].kind = "list"
  <1> DEFINE r == d.rules[i]
             n == Len(d.rules)
  <1>1. RuleValid(r, n) /\ Numbered(r[f]) /\ r[f].to \in Int /\ r[f].to \notin 1..n
    BY DEF Runnable, DirectiveDecoded, RuleDecoded, BeyondRules
  <1>2. n \in Nat
    BY LenProperties DEF Runnable, DirectiveDecoded, ListOf
  <1>3. ~Open(r[f]) /\ r[f] # ANY /\ r[f] # Unset
    BY <1>1 DEF Open, ANY, Home, NotHome, Unset, Numbered
  <1>4. ~ReferenceValid(r[f], r.stage = 1, n)
    BY <1>1, <1>2 DEF ReferenceValid
  <1>5. f \in {"from", "to"} => FromToValid(r[f], r.stage = 1, n)
    BY <1>1 DEF RuleValid
  <1>6. f \in {"portFrom", "portTo"} => PortValid(r[f], r.stage = 1, n)
    BY <1>1 DEF RuleValid
  <1>7. f \in {"from", "to"} \/ f \in {"portFrom", "portTo"}
    BY DEF Fields
  <1> QED
    BY <1>1, <1>3, <1>4, <1>5, <1>6, <1>7 DEF FromToValid, PortValid

-----------------------------------------------------------------------------
(* References *)

\* The loop of initBackLogRules over the rules: what it leaves in a field satisfies the
\* equation it is defined by, as long as the numbers are those of rules of the directive.
LEMMA Resolved ==
  ASSUME NEW fields, NEW v, NEW N \in Nat, DOMAIN fields = 1..N,
         \A i \in 2..N : Numbered(fields[i]) => fields[i].to \in 1..N
  PROVE  LET r == Resolve(fields, v) IN
         /\ DOMAIN r = 1..N
         /\ \A i \in 1..N :
              IF i = 1 \/ ~Numbered(fields[i]) THEN r[i] = fields[i]
              ELSE LET k == fields[i].to
                       f == IF k < i THEN r[k] ELSE fields[k]
                   IN  r[i] = IF Open(f) THEN Exactly(v) ELSE f
  <1> DEFINE Value(g, i) ==
               IF i = 1 \/ ~Numbered(fields[i]) THEN fields[i]
               ELSE LET k == fields[i].to
                        f == IF k < i THEN g[k] ELSE fields[k]
                    IN  IF Open(f) THEN Exactly(v) ELSE f
             Upto(g, n) == g = [i \in 1..n |-> Value(g, i)]
             S == {n \in Nat : n <= N => \E g : Upto(g, n)}
  <1>1. ASSUME NEW i \in 1..N, NEW g, NEW h, \A k \in 1..(i - 1) : g[k] = h[k]
        PROVE  Value(g, i) = Value(h, i)
    <2>1. CASE i = 1 \/ ~Numbered(fields[i])
      BY <2>1
    <2>2. CASE ~(i = 1 \/ ~Numbered(fields[i]))
      <3>1. fields[i].to \in 1..N
        BY <2>2
      <3>2. fields[i].to < i => fields[i].to \in 1..(i - 1)
        BY <3>1
      <3> QED
        BY <1>1, <2>2, <3>2
    <2> QED
      BY <2>1, <2>2
  <1> HIDE DEF Value
  <1>2. 0 \in S
    <2>1. Upto([i \in 1..0 |-> Value(<<>>, i)], 0)
      OBVIOUS
    <2> QED
      BY <2>1
  <1>3. ASSUME NEW n \in Nat, n \in S PROVE n + 1 \in S
    <2> SUFFICES ASSUME n + 1 <= N PROVE \E g : Upto(g, n + 1)
      OBVIOUS
    <2>1. PICK g : Upto(g, n)
      BY <1>3
    <2> DEFINE h == [i \in 1..(n + 1) |-> Value(g, i)]
    <2>2. \A i \in 1..n : h[i] = g[i]
      <3>1. \A i \in 1..n : g[i] = Value(g, i)
        BY <2>1
      <3> QED
        BY <3>1
    <2>3. \A i \in 1..(n + 1) : h[i] = Value(h, i)
      <3>1. \A i \in 1..(n + 1) : i \in 1..N /\ 1..(i - 1) \subseteq 1..n
        OBVIOUS
      <3>2. \A i \in 1..(n + 1) : \A k \in 1..(i - 1) : g[k] = h[k]
        BY <2>2, <3>1
      <3>3. \A i \in 1..(n + 1) : Value(g, i) = Value(h, i)
        BY <1>1, <3>1, <3>2
      <3> QED
        BY <3>3
    <2>4. h = [i \in 1..(n + 1) |-> Value(h, i)]
      BY <2>3
    <2> QED
      BY <2>4
  <1>4. \E g : Upto(g, N)
    <2> HIDE DEF Upto
    <2>1. N \in S
      BY <1>2, <1>3, Counting
    <2> QED
      BY <2>1
  <1> DEFINE r == CHOOSE g : Upto(g, N)
  <1>5. Upto(r, N)
    BY <1>4
  <1>6. r = Resolve(fields, v)
    BY DEF Resolve, Value
  <1>7. DOMAIN r = 1..N /\ \A i \in 1..N : r[i] = Value(r, i)
    BY <1>5
  <1> HIDE DEF r
  <1> QED
    BY <1>6, <1>7 DEF Value

\* So do the followers of the first rule.
LEMMA FollowersOf ==
  ASSUME NEW rules, NEW f, NEW N \in Nat, DOMAIN rules = 1..N,
         \A i \in 2..N : rules[i][f].kind = "ref" => rules[i][f].to \in 1..N
  PROVE  \A i \in Followers(rules, f) :
           /\ i \in 2..N /\ rules[i][f].kind = "ref"
           /\ LET k == rules[i][f].to
              IN  /\ k \in 1..N
                  /\ k = 1 \/ Open(rules[k][f]) \/ (k < i /\ k \in Followers(rules, f))
  <1> DEFINE Value(g, i) ==
               LET k == rules[i][f].to
               IN  /\ i > 1 /\ rules[i][f].kind = "ref"
                   /\ k = 1 \/ Open(rules[k][f]) \/ (k < i /\ g[k])
             Upto(g, n) == g = [i \in 1..n |-> Value(g, i)]
             S == {n \in Nat : n <= N => \E g : Upto(g, n)}
  <1>1. ASSUME NEW i \in 1..N, NEW g, NEW h, \A k \in 1..(i - 1) : g[k] = h[k]
        PROVE  Value(g, i) = Value(h, i)
    <2>1. CASE i > 1 /\ rules[i][f].kind = "ref" /\ rules[i][f].to < i
      <3>1. rules[i][f].to \in 1..(i - 1)
        <4>1. i \in 2..N
          BY <2>1
        <4>2. rules[i][f].to \in 1..N
          BY <2>1, <4>1
        <4> QED
          BY <2>1, <4>1, <4>2
      <3> QED
        BY <1>1, <2>1, <3>1
    <2>2. CASE ~(i > 1 /\ rules[i][f].kind = "ref" /\ rules[i][f].to < i)
      BY <2>2
    <2> QED
      BY <2>1, <2>2
  <1> HIDE DEF Value
  <1>2. 0 \in S
    <2>1. Upto([i \in 1..0 |-> Value(<<>>, i)], 0)
      OBVIOUS
    <2> QED
      BY <2>1
  <1>3. ASSUME NEW n \in Nat, n \in S PROVE n + 1 \in S
    <2> SUFFICES ASSUME n + 1 <= N PROVE \E g : Upto(g, n + 1)
      OBVIOUS
    <2>1. PICK g : Upto(g, n)
      BY <1>3
    <2> DEFINE h == [i \in 1..(n + 1) |-> Value(g, i)]
    <2>2. \A i \in 1..n : h[i] = g[i]
      <3>1. \A i \in 1..n : g[i] = Value(g, i)
        BY <2>1
      <3> QED
        BY <3>1
    <2>3. \A i \in 1..(n + 1) : h[i] = Value(h, i)
      <3>1. \A i \in 1..(n + 1) : i \in 1..N /\ 1..(i - 1) \subseteq 1..n
        OBVIOUS
      <3>2. \A i \in 1..(n + 1) : \A k \in 1..(i - 1) : g[k] = h[k]
        BY <2>2, <3>1
      <3>3. \A i \in 1..(n + 1) : Value(g, i) = Value(h, i)
        BY <1>1, <3>1, <3>2
      <3> QED
        BY <3>3
    <2>4. h = [i \in 1..(n + 1) |-> Value(h, i)]
      BY <2>3
    <2> QED
      BY <2>4
  <1>4. \E g : Upto(g, N)
    <2> HIDE DEF Upto
    <2>1. N \in S
      BY <1>2, <1>3, Counting
    <2> QED
      BY <2>1
  <1> DEFINE follows == CHOOSE g : Upto(g, N)
  <1>5. Upto(follows, N)
    BY <1>4
  <1>6. Followers(rules, f) = {i \in 1..N : follows[i]}
    BY DEF Followers, Value
  <1>7. \A i \in 1..N : follows[i] = Value(follows, i)
    BY <1>5
  <1> HIDE DEF follows
  <1>8. ASSUME NEW i \in Followers(rules, f)
        PROVE  /\ i \in 2..N /\ rules[i][f].kind = "ref"
               /\ LET k == rules[i][f].to
                  IN  /\ k \in 1..N
                      /\ k = 1 \/ Open(rules[k][f]) \/ (k < i /\ k \in Followers(rules, f))
    <2>1. i \in 1..N /\ Value(follows, i)
      BY <1>6, <1>7
    <2> DEFINE k == rules[i][f].to
    <2>2. /\ i > 1 /\ rules[i][f].kind = "ref"
          /\ k = 1 \/ Open(rules[k][f]) \/ (k < i /\ follows[k])
      BY <2>1 DEF Value
    <2>3. i \in 2..N
      BY <2>1, <2>2
    <2>4. k \in 1..N
      BY <2>2, <2>3
    <2> QED
      BY <1>6, <2>2, <2>3, <2>4
  <1> QED
    BY <1>8

\* What is exactly one value lets this value pass and no other.
LEMMA Exact ==
  ASSUME NEW v, NEW w, NEW h
  PROVE  /\ ~Open(Exactly(v))
         /\ TextMatch(Exactly(v), w) <=> w = v
         /\ AddressMatch(Exactly(v), w, h) <=> w = v /\ w \in Addresses
  <1> DEFINE ts == <<Term(FALSE, {v})>>
  <1>1. /\ DOMAIN ts = {1} /\ ts[1].inverse = FALSE /\ ts[1].set = {v}
    BY DEF Term
  <1> HIDE DEF ts
  <1>2. ListMatch(ts, w) <=> w = v
    <2>1. Hits(ts, w) = IF w = v THEN {1} ELSE {}
      BY <1>1 DEF Hits
    <2> QED
      BY <1>1, <2>1 DEF ListMatch
  <1>3. Exactly(v).kind = "list" /\ Exactly(v).terms = ts
    BY DEF Exactly, List, ts
  <1>4. Exactly(v) # ANY /\ Exactly(v) # Home /\ Exactly(v) # NotHome
    BY <1>3 DEF ANY, Home, NotHome
  <1> QED
    BY <1>2, <1>3, <1>4 DEF Open, TextMatch, AddressMatch

\* The opener passes its own field of the first rule, bound or not.
LEMMA FirstPasses ==
  ASSUME NEW d, NEW e, NEW f \in Fields, DoesEventMatch(e, d.rules[1], home)
  PROVE  LET first == IF f \in {"from", "to"} THEN Bind(d, d.rules[1][f], EventField(e, f))
                      ELSE d.rules[1][f]
         IN  Passes(f, first, EventField(e, f))
  <1> DEFINE v == EventField(e, f)
             own == d.rules[1][f]
  <1>1. f \in {"from", "to"} => AddressMatch(own, v, home)
    BY DEF DoesEventMatch, IpPortMatch, EventField
  <1>2. f \in {"portFrom", "portTo"} => TextMatch(own, v)
    BY DEF DoesEventMatch, IpPortMatch, EventField
  <1>3. f \in {"from", "to"} \/ f \in {"portFrom", "portTo"}
    BY DEF Fields
  <1>4. f \in {"portFrom", "portTo"} => f \notin {"from", "to"}
    OBVIOUS
  <1>5. v \in Addresses => AddressMatch(Exactly(v), v, home)
    BY Exact
  <1> QED
    BY <1>1, <1>2, <1>3, <1>4, <1>5 DEF Passes, Bind

\* The addresses and ports of the rules of a new backlog.
LEMMA FieldsOfNew ==
  ASSUME NEW d, NEW e, Runnable(d), ~OutOfRange(d), NEW f \in Fields
  PROVE  LET rules == InitRules(d, e)
             N == Len(d.rules)
             v == EventField(e, f)
         IN /\ N \in Nat \ {0} /\ DOMAIN rules = 1..N
            /\ rules[1][f] = IF f \in {"from", "to"} THEN Bind(d, d.rules[1][f], v) ELSE d.rules[1][f]
            /\ \A i \in 2..N :
                 IF ~Numbered(d.rules[i][f]) THEN rules[i][f] = d.rules[i][f]
                 ELSE LET k == d.rules[i][f].to
                          g == IF k < i THEN rules[k][f] ELSE d.rules[k][f]
                      IN  /\ k \in 1..N
                          /\ rules[i][f] = IF Open(g) THEN Exactly(v) ELSE g
  <1> DEFINE rules == InitRules(d, e)
             N == Len(d.rules)
             v == EventField(e, f)
             fields == BoundField(d, e, f)
             r == Resolve(fields, v)
  <1>1. N \in Nat \ {0} /\ DOMAIN d.rules = 1..N
    <2>1. ListOf(d.rules) /\ Len(d.rules) > 1
      BY DEF Runnable, DirectiveDecoded
    <2> QED
      BY <2>1, LenProperties DEF ListOf
  <1>2. DOMAIN rules = 1..N
    BY <1>1 DEF InitRules
  <1>3. \A i \in 1..N : rules[i][f] = r[i]
    <2> SUFFICES ASSUME NEW i \in 1..N PROVE rules[i][f] = r[i]
      OBVIOUS
    <2> DEFINE q == d.rules[i]
    <2>1. q = [x \in DOMAIN q |-> q[x]] /\ Fields \subseteq DOMAIN q
      BY <1>1 DEF Runnable, DirectiveDecoded, RuleDecoded, Record
    <2>2. rules[i] = [q EXCEPT
             !.from     = Resolve(BoundField(d, e, "from"), e.src)[i],
             !.to       = Resolve(BoundField(d, e, "to"), e.dst)[i],
             !.portFrom = Resolve(BoundField(d, e, "portFrom"), e.srcPort)[i],
             !.portTo   = Resolve(BoundField(d, e, "portTo"), e.dstPort)[i],
             !.custom   = [k \in DOMAIN @ |-> Resolve(CustomFields(d, k), e.custom[k])[i]]]
      BY <1>1 DEF InitRules
    <2>3. \/ f = "from" /\ v = e.src
          \/ f = "to" /\ v = e.dst
          \/ f = "portFrom" /\ v = e.srcPort
          \/ f = "portTo" /\ v = e.dstPort
      BY DEF Fields, EventField
    <2> HIDE DEF rules
    <2> QED
      BY <2>1, <2>2, <2>3 DEF Fields
  <1>4. /\ DOMAIN fields = 1..N
        /\ fields[1] = IF f \in {"from", "to"} THEN Bind(d, d.rules[1][f], v) ELSE d.rules[1][f]
        /\ \A i \in 2..N : fields[i] = d.rules[i][f]
    BY <1>1 DEF BoundField
  <1>5. \A i \in 2..N : Numbered(d.rules[i][f]) => d.rules[i][f].to \in 1..N
    BY <1>1 DEF OutOfRange, BeyondRules
  <1> HIDE DEF fields, rules, v
  <1>6. \A i \in 1..N :
          IF i = 1 \/ ~Numbered(fields[i]) THEN r[i] = fields[i]
          ELSE LET k == fields[i].to
                   g == IF k < i THEN r[k] ELSE fields[k]
               IN  r[i] = IF Open(g) THEN Exactly(v) ELSE g
    <2>1. N \in Nat /\ DOMAIN fields = 1..N
      BY <1>1, <1>4
    <2>2. \A i \in 2..N : Numbered(fields[i]) => fields[i].to \in 1..N
      BY <1>4, <1>5
    <2> HIDE DEF N
    <2> QED
      BY <2>1, <2>2, Resolved
  <1> HIDE DEF r
  <1>7. ASSUME NEW i \in 2..N, Numbered(d.rules[i][f])
        PROVE  LET k == d.rules[i][f].to
                   g == IF k < i THEN rules[k][f] ELSE d.rules[k][f]
               IN  k \in 1..N /\ rules[i][f] = IF Open(g) THEN Exactly(v) ELSE g
    <2> DEFINE k == d.rules[i][f].to
    <2>1. k \in 1..N
      BY <1>5, <1>7
    <2>2. ~(k < i) => k \in 2..N
      BY <2>1
    <2>3. (k < i => r[k] = rules[k][f]) /\ (~(k < i) => fields[k] = d.rules[k][f])
      BY <1>3, <1>4, <2>1, <2>2
    <2>4. r[i] = LET g == IF k < i THEN r[k] ELSE fields[k]
                 IN  IF Open(g) THEN Exactly(v) ELSE g
      BY <1>4, <1>6, <1>7
    <2> QED
      BY <1>3, <2>1, <2>3, <2>4
  <1>8. rules[1][f] = fields[1]
    BY <1>1, <1>3, <1>6
  <1>9. \A i \in 2..N : ~Numbered(d.rules[i][f]) => rules[i][f] = d.rules[i][f]
    BY <1>3, <1>4, <1>6
  <1> QED
    BY <1>1, <1>2, <1>4, <1>7, <1>8, <1>9 DEF v, rules

\* By induction along the references: what a follower refers to lets the value of
\* the opener pass, or is open, and then the follower is bound to this value.
LEMMA FollowersPass ==
  ASSUME NEW d, NEW e, Runnable(d), ~OutOfRange(d), DoesEventMatch(e, d.rules[1], home),
         NEW f \in Fields
  PROVE  \A i \in Followers(d.rules, f) :
           Passes(f, InitRules(d, e)[i][f], EventField(e, f))
  <1> DEFINE rules == InitRules(d, e)
             N == Len(d.rules)
             v == EventField(e, f)
             follower == Followers(d.rules, f)
             S == {i \in Nat : i \in follower => Passes(f, rules[i][f], v)}
  <1>1. /\ N \in Nat \ {0}
        /\ rules[1][f] = IF f \in {"from", "to"} THEN Bind(d, d.rules[1][f], v) ELSE d.rules[1][f]
        /\ \A i \in 2..N :
             IF ~Numbered(d.rules[i][f]) THEN rules[i][f] = d.rules[i][f]
             ELSE LET k == d.rules[i][f].to
                      g == IF k < i THEN rules[k][f] ELSE d.rules[k][f]
                  IN  /\ k \in 1..N
                      /\ rules[i][f] = IF Open(g) THEN Exactly(v) ELSE g
    BY FieldsOfNew, SMTT(60)
  <1>2. Passes(f, rules[1][f], v)
    <2> HIDE DEF rules
    <2> QED
      BY <1>1, FirstPasses
  <1>3. DOMAIN d.rules = 1..N
    BY LenProperties DEF Runnable, DirectiveDecoded, ListOf
  <1>4. \A i \in 2..N : d.rules[i][f].kind = "ref" => Numbered(d.rules[i][f])
    BY <1>3 DEF Runnable, DirectiveDecoded, RuleDecoded
  <1> HIDE DEF rules, v, N
  <1>5. \A i \in follower :
          /\ i \in 2..N /\ d.rules[i][f].kind = "ref"
          /\ LET k == d.rules[i][f].to
             IN  /\ k \in 1..N
                 /\ k = 1 \/ Open(d.rules[k][f]) \/ (k < i /\ k \in follower)
    <2>1. \A i \in 2..N : d.rules[i][f].kind = "ref" => d.rules[i][f].to \in 1..N
      BY <1>1, <1>4
    <2> QED
      BY <1>1, <1>3, <2>1, FollowersOf
  <1>6. Passes(f, Exactly(v), v)
    BY Exact DEF Passes
  <1>7. \A g : Open(g) => ~Numbered(g)
    BY DEF Open, ANY, Home, NotHome, Numbered
  <1> HIDE DEF follower
  <1>8. ASSUME NEW i \in Nat, \A k \in 0..(i - 1) : k \in S PROVE i \in S
    <2> SUFFICES ASSUME i \in follower PROVE Passes(f, rules[i][f], v)
      OBVIOUS
    <2> DEFINE k == d.rules[i][f].to
    <2>1. /\ i \in 2..N /\ k \in 1..N
          /\ k = 1 \/ Open(d.rules[k][f]) \/ (k < i /\ k \in follower)
          /\ Numbered(d.rules[i][f])
      BY <1>5, <1>4
    <2>2. k = 1 \/ k \in 2..N
      BY <1>1, <2>1
    <2> DEFINE g == IF k < i THEN rules[k][f] ELSE d.rules[k][f]
    <2>3. rules[i][f] = IF Open(g) THEN Exactly(v) ELSE g
      BY <1>1, <2>1
    <2>4. CASE Open(g)
      BY <1>6, <2>3, <2>4
    <2>5. CASE ~Open(g)
      <3>1. k < i
        BY <2>1, <2>5
      <3>2. k # 1 => ~Open(d.rules[k][f])
        BY <1>1, <1>7, <2>2, <2>5, <3>1
      <3>3. k = 1 \/ k \in follower
        BY <2>1, <3>2
      <3>4. k \in 0..(i - 1)
        BY <2>1, <3>1
      <3>5. Passes(f, rules[k][f], v)
        BY <1>2, <1>8, <3>3, <3>4
      <3> QED
        BY <2>3, <2>5, <3>1, <3>5
    <2> QED
      BY <2>4, <2>5
  <1>9. Nat \subseteq S
    <2> HIDE DEF S
    <2> QED
      BY <1>8, Induction
  <1>10. \A i \in follower : i \in Nat
    BY <1>5
  <1> QED
    BY <1>9, <1>10 DEF follower, rules, v

\* The opener matches the first rule as rewritten.
LEMMA OpenerMatches ==
  ASSUME NEW d, NEW e, Runnable(d), ~OutOfRange(d), DoesEventMatch(e, d.rules[1], home),
         {e.src, e.dst} \subseteq Addresses
  PROVE  DoesEventMatch(e, InitRules(d, e)[1], home)
  <1> DEFINE q == d.rules[1]
             r == InitRules(d, e)[1]
             N == Len(d.rules)
  <1>1. N \in Nat \ {0} /\ DOMAIN d.rules = 1..N /\ 1 \in DOMAIN d.rules
    <2>1. ListOf(d.rules) /\ Len(d.rules) > 1
      BY DEF Runnable, DirectiveDecoded
    <2>2. N \in Nat /\ DOMAIN d.rules = 1..N
      BY <2>1, LenProperties DEF ListOf
    <2> QED
      BY <2>1, <2>2
  <1>2. /\ q = [x \in DOMAIN q |-> q[x]]
        /\ {"type", "plugin", "sids", "products", "category", "subcategories", "custom"} \subseteq DOMAIN q
    BY <1>1 DEF Runnable, DirectiveDecoded, RuleDecoded, Record
  <1>3. r = [q EXCEPT
           !.from     = Resolve(BoundField(d, e, "from"), e.src)[1],
           !.to       = Resolve(BoundField(d, e, "to"), e.dst)[1],
           !.portFrom = Resolve(BoundField(d, e, "portFrom"), e.srcPort)[1],
           !.portTo   = Resolve(BoundField(d, e, "portTo"), e.dstPort)[1],
           !.custom   = [k \in DOMAIN @ |-> Resolve(CustomFields(d, k), e.custom[k])[1]]]
    BY <1>1 DEF InitRules
  <1> HIDE DEF r
  <1>4. /\ r.type = q.type /\ r.plugin = q.plugin /\ r.sids = q.sids /\ r.products = q.products
        /\ r.category = q.category /\ r.subcategories = q.subcategories
        /\ r.custom = [k \in DOMAIN q.custom |-> Resolve(CustomFields(d, k), e.custom[k])[1]]
    BY <1>2, <1>3
  <1>5. KeyMatch(e, r)
    <2>1. KeyMatch(e, q)
      BY DEF DoesEventMatch
    <2> QED
      BY <1>4, <2>1 DEF KeyMatch, SidMatch, TaxonomyMatch, ProductMatch
  <1>6. \A f \in Fields : Passes(f, r[f], EventField(e, f))
    <2> SUFFICES ASSUME NEW f \in Fields PROVE Passes(f, r[f], EventField(e, f))
      OBVIOUS
    <2>1. r[f] = IF f \in {"from", "to"} THEN Bind(d, q[f], EventField(e, f)) ELSE q[f]
      BY FieldsOfNew DEF r
    <2> QED
      BY <2>1, FirstPasses
  <1>7. IpPortMatch(e, r, home)
    <2>1. /\ Passes("from", r.from, e.src) /\ Passes("to", r.to, e.dst)
          /\ Passes("portFrom", r.portFrom, e.srcPort) /\ Passes("portTo", r.portTo, e.dstPort)
      <3>1. {"from", "to", "portFrom", "portTo"} \subseteq Fields
        BY DEF Fields
      <3> QED
        BY <1>6, <3>1 DEF EventField
    <2> QED
      BY <2>1 DEF Passes, IpPortMatch
  <1>8. ASSUME NEW k \in DOMAIN q.custom
        PROVE  Resolve(CustomFields(d, k), e.custom[k])[1] = q.custom[k]
    <2> DEFINE fields == CustomFields(d, k)
    <2>1. DOMAIN fields = 1..N /\ \A i \in 1..N : fields[i] = d.rules[i].custom[k]
      BY <1>1 DEF CustomFields
    <2>2. \A i \in 2..N : k \in DOMAIN d.rules[i].custom
      BY <1>1 DEF Runnable, DirectiveDecoded
    <2>3. \A i \in 2..N : Numbered(fields[i]) => fields[i].to \in 1..N
      BY <1>1, <2>1, <2>2 DEF OutOfRange, BeyondRules
    <2> HIDE DEF fields
    <2>4. Resolve(fields, e.custom[k])[1] = fields[1]
      BY <1>1, <2>1, <2>3, Resolved
    <2> QED
      BY <1>1, <2>1, <2>4 DEF fields
  <1>9. r.type = "PluginRule" => CustomMatch(e, r)
    <2>1. q.type = "PluginRule" => CustomMatch(e, q)
      BY DEF DoesEventMatch
    <2> QED
      BY <1>4, <1>8, <2>1 DEF CustomMatch
  <1> QED
    BY <1>5, <1>7, <1>9 DEF DoesEventMatch, r

\* A reference to an open first rule holds later events to the opener's source.
LEMMA SourceHeld ==
  ASSUME NEW d, NEW e, Runnable(d), ~OutOfRange(d), NEW i \in DOMAIN d.rules \ {1},
         d.rules[i].from = Ref(1), Open(d.rules[1].from), NEW a \in Addresses \ {e.src}
  PROVE  ~AddressMatch(InitRules(d, e)[i].from, a, home)
  <1> DEFINE rules == InitRules(d, e)
             N == Len(d.rules)
  <1>1. DOMAIN d.rules = 1..N /\ N \in Nat
    BY LenProperties DEF Runnable, DirectiveDecoded, ListOf
  <1>2. "from" \in Fields /\ EventField(e, "from") = e.src
    BY DEF Fields, EventField
  <1>3. i \in 2..N /\ 1 < i
    BY <1>1
  <1>4. Numbered(d.rules[i]["from"]) /\ d.rules[i]["from"].to = 1
    BY DEF Ref, Numbered
  <1>5. /\ rules[1].from = Bind(d, d.rules[1].from, e.src)
        /\ rules[i].from = IF Open(rules[1].from) THEN Exactly(e.src) ELSE rules[1].from
    <2> HIDE DEF rules, N
    <2>1. /\ rules[1]["from"] = Bind(d, d.rules[1]["from"], e.src)
          /\ \A j \in 2..N :
               IF ~Numbered(d.rules[j]["from"]) THEN TRUE
               ELSE LET k == d.rules[j]["from"].to
                        g == IF k < j THEN rules[k]["from"] ELSE d.rules[k]["from"]
                    IN  rules[j]["from"] = IF Open(g) THEN Exactly(e.src) ELSE g
      BY <1>2, FieldsOfNew DEF rules, N
    <2> QED
      BY <1>3, <1>4, <2>1
  <1>6. rules[i].from = Exactly(e.src)
    BY <1>5 DEF Bind
  <1> QED
    BY <1>6, Exact

-----------------------------------------------------------------------------
(* Files *)

\* LoadDirectivesFromFile reads the file directive by directive: the result for a longer
\* prefix is the one before, with the next directive appended if it is taken.
LEMMA LoadingOne ==
  ASSUME NEW ds, NEW all, Len(ds) \in Nat
  PROVE  LET g == LoadedUpTo(ds, all)
         IN  /\ g[0] = <<>>
             /\ \A n \in 1..Len(ds) :
                  g[n] = IF Taken(ds[n], g[n - 1], all) THEN Append(g[n - 1], Normal(ds[n]))
                         ELSE g[n - 1]
  <1> DEFINE N == Len(ds)
             Value(g, n) == LET before == g[n - 1]
                            IN  IF n = 0 THEN <<>>
                                ELSE IF Taken(ds[n], before, all)
                                     THEN Append(before, Normal(ds[n])) ELSE before
             Upto(g, n) == g = [i \in 0..n |-> Value(g, i)]
             S == {n \in Nat : \E g : Upto(g, n)}
  <1>1. ASSUME NEW i \in Nat, NEW g, NEW h, i # 0 => g[i - 1] = h[i - 1]
        PROVE  Value(g, i) = Value(h, i)
    BY <1>1
  <1>2. \A g : Value(g, 0) = <<>>
    OBVIOUS
  <1>3. \A g : \A n \in 1..N :
          Value(g, n) = IF Taken(ds[n], g[n - 1], all) THEN Append(g[n - 1], Normal(ds[n]))
                        ELSE g[n - 1]
    OBVIOUS
  <1>4. \A h : (h = CHOOSE g : Upto(g, N)) => h = LoadedUpTo(ds, all)
    BY DEF LoadedUpTo
  <1> HIDE DEF Value
  <1>5. 0 \in S
    <2> DEFINE g == [i \in 0..0 |-> <<>>]
    <2>1. \A i \in 0..0 : i = 0
      OBVIOUS
    <2>2. Upto(g, 0)
      BY <1>2, <2>1
    <2> QED
      BY <2>2
  <1>6. ASSUME NEW n \in Nat, n \in S PROVE n + 1 \in S
    <2>1. PICK g : Upto(g, n)
      BY <1>6
    <2> DEFINE h == [i \in 0..(n + 1) |-> Value(g, i)]
    <2>2. \A i \in 0..n : h[i] = g[i]
      <3>1. \A i \in 0..n : g[i] = Value(g, i)
        BY <2>1
      <3> QED
        BY <3>1
    <2>3. \A i \in 0..(n + 1) : h[i] = Value(h, i)
      <3>1. \A i \in 0..(n + 1) : i \in Nat /\ (i # 0 => i - 1 \in 0..n)
        OBVIOUS
      <3>2. \A i \in 0..(n + 1) : Value(g, i) = Value(h, i)
        BY <1>1, <2>2, <3>1
      <3> QED
        BY <3>2
    <2>4. Upto(h, n + 1)
      BY <2>3
    <2> HIDE DEF Upto
    <2> QED
      BY <2>4
  <1>7. \E g : Upto(g, N)
    <2> HIDE DEF Upto
    <2>1. N \in S
      BY <1>5, <1>6, Counting
    <2> QED
      BY <2>1
  <1> DEFINE loaded == CHOOSE g : Upto(g, N)
  <1>8. \A i \in 0..N : loaded[i] = Value(loaded, i)
    BY <1>7
  <1>9. loaded = LoadedUpTo(ds, all)
    BY <1>4
  <1> HIDE DEF loaded
  <1>10. 0 \in 0..N /\ \A n \in 1..N : n \in 0..N
    OBVIOUS
  <1>11. loaded[0] = <<>>
    BY <1>2, <1>8, <1>10
  <1>12. \A n \in 1..N :
           loaded[n] = IF Taken(ds[n], loaded[n - 1], all) THEN Append(loaded[n - 1], Normal(ds[n]))
                       ELSE loaded[n - 1]
    BY <1>3, <1>8, <1>10
  <1> QED
    BY <1>9, <1>11, <1>12

-----------------------------------------------------------------------------
(* Tables *)

\* A table of dpluger: a title for each of some positive numbers.
Table(refs) == Record(refs, {}) /\ IsFiniteSet(DOMAIN refs) /\ DOMAIN refs \subseteq Nat \ {0}

\* The search for a number that is not taken finds one.
LEMMA NextFreeFound ==
  ASSUME NEW taken, IsFiniteSet(taken), NEW n \in Nat
  PROVE  NextFree(taken, n) \in Nat /\ NextFree(taken, n) >= n /\ NextFree(taken, n) \notin taken
  <1> DEFINE c == Cardinality(taken)
             T == {k \in n..(n + c) : k \notin taken}
             Free(k) == k \notin taken /\ \A j \in n..(k - 1) : j \in taken
  <1>1. c \in Nat
    BY FS_CardinalityType
  <1>2. T # {}
    <2> SUFFICES ASSUME n..(n + c) \subseteq taken PROVE FALSE
      OBVIOUS
    <2>1. Cardinality(n..(n + c)) = c + 1
      BY <1>1, FS_Interval
    <2>2. Cardinality(n..(n + c)) <= c
      BY FS_Subset
    <2> QED
      BY <1>1, <2>1, <2>2
  <1>3. T \subseteq Nat
    BY <1>1
  <1>4. PICK k \in T : \A m \in T : k <= m
    BY <1>2, <1>3, Least
  <1>5. \A j \in n..(k - 1) : j \in taken
    <2>1. \A j \in n..(k - 1) : j \in n..(n + c) /\ ~(k <= j)
      BY <1>1, <1>3
    <2> QED
      BY <1>4, <2>1
  <1>6. \E m \in n..(n + c) : Free(m)
    BY <1>5
  <1>7. NextFree(taken, n) = CHOOSE m \in n..(n + c) : Free(m)
    BY DEF NextFree
  <1> HIDE DEF Free
  <1>8. NextFree(taken, n) \in n..(n + c) /\ Free(NextFree(taken, n))
    BY <1>6, <1>7
  <1> QED
    BY <1>1, <1>8 DEF Free

\* The new table has what the old one had, and new numbers only for new titles.
Grown(new, old, titles) ==
  /\ DOMAIN old \subseteq DOMAIN new /\ \A s \in DOMAIN old : new[s] = old[s]
  /\ \A s \in DOMAIN new \ DOMAIN old : new[s] \in titles /\ \A r \in DOMAIN old : old[r] # new[s]

Collecting(st) == st = [refs |-> st.refs, sid |-> st.sid] /\ Table(st.refs) /\ st.sid \in Nat \ {0}

LEMMA Upserted ==
  ASSUME NEW st, Collecting(st), NEW title
  PROVE  Collecting(Upsert(st, title)) /\ Grown(Upsert(st, title).refs, st.refs, {title})
  <1> DEFINE refs == st.refs
             u == Upsert(st, title)
             free == NextFree(DOMAIN refs, st.sid)
             more == AddPlugin(refs, free, title)
  <1>1. /\ Table(refs) /\ st.sid \in Nat \ {0} /\ st = [refs |-> refs, sid |-> st.sid]
        /\ IsFiniteSet(DOMAIN refs) /\ DOMAIN refs \subseteq Nat \ {0}
    BY DEF Collecting, Table
  <1>2. CASE HasTitle(refs, title)
    <2>1. u = [st EXCEPT !.sid = IF st.sid \in DOMAIN refs /\ refs[st.sid] = title
                                THEN st.sid + 1 ELSE st.sid]
      BY <1>2 DEF Upsert
    <2>2. u.refs = refs /\ u.sid \in Nat \ {0} /\ u = [refs |-> u.refs, sid |-> u.sid]
      BY <1>1, <2>1
    <2> HIDE DEF u, refs
    <2>3. Collecting(u) /\ Grown(u.refs, refs, {title})
      BY <1>1, <2>2 DEF Collecting, Grown
    <2> QED
      BY <2>3 DEF u, refs
  <1>3. CASE ~HasTitle(refs, title)
    <2>1. free \in Nat \ {0} /\ free \notin DOMAIN refs
      <3>1. st.sid \in Nat /\ st.sid >= 1
        BY <1>1
      <3>2. free \in Nat /\ free \notin DOMAIN refs /\ free >= st.sid
        BY <1>1, <3>1, NextFreeFound
      <3> HIDE DEF free, refs
      <3> QED
        BY <3>1, <3>2
    <2>2. u = [refs |-> more, sid |-> free + 1]
      BY <1>3 DEF Upsert
    <2> HIDE DEF u, free, refs
    <2>3. /\ DOMAIN more = DOMAIN refs \cup {free}
          /\ more = [s \in DOMAIN more |-> more[s]]
          /\ more[free] = title /\ \A s \in DOMAIN refs : more[s] = refs[s]
      BY <2>1 DEF AddPlugin
    <2>4. IsFiniteSet(DOMAIN more) /\ DOMAIN more \subseteq Nat \ {0}
      BY <1>1, <2>1, <2>3, FS_AddElement
    <2>5. \A r \in DOMAIN refs : refs[r] # title
      BY <1>1, <1>3 DEF HasTitle
    <2>6. Grown(more, refs, {title})
      BY <2>3, <2>5 DEF Grown
    <2>7. free + 1 \in Nat \ {0}
      BY <2>1
    <2> HIDE DEF more
    <2>8. u.refs = more /\ u.sid = free + 1
      BY <2>2
    <2>9. Table(more)
      BY <2>3, <2>4 DEF Table, Record
    <2> QED
      BY <2>2, <2>6, <2>7, <2>8, <2>9 DEF Collecting, refs, u
  <1> QED
    BY <1>2, <1>3

\* The titles are collected one by one.
LEMMA CollectedOne ==
  ASSUME NEW refs, NEW titles, Len(titles) \in Nat
  PROVE  LET g == CollectedUpTo(refs, titles)
         IN  /\ g[0] = [refs |-> refs, sid |-> 1]
             /\ \A n \in 1..Len(titles) : g[n] = Upsert(g[n - 1], titles[n])
  <1> DEFINE N == Len(titles)
             Value(g, n) == IF n = 0 THEN [refs |-> refs, sid |-> 1] ELSE Upsert(g[n - 1], titles[n])
             Upto(g, n) == g = [i \in 0..n |-> Value(g, i)]
             S == {n \in Nat : \E g : Upto(g, n)}
  <1>1. ASSUME NEW i \in Nat, NEW g, NEW h, i # 0 => g[i - 1] = h[i - 1]
        PROVE  Value(g, i) = Value(h, i)
    BY <1>1
  <1>2. \A g : Value(g, 0) = [refs |-> refs, sid |-> 1]
    OBVIOUS
  <1>3. \A g : \A n \in 1..N : Value(g, n) = Upsert(g[n - 1], titles[n])
    OBVIOUS
  <1>4. \A h : (h = CHOOSE g : Upto(g, N)) => h = CollectedUpTo(refs, titles)
    BY DEF CollectedUpTo
  <1> HIDE DEF Value
  <1>5. 0 \in S
    <2> DEFINE g == [i \in 0..0 |-> [refs |-> refs, sid |-> 1]]
    <2>1. \A i \in 0..0 : i = 0
      OBVIOUS
    <2>2. Upto(g, 0)
      BY <1>2, <2>1
    <2> QED
      BY <2>2
  <1>6. ASSUME NEW n \in Nat, n \in S PROVE n + 1 \in S
    <2>1. PICK g : Upto(g, n)
      BY <1>6
    <2> DEFINE h == [i \in 0..(n + 1) |-> Value(g, i)]
    <2>2. \A i \in 0..n : h[i] = g[i]
      <3>1. \A i \in 0..n : g[i] = Value(g, i)
        BY <2>1
      <3> QED
        BY <3>1
    <2>3. \A i \in 0..(n + 1) : h[i] = Value(h, i)
      <3>1. \A i \in 0..(n + 1) : i \in Nat /\ (i # 0 => i - 1 \in 0..n)
        OBVIOUS
      <3>2. \A i \in 0..(n + 1) : Value(g, i) = Value(h, i)
        BY <1>1, <2>2, <3>1
      <3> QED
        BY <3>2
    <2>4. Upto(h, n + 1)
      BY <2>3
    <2> HIDE DEF Upto
    <2> QED
      BY <2>4
  <1>7. \E g : Upto(g, N)
    <2> HIDE DEF Upto
    <2>1. N \in S
      BY <1>5, <1>6, Counting
    <2> QED
      BY <2>1
  <1> DEFINE f == CHOOSE g : Upto(g, N)
  <1>8. \A i \in 0..N : f[i] = Value(f, i)
    BY <1>7
  <1>9. f = CollectedUpTo(refs, titles)
    BY <1>4
  <1> HIDE DEF f
  <1>10. 0 \in 0..N /\ \A n \in 1..N : n \in 0..N
    OBVIOUS
  <1>11. f[0] = [refs |-> refs, sid |-> 1]
    BY <1>2, <1>8, <1>10
  <1>12. \A n \in 1..N : f[n] = Upsert(f[n - 1], titles[n])
    BY <1>3, <1>8, <1>10
  <1> QED
    BY <1>9, <1>11, <1>12

\* A permutation of a finite set is a list of all its elements.
LEMMA Permuted ==
  ASSUME NEW T, IsFiniteSet(T), NEW s \in SetToSeqs(T)
  PROVE  ListOf(s) /\ Len(s) \in Nat /\ DOMAIN s = 1..Len(s) /\ {s[i] : i \in DOMAIN s} = T
  <1> DEFINE D == 1..Cardinality(T)
  <1>1. Cardinality(T) \in Nat
    BY FS_CardinalityType
  <1>2. s \in [D -> T] /\ \A i, j \in D : i # j => s[i] # s[j]
    BY DEF SetToSeqs
  <1>3. s \in Injection(D, T)
    BY <1>2 DEF Injection, IsInjective
  <1>4. IsFiniteSet(D) /\ Cardinality(D) = Cardinality(T)
    BY <1>1, FS_Interval
  <1>5. s \in Surjection(D, T)
    <2> HIDE DEF D
    <2> QED
      BY <1>3, <1>4, FS_Injection
  <1>6. {s[i] : i \in DOMAIN s} = T
    BY <1>2, <1>5 DEF Surjection
  <1>7. s \in Seq(T)
    BY <1>1, <1>2, SeqDef
  <1>8. ListOf(s)
    BY <1>6, <1>7 DEF ListOf
  <1> QED
    BY <1>6, <1>7, <1>8, LenProperties

\* Collecting titles keeps every number the table has, and gives new ones only to titles
\* it does not have.
LEMMA Collected ==
  ASSUME NEW refs, Table(refs), NEW titles, ListOf(titles)
  PROVE  /\ Table(Collect(refs, titles))
         /\ Grown(Collect(refs, titles), refs, {titles[i] : i \in DOMAIN titles})
  <1> DEFINE N == Len(titles)
             T == {titles[i] : i \in DOMAIN titles}
             g == CollectedUpTo(refs, titles)
             S == {n \in Nat : n <= N => Collecting(g[n]) /\ Grown(g[n].refs, refs, T)}
  <1>1. N \in Nat /\ DOMAIN titles = 1..N
    BY LenProperties DEF ListOf
  <1>2. /\ g[0] = [refs |-> refs, sid |-> 1]
        /\ \A n \in 1..N : g[n] = Upsert(g[n - 1], titles[n])
    BY <1>1, CollectedOne
  <1>3. Collect(refs, titles) = g[N].refs
    BY DEF Collect
  <1> HIDE DEF g
  <1>4. 0 \in S
    BY <1>2 DEF Collecting, Grown
  <1>5. ASSUME NEW n \in Nat, n \in S PROVE n + 1 \in S
    <2> SUFFICES ASSUME n + 1 <= N
                 PROVE  Collecting(g[n + 1]) /\ Grown(g[n + 1].refs, refs, T)
      OBVIOUS
    <2>1. n + 1 \in 1..N /\ (n + 1) - 1 = n
      BY <1>1
    <2> DEFINE title == titles[n + 1]
               new == g[n + 1].refs
               mid == g[n].refs
    <2>2. g[n + 1] = Upsert(g[n], title) /\ title \in T
      BY <1>1, <1>2, <2>1
    <2>3. Collecting(g[n]) /\ Grown(mid, refs, T)
      BY <1>1, <1>5
    <2>4. Collecting(g[n + 1]) /\ Grown(new, mid, {title})
      BY <2>2, <2>3, Upserted
    <2> HIDE DEF title, new, mid, T
    <2>5. Grown(new, refs, T)
      <3>1. /\ DOMAIN refs \subseteq DOMAIN mid /\ \A s \in DOMAIN refs : mid[s] = refs[s]
            /\ \A s \in DOMAIN mid \ DOMAIN refs : mid[s] \in T /\ \A r \in DOMAIN refs : refs[r] # mid[s]
        BY <2>3 DEF Grown
      <3>2. /\ DOMAIN mid \subseteq DOMAIN new /\ \A s \in DOMAIN mid : new[s] = mid[s]
            /\ \A s \in DOMAIN new \ DOMAIN mid :
                 new[s] = title /\ \A r \in DOMAIN mid : mid[r] # new[s]
        BY <2>4 DEF Grown
      <3>3. \A s \in DOMAIN new \ DOMAIN refs :
              new[s] \in T /\ \A r \in DOMAIN refs : refs[r] # new[s]
        BY <2>2, <3>1, <3>2
      <3> QED
        BY <3>1, <3>2, <3>3 DEF Grown
    <2> QED
      BY <2>4, <2>5 DEF new
  <1>6. N \in S
    BY <1>1, <1>4, <1>5, Counting
  <1> QED
    BY <1>1, <1>3, <1>6 DEF Collecting

\* What is left of a table is a table, of some of its titles.
LEMMA Remaining ==
  ASSUME NEW refs, Table(refs), NEW left \in {refs} \cup Remains(refs)
  PROVE  /\ Table(left) /\ DOMAIN left \subseteq DOMAIN refs
         /\ \A s \in DOMAIN left : left[s] = refs[s]
  <1>1. IsFiniteSet(DOMAIN refs) /\ DOMAIN refs \subseteq Nat \ {0}
    BY DEF Table
  <1>2. CASE left = refs
    BY <1>2
  <1>3. CASE left \in Remains(refs)
    <2>1. PICK n \in DOMAIN refs : left = [s \in {r \in DOMAIN refs : r < n} |-> refs[s]]
      BY <1>3 DEF Remains
    <2>2. /\ DOMAIN left \subseteq DOMAIN refs /\ left = [s \in DOMAIN left |-> left[s]]
          /\ \A s \in DOMAIN left : left[s] = refs[s]
      BY <2>1
    <2>3. IsFiniteSet(DOMAIN left)
      BY <1>1, <2>2, FS_Subset
    <2> QED
      BY <1>1, <2>2, <2>3 DEF Table, Record
  <1> QED
    BY <1>2, <1>3

\* The filter has an ID of the table for each title.
LEMMA DictionaryOf ==
  ASSUME NEW refs, Table(refs)
  PROVE  \A t \in DOMAIN Dictionary(refs) :
           Dictionary(refs)[t] \in DOMAIN refs /\ refs[Dictionary(refs)[t]] = t
  <1> SUFFICES ASSUME NEW t \in DOMAIN Dictionary(refs)
               PROVE  Dictionary(refs)[t] \in DOMAIN refs /\ refs[Dictionary(refs)[t]] = t
    OBVIOUS
  <1> DEFINE T == {s \in DOMAIN refs : refs[s] = t}
             Latest(s) == refs[s] = t /\ \A r \in DOMAIN refs : refs[r] = t => r <= s
  <1>1. \E s \in DOMAIN refs : refs[s] = t
    BY DEF Dictionary
  <1>2. Dictionary(refs)[t] = CHOOSE s \in DOMAIN refs : Latest(s)
    BY DEF Dictionary
  <1>3. T \subseteq Nat /\ T # {} /\ IsFiniteSet(T)
    BY <1>1, FS_Subset DEF Table
  <1>4. \E s \in DOMAIN refs : Latest(s)
    <2>1. PICK s \in T : \A m \in T : m <= s
      BY <1>3, Greatest
    <2> QED
      BY <2>1
  <1> QED
    BY <1>2, <1>4

-----------------------------------------------------------------------------
(* Files of directives *)

\* A directive that is loaded if no other one has its ID.
Sound(d) == DirectiveDecoded(d) /\ DirectiveValid(d, <<>>)

LEMMA ValidAlone ==
  ASSUME NEW d, NEW loaded
  PROVE  DirectiveValid(d, loaded) <=>
           DirectiveValid(d, <<>>) /\ \A i \in DOMAIN loaded : loaded[i].id # d.id
  <1>1. DOMAIN <<>> = {}
    OBVIOUS
  <1> DEFINE P == /\ d.name # "" /\ d.filed /\ Len(d.rules) > 1
                  /\ \A i, j \in DOMAIN d.rules : d.rules[i].stage = d.rules[j].stage => i = j
                  /\ \A i \in DOMAIN d.rules : RuleValid(d.rules[i], Len(d.rules))
  <1>2. DirectiveValid(d, loaded) <=> (\A i \in DOMAIN loaded : loaded[i].id # d.id) /\ P
    BY DEF DirectiveValid
  <1>3. DirectiveValid(d, <<>>) <=> (\A i \in DOMAIN <<>> : <<>>[i].id # d.id) /\ P
    BY DEF DirectiveValid
  <1> HIDE DEF P
  <1> QED
    BY <1>1, <1>2, <1>3

LEMMA NormalKeeps ==
  ASSUME NEW d, DirectiveDecoded(d)
  PROVE  LET q == Normal(d) IN
         /\ q.id = d.id /\ q.name = d.name /\ q.filed = d.filed
         /\ DOMAIN q.rules = DOMAIN d.rules
         /\ \A i \in DOMAIN d.rules : q.rules[i].stage = d.rules[i].stage
                                      /\ q.rules[i].sids = d.rules[i].sids
  <1> DEFINE q == Normal(d)
             rs == [i \in DOMAIN d.rules |-> NormalRule(d.rules[i])]
  <1>1. d = [x \in DOMAIN d |-> d[x]] /\ {"id", "name", "filed", "priority", "rules"} \subseteq DOMAIN d
    BY DEF DirectiveDecoded, Record
  <1>2. q.id = d.id /\ q.name = d.name /\ q.filed = d.filed /\ q.rules = rs
    BY <1>1 DEF Normal
  <1>3. \A i \in DOMAIN d.rules : Record(d.rules[i], {"stage", "sids", "occurrence", "reliability"})
    BY DEF DirectiveDecoded, RuleDecoded, Record
  <1>4. \A i \in DOMAIN d.rules : rs[i].stage = d.rules[i].stage /\ rs[i].sids = d.rules[i].sids
    BY <1>3 DEF NormalRule, Record
  <1> QED
    BY <1>2, <1>4

LEMMA NormalSound ==
  ASSUME NEW d, Sound(d)
  PROVE  Sound(Normal(d))
  <1> DEFINE q == Normal(d)
  <1>1. Runnable(q)
    BY ValidRuns DEF Sound
  <1>2. /\ q.id = d.id /\ q.name = d.name /\ q.filed = d.filed
        /\ DOMAIN q.rules = DOMAIN d.rules
        /\ \A i \in DOMAIN d.rules : q.rules[i].stage = d.rules[i].stage
    BY NormalKeeps DEF Sound
  <1> HIDE DEF q
  <1>3. /\ d.name # "" /\ d.filed
        /\ \A i, j \in DOMAIN d.rules : d.rules[i].stage = d.rules[j].stage => i = j
    BY DEF Sound, DirectiveValid
  <1>4. DirectiveValid(q, <<>>)
    <2>1. \A i \in DOMAIN <<>> : <<>>[i].id # q.id
      OBVIOUS
    <2>2. Len(q.rules) > 1 /\ \A i \in DOMAIN q.rules : RuleValid(q.rules[i], Len(q.rules))
      BY <1>1 DEF Runnable
    <2>3. \A i, j \in DOMAIN q.rules : q.rules[i].stage = q.rules[j].stage => i = j
      BY <1>2, <1>3
    <2> QED
      BY <1>2, <1>3, <2>1, <2>2, <2>3 DEF DirectiveValid
  <1> QED
    BY <1>1, <1>4 DEF Sound, Runnable, q

Distinct(ds) == \A i, j \in DOMAIN ds : ds[i].name = ds[j].name => i = j

\* What is loaded of a file: of each ID that some valid directive has, a valid one.
LEMMA LoadedFile ==
  ASSUME NEW ds, Decoded(ds)
  PROVE  LET l == Load(ds, TRUE) IN
         /\ ListOf(l)
         /\ \A i \in DOMAIN l : \E j \in DOMAIN ds : Sound(ds[j]) /\ l[i] = Normal(ds[j])
         /\ \A j \in DOMAIN ds : Sound(ds[j]) => ds[j].id \in Ids(l)
         /\ Distinct(ds) => Distinct(l)
  <1> DEFINE g == LoadedUpTo(ds, TRUE)
             N == Len(ds)
             From(n) == \A i \in DOMAIN g[n] : \E j \in 1..n : Sound(ds[j]) /\ g[n][i] = Normal(ds[j])
             Whole(n) == \A j \in 1..n : Sound(ds[j]) => ds[j].id \in Ids(g[n])
             S == {n \in Nat : n <= N => /\ ListOf(g[n]) /\ From(n) /\ Whole(n)
                                         /\ Distinct(ds) => Distinct(g[n])}
  <1>1. N \in Nat /\ DOMAIN ds = 1..N
    BY LenProperties DEF Decoded, ListOf
  <1>2. /\ g[0] = <<>>
        /\ \A n \in 1..N : g[n] = IF Taken(ds[n], g[n - 1], TRUE) THEN Append(g[n - 1], Normal(ds[n]))
                                  ELSE g[n - 1]
    BY <1>1, LoadingOne
  <1>3. Load(ds, TRUE) = g[N]
    BY DEF Load
  <1>4. \A i \in 1..N : DirectiveDecoded(ds[i])
    BY <1>1 DEF Decoded
  <1> HIDE DEF g, N
  <1>5. 0 \in S
    <2>1. ListOf(g[0])
      BY <1>2, EmptySeq DEF ListOf
    <2>2. DOMAIN g[0] = {}
      BY <1>2
    <2> QED
      BY <2>1, <2>2 DEF Distinct
  <1>6. ASSUME NEW n \in Nat, n \in S PROVE n + 1 \in S
    <2> SUFFICES ASSUME n + 1 <= N
                 PROVE  /\ ListOf(g[n + 1]) /\ From(n + 1) /\ Whole(n + 1)
                        /\ Distinct(ds) => Distinct(g[n + 1])
      OBVIOUS
    <2> DEFINE d == ds[n + 1]
    <2>1. n + 1 \in 1..N /\ (n + 1) - 1 = n /\ \A j \in 1..(n + 1) : j \in 1..n \/ j = n + 1
      BY <1>1
    <2>2. g[n + 1] = IF Taken(d, g[n], TRUE) THEN Append(g[n], Normal(d)) ELSE g[n]
      BY <1>2, <2>1
    <2>3. ListOf(g[n]) /\ From(n) /\ Whole(n) /\ (Distinct(ds) => Distinct(g[n]))
      BY <1>1, <1>6
    <2>4. DirectiveDecoded(d)
      BY <1>4, <2>1
    <2>5. Taken(d, g[n], TRUE) <=> Sound(d) /\ \A i \in DOMAIN g[n] : g[n][i].id # d.id
      BY <2>4, ValidAlone DEF Taken, Sound
    <2>6. \A j \in 1..n : j \in 1..N /\ j # n + 1 /\ j \in 1..(n + 1)
      BY <1>1
    <2>7. CASE ~Taken(d, g[n], TRUE)
      <3>1. g[n + 1] = g[n]
        BY <2>2, <2>7
      <3>2. Sound(d) => d.id \in Ids(g[n])
        BY <2>5, <2>7 DEF Ids
      <3>3. From(n + 1)
        BY <2>3, <2>6, <3>1
      <3>4. Whole(n + 1)
        BY <2>1, <2>3, <3>1, <3>2
      <3> QED
        BY <2>3, <3>1, <3>3, <3>4
    <2>8. CASE Taken(d, g[n], TRUE)
      <3> DEFINE old == g[n]
                 new == g[n + 1]
      <3>1. new = Append(old, Normal(d)) /\ Sound(d)
        BY <2>2, <2>5, <2>8
      <3>2. /\ ListOf(new)
            /\ \A i \in DOMAIN new : (i \in DOMAIN old /\ new[i] = old[i]) \/ new[i] = Normal(d)
            /\ DOMAIN old \subseteq DOMAIN new /\ \A i \in DOMAIN old : new[i] = old[i]
        BY <2>3, <3>1, Appended
      <3>3. PICK k \in DOMAIN new : /\ k \notin DOMAIN old /\ new[k] = Normal(d)
                                     /\ DOMAIN new = DOMAIN old \cup {k}
        BY <2>3, <3>1, Appended
      <3>4. Normal(d).id = d.id /\ Normal(d).name = d.name
        BY <2>4, NormalKeeps
      <3>5. From(n + 1)
        <4>1. \A i \in DOMAIN old : \E j \in 1..(n + 1) : Sound(ds[j]) /\ new[i] = Normal(ds[j])
          BY <2>3, <2>6, <3>2
        <4>2. n + 1 \in 1..(n + 1) /\ Sound(ds[n + 1]) /\ new[k] = Normal(ds[n + 1])
          BY <3>1, <3>3
        <4> HIDE DEF old, new
        <4>3. \A i \in DOMAIN new : \E j \in 1..(n + 1) : Sound(ds[j]) /\ new[i] = Normal(ds[j])
          BY <3>3, <4>1, <4>2
        <4> QED
          BY <4>3 DEF new
      <3>6. Whole(n + 1)
        <4>1. Ids(old) \subseteq Ids(new) /\ d.id \in Ids(new)
          BY <3>2, <3>3, <3>4 DEF Ids
        <4> QED
          BY <2>1, <2>3, <4>1
      <3>7. ASSUME Distinct(ds) PROVE Distinct(new)
        <4>1. \A i \in DOMAIN old : new[i].name # new[k].name
          <5> SUFFICES ASSUME NEW i \in DOMAIN old PROVE old[i].name # d.name
            BY <3>2, <3>3, <3>4
          <5>1. PICK j \in 1..n : old[i] = Normal(ds[j])
            BY <2>3
          <5>2. j \in 1..N /\ j # n + 1
            BY <2>6
          <5>3. old[i].name = ds[j].name
            BY <1>4, <5>1, <5>2, NormalKeeps
          <5> QED
            BY <1>1, <2>1, <3>7, <5>2, <5>3 DEF Distinct
        <4>2. Distinct(old)
          BY <2>3, <3>7
        <4> HIDE DEF old, new
        <4> QED
          BY <3>2, <3>3, <4>1, <4>2 DEF Distinct
      <3> QED
        BY <3>2, <3>5, <3>6, <3>7
    <2> QED
      BY <2>7, <2>8
  <1>7. N \in S
    BY <1>1, <1>5, <1>6, Counting
  <1>8. ListOf(g[N]) /\ From(N) /\ Whole(N) /\ (Distinct(ds) => Distinct(g[N]))
    BY <1>1, <1>7
  <1> HIDE DEF S
  <1>9. /\ \A i \in DOMAIN g[N] : \E j \in DOMAIN ds : Sound(ds[j]) /\ g[N][i] = Normal(ds[j])
        /\ \A j \in DOMAIN ds : Sound(ds[j]) => ds[j].id \in Ids(g[N])
    BY <1>1, <1>8
  <1> QED
    BY <1>3, <1>8, <1>9

LEMMA ListFrom ==
  ASSUME NEW T, NEW s \in Seq(T)
  PROVE  ListOf(s)
  <1>1. Len(s) \in Nat /\ DOMAIN s = 1..Len(s) /\ s = [i \in DOMAIN s |-> s[i]]
    BY LenProperties
  <1>2. s \in [1..Len(s) -> {s[i] : i \in DOMAIN s}]
    BY <1>1
  <1> QED
    BY <1>1, <1>2, SeqDef DEF ListOf

-----------------------------------------------------------------------------
(* Merging *)

\* The new directives are gathered one by one.
LEMMA NewOne ==
  ASSUME NEW ds, NEW target, Len(target) \in Nat
  PROVE  LET g == NewUpTo(ds, target)
         IN  /\ g[0] = <<>>
             /\ \A n \in 1..Len(target) : g[n] = IF target[n].id \in Ids(ds) THEN g[n - 1] ELSE Append(g[n - 1], target[n])
  <1> DEFINE N == Len(target)
             Value(g, n) == IF n = 0 THEN <<>> ELSE IF target[n].id \in Ids(ds) THEN g[n - 1] ELSE Append(g[n - 1], target[n])
             Upto(g, n) == g = [i \in 0..n |-> Value(g, i)]
             S == {n \in Nat : \E g : Upto(g, n)}
  <1>1. ASSUME NEW i \in Nat, NEW g, NEW h, i # 0 => g[i - 1] = h[i - 1]
        PROVE  Value(g, i) = Value(h, i)
    BY <1>1
  <1>2. \A g : Value(g, 0) = <<>>
    OBVIOUS
  <1>3. \A g : \A n \in 1..N : Value(g, n) = IF target[n].id \in Ids(ds) THEN g[n - 1] ELSE Append(g[n - 1], target[n])
    OBVIOUS
  <1>4. \A h : (h = CHOOSE g : Upto(g, N)) => h = NewUpTo(ds, target)
    BY DEF NewUpTo
  <1> HIDE DEF Value
  <1>5. 0 \in S
    <2> DEFINE g == [i \in 0..0 |-> <<>>]
    <2>1. \A i \in 0..0 : i = 0
      OBVIOUS
    <2>2. Upto(g, 0)
      BY <1>2, <2>1
    <2> QED
      BY <2>2
  <1>6. ASSUME NEW n \in Nat, n \in S PROVE n + 1 \in S
    <2>1. PICK g : Upto(g, n)
      BY <1>6
    <2> DEFINE h == [i \in 0..(n + 1) |-> Value(g, i)]
    <2>2. \A i \in 0..n : h[i] = g[i]
      <3>1. \A i \in 0..n : g[i] = Value(g, i)
        BY <2>1
      <3> QED
        BY <3>1
    <2>3. \A i \in 0..(n + 1) : h[i] = Value(h, i)
      <3>1. \A i \in 0..(n + 1) : i \in Nat /\ (i # 0 => i - 1 \in 0..n)
        OBVIOUS
      <3>2. \A i \in 0..(n + 1) : Value(g, i) = Value(h, i)
        BY <1>1, <2>2, <3>1
      <3> QED
        BY <3>2
    <2>4. Upto(h, n + 1)
      BY <2>3
    <2> HIDE DEF Upto
    <2> QED
      BY <2>4
  <1>7. \E g : Upto(g, N)
    <2> HIDE DEF Upto
    <2>1. N \in S
      BY <1>5, <1>6, Counting
    <2> QED
      BY <2>1
  <1> DEFINE f == CHOOSE g : Upto(g, N)
  <1>8. \A i \in 0..N : f[i] = Value(f, i)
    BY <1>7
  <1>9. f = NewUpTo(ds, target)
    BY <1>4
  <1> HIDE DEF f
  <1>10. 0 \in 0..N /\ \A n \in 1..N : n \in 0..N
    OBVIOUS
  <1>11. f[0] = <<>>
    BY <1>2, <1>8, <1>10
  <1>12. \A n \in 1..N : f[n] = IF target[n].id \in Ids(ds) THEN f[n - 1] ELSE Append(f[n - 1], target[n])
    BY <1>3, <1>8, <1>10
  <1> QED
    BY <1>9, <1>11, <1>12

\* The new directives are from the target.
LEMMA NewFromTarget ==
  ASSUME NEW ds, NEW target, ListOf(target)
  PROVE  LET new == NewUpTo(ds, target)[Len(target)]
         IN  new \in Seq({target[k] : k \in DOMAIN target})
  <1> DEFINE g == NewUpTo(ds, target)
             N == Len(target)
             T == {target[k] : k \in DOMAIN target}
             S == {n \in Nat : n <= N => g[n] \in Seq(T)}
  <1>1. N \in Nat /\ DOMAIN target = 1..N
    BY LenProperties DEF ListOf
  <1>2. /\ g[0] = <<>>
        /\ \A n \in 1..N : g[n] = IF target[n].id \in Ids(ds) THEN g[n - 1]
                                  ELSE Append(g[n - 1], target[n])
    BY <1>1, NewOne
  <1> HIDE DEF g
  <1>3. 0 \in S
    BY <1>2, EmptySeq
  <1>4. ASSUME NEW n \in Nat, n \in S PROVE n + 1 \in S
    <2> SUFFICES ASSUME n + 1 <= N PROVE g[n + 1] \in Seq(T)
      OBVIOUS
    <2>1. n + 1 \in 1..N /\ (n + 1) - 1 = n /\ target[n + 1] \in T
      BY <1>1
    <2>2. g[n] \in Seq(T)
      BY <1>1, <1>4
    <2> HIDE DEF T
    <2>3. Append(g[n], target[n + 1]) \in Seq(T)
      BY <2>1, <2>2, AppendProperties
    <2> QED
      BY <1>2, <2>1, <2>2, <2>3
  <1>5. N \in S
    BY <1>1, <1>3, <1>4, Counting
  <1> QED
    BY <1>1, <1>5 DEF g

\* A merged file has the directives of the other one in their places, or what replaces
\* them, and then new ones.
LEMMA Merged ==
  ASSUME NEW ds, Decoded(ds), NEW target, Decoded(target),
         NEW accepted \in SUBSET Prompted(ds, target)
  PROVE  LET m == MergeDirectives(ds, target, accepted) IN
         /\ Decoded(m)
         /\ \A i \in DOMAIN m : \/ \E j \in DOMAIN ds : m[i] = ds[j]
                                \/ \E k \in DOMAIN target : m[i] = target[k]
         /\ DOMAIN ds \subseteq DOMAIN m
         /\ \A i \in DOMAIN ds :
              \/ m[i] = ds[i]
              \/ \E k \in accepted : m[i] = target[k] /\ target[k].id = ds[i].id
  <1> DEFINE Replacing(i) == {k \in accepted : target[k].id = ds[i].id}
             first == [i \in DOMAIN ds |->
                        IF Replacing(i) # {} /\ i = LastOf(ds, ds[i].id)
                        THEN target[Max(Replacing(i))] ELSE ds[i]]
             new == NewUpTo(ds, target)[Len(target)]
             m == first \o new
             U == {ds[i] : i \in DOMAIN ds} \cup {target[k] : k \in DOMAIN target}
  <1>1. m = MergeDirectives(ds, target, accepted)
    BY DEF MergeDirectives
  <1>2. /\ Len(ds) \in Nat /\ DOMAIN ds = 1..Len(ds)
        /\ Len(target) \in Nat /\ DOMAIN target = 1..Len(target)
    BY LenProperties DEF Decoded, ListOf
  <1>3. accepted \subseteq DOMAIN target
    BY DEF Prompted
  <1>4. ASSUME NEW i \in DOMAIN ds, Replacing(i) # {}
        PROVE  Max(Replacing(i)) \in accepted /\ target[Max(Replacing(i))].id = ds[i].id
    <2> DEFINE R == Replacing(i)
    <2>1. R \subseteq DOMAIN target /\ R \subseteq Nat
      BY <1>2, <1>3
    <2>2. IsFiniteSet(R)
      <3>1. IsFiniteSet(1..Len(target))
        BY <1>2, FS_Interval
      <3> HIDE DEF R
      <3> QED
        BY <1>2, <2>1, <3>1, FS_Subset
    <2> HIDE DEF R
    <2>3. \E k \in R : \A l \in R : l <= k
      BY <1>4, <2>1, <2>2, Greatest DEF R
    <2>4. \E k \in R : \A l \in R : k >= l
      BY <2>1, <2>3
    <2>5. Max(R) \in R
      BY <2>4 DEF Max
    <2> QED
      BY <2>5 DEF R
  <1> HIDE DEF Replacing
  <1>5. \A i \in DOMAIN ds :
          \/ first[i] = ds[i]
          \/ \E k \in accepted : first[i] = target[k] /\ target[k].id = ds[i].id
    BY <1>4
  <1>6. \A i \in DOMAIN ds : first[i] \in U
    BY <1>5, <1>3
  <1>7. first \in Seq(U) /\ Len(first) = Len(ds)
    <2>1. first \in [1..Len(ds) -> U]
      BY <1>2, <1>6
    <2> QED
      BY <1>2, <2>1, SeqDef, LenProperties
  <1>8. new \in Seq(U)
    <2>1. new \in Seq({target[k] : k \in DOMAIN target})
      BY NewFromTarget DEF Decoded
    <2> QED
      BY <2>1, SeqMonotonic
  <1> HIDE DEF first, new, U
  <1>9. /\ m \in Seq(U) /\ Len(m) = Len(first) + Len(new)
        /\ \A i \in 1..Len(first) : m[i] = first[i]
    BY <1>7, <1>8, ConcatProperties
  <1>10. Len(new) \in Nat /\ Len(m) \in Nat /\ DOMAIN m = 1..Len(m) /\ \A i \in DOMAIN m : m[i] \in U
    BY <1>8, <1>9, LenProperties, ElementOfSeq
  <1> HIDE DEF m
  <1>11. DOMAIN ds \subseteq DOMAIN m /\ \A i \in DOMAIN ds : m[i] = first[i]
    BY <1>2, <1>7, <1>9, <1>10
  <1>12. \A d \in U : DirectiveDecoded(d)
    BY DEF U, Decoded
  <1>13. Decoded(m)
    BY <1>9, <1>10, <1>12, ListFrom DEF Decoded
  <1>14. \A i \in DOMAIN m : \/ \E j \in DOMAIN ds : m[i] = ds[j]
                             \/ \E k \in DOMAIN target : m[i] = target[k]
    BY <1>10 DEF U
  <1> QED
    BY <1>1, <1>5, <1>11, <1>13, <1>14

\* So an ID that would be loaded of it is lost only to a directive that has been accepted
\* for it and that is not valid.
LostOnly(ds, target, accepted) ==
  \A id \in Ids(Load(ds, TRUE)) \ Ids(Load(MergeDirectives(ds, target, accepted), TRUE)) :
    \E k \in accepted : target[k].id = id /\ ~DirectiveValid(target[k], <<>>)

LEMMA MergedLoads ==
  ASSUME NEW ds, Decoded(ds), NEW target, Decoded(target),
         NEW accepted \in SUBSET Prompted(ds, target)
  PROVE  LostOnly(ds, target, accepted)
  <1> SUFFICES ASSUME NEW id \in Ids(Load(ds, TRUE))
                                \ Ids(Load(MergeDirectives(ds, target, accepted), TRUE))
               PROVE  \E k \in accepted : target[k].id = id /\ ~DirectiveValid(target[k], <<>>)
    BY DEF LostOnly
  <1> DEFINE m == MergeDirectives(ds, target, accepted)
  <1>1. /\ Decoded(m) /\ DOMAIN ds \subseteq DOMAIN m
        /\ \A i \in DOMAIN ds :
             \/ m[i] = ds[i]
             \/ \E k \in accepted : m[i] = target[k] /\ target[k].id = ds[i].id
    BY Merged
  <1>2. id \notin Ids(Load(m, TRUE))
    OBVIOUS
  <1> HIDE DEF m
  <1>3. PICK i \in DOMAIN Load(ds, TRUE) : Load(ds, TRUE)[i].id = id
    BY DEF Ids
  <1>4. PICK j \in DOMAIN ds : Sound(ds[j]) /\ Load(ds, TRUE)[i] = Normal(ds[j])
    BY LoadedFile
  <1>5. ds[j].id = id
    BY <1>3, <1>4, NormalKeeps DEF Sound
  <1>6. j \in DOMAIN m /\ m[j].id = id /\ DirectiveDecoded(m[j])
    BY <1>1, <1>5 DEF Decoded
  <1>7. ~Sound(m[j])
    BY <1>1, <1>2, <1>6, LoadedFile
  <1>8. m[j] # ds[j] /\ ~DirectiveValid(m[j], <<>>)
    BY <1>4, <1>6, <1>7 DEF Sound
  <1> QED
    BY <1>1, <1>5, <1>8

-----------------------------------------------------------------------------
(* Directives made from a table *)

\* A directive watches an ID if all its rules list it.
Holds(d, s) == \A j \in DOMAIN d.rules : s \in d.rules[j].sids

\* A line of the table without a title is skipped.
Titled(title) == title # ""

\* Normalised by the tool and with a name, if not one that validation accepts: a title
\* may have no category.
Shaped(d) == DirectiveDecoded(d) /\ Titled(d.name)

LEMMA MadeShaped ==
  ASSUME NEW id, NEW title, Titled(title), NEW sid
  PROVE  LET d == NewDirective(id, title, sid) IN
         Shaped(d) /\ d.name = title /\ Holds(d, sid)
  <1> DEFINE d == NewDirective(id, title, sid)
             rs == d.rules
  <1>1. PICK r1, r2 : rs = <<MadeRule(1, sid, ANY, 1, r1), MadeRule(2, sid, Ref(1), 10, r2),
                            MadeRule(3, sid, Ref(1), 10000, 10)>>
    BY DEF NewDirective
  <1>2. /\ d = [x \in DOMAIN d |-> d[x]]
        /\ DOMAIN d = {"id", "name", "filed", "disabled", "priority", "all", "rules"}
        /\ d.name = title
    BY DEF NewDirective
  <1> HIDE DEF d
  <1> DEFINE R(r, n, f) == \E o, l : r = MadeRule(n, sid, f, o, l)
  <1>3. /\ DOMAIN rs = 1..3 /\ ListOf(rs)
        /\ R(rs[1], 1, ANY) /\ R(rs[2], 2, Ref(1)) /\ R(rs[3], 3, Ref(1))
    <2>1. rs \in Seq({rs[1], rs[2], rs[3]}) /\ DOMAIN rs = 1..3
      BY <1>1
    <2>2. R(rs[1], 1, ANY) /\ R(rs[2], 2, Ref(1)) /\ R(rs[3], 3, Ref(1))
      BY <1>1
    <2> QED
      BY <2>1, <2>2, ListFrom
  <1>4. ASSUME NEW r, NEW n, NEW f \in {ANY, Ref(1)}, R(r, n, f)
        PROVE  RuleDecoded(r) /\ sid \in r.sids /\ DOMAIN r.custom = 1..2
    <2>1. PICK o, l : r = MadeRule(n, sid, f, o, l)
      BY <1>4
    <2>2. /\ r.sids = {sid} /\ r.custom = <<ANY, ANY>>
          /\ r.from = f /\ r.to = f /\ r.portFrom = ANY /\ r.portTo = ANY
      BY <2>1 DEF MadeRule
    <2>3. /\ r = [x \in DOMAIN r |-> r[x]]
          /\ DOMAIN r = Fields \cup {"stage", "type", "plugin", "sids", "products", "category",
                                     "subcategories", "occurrence", "reliability", "custom", "sticky"}
      BY <2>1 DEF MadeRule, Fields
    <2>4. \A g \in Fields : r[g] \in {ANY, Ref(1)}
      BY <2>2 DEF Fields
    <2>5. \A g \in {ANY, Ref(1)} : /\ g.kind = "ref" => Numbered(g)
                                   /\ Numbered(g) => g.to \in Int
      BY DEF ANY, Ref, Numbered
    <2> QED
      BY <2>2, <2>3, <2>4, <2>5 DEF RuleDecoded, Record
  <1> HIDE DEF R, rs
  <1>5. \A i \in 1..3 : RuleDecoded(rs[i]) /\ sid \in rs[i].sids /\ DOMAIN rs[i].custom = 1..2
    <2>1. \A i \in 1..3 : i = 1 \/ i = 2 \/ i = 3
      OBVIOUS
    <2> QED
      BY <1>3, <1>4, <2>1
  <1>6. DirectiveDecoded(d)
    BY <1>2, <1>3, <1>5 DEF DirectiveDecoded, Record, rs
  <1>7. Holds(d, sid)
    BY <1>3, <1>5 DEF Holds, rs
  <1> QED
    BY <1>2, <1>6, <1>7 DEF Shaped, d

\* An existing directive that gets an ID keeps the ones it has.
LEMMA SidAdded ==
  ASSUME NEW d, Shaped(d), NEW sid, NEW q, q = AddSid(d, sid)
  PROVE  Shaped(q) /\ q.name = d.name /\ Holds(q, sid) /\ \A s : Holds(d, s) => Holds(q, s)
  <1> DEFINE rs == [j \in DOMAIN d.rules |-> WithSid(d.rules[j], sid)]
  <1>1. /\ d = [x \in DOMAIN d |-> d[x]]
        /\ {"id", "name", "filed", "disabled", "priority", "all", "rules"} \subseteq DOMAIN d
        /\ ListOf(d.rules) /\ \A j \in DOMAIN d.rules : RuleDecoded(d.rules[j])
        /\ \A i, j \in DOMAIN d.rules : DOMAIN d.rules[i].custom = DOMAIN d.rules[j].custom
    BY DEF Shaped, DirectiveDecoded, Record
  <1>2. /\ DOMAIN q = DOMAIN d /\ q = [x \in DOMAIN q |-> q[x]] /\ q.rules = rs
        /\ q.name = d.name
    <2>1. q = [d EXCEPT !.rules = rs]
      BY DEF AddSid
    <2> HIDE DEF rs
    <2> QED
      BY <1>1, <2>1
  <1>3. Len(d.rules) \in Nat /\ DOMAIN d.rules = 1..Len(d.rules)
    BY <1>1, LenProperties DEF ListOf
  <1>4. rs \in Seq({rs[j] : j \in DOMAIN rs}) /\ Len(rs) = Len(d.rules) /\ DOMAIN rs = DOMAIN d.rules
    <2>0. DOMAIN rs = 1..Len(d.rules) /\ rs = [j \in DOMAIN rs |-> rs[j]]
      BY <1>3
    <2> HIDE DEF rs
    <2>1. DOMAIN rs = 1..Len(d.rules) /\ rs \in [1..Len(d.rules) -> {rs[j] : j \in DOMAIN rs}]
      BY <2>0
    <2>2. rs \in Seq({rs[j] : j \in DOMAIN rs})
      BY <1>3, <2>1, SeqDef
    <2> QED
      BY <1>3, <2>1, <2>2, LenProperties
  <1>5. ListOf(rs)
    BY <1>4 DEF ListOf
  <1>6. ASSUME NEW j \in DOMAIN d.rules
        PROVE  LET r == d.rules[j]
                   t == rs[j]
               IN  /\ t = [x \in DOMAIN t |-> t[x]] /\ DOMAIN t = DOMAIN r
                   /\ t.sids = r.sids \cup {sid} /\ \A x \in DOMAIN r : x # "sids" => t[x] = r[x]
    BY <1>1, <1>6 DEF RuleDecoded, Record, WithSid
  <1>7. \A j \in DOMAIN d.rules : RuleDecoded(rs[j]) /\ rs[j].custom = d.rules[j].custom
    <2> SUFFICES ASSUME NEW j \in DOMAIN d.rules
                 PROVE  RuleDecoded(rs[j]) /\ rs[j].custom = d.rules[j].custom
      OBVIOUS
    <2> DEFINE r == d.rules[j]
               t == rs[j]
    <2>1. /\ t = [x \in DOMAIN t |-> t[x]] /\ DOMAIN t = DOMAIN r
          /\ \A x \in DOMAIN r : x # "sids" => t[x] = r[x]
      BY <1>6
    <2>2. /\ Fields \cup {"stage", "type", "plugin", "sids", "products", "category",
                           "subcategories", "occurrence", "reliability", "custom", "sticky"}
              \subseteq DOMAIN r
          /\ \A f \in Fields : /\ r[f].kind = "ref" => Numbered(r[f])
                               /\ Numbered(r[f]) => r[f].to \in Int
      BY <1>1 DEF RuleDecoded, Record
    <2> HIDE DEF r, t
    <2>3. t.custom = r.custom /\ \A f \in Fields : t[f] = r[f]
      BY <2>1, <2>2 DEF Fields
    <2>4. RuleDecoded(t)
      BY <2>1, <2>2, <2>3 DEF RuleDecoded, Record
    <2> QED
      BY <2>3, <2>4 DEF r, t
  <1> HIDE DEF rs
  <1>8. q.rules = rs
    BY <1>2
  <1>9. DirectiveDecoded(q)
    <2>1. \A i, j \in DOMAIN rs : DOMAIN rs[i].custom = DOMAIN rs[j].custom
      BY <1>1, <1>4, <1>7
    <2>2. Record(q, {"id", "name", "filed", "disabled", "priority", "all", "rules"})
      BY <1>1, <1>2 DEF Record
    <2>3. ListOf(rs) /\ \A j \in DOMAIN rs : RuleDecoded(rs[j])
      BY <1>4, <1>5, <1>7
    <2> QED
      <3>1. ListOf(q.rules) /\ \A j \in DOMAIN q.rules : RuleDecoded(q.rules[j])
        BY <1>8, <2>3
      <3>2. \A i, j \in DOMAIN q.rules : DOMAIN q.rules[i].custom = DOMAIN q.rules[j].custom
        <4>1. \A i \in DOMAIN q.rules : i \in DOMAIN rs /\ q.rules[i] = rs[i]
          BY <1>8
        <4> QED
          BY <2>1, <4>1
      <3> QED
        BY <2>2, <3>1, <3>2 DEF DirectiveDecoded
  <1>10. Holds(q, sid) /\ \A s : Holds(d, s) => Holds(q, s)
    BY <1>2, <1>4, <1>6 DEF Holds
  <1> QED
    BY <1>2, <1>9, <1>10 DEF Shaped

\* Directives that have names of their own, and what a line of the table does to them.
AllShaped(ds) == ListOf(ds) /\ (\A i \in DOMAIN ds : Shaped(ds[i])) /\ Distinct(ds)

Adding(st) == st = [x \in DOMAIN st |-> st[x]] /\ "dirs" \in DOMAIN st /\ AllShaped(st.dirs)

Grows(st, entry, next) ==
  /\ Adding(next)
  /\ \A j \in DOMAIN st.dirs : j \in DOMAIN next.dirs /\ next.dirs[j].name = st.dirs[j].name
                               /\ \A s : Holds(st.dirs[j], s) => Holds(next.dirs[j], s)
  /\ \E i \in DOMAIN next.dirs : next.dirs[i].name = entry.title
  /\ \A i \in DOMAIN next.dirs : next.dirs[i].name = entry.title => Holds(next.dirs[i], entry.sid)
  /\ \A i \in DOMAIN next.dirs \ DOMAIN st.dirs :
       next.dirs[i].name = entry.title /\ \A j \in DOMAIN st.dirs : st.dirs[j].name # entry.title

\* After a line of the table its title has a directive, which watches its ID; the others
\* stay, and all keep the IDs they watch.
LEMMA EntryAdded ==
  ASSUME NEW st, Adding(st), NEW entry, Titled(entry.title), NEW next, next = AddEntry(st, entry)
  PROVE  Grows(st, entry, next)
  <1> DEFINE old == st.dirs
             title == entry.title
             sid == entry.sid
             known == FirstNamed(old, title)
             number == NextFree(Ids(old), st.number)
             merged == [i \in DOMAIN old |-> IF i \in known THEN AddSid(old[i], sid) ELSE old[i]]
             new == next.dirs
  <1>0. old \in Seq({old[i] : i \in DOMAIN old}) /\ ListOf(old) /\ Distinct(old)
        /\ \A i \in DOMAIN old : Shaped(old[i])
    BY DEF Adding, AllShaped, ListOf
  <1>1. Len(old) \in Nat /\ DOMAIN old = 1..Len(old)
    BY <1>0, LenProperties
  <1>2. next = IF known # {} THEN [st EXCEPT !.dirs = merged]
            ELSE [dirs |-> Append(old, NewDirective(number, title, sid)), number |-> number + 1]
    BY DEF AddEntry
  <1>3. known \subseteq DOMAIN old /\ \A i \in DOMAIN old : old[i].name = title <=> i \in known
    <2>1. ASSUME NEW i \in DOMAIN old, old[i].name = title, NEW j \in 1..(i - 1)
          PROVE  old[j].name # title
      <3>1. j \in DOMAIN old /\ j # i
        BY <1>1
      <3> QED
        BY <1>0, <2>1, <3>1 DEF Distinct
    <2> QED
      BY <2>1 DEF FirstNamed
  <1>4. CASE known # {}
    <2>1. next = [st EXCEPT !.dirs = merged]
      BY <1>2, <1>4
    <2>2. next = [x \in DOMAIN next |-> next[x]] /\ "dirs" \in DOMAIN next /\ new = merged
      BY <2>1 DEF Adding
    <2>3. ASSUME NEW i \in DOMAIN old
          PROVE  /\ merged[i].name = old[i].name /\ Shaped(merged[i])
                 /\ \A s : Holds(old[i], s) => Holds(merged[i], s)
                 /\ old[i].name = title => Holds(merged[i], sid)
      <3>1. CASE i \in known
        <4>1. merged[i] = AddSid(old[i], sid)
          BY <3>1
        <4> HIDE DEF merged
        <4>2. Shaped(old[i])
          BY <1>0
        <4> QED
          BY <4>1, <4>2, SidAdded
      <3>2. CASE i \notin known
        BY <1>0, <1>3, <3>2
      <3> QED
        BY <3>1, <3>2
    <2>4. DOMAIN merged = DOMAIN old
      OBVIOUS
    <2>5. ListOf(merged)
      <3>1. merged = [i \in 1..Len(old) |-> merged[i]]
        BY <1>1
      <3> HIDE DEF merged
      <3>2. merged \in [1..Len(old) -> {merged[i] : i \in DOMAIN merged}]
        BY <3>1
      <3> QED
        BY <1>1, <3>2, SeqDef DEF ListOf
    <2>6. PICK first \in DOMAIN old : old[first].name = title
      BY <1>3, <1>4
    <2> HIDE DEF merged, known
    <2>7. AllShaped(merged)
      BY <1>0, <2>3, <2>4, <2>5 DEF AllShaped, Distinct
    <2>8. \E i \in DOMAIN merged : merged[i].name = title
      BY <2>3, <2>4, <2>6
    <2> QED
      BY <2>2, <2>3, <2>4, <2>7, <2>8 DEF Adding, Grows
  <1>5. CASE known = {}
    <2> DEFINE made1 == NewDirective(number, title, sid)
    <2>1. next = [dirs |-> Append(old, made1), number |-> number + 1]
      BY <1>2, <1>5
    <2> HIDE DEF made1, number
    <2>2. next = [x \in DOMAIN next |-> next[x]] /\ "dirs" \in DOMAIN next /\ new = Append(old, made1)
      <3> HIDE DEF old
      <3> QED
        BY <2>1
    <2>3. Shaped(made1) /\ made1.name = title /\ Holds(made1, sid)
      BY MadeShaped DEF made1
    <2>4. \A j \in DOMAIN old : old[j].name # title
      BY <1>3, <1>5
    <2> HIDE DEF new
    <2>5. /\ ListOf(new) /\ DOMAIN old \subseteq DOMAIN new /\ \A i \in DOMAIN old : new[i] = old[i]
      BY <1>0, <2>2, Appended
    <2>6. PICK k \in DOMAIN new : k \notin DOMAIN old /\ new[k] = made1 /\ DOMAIN new = DOMAIN old \cup {k}
      BY <1>0, <2>2, Appended
    <2>7. AllShaped(new)
      BY <1>0, <2>3, <2>4, <2>5, <2>6 DEF AllShaped, Distinct
    <2>8. \A i \in DOMAIN new : i \in DOMAIN old \/ i = k
      BY <2>6
    <2> QED
      BY <2>2, <2>3, <2>4, <2>5, <2>6, <2>7, <2>8 DEF Adding, Grows, new
  <1> QED
    BY <1>4, <1>5

\* The lines are added one by one.
LEMMA AddedOne ==
  ASSUME NEW ds, NEW lines, Len(lines) \in Nat
  PROVE  LET g == AddedUpTo(ds, lines)
         IN  /\ g[0] = [dirs |-> ds, number |-> FirstNumber]
             /\ \A n \in 1..Len(lines) : g[n] = AddEntry(g[n - 1], lines[n])
  <1> DEFINE N == Len(lines)
             Value(g, n) == IF n = 0 THEN [dirs |-> ds, number |-> FirstNumber] ELSE AddEntry(g[n - 1], lines[n])
             Upto(g, n) == g = [i \in 0..n |-> Value(g, i)]
             S == {n \in Nat : \E g : Upto(g, n)}
  <1>1. ASSUME NEW i \in Nat, NEW g, NEW h, i # 0 => g[i - 1] = h[i - 1]
        PROVE  Value(g, i) = Value(h, i)
    BY <1>1
  <1>2. \A g : Value(g, 0) = [dirs |-> ds, number |-> FirstNumber]
    OBVIOUS
  <1>3. \A g : \A n \in 1..N : Value(g, n) = AddEntry(g[n - 1], lines[n])
    OBVIOUS
  <1>4. \A h : (h = CHOOSE g : Upto(g, N)) => h = AddedUpTo(ds, lines)
    BY DEF AddedUpTo
  <1> HIDE DEF Value
  <1>5. 0 \in S
    <2> DEFINE g == [i \in 0..0 |-> [dirs |-> ds, number |-> FirstNumber]]
    <2>1. \A i \in 0..0 : i = 0
      OBVIOUS
    <2>2. Upto(g, 0)
      BY <1>2, <2>1
    <2> QED
      BY <2>2
  <1>6. ASSUME NEW n \in Nat, n \in S PROVE n + 1 \in S
    <2>1. PICK g : Upto(g, n)
      BY <1>6
    <2> DEFINE h == [i \in 0..(n + 1) |-> Value(g, i)]
    <2>2. \A i \in 0..n : h[i] = g[i]
      <3>1. \A i \in 0..n : g[i] = Value(g, i)
        BY <2>1
      <3> QED
        BY <3>1
    <2>3. \A i \in 0..(n + 1) : h[i] = Value(h, i)
      <3>1. \A i \in 0..(n + 1) : i \in Nat /\ (i # 0 => i - 1 \in 0..n)
        OBVIOUS
      <3>2. \A i \in 0..(n + 1) : Value(g, i) = Value(h, i)
        BY <1>1, <2>2, <3>1
      <3> QED
        BY <3>2
    <2>4. Upto(h, n + 1)
      BY <2>3
    <2> HIDE DEF Upto
    <2> QED
      BY <2>4
  <1>7. \E g : Upto(g, N)
    <2> HIDE DEF Upto
    <2>1. N \in S
      BY <1>5, <1>6, Counting
    <2> QED
      BY <2>1
  <1> DEFINE f == CHOOSE g : Upto(g, N)
  <1>8. \A i \in 0..N : f[i] = Value(f, i)
    BY <1>7
  <1>9. f = AddedUpTo(ds, lines)
    BY <1>4
  <1> HIDE DEF f
  <1>10. 0 \in 0..N /\ \A n \in 1..N : n \in 0..N
    OBVIOUS
  <1>11. f[0] = [dirs |-> ds, number |-> FirstNumber]
    BY <1>2, <1>8, <1>10
  <1>12. \A n \in 1..N : f[n] = AddEntry(f[n - 1], lines[n])
    BY <1>3, <1>8, <1>10
  <1> QED
    BY <1>9, <1>11, <1>12

\* The lines are those of the table that have a title, each once.
LEMMA LinesOf ==
  ASSUME NEW refs, Table(refs), NEW lines \in Lines(refs)
  PROVE  /\ ListOf(lines)
         /\ \A k \in DOMAIN lines : /\ lines[k].sid \in DOMAIN refs /\ lines[k].sid \in Nat \ {0}
                                    /\ Titled(lines[k].title) /\ lines[k].title = refs[lines[k].sid]
         /\ \A s \in DOMAIN refs : Titled(refs[s]) =>
              \E k \in DOMAIN lines : lines[k] = [sid |-> s, title |-> refs[s]]
  <1> DEFINE sids == {s \in DOMAIN refs : s # 0 /\ refs[s] # ""}
             Line(s) == [sid |-> s, title |-> refs[s]]
  <1>1. PICK order \in SetToSeqs(sids) : lines = [i \in DOMAIN order |-> Line(order[i])]
    BY DEF Lines
  <1>2. IsFiniteSet(DOMAIN refs) /\ DOMAIN refs \subseteq Nat \ {0}
    BY DEF Table
  <1>3. /\ sids \subseteq DOMAIN refs /\ \A s \in sids : s \in Nat \ {0} /\ Titled(refs[s])
        /\ \A s \in DOMAIN refs : Titled(refs[s]) => s \in sids
    BY <1>2 DEF Titled
  <1>4. IsFiniteSet(sids)
    BY <1>2, <1>3, FS_Subset
  <1> HIDE DEF sids
  <1>5. Len(order) \in Nat /\ DOMAIN order = 1..Len(order) /\ {order[i] : i \in DOMAIN order} = sids
    BY <1>4, Permuted
  <1>6. DOMAIN lines = DOMAIN order /\ \A i \in DOMAIN order : lines[i] = Line(order[i])
    BY <1>1
  <1>7. ListOf(lines)
    <2>1. lines = [i \in 1..Len(order) |-> lines[i]]
      BY <1>1, <1>5
    <2>2. lines \in [1..Len(order) -> {lines[i] : i \in DOMAIN lines}]
      BY <2>1
    <2> QED
      BY <1>5, <2>2, SeqDef DEF ListOf
  <1>8. \A i \in DOMAIN order : order[i] \in sids
    BY <1>5
  <1>9. \A s \in sids : \E i \in DOMAIN order : order[i] = s
    BY <1>5
  <1>10. \A k \in DOMAIN lines : /\ lines[k].sid \in DOMAIN refs /\ lines[k].sid \in Nat \ {0}
                                 /\ Titled(lines[k].title) /\ lines[k].title = refs[lines[k].sid]
    BY <1>3, <1>6, <1>8
  <1> QED
    BY <1>3, <1>6, <1>7, <1>9, <1>10

\* After all the lines every directive is one that was there, with the IDs it has, or is of
\* a title in the table; and it watches all the IDs its name has there.
LEMMA EntriesAdded ==
  ASSUME NEW ds, AllShaped(ds), NEW lines, ListOf(lines),
         \A k \in DOMAIN lines : Titled(lines[k].title)
  PROVE  LET new == AddedUpTo(ds, lines)[Len(lines)].dirs IN
         /\ AllShaped(new)
         /\ \A i \in DOMAIN new :
              /\ \/ \E j \in DOMAIN ds : /\ new[i].name = ds[j].name
                                         /\ \A s : Holds(ds[j], s) => Holds(new[i], s)
                 \/ \E k \in DOMAIN lines : lines[k].title = new[i].name
              /\ \A k \in DOMAIN lines : lines[k].title = new[i].name => Holds(new[i], lines[k].sid)
  <1> DEFINE g == AddedUpTo(ds, lines)
             N == Len(lines)
             Known(n, i) ==
               \/ \E j \in DOMAIN ds : /\ g[n].dirs[i].name = ds[j].name
                                       /\ \A s : Holds(ds[j], s) => Holds(g[n].dirs[i], s)
               \/ \E k \in 1..n : lines[k].title = g[n].dirs[i].name
             All(n, i) == \A k \in 1..n : lines[k].title = g[n].dirs[i].name =>
                                            Holds(g[n].dirs[i], lines[k].sid)
             There(n) == \A k \in 1..n : \E i \in DOMAIN g[n].dirs : g[n].dirs[i].name = lines[k].title
             P(n) == /\ Adding(g[n])
                     /\ \A i \in DOMAIN g[n].dirs : Known(n, i) /\ All(n, i)
                     /\ There(n)
             S == {n \in Nat : n <= N => P(n)}
  <1>1. N \in Nat /\ DOMAIN lines = 1..N
    BY LenProperties DEF ListOf
  <1>2. /\ g[0] = [dirs |-> ds, number |-> FirstNumber]
        /\ \A n \in 1..N : g[n] = AddEntry(g[n - 1], lines[n])
    BY <1>1, AddedOne
  <1> HIDE DEF g, N
  <1>3. 0 \in S
    <2>1. Adding(g[0]) /\ g[0].dirs = ds
      BY <1>2 DEF Adding
    <2>2. \A i \in DOMAIN ds : Known(0, i)
      BY <2>1
    <2>3. \A k \in 1..0 : FALSE
      OBVIOUS
    <2> QED
      BY <2>1, <2>2, <2>3
  <1>4. ASSUME NEW n \in Nat, n \in S PROVE n + 1 \in S
    <2> SUFFICES ASSUME n + 1 <= N PROVE P(n + 1)
      <3> HIDE DEF P
      <3> QED
        OBVIOUS
    <2>1. /\ n + 1 \in 1..N /\ (n + 1) - 1 = n /\ \A k \in 1..(n + 1) : k \in 1..n \/ k = n + 1
          /\ n + 1 \in 1..(n + 1) /\ \A k \in 1..n : k \in 1..(n + 1)
      BY <1>1
    <2> DEFINE entry == lines[n + 1]
               old == g[n].dirs
               new == g[n + 1].dirs
    <2>2. /\ Adding(g[n])
          /\ \A i \in DOMAIN old : Known(n, i) /\ All(n, i)
          /\ There(n)
      BY <1>1, <1>4
    <2>3. g[n + 1] = AddEntry(g[n], entry) /\ Titled(entry.title)
      BY <1>1, <1>2, <2>1
    <2> HIDE DEF entry
    <2>4. Grows(g[n], entry, g[n + 1])
      BY <2>2, <2>3, EntryAdded
    <2>5. /\ Adding(g[n + 1])
          /\ \A j \in DOMAIN old : j \in DOMAIN new /\ new[j].name = old[j].name
                                   /\ \A s : Holds(old[j], s) => Holds(new[j], s)
          /\ \E i \in DOMAIN new : new[i].name = entry.title
          /\ \A i \in DOMAIN new : new[i].name = entry.title => Holds(new[i], entry.sid)
          /\ \A i \in DOMAIN new \ DOMAIN old :
               new[i].name = entry.title /\ \A j \in DOMAIN old : old[j].name # entry.title
      BY <2>4 DEF Grows
    <2>6. There(n + 1)
      <3>1. \A k \in 1..n : \E i \in DOMAIN new : new[i].name = lines[k].title
        BY <2>2, <2>5
      <3> QED
        BY <2>1, <2>5, <3>1 DEF entry
    <2>7. ASSUME NEW i \in DOMAIN new PROVE Known(n + 1, i) /\ All(n + 1, i)
      <3>1. new[i].name = entry.title => Holds(new[i], entry.sid)
        BY <2>5
      <3>2. CASE i \in DOMAIN old
        <4>1. /\ new[i].name = old[i].name /\ \A s : Holds(old[i], s) => Holds(new[i], s)
              /\ Known(n, i) /\ All(n, i)
          BY <2>2, <2>5, <3>2
        <4>2. Known(n + 1, i)
          BY <2>1, <4>1
        <4>3. \A k \in 1..n : lines[k].title = new[i].name => Holds(new[i], lines[k].sid)
          BY <4>1
        <4> QED
          BY <2>1, <3>1, <4>2, <4>3 DEF entry
      <3>3. CASE i \notin DOMAIN old
        <4>1. new[i].name = entry.title /\ \A j \in DOMAIN old : old[j].name # entry.title
          BY <2>5, <3>3
        <4>2. \A k \in 1..n : lines[k].title # entry.title
          BY <2>2, <4>1
        <4>3. All(n + 1, i)
          BY <2>1, <3>1, <4>1, <4>2 DEF entry
        <4>4. Known(n + 1, i)
          BY <2>1, <4>1 DEF entry
        <4> QED
          BY <4>3, <4>4
      <3> QED
        BY <3>2, <3>3
    <2> QED
      BY <2>5, <2>6, <2>7
  <1>5. N \in S
    BY <1>1, <1>3, <1>4, Counting
  <1>6. P(N)
    BY <1>1, <1>5
  <1> HIDE DEF S
  <1> QED
    BY <1>1, <1>6 DEF Adding, g, N
=============================================================================
