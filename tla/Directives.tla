----------------------------- MODULE Directives -----------------------------
(* From a directive file to an open backlog: directives are validated as    *)
(* they are loaded (LoadDirectivesFromFile, ValidateDirective), then an      *)
(* event that matches the first rule of a directive opens a backlog whose    *)
(* references are resolved for that event (createNewBackLog,                 *)
(* initBackLogRules).  Deployment adds the start-up around it.               *)
EXTENDS RuleMatching

CONSTANTS
  Events,          \* the events that may arrive
  NoBacklog

VARIABLES
  phase,    \* how far serverCmd has come, or how the process ended
  assets,   \* asset.assets
  files,    \* directives that are still to be read
  dirs,     \* res.Dirs, then uCases.Dirs
  bl        \* a backlog that has been opened, with its copy of the rules

loadVars == <<phase, assets, files, dirs, bl>>

home == HomeNet(assets)

RuleTypes == {"PluginRule", "TaxonomyRule"}

-----------------------------------------------------------------------------
(* Validation *)

AssetValid(a) == a.parsed /\ a.value # 0 /\ a.named

ReferenceValid_AnyNumber(f, first, n) == f.kind = "ref" /\ ~first /\ f.to >= 1

ReferenceValid(f, first, n) == f.kind = "ref" /\ ~first /\ f.to >= 1 /\ f.to < n

FromToValid(f, first, n) ==
  \/ Open(f)
  \/ ReferenceValid(f, first, n)
  \/ f.kind = "list" /\ \A i \in DOMAIN f.terms : f.terms[i].set \subseteq Addresses

\* An empty port is accepted; no event has it.  A text with a colon is no port.
PortValid(f, first, n) ==
  \/ f \in {ANY, Unset}
  \/ ReferenceValid(f, first, n)
  \/ f.kind = "list" /\ ~Numbered(f) /\ \A i \in DOMAIN f.terms : f.terms[i].set \subseteq 2..65534

RuleValid(r, n) ==
  /\ r.stage # 0
  /\ r.type \in RuleTypes
  /\ r.type = "PluginRule" => r.plugin >= 1 /\ r.sids # {} /\ \A s \in r.sids : s >= 1
  /\ r.type = "TaxonomyRule" => r.products # {} /\ r.category # ""
  /\ FromToValid(r.from, r.stage = 1, n) /\ FromToValid(r.to, r.stage = 1, n)
  /\ PortValid(r.portFrom, r.stage = 1, n) /\ PortValid(r.portTo, r.stage = 1, n)

DirectiveValid(d, loaded) ==
  /\ \A i \in DOMAIN loaded : loaded[i].id # d.id
  /\ d.name # "" /\ d.filed                   \* kingdom and category
  /\ Len(d.rules) > 1
  /\ \A i, j \in DOMAIN d.rules : d.rules[i].stage = d.rules[j].stage => i = j
  /\ \A i \in DOMAIN d.rules : RuleValid(d.rules[i], Len(d.rules))

NormalRule(r) ==
  [r EXCEPT !.occurrence = IF r.stage = 1 THEN 1 ELSE @,
            !.reliability = IF @ < 0 THEN 0 ELSE IF @ > 10 THEN 10 ELSE @]

Normal_KeepPriority(d) ==
  [d EXCEPT !.rules = [i \in DOMAIN @ |-> NormalRule(@[i])]]

Normal(d) ==
  [d EXCEPT !.priority = IF @ \in 1..5 THEN @ ELSE 1,
            !.rules = [i \in DOMAIN @ |-> NormalRule(@[i])]]

-----------------------------------------------------------------------------
(* Opening a backlog *)

\* The values a reference to an open field stands for; for the custom fields
\* the content.
Fields == {"from", "to", "portFrom", "portTo"}

EventField(e, f) == CASE f = "from"     -> e.src
                      [] f = "to"       -> e.dst
                      [] f = "portFrom" -> e.srcPort
                      [] f = "portTo"   -> e.dstPort

Resolve_AsConfigured(fields, value) ==
  [i \in DOMAIN fields |->
    IF i = 1 \/ ~Numbered(fields[i]) THEN fields[i]
    ELSE LET f == fields[fields[i].to] IN IF Open(f) THEN Exactly(value) ELSE f]

\* initBackLogRules rewrites a field rule by rule: a reference, or an address that
\* is taken for one, becomes what the rule it names holds by then, or the event's
\* value if that is open.  One to itself, or to a later reference, stays.
Resolve(fields, value) ==
  LET resolved[i \in DOMAIN fields] ==
        IF i = 1 \/ ~Numbered(fields[i]) THEN fields[i]
        ELSE LET k == fields[i].to
                 f == IF k < i THEN resolved[k] ELSE fields[k]
             IN  IF Open(f) THEN Exactly(value) ELSE f
  IN resolved

\* With all_rules_always_active the first rule is bound to the event's addresses.
Bind(d, f, value) == IF d.all /\ Open(f) THEN Exactly(value) ELSE f

BoundField(d, e, f) ==
  [i \in DOMAIN d.rules |-> IF i = 1 /\ f \in {"from", "to"}
                            THEN Bind(d, d.rules[1][f], EventField(e, f))
                            ELSE d.rules[i][f]]

CustomFields(d, k) == [i \in DOMAIN d.rules |-> d.rules[i].custom[k]]

InitRules(d, e) ==
  [i \in DOMAIN d.rules |->
    [d.rules[i] EXCEPT
       !.from     = Resolve(BoundField(d, e, "from"), e.src)[i],
       !.to       = Resolve(BoundField(d, e, "to"), e.dst)[i],
       !.portFrom = Resolve(BoundField(d, e, "portFrom"), e.srcPort)[i],
       !.portTo   = Resolve(BoundField(d, e, "portTo"), e.dstPort)[i],
       !.custom   = [k \in DOMAIN @ |-> Resolve(CustomFields(d, k), e.custom[k])[i]]]]

BeyondRules(f, n) == Numbered(f) /\ f.to \notin 1..n

\* The rewriting indexes the rules with every number of a later rule.
OutOfRange(d) ==
  \E i \in DOMAIN d.rules \ {1} :
    \/ \E f \in Fields : BeyondRules(d.rules[i][f], Len(d.rules))
    \/ \E k \in DOMAIN d.rules[i].custom : BeyondRules(d.rules[i].custom[k], Len(d.rules))

-----------------------------------------------------------------------------
(* LoadDirectivesFromFile: a disabled or invalid directive is skipped. *)

\* A record or a list, whatever its values.
Record(r, fields) == r = [x \in DOMAIN r |-> r[x]] /\ fields \subseteq DOMAIN r
ListOf(s) == s \in Seq({s[i] : i \in DOMAIN s})

RuleDecoded(r) ==
  /\ Record(r, Fields \cup {"stage", "type", "plugin", "sids", "products", "category",
                           "subcategories", "occurrence", "reliability", "custom", "sticky"})
  /\ \A f \in Fields : /\ r[f].kind = "ref" => Numbered(r[f])
                       /\ Numbered(r[f]) => r[f].to \in Int

DirectiveDecoded(d) ==
  /\ Record(d, {"id", "name", "filed", "disabled", "priority", "all", "rules"})
  /\ ListOf(d.rules) /\ \A i \in DOMAIN d.rules : RuleDecoded(d.rules[i])
  /\ \A i, j \in DOMAIN d.rules : DOMAIN d.rules[i].custom = DOMAIN d.rules[j].custom

\* json.Unmarshal accepts what has the types of the Go structs: lists of records with
\* all their fields; the number of a reference is an int.
Decoded(ds) == ListOf(ds) /\ \A i \in DOMAIN ds : DirectiveDecoded(ds[i])

Taken(d, loaded, includeDisabled) ==
  /\ d.disabled => includeDisabled
  /\ DirectiveValid(d, loaded)

Accept ==
  /\ phase = "load" /\ files # <<>> /\ Taken(Head(files), dirs, FALSE)
  /\ dirs' = Append(dirs, Normal(Head(files)))
  /\ files' = Tail(files)
  /\ UNCHANGED <<phase, assets, bl>>

Skip ==
  /\ phase = "load" /\ files # <<>> /\ ~Taken(Head(files), dirs, FALSE)
  /\ files' = Tail(files)
  /\ UNCHANGED <<phase, assets, dirs, bl>>

\* An empty result ends the process; else the copier and the managers start.
InitDirectives ==
  /\ phase = "load" /\ files = <<>>
  /\ phase' = IF dirs = <<>> THEN "exit" ELSE "alarm"
  /\ UNCHANGED <<assets, files, dirs, bl>>

\* The copier drops what comes from a whitelisted address; the manager checks
\* the pairs, then the first rule.
Opens(d, e) ==
  /\ e.src \notin Whitelist(assets)
  /\ QuickCheck(d.rules, e)
  /\ DoesEventMatch(e, d.rules[1], home)

CreateNewBackLog(i, e) ==
  /\ bl = NoBacklog
  /\ Opens(dirs[i], e) /\ ~OutOfRange(dirs[i])
  /\ e.dated                                    \* else an error, no backlog
  /\ bl' = [dir |-> i, opener |-> e, rules |-> InitRules(dirs[i], e),
            named |-> <<HasName(assets, e.src), HasName(assets, e.dst)>>]
  /\ UNCHANGED <<phase, assets, files, dirs>>

IndexPanic(i, e) ==
  /\ Opens(dirs[i], e) /\ OutOfRange(dirs[i])
  /\ phase' = "panic"
  /\ UNCHANGED <<assets, files, dirs, bl>>

\* The backlog has ended.
Delete ==
  /\ bl # NoBacklog /\ bl' = NoBacklog
  /\ UNCHANGED <<phase, assets, files, dirs>>

-----------------------------------------------------------------------------
(* Properties *)

\* What is loaded has been normalised; a backlog belongs to a loaded directive.
LoadTypeOK ==
  /\ \A i \in DOMAIN dirs : dirs[i].priority \in 1..5 /\ Len(dirs[i].rules) > 1
  /\ phase \in {"alarm", "manager", "run", "panic"} => dirs # <<>>
  /\ bl # NoBacklog => bl.dir \in DOMAIN dirs /\ bl.opener \in Events

\* The model of a backlog rests on this: the first rule is complete with its
\* first event, and a rule with a sticky field records the value of every event
\* it matches, or the event would never count.  Loading ensures it where the
\* first rule has stage 1, and for the fields the rule's type looks at.
BacklogAssumption ==
  bl # NoBacklog =>
    \A i \in DOMAIN bl.rules :
      LET r == bl.rules[i] IN
      /\ i = 1 /\ r.stage = 1 => r.occurrence = 1
      /\ \A e \in Events :
           /\ DoesEventMatch(e, r, home)
           /\ \/ r.sticky \in AddressFields
              \/ r.sticky \in {"PLUGIN_SID", "CUSTOM_DATA"} /\ r.type = "PluginRule"
           => Recorded(e, r, home)

\* The rules whose field f leads to the first rule or to one that is open,
\* directly or through earlier rules.
Followers(rules, f) ==
  LET follows[i \in DOMAIN rules] ==
        LET k == rules[i][f].to
        IN  /\ i > 1 /\ rules[i][f].kind = "ref"
            /\ k = 1 \/ Open(rules[k][f]) \/ (k < i /\ follows[k])
  IN {i \in DOMAIN rules : follows[i]}

Passes(f, field, v) == IF f \in {"from", "to"} THEN v \in Addresses => AddressMatch(field, v, home)
                       ELSE TextMatch(field, v)

\* ":1" means the value that matched in the first rule: every field that follows
\* it lets the opener's value pass, and only that value if the first rule is
\* open, so that later events are held to the host the backlog was opened for.
\* The first rule itself, as rewritten for all_rules_always_active, still matches
\* the opener, if its addresses can be parsed.
ReferencesFollowOpener ==
  bl # NoBacklog =>
    LET d == dirs[bl.dir] IN
    /\ {bl.opener.src, bl.opener.dst} \subseteq Addresses
         => DoesEventMatch(bl.opener, bl.rules[1], home)
    /\ \A f \in Fields : \A i \in Followers(d.rules, f) :
         Passes(f, bl.rules[i][f], EventField(bl.opener, f))
    /\ \A i \in DOMAIN d.rules \ {1} : d.rules[i].from = Ref(1) /\ Open(d.rules[1].from) =>
         \A a \in Addresses \ {bl.opener.src} : ~AddressMatch(bl.rules[i].from, a, home)

\* No event that some rule of a directive matches is kept from it by the quick
\* check, unless the directive mixes taxonomy rules with plugin pairs.
QuickCheckSound ==
  \A i \in DOMAIN dirs : \A e \in Events :
    LET rules == dirs[i].rules IN
    /\ SidRules(rules) # {} => \A j \in DOMAIN rules : rules[j].type = "PluginRule"
    /\ \E j \in DOMAIN rules : DoesEventMatch(e, rules[j], home)
    => QuickCheck(rules, e)

\* The loop over the terms of a list means what its comment says, as long as
\* no value is both asked for and excluded; then the order is immaterial.
ListsMeanTheirComment ==
  \A i \in DOMAIN dirs : \A j \in DOMAIN dirs[i].rules :
    \A f \in {dirs[i].rules[j].from, dirs[i].rules[j].to} :
      f.kind = "list" /\ Consistent(f.terms) =>
        \A a \in Addresses : ListMatch(f.terms, a) <=> ListMeaning(f.terms, a)
=============================================================================
