---------------------------- MODULE RuleMatching ----------------------------
(* What a rule asks of an event (rule/rule.go), and the assets it asks about *)
(* (asset/asset.go).  A CIDR is the set of its addresses; a text is the set  *)
(* of the texts the comparison takes for equal.                              *)
EXTENDS Integers, Sequences

CONSTANT Addresses   \* the addresses that can be parsed

\* The forms of a field of a rule: empty, ANY, HOME_NET, !HOME_NET, a reference to
\* the same field of rule `to', a list of terms, a term that RefToDigit takes for
\* a reference as well: what is left of the address 2600:: without its colons is
\* a number.
Unset     == [kind |-> "unset"]
ANY       == [kind |-> "any"]
Home      == [kind |-> "home"]
NotHome   == [kind |-> "nothome"]
Ref(n)    == [kind |-> "ref", to |-> n]
List(ts)  == [kind |-> "list", terms |-> ts]
Digits(n, ts) == [kind |-> "list", terms |-> ts, to |-> n]
Term(inverse, set) == [inverse |-> inverse, set |-> set]
Exactly(v) == List(<<Term(FALSE, {v})>>)

Open(f) == f \in {ANY, Home, NotHome}
Numbered(f) == "to" \in DOMAIN f    \* what RefToDigit accepts

-----------------------------------------------------------------------------
(* Assets: records with the addresses, the value, whether there is a name,  *)
(* the whitelist flag and whether the network is a single host.             *)

Listed(assets, whitelisted) ==
  UNION {a.cidr : a \in {x \in assets : x.whitelisted = whitelisted}}

HomeNet(assets)   == Listed(assets, FALSE)
Whitelist(assets) == Listed(assets, TRUE)

Containing(assets, ip) == {a \in assets : ~a.whitelisted /\ ip \in a.cidr}

\* The name of the host, "" if only networks contain the address.
HasName(assets, ip) == \E a \in Containing(assets, ip) : a.host

-----------------------------------------------------------------------------
(* Lists *)

Hits(ts, v) == {i \in DOMAIN ts : v \in ts[i].set}

ListMatch_PlainOnly(ts, v) ==
  \E i \in Hits(ts, v) : ~ts[i].inverse /\ \A j \in Hits(ts, v) : ts[j].inverse => i < j

\* The loop ends at the first term that is hit; without one the value passes
\* if there is an inverse term.
ListMatch(ts, v) ==
  \/ Hits(ts, v) = {} /\ \E i \in DOMAIN ts : ts[i].inverse
  \/ \E i \in Hits(ts, v) : /\ ~ts[i].inverse
                            /\ \A j \in Hits(ts, v) : ts[j].inverse => i < j

\* "AND all inverse rules, and then OR the result with all the non-inverse
\* rules", as the loop is described.
ListMeaning(ts, v) ==
  LET inverse == {i \in DOMAIN ts : ts[i].inverse} IN
  \/ inverse # {} /\ \A i \in inverse : v \notin ts[i].set
  \/ \E i \in DOMAIN ts \ inverse : v \in ts[i].set

\* No value of the list is both asked for and excluded.
Consistent(ts) ==
  \A i, j \in DOMAIN ts : ts[i].inverse /\ ~ts[j].inverse => ts[i].set \cap ts[j].set = {}

-----------------------------------------------------------------------------
(* A rule and an event *)

\* isNetAddrMatchCSVRule, with the words ipPortCheck handles itself.
AddressMatch(f, ip, home) ==
  \/ f = ANY
  \/ f = Home /\ ip \in home
  \/ f = NotHome /\ ip \notin home
  \/ f.kind = "list" /\ ip \in Addresses /\ ListMatch(f.terms, ip)

\* isStringMatchCSVRule and matchText; a reference is not the text of an event.
TextMatch(f, v) == f = ANY \/ (f.kind = "list" /\ ListMatch(f.terms, v))

IpPortMatch(e, r, home) ==
  /\ AddressMatch(r.from, e.src, home)
  /\ AddressMatch(r.to, e.dst, home)
  /\ TextMatch(r.portFrom, e.srcPort)
  /\ TextMatch(r.portTo, e.dstPort)

SidMatch(e, r) == e.plugin = r.plugin /\ e.sid \in r.sids

ProductMatch(e, r) == e.product \in r.products /\ e.category = r.category

TaxonomyMatch(e, r) ==
  /\ ProductMatch(e, r)
  /\ r.subcategories = {} \/ r.subcategories \cap {e.subcategory, "ANY"} # {}

CustomMatch(e, r) ==
  \A i \in DOMAIN r.custom : r.custom[i] = Unset \/ TextMatch(r.custom[i], e.custom[i])

\* What is checked before addresses and ports.
KeyMatch(e, r) == \/ r.type = "PluginRule" /\ SidMatch(e, r)
                  \/ r.type = "TaxonomyRule" /\ TaxonomyMatch(e, r)

DoesEventMatch(e, r, home) ==
  /\ KeyMatch(e, r) /\ IpPortMatch(e, r, home)
  /\ r.type = "PluginRule" => CustomMatch(e, r)

AddressFields == {"SRC_IP", "DST_IP", "SRC_PORT", "DST_PORT"}

Recorded_PluginOnly(e, r, home) ==
  /\ r.type = "PluginRule" /\ KeyMatch(e, r)
  /\ \/ r.sticky \in AddressFields /\ IpPortMatch(e, r, home)
     \/ r.sticky = "PLUGIN_SID"
     \/ r.sticky = "CUSTOM_DATA" /\ IpPortMatch(e, r, home)

\* Whether the value of the event is in the sticky list of the rule after the
\* check, which may fail later.
Recorded(e, r, home) ==
  /\ KeyMatch(e, r)
  /\ \/ r.sticky \in AddressFields /\ IpPortMatch(e, r, home)
     \/ r.sticky = "PLUGIN_SID" /\ r.type = "PluginRule"
     \/ r.sticky = "CUSTOM_DATA" /\ r.type = "PluginRule" /\ IpPortMatch(e, r, home)

-----------------------------------------------------------------------------
(* The quick check of a directive: the pairs of its rules *)

SidRules_First(rules) == {i \in {1} : rules[i].plugin # 0 /\ rules[i].sids # {}}

SidRules(rules) == {i \in DOMAIN rules : rules[i].plugin # 0 /\ rules[i].sids # {}}
TaxoRules(rules) == {i \in DOMAIN rules : rules[i].products # {} /\ rules[i].category # ""}

\* Taxonomy pairs are only looked at when no rule has a plugin pair.
QuickCheck(rules, e) ==
  IF SidRules(rules) # {} THEN \E i \in SidRules(rules) : SidMatch(e, rules[i])
  ELSE TaxoRules(rules) # {} => \E i \in TaxoRules(rules) : ProductMatch(e, rules[i])
=============================================================================
