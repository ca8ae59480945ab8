---------------------------- MODULE MCDeployment ----------------------------
(* Small configurations for Deployment: one address of the home network, one *)
(* of outside, one whitelisted; directives that differ from a plain one in   *)
(* the way a configuration may; uploads and downloads of a few versions; an  *)
(* index with two titles.                                                    *)
EXTENDS Deployment

CONSTANTS in, out, listed, bad, t1, t2

MCAddresses == {in, out, listed}

Asset(cidr, value) == [cidr |-> cidr, value |-> value, parsed |-> TRUE, named |-> TRUE,
                       whitelisted |-> FALSE, host |-> FALSE]
Lan == Asset({in, listed}, 2)
Host == [Asset({in}, 5) EXCEPT !.host = TRUE]
Scanner == [Asset({listed}, 1) EXCEPT !.whitelisted = TRUE]

AssetFiles == {<<Lan, Host, Scanner>>, <<Lan>>, <<Lan, Asset({out}, 0)>>}

Anything == [i \in 1..2 |-> ANY]

Rule(n) == [stage |-> n, type |-> "PluginRule", plugin |-> 1, sids |-> {n},
            products |-> {}, category |-> "", subcategories |-> {},
            occurrence |-> 2, reliability |-> 5, from |-> ANY, to |-> ANY,
            portFrom |-> ANY, portTo |-> ANY, custom |-> Anything, sticky |-> ""]

Taxo(n) == [Rule(n) EXCEPT !.type = "TaxonomyRule", !.plugin = 0, !.sids = {},
                           !.products = {"fw"}, !.category = "deny", !.sticky = "SRC_IP",
                           !.subcategories = IF n = 1 THEN {} ELSE {"ANY"}]

Plain == [id |-> 1, name |-> "plain", filed |-> TRUE, disabled |-> FALSE, priority |-> 5,
          all |-> FALSE, rules |-> <<Rule(1), Rule(2), Rule(3)>>]

With(f, i, v) == [Plain EXCEPT !.rules[i][f] = v]
NotIn == Term(TRUE, {in})
Inside == Term(FALSE, {in, listed})
Outside == Term(FALSE, {out})

\* Directives that are taken, some of them changed.
Good == {
  Plain,
  [Plain EXCEPT !.id = 2, !.priority = 9, !.rules = <<Taxo(1), Taxo(2)>>],
  [Plain EXCEPT !.id = 2, !.rules = <<Taxo(1), Rule(2)>>],
  [Plain EXCEPT !.all = TRUE, !.rules[1].from = Home, !.rules[2].from = Ref(1),
                !.rules[2].portTo = Ref(1), !.rules[2].reliability = -1],
  [Plain EXCEPT !.rules[1].from = List(<<NotIn, Outside>>), !.rules[2].from = Ref(1),
                !.rules[2].to = Ref(2), !.rules[3].from = Ref(2)],
  [With("from", 1, List(<<NotIn, Inside>>)) EXCEPT !.rules[3].portTo = Ref(2)],
  [With("to", 1, NotHome) EXCEPT !.rules[1].sticky = "DST_IP", !.rules[2].sticky = "PLUGIN_SID",
                !.rules[3].sticky = "CUSTOM_DATA", !.rules[3].reliability = 12],
  With("custom", 2, <<Ref(1), Exactly("x")>>),
  With("custom", 2, <<Ref(9), ANY>>),
  With("from", 2, Ref(2)),
  With("from", 2, Digits(2, <<Outside>>)), With("from", 2, Digits(9, <<Outside>>)),
  With("to", 2, List(<<>>)), With("portTo", 2, Unset),
  [With("custom", 1, <<Unset, Exactly("y")>>) EXCEPT !.rules[2].custom = <<Ref(1), Unset>>],
  [Plain EXCEPT !.rules = <<Rule(1), Rule(2), Rule(3), Rule(4)>>, !.rules[2].from = Ref(3)],
  [With("stage", 1, 2) EXCEPT !.rules[2].stage = 1, !.rules[1].from = Ref(2)],
  With("portTo", 1, Exactly(80)) }

\* Directives that are skipped.
Refused == {
  [Plain EXCEPT !.disabled = TRUE], [Plain EXCEPT !.name = ""], [Plain EXCEPT !.filed = FALSE],
  [Plain EXCEPT !.rules = <<Rule(1)>>], With("stage", 2, 1), With("stage", 2, 0),
  With("type", 1, "Rule"), With("plugin", 1, 0), With("sids", 2, {}), With("sids", 2, {0}),
  [Plain EXCEPT !.rules = <<Taxo(1), [Taxo(2) EXCEPT !.category = ""]>>],
  With("from", 1, Ref(1)), With("from", 2, Ref(4)), With("to", 2, Ref(3)),
  With("from", 1, Unset), With("to", 1, Exactly(bad)), With("portTo", 2, Exactly(65535)) }

Loaded(as, ds) == [f \in Files |-> CASE f = "assets" -> Doc(as) [] f = "directives" -> Doc(ds)
                                     [] f = "intel" -> Doc(<<>>)]

Config(m, c, offers, titles, refs) ==
  [mode |-> m, conf |-> c, offers |-> offers, titles |-> titles, tsv |-> refs,
   mixes |-> {}, targets |-> {}]

\* What may be in the files, read by a standalone process;
Contents ==
  {Config("standalone", Loaded(as, pre \o <<d>>), {}, {}, <<>>) :
     as \in AssetFiles, pre \in {<<>>, <<Plain>>}, d \in Good \cup Refused}
  \cup {Config("standalone", [Loaded(<<Lan>>, <<Plain>>) EXCEPT ![f] = c], {}, {}, <<>>) :
          f \in Files, c \in {NoFile, Empty, Garbage}}

\* events in a cluster backend;
InCluster == {Config("cluster-backend", Loaded(<<Lan, Scanner>>, <<d>>), {}, {}, <<>>) :
                d \in {Plain, With("custom", 2, <<Ref(9), ANY>>)}}

\* uploads, downloads and deletions;
Quiet == [Plain EXCEPT !.rules = [i \in 1..2 |-> [Rule(i) EXCEPT !.plugin = 3]]]
Other == [Quiet EXCEPT !.id = 2]
Offers == {[file |-> "directives", value |-> <<Other, Quiet>>],
           [file |-> "directives", value |-> <<[Other EXCEPT !.name = ""]>>]}
NoIntel(ds) == [Loaded(<<Lan>>, ds) EXCEPT !["intel"] = NoFile]
Mixed == {[file |-> "directives", value |-> <<[Quiet EXCEPT !.id = 3]>>]}
Uploads == {Config(m, NoIntel(<<Quiet>>), Offers, {}, <<>>) : m \in {"standalone", "cluster-backend"}}
  \cup {[Config("cluster-backend", NoIntel(<<Quiet>>), {o \in Offers : Len(o.value) = 2}, {}, <<>>)
           EXCEPT !.mixes = Mixed]}

\* dpluger, with IDs that meet those of the file: where all are at work, where the
\* tables get more titles and no process starts, and where merge-directive is given
\* directives that are not valid, those it has made itself and those of another file.
Titles == {Config("cluster-backend", NoIntel(<<Quiet, Other>>), {}, {t1}, <<>>),
           Config("standalone", NoIntel(<<Other>>), {}, {t1}, (2 :> t1) @@ (5 :> t1)),
           Config("standalone", [NoIntel(<<>>) EXCEPT !["assets"] = NoFile], {}, {t1, t2},
                  (1 :> t1) @@ (3 :> t1)),
           [Config("standalone", NoIntel(<<Quiet, Other>>), {}, {t2}, <<>>)
              EXCEPT !.targets = {<<[Other EXCEPT !.name = ""], [Quiet EXCEPT !.id = 3], Other>>}]}

MCCategorised == {t1}

MCSetups == Contents \cup InCluster \cup Uploads \cup Titles

\* Events of both kinds.
Event(src, dst, sid, port, dated) ==
  [src |-> src, dst |-> dst, srcPort |-> 1, dstPort |-> port, plugin |-> 1, sid |-> sid,
   product |-> "fw", category |-> "deny", subcategory |-> "tcp",
   custom |-> <<"x", "y">>, dated |-> dated]

MCEvents ==
  {Event(s, t, sid, port, TRUE) : s \in {in, out, listed, bad}, t \in {in, out},
                                  sid \in 1..2, port \in {80, 81}}
  \cup {Event(out, in, 1, 80, FALSE), [Event(in, out, 1, 80, TRUE) EXCEPT !.plugin = 0]}
=============================================================================
