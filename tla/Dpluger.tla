------------------------------ MODULE Dpluger ------------------------------
(***************************************************************************)
(* The maintenance of directives with dpluger: `run' collects the titles   *)
(* of an index into a table of signature IDs and a Logstash filter,        *)
(* `directive' makes directives from the table, `merge-directive' brings   *)
(* them together with the file of a frontend.                              *)
(***************************************************************************)
EXTENDS Directives, SequencesExt

CONSTANTS
  PluginID, FirstNumber, Reliability,   \* parameters of the commands
  Categorised                           \* the titles that have a category in the table

VARIABLES
  index,     \* the titles in the index
  tsv,       \* the table: a title for each signature ID
  unwritten, \* the table has been saved, the filter has not been written yet
  filter,    \* the filter's dictionary: a signature ID for each title
  made,      \* the directive file of `dpluger directive'
  faults     \* history: what a read or a write that failed half-way has reached: the
             \* table, the file of the frontend, the copy of a cluster backend

toolVars == <<index, tsv, unwritten, filter, made, faults>>

-----------------------------------------------------------------------------
(* The table *)

HasTitle(refs, title) == \E s \in DOMAIN refs : refs[s] = title /\ s # 0

AddPlugin(refs, sid, title) ==
  [s \in DOMAIN refs \cup {sid} |-> IF s = sid THEN title ELSE refs[s]]

\* Variant: the next number is taken for a free one.
Upsert_NotFree(st, title) ==
  IF HasTitle(st.refs, title) THEN st
  ELSE [refs |-> AddPlugin(st.refs, st.sid, title), sid |-> st.sid + 1]

\* The first number from n on that is not taken.
NextFree(taken, n) == CHOOSE k \in n..(n + Cardinality(taken)) :
                        k \notin taken /\ \A j \in n..(k - 1) : j \in taken

\* upsert, and the increment by its caller: a known title keeps its ID, a new
\* one gets the next that is free.
Upsert(st, title) ==
  LET free == NextFree(DOMAIN st.refs, st.sid)
  IN  IF HasTitle(st.refs, title)
      THEN [st EXCEPT !.sid = IF @ \in DOMAIN st.refs /\ st.refs[@] = title
                              THEN @ + 1 ELSE @]
      ELSE [refs |-> AddPlugin(st.refs, free, title), sid |-> free + 1]

\* Collect: the titles come in the order of the buckets.
CollectedUpTo(refs, titles) ==
  LET collected[n \in 0..Len(titles)] ==
        IF n = 0 THEN [refs |-> refs, sid |-> 1] ELSE Upsert(collected[n - 1], titles[n])
  IN collected

Collect(refs, titles) == CollectedUpTo(refs, titles)[Len(titles)].refs

\* Of the entries of one title the last one counts.
Dictionary(refs) ==
  [t \in {refs[s] : s \in DOMAIN refs} |->
    CHOOSE s \in DOMAIN refs : refs[s] = t /\ \A r \in DOMAIN refs : refs[r] = t => r <= s]

\* The rows come in the order of their numbers; the reader ends at a row that is
\* not complete.
Remains(refs) == {[s \in {r \in DOMAIN refs : r < n} |-> refs[s]] : n \in DOMAIN refs}

\* The table is saved before the filter is made from it.
SaveRefs ==
  /\ ~unwritten /\ index # {}
  /\ \E titles \in SetToSeqs(index) : tsv' = Collect(tsv, titles)
  /\ unwritten' = TRUE
  /\ UNCHANGED <<index, filter, made, faults>>

\* The table is not opened or not read to its end, which goes unnoticed; or save
\* gives up at some row of the file it has truncated, which ends the command.
SaveFails ==
  /\ ~unwritten /\ index # {}
  /\ \E titles \in SetToSeqs(index) :
       \/ \E read \in Remains(tsv) : tsv' = Collect(read, titles) /\ unwritten' = TRUE
       \/ \E read \in {tsv} \cup Remains(tsv) : /\ tsv' \in Remains(Collect(read, titles))
                                              /\ unwritten' = FALSE
  /\ faults' = faults \cup {"table"}
  /\ UNCHANGED <<index, filter, made>>

\* The filter is written, or an error ends the command before; half a filter is one
\* that Logstash does not take.
WriteFilter ==
  /\ unwritten /\ unwritten' = FALSE
  /\ filter' \in {Dictionary(tsv), filter}
  /\ UNCHANGED <<index, tsv, made, faults>>

-----------------------------------------------------------------------------
(* Directives from the table *)

\* LoadDirectivesFromFile as the tool calls it, disabled directives included: what it
\* has taken after so many directives, and in the end.
LoadedUpTo(ds, includeDisabled) ==
  LET loaded[n \in 0..Len(ds)] ==
        LET before == loaded[n - 1]
        IN  IF n = 0 THEN <<>>
            ELSE IF Taken(ds[n], before, includeDisabled)
                 THEN Append(before, Normal(ds[n])) ELSE before
  IN loaded

Load(ds, includeDisabled) == LoadedUpTo(ds, includeDisabled)[Len(ds)]

Ids(ds) == {ds[i].id : i \in DOMAIN ds}

MadeRule(stage, sid, from, occurrence, reliability) ==
  [stage |-> stage, type |-> "PluginRule", plugin |-> PluginID, sids |-> {sid},
   products |-> {}, category |-> "", subcategories |-> {}, occurrence |-> occurrence,
   reliability |-> reliability, from |-> from, to |-> from,
   portFrom |-> ANY, portTo |-> ANY, custom |-> <<ANY, ANY>>, sticky |-> ""]

AtMost10(n) == IF n > 10 THEN 10 ELSE n

\* The kingdom has a default, the category has none.
NewDirective(id, title, sid) ==
  LET r == IF Reliability < 1 THEN 1 ELSE AtMost10(Reliability) IN
  [id |-> id, name |-> title, filed |-> title \in Categorised, disabled |-> FALSE,
   priority |-> 3, all |-> FALSE,
   rules |-> <<MadeRule(1, sid, ANY, 1, r), MadeRule(2, sid, Ref(1), 10, AtMost10(r + 4)),
               MadeRule(3, sid, Ref(1), 10000, 10)>>]

FirstNamed(ds, name) ==
  {i \in DOMAIN ds : ds[i].name = name /\ \A j \in 1..(i - 1) : ds[j].name # name}

WithSid(r, sid) == [r EXCEPT !.sids = @ \cup {sid}]

\* Variant: only the first rule gets the ID.
AddSid_FirstRule(d, sid) == [d EXCEPT !.rules[1] = WithSid(@, sid)]

AddSid(d, sid) == [d EXCEPT !.rules = [j \in DOMAIN @ |-> WithSid(@[j], sid)]]

\* One line of the table: an existing directive of that name also gets the ID,
\* or a new one gets the next number that is free.
AddEntry(st, entry) ==
  LET known == FirstNamed(st.dirs, entry.title)
      number == NextFree(Ids(st.dirs), st.number)
  IN IF known # {}
     THEN [st EXCEPT !.dirs = [i \in DOMAIN @ |-> IF i \in known THEN AddSid(@[i], entry.sid)
                                                  ELSE @[i]]]
     ELSE [dirs |-> Append(st.dirs, NewDirective(number, entry.title, entry.sid)),
           number |-> number + 1]

\* The lines of the table as save sorts them, without those that are skipped.
Lines(refs) ==
  LET sids == {s \in DOMAIN refs : s # 0 /\ refs[s] # ""}
  IN {[i \in DOMAIN order |-> [sid |-> order[i], title |-> refs[order[i]]]] :
       order \in {o \in SetToSeqs(sids) : \A i, j \in DOMAIN o : i < j => o[i] < o[j]}}

AddedUpTo(ds, lines) ==
  LET added[n \in 0..Len(lines)] ==
        IF n = 0 THEN [dirs |-> ds, number |-> FirstNumber] ELSE AddEntry(added[n - 1], lines[n])
  IN added

\* CreateDirective: what is in the file is loaded first, then it is overwritten.  A
\* table that is not read to its end counts as it is; a file that is not written to
\* its end cannot be read, and has to be removed.
CreateDirective ==
  /\ tsv # <<>>
  /\ \E read \in {tsv} \cup Remains(tsv) : \E lines \in Lines(read) :
       /\ made' \in {AddedUpTo(Load(made, TRUE), lines)[Len(lines)].dirs, <<>>}
       /\ faults' = IF read = tsv THEN faults ELSE faults \cup {"table"}
  /\ UNCHANGED <<index, tsv, unwritten, filter>>

-----------------------------------------------------------------------------
(* Merging *)

\* newDirectives: those of the target whose ID the file does not have.
NewUpTo(ds, target) ==
  LET new[n \in 0..Len(target)] ==
        IF n = 0 THEN <<>>
        ELSE IF target[n].id \in Ids(ds) THEN new[n - 1] ELSE Append(new[n - 1], target[n])
  IN new

\* Variant: the position in the wrong file is used.
MergeDirectives_ByPosition(ds, target, accepted) ==
  [i \in DOMAIN ds |->
    IF i \in accepted /\ target[i].id \in Ids(ds) THEN target[i] ELSE ds[i]]
  \o NewUpTo(ds, target)[Len(target)]

LastOf(ds, id) == CHOOSE i \in DOMAIN ds : /\ ds[i].id = id
                                          /\ \A j \in DOMAIN ds : ds[j].id = id => j <= i

\* The positions in the target whose directive has an ID that the file has.
Prompted(ds, target) == {k \in DOMAIN target : target[k].id \in Ids(ds)}

\* mergeDirectives: of the directives that are prompted for those at the positions
\* `accepted' replace the last one with their ID, the others are dropped; a directive
\* is never found to be equal, as compareDirective takes an empty list of differences
\* for one.
MergeDirectives(ds, target, accepted) ==
  [i \in DOMAIN ds |->
    LET replacing == {k \in accepted : target[k].id = ds[i].id} IN
    IF replacing # {} /\ i = LastOf(ds, ds[i].id) THEN target[Max(replacing)] ELSE ds[i]]
  \o NewUpTo(ds, target)[Len(target)]

\* A title appears in the index.
NewTitle(t) ==
  /\ t \notin index
  /\ index' = index \cup {t}
  /\ UNCHANGED <<tsv, unwritten, filter, made, faults>>

ToolNext(titles) ==
  \/ SaveRefs \/ SaveFails \/ WriteFilter \/ CreateDirective
  \/ \E t \in titles : NewTitle(t)

-----------------------------------------------------------------------------
(* Properties *)

\* "All of the previously detected titles will retain their SID number", however
\* the titles of the index are ordered in each run; but only as long as the table
\* has always been read and saved to its end.
SIDsRetained ==
  [][\A s \in DOMAIN tsv : \/ s \in DOMAIN tsv' /\ tsv'[s] = tsv[s]
                           \/ "table" \in faults']_tsv
=============================================================================
