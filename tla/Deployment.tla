----------------------------- MODULE Deployment -----------------------------
(***************************************************************************)
(* From the configuration of a frontend to a running backend: the handlers *)
(* that upload, delete and serve configuration files (server/handler.go),  *)
(* the download a cluster backend starts with (worker.go), the order in    *)
(* which serverCmd starts the parts of the process (cmd/dsiem/main.go),    *)
(* restarts, and the directives dpluger makes.  A standalone process reads *)
(* the directory it serves; in a cluster the frontend is always up.        *)
(***************************************************************************)
EXTENDS Dpluger

CONSTANTS
  Setups,      \* what a run begins with: records with mode, conf, offers, titles, tsv;
               \* mixes: what the head of one version and the tail of another decode to;
               \* targets: files merge-directive may be given
  MaxWriters   \* bound: uploads at the same time

FileOrder == <<"assets", "directives", "intel">>   \* as ReadDir sorts the names
Files == {FileOrder[i] : i \in 1..3}

\* A file is absent, empty once it has been truncated, no JSON, or a document.
NoFile == [kind |-> "none"]
Empty == [kind |-> "empty"]
Garbage == [kind |-> "garbage"]
Doc(v) == [kind |-> "doc", value |-> v]

FileKinds == {"none", "empty", "garbage", "doc"}

\* The directories, and a table as dpluger saves it: it takes numbers from 1 on.
ASSUME SetupsAssumption ==
  \A s \in Setups :
    /\ Record(s.conf, Files) /\ \A f \in Files : s.conf[f].kind \in FileKinds
    /\ Record(s.tsv, {}) /\ IsFiniteSet(DOMAIN s.tsv) /\ DOMAIN s.tsv \subseteq Nat \ {0}

\* The directives that are there without dpluger have names that are no titles.
ASSUME NamesAssumption ==
  \A s \in Setups :
    LET apart(ds) == \A i \in DOMAIN ds : ds[i].name \notin s.titles \cup {s.tsv[n] : n \in DOMAIN s.tsv}
    IN  /\ s.conf["directives"].kind = "doc" => apart(s.conf["directives"].value)
        /\ \A o \in s.offers : o.file = "directives" => apart(o.value)
        /\ \A target \in s.targets : apart(target)

NoMerge == [base |-> <<>>, accepted |-> {}, result |-> <<>>]

VARIABLES
  setup,
  conf,     \* the configuration directory of the frontend
  writers,  \* handleConfFileUpload between OpenFile and Write
  local,    \* the configuration directory of a cluster backend
  todo,     \* downloadConfigFiles: the files that are still to be fetched
  broken,   \* its err
  served,   \* history: versions of the directive file during this start, if listed
  merge     \* `dpluger merge-directive' between Get and Post

vars == <<loadVars, toolVars, setup, conf, writers, local, todo, broken, served, merge>>
frontVars == <<conf, writers>>
workerVars == <<local, todo, broken>>

mode == setup.mode
Standalone == mode = "standalone"

DeploymentTypeOK ==
  /\ LoadTypeOK
  /\ phase \in {"list", "download", "assets", "intel", "directives", "load", "alarm",
                "manager", "run", "exit", "panic", "nilmap"}
  /\ \A f \in Files : {conf[f].kind, local[f].kind} \subseteq FileKinds
  /\ phase = "list" => ~Standalone
  /\ faults \subseteq {"table", "file", "copy"}

Init ==
  /\ setup \in Setups
  /\ phase = IF Standalone THEN "assets" ELSE "list"
  /\ assets = {} /\ files = <<>> /\ dirs = <<>> /\ bl = NoBacklog
  /\ conf = setup.conf /\ writers = {}
  /\ local = [f \in Files |-> NoFile] /\ todo = {} /\ broken = FALSE /\ served = {}
  /\ index = {} /\ tsv = setup.tsv /\ unwritten = FALSE /\ filter = <<>> /\ made = <<>>
  /\ faults = {} /\ merge = NoMerge

-----------------------------------------------------------------------------
(* The frontend *)

Serving == Standalone => phase = "run"
Mixes(f) == {m.value : m \in {x \in setup.mixes : x.file = f}}

\* What the backend could have been served while it starts.
Noted == served' = IF phase = "download" /\ served # {}
                   THEN served \cup {conf'["directives"]} ELSE served

\* OpenFile truncates the file once the content has been decoded and found to have
\* an entry, whatever the entry is worth.
OpenFile(f, v) ==
  /\ Serving /\ Cardinality(writers) < MaxWriters
  /\ v # <<>>
  /\ conf' = [conf EXCEPT ![f] = Empty]
  /\ writers' = writers \cup {[file |-> f, value |-> v]}

HandleConfFileUpload ==
  /\ \E o \in setup.offers : OpenFile(o.file, o.value)
  /\ Noted /\ UNCHANGED <<loadVars, toolVars, setup, workerVars, merge>>

\* The whole content is written; where two uploads overlap the longer one keeps its
\* tail.
Write(w) ==
  /\ Serving
  /\ writers' = writers \ {w}
  /\ conf' \in {[conf EXCEPT ![w.file] = c] :
                  c \in IF conf[w.file] = Empty THEN {Doc(w.value)} ELSE {Doc(w.value), Garbage}}
  /\ Noted /\ UNCHANGED <<loadVars, toolVars, setup, workerVars, merge>>

\* f.Write ends with an error, after nothing or after the head of the content, which
\* is put in front of what another upload has written since.
WriteFails(w) ==
  /\ Serving
  /\ writers' = writers \ {w}
  /\ \E c \in {conf[w.file], Garbage} \cup {Doc(v) : v \in Mixes(w.file)} :
       /\ conf[w.file] = Empty => c \in {Empty, Garbage}
       /\ conf' = [conf EXCEPT ![w.file] = c]
       /\ faults' = IF c.kind = "doc" /\ c # conf[w.file] THEN faults \cup {"file"} ELSE faults
  /\ Noted /\ UNCHANGED <<loadVars, index, tsv, unwritten, filter, made, setup, workerVars, merge>>

\* An upload that is still writing goes on with a file that has no name.
HandleConfFileDelete(f) ==
  /\ Serving /\ setup.offers # {} /\ conf[f] # NoFile
  /\ conf' = [conf EXCEPT ![f] = NoFile]
  /\ writers' = {w \in writers : w.file # f}
  /\ Noted /\ UNCHANGED <<loadVars, toolVars, setup, workerVars, merge>>

\* The body of an answer that is no content: an empty one, or the text of an error.
Body(c) == IF c.kind = "doc" THEN c ELSE Garbage

\* handleConfFileDownload reads the file piece by piece: one that is replaced in the
\* meantime may be sent as the head of the old version and the tail of the new one.
Read(f) ==
  {Body(conf[f])} \cup
  IF \E w \in writers : w.file = f THEN {Garbage} \cup {Doc(v) : v \in Mixes(f)} ELSE {}

-----------------------------------------------------------------------------
(* dpluger merge-directive *)

\* Neither file is validated, they only have to decode.
MergeGet ==
  /\ Serving /\ merge = NoMerge
  /\ \E c \in Read("directives"), target \in ({made} \cup setup.targets) \ {<<>>} :
       /\ c.kind = "doc" /\ Decoded(c.value) /\ Decoded(target)
       /\ \E accepted \in SUBSET Prompted(c.value, target) :
            merge' = [base |-> c.value, accepted |-> {target[k] : k \in accepted},
                      result |-> MergeDirectives(c.value, target, accepted)]
       /\ faults' = IF c = conf["directives"] THEN faults ELSE faults \cup {"file"}
  /\ UNCHANGED <<loadVars, index, tsv, unwritten, filter, made, setup, frontVars, workerVars,
                 served>>

MergePost ==
  /\ merge # NoMerge
  /\ OpenFile("directives", merge.result)
  /\ merge' = NoMerge
  /\ Noted /\ UNCHANGED <<loadVars, toolVars, setup, workerVars>>

-----------------------------------------------------------------------------
(* worker.Start *)

GetConfigFileList ==
  /\ phase = "list"
  /\ \/ phase' = "exit" /\ UNCHANGED <<todo, served>>      \* no answer
     \/ /\ phase' = "download"
        /\ todo' = {f \in Files : conf[f] # NoFile}
        /\ served' = {conf["directives"]} \ {NoFile}
  /\ UNCHANGED <<assets, files, dirs, bl, toolVars, setup, frontVars, local, broken, merge>>

\* The files come in the order of the list.
NextFile == FileOrder[CHOOSE i \in 1..3 : /\ FileOrder[i] \in todo
                                         /\ \A j \in 1..(i - 1) : FileOrder[j] \notin todo]

\* Variant: a file that is there already is not fetched.
DownloadFile_Missing ==
  /\ phase = "download" /\ todo # {} /\ ~broken
  /\ local' = IF local[NextFile] = NoFile THEN [local EXCEPT ![NextFile] = Body(conf[NextFile])]
              ELSE local
  /\ todo' = todo \ {NextFile}
  /\ UNCHANGED <<loadVars, toolVars, setup, frontVars, broken, served, merge>>

\* The status of the answer is not looked at.
DownloadFile ==
  /\ phase = "download" /\ todo # {} /\ ~broken
  /\ \E c \in Read(NextFile) :
       /\ local' = [local EXCEPT ![NextFile] = c]
       /\ faults' = IF NextFile # "directives" THEN faults
                    ELSE IF c = Body(conf[NextFile]) THEN faults \ {"copy"}
                    ELSE faults \cup {"copy"}
  /\ todo' = todo \ {NextFile}
  /\ UNCHANGED <<loadVars, index, tsv, unwritten, filter, made, setup, frontVars, broken, served,
                 merge>>

\* No answer, or one that is cut off; the files that follow are not fetched, but
\* the backend goes on.
DownloadFails ==
  /\ phase = "download" /\ todo # {}
  /\ \/ broken /\ UNCHANGED local
     \/ ~broken /\ local' \in {local, [local EXCEPT ![NextFile] = Garbage]}
  /\ broken' = TRUE /\ todo' = todo \ {NextFile}
  /\ UNCHANGED <<loadVars, toolVars, setup, frontVars, served, merge>>

-----------------------------------------------------------------------------
(* serverCmd *)

Goto(p) == phase' = p
StartFrame == UNCHANGED <<toolVars, setup, frontVars, workerVars, served, merge>>

Downloaded ==
  /\ phase = "download" /\ todo = {} /\ Goto("assets")
  /\ UNCHANGED <<assets, files, dirs, bl>> /\ StartFrame

Dir == IF Standalone THEN conf ELSE local

\* asset.Init: a file must be there, and one bad entry ends the process.
InitAssets ==
  /\ phase = "assets"
  /\ IF Dir["assets"].kind = "doc" /\ \A a \in ToSet(Dir["assets"].value) : AssetValid(a)
     THEN assets' = ToSet(Dir["assets"].value) /\ Goto("intel")
     ELSE Goto("exit") /\ UNCHANGED assets
  /\ UNCHANGED <<files, dirs, bl>> /\ StartFrame

\* InitIntel and InitVuln take an absent file for an empty list.
InitXCorrelation ==
  /\ phase = "intel"
  /\ Goto(IF Dir["intel"].kind \in {"none", "doc"} THEN "directives" ELSE "exit")
  /\ UNCHANGED <<assets, files, dirs, bl>> /\ StartFrame

ReadDirectives ==
  /\ phase = "directives"
  /\ IF Dir["directives"].kind = "doc" /\ Decoded(Dir["directives"].value)
     THEN files' = Dir["directives"].value /\ Goto("load")
     ELSE Goto("exit") /\ UNCHANGED files
  /\ UNCHANGED <<assets, dirs, bl>> /\ StartFrame

\* alarm.Init makes the map of alarms, or finds the risk bounds wrong;
InitAlarm ==
  /\ phase = "alarm" /\ phase' \in {"manager", "exit"}
  /\ UNCHANGED <<assets, files, dirs, bl>> /\ StartFrame

\* InitBackLogManager and server.Start follow.
StartServer ==
  /\ phase = "manager" /\ phase' \in {"run", "exit"}
  /\ UNCHANGED <<assets, files, dirs, bl>> /\ StartFrame

\* A standalone process takes events over HTTP, which is started last; a cluster
\* backend gets them from the queue its worker has joined before.
Flowing == phase = "run" \/ (~Standalone /\ phase \in {"alarm", "manager"})

Receive ==
  /\ Flowing
  /\ \E i \in DOMAIN dirs, e \in Events : CreateNewBackLog(i, e) \/ IndexPanic(i, e)
  /\ StartFrame

DeleteBacklog == Delete /\ StartFrame

\* The new backlog's Upsert writes to the map of alarms, which is still nil.
NilMap ==
  /\ phase = "alarm" /\ bl # NoBacklog /\ Goto("nilmap")
  /\ UNCHANGED <<assets, files, dirs, bl>> /\ StartFrame

\* The process ends, or is stopped, and is started again.
Restart ==
  /\ phase \in {"exit", "panic", "nilmap", "run"}
  /\ Goto(IF Standalone THEN "assets" ELSE "list")
  /\ assets' = {} /\ files' = <<>> /\ dirs' = <<>> /\ bl' = NoBacklog
  /\ broken' = FALSE /\ served' = {}
  /\ writers' = IF Standalone THEN {} ELSE writers
  /\ UNCHANGED <<toolVars, setup, conf, local, todo, merge>>

-----------------------------------------------------------------------------
Frontend ==
  \/ HandleConfFileUpload \/ \E w \in writers : Write(w) \/ WriteFails(w)
  \/ \E f \in Files : HandleConfFileDelete(f)
  \/ MergeGet \/ MergePost

Start ==
  \/ GetConfigFileList \/ DownloadFile \/ DownloadFails \/ Downloaded
  \/ InitAssets \/ InitXCorrelation \/ ReadDirectives
  \/ (Accept \/ Skip \/ InitDirectives) /\ StartFrame
  \/ InitAlarm \/ StartServer \/ Receive \/ DeleteBacklog \/ NilMap \/ Restart

Tools ==
  /\ ToolNext(setup.titles)
  /\ UNCHANGED <<loadVars, setup, frontVars, workerVars, served, merge>>

Next == Frontend \/ Start \/ Tools

Spec == Init /\ [][Next]_vars

-----------------------------------------------------------------------------
(* Properties *)

\* The process dies of an index that is out of range only by a number that nobody
\* validates, one in custom data or an address like 2600::, however the rules are
\* numbered: never by a reference of an address or a port.  It dies of the nil map
\* of alarms only in a cluster backend, whose worker runs before alarm.Init.
PanicCauses ==
  /\ phase = "panic" =>
       \E d \in DOMAIN dirs : \E i \in DOMAIN dirs[d].rules \ {1} :
         LET r == dirs[d].rules[i]
             unchecked == {r.custom[k] : k \in DOMAIN r.custom}
                          \cup {f \in {r.from, r.to} : f.kind = "list"}
         IN \E f \in unchecked : BeyondRules(f, Len(dirs[d].rules))
  /\ phase = "nilmap" => ~Standalone

\* A cluster backend runs what the valid directives of a whole version of the
\* file make, one that the frontend held while the backend was starting: no mix
\* of versions, nothing half-written, nothing from an earlier start; unless a
\* transfer failed, the file was not listed and an earlier copy is still there, or
\* it was replaced while it was being read and what was sent happens to decode.
RunsServedVersion ==
  phase \in {"alarm", "manager", "run"} /\ ~Standalone /\ ~broken /\ served # {}
    /\ "copy" \notin faults =>
    \E c \in served : c.kind = "doc" /\ dirs = Load(c.value, FALSE)

\* "Safely merge two directive files": every ID that a backend would load from the
\* file of the frontend is still loaded from the result, whatever the other file
\* holds; unless the user has accepted, for that very ID, a directive that is not
\* valid, such as one that was made for a title without a category.
MergeKeeps ==
  merge # NoMerge =>
    \A id \in Ids(Load(merge.base, TRUE)) \ Ids(Load(merge.result, TRUE)) :
      \E d \in merge.accepted : d.id = id /\ ~DirectiveValid(d, <<>>)

\* A directive made for a title watches what the Logstash filter sends for it:
\* dpluger was run again, the directives merged, uploaded, downloaded and loaded
\* since, in any order; but a read or a write that failed half-way may undo it.
WatchesTitle ==
  faults = {} => \A i \in DOMAIN dirs : dirs[i].name \in DOMAIN filter =>
    \A j \in DOMAIN dirs[i].rules : filter[dirs[i].name] \in dirs[i].rules[j].sids
=============================================================================
