--------------------------- MODULE DeploymentProofs ---------------------------
(* What the process runs, whatever files it is given: directives that are valid, *)
(* with lists, quick checks and backlogs that mean what they should.             *)
EXTENDS Deployment, DplugerProofs

\* The address lists of every directive that is ever loaded mean what the comment
\* of the loop says, in whatever order their terms are written.
THEOREM ListsCorrect == Spec => []ListsMeanTheirComment
  <1>1. ListsMeanTheirComment
    BY ListLoop DEF ListsMeanTheirComment
  <1> QED
    BY <1>1, PTL

-----------------------------------------------------------------------------
(* What the process runs has been through ValidateDirective, and a backlog  *)
(* that is open has been made from it.                                      *)

\* The file is read once it has been decoded; only what is valid gets from it to
\* the directives of the process, which stay until a restart.
Loading ==
  /\ Decoded(files)
  /\ ListOf(dirs) /\ \A i \in DOMAIN dirs : Runnable(dirs[i])
  /\ phase \in {"alarm", "manager", "run", "panic"} => dirs # <<>>

\* The backlog belongs to one of them, whose first rule its opener has matched, and
\* its rules are that directive's, rewritten for the opener.
OpenedOf(d) ==
  /\ bl.rules = InitRules(d, bl.opener) /\ ~OutOfRange(d)
  /\ DoesEventMatch(bl.opener, d.rules[1], home)

Opened ==
  bl # NoBacklog =>
    bl.dir \in DOMAIN dirs /\ bl.opener \in Events /\ OpenedOf(dirs[bl.dir])

\* There is no backlog before the assets and directives are in place, in a standalone
\* process none before it runs; a panic is that of a directive it has loaded.
Phases ==
  /\ phase \in {"list", "download", "assets", "intel", "directives", "load", "alarm",
                "manager", "run", "exit", "panic", "nilmap"}
  /\ phase \in {"list", "nilmap"} => ~Standalone
  /\ bl # NoBacklog => phase \in {"alarm", "manager", "run", "exit", "panic", "nilmap"}
  /\ Standalone /\ bl # NoBacklog => phase \in {"run", "panic"}
  /\ phase = "panic" => \E i \in DOMAIN dirs : OutOfRange(dirs[i])

\* A directory has all the files, if only as missing ones.
Whole(c) == Record(c, Files) /\ \A f \in Files : c[f].kind \in FileKinds

\* What has failed half-way is one of three things.
Confs ==
  setup \in Setups /\ Whole(conf) /\ Whole(local) /\ faults \subseteq {"table", "file", "copy"}

IInv == Loading /\ Opened /\ Phases /\ Confs

-----------------------------------------------------------------------------
(* The invariant *)

LEMMA InvInit == Init => IInv
  <1> SUFFICES ASSUME Init PROVE IInv
    OBVIOUS
  <1>1. Loading
    <2>1. ListOf(<<>>)
      BY EmptySeq DEF ListOf
    <2> QED
      BY <2>1 DEF Init, Loading, Decoded
  <1>2. Opened /\ Phases
    BY DEF Init, Opened, Phases
  <1>3. Confs
    BY SetupsAssumption DEF Init, Confs, Whole, Record, FileKinds, NoFile
  <1> QED
    BY <1>1, <1>2, <1>3 DEF IInv

\* Frontend and tools have no part in what the process has loaded.
LEMMA Apart == Frontend \/ Tools => UNCHANGED <<loadVars, setup>>
  BY DEF Frontend, Tools, HandleConfFileUpload, Write, WriteFails, HandleConfFileDelete, MergeGet,
         MergePost

\* Nothing of a start but a restart touches the directory of the frontend.
LEMMA StartAlone ==
  ASSUME Start
  PROVE  /\ UNCHANGED <<setup, conf>>
         /\ UNCHANGED writers \/ Standalone
  BY DEF Start, GetConfigFileList, DownloadFile, DownloadFails, Downloaded, InitAssets,
         InitXCorrelation, ReadDirectives, InitAlarm, StartServer, Receive, DeleteBacklog, NilMap,
         Restart, StartFrame, frontVars

\* A directory stays whole if one of its files is replaced.
LEMMA Changed ==
  ASSUME NEW c, Whole(c), NEW f, NEW v, NEW n, n = [c EXCEPT ![f] = v],
         f \in Files => v.kind \in FileKinds
  PROVE  Whole(n)
  <1>1. /\ c = [x \in DOMAIN c |-> c[x]] /\ Files \subseteq DOMAIN c
        /\ \A g \in Files : c[g].kind \in FileKinds
    BY DEF Whole, Record
  <1>2. \A g \in Files : n[g] = IF g = f THEN v ELSE c[g]
    BY <1>1
  <1>3. Record(n, Files)
    BY <1>1 DEF Record
  <1> QED
    BY <1>1, <1>2, <1>3 DEF Whole

\* A download is an error or a document.
LEMMA ReadKinds ==
  ASSUME NEW f, NEW c \in Read(f)
  PROVE  c.kind \in FileKinds /\ (c.kind = "doc" \/ c = Garbage)
  BY DEF Read, Body, Garbage, Doc, FileKinds

\* A table or a file that has been lost stays noted; a copy is until the next whole one.
LEMMA FaultsKept ==
  ASSUME [Next]_vars
  PROVE  /\ faults' \subseteq faults \cup {"table", "file", "copy"}
         /\ faults \ {"copy"} \subseteq faults'
         /\ DownloadFile \/ ("copy" \in faults' <=> "copy" \in faults)
  <1>1. CASE UNCHANGED faults
    BY <1>1
  <1>2. CASE faults' \in {faults \cup {"table"}, faults \cup {"file"}}
    BY <1>2
  <1>3. CASE DownloadFile
    BY <1>3 DEF DownloadFile
  <1>4. CASE Frontend
    BY <1>1, <1>2, <1>4
    DEF Frontend, HandleConfFileUpload, Write, WriteFails, HandleConfFileDelete, MergeGet, MergePost,
        toolVars
  <1>5. CASE Tools
    BY <1>1, <1>2, <1>5
    DEF Tools, ToolNext, SaveRefs, SaveFails, WriteFilter, CreateDirective, NewTitle
  <1>6. CASE Start
    BY <1>1, <1>3, <1>6
    DEF Start, GetConfigFileList, DownloadFails, Downloaded, InitAssets, InitXCorrelation,
        ReadDirectives, InitAlarm, StartServer, Receive, DeleteBacklog, NilMap, Restart, StartFrame,
        toolVars
  <1>7. CASE UNCHANGED vars
    BY <1>1, <1>7 DEF vars, toolVars
  <1> QED
    BY <1>4, <1>5, <1>6, <1>7 DEF Next

\* The steps of the frontend in turn; a start leaves the files alone but for its own copy.
LEMMA ConfsStep == IInv /\ [Next]_vars => Confs'
  <1> SUFFICES ASSUME IInv, [Next]_vars PROVE Confs'
    OBVIOUS
  <1>0. setup \in Setups /\ Whole(conf) /\ Whole(local)
    BY DEF IInv, Confs
  <1>1. NoFile.kind \in FileKinds /\ Empty.kind \in FileKinds /\ Garbage.kind \in FileKinds
        /\ \A v : Doc(v).kind \in FileKinds
    BY DEF NoFile, Empty, Garbage, Doc, FileKinds
  <1>2. faults' \subseteq {"table", "file", "copy"}
    BY FaultsKept DEF IInv, Confs
  <1>3. ASSUME UNCHANGED <<setup, local>>, NEW f,
               \E v : conf' = [conf EXCEPT ![f] = v] /\ (f \in Files => v.kind \in FileKinds)
        PROVE  Confs'
    <2>1. Whole(conf')
      BY <1>0, <1>3, Changed
    <2> QED
      BY <1>0, <1>2, <1>3, <2>1 DEF Confs
  <1>4. CASE HandleConfFileUpload
    <2>1. PICK o \in setup.offers : OpenFile(o.file, o.value)
      BY <1>4 DEF HandleConfFileUpload
    <2> QED
      BY <1>1, <1>3, <1>4, <2>1 DEF HandleConfFileUpload, OpenFile, workerVars
  <1>5. CASE MergePost
    BY <1>1, <1>3, <1>5 DEF MergePost, OpenFile, workerVars
  <1>6. ASSUME NEW w \in writers, Write(w) PROVE Confs'
    <2>1. /\ UNCHANGED <<setup, local>>
          /\ \E c \in {Doc(w.value), Garbage} : conf' = [conf EXCEPT ![w.file] = c]
      BY <1>6 DEF Write, workerVars
    <2> QED
      BY <1>1, <1>3, <2>1
  <1>7. ASSUME NEW w \in writers, WriteFails(w) PROVE Confs'
    <2>1. UNCHANGED <<setup, local>>
      BY <1>7 DEF WriteFails, workerVars
    <2>2. PICK c \in {conf[w.file], Garbage} \cup {Doc(v) : v \in Mixes(w.file)} :
            conf' = [conf EXCEPT ![w.file] = c]
      BY <1>7 DEF WriteFails
    <2>3. w.file \in Files => c.kind \in FileKinds
      BY <1>0, <1>1, <2>2 DEF Whole
    <2> QED
      BY <1>3, <2>1, <2>2, <2>3
  <1>8. ASSUME NEW f \in Files, HandleConfFileDelete(f) PROVE Confs'
    BY <1>1, <1>3, <1>8 DEF HandleConfFileDelete, workerVars
  <1>9. CASE Start
    <2>1. Whole(local')
      <3>1. CASE DownloadFile
        <4>1. PICK c \in Read(NextFile) : local' = [local EXCEPT ![NextFile] = c]
          BY <3>1 DEF DownloadFile
        <4> QED
          BY <1>0, Changed, ReadKinds, <4>1
      <3>2. CASE DownloadFails
        BY <1>0, <1>1, <3>2, Changed DEF DownloadFails
      <3>3. CASE UNCHANGED local
        BY <1>0, <3>3
      <3> QED
        BY <1>9, <3>1, <3>2, <3>3
        DEF Start, GetConfigFileList, Downloaded, InitAssets, InitXCorrelation, ReadDirectives,
            InitAlarm, StartServer, Receive, DeleteBacklog, NilMap, Restart, StartFrame, workerVars
    <2> QED
      BY <1>0, <1>2, <1>9, <2>1, StartAlone DEF Confs
  <1>10. CASE MergeGet \/ Tools \/ UNCHANGED vars
    <2>1. UNCHANGED <<setup, conf, local>>
      BY <1>10 DEF MergeGet, Tools, vars, frontVars, workerVars
    <2> QED
      BY <1>0, <1>2, <2>1 DEF Confs
  <1> QED
    BY <1>4, <1>5, <1>6, <1>7, <1>8, <1>9, <1>10 DEF Next, Frontend

\* Directives only change while they are read, and when the process starts again.
LEMMA LoadingStep == IInv /\ [Next]_vars => Loading'
  <1> SUFFICES ASSUME IInv, [Next]_vars PROVE Loading'
    OBVIOUS
  <1> USE DEF IInv
  <1> DEFINE Working == {"alarm", "manager", "run", "panic"}
  <1>0. /\ Decoded(files) /\ ListOf(dirs) /\ \A i \in DOMAIN dirs : Runnable(dirs[i])
        /\ phase \in Working => dirs # <<>>
    BY DEF Loading
  <1>1. ASSUME UNCHANGED dirs, UNCHANGED files, phase' \in Working => dirs # <<>>
        PROVE  Loading'
    BY <1>0, <1>1 DEF Loading
  <1>2. ASSUME files # <<>>, files' = Tail(files)
        PROVE  /\ Decoded(files') /\ DirectiveDecoded(Head(files))
    BY <1>0, <1>2, Rest DEF Decoded
  <1>3. CASE Accept
    <2> DEFINE d == Head(files)
    <2>1. DirectiveDecoded(d) /\ Decoded(files') /\ DirectiveValid(d, dirs)
      BY <1>2, <1>3 DEF Accept, Taken
    <2>2. Runnable(Normal(d))
      BY <2>1, ValidRuns
    <2>3. dirs' = Append(dirs, Normal(d))
      BY <1>3 DEF Accept
    <2>4. ListOf(dirs') /\ \A i \in DOMAIN dirs' : Runnable(dirs'[i])
      BY <1>0, <2>2, <2>3, Appended
    <2>5. phase' = "load"
      BY <1>3 DEF Accept
    <2> QED
      BY <2>1, <2>4, <2>5 DEF Loading
  <1>4. CASE Skip
    <2>1. Decoded(files') /\ UNCHANGED dirs /\ phase' = "load"
      BY <1>2, <1>4 DEF Skip
    <2> QED
      BY <1>0, <2>1 DEF Loading
  <1>5. CASE ReadDirectives
    <2>1. Decoded(files') /\ UNCHANGED dirs /\ phase' \in {"load", "exit"}
      BY <1>0, <1>5 DEF ReadDirectives, Goto
    <2> QED
      BY <1>0, <2>1 DEF Loading
  <1>6. CASE Restart
    <2>1. ListOf(<<>>)
      BY EmptySeq DEF ListOf
    <2>2. files' = <<>> /\ dirs' = <<>> /\ phase' \notin Working
      BY <1>6 DEF Restart, Goto
    <2> QED
      BY <2>1, <2>2 DEF Loading, Decoded
  <1>7. CASE InitDirectives
    BY <1>1, <1>7 DEF InitDirectives
  <1>8. CASE GetConfigFileList \/ Downloaded \/ InitAssets \/ InitXCorrelation
    BY <1>1, <1>8 DEF GetConfigFileList, Downloaded, InitAssets, InitXCorrelation, Goto
  <1>9. CASE InitAlarm \/ StartServer \/ NilMap
    BY <1>0, <1>1, <1>9 DEF InitAlarm, StartServer, NilMap, Goto
  <1>10. CASE Receive
    <2>1. UNCHANGED <<files, dirs>> /\ dirs # <<>>
      BY <1>10 DEF Receive, CreateNewBackLog, IndexPanic
    <2> QED
      BY <1>1, <2>1
  <1>11. CASE Frontend \/ Tools \/ DownloadFile \/ DownloadFails \/ DeleteBacklog \/ UNCHANGED vars
    <2>1. UNCHANGED <<phase, files, dirs>>
      BY <1>11, Apart DEF DownloadFile, DownloadFails, DeleteBacklog, Delete, loadVars, vars
    <2> QED
      BY <1>0, <1>1, <2>1
  <1> QED
    BY <1>3, <1>4, <1>5, <1>6, <1>7, <1>8, <1>9, <1>10, <1>11 DEF Next, Start

\* The rules of a new backlog have the stage and the occurrence they were loaded with.
LEMMA InitRulesKeep ==
  ASSUME NEW d, NEW e, Runnable(d)
  PROVE  LET rules == InitRules(d, e) IN
         1 \in DOMAIN rules /\ rules[1].stage = 1 => rules[1].occurrence = 1
  <1> DEFINE rules == InitRules(d, e)
  <1>1. DOMAIN rules = DOMAIN d.rules
    BY DEF InitRules
  <1> SUFFICES ASSUME 1 \in DOMAIN d.rules, rules[1].stage = 1
               PROVE  rules[1].occurrence = 1
    BY <1>1
  <1> DEFINE r == d.rules[1]
  <1>2. r = [x \in DOMAIN r |-> r[x]] /\ {"stage", "occurrence"} \subseteq DOMAIN r
    BY DEF Runnable, DirectiveDecoded, RuleDecoded, Record
  <1>3. rules[1].stage = r.stage /\ rules[1].occurrence = r.occurrence
    BY <1>2 DEF InitRules
  <1> QED
    BY <1>3 DEF Runnable

\* A new backlog is of a directive in use; neither the directives nor the home network
\* change while there is one.
LEMMA OpenedStep == IInv /\ [Next]_vars => Opened'
  <1> SUFFICES ASSUME IInv, [Next]_vars PROVE Opened'
    OBVIOUS
  <1> USE DEF IInv
  <1>1. CASE UNCHANGED <<dirs, bl, assets>>
    <2>1. home' = home
      BY <1>1 DEF home
    <2> QED
      BY <1>1, <2>1 DEF Opened, OpenedOf
  <1>2. CASE bl' = NoBacklog
    BY <1>2 DEF Opened
  <1>3. ASSUME NEW i \in DOMAIN dirs, NEW e \in Events, CreateNewBackLog(i, e) PROVE Opened'
    <2>1. bl'.dir = i /\ bl'.opener = e /\ bl'.rules = InitRules(dirs[i], e) /\ UNCHANGED <<dirs, assets>>
      BY <1>3 DEF CreateNewBackLog
    <2>2. ~OutOfRange(dirs[i]) /\ DoesEventMatch(e, dirs[i].rules[1], home) /\ home' = home
      BY <1>3, <2>1 DEF CreateNewBackLog, Opens, home
    <2> QED
      BY <2>1, <2>2 DEF Opened, OpenedOf
  <1>4. CASE Receive
    <2>1. PICK i \in DOMAIN dirs, e \in Events : CreateNewBackLog(i, e) \/ IndexPanic(i, e)
      BY <1>4 DEF Receive
    <2>2. IndexPanic(i, e) => UNCHANGED <<dirs, bl, assets>>
      BY DEF IndexPanic
    <2> QED
      BY <1>1, <1>3, <2>1, <2>2
  <1>5. CASE Accept \/ InitAssets
    <2>1. bl = NoBacklog /\ UNCHANGED bl
      BY <1>5 DEF Accept, InitAssets, Phases
    <2> QED
      BY <1>2, <2>1
  <1>6. CASE Start
    BY <1>1, <1>2, <1>4, <1>5, <1>6
    DEF Start, GetConfigFileList, DownloadFile, DownloadFails, Downloaded, InitXCorrelation,
        ReadDirectives, Skip, InitDirectives, InitAlarm, StartServer, DeleteBacklog, Delete, NilMap,
        Restart, loadVars
  <1>7. CASE Frontend \/ Tools \/ UNCHANGED vars
    BY <1>1, <1>7, Apart DEF loadVars, vars
  <1> QED
    BY <1>6, <1>7 DEF Next

\* Only a receiving process panics, and only a cluster backend receives before it runs.
LEMMA PhasesStep == IInv /\ [Next]_vars => Phases'
  <1> SUFFICES ASSUME IInv, [Next]_vars PROVE Phases'
    OBVIOUS
  <1> USE DEF IInv
  <1>0. (Start \/ Frontend \/ Tools \/ UNCHANGED vars) => (Standalone' <=> Standalone)
    BY StartAlone, Apart DEF Standalone, mode, vars
  <1>1. CASE UNCHANGED <<phase, bl, dirs>> /\ (Standalone' <=> Standalone)
    BY <1>1 DEF Phases, OutOfRange
  <1>2. CASE Receive
    <2>1. PICK i \in DOMAIN dirs, e \in Events : CreateNewBackLog(i, e) \/ IndexPanic(i, e)
      BY <1>2 DEF Receive
    <2>2. Flowing /\ UNCHANGED dirs
      BY <1>2, <2>1 DEF Receive, CreateNewBackLog, IndexPanic
    <2>3. CASE CreateNewBackLog(i, e)
      <3>1. UNCHANGED phase
        BY <2>3 DEF CreateNewBackLog
      <3> QED
        BY <1>0, <1>2, <2>2, <3>1 DEF Flowing, Phases, Start, OutOfRange
    <2>4. CASE IndexPanic(i, e)
      <3>1. phase' = "panic" /\ OutOfRange(dirs[i])'
        BY <2>2, <2>4 DEF IndexPanic, OutOfRange
      <3> QED
        BY <2>2, <3>1 DEF Phases
    <2> QED
      BY <2>1, <2>3, <2>4
  <1>3. CASE Restart
    <2>1. phase' = (IF Standalone THEN "assets" ELSE "list") /\ bl' = NoBacklog
      BY <1>3 DEF Restart, Goto
    <2> QED
      BY <1>0, <1>3, <2>1 DEF Phases, Start
  <1>4. CASE NilMap
    <2>1. phase' = "nilmap" /\ phase = "alarm" /\ bl # NoBacklog
      BY <1>4 DEF NilMap, Goto
    <2> QED
      BY <1>0, <1>4, <2>1 DEF Phases, Start
  <1>5. CASE DeleteBacklog
    BY <1>0, <1>5 DEF DeleteBacklog, Delete, Phases, Start, OutOfRange
  <1>6. CASE GetConfigFileList \/ Downloaded \/ InitAssets \/ InitXCorrelation \/ ReadDirectives
             \/ ((Accept \/ Skip \/ InitDirectives) /\ StartFrame) \/ InitAlarm \/ StartServer
    <2>1. /\ phase' \in {"download", "exit", "assets", "intel", "directives", "load", "alarm",
                         "manager", "run"}
          /\ phase \in {"list", "download", "assets", "intel", "directives", "load"}
             \/ (phase \in {"alarm", "manager"} /\ phase' \in {"manager", "run", "exit"})
          /\ UNCHANGED bl
      BY <1>6 DEF GetConfigFileList, Downloaded, InitAssets, InitXCorrelation, ReadDirectives,
                  Accept, Skip, InitDirectives, InitAlarm, StartServer, Goto
    <2>2. Standalone' <=> Standalone
      BY <1>0, <1>6 DEF Start
    <2> QED
      BY <2>1, <2>2 DEF Phases
  <1>7. CASE Frontend \/ Tools \/ DownloadFile \/ DownloadFails \/ UNCHANGED vars
    BY <1>0, <1>1, <1>7, Apart DEF DownloadFile, DownloadFails, loadVars, vars, Start
  <1> QED
    BY <1>2, <1>3, <1>4, <1>5, <1>6, <1>7 DEF Next, Start

LEMMA InvAlways == Spec => []IInv
  <1>1. IInv /\ [Next]_vars => IInv'
    BY ConfsStep, LoadingStep, OpenedStep, PhasesStep DEF IInv
  <1> QED
    BY <1>1, InvInit, PTL DEF Spec

-----------------------------------------------------------------------------
(* Versions of the directive file *)

\* What a backend has fetched is a version of the directive file that was served to it, or
\* the text of an error, unless it was replaced while it was read; what the backend loads
\* is a prefix of the former.
Copied == \E c \in served : local["directives"] = Body(c)

LoadedOf(v, n) ==
  /\ n \in 0..Len(v) /\ dirs = LoadedUpTo(v, FALSE)[n]
  /\ Len(files) = Len(v) - n /\ \A i \in 1..Len(files) : files[i] = v[n + i]

Fetched ==
  /\ phase \in {"list", "download", "assets", "intel", "directives"} => dirs = <<>> /\ files = <<>>
  /\ todo \subseteq Files
  /\ ~Standalone /\ ~broken /\ served # {} =>
       /\ phase = "download" => conf["directives"] \in served
       /\ "copy" \notin faults =>
            /\ phase = "download" => "directives" \in todo \/ Copied
            /\ phase \in {"assets", "intel", "directives"} => Copied
            /\ phase = "load" =>
                 \E c \in served : c.kind = "doc" /\ Decoded(c.value) /\ \E n \in Nat : LoadedOf(c.value, n)
            /\ phase \in {"alarm", "manager", "run"} =>
                 \E c \in served : c.kind = "doc" /\ dirs = Load(c.value, FALSE)

\* Reading the files list is going on in the prefix that has been loaded.
LEMMA LoadedNext ==
  ASSUME NEW v, Decoded(v), NEW n \in Nat, LoadedOf(v, n), Decoded(files)
  PROVE  /\ files = <<>> => dirs = Load(v, FALSE)
         /\ files # <<>> /\ files' = Tail(files)
              /\ dirs' = (IF Taken(Head(files), dirs, FALSE) THEN Append(dirs, Normal(Head(files)))
                          ELSE dirs)
              => n + 1 \in Nat /\ LoadedOf(v, n + 1)'
  <1>1. Len(v) \in Nat /\ Len(files) \in Nat
    BY LenProperties DEF Decoded, ListOf
  <1>2. files \in Seq({files[i] : i \in DOMAIN files}) /\ ListOf(files)
    BY DEF Decoded, ListOf
  <1>3. ASSUME files = <<>> PROVE dirs = Load(v, FALSE)
    <2>1. Len(files) = 0
      BY <1>3
    <2>2. n = Len(v)
      BY <1>1, <2>1 DEF LoadedOf
    <2> QED
      BY <2>2 DEF LoadedOf, Load
  <1>4. ASSUME files # <<>>, files' = Tail(files),
               dirs' = IF Taken(Head(files), dirs, FALSE) THEN Append(dirs, Normal(Head(files)))
                       ELSE dirs
        PROVE  LoadedOf(v, n + 1)'
    <2>1. /\ Len(files) > 0 /\ Head(files) = files[1]
          /\ Len(files') = Len(files) - 1 /\ \A i \in 1..Len(files') : files'[i] = files[i + 1]
      BY <1>1, <1>2, <1>4, EmptySeq, HeadTailProperties
    <2>2. /\ n \in 0..Len(v) /\ dirs = LoadedUpTo(v, FALSE)[n] /\ Len(files) = Len(v) - n
          /\ \A i \in 1..Len(files) : files[i] = v[n + i]
      BY DEF LoadedOf
    <2>3. n + 1 \in 1..Len(v) /\ Head(files) = v[n + 1] /\ (n + 1) - 1 = n
      BY <1>1, <2>1, <2>2
    <2>4. dirs' = LoadedUpTo(v, FALSE)[n + 1]
      <3> DEFINE g == LoadedUpTo(v, FALSE)
      <3>1. g[n + 1] = IF Taken(v[n + 1], g[n], FALSE) THEN Append(g[n], Normal(v[n + 1])) ELSE g[n]
        BY <1>1, <2>3, LoadingOne
      <3> QED
        BY <1>4, <2>2, <2>3, <3>1
    <2>5. Len(files') = Len(v) - (n + 1)
      BY <1>1, <2>1, <2>2
    <2>6. \A i \in 1..Len(files') : files'[i] = v[(n + 1) + i]
      <3> SUFFICES ASSUME NEW i \in 1..Len(files') PROVE files'[i] = v[(n + 1) + i]
        OBVIOUS
      <3>1. i + 1 \in 1..Len(files) /\ n + (i + 1) = (n + 1) + i
        BY <1>1, <2>1
      <3> QED
        BY <2>1, <2>2, <3>1
    <2> QED
      BY <1>1, <2>3, <2>4, <2>5, <2>6 DEF LoadedOf
  <1>5. n + 1 \in Nat
    OBVIOUS
  <1> QED
    BY <1>3, <1>4, <1>5

\* What the frontend does meanwhile is noted among what may have been served.
LEMMA FetchedMeanwhile ==
  ASSUME Fetched, UNCHANGED <<loadVars, setup, workerVars>>, Noted \/ UNCHANGED <<conf, served>>,
         "copy" \in faults' <=> "copy" \in faults
  PROVE  Fetched'
  <1>1. UNCHANGED <<phase, files, dirs, local, todo, broken>> /\ (Standalone' <=> Standalone)
    BY DEF loadVars, workerVars, Standalone, mode
  <1>2. /\ served \subseteq served' /\ (served' # {} => served # {})
        /\ phase # "download" => served' = served
        /\ phase = "download" /\ served # {} /\ conf["directives"] \in served =>
             conf'["directives"] \in served'
    BY DEF Noted
  <1>3. Copied => Copied'
    BY <1>1, <1>2 DEF Copied
  <1>4. \A v, n : LoadedOf(v, n) => LoadedOf(v, n)'
    BY <1>1 DEF LoadedOf
  <1> QED
    BY <1>1, <1>2, <1>3, <1>4 DEF Fetched

LEMMA NextInOrder ==
  ASSUME todo \subseteq Files, todo # {}
  PROVE  NextFile \in todo
  <1> DEFINE First(i) == FileOrder[i] \in todo /\ \A j \in 1..(i - 1) : FileOrder[j] \notin todo
             i == CHOOSE i \in 1..3 : First(i)
  <1>1. \E k \in 1..3 : FileOrder[k] \in todo
    BY DEF Files
  <1>2. \E k \in 1..3 : First(k)
    <2>1. CASE FileOrder[1] \in todo
      BY <2>1
    <2>2. CASE FileOrder[1] \notin todo /\ FileOrder[2] \in todo
      BY <2>2
    <2>3. CASE FileOrder[1] \notin todo /\ FileOrder[2] \notin todo /\ FileOrder[3] \in todo
      <3>1. \A j \in 1..(3 - 1) : j = 1 \/ j = 2
        OBVIOUS
      <3> QED
        BY <2>3, <3>1
    <2>4. \A k \in 1..3 : k = 1 \/ k = 2 \/ k = 3
      OBVIOUS
    <2> QED
      BY <1>1, <2>1, <2>2, <2>3, <2>4
  <1>3. i \in 1..3 /\ First(i)
    BY <1>2
  <1> QED
    BY <1>3 DEF NextFile

\* The steps of a start, in their order.
LEMMA FetchedStep == IInv /\ Fetched /\ [Next]_vars => Fetched'
  <1> SUFFICES ASSUME IInv, Fetched, [Next]_vars PROVE Fetched'
    OBVIOUS
  <1> USE DEF IInv
  <1> DEFINE Early == {"list", "download", "assets", "intel", "directives"}
             Fresh == ~Standalone /\ ~broken /\ served # {}
  <1> DEFINE Clean == "copy" \notin faults
  <1>0. /\ phase \in Early => dirs = <<>> /\ files = <<>>
        /\ todo \subseteq Files
        /\ Fresh /\ phase = "download" => conf["directives"] \in served
        /\ Fresh /\ Clean =>
             /\ phase = "download" => "directives" \in todo \/ Copied
             /\ phase \in {"assets", "intel", "directives"} => Copied
             /\ phase = "load" => \E c \in served : /\ c.kind = "doc" /\ Decoded(c.value)
                                                    /\ \E n \in Nat : LoadedOf(c.value, n)
             /\ phase \in {"alarm", "manager", "run"} =>
                  \E c \in served : c.kind = "doc" /\ dirs = Load(c.value, FALSE)
    BY DEF Fetched
  <1>1. (Start \/ Frontend \/ Tools \/ UNCHANGED vars) => (Standalone' <=> Standalone)
    BY StartAlone, Apart DEF Standalone, mode, vars
  <1>2. CASE DownloadFile
    <2>1. /\ phase = "download" /\ phase' = "download" /\ todo # {} /\ ~broken
          /\ todo' = todo \ {NextFile}
          /\ UNCHANGED <<files, dirs, conf, served, broken>>
      BY <1>2 DEF DownloadFile, loadVars, frontVars
    <2>2. PICK c \in Read(NextFile) :
            /\ local' = [local EXCEPT ![NextFile] = c]
            /\ faults' = IF NextFile # "directives" THEN faults
                         ELSE IF c = Body(conf[NextFile]) THEN faults \ {"copy"}
                         ELSE faults \cup {"copy"}
      BY <1>2 DEF DownloadFile
    <2>3. NextFile \in Files
      BY <1>0, <2>1, NextInOrder
    <2>4. local'[NextFile] = c /\ \A f \in Files \ {NextFile} : local'[f] = local[f]
      BY <2>2, <2>3 DEF Confs, Whole, Record
    <2>5. "directives" \in Files
      BY DEF Files, FileOrder
    <2>6. ASSUME Fresh, Clean' PROVE "directives" \in todo' \/ Copied'
      <3>1. CASE NextFile = "directives"
        <4>1. c = Body(conf["directives"])
          BY <2>2, <2>6, <3>1
        <4> QED
          BY <1>0, <2>1, <2>4, <2>6, <3>1, <4>1 DEF Copied
      <3>2. CASE NextFile # "directives"
        <4>1. Clean /\ local'["directives"] = local["directives"]
              /\ ("directives" \in todo => "directives" \in todo')
          <5>1. faults' = faults
            BY <2>2, <3>2
          <5> QED
            BY <2>1, <2>4, <2>5, <2>6, <3>2, <5>1
        <4> QED
          BY <1>0, <2>1, <2>6, <4>1 DEF Copied
      <3> QED
        BY <3>1, <3>2
    <2>7. Standalone' <=> Standalone
      BY <1>1, <1>2 DEF Start
    <2> QED
      BY <1>0, <2>1, <2>6, <2>7 DEF Fetched
  <1> SUFFICES ASSUME ~DownloadFile PROVE Fetched'
    BY <1>2
  <1>3. Clean' <=> Clean
    BY FaultsKept
  <1>4. CASE Frontend \/ Tools \/ UNCHANGED vars
    <2>1. /\ UNCHANGED <<loadVars, setup, workerVars>>
          /\ Noted \/ UNCHANGED <<conf, served>>
      <3>1. HandleConfFileUpload \/ (\E w \in writers : Write(w) \/ WriteFails(w))
              \/ (\E f \in Files : HandleConfFileDelete(f)) \/ MergePost
              => Noted /\ UNCHANGED <<loadVars, setup, workerVars>>
        BY DEF HandleConfFileUpload, Write, WriteFails, HandleConfFileDelete, MergePost
      <3>2. MergeGet \/ Tools \/ UNCHANGED vars
              => UNCHANGED <<conf, served>> /\ UNCHANGED <<loadVars, setup, workerVars>>
        BY DEF MergeGet, Tools, vars, frontVars, workerVars, loadVars
      <3> QED
        BY <1>4, <3>1, <3>2 DEF Frontend
    <2> QED
      BY <1>3, <2>1, FetchedMeanwhile
  <1>5. CASE GetConfigFileList
    <2>1. UNCHANGED <<files, dirs, conf>> /\ phase = "list"
      BY <1>5 DEF GetConfigFileList, frontVars
    <2>2. \/ phase' = "exit" /\ UNCHANGED todo
          \/ /\ phase' = "download" /\ todo' = {f \in Files : conf[f] # NoFile}
             /\ served' = {conf["directives"]} \ {NoFile}
      BY <1>5 DEF GetConfigFileList
    <2>3. "directives" \in Files
      BY DEF Files, FileOrder
    <2>4. CASE phase' = "exit" /\ UNCHANGED todo
      BY <1>0, <2>1, <2>4 DEF Fetched
    <2>5. CASE /\ phase' = "download" /\ todo' = {f \in Files : conf[f] # NoFile}
               /\ served' = {conf["directives"]} \ {NoFile}
      <3>1. served' # {} => conf'["directives"] \in served' /\ "directives" \in todo'
        BY <2>1, <2>3, <2>5
      <3>2. dirs' = <<>> /\ files' = <<>> /\ todo' \subseteq Files
        BY <1>0, <2>1, <2>5
      <3> QED
        BY <2>5, <3>1, <3>2 DEF Fetched
    <2> QED
      BY <2>2, <2>4, <2>5
  <1>6. CASE DownloadFails
    BY <1>0, <1>6 DEF DownloadFails, loadVars, Fetched
  <1>7. ASSUME phase' \notin Early \cup {"load", "alarm", "manager", "run"}, UNCHANGED todo
        PROVE  Fetched'
    BY <1>0, <1>7 DEF Fetched
  <1>8. ASSUME UNCHANGED <<files, dirs, conf, local, todo, broken, served>>,
               Standalone' <=> Standalone, UNCHANGED phase
        PROVE  Fetched'
    <2>1. Copied => Copied'
      BY <1>8 DEF Copied
    <2>2. \A v, n : LoadedOf(v, n) => LoadedOf(v, n)'
      BY <1>8 DEF LoadedOf
    <2> QED
      BY <1>0, <1>8, <1>3, <2>1, <2>2 DEF Fetched
  <1>9. CASE Downloaded \/ InitAssets \/ InitXCorrelation
    <2>1. /\ UNCHANGED <<files, dirs, local, todo, broken, served>>
          /\ phase' \in {"assets", "intel", "directives", "exit"}
          /\ phase \in {"assets", "intel"} \/ (phase = "download" /\ todo = {})
      BY <1>9 DEF Downloaded, InitAssets, InitXCorrelation, StartFrame, workerVars, Goto
    <2>2. Standalone' <=> Standalone
      BY <1>1, <1>9 DEF Start
    <2>3. Fresh' /\ Clean' => Copied
      BY <1>0, <1>3, <2>1, <2>2
    <2>4. Copied => Copied'
      BY <2>1 DEF Copied
    <2>5. dirs' = <<>> /\ files' = <<>>
      BY <1>0, <2>1
    <2> QED
      BY <1>0, <2>1, <2>3, <2>4, <2>5 DEF Fetched
  <1>10. CASE ReadDirectives
    <2>1. /\ phase = "directives" /\ UNCHANGED <<dirs, local, todo, broken, served>>
          /\ phase' = "exit" \/ /\ phase' = "load" /\ Dir["directives"].kind = "doc"
                                /\ Decoded(Dir["directives"].value)
                                /\ files' = Dir["directives"].value
      BY <1>10 DEF ReadDirectives, StartFrame, workerVars, Goto
    <2>2. Standalone' <=> Standalone
      BY <1>1, <1>10 DEF Start
    <2>3. CASE phase' = "exit"
      BY <1>7, <2>1, <2>3
    <2>4. CASE phase' = "load"
      <3>1. ASSUME Fresh', Clean' PROVE \E c \in served' : /\ c.kind = "doc" /\ Decoded(c.value)
                                                   /\ \E n \in Nat : LoadedOf(c.value, n)'
        <4>1. Fresh /\ Clean /\ Dir = local
          BY <1>3, <2>1, <2>2, <3>1 DEF Dir
        <4>2. PICK c \in served : local["directives"] = Body(c)
          BY <1>0, <2>1, <4>1 DEF Copied
        <4>3. c.kind = "doc" /\ local["directives"] = c
          BY <2>1, <2>4, <4>1, <4>2 DEF Body, Garbage
        <4>4. Decoded(c.value) /\ files' = c.value
          BY <2>1, <2>4, <4>1, <4>3
        <4>5. Len(c.value) \in Nat
          BY <4>4, LenProperties DEF Decoded, ListOf
        <4>6. dirs' = LoadedUpTo(c.value, FALSE)[0]
          BY <1>0, <2>1, <4>5, LoadingOne
        <4>7. \A i \in 1..Len(c.value) : 0 + i = i
          BY <4>5
        <4>8. LoadedOf(c.value, 0)'
          BY <4>4, <4>5, <4>6, <4>7 DEF LoadedOf
        <4> QED
          BY <2>1, <4>3, <4>4, <4>8
      <3> QED
        BY <1>0, <2>1, <2>4, <3>1 DEF Fetched
    <2> QED
      BY <2>1, <2>3, <2>4
  <1>11. CASE (Accept \/ Skip) /\ StartFrame
    <2>1. /\ phase = "load" /\ phase' = "load" /\ UNCHANGED <<todo, broken, served>>
          /\ files # <<>> /\ files' = Tail(files)
          /\ dirs' = IF Taken(Head(files), dirs, FALSE) THEN Append(dirs, Normal(Head(files)))
                     ELSE dirs
      BY <1>11 DEF Accept, Skip, StartFrame, workerVars
    <2>2. Standalone' <=> Standalone
      BY <1>1, <1>11 DEF Start
    <2>3. ASSUME Fresh', Clean' PROVE \E c \in served' : /\ c.kind = "doc" /\ Decoded(c.value)
                                                 /\ \E n \in Nat : LoadedOf(c.value, n)'
      <3>1. PICK c \in served : /\ c.kind = "doc" /\ Decoded(c.value)
                                /\ \E n \in Nat : LoadedOf(c.value, n)
        BY <1>0, <1>3, <2>1, <2>2, <2>3
      <3>2. PICK n \in Nat : LoadedOf(c.value, n)
        BY <3>1
      <3>3. Decoded(files)
        BY DEF Loading
      <3>4. n + 1 \in Nat /\ LoadedOf(c.value, n + 1)'
        BY <2>1, <3>1, <3>2, <3>3, LoadedNext
      <3> QED
        BY <2>1, <3>1, <3>4
    <2> QED
      BY <1>0, <2>1, <2>3 DEF Fetched
  <1>12. CASE InitDirectives /\ StartFrame
    <2>1. /\ phase = "load" /\ phase' \in {"exit", "alarm"} /\ files = <<>>
          /\ UNCHANGED <<dirs, todo, broken, served>>
      BY <1>12 DEF InitDirectives, StartFrame, workerVars
    <2>2. Standalone' <=> Standalone
      BY <1>1, <1>12 DEF Start
    <2>3. ASSUME Fresh', Clean' PROVE \E c \in served' : c.kind = "doc" /\ dirs' = Load(c.value, FALSE)
      <3>1. PICK c \in served : /\ c.kind = "doc" /\ Decoded(c.value)
                                /\ \E n \in Nat : LoadedOf(c.value, n)
        BY <1>0, <1>3, <2>1, <2>2, <2>3
      <3>2. Decoded(files)
        BY DEF Loading
      <3>3. dirs = Load(c.value, FALSE)
        BY <2>1, <3>1, <3>2, LoadedNext
      <3> QED
        BY <2>1, <3>1, <3>3
    <2> QED
      BY <1>0, <2>1, <2>3 DEF Fetched
  <1>13. CASE InitAlarm \/ StartServer
    <2>1. /\ phase \in {"alarm", "manager"} /\ phase' \in {"manager", "run", "exit"}
          /\ UNCHANGED <<dirs, todo, broken, served>>
      BY <1>13 DEF InitAlarm, StartServer, StartFrame, workerVars
    <2>2. Standalone' <=> Standalone
      BY <1>1, <1>13 DEF Start
    <2> QED
      BY <1>0, <1>3, <2>1, <2>2 DEF Fetched
  <1>14. CASE Receive
    <2>1. PICK i \in DOMAIN dirs, e \in Events : CreateNewBackLog(i, e) \/ IndexPanic(i, e)
      BY <1>14 DEF Receive
    <2>2. UNCHANGED <<files, dirs, conf, local, todo, broken, served>>
      BY <1>14, <2>1 DEF Receive, StartFrame, workerVars, frontVars, CreateNewBackLog, IndexPanic
    <2>3. phase' = "panic" \/ UNCHANGED phase
      BY <2>1 DEF CreateNewBackLog, IndexPanic
    <2> QED
      BY <1>1, <1>7, <1>8, <1>14, <2>2, <2>3 DEF Start
  <1>15. CASE DeleteBacklog
    BY <1>1, <1>8, <1>15 DEF Start, DeleteBacklog, Delete, StartFrame, workerVars, frontVars
  <1>16. CASE NilMap
    BY <1>7, <1>16 DEF NilMap, StartFrame, workerVars, Goto
  <1>17. CASE Restart
    <2>1. dirs' = <<>> /\ files' = <<>> /\ served' = {} /\ UNCHANGED todo
      BY <1>17 DEF Restart
    <2> QED
      BY <1>0, <2>1 DEF Fetched
  <1> QED
    BY <1>4, <1>5, <1>2, <1>6, <1>9, <1>10, <1>11, <1>12, <1>13, <1>14, <1>15, <1>16, <1>17
    DEF Next, Start

LEMMA FetchedAlways == Spec => []Fetched
  <1>1. Init => Fetched
    BY DEF Init, Fetched
  <1>2. IInv /\ Fetched /\ [Next]_vars => Fetched'
    BY FetchedStep
  <1> QED
    BY <1>1, <1>2, InvAlways, PTL DEF Spec

-----------------------------------------------------------------------------
(* The tables of dpluger *)

AllTitles == setup.titles \cup {setup.tsv[s] : s \in DOMAIN setup.tsv}

\* Table and index are finite, their titles known; the filter has been made from the
\* table, or from a smaller one, if it has always been read and saved to its end.
Tables ==
  /\ setup \in Setups /\ Table(tsv) /\ IsFiniteSet(index) /\ index \subseteq setup.titles
  /\ \A s \in DOMAIN tsv : tsv[s] \in AllTitles
  /\ "table" \notin faults => \A t \in DOMAIN filter : filter[t] \in DOMAIN tsv /\ tsv[filter[t]] = t

LEMMA TablesInit == Init => Tables
  <1> SUFFICES ASSUME Init PROVE Tables
    OBVIOUS
  <1>1. /\ setup \in Setups /\ tsv = setup.tsv /\ index = {} /\ filter = <<>>
    BY DEF Init
  <1>2. Table(tsv)
    BY <1>1, SetupsAssumption DEF Table
  <1>3. IsFiniteSet(index) /\ DOMAIN filter = {}
    BY <1>1, FS_EmptySet
  <1> QED
    BY <1>1, <1>2, <1>3 DEF Tables, AllTitles

\* Only the tools have to do with it.
LEMMA OnlyTools ==
  ASSUME [Next]_vars, ~Tools
  PROVE  UNCHANGED <<index, tsv, unwritten, filter, made, setup>>
  BY DEF Next, Frontend, Start, HandleConfFileUpload, Write, WriteFails, HandleConfFileDelete,
         MergeGet, MergePost, GetConfigFileList, DownloadFile, DownloadFails, Downloaded, InitAssets,
         InitXCorrelation, ReadDirectives, InitAlarm, StartServer, Receive, DeleteBacklog,
         NilMap, Restart, StartFrame, toolVars, vars

\* What is left of a table, and of the one that is collected from it.
LEMMA CollectedFrom ==
  ASSUME Tables, NEW titles \in SetToSeqs(index), NEW read \in {tsv} \cup Remains(tsv),
         NEW left \in {Collect(read, titles)} \cup Remains(Collect(read, titles))
  PROVE  /\ Table(left) /\ \A s \in DOMAIN left : left[s] \in AllTitles
         /\ Grown(Collect(tsv, titles), tsv, setup.titles)
  <1>1. /\ Table(tsv) /\ IsFiniteSet(index) /\ index \subseteq setup.titles
        /\ \A s \in DOMAIN tsv : tsv[s] \in AllTitles
    BY DEF Tables
  <1>2. ListOf(titles) /\ {titles[i] : i \in DOMAIN titles} = index
    BY <1>1, Permuted
  <1>3. \A r : Table(r) => Table(Collect(r, titles)) /\ Grown(Collect(r, titles), r, index)
    <2> SUFFICES ASSUME NEW r, Table(r)
                 PROVE  Table(Collect(r, titles)) /\ Grown(Collect(r, titles), r, index)
      OBVIOUS
    <2>1. /\ Table(Collect(r, titles))
          /\ Grown(Collect(r, titles), r, {titles[i] : i \in DOMAIN titles})
      BY <1>2, Collected
    <2> QED
      BY <1>2, <2>1
  <1>4. Table(read) /\ \A s \in DOMAIN read : read[s] \in AllTitles
    BY <1>1, Remaining
  <1> DEFINE new == Collect(read, titles)
  <1>5. Table(new) /\ Grown(new, read, index)
    BY <1>3, <1>4
  <1>6. Table(left) /\ DOMAIN left \subseteq DOMAIN new /\ \A s \in DOMAIN left : left[s] = new[s]
    <2> HIDE DEF new
    <2>1. left \in {new} \cup Remains(new)
      BY DEF new
    <2> QED
      BY <1>5, <2>1, Remaining
  <1> HIDE DEF new
  <1>7. \A s \in DOMAIN new : new[s] \in AllTitles
    BY <1>1, <1>4, <1>5 DEF Grown, AllTitles
  <1>8. Grown(Collect(tsv, titles), tsv, setup.titles)
    BY <1>1, <1>3 DEF Grown
  <1> QED
    BY <1>6, <1>7, <1>8

\* The table grows by titles of the index that it does not have.
LEMMA TablesStep ==
  Tables /\ [Next]_vars => Tables' /\ ("table" \notin faults' => Grown(tsv', tsv, setup.titles))
  <1> DEFINE Clean == "table" \notin faults
             Filtered == \A t \in DOMAIN filter : filter[t] \in DOMAIN tsv /\ tsv[filter[t]] = t
  <1> SUFFICES ASSUME Tables, [Next]_vars PROVE Tables' /\ (Clean' => Grown(tsv', tsv, setup.titles))
    OBVIOUS
  <1>0. /\ setup \in Setups /\ Table(tsv) /\ IsFiniteSet(index) /\ index \subseteq setup.titles
        /\ \A s \in DOMAIN tsv : tsv[s] \in AllTitles
        /\ Clean => Filtered
    BY DEF Tables
  <1>1. setup' = setup /\ AllTitles' = AllTitles /\ (Clean' => Clean)
    <2>1. setup' = setup
      BY OnlyTools DEF Tools
    <2> QED
      BY <2>1, FaultsKept DEF AllTitles
  <1>2. ASSUME tsv' = tsv PROVE Grown(tsv', tsv, setup.titles)
    BY <1>2 DEF Grown
  <1>3. CASE UNCHANGED <<index, tsv, filter>>
    BY <1>0, <1>1, <1>2, <1>3 DEF Tables
  <1>4. CASE SaveRefs
    <2>1. PICK titles \in SetToSeqs(index) : tsv' = Collect(tsv, titles)
      BY <1>4 DEF SaveRefs
    <2>2. /\ Table(tsv') /\ \A s \in DOMAIN tsv' : tsv'[s] \in AllTitles
          /\ Grown(tsv', tsv, setup.titles)
      BY <2>1, CollectedFrom
    <2>3. Clean' => \A t \in DOMAIN filter : filter[t] \in DOMAIN tsv' /\ tsv'[filter[t]] = t
      BY <1>0, <1>1, <2>2 DEF Grown
    <2>4. UNCHANGED <<index, filter>>
      BY <1>4 DEF SaveRefs
    <2> QED
      BY <1>0, <1>1, <2>2, <2>3, <2>4 DEF Tables
  <1>5. CASE SaveFails
    <2>1. PICK titles \in SetToSeqs(index), read \in {tsv} \cup Remains(tsv) :
            tsv' \in {Collect(read, titles)} \cup Remains(Collect(read, titles))
      BY <1>5 DEF SaveFails
    <2>2. Table(tsv') /\ \A s \in DOMAIN tsv' : tsv'[s] \in AllTitles
      BY <2>1, CollectedFrom
    <2>3. ~Clean' /\ UNCHANGED index
      BY <1>5 DEF SaveFails
    <2> QED
      BY <1>0, <1>1, <2>2, <2>3 DEF Tables
  <1>6. CASE WriteFilter
    <2>1. UNCHANGED <<index, tsv>> /\ filter' \in {Dictionary(tsv), filter}
      BY <1>6 DEF WriteFilter
    <2>2. Clean' => \A t \in DOMAIN filter' : filter'[t] \in DOMAIN tsv /\ tsv[filter'[t]] = t
      <3>1. \A t \in DOMAIN Dictionary(tsv) :
              Dictionary(tsv)[t] \in DOMAIN tsv /\ tsv[Dictionary(tsv)[t]] = t
        BY <1>0, DictionaryOf
      <3> QED
        BY <1>0, <1>1, <2>1, <3>1
    <2> QED
      BY <1>0, <1>1, <1>2, <2>1, <2>2 DEF Tables
  <1>7. CASE \E t \in setup.titles : NewTitle(t)
    <2>1. PICK t \in setup.titles : index' = index \cup {t} /\ UNCHANGED <<tsv, filter>>
      BY <1>7 DEF NewTitle
    <2>2. IsFiniteSet(index')
      BY <1>0, <2>1, FS_AddElement
    <2> QED
      BY <1>0, <1>1, <1>2, <2>1, <2>2 DEF Tables
  <1> QED
    BY <1>3, <1>4, <1>5, <1>6, <1>7, OnlyTools DEF Tools, ToolNext, CreateDirective

LEMMA TablesAlways == Spec => []Tables
  <1>1. Tables /\ [Next]_vars => Tables'
    BY TablesStep
  <1> QED
    BY <1>1, TablesInit, PTL DEF Spec

\* However the titles of the index are ordered in each run of dpluger, a title keeps the
\* signature IDs it has been given, which never go to another one, as long as each run has
\* read the table to its end and has saved it to its end.
THEOREM SIDsKept == Spec => SIDsRetained
  <1>1. Tables /\ [Next]_vars => [\A s \in DOMAIN tsv : \/ s \in DOMAIN tsv' /\ tsv'[s] = tsv[s]
                                                        \/ "table" \in faults']_tsv
    BY TablesStep DEF Grown
  <1> QED
    BY <1>1, TablesAlways, PTL DEF Spec, SIDsRetained

-----------------------------------------------------------------------------
(* Directives for titles *)

\* dpluger only makes directives that can be decoded, of one name each.
Making == AllShaped(made)

LEMMA MadeLoaded ==
  ASSUME AllShaped(made)
  PROVE  /\ AllShaped(Load(made, TRUE))
         /\ \A i \in DOMAIN Load(made, TRUE) : \E j \in DOMAIN made : Load(made, TRUE)[i] = Normal(made[j])
  <1> DEFINE l == Load(made, TRUE)
  <1>1. Decoded(made)
    BY DEF AllShaped, Decoded, Shaped
  <1>2. /\ ListOf(l) /\ Distinct(l)
        /\ \A i \in DOMAIN l : \E j \in DOMAIN made : Sound(made[j]) /\ l[i] = Normal(made[j])
    BY <1>1, LoadedFile DEF AllShaped
  <1> HIDE DEF l
  <1>3. \A i \in DOMAIN l : Shaped(l[i])
    BY <1>2, NormalSound DEF Shaped, Sound, DirectiveValid, Titled
  <1> QED
    BY <1>2, <1>3 DEF AllShaped, l

\* What the command makes from the table, if it has read all of it.
LEMMA Created ==
  ASSUME AllShaped(made), Table(tsv), CreateDirective
  PROVE  LET l == Load(made, TRUE) IN
         /\ AllShaped(made')
         /\ "table" \notin faults' =>
              \A i \in DOMAIN made' :
                /\ \/ \E j \in DOMAIN l : /\ made'[i].name = l[j].name
                                          /\ \A s : Holds(l[j], s) => Holds(made'[i], s)
                   \/ \E s \in DOMAIN tsv : tsv[s] = made'[i].name
                /\ \A s \in DOMAIN tsv : tsv[s] = made'[i].name => Holds(made'[i], s)
  <1> DEFINE l == Load(made, TRUE)
  <1>1. PICK read \in {tsv} \cup Remains(tsv) : \E lines \in Lines(read) :
           /\ made' \in {AddedUpTo(l, lines)[Len(lines)].dirs, <<>>}
           /\ faults' = IF read = tsv THEN faults ELSE faults \cup {"table"}
    BY DEF CreateDirective
  <1>2. PICK lines \in Lines(read) :
          /\ made' \in {AddedUpTo(l, lines)[Len(lines)].dirs, <<>>}
          /\ faults' = IF read = tsv THEN faults ELSE faults \cup {"table"}
    BY <1>1
  <1>3. AllShaped(l) /\ Table(read)
    BY MadeLoaded, Remaining
  <1> HIDE DEF l
  <1>4. /\ ListOf(lines)
        /\ \A k \in DOMAIN lines : /\ lines[k].sid \in DOMAIN read /\ lines[k].sid \in Nat \ {0}
                                   /\ Titled(lines[k].title) /\ lines[k].title = read[lines[k].sid]
        /\ \A s \in DOMAIN read : Titled(read[s]) =>
             \E k \in DOMAIN lines : lines[k] = [sid |-> s, title |-> read[s]]
    BY <1>3, LinesOf
  <1> DEFINE new == AddedUpTo(l, lines)[Len(lines)].dirs
  <1>5. /\ AllShaped(new)
        /\ \A i \in DOMAIN new :
             /\ \/ \E j \in DOMAIN l : /\ new[i].name = l[j].name
                                       /\ \A s : Holds(l[j], s) => Holds(new[i], s)
                \/ \E k \in DOMAIN lines : lines[k].title = new[i].name
             /\ \A k \in DOMAIN lines : lines[k].title = new[i].name => Holds(new[i], lines[k].sid)
    BY <1>3, <1>4, EntriesAdded
  <1>6. AllShaped(<<>>) /\ DOMAIN <<>> = {}
    <2>1. ListOf(<<>>) /\ DOMAIN <<>> = {}
      BY EmptySeq DEF ListOf
    <2> QED
      BY <2>1 DEF AllShaped, Distinct
  <1>7. made' = new \/ made' = <<>>
    BY <1>2
  <1> HIDE DEF new
  <1>8. \A i \in DOMAIN new : Titled(new[i].name)
    BY <1>5 DEF AllShaped, Shaped
  <1>9. ASSUME read = tsv, NEW i \in DOMAIN new, NEW s \in DOMAIN tsv, tsv[s] = new[i].name
        PROVE  Holds(new[i], s)
    <2>1. PICK k \in DOMAIN lines : lines[k] = [sid |-> s, title |-> tsv[s]]
      BY <1>4, <1>8, <1>9
    <2>2. lines[k].sid = s /\ lines[k].title = tsv[s]
      BY <2>1
    <2> QED
      BY <1>5, <1>9, <2>2
  <1>10. ASSUME read = tsv, NEW i \in DOMAIN new, NEW k \in DOMAIN lines, lines[k].title = new[i].name
        PROVE  \E s \in DOMAIN tsv : tsv[s] = new[i].name
    BY <1>4, <1>10
  <1>11. "table" \notin faults' => read = tsv
    BY <1>2
  <1>12. CASE made' = new
    <2> USE <1>12
    <2>1. ASSUME "table" \notin faults', NEW i \in DOMAIN new
          PROVE  /\ \/ \E j \in DOMAIN l : /\ new[i].name = l[j].name
                                           /\ \A s : Holds(l[j], s) => Holds(new[i], s)
                    \/ \E s \in DOMAIN tsv : tsv[s] = new[i].name
                 /\ \A s \in DOMAIN tsv : tsv[s] = new[i].name => Holds(new[i], s)
      BY <1>5, <1>9, <1>10, <1>11, <2>1
    <2> QED
      BY <1>5, <2>1 DEF l
  <1>13. CASE made' = <<>>
    BY <1>6, <1>13
  <1> QED
    BY <1>7, <1>12, <1>13

LEMMA MakingAlways == Spec => []Making
  <1>1. Init => Making
    <2>1. ListOf(<<>>) /\ DOMAIN <<>> = {}
      BY EmptySeq DEF ListOf
    <2> QED
      BY <2>1 DEF Init, Making, AllShaped, Distinct
  <1>2. Tables /\ Making /\ [Next]_vars => Making'
    <2> SUFFICES ASSUME Tables, AllShaped(made), [Next]_vars PROVE AllShaped(made')
      BY DEF Making
    <2>1. CASE CreateDirective
      BY <2>1, Created DEF Tables
    <2>2. CASE UNCHANGED made
      BY <2>2
    <2> QED
      BY <2>1, <2>2, OnlyTools
      DEF Tools, ToolNext, SaveRefs, SaveFails, WriteFilter, NewTitle
  <1> QED
    BY <1>1, <1>2, TablesAlways, PTL DEF Spec

LEMMA OnlyMerge == [Next]_vars => MergeGet \/ MergePost \/ UNCHANGED merge
  BY DEF Next, Frontend, Start, Tools, HandleConfFileUpload, Write, WriteFails,
         HandleConfFileDelete, GetConfigFileList, DownloadFile, DownloadFails, Downloaded, InitAssets,
         InitXCorrelation, ReadDirectives, InitAlarm, StartServer, Receive, DeleteBacklog,
         NilMap, Restart, StartFrame, vars

\* A merged file loses nothing that could be loaded, whatever is in the two files, but to
\* what the user has accepted in its place and what is not valid.
THEOREM MergingKeeps == Spec => []MergeKeeps
  <1>1. Init => MergeKeeps
    BY DEF Init, MergeKeeps
  <1>2. MergeKeeps /\ [Next]_vars => MergeKeeps'
    <2> SUFFICES ASSUME MergeKeeps, [Next]_vars PROVE MergeKeeps'
      OBVIOUS
    <2>1. CASE MergeGet
      <3>1. PICK c \in Read("directives"), target \in ({made} \cup setup.targets) \ {<<>>} :
              /\ Decoded(c.value) /\ Decoded(target)
              /\ \E accepted \in SUBSET Prompted(c.value, target) :
                   merge' = [base |-> c.value, accepted |-> {target[k] : k \in accepted},
                             result |-> MergeDirectives(c.value, target, accepted)]
        BY <2>1 DEF MergeGet
      <3>2. PICK accepted \in SUBSET Prompted(c.value, target) :
              merge' = [base |-> c.value, accepted |-> {target[k] : k \in accepted},
                        result |-> MergeDirectives(c.value, target, accepted)]
        BY <3>1
      <3> DEFINE base == c.value
                 result == MergeDirectives(base, target, accepted)
      <3>3. /\ merge'.base = base /\ merge'.result = result
            /\ merge'.accepted = {target[k] : k \in accepted}
        BY <3>2
      <3>4. /\ Decoded(base) /\ Decoded(target) /\ accepted \in SUBSET Prompted(base, target)
            /\ result = MergeDirectives(base, target, accepted)
        BY <3>2, <3>1
      <3> HIDE DEF base, result
      <3>5. ASSUME NEW id \in Ids(Load(base, TRUE)) \ Ids(Load(result, TRUE))
            PROVE  \E k \in accepted : target[k].id = id /\ ~DirectiveValid(target[k], <<>>)
        <4>1. LostOnly(base, target, accepted)
          BY <3>4, MergedLoads
        <4> QED
          BY <3>4, <4>1 DEF LostOnly
      <3>6. ASSUME NEW id \in Ids(Load(base, TRUE)) \ Ids(Load(result, TRUE))
            PROVE  \E d \in merge'.accepted : d.id = id /\ ~DirectiveValid(d, <<>>)
        <4>1. PICK k \in accepted : target[k].id = id /\ ~DirectiveValid(target[k], <<>>)
          BY <3>5
        <4>2. target[k] \in merge'.accepted
          BY <3>3
        <4> QED
          BY <4>1, <4>2
      <3> QED
        BY <3>3, <3>6 DEF MergeKeeps
    <2>2. CASE MergePost
      BY <2>2 DEF MergePost, MergeKeeps
    <2>3. CASE UNCHANGED merge
      BY <2>3 DEF MergeKeeps
    <2>4. MergeGet \/ MergePost \/ UNCHANGED merge
      BY OnlyMerge
    <2> QED
      BY <2>1, <2>2, <2>3, <2>4
  <1> QED
    BY <1>1, <1>2, PTL DEF Spec

\* A directive with the name of a title watches every ID the table has for it.
Watching(d) ==
  d.name \in AllTitles =>
    /\ \E s \in DOMAIN tsv : tsv[s] = d.name
    /\ \A s \in DOMAIN tsv : tsv[s] = d.name => Holds(d, s)

AllWatch(ds) == \A i \in DOMAIN ds : Watching(ds[i])

FileWatches(c) == c.kind = "doc" => AllWatch(c.value)

\* So it is with all of them, wherever they are on their way into a process, if nothing
\* has failed half-way on that way.
Intact == {"table", "file"} \cap faults = {}

Watched ==
  /\ Intact => /\ AllWatch(made) /\ AllWatch(merge.result) /\ FileWatches(conf["directives"])
               /\ \A w \in writers : w.file = "directives" => AllWatch(w.value)
  /\ faults = {} => FileWatches(local["directives"]) /\ AllWatch(files) /\ AllWatch(dirs)

LEMMA WatchedInit == Init => Watched
  <1> SUFFICES ASSUME Init PROVE Watched
    OBVIOUS
  <1>1. /\ setup \in Setups /\ conf = setup.conf /\ local = [f \in Files |-> NoFile]
        /\ writers = {} /\ made = <<>> /\ files = <<>> /\ dirs = <<>> /\ merge.result = <<>>
    BY DEF Init, NoMerge
  <1>2. AllWatch(<<>>)
    BY DEF AllWatch
  <1>3. FileWatches(conf["directives"])
    BY <1>1, NamesAssumption DEF FileWatches, AllWatch, Watching, AllTitles
  <1>4. "directives" \in Files
    <2>1. 2 \in 1..3 /\ FileOrder[2] = "directives"
      BY DEF FileOrder
    <2> QED
      BY <2>1 DEF Files
  <1>5. FileWatches(local["directives"])
    BY <1>1, <1>4 DEF FileWatches, NoFile
  <1> QED
    BY <1>1, <1>2, <1>3, <1>5 DEF Watched

\* A title of the table gets no further IDs.
LEMMA WatchingKept ==
  ASSUME Tables, [Next]_vars, "table" \notin faults'
  PROVE  AllTitles' = AllTitles /\ \A d : Watching(d) => Watching(d)'
  <1>1. Grown(tsv', tsv, setup.titles)
    BY TablesStep
  <1>2. AllTitles' = AllTitles
    BY OnlyTools DEF Tools, AllTitles
  <1>3. /\ DOMAIN tsv \subseteq DOMAIN tsv' /\ \A s \in DOMAIN tsv : tsv'[s] = tsv[s]
        /\ \A s \in DOMAIN tsv' \ DOMAIN tsv : \A r \in DOMAIN tsv : tsv[r] # tsv'[s]
    BY <1>1 DEF Grown
  <1>4. ASSUME NEW d, Watching(d) PROVE Watching(d)'
    <2> SUFFICES ASSUME d.name \in AllTitles
                 PROVE  /\ \E s \in DOMAIN tsv' : tsv'[s] = d.name
                        /\ \A s \in DOMAIN tsv' : tsv'[s] = d.name => Holds(d, s)
      BY <1>2 DEF Watching, Holds
    <2>1. PICK r \in DOMAIN tsv : tsv[r] = d.name
      BY <1>4 DEF Watching
    <2>2. \A s \in DOMAIN tsv : tsv[s] = d.name => Holds(d, s)
      BY <1>4 DEF Watching
    <2>3. \A s \in DOMAIN tsv' : tsv'[s] = d.name => s \in DOMAIN tsv /\ tsv[s] = d.name
      BY <1>3, <2>1
    <2> QED
      BY <1>3, <2>1, <2>2, <2>3
  <1> QED
    BY <1>2, <1>4

LEMMA WatchingNormal ==
  ASSUME NEW d, DirectiveDecoded(d), Watching(d)
  PROVE  Watching(Normal(d))
  <1> DEFINE q == Normal(d)
  <1>1. /\ q.name = d.name /\ DOMAIN q.rules = DOMAIN d.rules
        /\ \A i \in DOMAIN d.rules : q.rules[i].sids = d.rules[i].sids
    BY NormalKeeps
  <1> HIDE DEF q
  <1>2. \A s : Holds(d, s) => Holds(q, s)
    BY <1>1 DEF Holds
  <1> QED
    BY <1>1, <1>2 DEF Watching, q

\* The files on the two sides.
LEMMA FilesStep ==
  ASSUME IInv, Tables, Watched, [Next]_vars, Intact'
  PROVE  /\ FileWatches(conf["directives"])'
         /\ \A w \in writers' : w.file = "directives" => AllWatch(w.value)'
         /\ faults' = {} => FileWatches(local["directives"])'
  <1> DEFINE Here == faults = {} => FileWatches(local["directives"])
  <1>1. Intact /\ "table" \notin faults' /\ "file" \notin faults'
    BY FaultsKept DEF Intact
  <1>2. /\ Whole(conf) /\ Whole(local) /\ setup \in Setups
        /\ FileWatches(conf["directives"]) /\ Here
        /\ \A w \in writers : w.file = "directives" => AllWatch(w.value)
        /\ AllWatch(merge.result)
    BY <1>1 DEF IInv, Confs, Watched
  <1>3. \A d : Watching(d) => Watching(d)'
    BY <1>1, WatchingKept
  <1>4. \A ds : AllWatch(ds) => AllWatch(ds)'
    BY <1>3 DEF AllWatch
  <1>5. \A c : FileWatches(c) => FileWatches(c)'
    BY <1>4 DEF FileWatches
  <1>6. FileWatches(Empty) /\ FileWatches(Garbage) /\ FileWatches(NoFile)
        /\ \A v : AllWatch(v) => FileWatches(Doc(v))
    BY DEF FileWatches, Empty, Garbage, NoFile, Doc
  <1>7. "directives" \in Files
    <2>1. 2 \in 1..3 /\ FileOrder[2] = "directives"
      BY DEF FileOrder
    <2> QED
      BY <2>1 DEF Files
  <1> DEFINE Goal == /\ FileWatches(conf["directives"])'
                     /\ \A w \in writers' : w.file = "directives" => AllWatch(w.value)'
                     /\ faults' = {} => FileWatches(local["directives"])'
  <1>8. ASSUME NEW c, Whole(c), FileWatches(c["directives"]), NEW f, NEW v,
               f = "directives" => FileWatches(v), NEW n, n = [c EXCEPT ![f] = v]
        PROVE  FileWatches(n["directives"])'
    <2>1. n["directives"] = IF f = "directives" THEN v ELSE c["directives"]
      BY <1>7, <1>8 DEF Whole, Record
    <2> QED
      BY <1>5, <1>8, <2>1
  <1>9. ASSUME NEW c, NEW n, FileWatches(c), n = c PROVE FileWatches(n)'
    BY <1>5, <1>9
  <1>10. ASSUME UNCHANGED conf, UNCHANGED writers \/ writers' = {},
               faults' = {} => FileWatches(local["directives"])'
        PROVE  Goal
    <2>1. FileWatches(conf["directives"])'
      BY <1>2, <1>9, <1>10
    <2>2. \A w \in writers' : w.file = "directives" => AllWatch(w.value)'
      BY <1>2, <1>4, <1>10
    <2> QED
      BY <1>10, <2>1, <2>2
  <1>11. CASE DownloadFile
    <2> DEFINE f == NextFile
               v == Body(conf[f])
    <2>1. UNCHANGED <<conf, writers>>
      BY <1>11 DEF DownloadFile, frontVars
    <2>2. PICK c : /\ local' = [local EXCEPT ![f] = c]
                   /\ faults' = IF f # "directives" THEN faults
                                ELSE IF c = v THEN faults \ {"copy"} ELSE faults \cup {"copy"}
      BY <1>11 DEF DownloadFile
    <2>3. f = "directives" => FileWatches(v)
      BY <1>2, <1>6 DEF Body
    <2> HIDE DEF f, v
    <2>4. ASSUME faults' = {} PROVE FileWatches(local["directives"])'
      <3>1. CASE f = "directives"
        <4>1. c = v
          BY <2>2, <2>4, <3>1
        <4>2. local'["directives"] = c
          BY <1>2, <1>7, <2>2, <3>1 DEF Whole, Record
        <4> QED
          BY <1>9, <2>3, <3>1, <4>1, <4>2
      <3>2. CASE f # "directives"
        <4>1. local'["directives"] = local["directives"]
          BY <1>2, <1>7, <2>2, <3>2 DEF Whole, Record
        <4>2. faults = {}
          BY <2>2, <2>4, <3>2
        <4> QED
          BY <1>2, <1>9, <4>1, <4>2
      <3> QED
        BY <3>1, <3>2
    <2> QED
      BY <1>10, <2>1, <2>4
  <1> SUFFICES ASSUME ~DownloadFile PROVE Goal
    BY <1>11
  <1>12. ASSUME UNCHANGED local PROVE faults' = {} => FileWatches(local["directives"])'
    <2>1. faults' = {} => faults = {}
      BY <1>12, FaultsKept
    <2> QED
      BY <1>2, <1>9, <1>12, <2>1
  <1>13. ASSUME NEW f, NEW v, OpenFile(f, v), f = "directives" => AllWatch(v), UNCHANGED local
        PROVE  Goal
    <2>1. /\ conf' = [conf EXCEPT ![f] = Empty]
          /\ writers' = writers \cup {[file |-> f, value |-> v]}
      BY <1>13 DEF OpenFile
    <2>2. FileWatches(conf["directives"])'
      BY <1>2, <1>6, <1>8, <2>1
    <2>3. \A w \in writers' : w.file = "directives" => AllWatch(w.value)'
      <3>1. ASSUME NEW w, w = [file |-> f, value |-> v], w.file = "directives"
            PROVE  AllWatch(w.value)'
        <4>1. w.value = v /\ f = "directives"
          BY <3>1
        <4> QED
          BY <1>4, <1>13, <4>1
      <3> QED
        BY <1>2, <1>4, <2>1, <3>1
    <2> QED
      BY <1>13, <1>12, <2>2, <2>3
  <1>14. CASE HandleConfFileUpload
    <2>1. PICK o \in setup.offers : OpenFile(o.file, o.value)
      BY <1>14 DEF HandleConfFileUpload
    <2>2. o.file = "directives" => AllWatch(o.value)
      BY <1>2, NamesAssumption DEF AllWatch, Watching, AllTitles
    <2>3. UNCHANGED local
      BY <1>14 DEF HandleConfFileUpload, workerVars
    <2> QED
      BY <1>13, <2>1, <2>2, <2>3
  <1>15. CASE MergePost
    BY <1>2, <1>13, <1>15 DEF MergePost, workerVars
  <1>16. ASSUME NEW w \in writers, Write(w) PROVE Goal
    <2>1. writers' = writers \ {w} /\ UNCHANGED local
      BY <1>16 DEF Write, workerVars
    <2>2. PICK c \in {Doc(w.value), Garbage} : conf' = [conf EXCEPT ![w.file] = c]
      BY <1>16 DEF Write
    <2>3. w.file = "directives" => FileWatches(c)
      BY <1>2, <1>6, <2>2
    <2>4. FileWatches(conf["directives"])'
      BY <1>2, <1>8, <2>2, <2>3
    <2> QED
      BY <1>2, <1>4, <1>12, <2>1, <2>4
  <1>17. ASSUME NEW w \in writers, WriteFails(w) PROVE Goal
    <2>1. writers' = writers \ {w} /\ UNCHANGED local
      BY <1>17 DEF WriteFails, workerVars
    <2>2. PICK c \in {conf[w.file], Garbage} \cup {Doc(v) : v \in Mixes(w.file)} :
            /\ conf' = [conf EXCEPT ![w.file] = c]
            /\ faults' = IF c.kind = "doc" /\ c # conf[w.file] THEN faults \cup {"file"} ELSE faults
      BY <1>17 DEF WriteFails
    <2>3. c = conf[w.file] \/ c.kind # "doc"
      BY <1>1, <2>2
    <2>4. w.file = "directives" => FileWatches(c)
      BY <1>2, <2>3 DEF FileWatches
    <2>5. FileWatches(conf["directives"])'
      BY <1>2, <1>8, <2>2, <2>4
    <2> QED
      BY <1>2, <1>4, <1>12, <2>1, <2>5
  <1>18. ASSUME NEW f \in Files, HandleConfFileDelete(f) PROVE Goal
    <2>1. /\ conf' = [conf EXCEPT ![f] = NoFile] /\ UNCHANGED local
          /\ writers' = {w \in writers : w.file # f}
      BY <1>18 DEF HandleConfFileDelete, workerVars
    <2>2. FileWatches(conf["directives"])'
      BY <1>2, <1>6, <1>8, <2>1
    <2> QED
      BY <1>2, <1>4, <1>12, <2>1, <2>2
  <1>19. CASE DownloadFails
    <2> DEFINE f == NextFile
    <2>1. /\ local' = local \/ local' = [local EXCEPT ![f] = Garbage]
          /\ UNCHANGED <<conf, writers, faults>>
      BY <1>19 DEF DownloadFails, frontVars, toolVars
    <2> HIDE DEF f
    <2>2. ASSUME faults' = {} PROVE FileWatches(local["directives"])'
      <3>1. FileWatches(local["directives"])
        BY <1>2, <2>1, <2>2
      <3> QED
        BY <1>2, <1>6, <1>8, <1>9, <2>1, <3>1
    <2> QED
      BY <1>10, <2>1, <2>2
  <1>20. CASE UNCHANGED <<conf, local>> /\ (UNCHANGED writers \/ writers' = {})
    BY <1>10, <1>20, <1>12
  <1>21. \/ HandleConfFileUpload \/ MergePost \/ DownloadFails
         \/ \E w \in writers : Write(w) \/ WriteFails(w)
         \/ \E f \in Files : HandleConfFileDelete(f)
         \/ UNCHANGED <<conf, local>> /\ (UNCHANGED writers \/ writers' = {})
         \/ DownloadFile
    BY DEF Next, Frontend, Start, Tools, MergeGet, GetConfigFileList, Downloaded, InitAssets,
           InitXCorrelation, ReadDirectives, InitAlarm, StartServer, Receive, DeleteBacklog,
           NilMap, Restart, StartFrame, frontVars, workerVars, vars
  <1> QED
    BY <1>14, <1>15, <1>16, <1>18, <1>11, <1>19, <1>20, <1>21, <1>17

\* The directives in a file that is made or merged, and those that are loaded.
LEMMA WatchedStep == IInv /\ Tables /\ Making /\ Fetched /\ Watched /\ [Next]_vars => Watched'
  <1> SUFFICES ASSUME IInv, Tables, Making, Fetched, Watched, [Next]_vars, Intact' PROVE Watched'
    BY DEF Watched, Intact
  <1>0. /\ Intact /\ "table" \notin faults' /\ "file" \notin faults'
        /\ AllWatch(made) /\ AllWatch(merge.result) /\ FileWatches(conf["directives"])
        /\ faults = {} => FileWatches(local["directives"]) /\ AllWatch(files) /\ AllWatch(dirs)
    BY FaultsKept DEF Watched, Intact
  <1>1. AllTitles' = AllTitles /\ \A d : Watching(d) => Watching(d)'
    BY <1>0, WatchingKept
  <1>2. \A ds : AllWatch(ds) => AllWatch(ds)'
    BY <1>1 DEF AllWatch
  <1>3. ASSUME NEW c, NEW n, AllWatch(c), n = c PROVE AllWatch(n)'
    BY <1>2, <1>3
  <1>4. AllWatch(<<>>)
    BY DEF AllWatch
  <1>5. AllWatch(made)'
    <2>1. CASE CreateDirective
      <3> DEFINE l == Load(made, TRUE)
      <3>1. /\ \A i \in DOMAIN made' :
                 /\ \/ \E j \in DOMAIN l : /\ made'[i].name = l[j].name
                                           /\ \A s : Holds(l[j], s) => Holds(made'[i], s)
                    \/ \E s \in DOMAIN tsv : tsv[s] = made'[i].name
                 /\ \A s \in DOMAIN tsv : tsv[s] = made'[i].name => Holds(made'[i], s)
        BY <1>0, <2>1, Created DEF Making, Tables
      <3>2. ASSUME NEW j \in DOMAIN l PROVE Watching(l[j])
        <4>1. PICK i \in DOMAIN made : l[j] = Normal(made[i])
          BY MadeLoaded DEF Making
        <4>2. DirectiveDecoded(made[i])
          BY DEF Making, AllShaped, Shaped
        <4>3. Watching(Normal(made[i]))
          BY <1>0, <4>2, WatchingNormal DEF AllWatch
        <4> QED
          BY <4>1, <4>3
      <3> HIDE DEF l
      <3>3. ASSUME NEW i \in DOMAIN made', made'[i].name \in AllTitles
            PROVE  \E s \in DOMAIN tsv : tsv[s] = made'[i].name
        <4>1. CASE \E j \in DOMAIN l : made'[i].name = l[j].name
          <5>1. PICK j \in DOMAIN l : made'[i].name = l[j].name
            BY <4>1
          <5> QED
            BY <3>2, <3>3, <5>1 DEF Watching
        <4> QED
          BY <3>1, <4>1
      <3>4. tsv' = tsv
        BY <2>1 DEF CreateDirective
      <3> QED
        BY <1>1, <3>1, <3>3, <3>4 DEF AllWatch, Watching, Holds
    <2>2. CASE UNCHANGED made
      BY <1>0, <1>3, <2>2
    <2> QED
      BY <2>1, <2>2, OnlyTools
      DEF Tools, ToolNext, SaveRefs, SaveFails, WriteFilter, NewTitle
  <1>6. AllWatch(merge.result)'
    <2>1. CASE MergeGet
      <3>1. PICK c \in Read("directives"), target \in ({made} \cup setup.targets) \ {<<>>} :
              /\ c.kind = "doc" /\ Decoded(c.value) /\ Decoded(target)
              /\ \E accepted \in SUBSET Prompted(c.value, target) :
                   merge' = [base |-> c.value, accepted |-> {target[k] : k \in accepted},
                             result |-> MergeDirectives(c.value, target, accepted)]
              /\ faults' = IF c = conf["directives"] THEN faults ELSE faults \cup {"file"}
        BY <2>1 DEF MergeGet
      <3> DEFINE base == c.value
      <3>2. PICK accepted \in SUBSET Prompted(base, target) :
              merge' = [base |-> base, accepted |-> {target[k] : k \in accepted},
                        result |-> MergeDirectives(base, target, accepted)]
        BY <3>1
      <3> DEFINE m == MergeDirectives(base, target, accepted)
      <3>3. merge'.result = m
        BY <3>2
      <3>4. Decoded(base) /\ AllWatch(base)
        BY <1>0, <3>1 DEF FileWatches
      <3>5. AllWatch(target)
        <4>1. setup \in Setups
          BY DEF Tables
        <4>2. \A v \in setup.targets : AllWatch(v)
          BY <4>1, NamesAssumption DEF AllWatch, Watching, AllTitles
        <4> QED
          BY <1>0, <4>2
      <3> HIDE DEF base
      <3>6. \A i \in DOMAIN m : \/ \E j \in DOMAIN base : m[i] = base[j]
                               \/ \E k \in DOMAIN target : m[i] = target[k]
        BY <3>1, <3>2, <3>4, Merged
      <3> HIDE DEF m
      <3>7. AllWatch(m)
        BY <3>4, <3>5, <3>6 DEF AllWatch
      <3> QED
        BY <1>3, <3>3, <3>7
    <2>2. CASE MergePost
      <3>1. merge'.result = <<>>
        BY <2>2 DEF MergePost, NoMerge
      <3> QED
        BY <1>3, <1>4, <3>1
    <2>3. CASE UNCHANGED merge
      BY <1>0, <1>3, <2>3
    <2>4. MergeGet \/ MergePost \/ UNCHANGED merge
      BY OnlyMerge
    <2> QED
      BY <2>1, <2>2, <2>3, <2>4
  <1>7. ASSUME faults' = {} PROVE AllWatch(files)' /\ AllWatch(dirs)'
    <2>1. CASE DownloadFile
      <3>1. files = <<>> /\ dirs = <<>> /\ UNCHANGED <<files, dirs>>
        BY <2>1 DEF Fetched, DownloadFile, loadVars
      <3> QED
        BY <1>3, <1>4, <3>1
    <2> SUFFICES ASSUME ~DownloadFile PROVE AllWatch(files)' /\ AllWatch(dirs)'
      BY <2>1
    <2>2. FileWatches(conf["directives"]) /\ FileWatches(local["directives"])
          /\ AllWatch(files) /\ AllWatch(dirs)
      BY <1>0, <1>7, FaultsKept DEF Intact
    <2>3. ASSUME files # <<>>, files' = Tail(files)
          PROVE  AllWatch(files)' /\ Watching(Normal(Head(files)))
      <3>1. ListOf(files) /\ \A i \in DOMAIN files : DirectiveDecoded(files[i])
        BY DEF IInv, Loading, Decoded
      <3>2. /\ 1 \in DOMAIN files /\ Head(files) = files[1]
            /\ \A i \in DOMAIN Tail(files) : i + 1 \in DOMAIN files /\ Tail(files)[i] = files[i + 1]
        BY <2>3, <3>1, Rest
      <3>3. AllWatch(Tail(files))
        BY <2>2, <3>2 DEF AllWatch
      <3>4. Watching(Normal(Head(files)))
        BY <2>2, <3>1, <3>2, WatchingNormal DEF AllWatch
      <3> QED
        BY <1>3, <2>3, <3>3, <3>4
    <2>4. CASE Accept
      <3>1. /\ files # <<>> /\ files' = Tail(files)
            /\ dirs' = Append(dirs, Normal(Head(files)))
        BY <2>4 DEF Accept
      <3>2. AllWatch(files)' /\ Watching(Normal(Head(files)))
        BY <2>3, <3>1
      <3> DEFINE d == Normal(Head(files))
                 new == Append(dirs, d)
      <3>3. \A i \in DOMAIN new : (i \in DOMAIN dirs /\ new[i] = dirs[i]) \/ new[i] = d
        <4>1. ListOf(dirs)
          BY DEF IInv, Loading
        <4> HIDE DEF d
        <4> QED
          BY <4>1, Appended
      <3> HIDE DEF d, new
      <3>4. AllWatch(new)
        BY <2>2, <3>2, <3>3 DEF AllWatch, d
      <3> QED
        BY <1>3, <3>1, <3>2, <3>4 DEF new, d
    <2>5. CASE Skip
      BY <1>3, <2>3, <2>5, <2>2 DEF Skip
    <2>6. CASE ReadDirectives
      <3>1. /\ UNCHANGED dirs
            /\ \/ UNCHANGED files
               \/ Dir["directives"].kind = "doc" /\ files' = Dir["directives"].value
        BY <2>6 DEF ReadDirectives
      <3>2. FileWatches(Dir["directives"])
        BY <2>2 DEF Dir
      <3> HIDE DEF Dir
      <3>3. AllWatch(files)'
        BY <1>3, <2>2, <3>1, <3>2 DEF FileWatches
      <3> QED
        BY <1>3, <2>2, <3>1, <3>3
    <2>7. CASE Restart
      <3>1. files' = <<>> /\ dirs' = <<>>
        BY <2>7 DEF Restart
      <3> QED
        BY <1>3, <1>4, <3>1
    <2>8. CASE UNCHANGED <<files, dirs>>
      BY <1>3, <2>8, <2>2
    <2>9. Accept \/ Skip \/ ReadDirectives \/ Restart \/ UNCHANGED <<files, dirs>>
      BY Apart DEF Next, Start, GetConfigFileList, DownloadFile, DownloadFails, Downloaded,
             InitAssets, InitXCorrelation, InitDirectives, InitAlarm, StartServer, Receive,
             CreateNewBackLog, IndexPanic, DeleteBacklog, Delete, NilMap, loadVars, vars
    <2> QED
      BY <2>4, <2>5, <2>6, <2>7, <2>8, <2>9
  <1> QED
    BY <1>5, <1>6, <1>7, FilesStep DEF Watched

LEMMA WatchedAlways == Spec => []Watched
  BY WatchedInit, WatchedStep, InvAlways, TablesAlways, MakingAlways, FetchedAlways, PTL DEF Spec

\* Whatever the order in which dpluger is run, its directives merged, uploaded, downloaded
\* and loaded, and the filter deployed: a directive made for a title watches what the
\* filter sends for it, if no read or write has failed half-way.
THEOREM TitlesWatched == Spec => []WatchesTitle
  <1>1. Tables /\ Watched => WatchesTitle
    <2> SUFFICES ASSUME Tables, Watched, faults = {},
                        NEW i \in DOMAIN dirs, dirs[i].name \in DOMAIN filter
                 PROVE  Holds(dirs[i], filter[dirs[i].name])
      BY DEF WatchesTitle, Holds
    <2> DEFINE title == dirs[i].name
    <2>1. filter[title] \in DOMAIN tsv /\ tsv[filter[title]] = title /\ title \in AllTitles
      BY DEF Tables
    <2>2. Watching(dirs[i])
      BY DEF Watched, AllWatch
    <2> QED
      BY <2>1, <2>2 DEF Watching
  <1> QED
    BY <1>1, TablesAlways, WatchedAlways, PTL

-----------------------------------------------------------------------------
(* What follows *)

\* The directives that run are normalised, and a backlog belongs to one of them.
THEOREM TypeCorrect == Spec => []DeploymentTypeOK
  <1>1. IInv => DeploymentTypeOK
    <2> SUFFICES ASSUME IInv PROVE DeploymentTypeOK
      OBVIOUS
    <2>1. LoadTypeOK
      BY DEF IInv, Loading, Opened, Runnable, LoadTypeOK
    <2> QED
      BY <2>1 DEF IInv, Phases, Confs, Whole, DeploymentTypeOK
  <1> QED
    BY <1>1, InvAlways, PTL

\* initBackLogRules only leaves the rules by a number in custom data or an address that is
\* taken for one, as validation keeps the references of addresses and ports inside; and
\* the map of alarms is missing in clusters only.
THEOREM PanicsExplained == Spec => []PanicCauses
  <1>1. IInv => PanicCauses
    <2> SUFFICES ASSUME IInv PROVE PanicCauses
      OBVIOUS
    <2>1. ASSUME NEW d \in DOMAIN dirs, OutOfRange(dirs[d])
          PROVE  \E i \in DOMAIN dirs[d].rules \ {1} :
                   LET r == dirs[d].rules[i]
                       unchecked == {r.custom[k] : k \in DOMAIN r.custom}
                                    \cup {f \in {r.from, r.to} : f.kind = "list"}
                   IN \E f \in unchecked : BeyondRules(f, Len(dirs[d].rules))
      <3> DEFINE rules == dirs[d].rules
      <3>1. Runnable(dirs[d])
        BY DEF IInv, Loading
      <3>2. PICK i \in DOMAIN rules \ {1} :
              \/ \E f \in Fields : BeyondRules(rules[i][f], Len(rules))
              \/ \E k \in DOMAIN rules[i].custom : BeyondRules(rules[i].custom[k], Len(rules))
        BY <2>1 DEF OutOfRange
      <3>3. CASE \E k \in DOMAIN rules[i].custom : BeyondRules(rules[i].custom[k], Len(rules))
        BY <3>3
      <3>4. CASE \E f \in Fields : BeyondRules(rules[i][f], Len(rules))
        <4>1. PICK f \in Fields : BeyondRules(rules[i][f], Len(rules))
          BY <3>4
        <4>2. f \in {"from", "to"} /\ rules[i][f].kind = "list"
          BY <3>1, <4>1, ReferencesExist
        <4>3. rules[i][f] \in {rules[i].from, rules[i].to}
          BY <4>2
        <4> QED
          BY <4>1, <4>2, <4>3
      <3> QED
        BY <3>2, <3>3, <3>4
    <2> QED
      BY <2>1 DEF IInv, Phases, PanicCauses
  <1> QED
    BY <1>1, InvAlways, PTL

\* An event that a rule of a directive matches gets past the quick check: a valid rule of
\* either type has its pairs in the lists that the check looks at.
THEOREM QuickCheckCorrect == Spec => []QuickCheckSound
  <1>1. IInv => QuickCheckSound
    <2> SUFFICES ASSUME IInv, NEW i \in DOMAIN dirs, NEW e \in Events,
                        NEW j \in DOMAIN dirs[i].rules, DoesEventMatch(e, dirs[i].rules[j], home),
                        SidRules(dirs[i].rules) # {} =>
                          \A k \in DOMAIN dirs[i].rules : dirs[i].rules[k].type = "PluginRule"
                 PROVE  QuickCheck(dirs[i].rules, e)
      BY DEF QuickCheckSound
    <2> DEFINE rules == dirs[i].rules
               r == rules[j]
    <2>1. RuleValid(r, Len(rules))
      BY DEF IInv, Loading, Runnable
    <2>2. KeyMatch(e, r)
      BY DEF DoesEventMatch
    <2>3. CASE r.type = "PluginRule"
      <3>1. r.plugin # 0 /\ r.sids # {}
        BY <2>1, <2>3 DEF RuleValid
      <3>2. SidMatch(e, r)
        BY <2>2, <2>3 DEF KeyMatch
      <3> QED
        BY <3>1, <3>2 DEF QuickCheck, SidRules
    <2>4. CASE r.type = "TaxonomyRule"
      <3>1. SidRules(rules) = {}
        BY <2>4
      <3>2. ProductMatch(e, r)
        BY <2>2, <2>4 DEF KeyMatch, TaxonomyMatch
      <3>3. j \in TaxoRules(rules)
        BY <2>1, <2>4 DEF RuleValid, TaxoRules
      <3> QED
        BY <3>1, <3>2, <3>3 DEF QuickCheck
    <2> QED
      BY <2>1, <2>3, <2>4 DEF RuleValid, RuleTypes
  <1> QED
    BY <1>1, InvAlways, PTL

\* A backlog's first rule is complete with its first event, and a sticky rule records
\* the value of what it matches.
THEOREM BacklogsAsAssumed == Spec => []BacklogAssumption
  <1>1. IInv => BacklogAssumption
    <2> SUFFICES ASSUME IInv, bl # NoBacklog, NEW i \in DOMAIN bl.rules
                 PROVE  LET r == bl.rules[i] IN
                        /\ i = 1 /\ r.stage = 1 => r.occurrence = 1
                        /\ \A e \in Events :
                             /\ DoesEventMatch(e, r, home)
                             /\ \/ r.sticky \in AddressFields
                                \/ r.sticky \in {"PLUGIN_SID", "CUSTOM_DATA"} /\ r.type = "PluginRule"
                             => Recorded(e, r, home)
      BY DEF BacklogAssumption
    <2>1. i = 1 /\ bl.rules[i].stage = 1 => bl.rules[i].occurrence = 1
      <3>1. Runnable(dirs[bl.dir]) /\ bl.rules = InitRules(dirs[bl.dir], bl.opener)
        BY DEF IInv, Loading, Opened, OpenedOf
      <3> QED
        BY <3>1, InitRulesKeep
    <2> QED
      BY <2>1 DEF DoesEventMatch, Recorded
  <1> QED
    BY <1>1, InvAlways, PTL

\* ":1" means the value that matched in the first rule, in whatever order the rules of a
\* valid directive refer to each other: for each field that leads to the first rule, or to
\* one that is open, directly or through earlier rules.
THEOREM ReferencesCorrect == Spec => []ReferencesFollowOpener
  <1>1. IInv => ReferencesFollowOpener
    <2> SUFFICES ASSUME IInv, bl # NoBacklog
                 PROVE  LET d == dirs[bl.dir] IN
                   /\ {bl.opener.src, bl.opener.dst} \subseteq Addresses
                        => DoesEventMatch(bl.opener, bl.rules[1], home)
                   /\ \A f \in Fields : \A i \in Followers(d.rules, f) :
                        Passes(f, bl.rules[i][f], EventField(bl.opener, f))
                   /\ \A i \in DOMAIN d.rules \ {1} :
                        d.rules[i].from = Ref(1) /\ Open(d.rules[1].from) =>
                          \A a \in Addresses \ {bl.opener.src} :
                            ~AddressMatch(bl.rules[i].from, a, home)
      BY DEF ReferencesFollowOpener
    <2> DEFINE d == dirs[bl.dir]
    <2>1. /\ Runnable(d) /\ bl.rules = InitRules(d, bl.opener) /\ ~OutOfRange(d)
          /\ DoesEventMatch(bl.opener, d.rules[1], home)
      BY DEF IInv, Loading, Opened, OpenedOf
    <2> QED
      BY <2>1, OpenerMatches, FollowersPass, SourceHeld
  <1> QED
    BY <1>1, InvAlways, PTL

\* A cluster backend runs what one version of the directive file makes, one that it could
\* have been served during this start, however uploads, deletions and merges fall between
\* the steps of its download and into the reading of a file; unless what is sent then, of
\* two versions, decodes.
THEOREM VersionServed == Spec => []RunsServedVersion
  <1>1. Fetched => RunsServedVersion
    BY DEF Fetched, RunsServedVersion
  <1> QED
    BY <1>1, FetchedAlways, PTL
=============================================================================
