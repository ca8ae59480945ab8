# A TLA+ model of Dsiem

Dsiem correlates normalized security events: a frontend receives them over HTTP
and publishes them to a message queue; a backend consumes them and offers each one
to every *directive*, and every directive keeps the *backlogs* it has opened, one
for each correlation in progress.  A backlog walks through the rules (stages) of
its directive and ends when the last one is complete or when a timeout passes;
every change of it updates an *alarm*, which is written to a file and from there
reaches a store.  The directives come from files, uploaded by hand or made with
`dpluger`, that the frontend keeps and the backends download when they start.

The specifications follow the Go code under `src/`.  `PROJECT.json` maps each
definition to the lines it stands for.

## Inventory

| Component | Code | State | Operations | Works with | Module |
|---|---|---|---|---|---|
| Backlog | `siem/backlog.go` | stage, events, status, start and end of each rule, risk, sticky values, deletion flag, three channels | `start`, `newEventProcessor`, `processMatchedEvent` (a goroutine per matched event), `expirationChecker`, `delete` | manager (channels, lock), alarms (`go alarm.Upsert`) | `Backlog`, `StagedDirective` |
| Backlog manager | `siem/backlogmgr.go` | the backlogs of a directive and their lock | `manager` loop, `delete`, `createNewBackLog` | event queue (channel), backlogs | `BacklogManager`, `Directives` |
| Event queue | `queue/`, `siem/directive.go` | main FIFO (bounded or not) with its waiting consumer, a channel and a listener per directive | copier, `Enqueue`, `Dequeue`, listeners with time-outs | worker (in), managers (out) | `WaitingQueue`, `EventQueue` |
| Rule matching | `rule/rule.go` | sticky lists | `DoesEventMatch` and its parts, quick check | manager, backlogs | `RuleMatching` |
| Directives | `siem/validate.go`, `siem/directive.go` | the loaded directives | `ValidateDirective`, `LoadDirectivesFromFile`, `InitDirectives`, `initBackLogRules` | configuration files, assets, rule matching | `Directives` |
| Alarms | `alarm/`, `xcorrelator/`, `shared/fs`, the index script | map of alarms, their locks and mutexes, caches of lookups, file, store | `Upsert`, removal, `asyncIntelCheck`, `asyncVulnCheck`, `EnqueueWrite` | backlogs, lookup plugins | `Alarms` |
| Overload control | `siem/backlogmgr.go`, `server/server.go`, `limiter/` | state and timer of each backend, flag, rate | `initBpTicker`, `overloadManager`, `Raise`, `Lower` | managers, transport, HTTP handler | `Overload` |
| Transport | `server/handler.go`, `vice/`, `worker/` | channels of events and errors, connection | `handleEvents`, publisher, subscriber, `initMsgQueue` | frontend, backend | `Transport` |
| Deployment | `server/handler.go`, `worker/worker.go`, `cmd/dsiem/main.go` | configuration directories, phase of the process | upload, deletion, download, `serverCmd`, restart | directives, dpluger | `Deployment` |
| dpluger | `dpluger/` | table of signature IDs, filter, directive file | `run`, `directive`, `merge-directive` | frontend | `Dpluger` |
| The rest | websocket, `expcounter`, reporter of the queue, other tools | counters | reports, converters | - | not modelled |

What makes this code hard to test is concurrency: four kinds of goroutines work on
one backlog and take its lock for one assignment at a time; the manager, the
backlogs and their deletion are tied by three unbuffered channels and a lock that
is held while waiting; deletion relies on sleeps; every change of a backlog starts
goroutines on one alarm; back-pressure is a message per change of state, from several
backends to one flag; configurations are written, downloaded and loaded
without any lock between the processes.  `PROJECT.json` lists each hazard at its line with
the property that covers it.

## Modules

`Backlog`, `BacklogManager`, `EventQueue` (on `WaitingQueue`), `Alarms`, `Overload` and
`Transport` each model one component with its interleavings.  `Deployment` composes
`Dpluger`, `Directives` and `RuleMatching`: EXTENDS in that order, with one next-state
relation.  The `MC` modules hold the values of the constants; `Overload`, `EventQueue` and
`Transport` need none.  A definition `Op_Variant` before `Op` is a form of `Op` with a bug
that a property of the runs detects.

### Backlog

One backlog, from `createNewBackLog` to its removal.  A step is one critical section
of the backlog's lock, one channel operation, or one local decision between two of
them; so every interleaving the Go scheduler may choose is there.

| Variable | Code |
|---|---|
| `b` | `CurrentStage`, `Risk`, and of each rule `Events`, `Status`, `StartTime`, `EndTime`, sticky values (`seen`) |
| `alarm` | the arguments of the last `go alarm.Upsert` |
| `life` | `deleted`, `chDone` and `chData` closed, entry in the map (`bLogs` not nil), goroutines of `backlogs.delete` waiting for the lock, position of the one that goes on |
| `mgr`, `pending` | the goroutine of `manager` that forwards to this backlog; events to come |
| `worker` | `newEventProcessor`: position, event, index it read, answer |
| `proc` | the goroutines of `processMatchedEvent` |
| `checker`, `clock` | `expirationChecker` and wall-clock seconds |
| `panics` | run-time panics that would have ended the process |

Events are model values; which rules an event satisfies (`Matches`), which sticky lists
record its value (`Touches`, a superset, since the value is recorded before the later
checks of a rule), its value, time and whether the time can be parsed are constants.
The address lists, the log files and the status time are left out; the asset value
is inside `RuleRisk`.  The sleeps of `backlogs.delete` are the guard `GraceOver`: three
seconds outlast every goroutine of this backlog at work.  This is an assumption of the
code, not something it ensures: a handler that takes longer follows the parent pointer after it has been
set to nil, and panics.  So `NoPanic` has its nil-parent part from `GraceOver`, and
`EventuallyRemoved` its end; the double close, the send on a closed channel and the rule before
the first are excluded by the code itself.

`AllRulesAlwaysActive` is a constant, and so is `Spaced`, a restriction of the
*environment*: with `Spaced` an event arrives only when the handling of the one before
is over.

### StagedDirective

What `docs/directive_and_alarm.md` says of stages, with four variables and no goroutine.
`Backlog!ImplementsStages` maps its variables to the backlog's.  One thing the documentation leaves open
is stated there because the code does it: the deletion of a complete backlog takes
three seconds, and an event that arrives by then is still counted for the last stage, over its
occurrence (`CountLast`).  No other stage is ever over-counted while events are spaced.

### BacklogManager

The loop of `manager` for one directive with a pool of backlogs: quick check, reader
lock, a forwarding goroutine per backlog, first rule, duplicate check, creation,
unlocked look-up and start, and `backlogs.delete` with its lock acquisitions.  With `AllActive`, which is on in the
runs, an event that does not match the rule of the stage may match an `Earlier` one (`backlog.go:94`); the theorems are for both values.  A backlog is
reduced to its stage and its event IDs; whether a matched event completes a stage,
or is discarded by the worker after its answer, is left open.  `start()` is one step
here (its handler runs before the worker exists).

### WaitingQueue and EventQueue

`WaitingQueue` is the queue between the copier goroutine of `InitDirectives`, which alone
enqueues, and the goroutine of `Dequeue`.  `bounded` selects `FixedFIFO` or `FIFO`; every
channel operation and critical section is a step.

| Variable | Code |
|---|---|
| `arrived`, `copier` | events read from the worker (a whitelisted source is skipped), and the position in `Enqueue` with the event and the listener taken |
| `items` | the channel `queue` or the slice |
| `waiters` | `waitForNextElementChan`: a channel is identified by the number of the element its owner is waiting for (`Ticket`), since the owner makes at most one for each element |
| `taker` | position in `DequeueOrWaitForNextElement`, the event it returned, the retries done |
| `discarded`, `out` | events refused, and a history of those handed out |

`EventQueue` extends it with what follows: `Dequeue` offers the event to every directive in
`turn`; the listener of each directive holds one event (`listener`) and gives it to its
`manager` or drops it.  The limit (none, 90 % of the time per event, ten seconds) is left
open: `TimeOut` may happen at any moment, so the stale lengths that select the limit do not
matter.  What a manager does is in `BacklogManager`; here it is ready or busy.  The reporter
is left out.  `EachInOrder` speaks of what a directive was given or has at hand (`Stream`): the elements handed out
without those it was given up on, each once and in the order of `out`.

### RuleMatching, Directives

`RuleMatching` has the checks of a rule as operators.  A CIDR is the set of its addresses, a
text the set of texts that `strings.EqualFold` takes for equal; a field is `ANY`, `HOME_NET`,
`!HOME_NET`, a reference, a list of terms, or empty (`Unset`).  `RefToDigit` takes for a reference
whatever is a number without its colons: a list made by `Digits` is a term that is also `Numbered`, such as the address `2600::`,
which validation takes for an address and `Resolve` for rule 2600.  `ListMeaning` is the reference
definition of a list, taken from the comment above its loop.  `Directives` loads a file one directive a
step (`Accept`, `Skip`), and opens a backlog for an event, with the references rewritten as
`initBackLogRules` does it, rule by rule in place, whatever is `Numbered`.  `Decoded` is what `json.Unmarshal` asks of a file: without the
types of the Go structs it is not read.  At most one backlog is kept: its rules are
a copy, and the interplay of backlogs is in `BacklogManager`.

### Dpluger, Deployment

`Dpluger` has the tools as actions: `SaveRefs` and `WriteFilter` are the two writes of
`createPluginCollect`, with an error possible between them.  `tsvRef.init` does not notice a table that it cannot open
or read to its end, and `tsvRef.save` truncates the file and writes it row by row, so either may be left with the
first rows only (`Remains`): `SaveFails`.  `CreateDirective` loads what the
output file has, adds the table to it and writes it.  The category of a made directive is that of the table, which
may be empty: `Categorised` is the set of titles that have one, and a directive for another title is not valid.  The loops of the tools are recursive functions of how far they
have come (`LoadedUpTo`, `CollectedUpTo`, `AddedUpTo`, `NewUpTo`); the two searches for a free number are `NextFree`.
`merge-directive` only goes on with files that it can decode, and validates neither: its target is what
`dpluger directive` has made or any other file (`targets`), and which of the directives that are in both replace
the old ones (`accepted`) is up to the user.  `Deployment` has

| Variable | Code |
|---|---|
| `conf`, `local` | the configuration directories of the frontend and of a cluster backend; a file is absent, truncated, garbage, or a document |
| `writers` | calls of `handleConfFileUpload` between `OpenFile` (which truncates) and `Write`, or `WriteFails` (`handler.go:172`), which leaves the file empty or cut off |
| `todo`, `broken` | the files `downloadConfigFiles` has still to fetch, and its `err` |
| `phase` | how far `serverCmd` has come, or how the process ended |
| `assets`, `files`, `dirs`, `bl` | what is loaded, and a backlog |
| `index`, `tsv`, `unwritten`, `filter`, `made` | the titles in the index, and what dpluger makes of them |
| `merge` | `merge-directive` between its GET and its POST |
| `served` | history: the versions of the directive file during this start |
| `faults` | history: what a read or a write that failed half-way has reached, the table, the directive file of the frontend or the copy of a backend |

`setup` selects what a run begins with, so that one run covers many small scenarios.  A standalone
process reads the directory it serves and serves it only while it runs; in a cluster the
frontend is always up.  `handleConfFileDownload` reads with `io.ReadAll`, piece by piece: `Read` gives the file as it is, or,
while an upload is at work, text that does not decode or one of `mixes`, the documents that the head of one version and
the tail of another happen to make.  The same may be left in the file by a write that is cut off.  One file stands for each kind (`assets_*`, `directives_*`; `intel_*` and
`vuln_*` behave alike).

### Alarms

One alarm ID.  Each call of `Upsert` is a goroutine with its two critical sections and the
write, and starts a checker of each kind in use.  `Lock` announces a writer and `Enter` waits
for the readers, as `sync.RWMutex` does, which is what makes the nested `RLock` of `logToES`
visible.  A lookup asks the usable sources one after another and caches the answer if one
of them answered.  `file` is the set of records written; `Index` is the Logstash script, which
may see any of them any number of times and in any order.

### Overload

`back` is `initBpTicker` of each backend: the state last reported, the timer, an expiry in its
channel and the timer goroutine that has taken it.  `wire` holds the messages on their way to
the detector.  `pressure` is the environment: late events at intervals below the hold
duration.  A send is non-blocking, as in the code: where there is no room the state is kept and the next
signal tries again.

### Transport

`req` is the answer of each request; `pub` and `sub` are the two goroutines of the event channel;
`w` is the worker, which sends errors to the channel that it alone reads.  The message queue may refuse
any publication, lose any message, and go down and come back `MaxOutages` times.  `gone` is a history of
where an event ended.

## Runs

| Run | Question | Instance |
|---|---|---|
| `backlog_spaced` | Do the goroutines implement the documented stages when events are spaced out? | 3 rules (occurrence 1, 2, 1), all rules active, sticky second rule, 6 events: repeated value, late, undated, fitting two rules, one for a last stage that is complete; 2 clock ticks |
| `backlog_burst` | Panics, order of timestamps, synchronisation of the alarm; is the backlog always removed and the manager always released? | 3 rules, 3 events, 2 handlers at a time, checker that can fire at once |
| `backlog_complete` | *violated*: a backlog is only complete when its last rule is | as above |
| `backlog_early` | *violated*: no timeout before the time | 1 handler, spaced events |
| `manager` | Is an answer always awaited; can one event open two backlogs; does the manager always return, does deletion complete? | 2 backlogs, 3 rules, 3 event IDs, two of them delivered twice |
| `manager_map` | *violated*: the map is read under the lock | 2 backlogs |
| `event_queue` | Is every event accounted for, can an enqueue hang, how far can events overtake each other, can one directive hold up the others? | both kinds of queue, 4 events (one whitelisted), capacity 1, 2 registered channels at most, 2 retries, 2 directives |
| `queue_wakeup` | *violated*: who waits is woken by the next enqueue | unbounded, 3 events, 1 directive |
| `alarms` | Are results found twice or lost, what does the store end up with, do the goroutines end? | 2 overlapping calls, the later one with the lower risk or with none; a lookup of each kind; one source in use |
| `deployment` | What do backends run and what can end them; do references, lists and the quick check mean what they should; do signature IDs, table, filter and directives stay together? | 35 directives in or after a plain one, 3 asset files, missing and broken files, 2 uploads at a time, one mix of two versions that decodes, an index with 2 titles, one of them without a category, a merge with a file of its own, both modes (237 256 states) |
| `overload` | Does the flag agree with the backends, and does the rate follow? | 2 backends, 3 changes of load, 2 messages under way, one lost; ranges above and below the number of steps |
| `transport` | Where are the events that were accepted, and does the worker come back? | 3 requests, channels of 1 event and 3 errors, 2 outages |

Bounds.  Three rules are the fewest with a first, an inner and a last stage; two
handlers the fewest that can race, and the stage race needs no more; three to six events
let a stage overflow and the next one begin.  The clock moves far enough to expire
any stage.  `Procs` and `Backlogs` bound the goroutines and the backlogs; a
worker whose handler pool is exhausted waits, which the code never does, so the pool
only removes behaviours with more handlers (the theorems hold for any set).
In the queue, a capacity of 1 makes a full queue and an overtaken element likely, two channels
are enough for the list of listeners to fill up with channels left behind, two retries for the poll to
succeed or fail before the last wait; the code has 1000 channels and ten retries.
Two calls of `Upsert` are the fewest that share an object; a third adds an order of the same two
sections.  In `overload` the steps are a quarter and a half of the range instead of a hundredth and a
tenth: with 1..5 a step is one or two, with 3..5 it rounds to zero and to one.  Three errors are the
smallest channel in which one failed attempt (two errors, one taken out) does not hang the worker
at once; the theorem is for any capacity.  `MaxWriters` = 2 lets uploads overlap.
The steps `Terminated`, `Idle` and `Quiet` are the states in which a system may rest.
Deadlock is checked but in `alarms`, whose finitely many goroutines end, in `transport`, where
requests are finitely many and the worker may hang, and in `deployment`, where uploads are not obliged to
come and a process that has ended may stay down.

Fairness.  Every started goroutine is weakly fair (the Go scheduler), and so are timers and the clock.
In `BacklogManager` the writer lock is strongly fair, since a waiting writer holds
back new readers (`sync.RWMutex` under `drwmutex`).  The arrival of events, requests,
outages, losses and uploads, the expiration of backlogs and the removal of an alarm are not fair.  In `EventQueue` managers are not, so
`DispatchCompletes` holds even when a manager never returns.  In `Overload` late events keep coming
while there is pressure, so `Signal` is fair.

### What the runs rest on, and what their properties leave out

* `AlarmInSync` covers what a backlog hands over; `StoreNewest` what becomes of it in whatever order
  the goroutines run.  The store keeps the higher risk: an alarm whose risk falls keeps the old one there
  (`80_siem.conf:147`), and a record of a checker with a lower risk than the store has is refused.
* `ResultsWritten` excepts a full writer queue, and a checker whose copy is from before the alarm had a risk:
  `updateElasticsearch` then drops what it found (state `silent`).
* `GoroutinesEnd` excepts the deadlock of the nested `RLock` (`alarm/helper.go:101`, `:125`): with a writer that
  announces itself in between, both wait for ever.
* `FlagAgrees` and `OverloadLowers` except a lost message, which is never sent again, and an initial `false`
  that comes after the first `true` (`backlogmgr.go:62`).  While backends disagree the flag is
  that of the last message (`server.go:251`).
* `RateRecovers` excepts ranges below the number of steps, where `Raise` adds zero (`limiter.go:53`).
* `PanicCauses` names the ways a process dies: a number beyond the rules, either in custom data, which
  nobody validates (`backlogmgr.go:432`), or in an address like `2600::`, which `validateFromTo` accepts as an address and
  `initBackLogRules` takes for rule 2600 (`backlogmgr.go:387`); and an event that reaches a cluster backend before `alarm.Init`
  has made its map (`main.go:268` starts the worker before `main.go:295`).
* `RunsServedVersion` excepts a failed transfer: `downloadConfigFiles` forgets the error, keeps the files
  of an earlier start and never removes one (`worker.go:86`); the status of an answer is not looked at either.  It also
  excepts a copy that was read while the file was being replaced and that decodes (`"copy" \in faults`): nothing
  in the code keeps such a mix of two versions from being loaded.
* `ReferencesFollowOpener` is about the fields that lead to the first rule or to an open one, directly or through
  earlier rules (`Followers`).  A reference to the rule itself, or to a later one that is a reference too, passes
  `validateReference` and is never resolved: it stays `:3`, say, and matches no event (`backlogmgr.go:386`).
* `MergeKeeps` is about what was read: `merge-directive` is a read-modify-write without
  protection, and overwrites an upload in between (`dirmerger.go:125`).  It excepts an ID for which the user has accepted a
  directive that is not valid, such as one made for a title without a category (`dirmaker.go:168`): the valid
  one it replaces is lost.  `compareDirective` never finds two
  directives equal, since it takes the empty list of differences for an error (`dirmerger.go:189`),
  so unchanged ones are asked about too; the answer, if any, changes nothing then.
* The named assumptions of `Deployment` and `Dpluger` are about what a run begins with.  `SetupsAssumption`: a directory has
  all its files, if only as missing ones, and a table of an earlier `dpluger run` is finite with positive numbers, as
  `Collect` counts from 1.  `NamesAssumption`: the directives that come from elsewhere, in the directory, in what is uploaded or
  in the target of a merge, do not bear the name of a title.
* `SIDsRetained` and `WatchesTitle` hold as long as no read or write has failed half-way (`faults`).  `docs/dsiem_plugin.md:182`
  promises that "all of the previously detected titles will retain their SID number", but a `save` that fails after the truncation
  loses rows, and a table that cannot be opened counts as empty (`tsvref.go:208`, `:293`): the next run numbers these titles anew, the
  filter sends the new IDs, and the directives that are in use watch the old ones.  `WatchesTitle` also excepts a directive file
  that was replaced while it was read or whose upload was cut off, and decodes.  The table
  is saved before the filter is written (`dpluger.go:308`), so an error in between leaves a filter that knows fewer titles.
  `save` writes six columns only (`tsvref.go:298`): custom data in the table is lost.
* `BacklogAssumption` is what `Backlog` assumes of directives.  A sticky field that the rule's type does not look
  at (`PLUGIN_SID` or custom data in a taxonomy rule), or one with a name nobody knows, which loading does not check
  (`validate.go:74`), is never recorded, and the rule then never counts (`backlog.go:122`); the property excepts both.
* `QuickCheckSound` excepts directives with plugin pairs and taxonomy rules: events for the latter are dropped (`backlogmgr.go:181`).
* `ListsMeanTheirComment` excepts lists that ask for and exclude the same address: what comes first decides (`rule.go:363`),
  where the comment gives them one meaning.
* `ImplementsStages` takes over that a sticky value is recorded before the later checks of a rule (`rule.go:284`): nothing says
  when a value counts as seen.

### What the violations show

* `backlog_complete`: two events that match the same stage are handled concurrently;
  both handlers find the occurrence reached.  The first moves the backlog to the
  last stage, the second then finds `isLastStage()` true and deletes it.  The documentation
  says removal comes after the evaluation of the last rule completes.
* `backlog_early`: between `increaseStage` and `setRuleStartTime` the start time of the new
  stage is 0; a checker tick at that moment finds the rule expired.
* `manager_map`: `blogs.bl[b.ID].start(...)` reads the map without the lock while another
  backlog is deleted from it.
* `queue_wakeup`: `FIFO.Enqueue` takes the listener while the consumer is polling, finds it not
  ready and stores the element after the last poll.  The consumer then receives on a channel
  that is in no list any more: this and all later events stay in the slice for good.  With one
  millisecond or less between polls the window is small, but nothing closes it.

`FixedFIFO` is not strictly first in, first out either: `Enqueue` finds no listener and is about to
store event 1; the consumer finds the channel empty and registers; event 1 is stored; `Enqueue` of event 2
finds the listener and hands event 2 over first.  `OvertakenOnce` says that it goes no further than that.

## Proofs

Every theorem holds for all values of the constants, under the named assumptions of its module.  Every
inductive invariant has been checked by TLC on the instances of the runs (`Alarms` with two terms to look up
instead of one), before it was proved.

### BacklogProofs

`TypeCorrect`, `NeverPanics`, `CountedInOrder`, `AlarmFollows`
(`Spec => []TypeOK`, `NoPanic`, `InTimeOrder`, `AlarmInSync`).
They rest on the three named assumptions of `Backlog` and on `GraceOver`, which is part of
the specification and gives `NoPanic` its part about the parent pointer.  `NoPanic` is not inductive.  `SafeInv` adds how flag, channels and map
entry move together and that the manager, once past its first select, holds the lock on a
live backlog (`Channels`); that no goroutine is left after the removal (`Silent`); that
the handler of `start()` is alone and leaves the first stage before the worker exists
(`Startup`); and that the worker never looks up the rule before the first (`RuleIndex`).
`InTimeOrder` needs `Ordering`: an event on its way is for the current stage or an earlier
one, and handlers only write the end time of the current stage, so what `isTimeInOrder` saw
cannot change.  `AlarmInSync` needs `Publishing`: a snapshot that is out of date has a
handler or the checker that is still going to publish.

`StagesImplemented`: `ASSUME Spaced PROVE Spec => ImplementsStages`.  `Spaced` is a constant that selects the
environment in `Init` and `Next`; without it the run `backlog_complete` shows that the stages are not implemented.  The
step of each goroutine maps to one step of `StagedDirective` or to none: the worker's handling of an event
to `Count`, `CountLast` or `CountEarlier`, a handler's writes to `Assess` and `Advance`, the deletion to `Close`.  Added to
`SafeInv`, `StagedInv` says that one goroutine has an event at hand (`Alone`); that
an event at hand or to come has not been counted (`Fresh`); that an index read earlier is still that of the stage (`Indexes`);
and that a stage reaches its occurrence only in the hand of the handler that will end it, which knows how far it
has got: risk before stage, and the last stage is over only when it has been assessed (`Counts`, by `Progress`).

### EventQueueProofs

`CopierNeverKept` (`ListenerWaits`).  A bounded `Enqueue` sends to the listener it took with a
plain `listener <- value`, so the copier hangs unless the owner of that channel is receiving.
The inductive form `OneListener` adds that there is at most one such
channel, the one the consumer waits on, either in the list or in the copier's hand, and that
the consumer of a bounded queue never polls.

The other theorems see the queue through six kinds of step (`Moves`: an event enters, is handed over, stored, refused,
taken, or stands), so that each invariant is shown to be kept by six moves, not by the steps of two goroutines.
`NothingLost` (`Accounted`): `Placed` says that the events that arrived are divided between hand, queue, discarded and
handed out, with no repetition; the sum of their numbers follows.  `OvertakenCorrect` (`OvertakenOnce`): `Ordered` adds that the queue
is in the order of arrival, that an element in it has been overtaken once at most, and not at all while the consumer
waits for one, which is what keeps the next event from overtaking it again.  `StreamsInOrder` (`EachInOrder`), with `Offering`:
each offer begins with the first directive, and only what was handed out is lost.  The lemmas `Extended` and `GivenUp` are about a stream
that gets one more element, or does without one of them.  `TypeCorrect` (`TypeOK`) collects the
ranges of tickets and retries.

### AlarmsProofs

`TypeCorrect` (`TypeOK`); `Hits` and `Reading` say what a checker that is about to append has at hand.
`OneResult` (`OneResultPerTerm`): of each object and kind one checker is at work, under the mutex (`Holding`), so its copy keeps
the results the alarm has, and none for a term it has still to look up (`Looking`); a checker exists only once its call has its object (`Started`).
`ResultsReachFile` (`ResultsWritten`): results that are in no record have a checker that has changed the alarm and is going to write it,
or that has given up for the reason the property excepts (`Written`, `Pending`).  `StoreIsNewest` (`StoreNewest`): the document is at least as far as
each record indexed (`Indexed`), and risk and time of an alarm object are in a record of the file unless a call is still going
to write them (`Kept`).

### BacklogManagerProofs

`TypeCorrect`, `AnswersCorrect` (`AnswerAwaited`), `OpenersCorrect`
(`UniqueOpeners`).  `IInv` adds that a manager at work has an event (`HasEvent`); that the lock is held
by the forwarding manager or by the one deletion that removes its backlog (`LockInv`); that events are
forwarded only under the lock, and not to a backlog whose `chDone` is closed (`ForwardInv`); and that
from the search to the start of a new backlog its event has opened none that is listed, the opener
being one of the backlog's events (`OpenerInv`).

### OverloadProofs

`TypeCorrect` and `FlagCorrect`.  The rate needs arithmetic of the two steps only.
`FlagAgrees` needs to know, of each backend, that the last message on its way is its present
state, and that with none on its way the flag is what some backend reported last.

### TransportProofs

`HangCorrect` (`HangNeedsOutage`).  An attempt fails only without a connection, and a connection once made is kept;
`ErrorsOfAttempts` counts that up to then the errors in the channel are at most one for each failed attempt and the
pending ones of the attempt under way.  `EventsAccounted` (`Accounted`): the places of the path divide the accepted events between them, and no
channel holds an event twice (`Placed`); each failed publication is an error queued, one being reported,
or an answer already given (`Answered`).  A step of the path moves an event from one place to the next (`Moves`),
a request adds one (`Arrives`), everything else leaves the division as it is (`Stays`).

### DplugerProofs

The lemmas about operators that `DeploymentProofs` needs.  `ListLoop`: a consistent list means what its comment
says although its loop ends at the first hit.  Induction over data is stated for the set of the numbers that have
a property (`Least`, `Induction`, `Counting`), from the existence of a minimum (`WFMin`), which takes no predicate as
a parameter; with it each recursive function is shown to exist and to satisfy the equation that defines it:
`Resolved` and `FollowersOf` for references, `LoadingOne`, `CollectedOne` and the like for loading, collecting, making and merging.  From
these follow, by induction along the loop: `FollowersPass`, what leads to the first rule or an open one lets the value of the opener pass; `Collected`, a
table only grows, and only by titles it does not have; `LoadedFile`, of each ID that a valid directive of a file has, one is
loaded; `MergedLoads`, nothing of that is lost in a merge but for what was accepted and is not valid (`LostOnly`); `EntriesAdded`, the directives made of
a table decode, have one name each, and hold every ID the table has for that name (`Grows`, `AllShaped`).  Whether they are valid
is not said, as the category may be missing.

### DeploymentProofs

`ListsCorrect` (`ListsMeanTheirComment`) is `ListLoop` for each rule.

`TypeCorrect` (`DeploymentTypeOK`), `PanicsExplained` (`PanicCauses`), `QuickCheckCorrect` (`QuickCheckSound`),
`BacklogsAsAssumed` (`BacklogAssumption`) and `ReferencesCorrect` (`ReferencesFollowOpener`) share the invariant `IInv`.  Its core is
`Loading`: whatever is in the files, what the
process runs is `Runnable`, that is, it has been through `ValidateDirective` and has kept its shape when it was normalised
(`ValidRuns`).  From there `ReferencesExist` gives the panics, and the checks of both rule types the quick check.  `Opened`
ties a backlog to its directive and to the event that matched its first rule, from which `FollowersPass` goes on to
the fields that follow it.  `Phases` says when a process may have a backlog or may have panicked, `Confs` that a directory has all its files.

`VersionServed` (`RunsServedVersion`): `Fetched` follows the versions that were served during this start through the download.
Unless the file was replaced under the reader (`"copy" \notin faults`), the copy is one of them once it has been fetched, or it is an error
text or a cut-off file that does not decode; while the file is loaded, `dirs` is what a prefix of that one version makes and `files` the rest of it.

`SIDsKept` (`Spec => SIDsRetained`) and the invariant `Tables`: table and index are finite, their titles known, and each entry of
the filter is in the table, which the filter may only lag behind; the last part up to the first read or save that fails half-way.

`MergingKeeps` (`MergeKeeps`) follows from `MergedLoads` at the step that merges, for any two files that decode; `Making` says that
what dpluger makes does (`AllShaped`).

`TitlesWatched` (`WatchesTitle`): `Watched` says, of all places a directive passes on its way into the process (the
output of the command, the result of a merge, uploads at work, the directory of either side, the file being read, the
directives loaded), that one with the name of a title holds every ID that the table has for it: the first four as long as neither
the table nor the file has been hit by a fault (`Intact`), the backend's own as long as nothing has (`FaultsKept`: a fault of the copy ends when
the file is fetched again).  It survives later
runs since a title in the table never gets a second ID (`WatchingKept`), and loading, merging and `AddEntry` since
they do not remove IDs.

The assumptions: `SetupsAssumption` and `NamesAssumption`, see above.

### Only model-checked

Everything under fairness: `EventuallyRemoved`, `ManagerReleased`, `ManagerReturns`, `DeletionCompletes`, `DispatchCompletes`,
`GoroutinesEnd`, `RateRecovers`, `OverloadLowers` and `WorkerReconnects`.  The prover has neither WF and SF nor ENABLED.  Every other
property of a passing run is stated by a theorem.

## Not modelled

* The reporter of the queue: its counts go to the log only, and composed with the queue they take more states than
  a run may have.  Reading it shows that a second time-out within 30 seconds is not counted (`event_queue.go:115`)
  and that events discarded while it prints are not either (`reporter.go:121`).
* The websocket of the status page (`eps_wsocket.go`): `add` writes the map of clients without the lock, and a message goes to
  one of the clients.
* The copier's check of the received time (`directive.go:105`), which it makes only when tracing is enabled.
* `dpluger run` for a plugin that does not collect (`createPluginNonCollect`), or with a list of signature IDs that is given
  (`SIDListFile`): both write a filter and touch no table.
* `alarm.Init` accepts a `medRiskMin` above `medRiskMax`; only its outcome is modelled.
* HTTP serving, logging, tracing, the token bucket, name resolution and the text of files; the clients of older indexes, the
  splitting of directive files, custom data groups and field mapping of `dpluger`; `dtester`, `nesd`, `ossimcnv`.

## Left to do

The composition of the event queue with the managers; several alarm IDs with the shared writer queue; the counts of the reporter.
