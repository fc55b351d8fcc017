# kollector in TLA+

A verification project for kollector, the in-cluster agent that watches a
Kubernetes cluster and reports what changes in it over a websocket. It holds
TLA+ modules translated from the Go source, TLC configurations that check them
on small instances, and TLAPS proofs of the properties that matter most.
`PROJECT.json` maps every definition to the lines it models.

Contents: 1 inventory, 2 plan, 3 the modules, 4 the runs, 5 fairness,
6 the proofs, 7 where the code disagrees with its documentation, 8 what is not
modelled.

## 1. Inventory

`main.go:72-111` starts seven goroutines that share one `WatchHandler` and goes
on as the websocket sender itself. Nothing in `WatchHandler` is locked.

| component | state | operations | talks to |
|---|---|---|---|
| report data, `jsonformat.go` | `wh.jsonReport`: six fields, each nil or a pointer to an `ObjectData` with lists `Created`, `Deleted`, `Updated`; `FirstReport`; `aggregateFirstDataFlag` | `AddToJsonFormat`, `prepareDataToSend`, `deleteJsonData`, `isEmptyFirstReport` | every watcher writes it, ListenerAndSender reads and empties it |
| inform channel, `jsonformat.go` | unbuffered `informNewDataChannel` | `informNewDataArrive`, `WaitTillNewDataArrived` | watchers block until the listener is idle |
| ListenerAndSender, `websocket.go:135` | its copy of the report | prepare, skip or send, reset the flag, wait | report data, `wsh.data`, `SetFirstReportFlag` |
| watchers: nodes, pods, services, secrets, namespaces, cron jobs | the open watch, `lastWatchEventCreationTime`, `newStateChan` | open, handle an event, close, reopen | the API server, report data, the registries |
| registries `ndm`, `pdm`, `sdm`, `secretdm`, `namespacedm` | maps from an identifier to a list | add, update, remove, owner lookup | their watcher; `pdm` also from CronJobWatch |
| scan candidates, `podwatch.go:92-159` | `scanNotificationCandidateList` | add, remove, check on a change | in-cluster notifier |
| identifiers, `idmanagment.go` | counter, list of used ids, mutex | `CreateID`, `DeleteID` | watchers |
| new-state notification, `watchhandler.go:178` | `newStateReportChans` | `SetFirstReportFlag` | every watcher |
| websocket handler, `websocket.go` | connection, `wsh.data`, `wsh.mutex`, `end`, `counter` | dial, send, ping, read, close, exit | the backend |
| entrypoint, `kollector-entrypoint.sh` | exit code | restart on code 4 | the process |
| notifier, cloud metadata, configuration | none to speak of | HTTP calls, accessors | other services |

What is hard here:

- *Races on the report.* `append` on a shared list is a read and a later write.
  The listener copies a struct of pointers, drops fields it finds empty,
  marshals the live lists through the copied pointers and empties the lists the
  report points to *by then*. Between any two of these a handler can run.
- *Wake-ups.* A handler informs the listener before it adds (nodes, services,
  secrets, namespaces) or after (pods, cron jobs), and does not inform at all
  while the server version is unknown.
- *Blocking.* Both channels are unbuffered; the listener is the only receiver
  of one and a sender on the other.
- *Failure.* A dead connection is noticed by the sender, by the ping goroutine
  or by the reader, or by several; recovery is the restart of the process.
- *Reopened watches.* What an event means depends on when the last watch ended,
  and the six watch loops do not agree on what counts as an end.
- *Recovery.* Every goroutine recovers from a panic and is called again. A
  watcher then registers once more; the listener replaces every dictionary and
  waits for every watcher, some of which may be waiting for it.

What makes each part correct: no change is left in the report with nobody to
wake the listener; no change is lost; nothing old follows something new in a
report; one report per process is the first, and it alone has the metadata; blocked
handlers are released; the backend sees the reports of a process in order, from
the first one on; a dead connection ends the process; the registry and what was
reported from it agree, and both agree with the cluster once all events are
handled; a scan candidate's counter follows its pods; the dictionaries agree with
the cluster's objects however the watch was interrupted; identifiers are unique;
a recovered listener starts over with a first report and with watches that were
opened for it, and nobody waits for good.

## 2. Plan

| step | module | about | status |
|---|---|---|---|
| 1 | `JsonFormat`, `ReportPipeline`, `MCPipeline` | report data, watchers' plans, inform channel, ListenerAndSender | done |
| 2 | `ReportPipelineProofs` | types, one first report, coverage of pod data | done |
| 3 | `ReportDelivery`, `WebSocketHandler` | abstract delivery; sender, ping, reader, network, entrypoint; refinement | done |
| 4 | `PodWatch`, `MCPodWatch` | pods and their owners, the pod watch, `pdm`, owner lookup, `RemovePod` and its panic, scan candidates | done |
| 5 | `ClusterMirror`, `ResourceWatch`, `MCResourceWatch` | abstract mirror of the cluster; the watches of nodes, services, secrets, namespaces and cron jobs and their dictionaries; refinement | done |
| 6 | `ListenerRecovery`, `MCRecovery` | start and registration, panics, `SetFirstReportFlag`, `CreateID`, who waits for whom | done |
| 7 | start and new state in `PodWatch` | `SetFirstReportFlag` under the open pod watch, with what was not sent before; pods older than the first watch | done |
| 8 | `ListenerRecoveryProofs` | `UniqueIds`, `FirstAfterStart` and `ReopenedAfterReset` for any watchers and loads | done |
| 9 | `QueueLemmas`, `ResourceWatchProofs` | types, `MirrorImplemented`, `OneIdPerCronJob`, `ViewFollowsCluster`, `DictionaryFollowsCluster` for any objects | done |
| 10 | `WebSocketProofs` | types; that `WebSocketHandler` implements `ReportDelivery`; no close under a write | done |
| 11 | `PodWatchProofs` | types, `MissedAreOld`, `RegistryMatchesView`, and for stateful sets `OneListPerPod`, `NoGhostPods`, `CandidatesAreListed`, `RunningImagesScanned`, for any pods | done |
| 12 | `ReportOrderProofs`, `ReportStrandedProofs` | `ReportsMoveForward` and `AtMostOneStranded` for any watchers and any number of events; types of `ListenerRecovery` | done |
| 13 | `ReportFeed` | an abstract feed of changes, with the losses of section 7 as steps of its own, for `ReportPipeline` to implement | next |

Abstract specifications worth stating: `ReportDelivery` and `ClusterMirror`
(done); for the pipeline, a feed of changes to which it conforms up to the losses of section 7
(step 13).
`ReportPipeline` and `WebSocketHandler` meet in one action, the send on
`wsh.data`: the first has it as `SendReport`, the second as
`SendMessageToWebSocket` and `SenderTakes`. What the pipeline proves about its
sequence `sent` (report 1 is the first report and no other is) is what the
second assumes of reports 1, 2, ... . `ListenerRecovery` takes a round of
`ReportPipeline` as one step and puts the start and the recovery of all goroutines
around it; `ResourceWatch` and `PodWatch` are what one watcher does between its
registration and its next, and have `SetFirstReportFlag` as a step of their
surroundings, `StateIsReset`.

## 3. The modules

### JsonFormat

Constants and the pure functions of `jsonformat.go`. An entry of a list is
`[by, n]`: which goroutine wrote it and for which of its events. A report is the
flag, whether the metadata is in it, and the lists. `isEmptyFirstReport` is a
test on the length of the encoding; the module says which reports have one of
those lengths: 20 bytes is `{"firstReport":true}` and nothing else, so the empty
report of a later round, of 21 bytes, is not recognised.

### ReportPipeline

State: `objs` gives for each of the six fields every `ObjectData` the field ever
pointed to, the last being the current one, so that a pointer in a goroutine's
hand is an index. Flags `version` (for `clusterAPIServerVersion # nil`),
`aggregate`, `first`. `informQ` is the queue of goroutines blocked on the inform
channel. A watcher has a program counter, the calls its handler has yet to make
(`todo`), the slice header it has read, and its count of events. The listener has
a program counter, its copy of the pointers, the report being marshalled, its
position in the lists, and `sent`.

A step is one access to a shared pointer, flag or slice header:

| code | action |
|---|---|
| `NodeWatch` gets the server version | `GetClusterVersion` |
| a handler takes an event it reports | `Event`, which chooses the plan: its report and inform calls in code order |
| `AddToJsonFormat`: nil test, allocation | `AddFindsNil`, `AddAllocates` |
| `append`: read, write | `AddReads`, `AddWrites` |
| `informNewDataArrive`: skipped, sent | `InformSkipped`, `InformBlocks` |
| `prepareDataToSend`: copy, version test, `Len` tests, `json.Marshal`, `deleteJsonData` | `PrepareCopies`, `PrepareChecks`, `DropEmpty` (per field), `Marshal` and `DeleteData` (per list) |
| end of aggregation and the skip | `Decide` |
| send and flag reset | `SendReport` |
| `WaitTillNewDataArrived` | `TakeInform` |

Two accesses of the race-prone words are taken to be atomic although Go does not
promise it: a slice header (three words) and the copy of the report struct. What
a handler does before it reports (registries, owners, filters) is abstracted
to which plan it follows; events it does not report are left out. `updatePod`
never returns an identifier above -1, because `DeepCopy` into a value that is
not a pointer fails, so the MICROSERVICES/UPDATED branch (`podwatch.go:279`)
is no plan.

### ReportDelivery and WebSocketHandler

`ReportDelivery` is what the backend may rely on: on each connection, reports
1, 2, ... without a gap, and old connections stay as they are.

`WebSocketHandler` has the process and its entrypoint (`proc`, `code`), the
sender (dial, take, lock, write or exit), the client that sends reports, the
channel as the queue of blocked senders, the mutex, the ping and the read
goroutine with their shared `end` and `counter` (`counter++` is two steps), the
connection (`up`, `down` when the peer is lost without the kernel knowing yet,
`closed` by us) and what is on the wire in both directions. A write to a lost
peer may succeed into a buffer or fail. `os.Exit` is `ExitProcess`, after which
nothing of the process is left but the entrypoint's decision.

### PodWatch

`PodWatch` puts `podwatch.go` against the cluster it observes. Pods have a
`phase`, a creation time (`born`), an `image`, and an owner with a spec `version`
that may change or be deleted. The API server's `queue` is the open watch's
result channel. The collector's part is `last` (`lastWatchEventCreationTime`),
`start` (`collectorCreationTime`), `nextId`, `pdm`, the candidates `cand`, the
scans asked for, and `view`: what the entries collected so far add up to for the
backend. `call` says whether `main.go` has called `PodWatch` yet, for the first time,
or again after a panic. Two history variables: `left` is what of `view` was not sent
yet when a new state began, `early` which images of young pods ran already when a
watch was opened.

| code | action |
|---|---|
| `PodWatch` is called: `collectorCreationTime` | `PodWatchStarts` |
| it opens a watch, at the first try or a later one | `WatchOpens`: the pods that exist come first, in any order |
| closed channel or error event | `WatchEnds` |
| `GetAncestorOfPod` returns an error | `OwnerLookupFails`: the `break` at `podwatch.go:201` leaves the loop |
| Added: too old | `AddedIsOld` |
| Added: no microservice of this spec | `AddedIsNewMicroService` |
| Added: joins one, or is listed there already | `AddedIsKnownMicroService` |
| Modified, and Modified with a `DeletionTimestamp` | `Modified`, `ModifiedIsTerminating` |
| Deleted: `DeletePod`, `RemovePod` | `Deleted`, or `DeletedPanics` when `isMicroServiceNeedToBeRemoved` does |
| `SetFirstReportFlag(true)`; `case <-newStateChan` | `StateIsReset`; `StopsForNewState` |

Between `PodWatchStarts` and `WatchOpens` pods come and go unseen: the watch need not
open at once, and a failed try changes nothing (`podwatch.go:85-88`), so it is no step.
The first watch then delivers them with the state they have reached.

A microservice is recognised by comparing specs, so a spec is the owner and the
version, and that of an owner that cannot be read is the same for all
(`NoSpec`). A map is iterated in any order: `Deleted` chooses which list came
last. An owner kind is one of three, each with another fate in
`isMicroServiceNeedToBeRemoved`: `Deployment` is looked up (as daemon sets and
jobs are), `CronJob` is always removed, `StatefulSet` never.

Abstracted: a handler is one step, because the watch's own goroutine alone uses
this state but for the entries of CronJobWatch, whose lists are empty and are
skipped by every function here; the calls into the report are those of
`ReportPipeline`. All pods are in one watched namespace. The clock counts
created pods, so `time.Now()` is later than any pod that exists; that a creation
timestamp has whole seconds only makes more pods look old. The API server
answers: a lookup fails only for an object that is gone. The branch of `RemovePod` on
`GenerateName` is left out, because no pod is listed under one, and so are
events that cannot be converted.

A new state is `StateIsReset` (the dictionary is replaced, the reports start
over) and later `StopsForNewState` (the channel is read). `SetFirstReportFlag` does not
touch the entries collected in `wh.jsonReport`: what was not sent yet goes out in the
new first report. A listener that panics leaves such data, and what was sent before
is not known here, so `StateIsReset` keeps any part of `view` that can be `Pending`:
the microservices from some identifier on, with the pods they have, and any other
pods. That part stays in `view`, and in `left`. After a panic the pod watch has
a new channel and the old one stays registered, so a notification then `hangs`
for good.

### ClusterMirror and ResourceWatch

`ClusterMirror` is what a reader of the reports may rely on for one kind of
object: what it is told of a name was true of that name, is never older than what it
was told before, and is forgotten only when a first report starts over, which may
keep what was not sent before.

`ResourceWatch` has the other five watchers, one kind to a behaviour: the objects
that exist, their creation and last change, the open watch and its `queue`, and the
collector's `last`, `nextId`, dictionary `dm`, `cronIds`, and `told`, what the
reports last said of every name.

| code | definition |
|---|---|
| `Watch(...)` succeeds, fails | `WatchOpens`, `OpenFails` |
| closed channel, error event, object of another type | `WatchEnds` |
| `SetFirstReportFlag(true)`; `case <-newStateChan` | `StateIsReset`; `StopsForNewState` |
| when `lastWatchEventCreationTime` is set | `NodeStamps`, `ServiceStamps`, `SecretStamps`, `NamespaceStamps`, `CronJobStamps` |
| `isNamespaceWatched`, `CreationTimestamp.Before` | `Ignored`, `IsOld`, both in `EventSkipped` |
| the handlers | `handleNodeWatch`, `handleServiceWatch`, `secretEventHandler`, `NamespaceEventHandler`, `handleCronJobWatch` |
| the dictionary functions | `UpdateNode`, `RemoveNode`, `updateService`, `removeService`, `updateSecret`, `removeSecret`, `UpdateNamespace`, `RemoveNamespace` |

The five differ where the source does. Only the service watch counts a failed
open as an interruption; secrets and namespaces do not count a new state as one, the
others do. `UpdateNode` and `RemoveNode` report what they found, and null or an empty
name if that is nothing (`ReportsNothing`: such an entry names no object); the others
report the object of the event. `UpdateNamespace` compares a namespace of
the dictionary with itself and changes nothing. `cronJobIDs` is made anew with each watch,
and the identifier of a deleted cron job is looked up after it was removed.

Abstracted: a handler is one step, since its dictionary is its own but for
`StateIsReset`; what happens when that comes inside a handler is in
`ListenerRecovery`. Names stand for namespace and name; services are looked up by
their name alone, so all that are watched are in one namespace here (the normal
configuration: `includeNamespaces` holds the component's). A match on `GenerateName`
is left out, as no object of these kinds keeps one for a name. Nodes and services
leave an empty list behind, which every function skips. An entry of the report shares
the object with the dictionary, so a later change may be in an earlier report
too, which only makes it newer. When a first report starts over, `StateIsReset` keeps
what was told of any names: the entries that were not sent before. Nodes and namespaces
are in no namespace, so none of them is in one that is not watched (`MayExist`).

### ListenerRecovery

All goroutines of `main.go:72-110`, each called again when it returns. A watcher
registers (`Registers` reads the slice, `Appends` writes it), asks for its watch until
it opens, and handles events by a plan, the calls in code order: `id` (`CreateID`), `list`,
`push`, `add`, `inform`, `notify`, or `panic` (the type assertion of
`isMicroServiceNeedToBeRemoved`).

| code | action |
|---|---|
| `append` to `newStateReportChans` | `Registers`, `Appends` |
| `getClusterVersion` of the node watcher, before each try | `AsksVersion` |
| the watch is opened, or refused and asked for again | `Opens`, `OpenFails` |
| `CreateID`, `IDCreator` | `LocksAndReads`, `Counts`, `Gives` |
| `dm[id] = list.New()`, `dm[id].PushBack` | `MakesList`, `Pushes`, or `HandlerPanics` if the dictionary was replaced in between |
| `AddToJsonFormat`, `informNewDataArrive` | `Adds`, `Informs` |
| the POST of the notifier | `NotifierAnswers`, which need not happen |
| `SetFirstReportFlag(true)` | `Starts`, `PicksChannel`, `Notified`, or `NotifyPanics` |
| a send, and its receive in a watcher's select | `Tells` |
| a round, `WaitTillNewDataArrived` | `Reports`, `TakesInform` |
| the deferred `recover` | `ReportPanics`, `HandlerPanics` |

`ReportPanics` stands for what a panic in the listener can come from:
`json.Marshal` of objects that a handler is changing. It needs data in the report and leaves
it there. A round that is skipped (no version, an empty first report) changes
nothing and is no step. A watch that is refused leaves its watcher in its loop, away from
the channel it registered. Watches end here for a new state only; what else ends them is
in `ResourceWatch` and `PodWatch`. The dictionary is a number, how often it was replaced, and
what a handler made belongs to one of these.

## 4. The runs

| run | instance | shows |
|---|---|---|
| `pods` | node, pod and cron job watchers; two pod events, one cron job event, all Added; 1.1 million states | `TypeOK`; `PodDataCovered`: while the listener sleeps, pod and microservice data has an inform to come; `ReportsMoveForward`: in single-writer fields every list ends with something newer than anything sent before, although entries may come back |
| `resources` | node (1 event) and service (3), Added and Modified; 1 million states | `AtMostOneStranded`: inform-before-add strands one change of a handler, not more, once a change of it was sent; `FirstReportOnce` |
| `liveness` | node and pod, one event of any kind | `InformersReleased`, `PodDataLeaves` |
| `lost_change` | node and pod, one event | violation, section 7 |
| `empty_report` | as `resources` | violation, section 7 |
| `websocket` | 2 dials, 3 reports, 2 processes, 2 unread frames; 170 thousand states | `DeliveryImplemented` (refinement of `ReportDelivery`), `NoCloseDuringWrite`, `TypeOK` with the counter's bound; `DeadConnectionEndsProcess`, `ReportArrivesOrProcessEnds` |
| `registry` | two pods of a deployment, one of a cron job, owners that may be deleted, one pod older than the first watch, 1 interruption (end or new state), 3 created pods and interruptions together, 2 events in the channel; 3 million states | `RegistryMatchesView`, up to what was not sent before a new state; `MissedAreOld`, `TypeOK` |
| `stateful` | three pods of a stateful set, two of them with the same name, 2 versions of its spec, two pods older than the first watch, 1 interruption, 3 created pods and interruptions together; 1.9 million states | `RegistryMatchesView`, `NoGhostPods`, `OneListPerPod`, `CandidatesAreListed`, `RunningImagesScanned` (unless the pod ran when the watch opened, or the candidate counts fewer pods than are listed) |
| `missed_pod` | as `stateful`, one version, no interruption | violation, section 7 |
| `resource_watch` | five kinds; three objects, two with the same name, one in a namespace that is not watched (for kinds that are in one); 4 times, 2 interruptions, 2 events in the channel; 370 thousand states | `MirrorImplemented` (refinement of `ClusterMirror`), `ViewFollowsCluster`, `DictionaryFollowsCluster`, `OneIdPerCronJob`, `CatchesUp`, `TypeOK` |
| `recovery` | node and pod watcher with one event each, a secret watcher that registers; any number of refused watches, 1 panic of the listener; 275 thousand states | `UniqueIds`, `ReopenedAfterReset`, `FirstAfterStart`, `NotifyBlockers`, `InformBlockers`, `TypeOK` |
| `recovery_stuck` | node and pod watcher, one event each, watches that open at last, 1 panic of the listener | violation, section 7 |

The bounds. `MaxEvents` (events per watcher): the races are between one handler
and the listener or between two handlers on one list, so two goroutines with two
events reach all of them; the third service event lets a change be stranded,
flushed by the next and another be stranded, which is what "at most one" is
about. `EventStates` only selects the lists the entries go to; the pods run needs one list
with two writers, the liveness run takes all three. `Tries` stands for 60: two is enough for a failed dial that is retried and for
one that is not. Two processes are enough for a report of an old process to
appear, if it could, after those of a new one. `MaxQueue` is 2:
what goes wrong with a queued event needs one event before it. Three pods are a
microservice of two and one beside it, or a name used twice beside another; a
second spec version is enough for two microservices of one owner. `MaxEarly` bounds
the pods created before the first watch opens: one can be listed with an image that
is never scanned, and with a second one a candidate has two such pods, or a name was used
before. `MaxChanges` of `PodWatch` bounds created pods and interruptions together, so that
a run has either three pods on one unbroken watch or two and an interruption: a pod on
each side of a new state is what its property needs. The pods `p1` and `p2` of an
owner are interchangeable (`SYMMETRY`; no liveness is checked of `PodWatch`).
In `resource_watch`, `MaxChanges` of 4 is one state of the cluster at the start and three changes:
an object that goes, another of its name that comes and changes. Two interruptions (`MaxGaps`) are a new
state that meets a watch that ended, or one after the other; failed opens are not
bounded. In `recovery`, `Loads` gives one event to each of the two watchers whose handlers
are each other's opposite (one informs before it adds, the other after): a panic of
the listener takes one event, and the one who is then in the way needs the other. The
third watcher is there for the race of three registrations. `MaxPanics` of 1 is one
recovery with everything running; a watcher's own panics are bounded by its
events.
`NotifyBlockers` says that a notification which never ends hangs for good on one
of four things: a channel whose watcher is gone, a watcher blocked in its inform, one
that waits for the notifier, or one whose watch is refused for ever.

Exceptions that properties name because the code has them. `RegistryMatchesView` is
stated up to the first panic of the pod watch, after which every pod is added again
under the specs of that time; after a new state the backend may have what is in `left`
besides what the registry holds. `NoGhostPods`, `OneListPerPod`, `CandidatesAreListed` and
`RunningImagesScanned` are stated until the first watch ends, because what is deleted
between two watches is never noticed, and the runs let the watch be interrupted so that
the condition matters; the last one leaves out images that ran when the watch opened.
`ViewFollowsCluster`, `DictionaryFollowsCluster` and `CatchesUp` speak of `Followed`
objects, those younger than `lastWatchEventCreationTime`: after a new state the nodes,
services and cron jobs that exist are not reported again (section 7).
`FirstAfterStart` is about the marks of reports only, since a listener that panics before
its first report starts again with the dictionaries it has (`watchhandler.go:179`). Deadlock is not checked in any run:
once the bounded events have happened, every goroutine waits for something from
outside, which is the normal state of the program.

## 5. Fairness

In `ReportPipeline`: weak fairness of each watcher's next step and of the
listener's. They are goroutines, and the Go scheduler runs a goroutine that can
run. Events need not happen. `SendReport` is fair because the sender is always
back at the channel or the process ends, which is what `WebSocketHandler` shows;
`TakeInform` serves blocked senders in their order, as Go channels do.

In `WebSocketHandler`: weak fairness of the entrypoint, the dial, the sender,
and each of the two checking goroutines, except that a read on a lost connection
need not return. That a write returns, with or without an error, is the kernel's
retransmission limit: `conn.WriteMessage` is called without a write deadline, so
with a peer that keeps the connection open and reads nothing the sender would
hold the mutex for as long. Delivery of written bytes on a connection that is up
is weakly fair.

In `ResourceWatch`: weak fairness of opening, of the handlers and of taking a new
state. An open that may fail any number of times succeeds in the end: `OpenFails`
and `WatchOpens` are both enabled and only the second is fair, which says that the
API server can be reached again, and without which `CatchesUp` would fail. `select` chooses among ready cases at random, so a
new state that waits is taken. Changes and interruptions need not happen.

In `ListenerRecovery`: weak fairness of the listener's next step and of each
watcher's, as in `ReportPipeline`; the server version and the vendor are asked for with
an answer in any case (`nodewatch.go:161-168`, and a timeout in
`cloudinstancemetadataapi.go`). Events, panics and the notifier's answer need
not happen: `http.DefaultClient` has no timeout. Nor need a watch open (`Opens` has no
fairness): a kind the API server does not serve or does not allow is refused for ever.
Only `recovery_stuck` adds strong fairness of `Opens` (`OpeningSpec`), so that what it shows is
not a watch that never opens.

## 6. The proofs

`ReportPipelineProofs` proves for every set of watchers, every set of event
kinds and every number of events, from the three named assumptions on the
constants:

- `TypeCorrect`: `Spec => []TypeOK`. The strengthening is `TypeInv`: `TypeOK`
  and `QueueInv`, that the goroutines in `informQ` are blocked in an inform.
  `TypeOK` itself already says that every index a goroutine holds is of an object
  that exists, without which `AddWrites` and `Marshal` would not be typed.
- `FirstReportIsMarkedOnce`: `Spec => []FirstReportOnce`. `MarkInv` ties the two
  flags to the listener's position: `first` holds until something was sent, `aggregate`
  until a report worth sending was decided on, and the report in preparation has
  the marks those flags give it.
- `PodDataIsCovered`: `Spec => []PodDataCovered`. `CoverInv` says that a
  non-empty pod or microservice list either has an inform to come from a pod or
  cron job handler (`InformerComing`, from `PlanInv`: their plans end with an
  inform) or will still be emptied in the listener's current round (`WillClear`, by
  its position in `deleteJsonData`). The delicate step is the inform that is skipped: it
  is skipped only while the version is unknown, when the listener has its whole round
  before it.

`ReportOrderProofs` and `ReportStrandedProofs` prove two more of `ReportPipeline`, from
the same assumptions:

- `SentInOrder`: `Spec => []ReportsMoveForward`. `OrderInv` has three parts. `PlansOnce`: a
  handler adds to a field at most once, and to no field with one writer but that of its
  watcher. `OneObject`: a field with one writer never points to a second object, because only
  its writer allocates, so the object a header was read from is the one that is marshalled and
  emptied. `ListInv`, for each list wherever it is (collected, in
  preparation, sent, or in a header about to be stored): it is in event order and `Past`, that
  is older than whatever its writer has yet to put into the field, and what is collected
  ends with something newer than all that was sent. To the report in
  preparation the same applies only once the list was emptied in this round (`Cleared`): before, both
  may hold the same entries. The step that matters is the store by a racing append: it
  brings back entries that were sent, and its own entry is newer than all of them.
- `OneIsStranded`: `Spec => []AtMostOneStranded`. A watcher in `InformFirst` (node, service, secret,
  namespace) is somewhere in inform, then add (`Shape`). `Newest(w)` is the last event of
  which the listener knows, and `Covered` says that whatever is older in a list is in a report. The
  listener establishes it list by list: `MarshalInv` for what it marshalled, `KeptInv` and
  `CoveredInv` for a field it dropped as empty or has taken. `HeaderInv` says what a racing append can
  bring back: the list as it is, or, if the field holds nothing, a covered one. `LateInv` says that a
  list emptied in this round stays empty while its writer has informed and not
  yet added: it cannot complete a second event before the listener takes its inform. While the
  listener waits, what is left of `w` is neither older than `Newest(w)`, as it would be sent, nor
  newer, as its inform would still be to come: it is one change. The condition that a
  change of `w` was sent is used once: an append that brings all of a field back into the first
  round, which dropped it, leaves `NothingOut`. `MicroInv` (of the microservices field, which has two
  writers, nothing is ever by a watcher in `InformFirst`) makes that condition one about the field
  of `w`, and `VersionInv` covers the inform that is skipped. TLC checked `StrandInv` on the instance of
  the run `resources` before it was proved.

`ListenerRecoveryProofs` proves for every set of watchers, any number of events
and any number of panics; the argument needs nothing of the constants:

- `FirstIsMarked`: `Spec => []FirstAfterStart`. `MarkInv` says that no report of
  this start was sent while the watchers are being notified (`NewStart`), and that
  at the moment of a report the flag is set exactly if the last one sent was
  of an earlier start. It rests on `starts` growing with every call, so it needs
  that no report is of a later start.
- `IdentifiersAreUnique`: `Spec => []UniqueIds`. `IdInv` has the lock (whoever is
  inside `CreateID` is in `mutex`, and alone), and that all identifiers given are below
  the counter, or below the one that is about to be given. The search through the list
  of identifiers, which `Counts` models, is therefore never needed. `QueueInv`, that
  whoever is in the inform queue is blocked, and is in it once, says which watcher
  `TakesInform` moves: never one that is inside.
- `NewStateReachesAll`: `Spec => []ReopenedAfterReset`. The property speaks of the end of
  the loop; `Reach` says what holds on the way: every watcher past its registration is in
  the slice, and a watch older than the dictionaries belongs to a channel at or behind
  the loop's position (`Ahead`). It holds until the first registration that writes over
  another: from then on a watcher may be missing in the slice, which is why the property has
  that condition.

- `TypeCorrect`: `Spec => []TypeOK`. To `QueueInv`, `IdInv` and the types of the registry
  it adds `BlockedInv`, that whoever is blocked is in the queue, and `LoopTypes`, that the
  loop over the channels is within its bounds while it sends.

`WebSocketProofs` proves for any number of tries, reports, processes and unread frames,
from the two named assumptions:

- `TypeCorrect`: `Spec => []TypeOK`, from `TypeInv`.
- `WritesAreNotCutOff`: `Spec => NoCloseDuringWrite`. `LockInv` says that the mutex is
  held exactly while the sender is at its write; the two checking goroutines take it for one
  step.
- `DeliveryIsImplemented`: `Spec => DeliveryImplemented`. `DeliveryInv` says what the last
  connection received and what is still on the wire make up 1, 2, ..., as far as the sender has
  got. A step of the network is a `Deliver`, a dial is a `Connect`, everything else a stutter.
- `ReceivedInOrder`: what a connection received is 1, 2, ..., from the abstract
  specification alone.

`ResourceWatchProofs` proves for every set of kinds and objects, names used again or
not, from `KindsAssumption`, `ObjectsAssumption` and `BoundsAssumption` (`MaxChanges` is not zero,
because the clock starts at 1):

- `TypeCorrect` and `MirrorIsImplemented`. `StateInv` is what the cluster, the channel and the
  collector are; `ToldInv` says that what was told of a name, and what the queue and the
  dictionary hold, is of an object that had that name then, and in the order of its changes.
- `OneIdentifierEach`: `IdInv` says that a cron job that has an identifier is older than `last`, or
  its Added event on the open watch was handled: in neither case is it given a second one.
- `ReportsFollow` and `DictionaryFollows`: `FollowInv` says that a followed object is told of and
  listed as it is now, or has its event in the queue, or is one the next watch will start with.
  `UnbrokenInv` adds, while no watch was interrupted, that whatever is told of or listed
  exists or has its Deleted event in the queue.

`PodWatchProofs` proves for any pods, owners, names and kinds, from `KindAssumption`,
`PodsAssumption` and `SpecAssumption`. `StateInv` has the types (`ClusterInv`, `QueueInv`,
`CollectorInv`), with the bound that makes `TypeOK` inductive: a candidate never counts more pods
than were ever counted for its owner.

- `TypeCorrect`; `MissedOnlyByAge`: `Spec => []MissedAreOld`. `MissedInv` says that a pod
  the backend does not know of is older than `last`, or has its Added event in the queue, or is
  one the next watch will start with.
- `RegistryIsReported`: `Spec => []RegistryMatchesView`, if names are not used again or all
  owners are stateful sets (`NamesAreUnique \/ AllStateful`), with what was not sent at a
  new state as the property has it. The invariant is `UniqueInv` or
  `SerialInv`: a name is in one list, so that what `RemovePod` reports of the last list
  is what it did to all. With a name used again, a pod that joined another owner's microservice
  (both owners gone, section 3) can be in two lists of which only one is removed.
- `StatefulPodsAreListedOnce`, `NoStatefulGhosts`, `StatefulCandidatesAreListed`,
  `StatefulImagesAreScanned`: if all owners are stateful sets. `SerialInv` is about the queue: a
  pod's Added event comes before its others and after the last Deleted event of an
  earlier pod of its name. `ListInv` has the lists with it, `CountInv` that a candidate counts at most
  its owner's listed pods that are younger than the collector, `ScanInv` that an image that
  was neither scanned nor running when the watch opened belongs to a candidate that counts fewer. A failed lookup, a panic, or a pod taken for another owner's
  breaks each of the four for deployments and cron jobs, as TLC shows when it is asked; for
  stateful sets the owner is found and `isMicroServiceNeedToBeRemoved` never panics.

`QueueLemmas` holds the facts about sequences that all of these cite: what `Append`, `Tail` and
a replaced element do to length, type and indices, and that an injective sequence as
long as a finite set is large has all its members (the order in which a new watch lists
what exists).

Every safety property and both refinements that a passing run checks are thus proved. Only
model-checked: liveness (`InformersReleased`, `PodDataLeaves`, `DeadConnectionEndsProcess`,
`ReportArrivesOrProcessEnds`, `CatchesUp`, `NotifyBlockers`, `InformBlockers`), which is out of the
prover's reach, as is `ENABLED`, and the properties of `PodWatch` outside the hypotheses named above,
as in the run `registry`. No definition here is recursive.

## 7. Where the code and its documentation disagree

- `NoLostChange` is violated (run `lost_change`). `prepareDataToSend` marshals
  and then empties (`jsonformat.go:152-157`); a change added in between is emptied
  away. The handler's inform then produces a report without it. The README
  says that what is watched is sent.
- `NoEmptyReport` is violated (run `empty_report`). The comment at
  `websocket.go:145` says an empty report is skipped; only the empty *first* report
  is, so a handler that informs before it adds makes the listener send
  `{"firstReport":false}`.

- `EveryPodReported` is violated (run `missed_pod`). A terminating pod's event moves
  `lastWatchEventCreationTime` to now (`podwatch.go:267`) while the watch goes on;
  an Added event behind it in the channel, of a pod created before that
  moment, is then ignored as old.
- `RecoveryCompletes` is violated (run `recovery_stuck`). A listener that panicked starts
  again with `SetFirstReportFlag(true)`, which sends on every registered channel
  (`watchhandler.go:191`). A watcher that is blocked in `informNewDataArrive` waits for
  that same listener, so both wait for good, and with them every other handler. The comment at
  `watchhandler.go:115` has the channels called "in a loop". `NotifyBlockers` says
  what else it can wait for: the first channel of a watcher that panicked itself,
  a pod handler whose POST is not answered, and a watcher whose watch the API server
  refuses: it registered its channel first, and retries without reading it
  (`nodewatch.go:94-97`, `secretwatch.go:36-39`, `cronjobwatch.go:30-34`).

Not violations of a stated property, but worth a reader's attention:

- The comment at `watchhandler.go:115` speaks of new connections; the callback for
  them (`websocket.go:83`) is passed down and never called. A new connection
  is a new process (`WebSocketHandler`), and only a recovered listener sends on these
  channels.
- `watchhandler.go:162` says "ignore only the component namespace"; the list
  is of the namespaces that `isNamespaceWatched` lets through.
- The scan that the comment at `podwatch.go:211` promises for a new microservice is asked
  for by the Modified event that finds its pod running. `RunningImagesScanned` holds for one
  unbroken watch with two exceptions. `collectorCreationTime` is set before the watch is open
  (`podwatch.go:79`): a pod that is created and runs before it opens is listed as a candidate
  with its image, so a later change of it finds nothing new, and its image is never
  scanned. And the candidate may count fewer pods than its owner has in the lists. It
  does so after a pod like that of `missed_pod` was deleted: the pod was never counted, but its
  Deleted event decrements `PodsNumber` (`podwatch.go:116`), and the candidate leaves the list
  while a pod it counted is still there, which `podwatch_test.go:221` expects not to happen for
  two pods that were both counted.
  If the watch ends before that event is handled, the pod's next
  Added event is ignored as old and the scan waits for another change of the pod.
- After a new state the dictionaries are empty and the backend starts over, but nodes,
  services and cron jobs take the moment they are told of it for
  `lastWatchEventCreationTime` (`nodewatch.go:110`) and pods do so as well (`podwatch.go:174`): what
  exists is then not reported again (`nodewatch.go:122`). The properties speak of what is created
  later. What had been collected and not sent is in the new first report all the same,
  microservices included that no dictionary has any more and nothing will delete.
- A cron job that is deleted, or changed after its watch was opened again, is reported
  with `PodSpecId` 0 (`cronjobwatch.go:94,105`), which is the first
  identifier given: `OneIdPerCronJob` has to let 0 pass.

## 8. Not modelled

- `cloudinstancemetadataapi.go`: three HTTP probes with a timeout, whose answer is a
  suffix of the version string. `inclusternotifier.go` but for the POST that may
  hang. `config`, `consts`, `deepcopy.go`, `hashbytearray.go`, `globals.go`:
  accessors and conversions.
- Go's detection of a concurrent write of the map `wh.pdm` (`cronjobwatch.go:81`
  and `podwatch.go:212`): it ends the process with a code on which the entrypoint
  stops.
- What happens between the pod watch's handler and a new state inside it is in
  `ListenerRecovery` without the registry, and in `PodWatch` between two events only.
- `updatePod` beyond which reports it leads to, and `DeleteID`, which is called nowhere.
- The content of an entry and the JSON text of a report, except where its length
  decides something.
- The Go memory model below one word: a torn slice header or a torn struct
  copy.
- Wall-clock time: the two ten-second sleeps and the dial interval are order only. Left out
  with them: a backend that sends several data frames in a row makes the reader, which sleeps
  after each (`websocket.go:213`), leave the pongs unread until the ping goroutine closes a live
  connection.
- Whether a notification arrives: the candidate's image is replaced before the POST, whose
  failure is only logged (`podwatch.go:259`).
- Growth: a microservice without pods is never matched again and stays in `wh.pdm`
  (`podwatch.go:431`).
