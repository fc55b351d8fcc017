--------------------------- MODULE ListenerRecovery ---------------------------
(***************************************************************************)
(* Start and recovery of the goroutines of main.go.  Each is called again  *)
(* when it returns, and it returns when it recovers from a panic: a        *)
(* watcher then registers a new channel in wh.newStateReportChans, and     *)
(* ListenerAndSender starts a new state with SetFirstReportFlag, which     *)
(* replaces the dictionaries and waits until every registered channel was  *)
(* read.  Watchers wait for ListenerAndSender too, in informNewDataArrive, *)
(* and for each other in CreateID.  A watcher that is to open its watch    *)
(* tries until it succeeds, without a look at its channel meanwhile; the   *)
(* node watcher asks for the server version before each try.  Watches end  *)
(* here for a new state only; ResourceWatch and PodWatch have all ends.    *)
(*                                                                         *)
(* ReportPipeline has the accesses to the report one by one; here it is    *)
(* empty or not, and a round of ListenerAndSender is one step.  Of a       *)
(* dictionary only matters which of its generations a handler put its list *)
(* into.                                                                   *)
(***************************************************************************)
EXTENDS Integers, Sequences, FiniteSets

CONSTANTS
    Watchers,       \* the watcher goroutines of this instance
    Loads,          \* bound: how many events each watcher gets, one of these
    MaxPanics       \* bound: panics of ListenerAndSender

AllWatchers == {"node", "pod", "service", "secret", "namespace", "cronjob"}

ASSUME WatchersAssumption == Watchers \subseteq AllWatchers
ASSUME BoundsAssumption == Loads \subseteq [Watchers -> Nat] /\ MaxPanics \in Nat

VARIABLES
    version,    \* wh.clusterAPIServerVersion # nil
    aggregate,  \* wh.aggregateFirstDataFlag
    first,      \* wh.jsonReport.FirstReport
    pending,    \* wh.jsonReport holds data
    generation, \* how often the dictionaries were replaced
    chans,      \* wh.newStateReportChans: watcher and number of its call
    informQ,    \* watchers blocked sending on wh.informNewDataChannel
    wpc,        \* where each watcher is
    calls,      \* calls of a watcher that made a channel
    slice,      \* the newStateReportChans it read and will append to
    opened,     \* generation in which its watch was opened
    made,       \* generation its handler put a list into
    todo,       \* what its handler still has to do
    evt,        \* events it may still get
    mutex,      \* watchers that hold ids.Mutex: at most one
    counter,    \* ids.counter
    idOf,       \* the counter a watcher read
    ids,        \* identifiers given, in order
    lpc,        \* where ListenerAndSender is
    at, upto,   \* its position in chans, and their number when it started
    target,     \* the channel it sends on
    starts,     \* calls of ListenerAndSender
    raced,      \* a registration wrote over another
    sent        \* reports sent: marks, and by which call

report == <<version, aggregate, first, pending>>
registry == <<generation, chans, raced>>
launch == <<calls, slice, opened>>
handler == <<made, todo, evt>>
watcher == <<wpc, launch, handler>>
identifiers == <<mutex, counter, idOf, ids>>
listener == <<lpc, at, upto, target, starts, sent>>
vars == <<report, registry, informQ, watcher, identifiers, listener>>

-----------------------------------------------------------------------------
(* What the handlers do, in code order.                                     *)

\* Node and service handlers put a new list into the map, push to it, inform
\* and add; secrets and namespaces have a map that tolerates a missing list.
NodePlan == <<"id", "list", "push", "inform", "add">>
SecretPlan == <<"id", "list", "inform", "add">>
CronJobPlan == <<"id", "list", "add", "inform">>
\* A pod with a new microservice, with a known one, one whose removal panics
\* in isMicroServiceNeedToBeRemoved, and one whose image is to be scanned.
PodPlans == {<<"id", "list", "push", "add", "push", "add", "inform">>,
             <<"list", "push", "add", "inform">>, <<"panic">>,
             <<"notify", "add", "inform">>}
\* Objects that are in the dictionary already, or leave it.
KnownPlan(w) == IF w \in {"pod", "cronjob"} THEN <<"add", "inform">> ELSE <<"inform", "add">>

Plans(w) ==
    {KnownPlan(w)} \cup
    CASE w = "pod" -> PodPlans
      [] w = "cronjob" -> {CronJobPlan}
      [] w \in {"node", "service"} -> {NodePlan}
      [] w \in {"secret", "namespace"} -> {SecretPlan}

-----------------------------------------------------------------------------
(* A watcher starts.                                                        *)

Goto(w, pc) == wpc' = [wpc EXCEPT ![w] = pc]

\* Where the loop of a watcher begins.
Loop(w) == IF w = "node" THEN "version" ELSE "open"

\* wh.newStateReportChans = append(wh.newStateReportChans, newStateChan): the
\* slice is read, and written back later.
Registers(w) ==
    /\ wpc[w] = "register"
    /\ calls' = [calls EXCEPT ![w] = @ + 1]
    /\ slice' = [slice EXCEPT ![w] = chans]
    /\ Goto(w, "append")
    /\ UNCHANGED <<report, registry, informQ, opened, handler, identifiers, listener>>

Channel(w) == <<w, calls[w]>>

Appends(w) ==
    /\ wpc[w] = "append"
    /\ chans' = Append(slice[w], Channel(w))
    /\ raced' = (raced \/ chans # slice[w])
    /\ slice' = [slice EXCEPT ![w] = <<>>]
    /\ Goto(w, Loop(w))
    /\ UNCHANGED <<report, generation, informQ, calls, opened, handler,
                identifiers, listener>>

\* getClusterVersion has an answer, be it "Unknown".
AsksVersion(w) ==
    /\ wpc[w] = "version"
    /\ version' = TRUE
    /\ Goto(w, "open")
    /\ UNCHANGED <<aggregate, first, pending, registry, informQ, launch,
                handler, identifiers, listener>>

Opens(w) ==
    /\ wpc[w] = "open"
    /\ opened' = [opened EXCEPT ![w] = generation]
    /\ Goto(w, "select")
    /\ UNCHANGED <<report, registry, informQ, calls, slice, handler, identifiers, listener>>

\* The watch is refused: the watcher sleeps and goes on in its loop.
OpenFails(w) ==
    /\ wpc[w] = "open"
    /\ Goto(w, Loop(w))
    /\ UNCHANGED <<report, registry, informQ, launch, handler, identifiers, listener>>

-----------------------------------------------------------------------------
(* A watcher handles an event.                                              *)

Event(w) ==
    /\ wpc[w] = "select"
    /\ evt[w] > 0
    /\ evt' = [evt EXCEPT ![w] = @ - 1]
    /\ \E plan \in Plans(w) : todo' = [todo EXCEPT ![w] = plan]
    /\ Goto(w, "run")
    /\ UNCHANGED <<report, registry, informQ, launch, made, identifiers, listener>>

Next1(w) == IF Len(todo[w]) = 1 THEN "select" ELSE "run"
Done(w) == todo' = [todo EXCEPT ![w] = Tail(@)] /\ Goto(w, Next1(w))
Does(w, op) == wpc[w] = "run" /\ Head(todo[w]) = op

\* Faulty variant: the counter is read without the lock.
ReadsUnlocked(w) ==
    /\ Does(w, "id")
    /\ mutex' = mutex \cup {w}
    /\ idOf' = [idOf EXCEPT ![w] = counter]
    /\ Goto(w, "count")
    /\ UNCHANGED <<report, registry, informQ, launch, handler, counter, ids, listener>>

\* CreateID locks and reads the counter; IDCreator counts and the list of
\* identifiers is searched; the identifier is put in the list.
LocksAndReads(w) ==
    /\ Does(w, "id")
    /\ mutex = {}
    /\ mutex' = {w}
    /\ idOf' = [idOf EXCEPT ![w] = counter]
    /\ Goto(w, "count")
    /\ UNCHANGED <<report, registry, informQ, launch, handler, counter, ids, listener>>

Counts(w) ==
    /\ wpc[w] = "count"
    /\ counter' = idOf[w] + 1
    /\ IF \E i \in DOMAIN ids : ids[i] = idOf[w]
         THEN idOf' = [idOf EXCEPT ![w] = counter'] /\ wpc' = wpc
         ELSE Goto(w, "give") /\ idOf' = idOf
    /\ UNCHANGED <<report, registry, informQ, launch, handler, mutex, ids, listener>>

\* Faulty variant: the mutex is not unlocked.
GivesLocked(w) ==
    /\ wpc[w] = "give"
    /\ ids' = Append(ids, idOf[w])
    /\ idOf' = [idOf EXCEPT ![w] = 0]
    /\ Done(w)
    /\ UNCHANGED <<report, registry, informQ, launch, made, evt, mutex, counter, listener>>

Gives(w) ==
    /\ wpc[w] = "give"
    /\ ids' = Append(ids, idOf[w])
    /\ idOf' = [idOf EXCEPT ![w] = 0]
    /\ mutex' = mutex \ {w}
    /\ Done(w)
    /\ UNCHANGED <<report, registry, informQ, launch, made, evt, counter, listener>>

\* dm[id] = list.New()
MakesList(w) ==
    /\ Does(w, "list")
    /\ made' = [made EXCEPT ![w] = generation]
    /\ Done(w)
    /\ UNCHANGED <<report, registry, informQ, launch, evt, identifiers, listener>>

\* dm[id].PushBack: there is no list in a dictionary that was replaced since.
Pushes(w) ==
    /\ Does(w, "push")
    /\ made[w] = generation
    /\ Done(w)
    /\ UNCHANGED <<report, registry, informQ, launch, made, evt, identifiers, listener>>

HandlerPanics(w) ==
    /\ Does(w, "panic") \/ (Does(w, "push") /\ made[w] # generation)
    /\ todo' = [todo EXCEPT ![w] = <<>>]
    /\ Goto(w, "register")
    /\ UNCHANGED <<report, registry, informQ, launch, made, evt, identifiers, listener>>

Adds(w) ==
    /\ Does(w, "add")
    /\ pending' = TRUE
    /\ Done(w)
    /\ UNCHANGED <<version, aggregate, first, registry, informQ, launch,
                made, evt, identifiers, listener>>

MustInform == ~aggregate \/ version

Informs(w) ==
    /\ Does(w, "inform")
    /\ IF MustInform
         THEN informQ' = Append(informQ, w) /\ Goto(w, "blocked") /\ todo' = todo
         ELSE Done(w) /\ informQ' = informQ
    /\ UNCHANGED <<report, registry, launch, made, evt, identifiers, listener>>

\* notifyNewMicroServiceCreatedInTheCluster: http.DefaultClient has no timeout,
\* and the handler goes on whatever the answer is.
NotifierAnswers(w) ==
    /\ Does(w, "notify")
    /\ Done(w)
    /\ UNCHANGED <<report, registry, informQ, launch, made, evt, identifiers, listener>>

WatcherStep(w) ==
    \/ Registers(w) \/ Appends(w) \/ AsksVersion(w)
    \/ LocksAndReads(w) \/ Counts(w) \/ Gives(w)
    \/ MakesList(w) \/ Pushes(w) \/ HandlerPanics(w) \/ Adds(w) \/ Informs(w)

-----------------------------------------------------------------------------
(* ListenerAndSender.                                                       *)

\* SetFirstReportFlag(true) returns at once if the flag is set.
Starts ==
    /\ lpc = "start"
    /\ starts' = starts + 1
    /\ IF first THEN lpc' = "report" /\ UNCHANGED <<first, generation, at, upto>>
       ELSE /\ first' = TRUE
            /\ generation' = generation + 1
            /\ at' = 1 /\ upto' = Len(chans)
            /\ lpc' = "notify"
    /\ UNCHANGED <<version, aggregate, pending, chans, raced, informQ,
                watcher, identifiers, target, sent>>

NoChannel == <<>>

\* for chanIdx := range wh.newStateReportChans
PicksChannel ==
    /\ lpc = "notify" /\ at <= upto /\ at <= Len(chans)
    /\ target' = chans[at]
    /\ lpc' = "tell"
    /\ UNCHANGED <<report, registry, informQ, watcher, identifiers, at, upto, starts, sent>>

\* A racing append made the slice shorter than it was.
NotifyPanics ==
    /\ lpc = "notify" /\ at <= upto /\ at > Len(chans)
    /\ lpc' = "start"
    /\ at' = 1 /\ upto' = 0
    /\ UNCHANGED <<report, registry, informQ, watcher, identifiers, target, starts, sent>>

\* Faulty variants: the watcher goes on with its old watch; the index of the
\* loop stays where it is.
TellsInVain ==
    /\ lpc = "tell"
    /\ \E w \in Watchers : target = Channel(w) /\ wpc[w] = "select"
    /\ target' = NoChannel
    /\ at' = at + 1
    /\ lpc' = "notify"
    /\ UNCHANGED <<report, registry, informQ, watcher, identifiers, upto, starts, sent>>
TellsAgain ==
    /\ lpc = "tell"
    /\ \E w \in Watchers : target = Channel(w) /\ wpc[w] = "select" /\ Goto(w, Loop(w))
    /\ target' = NoChannel
    /\ lpc' = "notify"
    /\ UNCHANGED <<report, registry, informQ, launch, handler, identifiers,
                at, upto, starts, sent>>

\* The send is received in the select of the watcher that made the channel,
\* which stops its watch and opens a new one.
Tells ==
    /\ lpc = "tell"
    /\ \E w \in Watchers : target = Channel(w) /\ wpc[w] = "select" /\ Goto(w, Loop(w))
    /\ target' = NoChannel
    /\ at' = at + 1
    /\ lpc' = "notify"
    /\ UNCHANGED <<report, registry, informQ, launch, handler, identifiers,
                upto, starts, sent>>

Notified ==
    /\ lpc = "notify" /\ at > upto
    /\ lpc' = "report"
    /\ at' = 1 /\ upto' = 0
    /\ UNCHANGED <<report, registry, informQ, watcher, identifiers, target, starts, sent>>

\* Faulty variants: the aggregation never ends; the flag is not reset.
ReportsAggregate ==
    /\ lpc = "report" /\ version
    /\ ~first \/ aggregate \/ pending
    /\ sent' = Append(sent, [first |-> first, meta |-> aggregate, start |-> starts])
    /\ pending' = FALSE /\ first' = FALSE
    /\ lpc' = "wait"
    /\ UNCHANGED <<version, aggregate, registry, informQ, watcher,
                identifiers, at, upto, target, starts>>
ReportsKeepFlag ==
    /\ lpc = "report" /\ version
    /\ ~first \/ aggregate \/ pending
    /\ sent' = Append(sent, [first |-> first, meta |-> aggregate, start |-> starts])
    /\ pending' = FALSE /\ aggregate' = FALSE
    /\ lpc' = "wait"
    /\ UNCHANGED <<version, first, registry, informQ, watcher, identifiers,
                at, upto, target, starts>>

\* A round: no report without the server version, an empty first one is
\* skipped; what is sent is marked, and the flags are reset.
Reports ==
    /\ lpc = "report" /\ version
    /\ ~first \/ aggregate \/ pending
    /\ sent' = Append(sent, [first |-> first, meta |-> aggregate, start |-> starts])
    /\ pending' = FALSE /\ aggregate' = FALSE /\ first' = FALSE
    /\ lpc' = "wait"
    /\ UNCHANGED <<version, registry, informQ, watcher, identifiers, at,
                upto, target, starts>>

\* json.Marshal panics on what a handler is changing: the data stays.
ReportPanics ==
    /\ lpc = "report" /\ version /\ pending
    /\ starts <= MaxPanics
    /\ lpc' = "start"
    /\ UNCHANGED <<report, registry, informQ, watcher, identifiers, at, upto,
                target, starts, sent>>

TakesInform ==
    LET w == Head(informQ)
    IN  /\ lpc = "wait" /\ informQ # <<>>
        /\ informQ' = Tail(informQ)
        /\ Done(w)
        /\ lpc' = "report"
        /\ UNCHANGED <<report, registry, launch, made, evt, identifiers, at,
                upto, target, starts, sent>>

ListenerStep ==
    \/ Starts \/ PicksChannel \/ NotifyPanics \/ Tells \/ Notified
    \/ Reports \/ TakesInform

-----------------------------------------------------------------------------

Init ==
    /\ version = FALSE /\ aggregate = TRUE /\ first = TRUE /\ pending = FALSE
    /\ generation = 0 /\ chans = <<>> /\ informQ = <<>>
    /\ wpc = [w \in Watchers |-> "register"]
    /\ calls = [w \in Watchers |-> 0] /\ slice = [w \in Watchers |-> <<>>]
    /\ opened = [w \in Watchers |-> 0] /\ made = [w \in Watchers |-> 0]
    /\ todo = [w \in Watchers |-> <<>>] /\ evt \in Loads
    /\ mutex = {} /\ counter = 0 /\ idOf = [w \in Watchers |-> 0] /\ ids = <<>>
    /\ lpc = "start" /\ at = 1 /\ upto = 0 /\ target = NoChannel /\ starts = 0 /\ raced = FALSE /\ sent = <<>>

Next ==
    \/ \E w \in Watchers : WatcherStep(w) \/ Opens(w) \/ OpenFails(w) \/ Event(w) \/ NotifierAnswers(w)
    \/ ListenerStep \/ ReportPanics

Spec == Init /\ [][Next]_vars

\* A goroutine that can run does.  Events, panics and an answer of the notifier
\* need not happen, and a watch may be refused for ever.
Fairness == WF_vars(ListenerStep) /\ \A w \in Watchers : WF_vars(WatcherStep(w))
FairSpec == Spec /\ Fairness

\* The API server lets whoever keeps trying open its watch at last.
OpeningSpec == FairSpec /\ \A w \in Watchers : SF_vars(Opens(w))

-----------------------------------------------------------------------------
(* Properties.                                                              *)

\* The types; the mutex of the identifiers is held by exactly the watcher that
\* is inside CreateID, and whoever is blocked in an inform is in its queue.
TypeOK ==
    /\ version \in BOOLEAN /\ aggregate \in BOOLEAN /\ first \in BOOLEAN /\ pending \in BOOLEAN
    /\ generation \in 0..starts /\ raced \in BOOLEAN
    /\ chans \in Seq(Watchers \X Nat) /\ \A w \in Watchers : slice[w] \in Seq(Watchers \X Nat)
    /\ wpc \in [Watchers -> {"register", "append", "version", "open", "select", "run", "count", "give", "blocked"}]
    /\ calls \in [Watchers -> Nat] /\ evt \in [Watchers -> Nat]
    /\ opened \in [Watchers -> 0..generation] /\ made \in [Watchers -> 0..generation]
    /\ mutex = {w \in Watchers : wpc[w] \in {"count", "give"}} /\ Cardinality(mutex) <= 1
    /\ counter \in Nat /\ idOf \in [Watchers -> Nat] /\ ids \in Seq(Nat)
    /\ {informQ[i] : i \in DOMAIN informQ} = {w \in Watchers : wpc[w] = "blocked"}
    /\ lpc \in {"start", "notify", "tell", "report", "wait"} /\ at \in 1..(upto + 1)
    /\ target \in {NoChannel} \cup Watchers \X Nat /\ starts \in Nat
    /\ sent \in Seq([first : BOOLEAN, meta : BOOLEAN, start : 1..starts])

\* CreateID never gives an identifier twice, whoever asks at the same time.
UniqueIds == \A i, j \in DOMAIN ids : ids[i] = ids[j] => i = j

\* When SetFirstReportFlag is through, every watcher has a watch that was
\* opened after the dictionaries were replaced, or is about to open one: none
\* goes on filling in an old state, unless a registration was written over.
ReopenedAfterReset ==
    lpc \in {"report", "wait"} /\ ~raced =>
        \A w \in Watchers :
            wpc[w] \in {"select", "run", "count", "give", "blocked"} => opened[w] = generation

\* Every call of ListenerAndSender marks its first report as the first, and no
\* other; the metadata is in the very first only.  Of the dictionaries this
\* says nothing: they stay when the flag was set already (watchhandler.go:179).
FirstAfterStart ==
    \A i \in DOMAIN sent :
        /\ sent[i].first <=> i = 1 \/ sent[i - 1].start # sent[i].start
        /\ sent[i].meta <=> i = 1

\* The notification of the watchers that never comes to an end hangs for good on
\* one thing: a channel whose watcher is gone, a watcher that itself waits for
\* ListenerAndSender, one that waits for the in-cluster notifier, or one whose
\* watch the API server does not let it open (nodewatch.go:94, cronjobwatch.go:30).
Notifying == lpc \in {"notify", "tell"}
HangsOn(why(_)) == lpc = "tell" /\ \E w \in Watchers : target = Channel(w) /\ why(w)
HangsOnStale == lpc = "tell" /\ \A w \in Watchers : target # Channel(w)
HangsOnInformer == HangsOn(LAMBDA w : wpc[w] = "blocked")
HangsOnNotifier == HangsOn(LAMBDA w : Does(w, "notify"))
HangsOnOpening == HangsOn(LAMBDA w : wpc[w] \in {"version", "open"})
NotifyBlockers ==
    <>[]Notifying => \/ <>[]HangsOnStale \/ <>[]HangsOnInformer
                     \/ <>[]HangsOnNotifier \/ <>[]HangsOnOpening

\* A handler that waits in informNewDataArrive goes on, unless ListenerAndSender
\* is notifying the watchers: an empty first report that is skipped over and over
\* never keeps it waiting.
InformBlockers ==
    \A w \in Watchers : wpc[w] = "blocked" ~> (wpc[w] # "blocked" \/ Notifying)

\* ListenerAndSender gets to its reports after a recovery, also if no watch is
\* refused for ever.
RecoveryCompletes == Notifying ~> ~Notifying
=============================================================================
