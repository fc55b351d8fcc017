---------------------------- MODULE ResourceWatch ----------------------------
(***************************************************************************)
(* NodeWatch, ServiceWatch, SecretWatch, NamespaceWatch and CronJobWatch   *)
(* against the cluster: objects of one kind that come, change and go, the  *)
(* events of the open watch, interruptions of it, the dictionary the       *)
(* handler keeps, and what the reports said of every name.  A behaviour is *)
(* of one kind.  The five have the same loop; what differs (when           *)
(* lastWatchEventCreationTime moves, what an update does to the            *)
(* dictionary, what is reported of an unknown object) has a definition per *)
(* kind.                                                                   *)
(*                                                                         *)
(* A handled event is one step.  The clock counts the changes in the       *)
(* cluster, so it is the revision of an object as well, and time.Now() is  *)
(* after everything that happened.                                         *)
(***************************************************************************)
EXTENDS Integers, Sequences, FiniteSets

CONSTANTS
    Kinds,      \* the kinds checked
    Objects,    \* the objects that may ever exist, by UID
    NameOf,     \* namespace and name of an object; may be used again
    Elsewhere,  \* objects in a namespace that is not watched
    MaxChanges, \* bound: the clock
    MaxGaps,    \* bound: interruptions of the watch
    MaxQueue    \* bound: events not handled yet

AllKinds == {"node", "service", "secret", "namespace", "cronjob"}

ASSUME KindsAssumption == Kinds \subseteq AllKinds
ASSUME ObjectsAssumption == IsFiniteSet(Objects) /\ DOMAIN NameOf = Objects /\ Elsewhere \subseteq Objects
ASSUME BoundsAssumption == MaxChanges \in Nat \ {0} /\ MaxGaps \in Nat /\ MaxQueue \in Nat

VARIABLES
    kind,
    alive,      \* the objects that exist
    born,       \* CreationTimestamp, 0 before
    rev,        \* revision: the time of the last change
    clock,
    watching,   \* a watch is open
    queue,      \* its events that are not handled yet
    stopping,   \* SetFirstReportFlag blocks on the newStateChan
    gaps,
    last,       \* lastWatchEventCreationTime, 0 for the zero time
    nextId,     \* ids.counter
    dm,         \* ndm, sdm, secretdm or namespacedm: identifier -> object data
    cronIds,    \* cronJobIDs of this watch: UID -> identifier
    specIds,    \* per object, every PodSpecId it was reported with
    told        \* per name, what the reports last said

cluster == <<kind, alive, born, rev, clock>>
channel == <<watching, queue, stopping, gaps>>
collector == <<last, nextId, dm, cronIds, specIds, told>>
vars == <<cluster, channel, collector>>

Names == {NameOf[o] : o \in Objects}
Empty == [x \in {} |-> 0]
NotTold == [rev |-> 0, there |-> FALSE]

-----------------------------------------------------------------------------
(* The cluster and its API server.                                          *)

Event(type, o, r) == [type |-> type, obj |-> o, rev |-> r]
Emit(e) ==
    /\ watching => Len(queue) < MaxQueue
    /\ queue' = IF watching THEN Append(queue, e) ELSE queue

Changes(type, o) ==
    /\ clock < MaxChanges
    /\ clock' = clock + 1
    /\ rev' = [rev EXCEPT ![o] = clock']
    /\ Emit(Event(type, o, clock'))
    /\ UNCHANGED <<kind, watching, stopping, gaps, collector>>

\* Nodes and namespaces are in no namespace.
Namespaced == kind \in {"service", "secret", "cronjob"}
MayExist(o) == o \in Elsewhere => Namespaced

Appears(o) ==
    /\ born[o] = 0 /\ MayExist(o)
    /\ \A p \in alive : NameOf[p] # NameOf[o]
    /\ alive' = alive \cup {o}
    /\ born' = [born EXCEPT ![o] = clock + 1]
    /\ Changes("Added", o)

IsChanged(o) ==
    /\ o \in alive
    /\ Changes("Modified", o)
    /\ UNCHANGED <<alive, born>>

Disappears(o) ==
    /\ o \in alive
    /\ alive' = alive \ {o}
    /\ Changes("Deleted", o)
    /\ UNCHANGED born

ClusterStep == \E o \in Objects : Appears(o) \/ IsChanged(o) \/ Disappears(o)

-----------------------------------------------------------------------------
(* The watch loops.  lastWatchEventCreationTime moves when a watch ends     *)
(* (the channel is closed, or delivers an error or something that is no     *)
(* object of the kind), when it is stopped for a new state, or when it      *)
(* cannot be opened.                                                        *)

\* Faulty variants: a failed open counts for nodes, a new state not for cron jobs.
NodeStampsFailures == {"ended", "newState", "openFails"}
CronJobStampsEnd == {"ended"}

NodeStamps == {"ended", "newState"}
ServiceStamps == {"ended", "newState", "openFails"}
SecretStamps == {"ended"}
NamespaceStamps == {"ended"}
CronJobStamps == {"ended", "newState"}

Stamps == [node |-> NodeStamps, service |-> ServiceStamps, secret |-> SecretStamps,
           namespace |-> NamespaceStamps, cronjob |-> CronJobStamps]
Stamp(why) == last' = IF why \in Stamps[kind] THEN clock ELSE last

\* A new watch first delivers the objects that exist, in any order.
Orders(S) == {q \in [1..Cardinality(S) -> S] : \A i, j \in DOMAIN q : q[i] = q[j] => i = j}

WatchOpens ==
    /\ ~watching
    /\ watching' = TRUE
    /\ queue' \in Orders({Event("Added", o, rev[o]) : o \in alive})
    /\ cronIds' = Empty
    /\ UNCHANGED <<cluster, stopping, gaps, last, nextId, dm, specIds, told>>

OpenFails ==
    /\ ~watching
    /\ Stamp("openFails")
    /\ UNCHANGED <<cluster, channel, nextId, dm, cronIds, specIds, told>>

EndWatch == watching' = FALSE /\ queue' = <<>>

WatchEnds ==
    /\ watching /\ gaps < MaxGaps
    /\ gaps' = gaps + 1
    /\ EndWatch
    /\ Stamp("ended")
    /\ UNCHANGED <<cluster, stopping, nextId, dm, cronIds, specIds, told>>

\* SetFirstReportFlag: new dictionaries, and the backend starts over with the
\* first report that follows; what was collected for some names and not sent yet
\* is in it.
StateIsReset ==
    /\ ~stopping /\ gaps < MaxGaps
    /\ gaps' = gaps + 1
    /\ stopping' = TRUE
    /\ dm' = Empty
    /\ \E unsent \in SUBSET Names : told' = [n \in Names |-> IF n \in unsent THEN told[n] ELSE NotTold]
    /\ UNCHANGED <<cluster, watching, queue, last, nextId, cronIds, specIds>>

\* Faulty variant: the watch is stopped, and its channel still waited on.
StopsAndGoesOn ==
    /\ stopping /\ watching
    /\ stopping' = FALSE
    /\ queue' = <<>>
    /\ Stamp("newState")
    /\ UNCHANGED <<cluster, watching, gaps, nextId, dm, cronIds, specIds, told>>

\* case <-newStateChan
StopsForNewState ==
    /\ stopping /\ watching
    /\ stopping' = FALSE
    /\ EndWatch
    /\ Stamp("newState")
    /\ UNCHANGED <<cluster, gaps, nextId, dm, cronIds, specIds, told>>

-----------------------------------------------------------------------------
(* The dictionaries.  A list has one element; a list that nodes and services *)
(* leave empty is skipped by every function and not kept here.              *)

Entry(e) == [obj |-> e.obj, rev |-> e.rev]
Added(e) == [i \in DOMAIN dm \cup {nextId} |-> IF i = nextId THEN Entry(e) ELSE dm[i]]
Hits(e) == {i \in DOMAIN dm : NameOf[dm[i].obj] = NameOf[e.obj]}

\* The first hit in the map's order, which is any, is rewritten or removed.
Rewritten(e) ==
    IF Hits(e) = {} THEN dm' = dm ELSE \E i \in Hits(e) : dm' = [dm EXCEPT ![i] = Entry(e)]
Removed(e) ==
    IF Hits(e) = {} THEN dm' = dm
    ELSE \E i \in Hits(e) : dm' = [j \in DOMAIN dm \ {i} |-> dm[j]]

\* An entry that names the object, and one that is null or the empty name.
Reports(e, there) == told' = [told EXCEPT ![NameOf[e.obj]] = [rev |-> e.rev, there |-> there]]
ReportsNothing == UNCHANGED told

\* Faulty variant: the data found is reported, then rewritten.
UpdateNodeReportsFound(e) ==
    IF Hits(e) = {} THEN dm' = dm /\ ReportsNothing
    ELSE \E i \in Hits(e) : dm' = [dm EXCEPT ![i] = Entry(e)] /\ Reports(dm[i], TRUE)

\* What UpdateNode and RemoveNode return is reported: nil and "" if they do
\* not know the node.
UpdateNode(e) == Rewritten(e) /\ IF Hits(e) = {} THEN ReportsNothing ELSE Reports(e, TRUE)
RemoveNode(e) == Removed(e) /\ IF Hits(e) = {} THEN ReportsNothing ELSE Reports(e, FALSE)

\* Faulty variant: an update changes the report only.
updateSecretReportOnly(e) == dm' = dm /\ Reports(e, TRUE)

\* The other handlers report the object of the event, known or not.
updateService(e) == Rewritten(e) /\ Reports(e, TRUE)
removeService(e) == Removed(e) /\ Reports(e, FALSE)
updateSecret(e) == Rewritten(e) /\ Reports(e, TRUE)
removeSecret(e) == Removed(e) /\ Reports(e, FALSE)
\* UpdateNamespace compares a namespace of the dictionary with itself.
UpdateNamespace(e) == dm' = dm /\ Reports(e, TRUE)
RemoveNamespace(e) == Removed(e) /\ Reports(e, FALSE)

-----------------------------------------------------------------------------
(* The event handlers.                                                      *)

Head1 == Head(queue)
Handles(k, type) == kind = k /\ watching /\ queue # <<>> /\ Head1.type = type
EventDone == queue' = Tail(queue) /\ UNCHANGED <<cluster, watching, stopping, gaps>>

\* isNamespaceWatched
Ignored(e) == Namespaced /\ e.obj \in Elsewhere
IsOld(e) == e.type = "Added" /\ born[e.obj] <= last

EventSkipped ==
    /\ watching /\ queue # <<>>
    /\ Ignored(Head1) \/ IsOld(Head1)
    /\ EventDone
    /\ UNCHANGED collector

\* Faulty variant: the counter of identifiers stays where it is.
ObjectAddedUncounted(e) ==
    /\ dm' = Added(e)
    /\ Reports(e, TRUE)
    /\ UNCHANGED <<last, nextId, cronIds, specIds>>

\* A new object gets an identifier and is put in the dictionary and the report.
ObjectAdded(e) ==
    /\ dm' = Added(e)
    /\ nextId' = nextId + 1
    /\ Reports(e, TRUE)
    /\ UNCHANGED <<last, cronIds, specIds>>
ObjectKnown == UNCHANGED <<last, nextId, cronIds, specIds>>

handleNodeWatch ==
    \/ Handles("node", "Added") /\ ~IsOld(Head1) /\ ObjectAdded(Head1)
    \/ Handles("node", "Modified") /\ UpdateNode(Head1) /\ ObjectKnown
    \/ Handles("node", "Deleted") /\ RemoveNode(Head1) /\ ObjectKnown
handleServiceWatch ==
    /\ ~Ignored(Head1)
    /\ \/ Handles("service", "Added") /\ ~IsOld(Head1) /\ ObjectAdded(Head1)
       \/ Handles("service", "Modified") /\ updateService(Head1) /\ ObjectKnown
       \/ Handles("service", "Deleted") /\ removeService(Head1) /\ ObjectKnown
secretEventHandler ==
    /\ ~Ignored(Head1)
    /\ \/ Handles("secret", "Added") /\ ~IsOld(Head1) /\ ObjectAdded(Head1)
       \/ Handles("secret", "Modified") /\ updateSecret(Head1) /\ ObjectKnown
       \/ Handles("secret", "Deleted") /\ removeSecret(Head1) /\ ObjectKnown
NamespaceEventHandler ==
    \/ Handles("namespace", "Added") /\ ~IsOld(Head1) /\ ObjectAdded(Head1)
    \/ Handles("namespace", "Modified") /\ UpdateNamespace(Head1) /\ ObjectKnown
    \/ Handles("namespace", "Deleted") /\ RemoveNamespace(Head1) /\ ObjectKnown

\* A cron job is an empty list of wh.pdm; its identifier is found by UID among
\* those given in this watch, 0 if there is none, as it is once it is deleted.
PodSpecId(o) == IF o \in DOMAIN cronIds THEN cronIds[o] ELSE 0
ReportsId(e, i) == specIds' = [specIds EXCEPT ![e.obj] = @ \cup {i}]

CronJobAdded ==
    /\ Handles("cronjob", "Added") /\ ~IsOld(Head1)
    /\ nextId' = nextId + 1
    /\ cronIds' = [o \in DOMAIN cronIds \cup {Head1.obj} |->
                      IF o = Head1.obj THEN nextId ELSE cronIds[o]]
    /\ ReportsId(Head1, nextId)
    /\ Reports(Head1, TRUE)
CronJobModified ==
    /\ Handles("cronjob", "Modified")
    /\ ReportsId(Head1, PodSpecId(Head1.obj))
    /\ Reports(Head1, TRUE)
    /\ UNCHANGED <<nextId, cronIds>>
CronJobDeleted ==
    /\ Handles("cronjob", "Deleted")
    /\ cronIds' = [o \in DOMAIN cronIds \ {Head1.obj} |-> cronIds[o]]
    /\ ReportsId(Head1, 0)
    /\ Reports(Head1, FALSE)
    /\ UNCHANGED nextId
handleCronJobWatch ==
    /\ ~Ignored(Head1)
    /\ CronJobAdded \/ CronJobModified \/ CronJobDeleted
    /\ UNCHANGED <<last, dm>>

HandlerStep ==
    \/ EventSkipped
    \/ /\ queue # <<>>
       /\ \/ handleNodeWatch \/ handleServiceWatch \/ secretEventHandler
          \/ NamespaceEventHandler \/ handleCronJobWatch
       /\ EventDone

-----------------------------------------------------------------------------

Init ==
    /\ kind \in Kinds
    /\ alive \in {A \in SUBSET {o \in Objects : MayExist(o)} :
                     \A o, p \in A : NameOf[o] = NameOf[p] => o = p}
    /\ clock = 1
    /\ born = [o \in Objects |-> IF o \in alive THEN 1 ELSE 0] /\ rev = born
    /\ watching = FALSE /\ queue = <<>> /\ stopping = FALSE /\ gaps = 0
    /\ last = 0
    /\ nextId = 1    \* identifier 0 went to another watcher
    /\ dm = Empty /\ cronIds = Empty /\ specIds = [o \in Objects |-> {}]
    /\ told = [n \in Names |-> NotTold]

Next ==
    \/ ClusterStep
    \/ WatchOpens \/ OpenFails \/ WatchEnds \/ StateIsReset \/ StopsForNewState
    \/ HandlerStep

Spec == Init /\ [][Next]_vars

\* An open succeeds in the end, and a loop that can go on does: select takes
\* the new state in the end, whatever events there are.
Fairness == WF_vars(WatchOpens) /\ WF_vars(HandlerStep) /\ WF_vars(StopsForNewState)
FairSpec == Spec /\ Fairness

-----------------------------------------------------------------------------
(* Properties.                                                              *)

\* The types; a remembered time has been, an identifier in use was given by
\* CreateID, and nobody is told of a revision to come.
TypeOK ==
    /\ kind \in Kinds /\ alive \subseteq Objects
    /\ clock \in 1..MaxChanges /\ born \in [Objects -> 0..clock] /\ rev \in [Objects -> 0..clock]
    /\ watching \in BOOLEAN /\ stopping \in BOOLEAN /\ gaps \in 0..MaxGaps
    /\ \A i \in DOMAIN queue : queue[i] \in
          [type : {"Added", "Modified", "Deleted"}, obj : Objects, rev : 1..clock]
    /\ last \in 0..clock /\ nextId \in Nat
    /\ DOMAIN dm \subseteq 0..(nextId - 1)
    /\ \A i \in DOMAIN dm : dm[i] \in [obj : Objects, rev : 1..clock]
    /\ DOMAIN cronIds \subseteq Objects
    /\ \A o \in DOMAIN cronIds : cronIds[o] \in 0..(nextId - 1)
    /\ specIds \in [Objects -> SUBSET (0..nextId)]
    /\ told \in [Names -> [rev : 0..clock, there : BOOLEAN]]

\* The reports of a kind implement ClusterMirror: an update or a stale entry
\* of the dictionary, a reused name or a reopened watch never makes them go
\* back to what a name was before.
Last(n) == LET revs == {rev[o] : o \in {p \in Objects : NameOf[p] = n}}
           IN  CHOOSE r \in revs : \A s \in revs : s <= r
Mirror == INSTANCE ClusterMirror WITH
    now <- [n \in Names |-> Last(n)],
    told <- [n \in Names |-> told[n].rev]
MirrorImplemented == Mirror!Spec

\* An object the handler has to follow: it exists, is in a watched namespace,
\* and is younger than the last interruption that moved the creation time.
Idle == watching /\ queue = <<>> /\ ~stopping
Followed(o) == o \in alive /\ ~Ignored([obj |-> o]) /\ born[o] > last
IsTold(o) == told[NameOf[o]] = [rev |-> rev[o], there |-> TRUE]

\* Once all events are handled the reports agree with the cluster: every
\* followed object was reported as it is now, whatever interruptions there
\* were; without any, nothing is reported that does not exist, and a failed
\* open makes only services be passed over.
ViewFollowsCluster ==
    Idle =>
        /\ \A o \in Objects : Followed(o) => IsTold(o)
        /\ gaps = 0 => \A n \in Names : told[n].there => \E o \in alive : NameOf[o] = n
        /\ gaps = 0 /\ kind # "service" => last = 0

\* The dictionary has an entry for every followed object, current but for
\* namespaces; as long as no watch was interrupted it has no other and none
\* twice.
DictionaryFollowsCluster ==
    Idle /\ kind # "cronjob" =>
        /\ \A o \in Objects : Followed(o) =>
              \E i \in DOMAIN dm : dm[i].obj = o /\ (kind # "namespace" => dm[i].rev = rev[o])
        /\ gaps = 0 => /\ \A i \in DOMAIN dm : dm[i].obj \in alive
                       /\ \A i, j \in DOMAIN dm : dm[i].obj = dm[j].obj => i = j

\* A cron job has one identifier for good: whatever watches come and go it is
\* reported with that or with the 0 of a missing one, and no two cron jobs share
\* an identifier.
OneIdPerCronJob ==
    /\ \A o \in Objects : Cardinality(specIds[o] \ {0}) <= 1
    /\ \A o, p \in Objects : o # p => specIds[o] \cap specIds[p] \subseteq {0}

\* However the watch fails and is stopped, the reports catch up with what is
\* followed once the cluster stands still.  Not with the objects that were there
\* when lastWatchEventCreationTime moved: after a new state nodes, services and
\* cron jobs that exist are not reported again (nodewatch.go:110, 122), although
\* the dictionaries and the backend start over.
CatchesUp == <>[](\A o \in Objects : Followed(o) => IsTold(o))
=============================================================================
