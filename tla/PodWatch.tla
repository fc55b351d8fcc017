------------------------------ MODULE PodWatch ------------------------------
(***************************************************************************)
(* PodWatch (watch/podwatch.go) against the cluster it observes: pods of   *)
(* owners that come, change and go, the events of the open watch, the      *)
(* registry wh.pdm of microservices and their pods, the list of scan       *)
(* candidates, and what the backend knows from the entries collected for   *)
(* the reports.                                                            *)
(*                                                                         *)
(* A handled event is one step, the owner lookups and the reports in it    *)
(* included: nothing else touches this state.  A microservice is           *)
(* recognised by the spec of its owner, so a spec is the owner and the     *)
(* version of its spec; all pods are in the watched namespace.  The clock  *)
(* counts created pods: time.Now() is after the creation of every pod that *)
(* exists.  Pods may be older than the first call of PodWatch, and they    *)
(* may come and go before its first watch is open.                         *)
(***************************************************************************)
EXTENDS Integers, Sequences, FiniteSets

CONSTANTS
    Pods,       \* the pods that may ever exist
    Owners,
    PodName,    \* name of a pod; a stateful set uses its names again
    OwnerOf,    \* owner of a pod
    Kind,       \* kind of an owner
    MaxSpec,    \* bound: versions of an owner's spec
    MaxGaps,    \* bound: interruptions of the watch
    MaxChanges, \* bound: created pods and interruptions, together
    MaxQueue,   \* bound: events of pods not handled yet
    MaxEarly    \* bound: pods created before the first watch opens

ASSUME KindAssumption == Kind \in [Owners -> {"Deployment", "StatefulSet", "CronJob"}]
ASSUME PodsAssumption == OwnerOf \in [Pods -> Owners] /\ DOMAIN PodName = Pods /\ IsFiniteSet(Pods)
ASSUME SpecAssumption == MaxSpec \in Nat \ {0} /\ MaxGaps \in Nat /\ MaxChanges \in Nat
                           /\ MaxQueue \in Nat \ {0} /\ MaxEarly \in Nat

VARIABLES
    phase,      \* of a pod: "absent", "starting", "running", "terminating" or "gone"
    born,       \* CreationTimestamp of a pod
    image,      \* image of a pod: the version of its owner's spec it came from
    version,    \* version of an owner's spec, 0 once the owner is deleted
    clock,
    call,       \* of PodWatch by main: "none" yet, "first", or "later" (after a panic)
    watching,   \* a watch is open
    queue,      \* its events that are not handled yet
    stopping,   \* SetFirstReportFlag: "no", "asks" the watch to stop, or
                \* "hangs" on the newStateChan of a call of PodWatch that ended
    gaps,
    last,       \* lastWatchEventCreationTime, 0 for the zero time
    start,      \* collectorCreationTime
    nextId,     \* ids.counter
    pdm,        \* microservice id -> owner, its spec, names of the pods listed
    cand,       \* scan candidates: PodsNumber (0: not in the list), image seen
    scanned,    \* scans asked for
    view,       \* what the backend has, by all entries: microservice ids, pod names
    left,       \* history: what of it was not sent yet when wh.pdm was replaced
    early       \* history: owners and images of the young pods that ran already
                \* when the watch was opened

cluster == <<phase, born, image, version, clock>>
channel == <<call, watching, queue, stopping, gaps>>
entries == <<view, left>>
collector == <<last, start, nextId, pdm, cand, scanned, entries, early>>
vars == <<cluster, channel, collector>>

Names == {PodName[p] : p \in Pods}
NoPods == [i \in {} |-> 0]
NoEntries == [ms |-> {}, pods |-> {}]
Live(p) == phase[p] \in {"starting", "running", "terminating"}

-----------------------------------------------------------------------------
(* The cluster and its API server.                                          *)

Event(type, p) == [type |-> type, pod |-> p, running |-> phase[p] = "running"]
Emit(e) ==
    /\ watching => Len(queue) < MaxQueue
    /\ queue' = IF watching THEN Append(queue, e) ELSE queue
SetPhase(p, ph) == phase' = [phase EXCEPT ![p] = ph]

CreatePod(p) ==
    /\ phase[p] = "absent" /\ version[OwnerOf[p]] # 0 /\ clock + gaps < MaxChanges
    /\ call # "later" /\ last = 0 /\ ~watching => clock < MaxEarly
    /\ \A q \in Pods : Live(q) => PodName[q] # PodName[p]
    /\ SetPhase(p, "starting")
    /\ clock' = clock + 1
    /\ born' = [born EXCEPT ![p] = clock']
    /\ image' = [image EXCEPT ![p] = version[OwnerOf[p]]]
    /\ Emit(Event("Added", p))
    /\ UNCHANGED <<version, call, watching, stopping, gaps, collector>>

RunPod(p) ==
    /\ phase[p] = "starting"
    /\ SetPhase(p, "running")
    /\ Emit([type |-> "Modified", pod |-> p, running |-> TRUE])
    /\ UNCHANGED <<born, image, version, clock, call, watching, stopping, gaps, collector>>

\* The pod gets its DeletionTimestamp.
TerminatePod(p) ==
    /\ phase[p] \in {"starting", "running"}
    /\ SetPhase(p, "terminating")
    /\ Emit(Event("Terminating", p))
    /\ UNCHANGED <<born, image, version, clock, call, watching, stopping, gaps, collector>>

PodDisappears(p) ==
    /\ phase[p] = "terminating"
    /\ SetPhase(p, "gone")
    /\ Emit(Event("Deleted", p))
    /\ UNCHANGED <<born, image, version, clock, call, watching, stopping, gaps, collector>>

ChangeOwner(o) ==
    /\ version[o] \in 1..(MaxSpec - 1)
    /\ version' = [version EXCEPT ![o] = @ + 1]
    /\ UNCHANGED <<phase, born, image, clock, channel, collector>>

DeleteOwner(o) ==
    /\ version[o] # 0
    /\ version' = [version EXCEPT ![o] = 0]
    /\ UNCHANGED <<phase, born, image, clock, channel, collector>>

ClusterStep ==
    \/ \E p \in Pods : CreatePod(p) \/ RunPod(p) \/ TerminatePod(p) \/ PodDisappears(p)
    \/ \E o \in Owners : ChangeOwner(o) \/ DeleteOwner(o)

-----------------------------------------------------------------------------
(* The watch and the reports.                                               *)

\* collectorCreationTime is set before the first watch is asked for.
PodWatchStarts ==
    /\ call = "none"
    /\ call' = "first"
    /\ start' = clock
    /\ UNCHANGED <<cluster, watching, queue, stopping, gaps,
                   last, nextId, pdm, cand, scanned, entries, early>>

\* A new watch first delivers the pods that exist, in any order.
Orders(S) == {q \in [1..Cardinality(S) -> S] : \A i, j \in DOMAIN q : q[i] = q[j] => i = j}

\* The watch is asked for until it opens, a second after each failure.
WatchOpens ==
    /\ call # "none" /\ ~watching
    /\ watching' = TRUE
    /\ queue' \in Orders({Event("Added", p) : p \in {q \in Pods : Live(q)}})
    /\ early' = early \cup {<<OwnerOf[p], image[p]>> :
                              p \in {q \in Pods : phase[q] = "running" /\ born[q] > start}}
    /\ UNCHANGED <<cluster, call, stopping, gaps,
                   last, start, nextId, pdm, cand, scanned, entries>>

EndWatch == watching' = FALSE /\ queue' = <<>>

\* The result channel is closed, or delivers an error.
WatchEnds ==
    /\ watching /\ gaps < MaxGaps /\ clock + gaps < MaxChanges
    /\ gaps' = gaps + 1
    /\ EndWatch
    /\ last' = clock
    /\ UNCHANGED <<cluster, call, stopping, start, nextId, pdm, cand, scanned, entries, early>>

\* What may be collected and not sent: the newest microservices with their
\* pods, and any of the other pods.
Unsent == {[ms |-> {i \in view.ms : i >= k}, pods |-> pods] :
              k \in 0..nextId, pods \in SUBSET view.pods}
Pending == {u \in Unsent : \A i \in u.ms \cap DOMAIN pdm : pdm[i].pods \cap view.pods \subseteq u.pods}

\* Faulty variant: wh.pdm is kept, only the reports start over.
StateIsResetKeepsPods ==
    /\ stopping = "no" /\ gaps < MaxGaps /\ clock + gaps < MaxChanges
    /\ gaps' = gaps + 1
    /\ stopping' = CASE call = "none" -> "no" [] call = "first" -> "asks" [] OTHER -> "hangs"
    /\ view' \in Pending /\ left' = view'
    /\ UNCHANGED <<cluster, call, watching, queue, last, start, nextId, pdm, cand, scanned, early>>

\* SetFirstReportFlag: a new wh.pdm, and the backend starts over with the first
\* report that follows.  The entries collected and not sent yet stay and are in
\* that report; the scan candidates stay as well.  The channels are sent on in
\* order, and after a panic of PodWatch nobody receives on its first one.
StateIsReset ==
    /\ stopping = "no" /\ gaps < MaxGaps /\ clock + gaps < MaxChanges
    /\ gaps' = gaps + 1
    /\ stopping' = CASE call = "none" -> "no" [] call = "first" -> "asks" [] OTHER -> "hangs"
    /\ pdm' = NoPods
    /\ view' \in Pending /\ left' = view'
    /\ UNCHANGED <<cluster, call, watching, queue, last, start, nextId, cand, scanned, early>>

\* case <-newStateChan
StopsForNewState ==
    /\ stopping = "asks" /\ watching
    /\ stopping' = "no"
    /\ EndWatch
    /\ last' = clock
    /\ UNCHANGED <<cluster, call, gaps, start, nextId, pdm, cand, scanned, entries, early>>

-----------------------------------------------------------------------------
(* Owners: GetAncestorOfPod.                                                *)

NoSpec == <<>>
OwnerSpec(o) == IF version[o] = 0 THEN NoSpec ELSE <<o, version[o]>>

\* Faulty variant: the owner of a stateful pod has to be found as well.
IndirectAlways(p) == Kind[OwnerOf[p]] \in {"Deployment", "CronJob", "StatefulSet"}

\* Pods of a deployment and of a cron job name a ReplicaSet or Job, which is
\* looked up first and may be gone with the owner; then the owner is taken
\* from the registry, if the pod is there.
Indirect(p) == Kind[OwnerOf[p]] \in {"Deployment", "CronJob"}
Listed(n) == {i \in DOMAIN pdm : n \in pdm[i].pods}
Local(p) == {[owner |-> pdm[i].owner, spec |-> pdm[i].spec] : i \in Listed(PodName[p])}

Ancestors(p) ==
    {[owner |-> OwnerOf[p], spec |-> OwnerSpec(OwnerOf[p])]}
        \cup IF Indirect(p) /\ version[OwnerOf[p]] = 0 THEN Local(p) ELSE {}
LookupMayFail(p) == Indirect(p) /\ version[OwnerOf[p]] = 0 /\ Local(p) = {}

-----------------------------------------------------------------------------
(* handlePodWatch.                                                          *)

Handle(type) == watching /\ queue # <<>> /\ Head(queue).type = type
EventDone == queue' = Tail(queue) /\ UNCHANGED <<call, watching, stopping, gaps, cluster>>

\* Faulty variant: the event is skipped and the watch goes on.
OwnerLookupSkips ==
    /\ watching /\ queue # <<>>
    /\ LookupMayFail(Head(queue).pod)
    /\ EventDone
    /\ UNCHANGED collector

\* No owner: the loop ends, and with it the watch and its events.
OwnerLookupFails ==
    /\ watching /\ queue # <<>>
    /\ LookupMayFail(Head(queue).pod)
    /\ EndWatch
    /\ last' = clock
    /\ UNCHANGED <<cluster, call, stopping, gaps, start, nextId, pdm, cand, scanned, entries, early>>

\* AddToJsonFormat: what is created or deleted, in what the backend will have.
Creates(ms, n) ==
    /\ view' = [ms |-> view.ms \cup ms, pods |-> view.pods \cup {n}]
    /\ left' = left
Deletes(ms, n) ==
    /\ view' = [ms |-> view.ms \ ms, pods |-> view.pods \ {n}]
    /\ left' = left

\* addPodScanNotificationCandidateList, for pods younger than the collector.
AddCandidate(p, o, running) ==
    cand' = IF born[p] <= start THEN cand
            ELSE [cand EXCEPT ![o] =
                     [n |-> @.n + 1,
                      image |-> IF @.n = 0 /\ running THEN image[p] ELSE @.image]]

\* Faulty variants: an owner that is no candidate is not left alone; a
\* candidate is never taken off the list.
RemoveCandidateUnguarded(o) == cand' = [cand EXCEPT ![o].n = @ - 1]
RemoveCandidateKeepsLast(o) == cand' = [cand EXCEPT ![o].n = IF @ > 1 THEN @ - 1 ELSE @]

\* removePodScanNotificationCandidateList.
RemoveCandidate(o) ==
    cand' = [cand EXCEPT ![o] = IF @.n > 1 THEN [n |-> @.n - 1, image |-> @.image]
                                           ELSE [n |-> 0, image |-> 0]]

\* Faulty variant: a candidate is scanned for its first image only.
CheckCandidateOnce(p, o, running) ==
    IF running /\ cand[o].n > 0 /\ cand[o].image = 0
      THEN cand' = [cand EXCEPT ![o].image = image[p]] /\ scanned' = scanned \cup {<<o, image[p]>>}
      ELSE UNCHANGED <<cand, scanned>>

\* checkNotificationCandidateList and the notification.
CheckCandidate(p, o, running) ==
    IF running /\ cand[o].n > 0 /\ cand[o].image # image[p]
      THEN cand' = [cand EXCEPT ![o].image = image[p]] /\ scanned' = scanned \cup {<<o, image[p]>>}
      ELSE UNCHANGED <<cand, scanned>>

\* Created before the last watch ended, or so it seems.
AddedIsOld ==
    /\ Handle("Added")
    /\ born[Head(queue).pod] <= last
    /\ EventDone
    /\ UNCHANGED collector

\* isPodSpecAlreadyExist: a microservice with this spec and at least one pod.
SameSpec(spec) == {i \in DOMAIN pdm : pdm[i].pods # {} /\ pdm[i].spec = spec}

AddedIsNewMicroService ==
    LET e == Head(queue)
        n == PodName[e.pod]
    IN  /\ Handle("Added") /\ born[e.pod] > last
        /\ \E od \in Ancestors(e.pod) :
              /\ SameSpec(od.spec) = {}
              /\ pdm' = [i \in DOMAIN pdm \cup {nextId} |->
                            IF i = nextId THEN [owner |-> od.owner, spec |-> od.spec, pods |-> {n}]
                                          ELSE pdm[i]]
              /\ AddCandidate(e.pod, od.owner, e.running)
        /\ nextId' = nextId + 1
        /\ Creates({nextId}, n)
        /\ EventDone
        /\ UNCHANGED <<last, start, scanned, early>>

\* The pod joins a microservice of its spec, or is listed there already.
AddedIsKnownMicroService ==
    LET e == Head(queue)
        n == PodName[e.pod]
    IN  /\ Handle("Added") /\ born[e.pod] > last
        /\ \E od \in Ancestors(e.pod) : \E i \in SameSpec(od.spec) :
              IF n \in pdm[i].pods
                THEN last' = clock /\ UNCHANGED <<pdm, entries, cand>>
                ELSE /\ pdm' = [pdm EXCEPT ![i].pods = @ \cup {n}]
                     /\ Creates({}, n)
                     /\ AddCandidate(e.pod, od.owner, e.running)
                     /\ last' = last
        /\ EventDone
        /\ UNCHANGED <<start, nextId, scanned, early>>

Modified ==
    LET e == Head(queue)
    IN  /\ Handle("Modified")
        /\ \E od \in Ancestors(e.pod) : CheckCandidate(e.pod, od.owner, e.running)
        /\ EventDone
        /\ UNCHANGED <<last, start, nextId, pdm, entries, early>>

\* The event of a terminating pod moves lastWatchEventCreationTime.
ModifiedIsTerminating ==
    LET e == Head(queue)
    IN  /\ Handle("Terminating")
        /\ \E od \in Ancestors(e.pod) : CheckCandidate(e.pod, od.owner, e.running)
        /\ last' = clock
        /\ EventDone
        /\ UNCHANGED <<start, nextId, pdm, entries, early>>

\* isMicroServiceNeedToBeRemoved: there is no case for the kind StatefulSet,
\* and the data of a CronJob never has the type that is asserted.
NeedsRemoval(i) ==
    \/ Kind[pdm[i].owner] = "CronJob"
    \/ Kind[pdm[i].owner] = "Deployment" /\ version[pdm[i].owner] = 0
\* Its type assertion panics on an owner whose data could not be read.
Panics(i) == Kind[pdm[i].owner] = "Deployment" /\ pdm[i].spec = NoSpec

\* Faulty variant: the last pod of a list is only taken off it with the list.
UnlistedKeepsLast(n, hits, gone) ==
    [i \in DOMAIN pdm \ gone |->
        IF i \in hits /\ pdm[i].pods # {n} THEN [pdm[i] EXCEPT !.pods = @ \ {n}] ELSE pdm[i]]

\* wh.pdm after RemovePod went over the lists in hits.
Unlisted(n, hits, gone) ==
    [i \in DOMAIN pdm \ gone |-> IF i \in hits THEN [pdm[i] EXCEPT !.pods = @ \ {n}] ELSE pdm[i]]

\* Faulty variant: the removal is decided on, but not returned.
DeletedShadowed ==
    LET e == Head(queue)
        n == PodName[e.pod]
        hits == Listed(n)
        emptied == {i \in hits : pdm[i].pods = {n}}
        gone == {i \in emptied : NeedsRemoval(i)}
    IN  /\ Handle("Deleted")
        /\ \A i \in emptied : ~Panics(i)
        /\ \E od \in Ancestors(e.pod) : RemoveCandidate(od.owner)
        /\ pdm' = Unlisted(n, hits, gone)
        /\ Deletes({}, n)
        /\ EventDone
        /\ UNCHANGED <<last, start, nextId, scanned, early>>

\* DeletePod: every list with a pod of this name loses it; the id reported is
\* of the last such list, and whether a microservice went with it is what was
\* found for the last one that became empty.
Deleted ==
    LET e == Head(queue)
        n == PodName[e.pod]
        hits == Listed(n)
        emptied == {i \in hits : pdm[i].pods = {n}}
        gone == {i \in emptied : NeedsRemoval(i)}
    IN  /\ Handle("Deleted")
        /\ \A i \in emptied : ~Panics(i)
        /\ \E od \in Ancestors(e.pod) : RemoveCandidate(od.owner)
        /\ pdm' = Unlisted(n, hits, gone)
        /\ IF hits = {} THEN UNCHANGED entries
           ELSE \E final \in hits :
                \E decisive \in IF final \in emptied \/ emptied = {} THEN {final} ELSE emptied :
                    Deletes(IF decisive \in gone THEN {final} ELSE {}, n)
        /\ EventDone
        /\ UNCHANGED <<last, start, nextId, scanned, early>>

\* A panic in RemovePod, after the pod left the list and before anything is
\* reported: PodWatch recovers, returns, and is called again by main.
DeletedPanics ==
    LET e == Head(queue)
        n == PodName[e.pod]
        hits == Listed(n)
        emptied == {i \in hits : pdm[i].pods = {n}}
    IN  /\ Handle("Deleted")
        /\ \E od \in Ancestors(e.pod) : RemoveCandidate(od.owner)
        /\ \E culprit \in {i \in emptied : Panics(i)} :
           \E done \in SUBSET {i \in hits : i \in emptied => ~Panics(i)} :
              pdm' = Unlisted(n, done \cup {culprit}, {i \in done \cap emptied : NeedsRemoval(i)})
        /\ EndWatch
        /\ last' = 0
        /\ call' = "later" /\ start' = clock
        /\ stopping' = IF stopping = "asks" THEN "hangs" ELSE stopping
        /\ UNCHANGED <<cluster, gaps, nextId, scanned, entries, early>>

HandlerStep ==
    \/ OwnerLookupFails
    \/ AddedIsOld \/ AddedIsNewMicroService \/ AddedIsKnownMicroService
    \/ Modified \/ ModifiedIsTerminating
    \/ Deleted \/ DeletedPanics

-----------------------------------------------------------------------------

Init ==
    /\ phase = [p \in Pods |-> "absent"]
    /\ born = [p \in Pods |-> 0] /\ image = [p \in Pods |-> 0]
    /\ version = [o \in Owners |-> 1]
    /\ clock = 0 /\ call = "none" /\ watching = FALSE /\ queue = <<>> /\ stopping = "no" /\ gaps = 0
    /\ last = 0 /\ start = 0
    /\ nextId = 0 /\ pdm = NoPods
    /\ cand = [o \in Owners |-> [n |-> 0, image |-> 0]] /\ scanned = {}
    /\ view = NoEntries /\ left = NoEntries /\ early = {}

Next ==
    \/ ClusterStep
    \/ PodWatchStarts \/ WatchOpens \/ WatchEnds
    \/ StateIsReset \/ StopsForNewState
    \/ HandlerStep

Spec == Init /\ [][Next]_vars

-----------------------------------------------------------------------------

\* The types: no counter of a scan candidate is ever negative, every identifier
\* in use was given by CreateID, and only times that have been are remembered.
TypeOK ==
    /\ phase \in [Pods -> {"absent", "starting", "running", "terminating", "gone"}]
    /\ born \in [Pods -> 0..clock] /\ image \in [Pods -> 0..MaxSpec]
    /\ version \in [Owners -> 0..MaxSpec] /\ clock \in 0..Cardinality(Pods)
    /\ call \in {"none", "first", "later"} /\ watching \in BOOLEAN
    /\ stopping \in {"no", "asks", "hangs"} /\ gaps \in 0..MaxGaps
    /\ \A i \in DOMAIN queue : queue[i] \in
          [type: {"Added", "Modified", "Terminating", "Deleted"}, pod: Pods, running: BOOLEAN]
    /\ last \in 0..clock /\ start \in 0..clock
    /\ DOMAIN pdm \subseteq 0..(nextId - 1)
    /\ \A i \in DOMAIN pdm : pdm[i].owner \in Owners /\ pdm[i].pods \subseteq Names
    /\ cand \in [Owners -> [n: 0..Cardinality(Pods), image: 0..MaxSpec]]
    /\ scanned \subseteq Owners \X (1..MaxSpec) /\ early \subseteq Owners \X (1..MaxSpec)
    /\ \A v \in {view, left} : v.ms \subseteq 0..(nextId - 1) /\ v.pods \subseteq Names

\* As long as PodWatch never panicked, what the entries of podwatch.go add up
\* to is what wh.pdm holds, the same microservices and the same pods; after a
\* new state (watchhandler.go:178) the backend has besides them only what was
\* collected and not sent when wh.pdm was replaced.
RegistryMatchesView ==
    call # "later" =>
        LET listed == UNION {pdm[i].pods : i \in DOMAIN pdm}
        IN  /\ view.ms = DOMAIN pdm \cup left.ms
            /\ listed \subseteq view.pods /\ view.pods \subseteq listed \cup left.pods

\* What the backend does not know of is older than the last interruption: a
\* pod is only ever missed by a wrong lastWatchEventCreationTime.
Idle == watching /\ queue = <<>> /\ stopping = "no"
MissedAreOld ==
    Idle => \A p \in Pods : Live(p) /\ PodName[p] \notin view.pods => born[p] <= last

\* While one watch stays open, only pods that exist are known once all its
\* events are handled.
NoGhostPods ==
    gaps = 0 /\ Idle => view.pods \subseteq {PodName[p] : p \in {q \in Pods : Live(q)}}

\* While one watch stays open, a pod belongs to one microservice, whatever
\* becomes of its owner's spec and whoever had its name before.
OneListPerPod == gaps = 0 => \A n \in Names : Cardinality(Listed(n)) <= 1

\* The counter of a scan candidate follows its pods (podwatch_test.go:162,171):
\* while one watch stays open it counts no more than the pods of its owner that
\* are younger than the collector and listed, so the candidate goes with them.
Young(p) == born[p] > start
CandidatesAreListed ==
    gaps = 0 => \A o \in Owners :
        cand[o].n <= Cardinality({n \in Names :
            /\ Listed(n) # {}
            /\ \E p \in Pods : OwnerOf[p] = o /\ PodName[p] = n /\ Young(p)})

\* podwatch.go:71: every pod that exists is observed and acted upon.
EveryPodReported ==
    Idle => \A p \in Pods : phase[p] \in {"starting", "running"} => PodName[p] \in view.pods

\* podwatch.go:211: while one watch stays open, the image of a running pod that
\* is younger than the collector was scanned once its events are handled,
\* whichever image the candidate was listed or scanned with before.  Not so the
\* images of pods that ran before the watch was open: their Added event lists the
\* candidate with the image.  And not when the candidate counts fewer pods than
\* its owner has young ones in the lists.
ListedOf(o) == {p \in Pods : OwnerOf[p] = o /\ Young(p) /\ Live(p) /\ Listed(PodName[p]) # {}}
RunningImagesScanned ==
    gaps = 0 /\ Idle => \A p \in Pods :
        LET o == OwnerOf[p]
        IN  p \in ListedOf(o) /\ phase[p] = "running" /\ cand[o].n = Cardinality(ListedOf(o))
                => <<o, image[p]>> \in scanned \cup early
=============================================================================
