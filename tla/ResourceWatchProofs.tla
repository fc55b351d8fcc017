------------------------- MODULE ResourceWatchProofs -------------------------
(***************************************************************************)
(* Proofs about ResourceWatch, for all kinds, any finite set of objects    *)
(* and names, and any number of changes, interruptions and queued events:  *)
(* the types, that the reports implement ClusterMirror, that a cron job    *)
(* has one identifier, and that reports and dictionary follow the cluster. *)
(***************************************************************************)
EXTENDS ResourceWatch, QueueLemmas

-----------------------------------------------------------------------------
(* What the steps do, in the terms of the proofs.                           *)

EventTypes == {"Added", "Modified", "Deleted"}

\* A change of the cluster and its event.
Emitted(type, o) ==
    /\ clock < MaxChanges /\ clock' = clock + 1
    /\ rev' = [rev EXCEPT ![o] = clock + 1]
    /\ queue' = IF watching THEN Append(queue, Event(type, o, clock + 1)) ELSE queue
    /\ UNCHANGED <<kind, watching, stopping, gaps, last, nextId, dm, cronIds, specIds, told>>
    /\ \/ /\ type = "Added" /\ born[o] = 0 /\ \A p \in alive : NameOf[p] # NameOf[o]
          /\ alive' = alive \cup {o} /\ born' = [born EXCEPT ![o] = clock + 1]
       \/ type = "Modified" /\ o \in alive /\ UNCHANGED <<alive, born>>
       \/ type = "Deleted" /\ o \in alive /\ alive' = alive \ {o} /\ UNCHANGED born

\* Every change of the cluster is one of these.
LEMMA ClusterEffect ==
    ASSUME ClusterStep
    PROVE  \E o \in Objects, type \in EventTypes : Emitted(type, o)
<1>1. PICK o \in Objects : Appears(o) \/ IsChanged(o) \/ Disappears(o) BY DEF ClusterStep
<1>2. CASE Appears(o)
  <2>1. Emitted("Added", o)
    BY <1>2 DEF Appears, Changes, Emit, Emitted, collector
  <2> QED BY <2>1 DEF EventTypes
<1>3. CASE IsChanged(o)
  <2>1. Emitted("Modified", o)
    BY <1>3 DEF IsChanged, Changes, Emit, Emitted, collector
  <2> QED BY <2>1 DEF EventTypes
<1>4. CASE Disappears(o)
  <2>1. Emitted("Deleted", o)
    BY <1>4 DEF Disappears, Changes, Emit, Emitted, collector
  <2> QED BY <2>1 DEF EventTypes
<1> QED BY <1>1, <1>2, <1>3, <1>4

\* A watch ends, with or without a stamp.
Ended ==
    /\ watching' = FALSE /\ queue' = <<>>
    /\ last' = clock \/ (last' = last /\ kind # "cronjob")
    /\ gaps' \in {gaps, gaps + 1} /\ gaps' <= MaxGaps /\ stopping' \in {stopping, FALSE}
    /\ gaps' = 0 => stopping
    /\ UNCHANGED <<cluster, nextId, dm, cronIds, specIds, told>>

\* Cron jobs are stamped whenever a watch ends.
LEMMA StampEffect ==
    ASSUME NEW why \in {"ended", "newState"}, Stamp(why)
    PROVE  last' = clock \/ (last' = last /\ kind # "cronjob")
<1>1. CASE kind = "cronjob"
  <2>1. Stamps["cronjob"] = CronJobStamps BY DEF Stamps
  <2>2. why \in Stamps[kind] BY <1>1, <2>1 DEF CronJobStamps
  <2> QED BY <2>2 DEF Stamp
<1>2. CASE kind # "cronjob"
  <2>1. last' = clock \/ last' = last BY DEF Stamp
  <2> QED BY <1>2, <2>1
<1> QED BY <1>1, <1>2

\* An ending, and a stop for a new state.
LEMMA EndEffect ==
    ASSUME gaps \in 0..MaxGaps, MaxGaps \in Nat, WatchEnds \/ StopsForNewState
    PROVE  Ended
<1>1. CASE WatchEnds
  <2>1. last' = clock \/ (last' = last /\ kind # "cronjob")
    BY <1>1, StampEffect DEF WatchEnds
  <2>2. gaps < MaxGaps /\ gaps' = gaps + 1 /\ gaps \in Nat BY <1>1 DEF WatchEnds
  <2>3. gaps' # 0 /\ gaps' <= MaxGaps BY <2>2
  <2>4. watching' = FALSE /\ queue' = <<>> /\ stopping' = stopping
        /\ UNCHANGED <<cluster, nextId, dm, cronIds, specIds, told>>
    BY <1>1 DEF WatchEnds, EndWatch
  <2> QED BY <2>1, <2>2, <2>3, <2>4 DEF Ended
<1>2. CASE StopsForNewState
  <2>1. last' = clock \/ (last' = last /\ kind # "cronjob")
    BY <1>2, StampEffect DEF StopsForNewState
  <2>2. stopping /\ stopping' = FALSE /\ watching' = FALSE /\ queue' = <<>> /\ gaps' = gaps
        /\ UNCHANGED <<cluster, nextId, dm, cronIds, specIds, told>>
    BY <1>2 DEF StopsForNewState, EndWatch
  <2>3. gaps' <= MaxGaps BY <2>2
  <2> QED BY <2>1, <2>2, <2>3 DEF Ended
<1> QED BY <1>1, <1>2

\* A handled event: skipped, or an object that is added, updated or removed,
\* or a cron job.
Handled ==
    /\ watching /\ queue # <<>> /\ queue' = Tail(queue)
    /\ UNCHANGED <<cluster, watching, stopping, gaps, last>>
Skips == UNCHANGED collector /\ (Ignored(Head1) \/ IsOld(Head1))
AddsObject ==
    /\ kind # "cronjob" /\ ~Ignored(Head1) /\ Head1.type = "Added" /\ ~IsOld(Head1)
    /\ dm' = Added(Head1) /\ nextId' = nextId + 1 /\ Reports(Head1, TRUE)
    /\ UNCHANGED <<cronIds, specIds>>
UpdatesObject ==
    /\ kind # "cronjob" /\ ~Ignored(Head1) /\ Head1.type = "Modified"
    /\ IF kind = "namespace" THEN dm' = dm ELSE Rewritten(Head1)
    /\ \/ Reports(Head1, TRUE) /\ (kind = "node" => Hits(Head1) # {})
       \/ kind = "node" /\ Hits(Head1) = {} /\ ReportsNothing
    /\ UNCHANGED <<nextId, cronIds, specIds>>
RemovesObject ==
    /\ kind # "cronjob" /\ ~Ignored(Head1) /\ Head1.type = "Deleted"
    /\ Removed(Head1)
    /\ Reports(Head1, FALSE) \/ (kind = "node" /\ Hits(Head1) = {} /\ ReportsNothing)
    /\ UNCHANGED <<nextId, cronIds, specIds>>
CronJob ==
    /\ kind = "cronjob" /\ ~Ignored(Head1) /\ dm' = dm
    /\ CronJobAdded \/ CronJobModified \/ CronJobDeleted

\* Every handler does one of these.
LEMMA HandlerEffect ==
    ASSUME HandlerStep
    PROVE  Handled /\ (Skips \/ AddsObject \/ UpdatesObject \/ RemovesObject \/ CronJob)
<1>1. CASE EventSkipped
  BY <1>1 DEF EventSkipped, EventDone, Handled, Skips, collector
<1>2. CASE handleNodeWatch /\ EventDone
  <2>1. kind = "node" /\ ~Ignored(Head1) /\ Handled
    BY <1>2 DEF handleNodeWatch, Handles, Ignored, Namespaced, EventDone, ObjectAdded, ObjectKnown, Handled
  <2> QED BY <1>2, <2>1 DEF handleNodeWatch, Handles, ObjectAdded, ObjectKnown, UpdateNode, RemoveNode,
          AddsObject, UpdatesObject, RemovesObject
<1>3. CASE handleServiceWatch /\ EventDone
  <2>1. kind = "service" /\ ~Ignored(Head1) /\ Handled
    BY <1>3 DEF handleServiceWatch, Handles, EventDone, ObjectAdded, ObjectKnown, Handled
  <2> QED BY <1>3, <2>1 DEF handleServiceWatch, Handles, ObjectAdded, ObjectKnown, updateService,
          removeService, AddsObject, UpdatesObject, RemovesObject
<1>4. CASE secretEventHandler /\ EventDone
  <2>1. kind = "secret" /\ ~Ignored(Head1) /\ Handled
    BY <1>4 DEF secretEventHandler, Handles, EventDone, ObjectAdded, ObjectKnown, Handled
  <2> QED BY <1>4, <2>1 DEF secretEventHandler, Handles, ObjectAdded, ObjectKnown, updateSecret,
          removeSecret, AddsObject, UpdatesObject, RemovesObject
<1>5. CASE NamespaceEventHandler /\ EventDone
  <2>1. kind = "namespace" /\ ~Ignored(Head1) /\ Handled
    BY <1>5 DEF NamespaceEventHandler, Handles, Ignored, Namespaced, EventDone, ObjectAdded, ObjectKnown, Handled
  <2> QED BY <1>5, <2>1 DEF NamespaceEventHandler, Handles, ObjectAdded, ObjectKnown, UpdateNamespace,
          RemoveNamespace, AddsObject, UpdatesObject, RemovesObject
<1>6. CASE queue # <<>> /\ handleCronJobWatch /\ EventDone
  <2>1. kind = "cronjob" /\ ~Ignored(Head1) /\ Handled /\ dm' = dm
        /\ (CronJobAdded \/ CronJobModified \/ CronJobDeleted)
    BY <1>6 DEF handleCronJobWatch, CronJobAdded, CronJobModified, CronJobDeleted, Handles, EventDone, Handled
  <2> QED BY <2>1 DEF CronJob
<1> QED BY <1>1, <1>2, <1>3, <1>4, <1>5, <1>6 DEF HandlerStep

\* What is reported of an event is the object of the event, as it was then, if
\* anything is.
LEMMA ToldEffect ==
    ASSUME Handled, Skips \/ AddsObject \/ UpdatesObject \/ RemovesObject \/ CronJob
    PROVE  told' = told \/ (~Ignored(Head1) /\ Reports(Head1, Head1.type # "Deleted"))
  BY DEF Skips, AddsObject, UpdatesObject, RemovesObject, CronJob, CronJobAdded, CronJobModified,
     CronJobDeleted, Handles, ReportsNothing, collector, Reports

-----------------------------------------------------------------------------
(* The cluster.                                                             *)

\* At most one object of a name exists, it is the one of that name that changed
\* last, and every name has an object that changed last.
ClusterInv ==
    /\ kind \in Kinds /\ alive \subseteq Objects /\ clock \in 1..MaxChanges
    /\ born \in [Objects -> Nat] /\ rev \in [Objects -> Nat]
    /\ \A o \in Objects : born[o] <= rev[o] /\ rev[o] <= clock
    /\ \A o \in alive : born[o] >= 1
    /\ \A o, p \in alive : NameOf[o] = NameOf[p] => o = p
    /\ \A o \in alive, p \in Objects : NameOf[p] = NameOf[o] /\ p # o => rev[p] < rev[o]
    /\ \A n \in Names : \E p \in Objects :
          NameOf[p] = n /\ \A q \in Objects : NameOf[q] = n => rev[q] <= rev[p]

\* The initial cluster.
LEMMA ClusterInit == Init => ClusterInv
<1> SUFFICES ASSUME Init PROVE ClusterInv OBVIOUS
<1> USE DEF Init
<1>1. kind \in Kinds /\ alive \subseteq Objects /\ clock \in 1..MaxChanges
  BY BoundsAssumption
<1>2. born \in [Objects -> Nat] /\ rev \in [Objects -> Nat] /\ rev = born OBVIOUS
<1>3. \A o \in Objects : rev[o] = IF o \in alive THEN 1 ELSE 0 OBVIOUS
<1>4. \A o \in Objects : born[o] <= rev[o] /\ rev[o] <= clock BY <1>2, <1>3
<1>5. \A o \in alive : born[o] >= 1 BY <1>1, <1>2, <1>3
<1>6. \A o, p \in alive : NameOf[o] = NameOf[p] => o = p OBVIOUS
<1>7. \A o \in alive, p \in Objects : NameOf[p] = NameOf[o] /\ p # o => rev[p] < rev[o]
  BY <1>1, <1>3, <1>6
<1>8. ASSUME NEW n \in Names
      PROVE  \E p \in Objects :
          NameOf[p] = n /\ \A q \in Objects : NameOf[q] = n => rev[q] <= rev[p]
  <2>1. PICK o \in Objects : NameOf[o] = n BY DEF Names
  <2>2. CASE \E p \in alive : NameOf[p] = n BY <1>1, <1>3, <2>2
  <2>3. CASE ~\E p \in alive : NameOf[p] = n BY <1>3, <2>1, <2>3
  <2> QED BY <2>2, <2>3
<1> QED BY <1>1, <1>2, <1>4, <1>5, <1>6, <1>7, <1>8 DEF ClusterInv

\* A change keeps all that: the object that changes is, or becomes, the only
\* one of its name, and gets the latest revision.
LEMMA ClusterEmitted ==
    ASSUME ClusterInv, NEW o \in Objects, NEW type \in EventTypes, Emitted(type, o)
    PROVE  ClusterInv'
<1> USE DEF ClusterInv
<1>1. clock' = clock + 1 /\ clock \in Nat /\ clock' \in 1..MaxChanges /\ kind' \in Kinds
  BY BoundsAssumption DEF Emitted
<1>2. /\ rev' \in [Objects -> Nat] /\ rev'[o] = clock + 1
      /\ \A p \in Objects : p # o => rev'[p] = rev[p]
  BY <1>1 DEF Emitted
<1>3. born' \in [Objects -> Nat] /\ alive' \subseteq Objects BY <1>1 DEF Emitted
<1>4. \A p \in Objects : p # o => born'[p] = born[p] /\ (p \in alive' <=> p \in alive)
  BY DEF Emitted
<1>5. born'[o] <= clock + 1 /\ (o \in alive' => born'[o] >= 1)
  BY <1>1 DEF Emitted
<1>6. \A p \in alive : NameOf[p] = NameOf[o] => p = o
  BY DEF Emitted
<1>7. \A p \in Objects : born'[p] <= rev'[p] /\ rev'[p] <= clock'
  BY <1>1, <1>2, <1>4, <1>5
<1>8. \A p \in alive' : born'[p] >= 1 BY <1>3, <1>4, <1>5
<1>9. \A p, q \in alive' : NameOf[p] = NameOf[q] => p = q
  BY <1>3, <1>4, <1>6
<1>10. \A p \in alive', q \in Objects : NameOf[q] = NameOf[p] /\ q # p => rev'[q] < rev'[p]
  BY <1>1, <1>2, <1>3, <1>4, <1>6
<1>11. ASSUME NEW n \in Names
       PROVE  \E p \in Objects :
          NameOf[p] = n /\ \A q \in Objects : NameOf[q] = n => rev'[q] <= rev'[p]
  <2>1. CASE n = NameOf[o] BY <1>1, <1>2, <1>7, <2>1
  <2>2. CASE n # NameOf[o] BY <1>2, <2>2
  <2> QED BY <2>1, <2>2
<1>12. (Names)' = Names BY DEF Names
<1> QED BY <1>1, <1>2, <1>3, <1>7, <1>8, <1>9, <1>10, <1>11, <1>12

-----------------------------------------------------------------------------
(* The watch and its queued events.                                         *)

Events == [type : EventTypes, obj : Objects, rev : Nat]
Idx == 1..Len(queue)
NameAt(i) == NameOf[queue[i].obj]

\* The events of a name are in the order of its revisions, an object is added
\* first, and what is queued of an object that is gone ends with its deletion.
QueueInv ==
    /\ watching \in BOOLEAN /\ stopping \in BOOLEAN /\ gaps \in 0..MaxGaps
    /\ queue \in Seq(Events)
    /\ watching \/ queue = <<>>
    /\ \A i \in Idx :
          queue[i].rev >= 1 /\ queue[i].rev <= rev[queue[i].obj] /\ born[queue[i].obj] >= 1
    /\ \A i \in Idx : queue[i].obj \in alive => queue[i].type # "Deleted"
    /\ \A i, j \in Idx : i < j /\ NameAt(i) = NameAt(j) => queue[i].rev < queue[j].rev
    /\ \A i, j \in Idx : queue[i].type = "Added" /\ queue[j].obj = queue[i].obj => i <= j
    /\ \A i \in Idx : \/ queue[i].obj \in alive
                      \/ \E j \in i..Len(queue) :
                            queue[j].type = "Deleted" /\ queue[j].obj = queue[i].obj

\* An empty queue has no events to be wrong about.
LEMMA QueueInit == Init => QueueInv
<1> SUFFICES ASSUME Init PROVE QueueInv OBVIOUS
<1>1. watching \in BOOLEAN /\ stopping \in BOOLEAN BY DEF Init
<1>2. queue = <<>> /\ gaps = 0 BY DEF Init
<1>3. Idx = {} /\ queue \in Seq(Events) BY <1>2 DEF Idx
<1>4. gaps \in 0..MaxGaps BY <1>2, BoundsAssumption
<1> QED BY <1>1, <1>2, <1>3, <1>4 DEF QueueInv

\* Nor has one that was emptied.
LEMMA QueueEmpty ==
    ASSUME queue' = <<>>, watching' \in BOOLEAN, stopping' \in BOOLEAN, gaps' \in 0..MaxGaps
    PROVE  QueueInv'
<1>1. Idx' = {} /\ queue' \in Seq(Events) BY DEF Idx
<1> QED BY <1>1 DEF QueueInv

\* What an event that is queued is.
LEMMA QueuedEvent ==
    ASSUME QueueInv, NEW i \in Idx
    PROVE  /\ queue[i] \in Events /\ queue[i].obj \in Objects /\ queue[i].rev \in Nat
           /\ queue[i].type \in EventTypes /\ NameAt(i) \in Names
<1>1. queue[i] \in Events BY DEF QueueInv, Idx
<1> QED BY <1>1 DEF Events, NameAt, Names

\* A change puts its event at the end, if a watch is open.
LEMMA AppendedEvent ==
    ASSUME QueueInv, NEW o \in Objects, NEW type \in EventTypes, Emitted(type, o), watching,
           clock \in Nat
    PROVE  /\ queue' \in Seq(Events) /\ Len(queue) \in Nat /\ Len(queue') = Len(queue) + 1
           /\ queue'[Len(queue) + 1].type = type /\ queue'[Len(queue) + 1].obj = o
           /\ queue'[Len(queue) + 1].rev = clock + 1
           /\ \A i \in Idx : queue'[i] = queue[i]
           /\ Idx' = Idx \cup {Len(queue) + 1} /\ Len(queue) + 1 \notin Idx
<1> DEFINE e == Event(type, o, clock + 1)
<1>1. e \in Events /\ e.type = type /\ e.obj = o /\ e.rev = clock + 1 BY DEF Event, Events
<1>2. queue' = Append(queue, e) BY DEF Emitted
<1>3. queue \in Seq(Events) BY DEF QueueInv
<1> HIDE DEF e
<1>4. /\ queue' \in Seq(Events) /\ Len(queue) \in Nat /\ Len(queue') = Len(queue) + 1
      /\ queue'[Len(queue) + 1] = e /\ \A i \in 1..Len(queue) : queue'[i] = queue[i]
  BY <1>1, <1>2, <1>3, AppendSeq
<1> QED BY <1>1, <1>4 DEF Idx

\* The queue after a change.
LEMMA QueueEmitted ==
    ASSUME ClusterInv, QueueInv, NEW o \in Objects, NEW type \in EventTypes, Emitted(type, o)
    PROVE  QueueInv'
<1>1. /\ clock \in Nat /\ rev \in [Objects -> Nat] /\ born \in [Objects -> Nat]
      /\ alive \subseteq Objects /\ rev'[o] = clock + 1
      /\ \A p \in Objects : p # o => rev'[p] = rev[p]
      /\ \A p \in Objects : rev[p] <= clock
  BY DEF ClusterInv, Emitted
<1>2. /\ \A p \in Objects : p # o => born'[p] = born[p] /\ (p \in alive' <=> p \in alive)
      /\ born'[o] >= 1
      /\ type = "Added" <=> born[o] = 0
      /\ type # "Deleted" <=> o \in alive'
  BY <1>1 DEF Emitted, ClusterInv
<1>3. watching' \in BOOLEAN /\ stopping' \in BOOLEAN /\ gaps' \in 0..MaxGaps
      /\ watching' = watching /\ stopping' = stopping /\ gaps' = gaps
  BY DEF QueueInv, Emitted
<1>4. CASE ~watching
  <2>1. queue' = <<>> BY <1>4 DEF Emitted, QueueInv
  <2> QED BY <1>3, <2>1, QueueEmpty
<1>5. CASE watching
  <2> DEFINE m == Len(queue) + 1
  <2>1. /\ queue' \in Seq(Events) /\ Len(queue) \in Nat /\ Len(queue') = m
        /\ queue'[m].type = type /\ queue'[m].obj = o /\ queue'[m].rev = clock + 1
        /\ \A i \in Idx : queue'[i] = queue[i]
        /\ Idx' = Idx \cup {m} /\ m \notin Idx /\ m \in Nat
    BY <1>1, <1>5, AppendedEvent
  <2>2. \A i \in Idx : i < m /\ i \in Nat BY <2>1 DEF Idx
  <2>3. \A i \in Idx : /\ queue[i].obj \in Objects /\ queue[i].rev \in Nat
                       /\ (queue[i].obj = o => type # "Added")
    <3> TAKE i \in Idx
    <3>1. queue[i].obj \in Objects /\ queue[i].rev \in Nat BY QueuedEvent
    <3>2. born[queue[i].obj] >= 1 BY DEF QueueInv
    <3>3. type = "Added" => ~(born[o] >= 1) BY <1>2
    <3> QED BY <3>1, <3>2, <3>3
  <2> HIDE DEF m
  <2>4. ASSUME NEW i \in Idx'
        PROVE  /\ queue'[i].rev >= 1 /\ queue'[i].rev <= rev'[queue'[i].obj]
               /\ born'[queue'[i].obj] >= 1
    <3>1. CASE i = m BY <1>1, <1>2, <2>1, <3>1
    <3>2. CASE i \in Idx
      <4>1. queue'[i] = queue[i] /\ queue[i].rev >= 1 /\ queue[i].rev <= rev[queue[i].obj]
            /\ born[queue[i].obj] >= 1
        BY <2>1, <3>2 DEF QueueInv
      <4> QED BY <1>1, <1>2, <2>3, <3>2, <4>1
    <3> QED BY <2>1, <3>1, <3>2
  <2>5. \A i \in Idx' : queue'[i].obj \in alive' => queue'[i].type # "Deleted"
    <3>1. \A i \in Idx : queue[i].obj = o => (o \in alive' => o \in alive)
      BY <1>2, <2>3 DEF Emitted
    <3> QED BY <1>2, <2>1, <2>3, <3>1 DEF QueueInv
  <2>6. ASSUME NEW i \in Idx', NEW j \in Idx', i < j,
               NameOf[queue'[i].obj] = NameOf[queue'[j].obj]
        PROVE  queue'[i].rev < queue'[j].rev
    <3>1. i \in Idx /\ queue'[i] = queue[i] BY <2>1, <2>2, <2>6
    <3>2. CASE j = m
      <4>1. queue[i].rev <= rev[queue[i].obj] BY <3>1 DEF QueueInv
      <4>2. queue[i].obj \in Objects /\ queue[i].rev \in Nat BY <2>3, <3>1
      <4>3. rev[queue[i].obj] \in Nat /\ rev[queue[i].obj] <= clock BY <1>1, <4>2
      <4>4. queue'[j].rev = clock + 1 /\ queue'[i].rev = queue[i].rev BY <2>1, <3>1, <3>2
      <4> QED BY <1>1, <4>1, <4>2, <4>3, <4>4
    <3>3. CASE j \in Idx
      <4>1. queue'[j] = queue[j] BY <2>1, <3>3
      <4>2. NameAt(i) = NameAt(j) BY <2>6, <3>1, <4>1 DEF NameAt
      <4>3. queue[i].rev < queue[j].rev BY <2>6, <3>1, <3>3, <4>2 DEF QueueInv
      <4> QED BY <3>1, <4>1, <4>3
    <3> QED BY <2>1, <3>2, <3>3
  <2>7. \A i, j \in Idx' : queue'[i].type = "Added" /\ queue'[j].obj = queue'[i].obj => i <= j
    BY <2>1, <2>2, <2>3 DEF QueueInv
  <2>8. ASSUME NEW i \in Idx'
        PROVE  \/ queue'[i].obj \in alive'
               \/ \E j \in i..Len(queue') : queue'[j].type = "Deleted" /\ queue'[j].obj = queue'[i].obj
    <3>1. m \in i..Len(queue') BY <2>1, <2>2
    <3>2. CASE queue'[i].obj = o BY <1>2, <2>1, <3>1, <3>2
    <3>3. CASE queue'[i].obj # o
      <4>1. i \in Idx /\ queue'[i] = queue[i] /\ queue[i].obj \in Objects BY <2>1, <2>3, <3>3
      <4>2. CASE queue[i].obj \in alive BY <1>2, <3>3, <4>1, <4>2
      <4>3. ASSUME NEW j \in i..Len(queue), queue[j].type = "Deleted", queue[j].obj = queue[i].obj
            PROVE  j \in i..Len(queue') /\ queue'[j] = queue[j]
        BY <2>1, <2>2, <4>1, <4>3 DEF Idx, m
      <4> QED BY <4>1, <4>2, <4>3 DEF QueueInv
    <3> QED BY <3>2, <3>3
  <2> QED BY <1>3, <1>5, <2>1, <2>4, <2>5, <2>6, <2>7, <2>8 DEF QueueInv, NameAt
<1> QED BY <1>4, <1>5

\* The queue of a new watch: every existing object as added, once.
LEMMA OpenedQueue ==
    ASSUME ClusterInv, WatchOpens
    PROVE  /\ queue' \in Seq(Events) /\ Len(queue') \in Nat
           /\ \A i \in Idx' : /\ queue'[i].type = "Added" /\ queue'[i].obj \in alive
                              /\ queue'[i].rev = rev[queue'[i].obj]
           /\ \A i, j \in Idx' : queue'[i].obj = queue'[j].obj => i = j
           /\ \A o \in alive : \E i \in Idx' : queue'[i].obj = o
<1> DEFINE First(o) == Event("Added", o, rev[o])
           S == {First(o) : o \in alive}
<1>1. alive \subseteq Objects /\ rev \in [Objects -> Nat] BY DEF ClusterInv
<1>2. \A o \in alive : /\ First(o) \in Events /\ First(o).type = "Added" /\ First(o).obj = o
                       /\ First(o).rev = rev[o]
  BY <1>1 DEF Event, Events, EventTypes
<1>3. IsFiniteSet(S)
  <2>1. IsFiniteSet(alive) BY <1>1, ObjectsAssumption, FS_Subset
  <2>2. [o \in alive |-> First(o)] \in Surjection(alive, S)
    BY DEF Surjection
  <2> HIDE DEF S
  <2> QED BY <2>1, <2>2, FS_Surjection
<1>4. queue' \in Orders(S) BY DEF WatchOpens
<1> HIDE DEF First
<1>5. S \subseteq Events BY <1>2
<1>6. \A e \in S : \E o \in alive : e = First(o) OBVIOUS
<1>7. \A o \in alive : First(o) \in S OBVIOUS
<1> HIDE DEF S
<1>8. /\ queue' \in Seq(S) /\ Len(queue') \in Nat
      /\ \A i, j \in 1..Len(queue') : queue'[i] = queue'[j] => i = j
      /\ \A e \in S : \E i \in 1..Len(queue') : queue'[i] = e
  <2>1. PICK q : q = queue' OBVIOUS
  <2>2. q \in Injection(1..Cardinality(S), S)
    BY <1>4, <2>1 DEF Orders, Injection, IsInjective
  <2>3. /\ q \in Seq(S) /\ Len(q) \in Nat
        /\ \A i, j \in 1..Len(q) : q[i] = q[j] => i = j
        /\ \A e \in S : \E i \in 1..Len(q) : q[i] = e
    BY <1>3, <2>2, OrdersAreComplete
  <2> QED BY <2>1, <2>3
<1>9. queue' \in Seq(Events) /\ \A i \in 1..Len(queue') : queue'[i] \in S
  BY <1>5, <1>8
<1>10. \A i \in Idx' : \E o \in alive : queue'[i] = First(o) BY <1>6, <1>9 DEF Idx
<1>11. \A o \in alive : \E i \in Idx' : queue'[i] = First(o) BY <1>7, <1>8 DEF Idx
<1>12. \A i \in Idx' : queue'[i].obj \in alive /\ queue'[i] = First(queue'[i].obj)
  BY <1>2, <1>10
<1>13. ASSUME NEW i \in Idx', NEW j \in Idx', queue'[i].obj = queue'[j].obj PROVE i = j
  <2>1. queue'[i] = queue'[j] BY <1>12, <1>13
  <2> QED BY <1>8, <2>1 DEF Idx
<1>14. \A o \in alive : \E i \in Idx' : queue'[i].obj = o BY <1>2, <1>11
<1>15. \A i \in Idx' : /\ queue'[i].type = "Added" /\ queue'[i].obj \in alive
                       /\ queue'[i].rev = rev[queue'[i].obj]
  BY <1>2, <1>12
<1>16. queue' \in Seq(Events) /\ Len(queue') \in Nat BY <1>8, <1>9
<1> QED BY <1>13, <1>14, <1>15, <1>16

\* The queue after an event was handled: the others, one place further on.
LEMMA HandledQueue ==
    ASSUME QueueInv, Handled
    PROVE  /\ queue' \in Seq(Events) /\ Len(queue) \in Nat /\ Len(queue') = Len(queue) - 1
           /\ Len(queue) >= 1 /\ 1 \in Idx /\ Head1 = queue[1]
           /\ \A i \in Idx' : i \in Nat /\ i >= 1 /\ i + 1 \in Idx /\ queue'[i] = queue[i + 1]
           /\ \A i \in Idx : i \in Nat /\ (i = 1 \/ i - 1 \in Idx')
<1>1. queue \in Seq(Events) /\ queue # <<>> /\ queue' = Tail(queue) BY DEF QueueInv, Handled
<1>2. /\ queue' \in Seq(Events) /\ Len(queue') = Len(queue) - 1 /\ Head(queue) = queue[1]
      /\ Len(queue) \in Nat /\ Len(queue) >= 1
      /\ \A i \in 1..Len(queue') : i + 1 \in 1..Len(queue) /\ queue'[i] = queue[i + 1]
  BY <1>1, TailSeq
<1> QED BY <1>2 DEF Idx, Head1

\* The queue is right in a new watch.
LEMMA QueueOpened ==
    ASSUME ClusterInv, QueueInv, WatchOpens
    PROVE  QueueInv'
<1>1. /\ queue' \in Seq(Events) /\ Len(queue') \in Nat
      /\ \A i \in Idx' : /\ queue'[i].type = "Added" /\ queue'[i].obj \in alive
                         /\ queue'[i].rev = rev[queue'[i].obj]
      /\ \A i, j \in Idx' : queue'[i].obj = queue'[j].obj => i = j
  BY OpenedQueue
<1>2. /\ watching' = TRUE /\ stopping' \in BOOLEAN /\ gaps' \in 0..MaxGaps
      /\ alive' = alive /\ rev' = rev /\ born' = born
  BY DEF WatchOpens, QueueInv, cluster
<1>3. /\ alive \subseteq Objects /\ rev \in [Objects -> Nat] /\ born \in [Objects -> Nat]
      /\ \A o \in alive : born[o] >= 1
      /\ \A o \in Objects : born[o] <= rev[o]
      /\ \A o, p \in alive : NameOf[o] = NameOf[p] => o = p
  BY DEF ClusterInv
<1>4. \A i \in Idx' : /\ queue'[i].rev >= 1 /\ queue'[i].rev <= rev'[queue'[i].obj]
                      /\ born'[queue'[i].obj] >= 1 /\ queue'[i].obj \in alive'
                      /\ queue'[i].type # "Deleted"
  <2> TAKE i \in Idx'
  <2>1. queue'[i].obj \in alive /\ queue'[i].obj \in Objects BY <1>1, <1>3
  <2> QED BY <1>1, <1>2, <1>3, <2>1
<1>5. \A i, j \in Idx' : i < j /\ (NameAt(i) = NameAt(j))' => queue'[i].rev < queue'[j].rev
  <2>1. \A i, j \in Idx' : (NameAt(i) = NameAt(j))' => i = j
    BY <1>1, <1>3 DEF NameAt
  <2>2. \A i \in Idx' : ~(i < i) BY <1>1 DEF Idx
  <2> QED BY <2>1, <2>2
<1>6. \A i, j \in Idx' : queue'[i].type = "Added" /\ queue'[j].obj = queue'[i].obj => i <= j
  BY <1>1 DEF Idx
<1>7. watching' \in BOOLEAN BY <1>2
<1> QED BY <1>1, <1>2, <1>4, <1>5, <1>6, <1>7 DEF QueueInv

\* The queue is right once an event was handled.
LEMMA QueueHandled ==
    ASSUME ClusterInv, QueueInv, Handled
    PROVE  QueueInv'
<1>1. /\ queue' \in Seq(Events) /\ Len(queue) \in Nat /\ Len(queue') = Len(queue) - 1
      /\ \A i \in Idx' : i \in Nat /\ i >= 1 /\ i + 1 \in Idx /\ queue'[i] = queue[i + 1]
  BY HandledQueue
<1>2. /\ watching' = TRUE /\ stopping' \in BOOLEAN /\ gaps' \in 0..MaxGaps
      /\ alive' = alive /\ rev' = rev /\ born' = born
  BY DEF Handled, QueueInv, cluster
<1>3. \A i \in Idx' :
          /\ queue'[i].rev >= 1 /\ queue'[i].rev <= rev'[queue'[i].obj] /\ born'[queue'[i].obj] >= 1
          /\ (queue'[i].obj \in alive' => queue'[i].type # "Deleted")
  BY <1>1, <1>2 DEF QueueInv
<1>4. \A i, j \in Idx' : i < j => i + 1 < j + 1 BY <1>1
<1>5. \A i, j \in Idx' : i < j /\ (NameAt(i) = NameAt(j))' => queue'[i].rev < queue'[j].rev
  <2> TAKE i, j \in Idx'
  <2> HAVE i < j /\ (NameAt(i) = NameAt(j))'
  <2>1. /\ i + 1 \in Idx /\ j + 1 \in Idx /\ i + 1 < j + 1
        /\ queue'[i] = queue[i + 1] /\ queue'[j] = queue[j + 1]
    BY <1>1, <1>4
  <2>2. NameAt(i + 1) = NameAt(j + 1) BY <2>1 DEF NameAt
  <2> QED BY <2>1, <2>2 DEF QueueInv
<1>6. \A i, j \in Idx' : queue'[i].type = "Added" /\ queue'[j].obj = queue'[i].obj => i <= j
  <2>1. \A i, j \in Idx' : i + 1 <= j + 1 => i <= j BY <1>1
  <2> QED BY <1>1, <2>1 DEF QueueInv
<1>7. ASSUME NEW i \in Idx', queue'[i].obj \notin alive'
      PROVE  \E j \in i..Len(queue') : queue'[j].type = "Deleted" /\ queue'[j].obj = queue'[i].obj
  <2>1. i + 1 \in Idx /\ queue'[i] = queue[i + 1] /\ i \in Nat /\ i >= 1 BY <1>1
  <2>2. PICK k \in (i + 1)..Len(queue) : queue[k].type = "Deleted" /\ queue[k].obj = queue[i + 1].obj
    BY <1>2, <1>7, <2>1 DEF QueueInv
  <2>3. k - 1 \in i..Len(queue') /\ k - 1 \in Idx' BY <1>1, <2>1, <2>2 DEF Idx
  <2>4. queue'[k - 1] = queue[k]
    <3>1. queue'[k - 1] = queue[(k - 1) + 1] BY <1>1, <2>3
    <3>2. (k - 1) + 1 = k BY <2>1, <2>2
    <3> QED BY <3>1, <3>2
  <2> QED BY <2>1, <2>2, <2>3, <2>4
<1>8. watching' \in BOOLEAN BY <1>2
<1> QED BY <1>1, <1>2, <1>3, <1>5, <1>6, <1>7, <1>8 DEF QueueInv

\* The queue is right once a watch ended.
LEMMA QueueEnded ==
    ASSUME QueueInv, Ended
    PROVE  QueueInv'
<1>1. queue' = <<>> /\ watching' \in BOOLEAN BY DEF Ended
<1>2. stopping' \in BOOLEAN BY DEF Ended, QueueInv
<1>3. gaps' \in 0..MaxGaps BY BoundsAssumption DEF Ended, QueueInv
<1> QED BY <1>1, <1>2, <1>3, QueueEmpty

-----------------------------------------------------------------------------
(* The collector's own state.                                               *)

DictInv ==
    /\ last \in 0..clock /\ nextId \in Nat \ {0}
    /\ DOMAIN dm \subseteq 0..(nextId - 1)
    /\ \A d \in DOMAIN dm : dm[d].obj \in Objects /\ dm[d].rev \in 1..clock
                            /\ dm[d] \in [obj : Objects, rev : 1..clock]
ReportInv ==
    /\ DOMAIN cronIds \subseteq Objects
    /\ specIds \in [Objects -> SUBSET (0..(nextId - 1))]
    /\ \A o \in DOMAIN cronIds : cronIds[o] \in specIds[o]
    /\ told \in [Names -> [rev : Nat, there : BOOLEAN]]

\* The identifiers in use are those given, and one that a cron job has in this
\* watch was reported of it.
CollectorInv == DictInv /\ ReportInv

\* The event a handler gets.
LEMMA HandledEvent ==
    ASSUME ClusterInv, QueueInv, Handled
    PROVE  /\ Head1.obj \in Objects /\ Head1.type \in EventTypes /\ Head1.rev \in 1..clock
           /\ Head1.rev \in Nat /\ NameOf[Head1.obj] \in Names
           /\ Entry(Head1) \in [obj : Objects, rev : 1..clock]
           /\ Entry(Head1).obj = Head1.obj /\ Entry(Head1).rev = Head1.rev
           /\ Head1.rev <= rev[Head1.obj] /\ born[Head1.obj] >= 1
<1>1. 1 \in Idx /\ Head1 = queue[1] BY HandledQueue
<1>2. /\ Head1.obj \in Objects /\ Head1.type \in EventTypes /\ Head1.rev \in Nat
      /\ NameOf[Head1.obj] \in Names
  BY <1>1, QueuedEvent DEF NameAt
<1>3. Head1.rev >= 1 /\ Head1.rev <= rev[Head1.obj] /\ born[Head1.obj] >= 1
  BY <1>1 DEF QueueInv
<1>4. Head1.rev \in 1..clock
  <2>1. rev[Head1.obj] \in Nat /\ rev[Head1.obj] <= clock /\ clock \in Nat
    BY <1>2 DEF ClusterInv
  <2> QED BY <1>2, <1>3, <2>1
<1> QED BY <1>2, <1>3, <1>4 DEF Entry

\* What an event can do to the dictionary.
DictKept == dm' = dm
DictAdds == dm' = Added(Head1) /\ nextId' = nextId + 1
DictRewrites == \E d \in Hits(Head1) : dm' = [dm EXCEPT ![d] = Entry(Head1)]
DictRemoves == \E d \in Hits(Head1) : dm' = [x \in DOMAIN dm \ {d} |-> dm[x]]

\* Every handler does one of these to it.
LEMMA DictEffect ==
    ASSUME Handled, Skips \/ AddsObject \/ UpdatesObject \/ RemovesObject \/ CronJob
    PROVE  \/ DictKept /\ nextId' \in {nextId, nextId + 1}
           \/ DictAdds
           \/ (DictRewrites \/ DictRemoves) /\ nextId' = nextId
<1>1. CASE Skips BY <1>1 DEF Skips, collector, DictKept
<1>2. CASE AddsObject BY <1>2 DEF AddsObject, DictAdds
<1>3. CASE UpdatesObject BY <1>3 DEF UpdatesObject, Rewritten, DictRewrites, DictKept
<1>4. CASE RemovesObject BY <1>4 DEF RemovesObject, Removed, DictRemoves, DictKept
<1>5. CASE CronJob
  BY <1>5 DEF CronJob, DictKept, CronJobAdded, CronJobModified, CronJobDeleted
<1> QED BY <1>1, <1>2, <1>3, <1>4, <1>5

\* The dictionary after an event.
LEMMA DictHandled ==
    ASSUME ClusterInv, QueueInv, DictInv, Handled,
           Skips \/ AddsObject \/ UpdatesObject \/ RemovesObject \/ CronJob
    PROVE  DictInv'
<1>1. /\ Entry(Head1) \in [obj : Objects, rev : 1..clock]
      /\ Entry(Head1).obj \in Objects /\ Entry(Head1).rev \in 1..clock
  BY HandledEvent
<1>2. last' = last /\ clock' = clock BY DEF Handled, cluster
<1>3. CASE DictKept /\ nextId' \in {nextId, nextId + 1}
  BY <1>2, <1>3 DEF DictInv, DictKept
<1>4. CASE DictAdds
  <2>1. /\ DOMAIN dm' = DOMAIN dm \cup {nextId} /\ nextId' = nextId + 1
        /\ \A d \in DOMAIN dm' : dm'[d] = IF d = nextId THEN Entry(Head1) ELSE dm[d]
    BY <1>4 DEF DictAdds, Added
  <2>2. last' \in 0..clock' /\ nextId' \in Nat \ {0} /\ DOMAIN dm' \subseteq 0..(nextId' - 1)
    BY <1>2, <2>1 DEF DictInv
  <2>3. \A d \in DOMAIN dm' : dm'[d].obj \in Objects /\ dm'[d].rev \in 1..clock'
                              /\ dm'[d] \in [obj : Objects, rev : 1..clock']
    BY <1>1, <1>2, <2>1 DEF DictInv
  <2> QED BY <2>2, <2>3 DEF DictInv
<1>5. CASE DictRewrites /\ nextId' = nextId
  <2>1. PICK d \in Hits(Head1) : dm' = [dm EXCEPT ![d] = Entry(Head1)]
    BY <1>5 DEF DictRewrites
  <2>2. DOMAIN dm' = DOMAIN dm /\ \A x \in DOMAIN dm' : dm'[x] \in {dm[x], Entry(Head1)}
    BY <2>1
  <2> QED BY <1>1, <1>2, <1>5, <2>2 DEF DictInv
<1>6. CASE DictRemoves /\ nextId' = nextId
  <2>1. PICK d \in Hits(Head1) : dm' = [x \in DOMAIN dm \ {d} |-> dm[x]]
    BY <1>6 DEF DictRemoves
  <2>2. DOMAIN dm' \subseteq DOMAIN dm /\ \A x \in DOMAIN dm' : dm'[x] = dm[x]
    BY <2>1
  <2> QED BY <1>2, <1>6, <2>2 DEF DictInv
<1> QED BY <1>3, <1>4, <1>5, <1>6, DictEffect

\* A report of a name.
LEMMA ReportsTypes ==
    ASSUME told \in [Names -> [rev : Nat, there : BOOLEAN]], NEW e, NEW there \in BOOLEAN,
           NameOf[e.obj] \in Names, e.rev \in Nat, Reports(e, there)
    PROVE  /\ told' \in [Names -> [rev : Nat, there : BOOLEAN]]
           /\ told'[NameOf[e.obj]].rev = e.rev /\ told'[NameOf[e.obj]].there = there
           /\ told'[NameOf[e.obj]] = [rev |-> e.rev, there |-> there]
           /\ \A n \in Names : n # NameOf[e.obj] => told'[n] = told[n]
  BY DEF Reports

\* The reports after an event.
LEMMA ReportHandled ==
    ASSUME ClusterInv, QueueInv, CollectorInv, Handled,
           Skips \/ AddsObject \/ UpdatesObject \/ RemovesObject \/ CronJob
    PROVE  ReportInv'
<1>1. Head1.obj \in Objects /\ Head1.rev \in Nat /\ NameOf[Head1.obj] \in Names
  BY HandledEvent
<1>2. Names' = Names BY DEF Names
<1>3. told' \in [Names -> [rev : Nat, there : BOOLEAN]]
  <2>1. CASE told' = told BY <2>1 DEF CollectorInv, ReportInv
  <2>2. CASE Reports(Head1, Head1.type # "Deleted")
    <3>1. (Head1.type # "Deleted") \in BOOLEAN OBVIOUS
    <3> QED BY <1>1, <2>2, <3>1, ReportsTypes DEF CollectorInv, ReportInv
  <2> QED BY <2>1, <2>2, ToldEffect
<1>4. nextId \in Nat \ {0} BY DEF CollectorInv, DictInv
<1>5. CASE UNCHANGED <<cronIds, specIds>>
  <2>1. nextId' \in {nextId, nextId + 1}
    BY DictEffect DEF DictAdds
  <2>2. specIds' \in [Objects -> SUBSET (0..(nextId' - 1))]
    <3>1. 0..(nextId - 1) \subseteq 0..(nextId' - 1)
      <4>1. CASE nextId' = nextId BY <4>1
      <4>2. CASE nextId' = nextId + 1 BY <1>4, <4>2
      <4> QED BY <2>1, <4>1, <4>2
    <3> QED BY <1>5, <3>1 DEF CollectorInv, ReportInv
  <2> QED BY <1>2, <1>3, <1>5, <2>2 DEF CollectorInv, ReportInv
<1>6. CASE CronJobAdded
  <2>1. 0..(nextId - 1) \subseteq 0..(nextId' - 1) /\ nextId \in 0..(nextId' - 1)
    BY <1>4, <1>6 DEF CronJobAdded
  <2>2. specIds' = [specIds EXCEPT ![Head1.obj] = @ \cup {nextId}]
    BY <1>6 DEF CronJobAdded, ReportsId
  <2>3. specIds' \in [Objects -> SUBSET (0..(nextId' - 1))]
    BY <2>1, <2>2 DEF CollectorInv, ReportInv
  <2>4. /\ DOMAIN cronIds' = DOMAIN cronIds \cup {Head1.obj}
        /\ \A o \in DOMAIN cronIds' : cronIds'[o] = IF o = Head1.obj THEN nextId ELSE cronIds[o]
    BY <1>6 DEF CronJobAdded
  <2>5. \A o \in DOMAIN cronIds' : cronIds'[o] \in specIds'[o]
    BY <1>1, <2>2, <2>4 DEF CollectorInv, ReportInv
  <2> QED BY <1>1, <1>2, <1>3, <2>3, <2>4, <2>5 DEF CollectorInv, ReportInv
<1>7. CASE CronJobModified
  <2>1. PodSpecId(Head1.obj) \in 0..(nextId - 1)
    <3>1. 0 \in 0..(nextId - 1) BY <1>4
    <3> QED BY <1>1, <3>1 DEF PodSpecId, CollectorInv, ReportInv
  <2>2. specIds' = [specIds EXCEPT ![Head1.obj] = @ \cup {PodSpecId(Head1.obj)}]
        /\ nextId' = nextId /\ cronIds' = cronIds
    BY <1>7 DEF CronJobModified, ReportsId
  <2>3. specIds' \in [Objects -> SUBSET (0..(nextId' - 1))]
    BY <2>1, <2>2 DEF CollectorInv, ReportInv
  <2>4. \A o \in DOMAIN cronIds' : cronIds'[o] \in specIds'[o]
    BY <2>2 DEF CollectorInv, ReportInv
  <2> QED BY <1>2, <1>3, <2>2, <2>3, <2>4 DEF CollectorInv, ReportInv
<1>8. CASE CronJobDeleted
  <2>1. 0 \in 0..(nextId - 1) BY <1>4
  <2>2. specIds' = [specIds EXCEPT ![Head1.obj] = @ \cup {0}] /\ nextId' = nextId
    BY <1>8 DEF CronJobDeleted, ReportsId
  <2>3. specIds' \in [Objects -> SUBSET (0..(nextId' - 1))]
    BY <2>1, <2>2 DEF CollectorInv, ReportInv
  <2>4. DOMAIN cronIds' = DOMAIN cronIds \ {Head1.obj} /\ \A o \in DOMAIN cronIds' : cronIds'[o] = cronIds[o]
    BY <1>8 DEF CronJobDeleted
  <2>5. \A o \in DOMAIN cronIds' : cronIds'[o] \in specIds'[o]
    BY <2>2, <2>4 DEF CollectorInv, ReportInv
  <2> QED BY <1>2, <1>3, <2>3, <2>4, <2>5 DEF CollectorInv, ReportInv
<1> QED
  BY <1>5, <1>6, <1>7, <1>8
  DEF Skips, AddsObject, UpdatesObject, RemovesObject, CronJob, collector

\* The initial collector.
LEMMA CollectorInit == Init /\ ClusterInv => CollectorInv
<1> SUFFICES ASSUME Init, ClusterInv PROVE CollectorInv OBVIOUS
<1>1. /\ last = 0 /\ nextId = 1 /\ DOMAIN dm = {} /\ DOMAIN cronIds = {}
      /\ specIds = [o \in Objects |-> {}] /\ told = [n \in Names |-> NotTold]
  BY DEF Init, Empty
<1>2. clock \in Nat BY DEF ClusterInv
<1>3. NotTold \in [rev : Nat, there : BOOLEAN] BY DEF NotTold
<1>4. DictInv BY <1>1, <1>2 DEF DictInv
<1>5. specIds \in [Objects -> SUBSET (0..(nextId - 1))] BY <1>1
<1>6. told \in [Names -> [rev : Nat, there : BOOLEAN]] BY <1>1, <1>3
<1>7. ReportInv BY <1>1, <1>5, <1>6 DEF ReportInv
<1> QED BY <1>4, <1>7 DEF CollectorInv

\* What was told once a new state is there: of some names what was not sent yet.
Forgotten(unsent) == [n \in Names |-> IF n \in unsent THEN told[n] ELSE NotTold]

\* The collector's state changes in the handler and with a new state, and the
\* times in it lie in the past.
LEMMA CollectorKept ==
    ASSUME CollectorInv, last' \in 0..clock', clock \in Nat, clock' \in Nat, clock <= clock',
           nextId' = nextId, dm' = dm \/ dm' = Empty, cronIds' = cronIds \/ cronIds' = Empty,
           specIds' = specIds,
           \/ told' = told
           \/ \E unsent \in SUBSET Names : told' = Forgotten(unsent)
    PROVE  CollectorInv'
<1>1. NotTold \in [rev : Nat, there : BOOLEAN] /\ Names' = Names BY DEF NotTold, Names
<1>2. told' \in [Names -> [rev : Nat, there : BOOLEAN]]
  <2>1. CASE told' = told BY <2>1 DEF CollectorInv, ReportInv
  <2>2. CASE \E unsent \in SUBSET Names : told' = Forgotten(unsent)
    BY <1>1, <2>2 DEF Forgotten, CollectorInv, ReportInv
  <2> QED BY <2>1, <2>2
<1>3. ReportInv'
  <2>1. CASE cronIds' = cronIds BY <1>1, <1>2, <2>1 DEF CollectorInv, ReportInv
  <2>2. CASE cronIds' = Empty
    <3>1. DOMAIN cronIds' = {} BY <2>2 DEF Empty
    <3> QED BY <1>1, <1>2, <3>1 DEF CollectorInv, ReportInv
  <2> QED BY <2>1, <2>2
<1>4. DictInv'
  <2>1. CASE dm' = dm
    <3>1. 1..clock \subseteq 1..clock' OBVIOUS
    <3>2. \A d \in DOMAIN dm' : dm'[d].obj \in Objects /\ dm'[d].rev \in 1..clock'
                                /\ dm'[d] \in [obj : Objects, rev : 1..clock']
      BY <2>1, <3>1 DEF CollectorInv, DictInv
    <3> QED BY <2>1, <3>2 DEF CollectorInv, DictInv
  <2>2. CASE dm' = Empty
    <3>1. DOMAIN dm' = {} BY <2>2 DEF Empty
    <3> QED BY <3>1 DEF CollectorInv, DictInv
  <2> QED BY <2>1, <2>2
<1> QED BY <1>3, <1>4 DEF CollectorInv

\* The steps of the specification, by what they do.
LEMMA StepCases ==
    ASSUME [Next]_vars, QueueInv
    PROVE  \/ \E o \in Objects, type \in EventTypes : Emitted(type, o)
           \/ WatchOpens
           \/ OpenFails
           \/ Ended
           \/ StateIsReset
           \/ Handled /\ (Skips \/ AddsObject \/ UpdatesObject \/ RemovesObject \/ CronJob)
           \/ UNCHANGED vars
<1>1. gaps \in 0..MaxGaps /\ MaxGaps \in Nat BY BoundsAssumption DEF QueueInv
<1>2. WatchEnds \/ StopsForNewState => Ended BY <1>1, EndEffect
<1> QED BY <1>2, ClusterEffect, HandlerEffect DEF Next

\* A failed open moves the creation time only.
LEMMA FailEffect ==
    ASSUME OpenFails
    PROVE  /\ ~watching /\ last' \in {last, clock}
           /\ (last' # last => kind = "service" \/ kind \notin AllKinds)
           /\ UNCHANGED <<cluster, channel, nextId, dm, cronIds, specIds, told>>
<1>1. ~watching /\ last' \in {last, clock} /\ ("openFails" \notin Stamps[kind] => last' = last)
      /\ UNCHANGED <<cluster, channel, nextId, dm, cronIds, specIds, told>>
  BY DEF OpenFails, Stamp
<1>2. /\ Stamps["node"] = NodeStamps /\ Stamps["secret"] = SecretStamps
      /\ Stamps["namespace"] = NamespaceStamps /\ Stamps["cronjob"] = CronJobStamps
  BY DEF Stamps
<1>3. kind \in {"node", "secret", "namespace", "cronjob"} => "openFails" \notin Stamps[kind]
  BY <1>2 DEF NodeStamps, SecretStamps, NamespaceStamps, CronJobStamps
<1>4. kind \in {"node", "secret", "namespace", "cronjob"} \/ kind = "service" \/ kind \notin AllKinds
  BY DEF AllKinds
<1> QED BY <1>1, <1>3, <1>4

\* The invariants of the cluster, the queue and the collector, together.
StateInv == ClusterInv /\ QueueInv /\ CollectorInv

\* They hold initially.
LEMMA StateInit == Init => StateInv
  BY ClusterInit, QueueInit, CollectorInit DEF StateInv

\* A step that leaves cluster and watch alone.
LEMMA SameCluster ==
    ASSUME ClusterInv, UNCHANGED cluster
    PROVE  ClusterInv'
<1>1. Names' = Names BY DEF Names
<1> QED BY <1>1 DEF ClusterInv, cluster

\* Nor is the queue wrong if nothing of it and the cluster changes.
LEMMA SameQueue ==
    ASSUME QueueInv, UNCHANGED <<cluster, watching, queue>>, stopping' \in BOOLEAN,
           gaps' \in 0..MaxGaps
    PROVE  QueueInv'
<1>1. Idx' = Idx BY DEF Idx
<1> QED BY <1>1 DEF QueueInv, cluster, NameAt

\* Every step keeps them.
LEMMA StateStep == StateInv /\ [Next]_vars => StateInv'
<1> SUFFICES ASSUME StateInv, [Next]_vars PROVE StateInv' OBVIOUS
<1> USE DEF StateInv
<1>1. clock \in Nat /\ last \in 0..clock BY DEF ClusterInv, CollectorInv, DictInv
<1>2. ASSUME NEW o \in Objects, NEW type \in EventTypes, Emitted(type, o)
      PROVE  StateInv'
  <2>1. clock' \in Nat /\ clock <= clock' /\ last' \in 0..clock' BY <1>1, <1>2 DEF Emitted
  <2>2. CollectorInv' BY <1>1, <1>2, <2>1, CollectorKept DEF Emitted
  <2> QED BY <1>2, <2>2, ClusterEmitted, QueueEmitted
<1>3. CASE WatchOpens
  <2>1. CollectorInv'
    <3>1. last' \in 0..clock' /\ clock' = clock BY <1>1, <1>3 DEF WatchOpens, cluster
    <3> QED BY <1>1, <1>3, <3>1, CollectorKept DEF WatchOpens
  <2> QED BY <1>3, <2>1, QueueOpened, SameCluster DEF WatchOpens
<1>4. CASE OpenFails
  <2>1. UNCHANGED <<cluster, channel, nextId, dm, cronIds, specIds, told>> /\ last' \in {last, clock}
    BY <1>4, FailEffect
  <2>2. last' \in 0..clock' /\ clock' = clock BY <1>1, <2>1 DEF cluster
  <2>3. CollectorInv' BY <1>1, <2>1, <2>2, CollectorKept
  <2>4. stopping' \in BOOLEAN /\ gaps' \in 0..MaxGaps /\ UNCHANGED <<cluster, watching, queue>>
    BY <2>1 DEF QueueInv, channel
  <2> QED BY <2>1, <2>3, <2>4, SameCluster, SameQueue
<1>5. CASE Ended
  <2>1. last' \in {last, clock} BY <1>5 DEF Ended
  <2>2. last' \in 0..clock' /\ clock' = clock BY <1>1, <1>5, <2>1 DEF Ended, cluster
  <2>3. CollectorInv' BY <1>1, <1>5, <2>2, CollectorKept DEF Ended
  <2> QED BY <1>5, <2>3, QueueEnded, SameCluster DEF Ended
<1>6. CASE StateIsReset
  <2>1. last' \in 0..clock' /\ clock' = clock BY <1>1, <1>6 DEF StateIsReset, cluster
  <2>2. CollectorInv' BY <1>1, <1>6, <2>1, CollectorKept DEF StateIsReset, Forgotten
  <2>3. stopping' \in BOOLEAN BY <1>6 DEF StateIsReset
  <2>4. gaps' \in 0..MaxGaps BY <1>6, BoundsAssumption DEF StateIsReset, QueueInv
  <2> QED BY <1>6, <2>2, <2>3, <2>4, SameCluster, SameQueue DEF StateIsReset
<1>7. CASE Handled /\ (Skips \/ AddsObject \/ UpdatesObject \/ RemovesObject \/ CronJob)
  <2>1. CollectorInv' BY <1>7, DictHandled, ReportHandled DEF CollectorInv
  <2> QED BY <1>7, <2>1, QueueHandled, SameCluster DEF Handled
<1>8. CASE UNCHANGED vars
  <2>1. /\ UNCHANGED <<cluster, watching, queue>> /\ UNCHANGED <<stopping, gaps>>
        /\ UNCHANGED <<last, nextId, dm, cronIds, specIds, told>>
    BY <1>8 DEF vars, channel, collector
  <2>2. CollectorInv' BY <1>1, <2>1, CollectorKept DEF cluster
  <2> QED BY <2>1, <2>2, SameCluster, SameQueue DEF QueueInv
<1> QED BY <1>2, <1>3, <1>4, <1>5, <1>6, <1>7, <1>8, StepCases

\* So they always hold.
LEMMA StateAlways == Spec => []StateInv
<1> USE StateInit, StateStep
<1> QED BY PTL DEF Spec

-----------------------------------------------------------------------------
(* What was reported of a name, and its types.                              *)

\* What was last said of a name was so, and nothing queued of it is older.
ToldInv ==
    /\ \A n \in Names : \E p \in Objects : NameOf[p] = n /\ told[n].rev <= rev[p]
    /\ \A i \in Idx : told[NameAt(i)].rev <= queue[i].rev

\* In the beginning nothing is reported and nothing queued.
LEMMA ToldInit == Init => ToldInv
<1> SUFFICES ASSUME Init PROVE ToldInv OBVIOUS
<1>1. Idx = {} BY DEF Init, Idx
<1>2. \A n \in Names : told[n].rev = 0 BY DEF Init, NotTold
<1>3. \A p \in Objects : rev[p] \in Nat BY ClusterInit DEF ClusterInv
<1> QED BY <1>1, <1>2, <1>3 DEF ToldInv, Names

\* What is known of reported revisions.
LEMMA ToldTypes ==
    ASSUME StateInv, ToldInv, NEW n \in Names
    PROVE  /\ told[n] \in [rev : Nat, there : BOOLEAN] /\ told[n].rev \in Nat
           /\ told[n].rev <= clock /\ clock \in Nat
<1>1. told[n] \in [rev : Nat, there : BOOLEAN] BY DEF StateInv, CollectorInv, ReportInv
<1>2. PICK p \in Objects : told[n].rev <= rev[p] BY DEF ToldInv
<1>3. rev[p] \in Nat /\ rev[p] <= clock /\ clock \in Nat BY DEF StateInv, ClusterInv
<1> QED BY <1>1, <1>2, <1>3

\* A step that reports nothing, or forgets the reports, and queues nothing.
LEMMA ToldKept ==
    ASSUME StateInv, ToldInv,
           told' = told \/ \E unsent \in SUBSET Names : told' = Forgotten(unsent),
           rev' = rev, queue' = queue \/ queue' = <<>>
    PROVE  ToldInv'
<1>1. Names' = Names BY DEF Names
<1>2. \A n \in Names : told'[n].rev <= told[n].rev /\ told'[n].rev \in Nat
  <2> TAKE n \in Names
  <2>1. told[n].rev \in Nat BY ToldTypes
  <2> QED BY <2>1 DEF NotTold, Forgotten
<1>3. ASSUME NEW n \in Names
      PROVE  \E p \in Objects : NameOf[p] = n /\ told'[n].rev <= rev'[p]
  <2>1. PICK p \in Objects : NameOf[p] = n /\ told[n].rev <= rev[p] BY DEF ToldInv
  <2>2. rev[p] \in Nat /\ told[n].rev \in Nat BY ToldTypes DEF StateInv, ClusterInv
  <2> QED BY <1>2, <2>1, <2>2
<1>4. ASSUME NEW i \in Idx'
      PROVE  told'[(NameAt(i))'].rev <= queue'[i].rev
  <2>1. i \in Idx /\ queue' = queue BY DEF Idx
  <2>2. (NameAt(i))' = NameAt(i) BY <2>1 DEF NameAt
  <2>3. told[NameAt(i)].rev <= queue[i].rev BY <2>1 DEF ToldInv
  <2>4. queue[i].rev \in Nat /\ NameAt(i) \in Names BY <2>1, QueuedEvent DEF StateInv
  <2>5. told[NameAt(i)].rev \in Nat BY <2>4, ToldTypes
  <2> QED BY <1>2, <2>1, <2>2, <2>3, <2>4, <2>5
<1> QED BY <1>1, <1>3, <1>4 DEF ToldInv

\* A change of the cluster is newer than every report.
LEMMA ToldEmitted ==
    ASSUME StateInv, ToldInv, NEW o \in Objects, NEW type \in EventTypes, Emitted(type, o)
    PROVE  ToldInv'
<1>1. /\ rev \in [Objects -> Nat] /\ clock \in Nat /\ \A p \in Objects : rev[p] <= clock
      /\ QueueInv
  BY DEF StateInv, ClusterInv
<1>2. \A p \in Objects : rev[p] <= rev'[p] BY <1>1 DEF Emitted
<1>3. told' = told /\ Names' = Names BY DEF Emitted, Names
<1>4. \A p \in Objects : rev[p] \in Nat /\ rev'[p] \in Nat BY <1>1 DEF Emitted
<1>5. ASSUME NEW n \in Names
      PROVE  \E p \in Objects : NameOf[p] = n /\ told'[n].rev <= rev'[p]
  <2>1. PICK p \in Objects : NameOf[p] = n /\ told[n].rev <= rev[p] BY DEF ToldInv
  <2>2. told[n].rev \in Nat BY ToldTypes
  <2> QED BY <1>2, <1>3, <1>4, <2>1, <2>2
<1>6. ASSUME NEW i \in Idx'
      PROVE  told'[(NameAt(i))'].rev <= queue'[i].rev
  <2>1. CASE watching
    <3>1. /\ queue'[Len(queue) + 1].obj = o /\ queue'[Len(queue) + 1].rev = clock + 1
          /\ \A j \in Idx : queue'[j] = queue[j]
          /\ Idx' = Idx \cup {Len(queue) + 1}
      BY <1>1, <2>1, AppendedEvent
    <3>2. CASE i \in Idx BY <1>3, <3>1, <3>2 DEF ToldInv, NameAt
    <3>3. CASE i = Len(queue) + 1
      <4>1. (NameAt(i))' = NameOf[o] /\ NameOf[o] \in Names BY <3>1, <3>3 DEF NameAt, Names
      <4>2. told[NameOf[o]].rev \in Nat /\ told[NameOf[o]].rev <= clock BY <4>1, ToldTypes
      <4> QED BY <1>1, <1>3, <3>1, <3>3, <4>1, <4>2
    <3> QED BY <3>1, <3>2, <3>3
  <2>2. CASE ~watching
    <3>1. queue = <<>> /\ queue' = queue BY <1>1, <2>2 DEF QueueInv, Emitted
    <3> QED BY <3>1 DEF Idx
  <2> QED BY <2>1, <2>2
<1> QED BY <1>3, <1>5, <1>6 DEF ToldInv

\* A new watch has the newest revisions.
LEMMA ToldOpened ==
    ASSUME StateInv, ToldInv, WatchOpens
    PROVE  ToldInv'
<1>1. told' = told /\ rev' = rev /\ Names' = Names BY DEF WatchOpens, cluster, Names
<1>2. ASSUME NEW i \in Idx'
      PROVE  told'[(NameAt(i))'].rev <= queue'[i].rev
  <2> DEFINE o == queue'[i].obj
  <2>1. o \in alive /\ queue'[i].rev = rev[o] BY OpenedQueue DEF StateInv
  <2>2. o \in Objects /\ NameOf[o] \in Names BY <2>1 DEF StateInv, ClusterInv, Names
  <2>3. PICK p \in Objects : NameOf[p] = NameOf[o] /\ told[NameOf[o]].rev <= rev[p]
    BY <2>2 DEF ToldInv
  <2>4. rev[p] <= rev[o] /\ rev[p] \in Nat /\ rev[o] \in Nat
    BY <2>1, <2>2, <2>3 DEF StateInv, ClusterInv
  <2>5. told[NameOf[o]].rev \in Nat BY <2>2, ToldTypes
  <2>6. (NameAt(i))' = NameOf[o] BY DEF NameAt
  <2> HIDE DEF o
  <2> QED BY <1>1, <2>1, <2>3, <2>4, <2>5, <2>6
<1> QED BY <1>1, <1>2 DEF ToldInv

\* A handled event is reported as the newest of its name so far, or not at all.
LEMMA ToldHandled ==
    ASSUME StateInv, ToldInv, Handled,
           Skips \/ AddsObject \/ UpdatesObject \/ RemovesObject \/ CronJob
    PROVE  ToldInv'
<1>1. ClusterInv /\ QueueInv BY DEF StateInv
<1>2. rev' = rev /\ Names' = Names BY DEF Handled, cluster, Names
<1>3. /\ 1 \in Idx /\ Head1 = queue[1]
      /\ \A i \in Idx' : i \in Nat /\ i >= 1 /\ i + 1 \in Idx /\ queue'[i] = queue[i + 1]
  BY <1>1, HandledQueue
<1>4. /\ Head1.obj \in Objects /\ Head1.rev \in Nat /\ NameOf[Head1.obj] \in Names
      /\ Head1.rev <= rev[Head1.obj]
  BY <1>1, HandledEvent
<1>5. \A i \in Idx' : /\ (NameAt(i))' = NameAt(i + 1) /\ told[NameAt(i + 1)].rev <= queue'[i].rev
                      /\ (NameAt(i + 1) = NameOf[Head1.obj] => Head1.rev < queue'[i].rev)
  <2> TAKE i \in Idx'
  <2>1. i + 1 \in Idx /\ queue'[i] = queue[i + 1] /\ 1 < i + 1 BY <1>3
  <2>2. (NameAt(i))' = NameAt(i + 1) BY <2>1 DEF NameAt
  <2>3. NameAt(1) = NameOf[Head1.obj] BY <1>3 DEF NameAt
  <2>4. NameAt(1) = NameAt(i + 1) => queue[1].rev < queue[i + 1].rev
    BY <1>1, <1>3, <2>1 DEF QueueInv
  <2> QED BY <1>3, <2>1, <2>2, <2>3, <2>4 DEF ToldInv
<1>6. CASE told' = told BY <1>2, <1>5, <1>6 DEF ToldInv
<1>7. CASE Reports(Head1, Head1.type # "Deleted")
  <2>1. (Head1.type # "Deleted") \in BOOLEAN OBVIOUS
  <2>2. /\ told'[NameOf[Head1.obj]].rev = Head1.rev
        /\ \A n \in Names : n # NameOf[Head1.obj] => told'[n] = told[n]
    BY <1>4, <1>7, <2>1, ReportsTypes DEF StateInv, CollectorInv, ReportInv
  <2>3. \A n \in Names : \E p \in Objects : NameOf[p] = n /\ told'[n].rev <= rev'[p]
    BY <1>2, <1>4, <2>2 DEF ToldInv
  <2>4. ASSUME NEW i \in Idx'
        PROVE  told'[(NameAt(i))'].rev <= queue'[i].rev
    <3>1. i + 1 \in Idx /\ queue'[i] = queue[i + 1] BY <1>3
    <3>2. NameAt(i + 1) \in Names /\ queue'[i].rev \in Nat BY <1>1, <3>1, QueuedEvent
    <3>3. CASE NameAt(i + 1) = NameOf[Head1.obj] BY <1>4, <1>5, <2>2, <3>2, <3>3
    <3>4. CASE NameAt(i + 1) # NameOf[Head1.obj] BY <1>5, <2>2, <3>2, <3>4
    <3> QED BY <3>3, <3>4
  <2> QED BY <1>2, <2>3, <2>4 DEF ToldInv
<1> QED BY <1>6, <1>7, ToldEffect

\* Every step keeps it.
LEMMA ToldStep == StateInv /\ ToldInv /\ [Next]_vars => ToldInv'
<1> SUFFICES ASSUME StateInv, ToldInv, [Next]_vars PROVE ToldInv' OBVIOUS
<1>1. ASSUME NEW o \in Objects, NEW type \in EventTypes, Emitted(type, o)
      PROVE  ToldInv'
  BY <1>1, ToldEmitted
<1>2. CASE WatchOpens BY <1>2, ToldOpened
<1>3. CASE OpenFails
  BY <1>3, FailEffect, ToldKept DEF cluster, channel
<1>4. CASE Ended BY <1>4, ToldKept DEF Ended, cluster
<1>5. CASE StateIsReset BY <1>5, ToldKept DEF StateIsReset, Forgotten, cluster
<1>6. CASE Handled /\ (Skips \/ AddsObject \/ UpdatesObject \/ RemovesObject \/ CronJob)
  BY <1>6, ToldHandled
<1>7. CASE UNCHANGED vars
  BY <1>7, ToldKept DEF vars, cluster, channel, collector
<1> QED BY <1>1, <1>2, <1>3, <1>4, <1>5, <1>6, <1>7, StepCases DEF StateInv

\* The types of all that is kept, and of all that is queued.
LEMMA TypesFollow == StateInv /\ ToldInv => TypeOK
<1> SUFFICES ASSUME StateInv, ToldInv PROVE TypeOK OBVIOUS
<1>1. ClusterInv /\ QueueInv /\ DictInv /\ ReportInv BY DEF StateInv, CollectorInv
<1>2. kind \in Kinds /\ alive \subseteq Objects /\ clock \in 1..MaxChanges /\ clock \in Nat
  BY <1>1, BoundsAssumption DEF ClusterInv
<1>3. /\ rev \in [Objects -> Nat] /\ born \in [Objects -> Nat]
      /\ \A o \in Objects : born[o] <= rev[o] /\ rev[o] <= clock
  BY <1>1 DEF ClusterInv
<1>4. born \in [Objects -> 0..clock] /\ rev \in [Objects -> 0..clock]
  <2>1. \A o \in Objects : rev[o] \in 0..clock /\ born[o] \in 0..clock BY <1>2, <1>3
  <2> QED BY <1>3, <2>1
<1>5. watching \in BOOLEAN /\ stopping \in BOOLEAN /\ gaps \in 0..MaxGaps BY <1>1 DEF QueueInv
<1>6. \A i \in DOMAIN queue : queue[i] \in
          [type : {"Added", "Modified", "Deleted"}, obj : Objects, rev : 1..clock]
  <2>1. DOMAIN queue = Idx BY <1>1 DEF QueueInv, Idx
  <2> SUFFICES ASSUME NEW i \in Idx
               PROVE  queue[i] \in [type : EventTypes, obj : Objects, rev : 1..clock]
    BY <2>1 DEF EventTypes
  <2>2. queue[i] \in Events /\ queue[i].obj \in Objects /\ queue[i].rev \in Nat
    BY <1>1, QueuedEvent
  <2>3. queue[i].rev >= 1 /\ queue[i].rev <= rev[queue[i].obj] BY <1>1 DEF QueueInv
  <2>4. rev[queue[i].obj] \in Nat /\ rev[queue[i].obj] <= clock BY <1>3, <2>2
  <2>5. queue[i].rev \in 1..clock BY <1>2, <2>2, <2>3, <2>4
  <2> QED BY <2>2, <2>5 DEF Events
<1>7. last \in 0..clock /\ nextId \in Nat /\ DOMAIN dm \subseteq 0..(nextId - 1) BY <1>1 DEF DictInv
<1>8. \A i \in DOMAIN dm : dm[i] \in [obj : Objects, rev : 1..clock] BY <1>1 DEF DictInv
<1>9. DOMAIN cronIds \subseteq Objects BY <1>1 DEF ReportInv
<1>10. \A o \in DOMAIN cronIds : cronIds[o] \in 0..(nextId - 1) BY <1>1, <1>9 DEF ReportInv
<1>11. specIds \in [Objects -> SUBSET (0..nextId)]
  <2>1. 0..(nextId - 1) \subseteq 0..nextId BY <1>7
  <2> QED BY <1>1, <2>1 DEF ReportInv
<1>12. told \in [Names -> [rev : 0..clock, there : BOOLEAN]]
  <2>1. told \in [Names -> [rev : Nat, there : BOOLEAN]] BY <1>1 DEF ReportInv
  <2>2. \A n \in Names : told[n] \in [rev : 0..clock, there : BOOLEAN]
    <3> TAKE n \in Names
    <3>1. told[n] \in [rev : Nat, there : BOOLEAN] /\ told[n].rev \in 0..clock BY ToldTypes
    <3> QED BY <3>1
  <2> QED BY <2>1, <2>2
<1> QED BY <1>2, <1>4, <1>5, <1>6, <1>7, <1>8, <1>9, <1>10, <1>11, <1>12 DEF TypeOK

\* So it always holds.
LEMMA ToldAlways == Spec => [](StateInv /\ ToldInv)
<1> USE StateInit, StateStep, ToldInit, ToldStep
<1> QED BY PTL DEF Spec

\* What is kept and queued has its types: remembered times have been, the
\* identifiers in use were given by CreateID, and nobody is told of a revision
\* to come.
THEOREM TypeCorrect == Spec => []TypeOK
<1>1. StateInv /\ ToldInv => TypeOK BY TypesFollow
<1> QED BY <1>1, ToldAlways, PTL

-----------------------------------------------------------------------------
(* The reports implement ClusterMirror.                                     *)

now == [n \in Names |-> Last(n)]
toldRev == [n \in Names |-> told[n].rev]

\* The last revision of a name is that of one of its objects, and of none less.
LastIsNewest ==
    \A n \in Names : /\ Last(n) \in Nat
                     /\ \E p \in Objects : NameOf[p] = n /\ Last(n) = rev[p]
                     /\ \A q \in Objects : NameOf[q] = n => rev[q] <= Last(n)

\* The CHOOSE of Last has something to choose.
LEMMA NewestExists == ClusterInv => LastIsNewest
<1> SUFFICES ASSUME ClusterInv, NEW n \in Names
             PROVE  /\ Last(n) \in Nat
                    /\ \E p \in Objects : NameOf[p] = n /\ Last(n) = rev[p]
                    /\ \A q \in Objects : NameOf[q] = n => rev[q] <= Last(n)
  BY DEF LastIsNewest
<1> DEFINE revs == {rev[o] : o \in {p \in Objects : NameOf[p] = n}}
<1>1. PICK p \in Objects : NameOf[p] = n /\ \A q \in Objects : NameOf[q] = n => rev[q] <= rev[p]
  BY DEF ClusterInv
<1>2. rev[p] \in revs /\ \A s \in revs : s <= rev[p] BY <1>1
<1>3. Last(n) \in revs /\ \A s \in revs : s <= Last(n)
  <2>1. Last(n) = CHOOSE r \in revs : \A s \in revs : s <= r BY DEF Last
  <2> HIDE DEF revs
  <2> QED BY <1>2, <2>1
<1>4. \E o \in Objects : NameOf[o] = n /\ Last(n) = rev[o] BY <1>3
<1>5. \A q \in Objects : NameOf[q] = n => rev[q] \in revs OBVIOUS
<1> HIDE DEF revs
<1> QED BY <1>3, <1>4, <1>5 DEF ClusterInv

\* Two last revisions are equal when the cluster did not change.
LEMMA SameNow == UNCHANGED cluster => now' = now
  BY DEF cluster, now, Last, Names

\* The initial states are initial states of ClusterMirror.
LEMMA MirrorStarts == Init => Mirror!Init
<1> SUFFICES ASSUME Init PROVE Mirror!Init OBVIOUS
<1>1. now \in [Names -> Nat] BY ClusterInit, NewestExists DEF LastIsNewest, now
<1>2. toldRev = [n \in Names |-> 0] BY DEF toldRev, Init, NotTold
<1> QED BY <1>1, <1>2 DEF Mirror!Init, Mirror!Nothing, now, toldRev

\* A step of the cluster changes one name, to something newer.
LEMMA EmittedIsChange ==
    ASSUME StateInv, StateInv', NEW o \in Objects, NEW type \in EventTypes, Emitted(type, o)
    PROVE  \E n \in Names : Mirror!Change(n)
<1> DEFINE n == NameOf[o]
<1>1. n \in Names BY DEF Names
<1>2. LastIsNewest BY NewestExists DEF StateInv
<1>3. ClusterInv' => LastIsNewest' BY NewestExists, PTL
<1>4. LastIsNewest' BY <1>3 DEF StateInv
<1>5. /\ rev \in [Objects -> Nat] /\ clock \in Nat /\ \A p \in Objects : rev[p] <= clock
      /\ rev'[o] = clock + 1 /\ \A p \in Objects : p # o => rev'[p] = rev[p]
  BY DEF StateInv, ClusterInv, Emitted
<1>6. Names' = Names BY DEF Names
<1>7. now'[n] > now[n]
  <2>1. Last(n) <= clock /\ Last(n) \in Nat BY <1>1, <1>2, <1>5 DEF LastIsNewest
  <2>2. (Last(n))' >= clock + 1 /\ (Last(n))' \in Nat BY <1>1, <1>4, <1>5, <1>6 DEF LastIsNewest
  <2> QED BY <1>1, <1>5, <1>6, <2>1, <2>2 DEF now
<1>8. \A m \in Names : m # n => (Last(m))' = Last(m)
  <2> TAKE m \in Names
  <2> HAVE m # n
  <2>1. \A p \in Objects : NameOf[p] = m => rev'[p] = rev[p] BY <1>5
  <2>2. PICK p \in Objects : NameOf[p] = m /\ Last(m) = rev[p] BY <1>2 DEF LastIsNewest
  <2>3. PICK q \in Objects : NameOf[q] = m /\ (Last(m))' = rev'[q]
    BY <1>4, <1>6 DEF LastIsNewest
  <2>4. rev[q] <= Last(m) BY <1>2, <2>3 DEF LastIsNewest
  <2>5. rev'[p] <= (Last(m))' BY <1>4, <1>6, <2>2 DEF LastIsNewest
  <2>6. (Last(m))' = rev[q] /\ Last(m) <= (Last(m))' BY <2>1, <2>2, <2>3, <2>5
  <2>7. Last(m) \in Nat /\ (Last(m))' \in Nat BY <1>2, <1>4, <1>6 DEF LastIsNewest
  <2> QED BY <2>4, <2>6, <2>7
<1>9. now' = [now EXCEPT ![n] = now'[n]]
  <2> HIDE DEF n
  <2> QED BY <1>1, <1>6, <1>8 DEF now
<1>10. toldRev' = toldRev BY <1>6 DEF Emitted, toldRev
<1> QED BY <1>1, <1>7, <1>9, <1>10 DEF Mirror!Change, now, toldRev

\* A handled event tells of its name what was true of it, or nothing new.
LEMMA HandledIsTell ==
    ASSUME StateInv, ToldInv, Handled,
           Skips \/ AddsObject \/ UpdatesObject \/ RemovesObject \/ CronJob
    PROVE  (\E n \in Names : Mirror!Tell(n)) \/ (now' = now /\ toldRev' = toldRev)
<1>1. now' = now /\ Names' = Names BY SameNow DEF Handled, Names
<1>2. CASE told' = told BY <1>1, <1>2 DEF toldRev
<1>3. CASE Reports(Head1, Head1.type # "Deleted")
  <2> DEFINE n == NameOf[Head1.obj]
  <2>1. n \in Names /\ Head1.obj \in Objects /\ Head1.rev \in Nat /\ Head1.rev <= rev[Head1.obj]
    BY HandledEvent DEF StateInv
  <2>2. (Head1.type # "Deleted") \in BOOLEAN OBVIOUS
  <2>3. told'[n].rev = Head1.rev /\ \A m \in Names : m # n => told'[m] = told[m]
    BY <1>3, <2>1, <2>2, ReportsTypes DEF StateInv, CollectorInv, ReportInv
  <2>4. 1 \in Idx /\ Head1 = queue[1] /\ n = NameAt(1) BY HandledQueue DEF StateInv, NameAt
  <2>5. told[n].rev <= Head1.rev BY <2>4 DEF ToldInv
  <2>6. told[n].rev \in Nat BY <2>1, ToldTypes
  <2>7. rev[Head1.obj] <= Last(n) /\ Last(n) \in Nat /\ rev[Head1.obj] \in Nat
    BY <2>1, NewestExists DEF LastIsNewest, StateInv, ClusterInv
  <2> HIDE DEF n
  <2>8. toldRev' = [toldRev EXCEPT ![n] = toldRev'[n]]
        /\ toldRev'[n] = Head1.rev /\ toldRev[n] = told[n].rev /\ now[n] = Last(n)
    BY <1>1, <2>1, <2>3 DEF toldRev, now
  <2>9. CASE told[n].rev = Head1.rev
    <3>1. toldRev' = toldRev BY <1>1, <2>1, <2>3, <2>9 DEF toldRev
    <3> QED BY <1>1, <3>1
  <2>10. CASE told[n].rev # Head1.rev
    <3>1. toldRev'[n] \in (toldRev[n] + 1)..now[n]
      BY <2>1, <2>5, <2>6, <2>7, <2>8, <2>10
    <3> QED BY <1>1, <2>1, <2>8, <3>1 DEF Mirror!Tell, now, toldRev
  <2> QED BY <2>9, <2>10
<1> QED BY <1>2, <1>3, ToldEffect

\* Every step is a step of ClusterMirror, or changes nothing in it.
LEMMA MirrorSteps ==
    StateInv /\ StateInv' /\ ToldInv /\ [Next]_vars => [Mirror!Next]_<<now, toldRev>>
<1> SUFFICES ASSUME StateInv, StateInv', ToldInv, [Next]_vars
             PROVE  Mirror!Next \/ UNCHANGED <<now, toldRev>>
  OBVIOUS
<1>1. ASSUME NEW o \in Objects, NEW type \in EventTypes, Emitted(type, o)
      PROVE  Mirror!Next
  BY <1>1, EmittedIsChange DEF Mirror!Next
<1>2. UNCHANGED <<cluster, told>> => UNCHANGED <<now, toldRev>>
  BY SameNow DEF toldRev, Names
<1>3. CASE WatchOpens BY <1>2, <1>3 DEF WatchOpens
<1>4. CASE OpenFails BY <1>2, <1>4, FailEffect
<1>5. CASE Ended BY <1>2, <1>5 DEF Ended
<1>6. CASE StateIsReset
  <2>1. now' = now BY <1>6, SameNow DEF StateIsReset
  <2>2. PICK unsent \in SUBSET Names : told' = Forgotten(unsent)
    BY <1>6 DEF StateIsReset, Forgotten
  <2>3. \A n \in Names : told[n].rev \in Nat BY ToldTypes
  <2>4. toldRev' = [n \in Names |-> IF n \in unsent THEN told[n].rev ELSE 0]
    BY <2>2 DEF toldRev, Forgotten, NotTold, Names
  <2>5. Mirror!StartOver BY <2>1, <2>3, <2>4 DEF Mirror!StartOver, now, toldRev
  <2> QED BY <2>5 DEF Mirror!Next
<1>7. CASE Handled /\ (Skips \/ AddsObject \/ UpdatesObject \/ RemovesObject \/ CronJob)
  BY <1>7, HandledIsTell DEF Mirror!Next
<1>8. CASE UNCHANGED vars BY <1>2, <1>8 DEF vars, collector
<1> QED BY <1>1, <1>3, <1>4, <1>5, <1>6, <1>7, <1>8, StepCases DEF StateInv

\* Whatever is updated, reused or watched again, what is reported of a name was
\* true of it and is never followed by something older, until a first report
\* starts over; what was not sent before is in that report.
THEOREM MirrorIsImplemented == Spec => MirrorImplemented
<1>1. Init => Mirror!Init BY MirrorStarts
<1>2. StateInv /\ StateInv' /\ ToldInv /\ [Next]_vars
        => [Mirror!Next]_<<[n \in Names |-> Last(n)], [n \in Names |-> told[n].rev]>>
  BY MirrorSteps DEF now, toldRev
<1> QED BY <1>1, <1>2, ToldAlways, PTL DEF Spec, MirrorImplemented, Mirror!Spec

-----------------------------------------------------------------------------
(* The identifiers of cron jobs.                                            *)

HasId(o) == \E i \in specIds[o] : i # 0

\* Only cron jobs that were created are reported with an identifier.  One that
\* has its identifier is not added again: it is older than the last end of a
\* watch, or has been added in this one.
IdInv ==
    /\ kind # "cronjob" => \A o \in Objects : specIds[o] = {}
    /\ \A o \in Objects : HasId(o) =>
          /\ born[o] >= 1
          /\ \/ born[o] <= last
             \/ watching /\ \A i \in Idx : queue[i].type = "Added" => queue[i].obj # o
    /\ \A o \in Objects : \A i, j \in specIds[o] : i # 0 /\ j # 0 => i = j
    /\ \A o, p \in Objects : \A i \in specIds[o] : i \in specIds[p] /\ i # 0 => o = p

\* In the beginning nobody has an identifier.
LEMMA IdInit == Init => IdInv
<1> SUFFICES ASSUME Init PROVE IdInv OBVIOUS
<1>1. \A o \in Objects : specIds[o] = {} BY DEF Init
<1> QED BY <1>1 DEF IdInv, HasId

\* A step that gives no identifier keeps this if nobody who has one is added.
LEMMA IdKept ==
    ASSUME IdInv, UNCHANGED <<kind, specIds>>,
           \A o \in Objects : HasId(o) =>
              /\ born'[o] >= 1
              /\ \/ born'[o] <= last'
                 \/ watching' /\ \A i \in Idx' : queue'[i].type = "Added" => queue'[i].obj # o
    PROVE  IdInv'
<1>1. \A o \in Objects : HasId(o)' <=> HasId(o) BY DEF HasId
<1>2. \A o \in Objects : specIds'[o] = specIds[o] OBVIOUS
<1>3. \A o \in Objects : \A i, j \in specIds'[o] : i # 0 /\ j # 0 => i = j BY <1>2 DEF IdInv
<1>4. \A o, p \in Objects : \A i \in specIds'[o] : i \in specIds'[p] /\ i # 0 => o = p
  BY <1>2 DEF IdInv
<1>5. kind' # "cronjob" => \A o \in Objects : specIds'[o] = {} BY <1>2 DEF IdInv
<1> QED BY <1>1, <1>3, <1>4, <1>5 DEF IdInv

\* A cron job that was created does not appear again.
LEMMA IdEmitted ==
    ASSUME StateInv, IdInv, NEW o \in Objects, NEW type \in EventTypes, Emitted(type, o)
    PROVE  IdInv'
<1>1. kind' = kind /\ specIds' = specIds /\ last' = last /\ watching' = watching BY DEF Emitted
<1>2. \A p \in Objects : HasId(p) => born'[p] = born[p] /\ (p = o => type # "Added")
  BY DEF Emitted, IdInv, StateInv, ClusterInv
<1>3. ASSUME NEW p \in Objects, HasId(p), NEW i \in Idx', watching,
             \A j \in Idx : queue[j].type = "Added" => queue[j].obj # p,
             queue'[i].type = "Added"
      PROVE  queue'[i].obj # p
  <2>1. /\ queue'[Len(queue) + 1].obj = o /\ queue'[Len(queue) + 1].type = type
        /\ \A j \in Idx : queue'[j] = queue[j]
        /\ Idx' = Idx \cup {Len(queue) + 1}
    BY <1>3, AppendedEvent DEF StateInv, ClusterInv
  <2> QED BY <1>2, <1>3, <2>1
<1>4. ASSUME NEW p \in Objects, HasId(p)
      PROVE  /\ born'[p] >= 1
             /\ \/ born'[p] <= last'
                \/ watching' /\ \A i \in Idx' : queue'[i].type = "Added" => queue'[i].obj # p
  BY <1>1, <1>2, <1>3, <1>4 DEF IdInv
<1> QED BY <1>1, <1>4, IdKept

\* A cron job that is added has no identifier yet and gets a new one; an update
\* and a removal report that one or 0.
LEMMA IdHandled ==
    ASSUME StateInv, IdInv, Handled,
           Skips \/ AddsObject \/ UpdatesObject \/ RemovesObject \/ CronJob
    PROVE  IdInv'
<1>1. ClusterInv /\ QueueInv /\ DictInv /\ ReportInv BY DEF StateInv, CollectorInv
<1>2. born' = born /\ last' = last /\ watching' = watching /\ watching /\ kind' = kind
  BY DEF Handled, cluster
<1>3. /\ 1 \in Idx /\ Head1 = queue[1]
      /\ \A i \in Idx' : i \in Nat /\ i >= 1 /\ i + 1 \in Idx /\ queue'[i] = queue[i + 1]
  BY <1>1, HandledQueue
<1>4. Head1.obj \in Objects /\ born[Head1.obj] >= 1 BY <1>1, HandledEvent
<1>5. \A o \in Objects : HasId(o) =>
          /\ born'[o] >= 1
          /\ \/ born'[o] <= last'
             \/ watching' /\ \A i \in Idx' : queue'[i].type = "Added" => queue'[i].obj # o
  BY <1>2, <1>3 DEF IdInv
<1>6. CASE UNCHANGED specIds BY <1>2, <1>5, <1>6, IdKept
<1>7. specIds \in [Objects -> SUBSET (0..(nextId - 1))] /\ nextId \in Nat \ {0}
  BY <1>1 DEF ReportInv, DictInv
<1>8. ASSUME NEW x, specIds' = [specIds EXCEPT ![Head1.obj] = @ \cup {x}], kind = "cronjob",
             x = 0 \/ x \in specIds[Head1.obj]
      PROVE  IdInv'
  <2>1. /\ specIds'[Head1.obj] = specIds[Head1.obj] \cup {x}
        /\ \A o \in Objects : o # Head1.obj => specIds'[o] = specIds[o]
    BY <1>4, <1>7, <1>8
  <2>2. \A o \in Objects : \A i : i # 0 => (i \in specIds'[o] <=> i \in specIds[o])
    BY <1>8, <2>1
  <2>3. \A o \in Objects : HasId(o)' <=> HasId(o) BY <2>2 DEF HasId
  <2>4. \A o \in Objects : \A i, j \in specIds'[o] : i # 0 /\ j # 0 => i = j BY <2>2 DEF IdInv
  <2>5. \A o, p \in Objects : \A i \in specIds'[o] : i \in specIds'[p] /\ i # 0 => o = p
    BY <2>2 DEF IdInv
  <2> QED BY <1>2, <1>5, <1>8, <2>3, <2>4, <2>5 DEF IdInv
<1>9. CASE CronJob /\ CronJobModified
  <2>1. specIds' = [specIds EXCEPT ![Head1.obj] = @ \cup {PodSpecId(Head1.obj)}] /\ kind = "cronjob"
    BY <1>9 DEF CronJob, CronJobModified, ReportsId
  <2>2. PodSpecId(Head1.obj) = 0 \/ PodSpecId(Head1.obj) \in specIds[Head1.obj]
    BY <1>1 DEF PodSpecId, ReportInv
  <2> QED BY <1>8, <2>1, <2>2
<1>10. CASE CronJob /\ CronJobDeleted
  <2>1. specIds' = [specIds EXCEPT ![Head1.obj] = @ \cup {0}] /\ kind = "cronjob"
    BY <1>10 DEF CronJob, CronJobDeleted, ReportsId
  <2> QED BY <1>8, <2>1
<1>11. CASE CronJob /\ CronJobAdded
  <2> DEFINE c == Head1.obj
  <2>1. /\ specIds' = [specIds EXCEPT ![c] = @ \cup {nextId}] /\ kind = "cronjob"
        /\ Head1.type = "Added" /\ ~(born[c] <= last)
    BY <1>11 DEF CronJob, CronJobAdded, ReportsId, IsOld, Handles
  <2>2. ~HasId(c) BY <1>3, <1>4, <2>1 DEF IdInv
  <2>3. /\ specIds'[c] = specIds[c] \cup {nextId}
        /\ \A o \in Objects : o # c => specIds'[o] = specIds[o]
    BY <1>4, <1>7, <2>1
  <2>4. \A o \in Objects : nextId \notin specIds[o] BY <1>7
  <2>5. \A i \in specIds'[c] : i # 0 => i = nextId BY <2>2, <2>3 DEF HasId
  <2>6. \A i \in Idx' : queue'[i].type = "Added" => queue'[i].obj # c
    <3> SUFFICES ASSUME NEW i \in Idx', queue'[i].type = "Added", queue'[i].obj = c PROVE FALSE
      OBVIOUS
    <3>1. i + 1 <= 1 BY <1>1, <1>3 DEF QueueInv
    <3> QED BY <1>3, <3>1
  <2>7. \A o \in Objects : HasId(o)' => o = c \/ HasId(o) BY <2>3 DEF HasId
  <2> HIDE DEF c
  <2>8. \A o \in Objects : \A i, j \in specIds'[o] : i # 0 /\ j # 0 => i = j
    BY <2>3, <2>5 DEF IdInv
  <2>9. \A o, p \in Objects : \A i \in specIds'[o] : i \in specIds'[p] /\ i # 0 => o = p
    BY <2>3, <2>4, <2>5 DEF IdInv
  <2>10. c \in Objects /\ born'[c] >= 1 BY <1>2, <1>4 DEF c
  <2> QED BY <1>2, <1>5, <2>1, <2>6, <2>7, <2>8, <2>9, <2>10 DEF IdInv
<1> QED
  BY <1>6, <1>9, <1>10, <1>11 DEF Skips, AddsObject, UpdatesObject, RemovesObject, CronJob, collector

\* Every step keeps this: when a watch of cron jobs ends, or is stopped, the creation
\* time moves past all that exist.
LEMMA IdStep == StateInv /\ IdInv /\ [Next]_vars => IdInv'
<1> SUFFICES ASSUME StateInv, IdInv, [Next]_vars PROVE IdInv' OBVIOUS
<1>1. ASSUME NEW o \in Objects, NEW type \in EventTypes, Emitted(type, o)
      PROVE  IdInv'
  BY <1>1, IdEmitted
<1>2. /\ \A o \in Objects : born[o] \in Nat /\ born[o] <= rev[o] /\ rev[o] \in Nat /\ rev[o] <= clock
      /\ clock \in Nat /\ last \in 0..clock
  BY DEF StateInv, ClusterInv, CollectorInv, DictInv
<1>3. CASE WatchOpens
  <2>1. ~watching /\ UNCHANGED <<kind, specIds, born, last>> BY <1>3 DEF WatchOpens, cluster
  <2> QED BY <2>1, IdKept DEF IdInv
<1>4. CASE OpenFails
  <2>1. ~watching /\ last' \in {last, clock} /\ UNCHANGED <<kind, specIds, born>>
    BY <1>4, FailEffect DEF cluster
  <2>2. last' >= last BY <1>2, <2>1
  <2>3. \A o \in Objects : HasId(o) => born[o] >= 1 /\ born[o] <= last BY <2>1 DEF IdInv
  <2>4. \A o \in Objects : HasId(o) => born'[o] >= 1 /\ born'[o] <= last'
    BY <1>2, <2>1, <2>2, <2>3
  <2> QED BY <2>1, <2>4, IdKept
<1>5. CASE Ended
  <2>1. UNCHANGED <<kind, specIds, born>> BY <1>5 DEF Ended, cluster
  <2>2. \A o \in Objects : HasId(o) => last' = clock
    BY <1>5 DEF HasId, IdInv, Ended
  <2>3. \A o \in Objects : born[o] <= clock BY <1>2
  <2>4. \A o \in Objects : HasId(o) => born'[o] >= 1 /\ born'[o] <= last'
    BY <2>1, <2>2, <2>3 DEF IdInv
  <2> QED BY <2>1, <2>4, IdKept
<1>6. CASE StateIsReset
  <2>1. UNCHANGED <<kind, specIds, born, last, watching, queue>> BY <1>6 DEF StateIsReset, cluster
  <2> QED BY <2>1, IdKept DEF IdInv, Idx
<1>7. CASE Handled /\ (Skips \/ AddsObject \/ UpdatesObject \/ RemovesObject \/ CronJob)
  BY <1>7, IdHandled
<1>8. CASE UNCHANGED vars
  <2>1. UNCHANGED <<kind, specIds, born, last, watching, queue>>
    BY <1>8 DEF vars, cluster, channel, collector
  <2> QED BY <2>1, IdKept DEF IdInv, Idx
<1> QED BY <1>1, <1>3, <1>4, <1>5, <1>6, <1>7, <1>8, StepCases DEF StateInv

\* A set whose members are all equal has one, or none.
LEMMA AtMostOne ==
    ASSUME NEW S, \A x, y \in S : x = y
    PROVE  Cardinality(S) <= 1
<1>1. CASE S = {} BY <1>1, FS_EmptySet
<1>2. ASSUME NEW x \in S PROVE Cardinality(S) <= 1
  <2>1. S = {x} BY <1>2
  <2>2. Cardinality({x}) = 1 BY FS_Singleton
  <2> QED BY <2>1, <2>2
<1> QED BY <1>1, <1>2

\* However often its watch ends, is stopped or fails to open, a cron job is
\* reported with one identifier or the 0 of a missing one, and no two share one.
THEOREM OneIdentifierEach == Spec => []OneIdPerCronJob
<1>1. IdInv => OneIdPerCronJob
  <2> SUFFICES ASSUME IdInv PROVE OneIdPerCronJob OBVIOUS
  <2>1. ASSUME NEW o \in Objects PROVE Cardinality(specIds[o] \ {0}) <= 1
    <3>1. \A x, y \in specIds[o] \ {0} : x = y BY DEF IdInv
    <3> QED BY <3>1, AtMostOne
  <2>2. \A o, p \in Objects : o # p => specIds[o] \cap specIds[p] \subseteq {0} BY DEF IdInv
  <2> QED BY <2>1, <2>2 DEF OneIdPerCronJob
<1> QED BY <1>1, IdInit, IdStep, StateAlways, PTL DEF Spec

-----------------------------------------------------------------------------
(* The objects the handler has to follow.                                   *)

Open == watching /\ ~stopping
AddedComes(o) == \E i \in Idx : queue[i].type = "Added" /\ queue[i].obj = o
NewsComes(o) == \E i \in Idx : queue[i].obj = o /\ queue[i].rev = rev[o]
DeletedComes(o) == \E j \in Idx : queue[j].type = "Deleted" /\ queue[j].obj = o

\* A followed object was reported as it is now, or that is still queued.
ToldOrComes(o) == IsTold(o) \/ NewsComes(o)

\* It has an entry, current or with the news still queued, or will get one.
Kept(o) ==
    \E d \in DOMAIN dm : dm[d].obj = o /\ (kind = "namespace" \/ dm[d].rev = rev[o] \/ NewsComes(o))
KeptOrComes(o) == AddedComes(o) \/ kind = "cronjob" \/ Kept(o)

\* A deletion of its name that is queued is followed by its addition: no event
\* that comes later takes its entry for that of an earlier object of the name.
AddedAgain(o) ==
    \A j \in Idx : queue[j].type = "Deleted" /\ NameAt(j) = NameOf[o]
        => \E i \in j..Len(queue) : queue[i].type = "Added" /\ queue[i].obj = o

FollowInv ==
    Open => \A o \in Objects : Followed(o) => ToldOrComes(o) /\ KeptOrComes(o) /\ AddedAgain(o)

\* In the beginning no watch is open.
LEMMA FollowInit == Init => FollowInv
  BY DEF Init, FollowInv, Open

\* A change of the cluster is news of its object, which is not deleted by it,
\* and nothing to other objects.
LEMMA FollowEmitted ==
    ASSUME StateInv, FollowInv, NEW c \in Objects, NEW type \in EventTypes, Emitted(type, c)
    PROVE  FollowInv'
<1> SUFFICES ASSUME Open', NEW o \in Objects, Followed(o)'
             PROVE  ToldOrComes(o)' /\ KeptOrComes(o)' /\ AddedAgain(o)'
  BY DEF FollowInv
<1> DEFINE m == Len(queue) + 1
<1>1. /\ Open /\ watching /\ UNCHANGED <<kind, last, dm, told>>
      /\ clock \in Nat /\ rev'[c] = clock + 1 /\ alive \subseteq Objects
      /\ \A p \in Objects : p # c => rev'[p] = rev[p] /\ born'[p] = born[p] /\ (p \in alive' <=> p \in alive)
  BY DEF Emitted, Open, StateInv, ClusterInv
<1>2. /\ Len(queue) \in Nat /\ Len(queue') = m
      /\ queue'[m].type = type /\ queue'[m].obj = c /\ queue'[m].rev = clock + 1
      /\ \A i \in Idx : queue'[i] = queue[i]
      /\ Idx' = Idx \cup {m}
  BY <1>1, AppendedEvent DEF StateInv
<1>3. \A i \in Idx' : i \in Nat /\ i <= m
  BY <1>2 DEF Idx
<1>4. m \in Nat /\ Len(queue) <= m BY <1>2
<1>5. o \in alive' /\ ~(Ignored([obj |-> o]))' /\ (born'[o] > last') BY DEF Followed
<1> HIDE DEF m
<1>6. CASE o = c
  <2>1. type \in {"Added", "Modified"}
    BY <1>5, <1>6 DEF Emitted, EventTypes
  <2>2. NewsComes(o)' BY <1>1, <1>2, <1>6 DEF NewsComes
  <2>3. CASE type = "Added"
    <3>1. AddedComes(o)' BY <1>2, <1>6, <2>3 DEF AddedComes
    <3>2. AddedAgain(o)'
      <4>1. \A j \in Idx' : m \in j..Len(queue') BY <1>2, <1>3, <1>4
      <4> QED BY <1>2, <1>6, <2>3, <4>1 DEF AddedAgain
    <3> QED BY <2>2, <3>1, <3>2 DEF ToldOrComes, KeptOrComes
  <2>4. CASE type = "Modified"
    <3>1. Followed(o)
      BY <1>1, <1>5, <1>6, <2>4 DEF Emitted, Followed, Ignored, Namespaced
    <3>2. KeptOrComes(o) /\ AddedAgain(o) BY <1>1, <3>1 DEF FollowInv
    <3>3. AddedComes(o) => AddedComes(o)' BY <1>2 DEF AddedComes
    <3>4. Kept(o) => Kept(o)' BY <1>1, <2>2 DEF Kept
    <3>5. AddedAgain(o)'
      <4> SUFFICES ASSUME NEW j \in Idx', queue'[j].type = "Deleted", (NameAt(j))' = NameOf[o]
                   PROVE  \E i \in j..Len(queue') : queue'[i].type = "Added" /\ queue'[i].obj = o
        BY DEF AddedAgain
      <4>1. j \in Idx /\ queue'[j] = queue[j] BY <1>2, <2>4
      <4>2. PICK i \in j..Len(queue) : queue[i].type = "Added" /\ queue[i].obj = o
        BY <3>2, <4>1 DEF AddedAgain, NameAt
      <4>3. i \in Idx /\ i \in j..Len(queue') BY <1>2, <1>4, <4>1 DEF Idx
      <4> QED BY <1>2, <4>2, <4>3
    <3> QED BY <1>1, <2>2, <3>2, <3>3, <3>4, <3>5 DEF ToldOrComes, KeptOrComes
  <2> QED BY <2>1, <2>3, <2>4
<1>7. CASE o # c
  <2>1. o \in alive /\ rev'[o] = rev[o] /\ born'[o] = born[o] BY <1>1, <1>5, <1>7
  <2>2. NameOf[o] # NameOf[c]
    BY <1>7, <2>1 DEF Emitted, StateInv, ClusterInv
  <2>3. Followed(o) BY <1>1, <1>5, <2>1 DEF Followed, Ignored, Namespaced
  <2>4. ToldOrComes(o) /\ KeptOrComes(o) /\ AddedAgain(o) BY <1>1, <2>3 DEF FollowInv
  <2>5. NewsComes(o) => NewsComes(o)' BY <1>2, <2>1 DEF NewsComes
  <2>6. AddedComes(o) => AddedComes(o)' BY <1>2 DEF AddedComes
  <2>7. ToldOrComes(o)' BY <1>1, <2>1, <2>4, <2>5 DEF ToldOrComes, IsTold
  <2>8. KeptOrComes(o)' BY <1>1, <2>1, <2>4, <2>5, <2>6 DEF KeptOrComes, Kept
  <2>9. AddedAgain(o)'
    <3> SUFFICES ASSUME NEW j \in Idx', queue'[j].type = "Deleted", (NameAt(j))' = NameOf[o]
                 PROVE  \E i \in j..Len(queue') : queue'[i].type = "Added" /\ queue'[i].obj = o
      BY DEF AddedAgain
    <3>1. j \in Idx /\ queue'[j] = queue[j] BY <1>2, <2>2 DEF NameAt
    <3>2. PICK i \in j..Len(queue) : queue[i].type = "Added" /\ queue[i].obj = o
      BY <2>4, <3>1 DEF AddedAgain, NameAt
    <3>3. i \in Idx /\ i \in j..Len(queue') BY <1>2, <1>4, <3>1 DEF Idx
    <3> QED BY <1>2, <3>2, <3>3
  <2> QED BY <2>7, <2>8, <2>9
<1> QED BY <1>6, <1>7

\* A new watch adds every object that exists.
LEMMA FollowOpened ==
    ASSUME StateInv, WatchOpens
    PROVE  FollowInv'
<1> SUFFICES ASSUME NEW o \in Objects, Followed(o)'
             PROVE  ToldOrComes(o)' /\ KeptOrComes(o)' /\ AddedAgain(o)'
  BY DEF FollowInv
<1>1. alive' = alive /\ rev' = rev BY DEF WatchOpens, cluster
<1>2. o \in alive BY <1>1 DEF Followed
<1>3. /\ \A i \in Idx' : queue'[i].type = "Added" /\ queue'[i].rev = rev[queue'[i].obj]
      /\ \E i \in Idx' : queue'[i].obj = o
  BY <1>2, OpenedQueue DEF StateInv
<1>4. NewsComes(o)' /\ AddedComes(o)' BY <1>1, <1>3 DEF NewsComes, AddedComes
<1>5. AddedAgain(o)' BY <1>3 DEF AddedAgain
<1> QED BY <1>4, <1>5 DEF ToldOrComes, KeptOrComes

\* What handling the first event means for a followed object: the facts the
\* three parts of the invariant share.
LEMMA FollowedEvent ==
    ASSUME StateInv, ToldInv, FollowInv, Open, Handled, NEW o \in Objects, Followed(o),
           Skips \/ AddsObject \/ UpdatesObject \/ RemovesObject \/ CronJob
    PROVE  /\ ToldOrComes(o) /\ KeptOrComes(o) /\ AddedAgain(o)
           /\ o \in alive /\ born[o] > last /\ NameOf[o] \in Names
           /\ Head1.obj = o => ~Skips /\ Head1.type # "Deleted"
           /\ Head1.obj = o /\ AddedComes(o) => Head1.type = "Added"
           /\ Head1.obj # o => (NewsComes(o) => NewsComes(o)')
           /\ Head1.rev # rev[o] => (NewsComes(o) => NewsComes(o)')
           /\ ~(Head1.obj = o /\ Head1.type = "Added") => (AddedComes(o) => AddedComes(o)')
<1>1. ClusterInv /\ QueueInv BY DEF StateInv
<1>2. ToldOrComes(o) /\ KeptOrComes(o) /\ AddedAgain(o) BY DEF FollowInv
<1>3. o \in alive /\ ~Ignored([obj |-> o]) /\ born[o] > last /\ NameOf[o] \in Names
  BY DEF Followed, Names
<1>4. /\ 1 \in Idx /\ Head1 = queue[1]
      /\ \A i \in Idx : i \in Nat /\ (i = 1 \/ i - 1 \in Idx')
      /\ \A i \in Idx' : queue'[i] = queue[i + 1] /\ i \in Nat
  BY <1>1, HandledQueue
<1>5. \A i \in Idx : i # 1 => i - 1 \in Idx' /\ queue'[i - 1] = queue[i]
  <2> TAKE i \in Idx
  <2> HAVE i # 1
  <2>1. i - 1 \in Idx' /\ i \in Nat /\ queue'[i - 1] = queue[(i - 1) + 1] BY <1>4
  <2>2. (i - 1) + 1 = i BY <2>1
  <2> QED BY <2>1, <2>2
<1>6. Head1.obj = o => ~Skips /\ Head1.type # "Deleted"
  <2> SUFFICES ASSUME Head1.obj = o PROVE ~Skips /\ Head1.type # "Deleted" OBVIOUS
  <2>1. Head1.type # "Deleted" BY <1>1, <1>3, <1>4 DEF QueueInv
  <2>2. ~Ignored(Head1) BY <1>3 DEF Ignored, Namespaced
  <2>3. ~IsOld(Head1)
    <3>1. born[o] \in Nat /\ last \in Nat BY DEF StateInv, ClusterInv, CollectorInv, DictInv
    <3> QED BY <1>3, <3>1 DEF IsOld
  <2> QED BY <2>1, <2>2, <2>3 DEF Skips
<1>7. Head1.obj = o /\ AddedComes(o) => Head1.type = "Added"
  <2> SUFFICES ASSUME Head1.obj = o, NEW i \in Idx, queue[i].type = "Added", queue[i].obj = o
               PROVE  Head1.type = "Added"
    BY DEF AddedComes
  <2>1. i <= 1 /\ i >= 1 BY <1>1, <1>4 DEF QueueInv, Idx
  <2>2. i = 1 BY <1>4, <2>1
  <2> QED BY <1>4, <2>2
<1>8. rev' = rev BY DEF Handled, cluster
<1>9. Head1.obj # o \/ Head1.rev # rev[o] => (NewsComes(o) => NewsComes(o)')
  BY <1>4, <1>5, <1>8 DEF NewsComes
<1>10. ~(Head1.obj = o /\ Head1.type = "Added") => (AddedComes(o) => AddedComes(o)')
  BY <1>4, <1>5 DEF AddedComes
<1> QED BY <1>2, <1>3, <1>6, <1>7, <1>9, <1>10

\* The news of a followed object is reported when it is handled: a node has its
\* entry by then.
LEMMA FollowedIsTold ==
    ASSUME StateInv, ToldInv, FollowInv, Open, Handled, NEW o \in Objects, Followed(o),
           Skips \/ AddsObject \/ UpdatesObject \/ RemovesObject \/ CronJob
    PROVE  ToldOrComes(o)'
<1> DEFINE n == NameOf[o]
<1>1. /\ ToldOrComes(o) /\ KeptOrComes(o)
      /\ o \in alive /\ born[o] > last /\ n \in Names
      /\ Head1.obj = o => ~Skips /\ Head1.type # "Deleted"
      /\ Head1.obj = o /\ AddedComes(o) => Head1.type = "Added"
      /\ Head1.obj # o => (NewsComes(o) => NewsComes(o)')
      /\ Head1.rev # rev[o] => (NewsComes(o) => NewsComes(o)')
  BY FollowedEvent
<1>2. rev' = rev /\ rev \in [Objects -> Nat] /\ UNCHANGED <<kind, alive, born, last>>
  BY DEF Handled, cluster, StateInv, ClusterInv
<1>3. told \in [Names -> [rev : Nat, there : BOOLEAN]] /\ told[n].rev \in Nat
  BY <1>1, ToldTypes DEF StateInv, CollectorInv, ReportInv
<1>4. /\ Head1.obj \in Objects /\ Head1.rev \in Nat /\ NameOf[Head1.obj] \in Names
      /\ Head1.rev <= rev[Head1.obj]
  BY HandledEvent DEF StateInv
<1>5. told[NameOf[Head1.obj]].rev <= Head1.rev
  <2>1. 1 \in Idx /\ NameOf[Head1.obj] = NameAt(1) /\ Head1 = queue[1] BY HandledQueue DEF StateInv, NameAt
  <2> QED BY <2>1 DEF ToldInv
<1>6. CASE Head1.obj = o /\ Head1.rev = rev[o]
  <2>1. ~Skips /\ Head1.type # "Deleted" BY <1>1, <1>6
  <2>2. Reports(Head1, TRUE)
    <3>1. CASE AddsObject BY <3>1 DEF AddsObject
    <3>2. CASE UpdatesObject
      <4>1. CASE kind = "node" /\ Hits(Head1) = {}
        <5>1. ~AddedComes(o) BY <1>1, <1>6, <3>2 DEF UpdatesObject
        <5>2. Kept(o) BY <1>1, <4>1, <5>1 DEF KeptOrComes
        <5>3. Hits(Head1) # {} BY <1>6, <5>2 DEF Kept, Hits
        <5> QED BY <4>1, <5>3
      <4> QED BY <3>2, <4>1 DEF UpdatesObject
    <3>3. CASE RemovesObject BY <2>1, <3>3 DEF RemovesObject
    <3>4. CASE CronJob
      BY <2>1, <3>4 DEF CronJob, CronJobAdded, CronJobModified, CronJobDeleted, Handles
    <3> QED BY <2>1, <3>1, <3>2, <3>3, <3>4
  <2>3. told'[NameOf[Head1.obj]] = [rev |-> Head1.rev, there |-> TRUE]
    BY <1>3, <1>4, <2>2, ReportsTypes
  <2>4. IsTold(o)' BY <1>2, <1>6, <2>3 DEF IsTold
  <2> QED BY <2>4 DEF ToldOrComes
<1>7. CASE ~(Head1.obj = o /\ Head1.rev = rev[o]) /\ NewsComes(o)
  BY <1>1, <1>7 DEF ToldOrComes
<1>8. CASE ~(Head1.obj = o /\ Head1.rev = rev[o]) /\ IsTold(o)
  <2>1. told[n].rev = rev[o] BY <1>8 DEF IsTold
  <2>2. NameOf[Head1.obj] # n
    <3> SUFFICES ASSUME NameOf[Head1.obj] = n PROVE FALSE OBVIOUS
    <3>1. rev[o] <= Head1.rev BY <1>5, <2>1
    <3>2. CASE Head1.obj = o BY <1>2, <1>4, <1>8, <3>1, <3>2
    <3>3. CASE Head1.obj # o
      <4>1. rev[Head1.obj] < rev[o] BY <1>1, <1>4, <3>3 DEF StateInv, ClusterInv
      <4> QED BY <1>2, <1>4, <3>1, <4>1
    <3> QED BY <3>2, <3>3
  <2>3. told'[n] = told[n]
    <3>1. CASE told' = told BY <3>1
    <3>2. CASE Reports(Head1, Head1.type # "Deleted")
      <4>1. (Head1.type # "Deleted") \in BOOLEAN OBVIOUS
      <4> QED BY <1>1, <1>3, <1>4, <2>2, <3>2, <4>1, ReportsTypes
    <3> QED BY <3>1, <3>2, ToldEffect
  <2>4. IsTold(o)' BY <1>2, <1>8, <2>3 DEF IsTold
  <2> QED BY <2>4 DEF ToldOrComes
<1> QED BY <1>1, <1>6, <1>7, <1>8 DEF ToldOrComes

\* Its entry is not lost: another object of its name that is updated or deleted
\* can take the entry, but then the followed object is still to be added.
LEMMA FollowedIsKept ==
    ASSUME StateInv, ToldInv, FollowInv, Open, Handled, NEW o \in Objects, Followed(o),
           Skips \/ AddsObject \/ UpdatesObject \/ RemovesObject \/ CronJob
    PROVE  KeptOrComes(o)'
<1>1. /\ ToldOrComes(o) /\ KeptOrComes(o) /\ AddedAgain(o)
      /\ o \in alive /\ born[o] > last /\ NameOf[o] \in Names
      /\ Head1.obj = o => ~Skips /\ Head1.type # "Deleted"
      /\ Head1.obj = o /\ AddedComes(o) => Head1.type = "Added"
      /\ Head1.obj # o => (NewsComes(o) => NewsComes(o)')
      /\ Head1.rev # rev[o] => (NewsComes(o) => NewsComes(o)')
      /\ ~(Head1.obj = o /\ Head1.type = "Added") => (AddedComes(o) => AddedComes(o)')
  BY FollowedEvent
<1>2. rev' = rev /\ rev \in [Objects -> Nat] /\ kind' = kind
  BY DEF Handled, cluster, StateInv, ClusterInv
<1>3. /\ 1 \in Idx /\ Head1 = queue[1] /\ Len(queue) \in Nat
      /\ \A i \in Idx : i \in Nat
  BY HandledQueue DEF StateInv
<1>4. /\ Head1.obj \in Objects /\ Head1.rev \in Nat /\ Head1.rev <= rev[Head1.obj]
      /\ Entry(Head1).obj = Head1.obj /\ Entry(Head1).rev = Head1.rev
  BY HandledEvent DEF StateInv
<1>5. Head1.obj = o => Head1.rev = rev[o] \/ NewsComes(o)'
  <2> SUFFICES ASSUME Head1.obj = o, Head1.rev # rev[o], ~NewsComes(o)' PROVE FALSE OBVIOUS
  <2>1. IsTold(o) BY <1>1 DEF ToldOrComes
  <2>2. told[NameOf[o]].rev <= Head1.rev BY <1>3 DEF ToldInv, NameAt
  <2> QED BY <1>2, <1>4, <2>1, <2>2 DEF IsTold
<1>6. ASSUME NEW d \in DOMAIN dm', dm'[d].obj = o,
             kind = "namespace" \/ dm'[d].rev = rev[o] \/ NewsComes(o)'
      PROVE  KeptOrComes(o)'
  BY <1>2, <1>6 DEF KeptOrComes, Kept
\* An entry of the event, if it is of the object.
<1>7. ASSUME NEW d \in DOMAIN dm', dm'[d] = Entry(Head1), Head1.obj = o
      PROVE  KeptOrComes(o)'
  <2>1. dm'[d].obj = o /\ (dm'[d].rev = rev[o] \/ NewsComes(o)') BY <1>4, <1>5, <1>7
  <2> QED BY <1>6, <2>1
<1>8. CASE kind = "cronjob" BY <1>2, <1>8 DEF KeptOrComes
<1>9. CASE AddedComes(o) /\ Head1.obj = o /\ kind # "cronjob"
  <2>1. AddsObject
    BY <1>1, <1>9 DEF UpdatesObject, RemovesObject, CronJob
  <2>2. nextId \in DOMAIN dm' /\ dm'[nextId] = Entry(Head1)
    BY <2>1 DEF AddsObject, Added
  <2> QED BY <1>7, <1>9, <2>2
<1>10. CASE AddedComes(o) /\ Head1.obj # o
  BY <1>1, <1>10 DEF KeptOrComes
<1>11. CASE Kept(o) /\ kind # "cronjob" /\ ~AddedComes(o)
  <2>1. PICK d \in DOMAIN dm : dm[d].obj = o /\ (kind = "namespace" \/ dm[d].rev = rev[o] \/ NewsComes(o))
    BY <1>11 DEF Kept
  <2>2. ASSUME d \in DOMAIN dm', dm'[d] = dm[d], Head1.obj # o
        PROVE  KeptOrComes(o)'
    BY <1>1, <1>6, <2>1, <2>2
  <2>3. CASE Head1.obj # o
    <3>1. CASE Head1.type = "Deleted" /\ NameOf[Head1.obj] = NameOf[o]
      <4>1. PICK i \in 1..Len(queue) : queue[i].type = "Added" /\ queue[i].obj = o
        BY <1>1, <1>3, <3>1 DEF AddedAgain, NameAt
      <4> QED BY <1>11, <4>1 DEF AddedComes, Idx
    <3>2. CASE Head1.type # "Deleted" /\ NameOf[Head1.obj] = NameOf[o]
      <4>1. Head1.obj \notin alive BY <1>1, <2>3, <3>2 DEF StateInv, ClusterInv
      <4>2. PICK j \in 1..Len(queue) : queue[j].type = "Deleted" /\ queue[j].obj = Head1.obj
        BY <1>3, <4>1 DEF StateInv, QueueInv
      <4>3. j \in Idx /\ NameAt(j) = NameOf[o] BY <3>2, <4>2 DEF Idx, NameAt
      <4>4. PICK i \in j..Len(queue) : queue[i].type = "Added" /\ queue[i].obj = o
        BY <1>1, <4>2, <4>3 DEF AddedAgain
      <4>5. i \in Idx BY <1>3, <4>3, <4>4 DEF Idx
      <4> QED BY <1>11, <4>4, <4>5 DEF AddedComes
    <3>3. CASE NameOf[Head1.obj] # NameOf[o]
      <4>1. d \notin Hits(Head1) BY <2>1, <3>3 DEF Hits
      <4>2. nextId \notin DOMAIN dm
        BY DEF StateInv, CollectorInv, DictInv
      <4>3. d \in DOMAIN dm' /\ dm'[d] = dm[d]
        <5>1. CASE DictKept BY <5>1 DEF DictKept
        <5>2. CASE DictAdds BY <4>2, <5>2 DEF DictAdds, Added
        <5>3. CASE DictRewrites BY <4>1, <5>3 DEF DictRewrites
        <5>4. CASE DictRemoves BY <4>1, <5>4 DEF DictRemoves
        <5> QED BY <5>1, <5>2, <5>3, <5>4, DictEffect
      <4> QED BY <2>2, <2>3, <4>3
    <3> QED BY <3>1, <3>2, <3>3
  <2>4. CASE Head1.obj = o
    <3>1. CASE AddsObject
      <4>1. nextId \in DOMAIN dm' /\ dm'[nextId] = Entry(Head1) BY <3>1 DEF AddsObject, Added
      <4> QED BY <1>7, <2>4, <4>1
    <3>2. CASE UpdatesObject /\ kind = "namespace"
      <4>1. dm' = dm BY <3>2 DEF UpdatesObject
      <4> QED BY <1>6, <2>1, <3>2, <4>1
    <3>3. CASE UpdatesObject /\ kind # "namespace"
      <4>1. d \in Hits(Head1) BY <2>1, <2>4 DEF Hits
      <4>2. PICK x \in Hits(Head1) : dm' = [dm EXCEPT ![x] = Entry(Head1)]
        BY <3>3, <4>1 DEF UpdatesObject, Rewritten
      <4>3. x \in DOMAIN dm' /\ dm'[x] = Entry(Head1) BY <4>2 DEF Hits
      <4> QED BY <1>7, <2>4, <4>3
    <3> QED BY <1>1, <1>11, <2>4, <3>1, <3>2, <3>3 DEF RemovesObject, CronJob
  <2> QED BY <2>3, <2>4
<1> QED BY <1>1, <1>8, <1>9, <1>10, <1>11 DEF KeptOrComes

\* The addition that follows a queued deletion stays behind it.
LEMMA FollowedIsAddedAgain ==
    ASSUME StateInv, Handled, NEW o \in Objects, AddedAgain(o)
    PROVE  AddedAgain(o)'
<1>1. /\ Len(queue) \in Nat /\ Len(queue') = Len(queue) - 1
      /\ \A i \in Idx' : i \in Nat /\ i >= 1 /\ i + 1 \in Idx /\ queue'[i] = queue[i + 1]
  BY HandledQueue DEF StateInv
<1> SUFFICES ASSUME NEW j \in Idx', queue'[j].type = "Deleted", (NameAt(j))' = NameOf[o]
             PROVE  \E i \in j..Len(queue') : queue'[i].type = "Added" /\ queue'[i].obj = o
  BY DEF AddedAgain
<1>2. j + 1 \in Idx /\ queue'[j] = queue[j + 1] /\ NameAt(j + 1) = NameOf[o] BY <1>1 DEF NameAt
<1>3. PICK i \in (j + 1)..Len(queue) : queue[i].type = "Added" /\ queue[i].obj = o
  BY <1>2 DEF AddedAgain
<1>4. i - 1 \in j..Len(queue') /\ i - 1 \in Idx' /\ (i - 1) + 1 = i BY <1>1, <1>3 DEF Idx
<1>5. queue'[i - 1] = queue[i] BY <1>1, <1>4
<1> QED BY <1>3, <1>4, <1>5

\* Every step keeps this; a watch that ends or has to stop follows nothing.
LEMMA FollowStep == StateInv /\ ToldInv /\ FollowInv /\ [Next]_vars => FollowInv'
<1> SUFFICES ASSUME StateInv, ToldInv, FollowInv, [Next]_vars PROVE FollowInv' OBVIOUS
<1>1. ASSUME NEW o \in Objects, NEW type \in EventTypes, Emitted(type, o)
      PROVE  FollowInv'
  BY <1>1, FollowEmitted
<1>2. CASE WatchOpens BY <1>2, FollowOpened
<1>3. CASE OpenFails
  <2>1. ~watching' BY <1>3, FailEffect DEF channel
  <2> QED BY <2>1 DEF FollowInv, Open
<1>4. CASE Ended BY <1>4 DEF Ended, FollowInv, Open
<1>5. CASE StateIsReset BY <1>5 DEF StateIsReset, FollowInv, Open
<1>6. CASE Handled /\ (Skips \/ AddsObject \/ UpdatesObject \/ RemovesObject \/ CronJob)
  <2> SUFFICES ASSUME Open', NEW o \in Objects, Followed(o)'
               PROVE  ToldOrComes(o)' /\ KeptOrComes(o)' /\ AddedAgain(o)'
    BY DEF FollowInv
  <2>1. Open /\ Followed(o)
    BY <1>6 DEF Handled, Open, Followed, Ignored, Namespaced, cluster
  <2>2. AddedAgain(o) BY <2>1 DEF FollowInv
  <2> QED BY <1>6, <2>1, <2>2, FollowedIsTold, FollowedIsKept, FollowedIsAddedAgain
<1>7. CASE UNCHANGED vars
  BY <1>7 DEF vars, cluster, channel, collector, FollowInv, Open, Followed, Ignored, Namespaced, ToldOrComes, IsTold,
     NewsComes, KeptOrComes, AddedComes, Kept, AddedAgain, NameAt, Idx
<1> QED BY <1>1, <1>2, <1>3, <1>4, <1>5, <1>6, <1>7, StepCases DEF StateInv

-----------------------------------------------------------------------------
(* Without an interruption nothing is reported or kept that does not exist. *)

Seen(i) == ~Ignored(queue[i])
Hit(n) == {d \in DOMAIN dm : NameOf[dm[d].obj] = n}
DeletedIn(n, first, end) ==
    \E j \in first..end : queue[j].type = "Deleted" /\ Seen(j) /\ NameAt(j) = n
ExistsOrGoes(o) == o \in alive \/ DeletedComes(o)

\* An entry is of an object that exists or whose deletion is queued, and of a
\* name there is one entry.
EntriesExist ==
    \A d \in DOMAIN dm : dm[d].obj \in Objects /\ ~Ignored(dm[d]) /\ ExistsOrGoes(dm[d].obj)
EntriesOnce ==
    \A c, d \in DOMAIN dm : NameOf[dm[c].obj] = NameOf[dm[d].obj] => c = d

\* When an object is added, everything earlier of its name has been deleted: the
\* events before it, and an entry.
AddedLast(i) ==
    /\ \A k \in 1..(i - 1) : Seen(k) /\ NameAt(k) = NameAt(i) => DeletedIn(NameAt(i), k, i - 1)
    /\ Hit(NameAt(i)) # {} => DeletedIn(NameAt(i), 1, i - 1)

\* A name that is reported belongs to such an object too; a node of that name
\* is in the dictionary, so that its removal is reported.
ToldExists(n) ==
    /\ \E o \in Objects : NameOf[o] = n /\ ~Ignored([obj |-> o]) /\ ExistsOrGoes(o)
    /\ kind = "node" => Hit(n) # {}

UnbrokenInv ==
    gaps = 0 =>
        /\ ~stopping
        /\ ~watching => DOMAIN dm = {} /\ \A n \in Names : ~told[n].there
        /\ kind = "cronjob" => DOMAIN dm = {}
        /\ kind # "service" => last = 0
        /\ EntriesExist /\ EntriesOnce
        /\ \A i \in Idx : queue[i].type = "Added" /\ Seen(i) => AddedLast(i)
        /\ \A n \in Names : told[n].there => ToldExists(n)

\* In the beginning there is nothing in dictionary and reports.
LEMMA UnbrokenInit == Init => UnbrokenInv
<1> SUFFICES ASSUME Init PROVE UnbrokenInv OBVIOUS
<1>1. ~stopping /\ last = 0 BY DEF Init
<1>2. DOMAIN dm = {} /\ Idx = {} BY DEF Init, Empty, Idx
<1>3. \A n \in Names : ~told[n].there BY DEF Init, NotTold
<1> QED BY <1>1, <1>2, <1>3 DEF UnbrokenInv, EntriesExist, EntriesOnce

\* A change of the cluster.
LEMMA UnbrokenEmitted ==
    ASSUME StateInv, UnbrokenInv, NEW c \in Objects, NEW type \in EventTypes, Emitted(type, c)
    PROVE  UnbrokenInv'
<1> SUFFICES ASSUME gaps = 0 PROVE UnbrokenInv' BY DEF UnbrokenInv, Emitted
<1>1. /\ UNCHANGED <<kind, watching, stopping, last, dm, told>> /\ Names' = Names
      /\ alive \subseteq Objects /\ clock \in Nat
      /\ \A p \in alive : p # c => p \in alive'
      /\ type = "Deleted" \/ c \notin alive \/ c \in alive'
  BY DEF Emitted, Names, StateInv, ClusterInv
<1>2. /\ ~stopping' /\ (kind' = "cronjob" => DOMAIN dm' = {}) /\ (kind' # "service" => last' = 0)
      /\ EntriesOnce'
      /\ ~watching' => DOMAIN dm' = {} /\ \A n \in Names' : ~told'[n].there
  BY <1>1 DEF UnbrokenInv, EntriesOnce
<1>3. CASE ~watching
  <2>1. queue' = <<>> BY <1>3 DEF Emitted, StateInv, QueueInv
  <2>2. Idx' = {} /\ DOMAIN dm' = {} /\ \A n \in Names' : ~told'[n].there
    BY <1>1, <1>2, <1>3, <2>1 DEF Idx
  <2> QED BY <1>2, <2>2 DEF UnbrokenInv, EntriesExist
<1>4. CASE watching
  <2> DEFINE m == Len(queue) + 1
  <2>1. /\ Len(queue) \in Nat /\ Len(queue') = m
        /\ queue'[m].type = type /\ queue'[m].obj = c
        /\ \A i \in Idx : queue'[i] = queue[i]
        /\ Idx' = Idx \cup {m}
    BY <1>1, <1>4, AppendedEvent DEF StateInv
  <2>2. \A i \in Idx : i \in Nat /\ i >= 1 /\ i < m /\ i <= Len(queue) BY <2>1 DEF Idx
  <2>3. m \in Nat /\ m - 1 = Len(queue) BY <2>1
  <2> HIDE DEF m
  <2>4. \A o \in Objects : ExistsOrGoes(o) => ExistsOrGoes(o)'
    <3>1. \A o \in Objects : DeletedComes(o) => DeletedComes(o)' BY <2>1 DEF DeletedComes
    <3>2. type = "Deleted" => DeletedComes(c)' BY <2>1 DEF DeletedComes
    <3> QED BY <1>1, <3>1, <3>2 DEF ExistsOrGoes
  <2>5. EntriesExist'
    BY <1>1, <2>4 DEF UnbrokenInv, EntriesExist, Ignored, Namespaced
  <2>6. \A n \in Names : Hit(n)' = Hit(n) BY <1>1 DEF Hit
  <2>7. ASSUME NEW n \in Names', told'[n].there PROVE ToldExists(n)'
    <3>1. n \in Names /\ ToldExists(n) BY <1>1, <2>7 DEF UnbrokenInv
    <3> QED BY <1>1, <2>4, <2>6, <3>1 DEF ToldExists, Ignored, Namespaced
  <2>8. \A i \in Idx : (Seen(i))' = Seen(i) /\ (NameAt(i))' = NameAt(i)
    BY <1>1, <2>1 DEF Seen, NameAt, Ignored, Namespaced
  <2>9. ASSUME NEW i \in Idx, NEW k \in Nat, k >= 1, DeletedIn(NameAt(i), k, i - 1)
        PROVE  (DeletedIn(NameAt(i), k, i - 1))'
    <3>1. \A j \in k..(i - 1) : j \in Idx BY <2>1, <2>2, <2>9 DEF Idx
    <3> QED BY <2>1, <2>8, <2>9, <3>1 DEF DeletedIn
  <2>10. ASSUME NEW i \in Idx', queue'[i].type = "Added", (Seen(i))' PROVE AddedLast(i)'
    <3>1. CASE i \in Idx
      <4>1. AddedLast(i) /\ NameAt(i) \in Names
        BY <2>1, <2>8, <2>10, <3>1, QueuedEvent DEF UnbrokenInv, StateInv
      <4>2. i \in Nat /\ i - 1 \in Nat /\ i - 1 <= Len(queue) BY <2>1, <2>2, <3>1
      <4>3. \A k \in 1..(i - 1) : k \in Idx /\ k \in Nat /\ k >= 1 BY <2>1, <4>2 DEF Idx
      <4>4. (NameAt(i))' = NameAt(i) BY <2>8, <3>1
      <4>5. ASSUME NEW k \in 1..(i - 1), (Seen(k))', (NameAt(k))' = (NameAt(i))'
            PROVE  (DeletedIn(NameAt(i), k, i - 1))'
        <5>1. DeletedIn(NameAt(i), k, i - 1) BY <2>8, <4>1, <4>3, <4>4, <4>5 DEF AddedLast
        <5> QED BY <2>9, <3>1, <4>2, <4>3, <5>1
      <4>6. (Hit(NameAt(i)))' # {} => (DeletedIn(NameAt(i), 1, i - 1))'
        <5>1. (Hit(NameAt(i)))' = Hit(NameAt(i)) BY <1>1, <4>4 DEF Hit
        <5> QED BY <2>9, <3>1, <4>1, <4>2, <5>1 DEF AddedLast
      <4> QED BY <4>5, <4>6 DEF AddedLast
    <3>2. CASE i = m
      <4>1. type = "Added" /\ (NameAt(i))' = NameOf[c] /\ \A p \in alive : NameOf[p] # NameOf[c]
        BY <2>1, <2>10, <3>2 DEF NameAt, Emitted
      <4>2. i - 1 = Len(queue) /\ \A k \in 1..(i - 1) : k \in Idx BY <2>3, <3>2 DEF Idx
      <4>3. ASSUME NEW k \in 1..(i - 1), (Seen(k))', (NameAt(k))' = NameOf[c]
            PROVE  (DeletedIn(NameAt(i), k, i - 1))'
        <5>1. k \in Idx /\ Seen(k) /\ NameAt(k) = NameOf[c] BY <2>8, <4>2, <4>3
        <5>2. queue[k].obj \notin alive BY <4>1, <5>1 DEF NameAt
        <5>3. PICK j \in k..Len(queue) : queue[j].type = "Deleted" /\ queue[j].obj = queue[k].obj
          BY <5>1, <5>2 DEF StateInv, QueueInv
        <5>4. j \in Idx /\ j \in k..(i - 1) BY <2>1, <4>2, <5>1, <5>3 DEF Idx
        <5>5. Seen(j) /\ NameAt(j) = NameOf[c] BY <5>1, <5>3 DEF Seen, NameAt, Ignored, Namespaced
        <5>6. queue'[j].type = "Deleted" /\ (Seen(j))' /\ (NameAt(j))' = NameOf[c]
          BY <2>1, <2>8, <5>3, <5>4, <5>5
        <5> QED BY <4>1, <5>4, <5>6 DEF DeletedIn
      <4>4. ASSUME NEW d \in (Hit(NameOf[c]))'
            PROVE  (DeletedIn(NameAt(i), 1, i - 1))'
        <5>1. d \in DOMAIN dm /\ NameOf[dm[d].obj] = NameOf[c] BY <1>1, <4>4 DEF Hit
        <5>2. ~Ignored(dm[d]) /\ dm[d].obj \in Objects /\ DeletedComes(dm[d].obj)
          BY <4>1, <5>1 DEF UnbrokenInv, EntriesExist, ExistsOrGoes
        <5>3. PICK j \in Idx : queue[j].type = "Deleted" /\ queue[j].obj = dm[d].obj
          BY <5>2 DEF DeletedComes
        <5>4. Seen(j) /\ NameAt(j) = NameOf[c] /\ j \in 1..(i - 1)
          BY <4>2, <5>1, <5>2, <5>3 DEF Seen, NameAt, Ignored, Namespaced, Idx
        <5>5. queue'[j].type = "Deleted" /\ (Seen(j))' /\ (NameAt(j))' = NameOf[c]
          BY <2>1, <2>8, <5>3, <5>4
        <5> QED BY <4>1, <5>4, <5>5 DEF DeletedIn
      <4>5. (Hit(NameAt(i)))' = (Hit(NameOf[c]))' BY <4>1 DEF Hit
      <4> QED BY <4>1, <4>3, <4>4, <4>5 DEF AddedLast
    <3> QED BY <2>1, <2>10, <3>1, <3>2
  <2> QED BY <1>2, <2>5, <2>7, <2>10 DEF UnbrokenInv
<1> QED BY <1>3, <1>4

\* The first watch.
LEMMA UnbrokenOpened ==
    ASSUME StateInv, UnbrokenInv, WatchOpens
    PROVE  UnbrokenInv'
<1> SUFFICES ASSUME gaps = 0 PROVE UnbrokenInv' BY DEF UnbrokenInv, WatchOpens
<1>1. ~watching /\ watching' /\ UNCHANGED <<cluster, stopping, last, dm, told>> /\ Names' = Names
  BY DEF WatchOpens, Names
<1>2. DOMAIN dm' = {} /\ \A n \in Names' : ~told'[n].there BY <1>1 DEF UnbrokenInv
<1>3. ~stopping' /\ (kind' # "service" => last' = 0) BY <1>1 DEF UnbrokenInv, cluster
<1>4. /\ \A i \in Idx' : queue'[i].obj \in alive /\ i \in Nat
      /\ \A i, j \in Idx' : queue'[i].obj = queue'[j].obj => i = j
  BY OpenedQueue DEF StateInv, Idx
<1>5. ASSUME NEW i \in Idx' PROVE AddedLast(i)'
  <2>1. \A k \in 1..(i - 1) : k \in Idx' /\ k # i BY <1>4, OpenedQueue DEF Idx, StateInv
  <2>2. \A k \in 1..(i - 1) : (NameAt(k))' # (NameAt(i))'
    BY <1>4, <2>1 DEF NameAt, StateInv, ClusterInv
  <2>3. (Hit(NameAt(i)))' = {} BY <1>2 DEF Hit
  <2> QED BY <2>2, <2>3 DEF AddedLast
<1> QED BY <1>1, <1>2, <1>3, <1>5 DEF UnbrokenInv, EntriesExist, EntriesOnce

\* The first event is no deletion that is seen.
Spared == Ignored(Head1) \/ Head1.type # "Deleted"

\* What was queued is queued one place further on, but for the first event.
LEMMA ShiftedQueue ==
    ASSUME StateInv, Handled
    PROVE  /\ Len(queue) \in Nat /\ Len(queue') = Len(queue) - 1
           /\ \A i \in Idx' : /\ i \in Nat /\ i >= 1 /\ i + 1 \in Idx /\ queue'[i] = queue[i + 1]
                              /\ (Seen(i))' = Seen(i + 1) /\ (NameAt(i))' = NameAt(i + 1)
           /\ \A j \in Idx : j # 1 => /\ j - 1 \in Idx' /\ queue'[j - 1] = queue[j]
                                      /\ (Seen(j - 1))' = Seen(j) /\ (NameAt(j - 1))' = NameAt(j)
           /\ 1 \in Idx /\ Head1 = queue[1] /\ NameAt(1) = NameOf[Head1.obj]
           /\ Seen(1) = ~Ignored(Head1)
<1>1. /\ Len(queue) \in Nat /\ Len(queue') = Len(queue) - 1 /\ 1 \in Idx /\ Head1 = queue[1]
      /\ \A i \in Idx' : i \in Nat /\ i >= 1 /\ i + 1 \in Idx /\ queue'[i] = queue[i + 1]
      /\ \A i \in Idx : i \in Nat /\ (i = 1 \/ i - 1 \in Idx')
  BY HandledQueue DEF StateInv
<1>2. kind' = kind BY DEF Handled, cluster
<1>3. \A i \in Idx' : (Seen(i))' = Seen(i + 1) /\ (NameAt(i))' = NameAt(i + 1)
  BY <1>1, <1>2 DEF Seen, NameAt, Ignored, Namespaced
<1>4. ASSUME NEW j \in Idx, j # 1
      PROVE  /\ j - 1 \in Idx' /\ queue'[j - 1] = queue[j]
             /\ (Seen(j - 1))' = Seen(j) /\ (NameAt(j - 1))' = NameAt(j)
  <2>1. j - 1 \in Idx' /\ (j - 1) + 1 = j BY <1>1, <1>4
  <2>2. queue'[j - 1] = queue[j] BY <1>1, <2>1
  <2> QED BY <1>2, <2>1, <2>2 DEF Seen, NameAt, Ignored, Namespaced
<1>5. NameAt(1) = NameOf[Head1.obj] /\ Seen(1) = ~Ignored(Head1) BY <1>1 DEF NameAt, Seen
<1> QED BY <1>1, <1>3, <1>4, <1>5

\* An object that exists or whose deletion is queued still is, but for the one
\* whose deletion was handled.
LEMMA GoesLater ==
    ASSUME StateInv, Handled, NEW o \in Objects, ~Ignored([obj |-> o]), ExistsOrGoes(o),
           Spared \/ o # Head1.obj
    PROVE  ExistsOrGoes(o)'
<1>1. alive' = alive BY DEF Handled, cluster
<1>2. CASE o \in alive BY <1>1, <1>2 DEF ExistsOrGoes
<1>3. CASE DeletedComes(o)
  <2>1. PICK j \in Idx : queue[j].type = "Deleted" /\ queue[j].obj = o BY <1>3 DEF DeletedComes
  <2>2. j # 1
    <3> SUFFICES ASSUME j = 1 PROVE FALSE OBVIOUS
    <3>1. Head1.type = "Deleted" /\ Head1.obj = o BY <2>1, ShiftedQueue
    <3> QED BY <3>1 DEF Spared, Ignored, Namespaced
  <2>3. j - 1 \in Idx' /\ queue'[j - 1] = queue[j] BY <2>2, ShiftedQueue
  <2> QED BY <2>1, <2>3 DEF ExistsOrGoes, DeletedComes
<1> QED BY <1>2, <1>3 DEF ExistsOrGoes

\* The object of an event that is no deletion exists, or its deletion is queued.
LEMMA HeadGoesLater ==
    ASSUME StateInv, Handled, Head1.type # "Deleted", NEW o \in Objects, o = Head1.obj
    PROVE  ExistsOrGoes(o)'
<1>1. 1 \in Idx /\ Head1 = queue[1] /\ Len(queue) \in Nat BY ShiftedQueue
<1>2. alive' = alive BY DEF Handled, cluster
<1>3. CASE o \in alive BY <1>2, <1>3 DEF ExistsOrGoes
<1>4. CASE o \notin alive
  <2>1. PICK j \in 1..Len(queue) : queue[j].type = "Deleted" /\ queue[j].obj = o
    BY <1>1, <1>4 DEF StateInv, QueueInv
  <2>2. j \in Idx /\ j # 1 BY <1>1, <2>1 DEF Idx
  <2>3. j - 1 \in Idx' /\ queue'[j - 1] = queue[j] BY <2>2, ShiftedQueue
  <2> QED BY <2>1, <2>3 DEF ExistsOrGoes, DeletedComes
<1> QED BY <1>3, <1>4

\* An addition stays behind the deletions of its name.
LEMMA AddedLater ==
    ASSUME StateInv, Handled, NEW i \in Idx', AddedLast(i + 1),
           (Hit(NameAt(i)))' # {} => /\ DeletedIn(NameAt(i + 1), 1, i)
                                     /\ Spared \/ NameAt(i + 1) # NameOf[Head1.obj]
    PROVE  AddedLast(i)'
<1>1. /\ Len(queue) \in Nat /\ Len(queue') = Len(queue) - 1
      /\ \A x \in Idx' : /\ x \in Nat /\ x >= 1 /\ x + 1 \in Idx /\ queue'[x] = queue[x + 1]
                         /\ (Seen(x))' = Seen(x + 1) /\ (NameAt(x))' = NameAt(x + 1)
      /\ \A j \in Idx : j # 1 => /\ j - 1 \in Idx' /\ queue'[j - 1] = queue[j]
                                 /\ (Seen(j - 1))' = Seen(j) /\ (NameAt(j - 1))' = NameAt(j)
      /\ 1 \in Idx /\ Head1 = queue[1] /\ NameAt(1) = NameOf[Head1.obj]
      /\ Seen(1) = ~Ignored(Head1)
  BY ShiftedQueue
<1>2. i \in Nat /\ i >= 1 /\ i + 1 \in Idx /\ (i + 1) - 1 = i BY <1>1
<1>3. \A j \in 1..i : j \in Idx /\ j \in Nat /\ j >= 1 BY <1>1, <1>2 DEF Idx
<1>4. ASSUME NEW k \in Nat, k >= 1, NEW j \in k..i, j # 1, queue[j].type = "Deleted", Seen(j),
             NameAt(j) = NameAt(i + 1), NEW l \in Nat, l <= j - 1
      PROVE  (DeletedIn(NameAt(i), l, i - 1))'
  <2>1. j \in Idx /\ j \in Nat BY <1>2, <1>3, <1>4
  <2>2. j - 1 \in l..(i - 1) BY <1>2, <1>4, <2>1
  <2>3. queue'[j - 1].type = "Deleted" /\ (Seen(j - 1))' /\ (NameAt(j - 1))' = (NameAt(i))'
    BY <1>1, <1>4, <2>1
  <2> QED BY <2>2, <2>3 DEF DeletedIn
<1>5. ASSUME NEW k \in 1..(i - 1), (Seen(k))', (NameAt(k))' = (NameAt(i))'
      PROVE  (DeletedIn(NameAt(i), k, i - 1))'
  <2>1. k \in Idx' /\ k \in Nat /\ k >= 1 /\ k + 1 \in 1..i BY <1>1, <1>2 DEF Idx
  <2>2. Seen(k + 1) /\ NameAt(k + 1) = NameAt(i + 1) BY <1>1, <1>5, <2>1
  <2>3. DeletedIn(NameAt(i + 1), k + 1, i) BY <1>2, <2>1, <2>2 DEF AddedLast
  <2>4. PICK j \in (k + 1)..i : queue[j].type = "Deleted" /\ Seen(j) /\ NameAt(j) = NameAt(i + 1)
    BY <2>3 DEF DeletedIn
  <2>5. k + 1 \in Nat /\ k + 1 >= 1 /\ j # 1 /\ k <= j - 1 BY <1>2, <2>1, <2>4
  <2> QED BY <1>4, <2>1, <2>4, <2>5
<1>6. ASSUME (Hit(NameAt(i)))' # {}
      PROVE  (DeletedIn(NameAt(i), 1, i - 1))'
  <2>1. PICK j \in 1..i : queue[j].type = "Deleted" /\ Seen(j) /\ NameAt(j) = NameAt(i + 1)
    BY <1>6 DEF DeletedIn
  <2>2. j # 1 BY <1>1, <1>6, <2>1 DEF Spared
  <2>3. 1 <= j - 1 BY <1>3, <2>1, <2>2
  <2> QED BY <1>4, <2>1, <2>2, <2>3
<1> QED BY <1>5, <1>6 DEF AddedLast

\* The parts of the invariant an event can disturb.
UnbrokenParts ==
    /\ EntriesExist /\ EntriesOnce
    /\ \A i \in Idx : queue[i].type = "Added" /\ Seen(i) => AddedLast(i)
    /\ \A n \in Names : told[n].there => ToldExists(n)

\* An addition that is still queued, before the event was handled.
LEMMA AddedBefore ==
    ASSUME StateInv, Handled, UnbrokenParts, NEW i \in Idx', queue'[i].type = "Added", (Seen(i))'
    PROVE  /\ AddedLast(i + 1) /\ (NameAt(i))' = NameAt(i + 1)
           /\ Hit(NameAt(i + 1)) # {} => DeletedIn(NameAt(i + 1), 1, i)
           /\ ~Ignored(Head1) /\ NameAt(i + 1) = NameOf[Head1.obj] => DeletedIn(NameAt(i + 1), 1, i)
<1>1. /\ i \in Nat /\ i >= 1 /\ i + 1 \in Idx /\ queue[i + 1].type = "Added" /\ Seen(i + 1)
      /\ (NameAt(i))' = NameAt(i + 1)
      /\ NameAt(1) = NameOf[Head1.obj] /\ Seen(1) = ~Ignored(Head1)
  BY ShiftedQueue
<1>2. AddedLast(i + 1) BY <1>1 DEF UnbrokenParts
<1>3. (i + 1) - 1 = i /\ 1 \in 1..i BY <1>1
<1>4. ~Ignored(Head1) /\ NameAt(i + 1) = NameOf[Head1.obj] => DeletedIn(NameAt(i + 1), 1, i)
  BY <1>1, <1>2, <1>3 DEF AddedLast
<1> QED BY <1>1, <1>2, <1>3, <1>4 DEF AddedLast

\* A skipped event: nothing changes.
LEMMA UnbrokenSkips ==
    ASSUME StateInv, Handled, UnbrokenParts, Skips
    PROVE  UnbrokenParts'
<1>1. UNCHANGED <<kind, dm, told>> /\ Names' = Names
  BY DEF Skips, Handled, cluster, collector, Names
<1>2. Spared BY DEF Skips, Spared, IsOld
<1>3. EntriesExist'
  <2> SUFFICES ASSUME NEW d \in DOMAIN dm
               PROVE  dm[d].obj \in Objects /\ ~(Ignored(dm[d]))' /\ ExistsOrGoes(dm[d].obj)'
    BY <1>1 DEF EntriesExist
  <2>1. dm[d].obj \in Objects /\ ~Ignored(dm[d]) /\ ExistsOrGoes(dm[d].obj)
    BY DEF UnbrokenParts, EntriesExist
  <2>2. ~Ignored([obj |-> dm[d].obj]) BY <2>1 DEF Ignored, Namespaced
  <2>3. ExistsOrGoes(dm[d].obj)' BY <1>1, <1>2, <2>1, <2>2, GoesLater
  <2> QED BY <1>1, <2>1, <2>3 DEF Ignored, Namespaced
<1>4. EntriesOnce' BY <1>1 DEF UnbrokenParts, EntriesOnce
<1>5. ASSUME NEW i \in Idx', queue'[i].type = "Added", (Seen(i))' PROVE AddedLast(i)'
  <2>1. AddedLast(i + 1) /\ (NameAt(i))' = NameAt(i + 1)
        /\ (Hit(NameAt(i + 1)) # {} => DeletedIn(NameAt(i + 1), 1, i))
    BY <1>5, AddedBefore
  <2>2. (Hit(NameAt(i)))' = Hit(NameAt(i + 1)) BY <1>1, <2>1 DEF Hit
  <2> QED BY <1>2, <2>1, <2>2, AddedLater
<1>6. ASSUME NEW n \in Names', told'[n].there PROVE ToldExists(n)'
  <2>1. n \in Names /\ ToldExists(n) BY <1>1, <1>6 DEF UnbrokenParts
  <2>2. PICK o \in Objects : NameOf[o] = n /\ ~Ignored([obj |-> o]) /\ ExistsOrGoes(o)
    BY <2>1 DEF ToldExists
  <2>3. ExistsOrGoes(o)' BY <1>2, <2>2, GoesLater
  <2>4. (Hit(n))' = Hit(n) BY <1>1 DEF Hit
  <2> QED BY <1>1, <2>1, <2>2, <2>3, <2>4 DEF ToldExists, Ignored, Namespaced
<1> QED BY <1>3, <1>4, <1>5, <1>6 DEF UnbrokenParts

\* A new object: nothing of its name is left, and it goes into dictionary and
\* report.
LEMMA UnbrokenAdds ==
    ASSUME StateInv, Handled, UnbrokenParts, AddsObject
    PROVE  UnbrokenParts'
<1>0. PICK c \in Objects : c = Head1.obj BY HandledEvent DEF StateInv
<1>1. /\ kind' = kind /\ Names' = Names /\ ~Ignored(Head1) /\ Head1.type = "Added"
      /\ dm' = Added(Head1) /\ Reports(Head1, TRUE)
  BY DEF AddsObject, Handled, cluster, Names
<1>2. /\ NameOf[c] \in Names /\ Head1.rev \in Nat /\ Entry(Head1).obj = c
  BY <1>0, HandledEvent DEF StateInv
<1>3. nextId \notin DOMAIN dm BY DEF StateInv, CollectorInv, DictInv
<1>4. /\ DOMAIN dm' = DOMAIN dm \cup {nextId}
      /\ dm'[nextId].obj = c /\ \A d \in DOMAIN dm : dm'[d] = dm[d] /\ d # nextId
  BY <1>1, <1>2, <1>3 DEF Added
<1>5. Spared /\ ExistsOrGoes(c)' BY <1>0, <1>1, HeadGoesLater DEF Spared
<1>6. ~(Ignored([obj |-> c]))' BY <1>0, <1>1 DEF Ignored, Namespaced
<1>7. Hit(NameOf[c]) = {}
  <2>1. 1 \in Idx /\ queue[1].type = "Added" /\ Seen(1) /\ NameAt(1) = NameOf[c]
    BY <1>0, <1>1, ShiftedQueue
  <2>2. Hit(NameOf[c]) # {} => DeletedIn(NameOf[c], 1, 1 - 1)
    BY <2>1 DEF UnbrokenParts, AddedLast
  <2> QED BY <2>2 DEF DeletedIn
<1>8. \A d \in DOMAIN dm : NameOf[dm[d].obj] # NameOf[c] BY <1>7 DEF Hit
<1>9. told' \in [Names -> [rev : Nat, there : BOOLEAN]]
      /\ \A n \in Names : n # NameOf[c] => told'[n] = told[n]
  <2>1. told \in [Names -> [rev : Nat, there : BOOLEAN]] BY DEF StateInv, CollectorInv, ReportInv
  <2>2. told' = [told EXCEPT ![NameOf[c]] = [rev |-> Head1.rev, there |-> TRUE]]
    BY <1>0, <1>1 DEF Reports
  <2> QED BY <1>2, <2>1, <2>2
<1>10. EntriesExist'
  <2> SUFFICES ASSUME NEW d \in DOMAIN dm'
               PROVE  dm'[d].obj \in Objects /\ ~(Ignored(dm[d]))' /\ (ExistsOrGoes(dm[d].obj))'
    BY DEF EntriesExist
  <2>1. CASE d = nextId
    <3>1. dm'[d].obj = c BY <1>4, <2>1
    <3>2. (ExistsOrGoes(dm[d].obj))' BY <1>5, <3>1 DEF ExistsOrGoes, DeletedComes
    <3> QED BY <1>2, <1>6, <3>1, <3>2 DEF Ignored, Namespaced
  <2>2. CASE d \in DOMAIN dm
    <3> DEFINE o == dm[d].obj
    <3>1. dm'[d] = dm[d] BY <1>4, <2>2
    <3>2. o \in Objects /\ ~Ignored([obj |-> o]) /\ ExistsOrGoes(o)
      BY <2>2 DEF UnbrokenParts, EntriesExist, Ignored, Namespaced
    <3>3. \A p \in Objects : ~Ignored([obj |-> p]) /\ ExistsOrGoes(p) => ExistsOrGoes(p)'
      BY <1>5, GoesLater
    <3>4. dm'[d].obj \in Objects /\ ExistsOrGoes(dm'[d].obj)
          /\ ~Ignored([obj |-> dm'[d].obj])
      BY <3>1, <3>2
    <3>5. (ExistsOrGoes(dm[d].obj))' BY <3>3, <3>4 DEF ExistsOrGoes, DeletedComes
    <3> QED BY <1>1, <3>4, <3>5 DEF Ignored, Namespaced
  <2> QED BY <1>4, <2>1, <2>2
<1>11. EntriesOnce' BY <1>4, <1>8 DEF UnbrokenParts, EntriesOnce
<1>12. ASSUME NEW i \in Idx', queue'[i].type = "Added", (Seen(i))' PROVE AddedLast(i)'
  <2>1. AddedLast(i + 1) /\ (NameAt(i))' = NameAt(i + 1)
        /\ (Hit(NameAt(i + 1)) # {} => DeletedIn(NameAt(i + 1), 1, i))
        /\ (NameAt(i + 1) = NameOf[c] => DeletedIn(NameAt(i + 1), 1, i))
    BY <1>0, <1>1, <1>12, AddedBefore
  <2>2. (Hit(NameAt(i)))' # {} => NameAt(i + 1) = NameOf[c] \/ Hit(NameAt(i + 1)) # {}
    BY <1>4, <2>1 DEF Hit
  <2> QED BY <1>5, <2>1, <2>2, AddedLater
<1>13. ASSUME NEW n \in Names', told'[n].there PROVE ToldExists(n)'
  <2>1. CASE n = NameOf[c]
    <3>1. (Hit(n))' # {} BY <1>4, <2>1 DEF Hit
    <3> QED BY <1>2, <1>5, <1>6, <2>1, <3>1 DEF ToldExists
  <2>2. CASE n # NameOf[c]
    <3>1. n \in Names /\ ToldExists(n) BY <1>1, <1>9, <1>13, <2>2 DEF UnbrokenParts
    <3>2. PICK o \in Objects : NameOf[o] = n /\ ~Ignored([obj |-> o]) /\ ExistsOrGoes(o)
      BY <3>1 DEF ToldExists
    <3>3. ExistsOrGoes(o)' BY <1>5, <3>2, GoesLater
    <3>4. Hit(n) # {} => (Hit(n))' # {} BY <1>4 DEF Hit
    <3> QED BY <1>1, <3>1, <3>2, <3>3, <3>4 DEF ToldExists, Ignored, Namespaced
  <2> QED BY <2>1, <2>2
<1> QED BY <1>10, <1>11, <1>12, <1>13 DEF UnbrokenParts

\* What an update or a removal does to the names in the dictionary.
LEMMA RewrittenNames ==
    ASSUME DictRewrites, NEW c \in Objects, c = Head1.obj, Entry(Head1).obj = c
    PROVE  /\ DOMAIN dm' = DOMAIN dm
           /\ \A d \in DOMAIN dm : dm'[d].obj = dm[d].obj \/ dm'[d].obj = c
           /\ \A d \in DOMAIN dm : NameOf[dm'[d].obj] = NameOf[dm[d].obj]
           /\ \A n : (Hit(n))' = Hit(n)
<1>1. PICK x \in Hits(Head1) : dm' = [dm EXCEPT ![x] = Entry(Head1)] BY DEF DictRewrites
<1>2. x \in DOMAIN dm /\ NameOf[dm[x].obj] = NameOf[c] BY DEF Hits
<1>3. /\ DOMAIN dm' = DOMAIN dm /\ dm'[x].obj = c
      /\ \A d \in DOMAIN dm : d # x => dm'[d] = dm[d]
  BY <1>1, <1>2
<1>4. \A d \in DOMAIN dm : NameOf[dm'[d].obj] = NameOf[dm[d].obj] BY <1>2, <1>3
<1> QED BY <1>3, <1>4 DEF Hit

\* An object that is updated, as one entry and in the report, or in neither.
LEMMA UnbrokenUpdates ==
    ASSUME StateInv, Handled, UnbrokenParts, NEW c \in Objects, c = Head1.obj,
           ~Ignored(Head1), Head1.type # "Deleted", dm' = dm \/ DictRewrites,
           told' = told \/ (Reports(Head1, TRUE) /\ (kind = "node" => Hits(Head1) # {}))
    PROVE  UnbrokenParts'
<1>1. kind' = kind /\ Names' = Names BY DEF Handled, cluster, Names
<1>2. NameOf[c] \in Names /\ Head1.rev \in Nat /\ Entry(Head1).obj = c
  BY HandledEvent DEF StateInv
<1>3. Spared /\ ExistsOrGoes(c)' BY HeadGoesLater DEF Spared
<1>4. ~(Ignored([obj |-> c]))' /\ ~Ignored([obj |-> c]) BY <1>1 DEF Ignored, Namespaced
<1>5. /\ DOMAIN dm' = DOMAIN dm
      /\ \A d \in DOMAIN dm : dm'[d].obj = dm[d].obj \/ dm'[d].obj = c
      /\ \A d \in DOMAIN dm : NameOf[dm'[d].obj] = NameOf[dm[d].obj]
      /\ \A n : (Hit(n))' = Hit(n)
  <2>1. CASE dm' = dm BY <2>1 DEF Hit
  <2>2. CASE DictRewrites BY <1>2, <2>2, RewrittenNames
  <2> QED BY <2>1, <2>2
<1>6. \A o \in Objects : ~Ignored([obj |-> o]) /\ ExistsOrGoes(o) => ExistsOrGoes(o)'
  BY <1>3, GoesLater
<1>7. EntriesExist'
  <2> SUFFICES ASSUME NEW d \in DOMAIN dm
               PROVE  dm'[d].obj \in Objects /\ ~(Ignored(dm[d]))' /\ (ExistsOrGoes(dm[d].obj))'
    BY <1>5 DEF EntriesExist
  <2>1. dm[d].obj \in Objects /\ ~Ignored([obj |-> dm[d].obj]) /\ ExistsOrGoes(dm[d].obj)
    BY DEF UnbrokenParts, EntriesExist, Ignored, Namespaced
  <2>2. PICK o \in Objects : o = dm'[d].obj /\ ~Ignored([obj |-> o]) /\ ExistsOrGoes(o)'
    BY <1>3, <1>4, <1>5, <1>6, <2>1
  <2>3. (ExistsOrGoes(dm[d].obj))' BY <2>2 DEF ExistsOrGoes, DeletedComes
  <2> QED BY <1>1, <2>2, <2>3 DEF Ignored, Namespaced
<1>8. EntriesOnce' BY <1>5 DEF UnbrokenParts, EntriesOnce
<1>9. ASSUME NEW i \in Idx', queue'[i].type = "Added", (Seen(i))' PROVE AddedLast(i)'
  <2>1. AddedLast(i + 1) /\ (NameAt(i))' = NameAt(i + 1)
        /\ (Hit(NameAt(i + 1)) # {} => DeletedIn(NameAt(i + 1), 1, i))
    BY <1>9, AddedBefore
  <2>2. (Hit(NameAt(i)))' # {} => Hit(NameAt(i + 1)) # {} BY <1>5, <2>1 DEF Hit
  <2> QED BY <1>3, <2>1, <2>2, AddedLater
<1>10. ASSUME NEW n \in Names', told'[n].there PROVE ToldExists(n)'
  <2>1. CASE told'[n] = told[n]
    <3>1. n \in Names /\ ToldExists(n) BY <1>1, <1>10, <2>1 DEF UnbrokenParts
    <3>2. PICK o \in Objects : NameOf[o] = n /\ ~Ignored([obj |-> o]) /\ ExistsOrGoes(o)
      BY <3>1 DEF ToldExists
    <3>3. ExistsOrGoes(o)' BY <1>6, <3>2
    <3>4. (Hit(n))' = Hit(n) BY <1>5
    <3> QED BY <1>1, <3>1, <3>2, <3>3, <3>4 DEF ToldExists, Ignored, Namespaced
  <2>2. CASE n = NameOf[c] /\ Reports(Head1, TRUE) /\ (kind = "node" => Hits(Head1) # {})
    <3>1. Hits(Head1) = Hit(n) BY <2>2 DEF Hits, Hit
    <3>2. kind' = "node" => (Hit(n))' # {} BY <1>1, <1>5, <2>2, <3>1
    <3> QED BY <1>3, <1>4, <2>2, <3>2 DEF ToldExists
  <2>3. told'[n] = told[n] \/ (n = NameOf[c] /\ Reports(Head1, TRUE) /\ (kind = "node" => Hits(Head1) # {}))
    <3>1. told \in [Names -> [rev : Nat, there : BOOLEAN]] BY DEF StateInv, CollectorInv, ReportInv
    <3>2. Reports(Head1, TRUE) => told' = [told EXCEPT ![NameOf[c]] = [rev |-> Head1.rev, there |-> TRUE]]
      BY DEF Reports
    <3>3. Reports(Head1, TRUE) /\ n # NameOf[c] => told'[n] = told[n]
      BY <1>1, <3>1, <3>2
    <3> QED BY <3>3
  <2> QED BY <2>1, <2>2, <2>3
<1> QED BY <1>7, <1>8, <1>9, <1>10 DEF UnbrokenParts

\* An object that is removed, with its entry, and from the report.
LEMMA UnbrokenRemoves ==
    ASSUME StateInv, Handled, UnbrokenParts, NEW c \in Objects, c = Head1.obj,
           Head1.type = "Deleted",
           DOMAIN dm' = {d \in DOMAIN dm : NameOf[dm[d].obj] # NameOf[c]},
           \A d \in DOMAIN dm' : dm'[d] = dm[d],
           Reports(Head1, FALSE) \/ (kind = "node" /\ Hits(Head1) = {} /\ told' = told)
    PROVE  UnbrokenParts'
<1>1. kind' = kind /\ Names' = Names BY DEF Handled, cluster, Names
<1>2. \A n : n # NameOf[c] => (Hit(n))' = Hit(n) BY DEF Hit
<1>3. \A d \in DOMAIN dm' : d \in DOMAIN dm /\ dm'[d].obj = dm[d].obj /\ NameOf[dm[d].obj] # NameOf[c]
  OBVIOUS
<1>4. \A o \in Objects : NameOf[o] # NameOf[c] /\ ~Ignored([obj |-> o]) /\ ExistsOrGoes(o) => ExistsOrGoes(o)'
  BY GoesLater
<1>5. EntriesExist'
  <2> SUFFICES ASSUME NEW d \in DOMAIN dm'
               PROVE  dm'[d].obj \in Objects /\ ~(Ignored(dm[d]))' /\ (ExistsOrGoes(dm[d].obj))'
    BY DEF EntriesExist
  <2>1. dm[d].obj \in Objects /\ ~Ignored([obj |-> dm[d].obj]) /\ ExistsOrGoes(dm[d].obj)
    BY <1>3 DEF UnbrokenParts, EntriesExist, Ignored, Namespaced
  <2>2. PICK o \in Objects : o = dm'[d].obj /\ ~Ignored([obj |-> o]) /\ ExistsOrGoes(o)'
    BY <1>3, <1>4, <2>1
  <2>3. (ExistsOrGoes(dm[d].obj))' BY <2>2 DEF ExistsOrGoes, DeletedComes
  <2> QED BY <1>1, <2>2, <2>3 DEF Ignored, Namespaced
<1>6. EntriesOnce' BY <1>3 DEF UnbrokenParts, EntriesOnce
<1>7. ASSUME NEW i \in Idx', queue'[i].type = "Added", (Seen(i))' PROVE AddedLast(i)'
  <2>1. AddedLast(i + 1) /\ (NameAt(i))' = NameAt(i + 1)
        /\ (Hit(NameAt(i + 1)) # {} => DeletedIn(NameAt(i + 1), 1, i))
    BY <1>7, AddedBefore
  <2>2. (Hit(NameAt(i)))' # {} => Hit(NameAt(i + 1)) # {} /\ NameAt(i + 1) # NameOf[c]
    BY <1>3, <2>1 DEF Hit
  <2> QED BY <2>1, <2>2, AddedLater
<1>8. ASSUME NEW n \in Names', told'[n].there PROVE ToldExists(n)'
  <2>1. told \in [Names -> [rev : Nat, there : BOOLEAN]] BY DEF StateInv, CollectorInv, ReportInv
  <2>2. Reports(Head1, FALSE) => told' = [told EXCEPT ![NameOf[c]] = [rev |-> Head1.rev, there |-> FALSE]]
    BY DEF Reports
  <2>3. told'[n] = told[n]
    <3>1. Reports(Head1, FALSE) => n # NameOf[c] BY <1>1, <1>8, <2>1, <2>2
    <3>2. Reports(Head1, FALSE) => told'[n] = told[n] BY <1>1, <2>1, <2>2, <3>1
    <3> QED BY <3>2
  <2>4. n \in Names /\ ToldExists(n) BY <1>1, <1>8, <2>3 DEF UnbrokenParts
  <2>5. n # NameOf[c]
    <3>1. CASE Reports(Head1, FALSE) BY <1>1, <1>8, <2>1, <2>2, <3>1
    <3>2. CASE kind = "node" /\ Hits(Head1) = {}
      <4>1. Hits(Head1) = Hit(NameOf[c]) BY DEF Hits, Hit
      <4> QED BY <2>4, <3>2, <4>1 DEF ToldExists
    <3> QED BY <3>1, <3>2
  <2>6. PICK o \in Objects : NameOf[o] = n /\ ~Ignored([obj |-> o]) /\ ExistsOrGoes(o)
    BY <2>4 DEF ToldExists
  <2>7. ExistsOrGoes(o)' BY <1>4, <2>5, <2>6
  <2>8. (Hit(n))' = Hit(n) BY <1>2, <2>5
  <2> QED BY <1>1, <2>4, <2>6, <2>7, <2>8 DEF ToldExists, Ignored, Namespaced
<1> QED BY <1>5, <1>6, <1>7, <1>8 DEF UnbrokenParts

\* A handled event, whatever the handler does with it.
LEMMA UnbrokenHandled ==
    ASSUME StateInv, UnbrokenInv, Handled,
           Skips \/ AddsObject \/ UpdatesObject \/ RemovesObject \/ CronJob
    PROVE  UnbrokenInv'
<1> SUFFICES ASSUME gaps = 0 PROVE UnbrokenInv' BY DEF UnbrokenInv, Handled
<1>1. /\ UnbrokenParts /\ ~stopping /\ (kind = "cronjob" => DOMAIN dm = {})
      /\ (kind # "service" => last = 0)
  BY DEF UnbrokenInv, UnbrokenParts
<1>2. UNCHANGED <<kind, stopping, last>> /\ watching' /\ watching BY DEF Handled, cluster
<1>3. PICK c \in Objects : c = Head1.obj /\ Entry(Head1).obj = c BY HandledEvent DEF StateInv
<1>4. CASE Skips
  <2>1. UnbrokenParts' BY <1>1, <1>4, UnbrokenSkips
  <2>2. kind' = "cronjob" => DOMAIN dm' = {} BY <1>1, <1>2, <1>4 DEF Skips, collector
  <2> QED BY <1>1, <1>2, <2>1, <2>2 DEF UnbrokenInv, UnbrokenParts
<1>5. CASE AddsObject
  <2>1. UnbrokenParts' BY <1>1, <1>5, UnbrokenAdds
  <2> QED BY <1>1, <1>2, <1>5, <2>1 DEF UnbrokenInv, UnbrokenParts, AddsObject
<1>6. CASE UpdatesObject
  <2>1. dm' = dm \/ DictRewrites BY <1>6 DEF UpdatesObject, Rewritten, DictRewrites
  <2>2. told' = told \/ (Reports(Head1, TRUE) /\ (kind = "node" => Hits(Head1) # {}))
    BY <1>6 DEF UpdatesObject, ReportsNothing
  <2>3. ~Ignored(Head1) /\ Head1.type # "Deleted" BY <1>6 DEF UpdatesObject
  <2>4. UnbrokenParts' BY <1>1, <1>3, <2>1, <2>2, <2>3, UnbrokenUpdates
  <2> QED BY <1>1, <1>2, <1>6, <2>4 DEF UnbrokenInv, UnbrokenParts, UpdatesObject
<1>7. CASE RemovesObject
  <2>1. Hits(Head1) = {d \in DOMAIN dm : NameOf[dm[d].obj] = NameOf[c]} BY <1>3 DEF Hits
  <2>2. /\ DOMAIN dm' = {d \in DOMAIN dm : NameOf[dm[d].obj] # NameOf[c]}
        /\ \A d \in DOMAIN dm' : dm'[d] = dm[d]
    <3>1. CASE Hits(Head1) = {}
      <4>1. dm' = dm BY <1>7, <3>1 DEF RemovesObject, Removed
      <4> QED BY <2>1, <3>1, <4>1
    <3>2. CASE Hits(Head1) # {}
      <4>1. PICK x \in Hits(Head1) : dm' = [d \in DOMAIN dm \ {x} |-> dm[d]]
        BY <1>7, <3>2 DEF RemovesObject, Removed
      <4>2. \A d \in Hits(Head1) : d = x BY <1>1, <2>1 DEF UnbrokenParts, EntriesOnce
      <4> QED BY <2>1, <4>1, <4>2
    <3> QED BY <3>1, <3>2
  <2>3. /\ Head1.type = "Deleted"
        /\ Reports(Head1, FALSE) \/ (kind = "node" /\ Hits(Head1) = {} /\ told' = told)
    BY <1>7 DEF RemovesObject, ReportsNothing
  <2>4. UnbrokenParts' BY <1>1, <1>3, <2>2, <2>3, UnbrokenRemoves
  <2> QED BY <1>1, <1>2, <1>7, <2>4 DEF UnbrokenInv, UnbrokenParts, RemovesObject
<1>8. CASE CronJob
  <2>1. kind = "cronjob" /\ ~Ignored(Head1) /\ dm' = dm /\ DOMAIN dm = {}
    BY <1>1, <1>8 DEF CronJob
  <2>2. ASSUME CronJobAdded \/ CronJobModified PROVE UnbrokenParts'
    <3>1. Reports(Head1, TRUE) /\ Head1.type # "Deleted"
      BY <2>2 DEF CronJobAdded, CronJobModified, Handles
    <3>2. told' = told \/ (Reports(Head1, TRUE) /\ (kind = "node" => Hits(Head1) # {}))
      BY <2>1, <3>1
    <3> QED BY <1>1, <1>3, <2>1, <3>1, <3>2, UnbrokenUpdates
  <2>3. ASSUME CronJobDeleted PROVE UnbrokenParts'
    <3>1. Reports(Head1, FALSE) /\ Head1.type = "Deleted"
      BY <2>3 DEF CronJobDeleted, Handles
    <3>2. /\ DOMAIN dm' = {d \in DOMAIN dm : NameOf[dm[d].obj] # NameOf[c]}
          /\ \A d \in DOMAIN dm' : dm'[d] = dm[d]
      BY <2>1
    <3> QED BY <1>1, <1>3, <3>1, <3>2, UnbrokenRemoves
  <2>4. UnbrokenParts' BY <1>8, <2>2, <2>3 DEF CronJob
  <2> QED BY <1>1, <1>2, <2>1, <2>4 DEF UnbrokenInv, UnbrokenParts
<1> QED BY <1>4, <1>5, <1>6, <1>7, <1>8

\* An interruption is counted, so the invariant says nothing after it.
LEMMA UnbrokenStep == StateInv /\ UnbrokenInv /\ [Next]_vars => UnbrokenInv'
<1> SUFFICES ASSUME StateInv, UnbrokenInv, [Next]_vars PROVE UnbrokenInv' OBVIOUS
<1>1. gaps \in Nat /\ kind \in AllKinds
  BY KindsAssumption, BoundsAssumption DEF StateInv, QueueInv, ClusterInv
<1>2. ASSUME NEW o \in Objects, NEW type \in EventTypes, Emitted(type, o)
      PROVE  UnbrokenInv'
  BY <1>2, UnbrokenEmitted
<1>3. CASE WatchOpens BY <1>3, UnbrokenOpened
<1>4. CASE UNCHANGED <<cluster, channel, dm, told>> /\ (kind # "service" => last' = last)
  <2>1. UNCHANGED <<kind, alive, watching, queue, stopping, gaps, dm, told>>
    BY <1>4 DEF cluster, channel
  <2>2. last' = last \/ kind = "service" BY <1>4
  <2> QED
    BY <2>1, <2>2 DEF UnbrokenInv, EntriesExist, EntriesOnce, AddedLast, DeletedIn, ToldExists,
       ExistsOrGoes, DeletedComes, Hit, Seen, Ignored, Namespaced, NameAt, Idx, Names
<1>5. CASE OpenFails
  <2>1. UNCHANGED <<cluster, channel, dm, told>> /\ (last' # last => kind = "service" \/ kind \notin AllKinds)
    BY <1>5, FailEffect
  <2> QED BY <1>1, <1>4, <2>1
<1>6. CASE Ended
  <2>1. gaps' # 0 BY <1>1, <1>6 DEF Ended, UnbrokenInv
  <2> QED BY <2>1 DEF UnbrokenInv
<1>7. CASE StateIsReset
  <2>1. gaps' # 0 BY <1>1, <1>7 DEF StateIsReset
  <2> QED BY <2>1 DEF UnbrokenInv
<1>8. CASE Handled /\ (Skips \/ AddsObject \/ UpdatesObject \/ RemovesObject \/ CronJob)
  BY <1>8, UnbrokenHandled
<1>9. CASE UNCHANGED vars BY <1>4, <1>9 DEF vars, collector
<1> QED BY <1>2, <1>3, <1>5, <1>6, <1>7, <1>8, <1>9, StepCases DEF StateInv

-----------------------------------------------------------------------------
(* What reports and dictionary say once all events are handled.             *)

\* All invariants together.
LEMMA FollowAlways == Spec => [](StateInv /\ ToldInv /\ FollowInv /\ UnbrokenInv)
<1> USE StateInit, StateStep, ToldInit, ToldStep, FollowInit, FollowStep, UnbrokenInit, UnbrokenStep
<1> QED BY PTL DEF Spec

\* Once all events are handled the reports say of every followed object what it
\* is now; without an interruption they name nothing that does not exist.
THEOREM ReportsFollow == Spec => []ViewFollowsCluster
<1>1. FollowInv /\ UnbrokenInv => ViewFollowsCluster
  <2> SUFFICES ASSUME FollowInv, UnbrokenInv, Idle
               PROVE  /\ \A o \in Objects : Followed(o) => IsTold(o)
                      /\ gaps = 0 => \A n \in Names : told[n].there => \E o \in alive : NameOf[o] = n
                      /\ gaps = 0 /\ kind # "service" => last = 0
    BY DEF ViewFollowsCluster
  <2>1. Open /\ Idx = {} BY DEF Idle, Open, Idx
  <2>2. \A o \in Objects : Followed(o) => IsTold(o) BY <2>1 DEF FollowInv, ToldOrComes, NewsComes
  <2>3. gaps = 0 => \A n \in Names : told[n].there => \E o \in alive : NameOf[o] = n
    BY <2>1 DEF UnbrokenInv, ToldExists, ExistsOrGoes, DeletedComes
  <2>4. gaps = 0 /\ kind # "service" => last = 0 BY DEF UnbrokenInv
  <2> QED BY <2>2, <2>3, <2>4
<1> QED BY <1>1, FollowAlways, PTL

\* The dictionary then has an entry for every followed object, current but for
\* namespaces; without an interruption it has no other and none twice.
THEOREM DictionaryFollows == Spec => []DictionaryFollowsCluster
<1>1. FollowInv /\ UnbrokenInv => DictionaryFollowsCluster
  <2> SUFFICES ASSUME FollowInv, UnbrokenInv, Idle, kind # "cronjob"
               PROVE  /\ \A o \in Objects : Followed(o) =>
                            \E i \in DOMAIN dm : dm[i].obj = o /\ (kind # "namespace" => dm[i].rev = rev[o])
                      /\ gaps = 0 => /\ \A i \in DOMAIN dm : dm[i].obj \in alive
                                     /\ \A i, j \in DOMAIN dm : dm[i].obj = dm[j].obj => i = j
    BY DEF DictionaryFollowsCluster
  <2>1. Open /\ Idx = {} BY DEF Idle, Open, Idx
  <2>2. \A o \in Objects : ~AddedComes(o) /\ ~NewsComes(o) /\ ~DeletedComes(o)
    BY <2>1 DEF AddedComes, NewsComes, DeletedComes
  <2>3. ASSUME NEW o \in Objects, Followed(o)
        PROVE  \E i \in DOMAIN dm : dm[i].obj = o /\ (kind # "namespace" => dm[i].rev = rev[o])
    BY <2>1, <2>2, <2>3 DEF FollowInv, KeptOrComes, Kept
  <2>4. gaps = 0 => /\ \A i \in DOMAIN dm : dm[i].obj \in alive
                    /\ \A i, j \in DOMAIN dm : dm[i].obj = dm[j].obj => i = j
    BY <2>2 DEF UnbrokenInv, EntriesExist, EntriesOnce, ExistsOrGoes
  <2> QED BY <2>3, <2>4
<1> QED BY <1>1, FollowAlways, PTL
==============================================================================
