---------------------------- MODULE PodWatchProofs ----------------------------
(***************************************************************************)
(* Proofs about PodWatch, for any finite set of pods, any owners and names *)
(* and any number of specs, interruptions and queued events: the types, and *)
(* that only old pods are missed; that registry and view agree, when names *)
(* are never used again or all owners are stateful sets; and what holds of *)
(* stateful sets until the first watch ends.                               *)
(***************************************************************************)
EXTENDS PodWatch, QueueLemmas

-----------------------------------------------------------------------------
(* The invariants.                                                          *)

Idx == 1..Len(queue)
Is(i, type, p) == queue[i].type = type /\ queue[i].pod = p
Queued(type, p) == \E i \in Idx : Is(i, type, p)
Created == {p \in Pods : phase[p] # "absent"}

Phases == {"absent", "starting", "running", "terminating", "gone"}
EventTypes == {"Added", "Modified", "Terminating", "Deleted"}
Events == [type : EventTypes, pod : Pods, running : BOOLEAN]

\* Pods: the clock counts those created, each has a creation time of its own,
\* and no two that exist have the same name.
ClusterInv ==
    /\ phase \in [Pods -> Phases] /\ version \in [Owners -> 0..MaxSpec]
    /\ born \in [Pods -> Nat] /\ image \in [Pods -> 0..MaxSpec]
    /\ clock = Cardinality(Created)
    /\ \A p \in Pods : phase[p] = "absent" => born[p] = 0
    /\ \A p \in Created : born[p] >= 1 /\ born[p] <= clock /\ image[p] >= 1
    /\ \A p, q \in Created : born[p] = born[q] => p = q
    /\ \A p, q \in Pods : Live(p) /\ Live(q) /\ PodName[p] = PodName[q] => p = q

\* Events: of pods that were created, an Added event once, a Deleted event of a
\* pod that is gone.
QueueInv ==
    /\ queue \in Seq(Events) /\ watching \in BOOLEAN
    /\ stopping \in {"no", "asks", "hangs"} /\ gaps \in 0..MaxGaps
    /\ call \in {"none", "first", "later"} /\ (watching => call # "none")
    /\ watching \/ queue = <<>>
    /\ \A i \in Idx : queue[i].pod \in Created
    /\ \A i \in Idx : queue[i].type = "Deleted" => phase[queue[i].pod] = "gone"
    /\ \A p \in Pods : \A i, j \in Idx : Is(i, "Added", p) /\ Is(j, "Added", p) => i = j

\* The registry and the candidates: a candidate counts at most the pods whose
\* Added event does not matter any more.
Awaited(p) == born[p] > last /\ born[p] > start /\ (~watching \/ Queued("Added", p))
Counted == {p \in Created : ~Awaited(p)}
Microservices == [owner : Owners, spec : {NoSpec} \cup (Owners \X Nat), pods : SUBSET Names]
Entries == [ms : SUBSET (0..(nextId - 1)), pods : SUBSET Names]
CollectorInv ==
    /\ last \in 0..clock /\ start \in 0..clock /\ nextId \in Nat
    /\ DOMAIN pdm \subseteq 0..(nextId - 1) /\ pdm \in [DOMAIN pdm -> Microservices]
    /\ cand \in [Owners -> [n : Nat, image : 0..MaxSpec]]
    /\ \A o \in Owners : cand[o].n <= Cardinality(Counted)
    /\ scanned \subseteq Owners \X (1..MaxSpec) /\ early \subseteq Owners \X (1..MaxSpec)
    /\ view \in Entries /\ left \in Entries

StateInv == ClusterInv /\ QueueInv /\ CollectorInv

\* What becomes of a pod that exists: it is old, it is known and no event will
\* remove its name, or its Added event comes after all that would.
GoesAt(i, p) == queue[i].type = "Deleted" /\ PodName[queue[i].pod] = PodName[p]
IsKnown(p) == PodName[p] \in view.pods /\ \A i \in Idx : ~GoesAt(i, p)
Comes(p) == \E i \in Idx : Is(i, "Added", p) /\ \A j \in Idx : GoesAt(j, p) => j < i
MissedInv ==
    watching /\ stopping = "no" =>
        \A p \in Pods : Live(p) => born[p] <= last \/ IsKnown(p) \/ Comes(p)

\* What the theorems about the registry assume of the cluster.
NamesAreUnique == \A p, q \in Pods : PodName[p] = PodName[q] => p = q
AllStateful == \A o \in Owners : Kind[o] = "StatefulSet"

\* A pod that is listed was added, and its Added event is old when it is
\* delivered again; so it is in one list only.
UniqueInv ==
    call # "later" =>
        \A p \in Pods : Listed(PodName[p]) # {} =>
            /\ p \in Created
            /\ born[p] <= last \/ (watching /\ ~Queued("Added", p))
            /\ \A i, j \in Listed(PodName[p]) : i = j

\* The registry and the view, and that no identifier is given again.
MatchInv == RegistryMatchesView /\ (call # "later" => \A i \in DOMAIN pdm : i \notin left.ms)

\* Nothing is known and nobody is a candidate.
Nothing == pdm = NoPods /\ \A o \in Owners : cand[o].n = 0

\* Until the first watch ends, nothing is known before it opens, and on it the
\* Added event of a pod comes before its others, and before it the Deleted event
\* of the last pod of its name.
SerialInv ==
    gaps = 0 =>
        /\ stopping = "no" /\ call # "later" /\ left = NoEntries
        /\ watching \/ Nothing
        /\ \A i, j \in Idx : queue[i].type = "Added" /\ queue[j].pod = queue[i].pod => i <= j
        /\ \A p \in Pods : Queued("Added", p) /\ phase[p] = "gone" => Queued("Deleted", p)
        /\ \A p, q \in Created : PodName[p] = PodName[q] /\ born[p] < born[q] =>
              /\ phase[p] = "gone"
              /\ \A i \in Idx : Is(i, "Deleted", p) => \E j \in Idx : i < j /\ Is(j, "Added", q)

\* The pod that a name in the lists stands for.
Shown(p) == p \in Created /\ ~Queued("Added", p) /\ (Live(p) \/ Queued("Deleted", p))
ListInv ==
    gaps = 0 =>
        \A n \in Names : /\ Listed(n) # {} => \E p \in Pods : PodName[p] = n /\ Shown(p)
                         /\ \A i, j \in Listed(n) : i = j

\* The names of an owner's young pods that are listed: a candidate never counts more.
Counts(p) == Shown(p) /\ Young(p)
Mine(o) == {n \in Names : /\ Listed(n) # {}
                          /\ \E p \in Pods : OwnerOf[p] = o /\ PodName[p] = n /\ Counts(p)}
CountInv == gaps = 0 => \A o \in Owners : cand[o].n <= Cardinality(Mine(o))

\* A young pod that runs when it is added ran when the watch was opened; the
\* image that a candidate has was scanned, or was the image of such a pod.
IsEarly(p) == <<OwnerOf[p], image[p]>> \in early
FlagsInv ==
    /\ \A i \in Idx : /\ queue[i].type = "Added" /\ queue[i].running /\ Young(queue[i].pod)
                              => IsEarly(queue[i].pod)
                      /\ queue[i].type = "Modified" => queue[i].running
    /\ \A p \in Pods : phase[p] = "running" /\ Young(p) /\ Queued("Added", p)
                          => Queued("Modified", p) \/ IsEarly(p)
ImageInv == \A o \in Owners : cand[o].image # 0 => <<o, cand[o].image>> \in scanned \cup early

\* A running pod whose image was not scanned was running while no pod of its
\* owner was counted, and from then on too few are.
Unscanned(p) ==
    /\ phase[p] = "running" /\ Young(p) /\ Listed(PodName[p]) # {}
    /\ ~Queued("Added", p) /\ ~Queued("Modified", p)
    /\ <<OwnerOf[p], image[p]>> \notin scanned \cup early
ScanInv ==
    gaps = 0 =>
        /\ FlagsInv /\ ImageInv
        /\ \A p \in Pods : Unscanned(p) => cand[OwnerOf[p]].n < Cardinality(Mine(OwnerOf[p]))
-----------------------------------------------------------------------------
(* What the steps do, in the terms of the proofs.                           *)

\* A pod changes, and its event is put into the watch that is open.
PodStep(p, type) ==
    /\ UNCHANGED <<version, call, watching, stopping, gaps, collector>>
    /\ \E e \in Events : /\ e.type = type /\ e.pod = p
                         /\ type = "Added" => ~e.running
                         /\ type = "Modified" => e.running
                         /\ queue' = IF watching THEN Append(queue, e) ELSE queue
    /\ phase' \in [Pods -> Phases] /\ born' \in [Pods -> Nat] /\ image' \in [Pods -> 0..MaxSpec]
    /\ \A q \in Pods : q # p => phase'[q] = phase[q] /\ born'[q] = born[q] /\ image'[q] = image[q]
    /\ \/ /\ type = "Added" /\ phase[p] = "absent" /\ phase'[p] = "starting"
          /\ \A q \in Pods : Live(q) => PodName[q] # PodName[p]
          /\ clock' = clock + 1 /\ born'[p] = clock + 1 /\ image'[p] >= 1
       \/ /\ type = "Modified" /\ phase[p] = "starting" /\ phase'[p] = "running"
          /\ UNCHANGED <<born, image, clock>>
       \/ /\ type = "Terminating" /\ phase[p] \in {"starting", "running"} /\ phase'[p] = "terminating"
          /\ UNCHANGED <<born, image, clock>>
       \/ /\ type = "Deleted" /\ phase[p] = "terminating" /\ phase'[p] = "gone"
          /\ UNCHANGED <<born, image, clock>>

PodSteps(p) == CreatePod(p) \/ RunPod(p) \/ TerminatePod(p) \/ PodDisappears(p)

\* The four changes of a pod.
LEMMA PodEffect ==
    ASSUME ClusterInv, NEW p \in Pods, PodSteps(p)
    PROVE  \E type \in EventTypes : PodStep(p, type)
<1>1. /\ phase \in [Pods -> Phases] /\ born \in [Pods -> Nat] /\ image \in [Pods -> 0..MaxSpec]
      /\ version \in [Owners -> 0..MaxSpec] /\ clock \in Nat /\ OwnerOf[p] \in Owners
  <2>1. IsFiniteSet(Created) BY PodsAssumption, FS_Subset DEF Created
  <2> QED BY <2>1, FS_CardinalityType, PodsAssumption DEF ClusterInv
<1>2. CASE CreatePod(p)
  <2>1. Event("Added", p) \in Events /\ Event("Added", p).type = "Added"
        /\ Event("Added", p).pod = p /\ ~Event("Added", p).running
    BY <1>2 DEF Event, Events, EventTypes, CreatePod
  <2>2. queue' = IF watching THEN Append(queue, Event("Added", p)) ELSE queue
    BY <1>2 DEF CreatePod, Emit
  <2>3. version[OwnerOf[p]] \in 0..MaxSpec /\ version[OwnerOf[p]] >= 1
    BY <1>1, <1>2, SpecAssumption DEF CreatePod
  <2>4. phase' \in [Pods -> Phases] /\ born' \in [Pods -> Nat] /\ image' \in [Pods -> 0..MaxSpec]
    BY <1>1, <1>2, <2>3 DEF CreatePod, SetPhase, Phases
  <2>5. PodStep(p, "Added")
    BY <1>1, <1>2, <2>1, <2>2, <2>3, <2>4 DEF CreatePod, SetPhase, PodStep
  <2> QED BY <2>5 DEF EventTypes
<1>3. CASE RunPod(p)
  <2>1. phase' \in [Pods -> Phases] BY <1>1, <1>3 DEF RunPod, SetPhase, Phases
  <2>2. PodStep(p, "Modified")
    BY <1>1, <1>3, <2>1 DEF RunPod, SetPhase, Emit, PodStep, Events, EventTypes
  <2> QED BY <2>2 DEF EventTypes
<1>4. CASE TerminatePod(p)
  <2>1. phase' \in [Pods -> Phases] BY <1>1, <1>4 DEF TerminatePod, SetPhase, Phases
  <2>2. Event("Terminating", p) \in Events /\ Event("Terminating", p).type = "Terminating"
        /\ Event("Terminating", p).pod = p
    BY DEF Event, Events, EventTypes
  <2>3. queue' = IF watching THEN Append(queue, Event("Terminating", p)) ELSE queue
    BY <1>4 DEF TerminatePod, Emit
  <2>4. PodStep(p, "Terminating")
    BY <1>1, <1>4, <2>1, <2>2, <2>3 DEF TerminatePod, SetPhase, PodStep
  <2> QED BY <2>4 DEF EventTypes
<1>5. CASE PodDisappears(p)
  <2>1. phase' \in [Pods -> Phases] BY <1>1, <1>5 DEF PodDisappears, SetPhase, Phases
  <2>2. Event("Deleted", p) \in Events /\ Event("Deleted", p).type = "Deleted"
        /\ Event("Deleted", p).pod = p
    BY DEF Event, Events, EventTypes
  <2>3. queue' = IF watching THEN Append(queue, Event("Deleted", p)) ELSE queue
    BY <1>5 DEF PodDisappears, Emit
  <2>4. PodStep(p, "Deleted")
    BY <1>1, <1>5, <2>1, <2>2, <2>3 DEF PodDisappears, SetPhase, PodStep
  <2> QED BY <2>4 DEF EventTypes
<1> QED BY <1>2, <1>3, <1>4, <1>5 DEF PodSteps

\* What that means for the pods.
LEMMA PodFacts ==
    ASSUME ClusterInv, NEW p \in Pods, NEW type \in EventTypes, PodStep(p, type)
    PROVE  /\ Created' = Created \cup {p} /\ (type = "Added" <=> p \notin Created)
           /\ \A q \in Pods : q # p => (Live(q)' <=> Live(q))
           /\ (type # "Deleted" <=> Live(p)') /\ (type # "Added" <=> Live(p))
           /\ (type = "Deleted" <=> phase'[p] = "gone") /\ phase[p] # "gone"
           /\ (type = "Modified" <=> phase'[p] = "running")
           /\ clock \in Nat /\ clock' \in Nat /\ clock' >= clock
           /\ type # "Added" => UNCHANGED <<born, image, clock>>
<1>1. clock \in Nat
  <2>1. IsFiniteSet(Created) BY PodsAssumption, FS_Subset DEF Created
  <2> QED BY <2>1, FS_CardinalityType DEF ClusterInv
<1>2. \A q \in Pods : q # p => phase'[q] = phase[q] BY DEF PodStep
<1>3. Created' = Created \cup {p} BY <1>2 DEF Created, PodStep
<1> QED BY <1>1, <1>2, <1>3 DEF Created, Live, PodStep, EventTypes

\* Watches that end, for whatever reason.
EndStep ==
    /\ watching' = FALSE /\ queue' = <<>>
    /\ last' = clock
    /\ stopping' \in {stopping, "no"} /\ gaps' \in {gaps, gaps + 1} /\ gaps' <= MaxGaps
    /\ stopping' # stopping => stopping = "asks"
    /\ UNCHANGED <<cluster, call, start, nextId, pdm, cand, scanned, view, left, early>>

EndSteps == WatchEnds \/ StopsForNewState \/ OwnerLookupFails

\* The three of them.
LEMMA EndEffect ==
    ASSUME QueueInv, EndSteps
    PROVE  EndStep
  BY SpecAssumption
  DEF QueueInv, EndSteps, WatchEnds, StopsForNewState, OwnerLookupFails, EndWatch, EndStep, entries

\* Whose pod it is, and the microservices that it can be taken for.
LEMMA AncestorTypes ==
    ASSUME CollectorInv, NEW p \in Pods, NEW od \in Ancestors(p)
    PROVE  /\ od.owner \in Owners
           /\ AllStateful => od.owner = OwnerOf[p]
<1>1. OwnerOf[p] \in Owners BY PodsAssumption
<1>2. \A lo \in Local(p) : lo.owner \in Owners
  BY DEF Local, Listed, CollectorInv, Microservices
<1>3. AllStateful => ~Indirect(p) BY <1>1 DEF AllStateful, Indirect
<1> QED BY <1>1, <1>2, <1>3 DEF Ancestors

\* A spec is an owner's, in some version, or it is not there.
LEMMA AncestorSpec ==
    ASSUME ClusterInv, CollectorInv, NEW p \in Pods, NEW od \in Ancestors(p)
    PROVE  od.spec \in {NoSpec} \cup (Owners \X Nat)
<1>1. OwnerOf[p] \in Owners /\ version[OwnerOf[p]] \in Nat
  BY PodsAssumption, SpecAssumption DEF ClusterInv
<1>2. OwnerSpec(OwnerOf[p]) \in {NoSpec} \cup (Owners \X Nat) BY <1>1 DEF OwnerSpec
<1>3. \A lo \in Local(p) : lo.spec \in {NoSpec} \cup (Owners \X Nat)
  BY DEF Local, Listed, CollectorInv, Microservices
<1> HIDE DEF OwnerSpec
<1> QED BY <1>2, <1>3 DEF Ancestors

-----------------------------------------------------------------------------
(* The cluster.                                                             *)

\* Only so many pods.
LEMMA CreatedFinite ==
    ClusterInv => IsFiniteSet(Created) /\ clock \in Nat /\ clock <= Cardinality(Pods)
                  /\ Cardinality(Pods) \in Nat
<1>1. IsFiniteSet(Pods) BY PodsAssumption
<1>2. IsFiniteSet(Created) /\ Cardinality(Created) <= Cardinality(Pods)
  BY <1>1, FS_Subset DEF Created
<1> QED BY <1>1, <1>2, FS_CardinalityType DEF ClusterInv

\* No pods yet.
LEMMA ClusterInit == Init => ClusterInv
<1> SUFFICES ASSUME Init PROVE ClusterInv OBVIOUS
<1>1. Created = {} BY DEF Init, Created
<1>2. Cardinality({}) = 0 BY FS_EmptySet
<1>3. \A p \in Pods : ~Live(p) BY DEF Init, Live
<1>4. /\ phase \in [Pods -> Phases] /\ version \in [Owners -> 0..MaxSpec]
      /\ born \in [Pods -> Nat] /\ image \in [Pods -> 0..MaxSpec]
  BY SpecAssumption DEF Init, Phases
<1>5. clock = Cardinality(Created) /\ \A p \in Pods : born[p] = 0 BY <1>1, <1>2 DEF Init
<1> QED BY <1>1, <1>3, <1>4, <1>5 DEF ClusterInv

\* A pod is created once, under a name that no existing pod has.
LEMMA ClusterPodStep ==
    ASSUME ClusterInv, NEW p \in Pods, NEW type \in EventTypes, PodStep(p, type)
    PROVE  ClusterInv'
<1>1. /\ Created' = Created \cup {p} /\ (type = "Added" <=> p \notin Created)
      /\ \A q \in Pods : q # p => (Live(q)' <=> Live(q))
      /\ clock \in Nat /\ (type # "Added" <=> Live(p))
      /\ type # "Added" => UNCHANGED <<born, image, clock>>
  BY PodFacts
<1>2. /\ \A q \in Pods : q # p => /\ phase'[q] = phase[q] /\ born'[q] = born[q]
                                  /\ image'[q] = image[q]
      /\ phase'[p] # "absent" /\ version' = version
      /\ phase' \in [Pods -> Phases] /\ born' \in [Pods -> Nat] /\ image' \in [Pods -> 0..MaxSpec]
  BY DEF PodStep
<1>3. clock' = Cardinality(Created')
  <2>1. IsFiniteSet(Created) BY CreatedFinite
  <2>2. CASE type = "Added"
    <3>1. clock' = clock + 1 BY <2>2 DEF PodStep
    <3>2. Cardinality(Created \cup {p}) = Cardinality(Created) + 1
      BY <1>1, <2>1, <2>2, FS_AddElement
    <3> QED BY <1>1, <3>1, <3>2 DEF ClusterInv
  <2>3. CASE type # "Added"
    <3>1. Created' = Created /\ clock' = clock BY <1>1, <2>3
    <3> QED BY <3>1 DEF ClusterInv
  <2> QED BY <2>2, <2>3
<1>4. type = "Added" => born'[p] = clock + 1 /\ clock' = clock + 1 /\ image'[p] >= 1
  BY DEF PodStep
<1>5. \A q \in Created' : born'[q] >= 1 /\ born'[q] <= clock' /\ image'[q] >= 1
  BY <1>1, <1>2, <1>4 DEF ClusterInv, Created
<1>6. \A q, r \in Created' : born'[q] = born'[r] => q = r
  BY <1>1, <1>2, <1>4 DEF ClusterInv, Created
<1>7. \A q, r \in Pods : Live(q)' /\ Live(r)' /\ PodName[q] = PodName[r] => q = r
  <2>1. CASE type = "Added"
    <3>1. \A q \in Pods : Live(q) => PodName[q] # PodName[p] BY <2>1 DEF PodStep
    <3> QED BY <1>1, <3>1 DEF ClusterInv
  <2>2. CASE type # "Added" BY <1>1, <2>2 DEF ClusterInv
  <2> QED BY <2>1, <2>2
<1>8. \A q \in Pods : phase'[q] = "absent" => born'[q] = 0
  BY <1>2 DEF ClusterInv
<1>9. version' \in [Owners -> 0..MaxSpec] BY <1>2 DEF ClusterInv
<1> QED BY <1>2, <1>3, <1>5, <1>6, <1>7, <1>8, <1>9 DEF ClusterInv

OwnerSteps == \E o \in Owners : ChangeOwner(o) \/ DeleteOwner(o)

\* Owners are changed.
LEMMA OwnerEffect ==
    ASSUME ClusterInv, OwnerSteps
    PROVE  /\ UNCHANGED <<phase, born, image, clock, channel, collector>>
           /\ version' \in [Owners -> 0..MaxSpec]
<1>1. PICK o \in Owners : ChangeOwner(o) \/ DeleteOwner(o) BY DEF OwnerSteps
<1>2. version \in [Owners -> 0..MaxSpec] BY DEF ClusterInv
<1>3. CASE ChangeOwner(o) BY <1>2, <1>3, SpecAssumption DEF ChangeOwner
<1>4. CASE DeleteOwner(o) BY <1>2, <1>4, SpecAssumption DEF DeleteOwner
<1> QED BY <1>1, <1>3, <1>4

\* The pods are as they were.
LEMMA ClusterKept ==
    ASSUME ClusterInv, UNCHANGED <<phase, born, image, clock>>, version' \in [Owners -> 0..MaxSpec]
    PROVE  ClusterInv'
<1>1. Created' = Created /\ \A p \in Pods : Live(p)' <=> Live(p) BY DEF Created, Live
<1> QED BY <1>1 DEF ClusterInv

-----------------------------------------------------------------------------
(* The queue.                                                               *)

\* What an event that is queued is.
LEMMA QueuedEvent ==
    ASSUME QueueInv, NEW i \in Idx
    PROVE  /\ queue[i] \in Events /\ queue[i].pod \in Pods /\ queue[i].type \in EventTypes
           /\ queue[i].running \in BOOLEAN
<1>1. queue[i] \in Events BY DEF QueueInv, Idx
<1> QED BY <1>1 DEF Events

\* A change puts its event at the end, if a watch is open.
LEMMA AppendedEvent ==
    ASSUME QueueInv, NEW p \in Pods, NEW type \in EventTypes, PodStep(p, type), watching
    PROVE  LET m == Len(queue) + 1
           IN  /\ queue' \in Seq(Events) /\ Len(queue') = m /\ m \in Nat
               /\ queue'[m].type = type /\ queue'[m].pod = p
               /\ type = "Added" => ~queue'[m].running
               /\ type = "Modified" => queue'[m].running
               /\ \A i \in Idx : queue'[i] = queue[i] /\ i < m
               /\ Idx' = Idx \cup {m} /\ m \notin Idx
<1>1. PICK e \in Events : /\ e.type = type /\ e.pod = p /\ queue' = Append(queue, e)
                          /\ type = "Added" => ~e.running
                          /\ type = "Modified" => e.running
  BY DEF PodStep
<1>2. queue \in Seq(Events) BY DEF QueueInv
<1>3. /\ queue' \in Seq(Events) /\ Len(queue') = Len(queue) + 1 /\ Len(queue) \in Nat
      /\ queue'[Len(queue) + 1] = e /\ \A i \in 1..Len(queue) : queue'[i] = queue[i]
  BY <1>1, <1>2, AppendSeq
<1> QED BY <1>1, <1>3 DEF Idx

\* Without a watch there are no events.
LEMMA NoWatch ==
    ASSUME QueueInv, ~watching
    PROVE  Idx = {} /\ \A t, p : ~Queued(t, p)
<1>1. Idx = {} BY DEF QueueInv, Idx
<1> QED BY <1>1 DEF Queued

\* The same in terms of the events that are queued.
LEMMA QueuedAfterPodStep ==
    ASSUME QueueInv, NEW p \in Pods, NEW type \in EventTypes, PodStep(p, type),
           NEW t \in EventTypes, NEW q \in Pods
    PROVE  Queued(t, q)' <=> Queued(t, q) \/ (watching /\ t = type /\ q = p)
<1>1. CASE watching
  <2>1. PICK m : m = Len(queue) + 1 OBVIOUS
  <2>2. /\ queue'[m].type = type /\ queue'[m].pod = p
        /\ \A i \in Idx : queue'[i] = queue[i]
        /\ Idx' = Idx \cup {m}
    BY <1>1, <2>1, AppendedEvent
  <2> QED BY <1>1, <2>2 DEF Queued, Is
<1>2. CASE ~watching
  <2>1. queue' = queue BY <1>2 DEF PodStep
  <2> QED BY <1>2, <2>1 DEF Queued, Idx, Is
<1> QED BY <1>1, <1>2

\* No events, no wrong ones.
LEMMA QueueInit == Init => QueueInv
<1> SUFFICES ASSUME Init PROVE QueueInv OBVIOUS
<1>1. queue = <<>> /\ watching = FALSE /\ call = "none" /\ stopping = "no" /\ gaps = 0 BY DEF Init
<1>2. Idx = {} /\ queue \in Seq(Events) BY <1>1 DEF Idx
<1>3. gaps \in 0..MaxGaps BY <1>1, SpecAssumption
<1> QED BY <1>1, <1>2, <1>3 DEF QueueInv

\* The queue is emptied.
LEMMA QueueEmpty ==
    ASSUME queue' = <<>>, watching' = FALSE, stopping' \in {"no", "asks", "hangs"},
           gaps' \in 0..MaxGaps, call' \in {"none", "first", "later"}
    PROVE  QueueInv'
<1>1. Idx' = {} /\ queue' \in Seq(Events) BY DEF Idx
<1> QED BY <1>1 DEF QueueInv

\* The queue after a change of a pod.
LEMMA QueuePodStep ==
    ASSUME ClusterInv, QueueInv, NEW p \in Pods, NEW type \in EventTypes, PodStep(p, type)
    PROVE  QueueInv'
<1>1. UNCHANGED <<call, watching, stopping, gaps>> BY DEF PodStep
<1>2. CASE ~watching
  <2>1. queue' = <<>> /\ watching' = FALSE BY <1>1, <1>2 DEF PodStep, QueueInv
  <2> QED BY <1>1, <2>1, QueueEmpty DEF QueueInv
<1>3. CASE watching
  <2>1. PICK m : m = Len(queue) + 1 OBVIOUS
  <2>2. /\ queue' \in Seq(Events) /\ queue'[m].type = type /\ queue'[m].pod = p
        /\ \A i \in Idx : queue'[i] = queue[i]
        /\ Idx' = Idx \cup {m} /\ m \notin Idx
    BY <1>3, <2>1, AppendedEvent
  <2>3. /\ Created' = Created \cup {p} /\ (type = "Added" <=> p \notin Created)
        /\ (type = "Deleted" <=> phase'[p] = "gone") /\ phase[p] # "gone"
    BY PodFacts
  <2>4. \A q \in Pods : q # p => phase'[q] = phase[q] BY DEF PodStep
  <2>5. \A i \in Idx : queue[i].pod \in Pods BY QueuedEvent
  <2>6. \A i \in Idx' : queue'[i].pod \in Created' BY <2>2, <2>3 DEF QueueInv
  <2>7. \A i \in Idx' : queue'[i].type = "Deleted" => phase'[queue'[i].pod] = "gone"
    <3>1. \A i \in Idx : queue[i].type = "Deleted" => queue[i].pod # p BY <2>3 DEF QueueInv
    <3> QED BY <2>2, <2>3, <2>4, <2>5, <3>1 DEF QueueInv
  <2>8. \A q \in Pods : \A i, j \in Idx' : Is(i, "Added", q)' /\ Is(j, "Added", q)' => i = j
    <3>1. \A i \in Idx : type = "Added" => queue[i].pod # p BY <2>3 DEF QueueInv
    <3> QED BY <2>2, <3>1 DEF QueueInv, Is
  <2> QED BY <1>1, <1>3, <2>2, <2>6, <2>7, <2>8 DEF QueueInv
<1> QED BY <1>2, <1>3

\* The queue of a new watch: every pod that exists as added, once.
LEMMA OpenedQueue ==
    ASSUME ClusterInv, WatchOpens
    PROVE  /\ queue' \in Seq(Events)
           /\ \A i \in Idx' : queue'[i].type = "Added" /\ queue'[i].pod \in Pods /\ Live(queue'[i].pod)
           /\ \A i \in Idx' : queue'[i].running => phase[queue'[i].pod] = "running"
           /\ \A i, j \in Idx' : queue'[i].pod = queue'[j].pod => i = j
           /\ \A p \in Pods : Live(p) => \E i \in Idx' : queue'[i].pod = p
<1> DEFINE Alive == {p \in Pods : Live(p)}
           First(p) == Event("Added", p)
           S == {First(p) : p \in Alive}
<1>1. \A p \in Alive : /\ First(p) \in Events /\ First(p).type = "Added" /\ First(p).pod = p
                       /\ First(p).running => phase[p] = "running"
  BY DEF Event, Events, EventTypes
<1>2. IsFiniteSet(S)
  <2>1. IsFiniteSet(Alive) BY PodsAssumption, FS_Subset
  <2>2. [p \in Alive |-> First(p)] \in Surjection(Alive, S) BY DEF Surjection
  <2> HIDE DEF S, Alive
  <2> QED BY <2>1, <2>2, FS_Surjection
<1>3. queue' \in Orders(S) BY DEF WatchOpens
<1> HIDE DEF First
<1>4. S \subseteq Events BY <1>1
<1>5. \A e \in S : \E p \in Alive : e = First(p) OBVIOUS
<1>6. \A p \in Alive : First(p) \in S OBVIOUS
<1> HIDE DEF S
<1>7. /\ queue' \in Seq(S) /\ Len(queue') \in Nat
      /\ \A i, j \in 1..Len(queue') : queue'[i] = queue'[j] => i = j
      /\ \A e \in S : \E i \in 1..Len(queue') : queue'[i] = e
  <2>1. PICK q : q = queue' OBVIOUS
  <2>2. q \in Injection(1..Cardinality(S), S)
    BY <1>3, <2>1 DEF Orders, Injection, IsInjective
  <2>3. /\ q \in Seq(S) /\ Len(q) \in Nat
        /\ \A i, j \in 1..Len(q) : q[i] = q[j] => i = j
        /\ \A e \in S : \E i \in 1..Len(q) : q[i] = e
    BY <1>2, <2>2, OrdersAreComplete
  <2> QED BY <2>1, <2>3
<1>8. queue' \in Seq(Events) /\ \A i \in 1..Len(queue') : queue'[i] \in S
  BY <1>4, <1>7
<1>9. \A i \in Idx' : \E p \in Alive : queue'[i] = First(p) BY <1>5, <1>8 DEF Idx
<1>10. \A p \in Alive : \E i \in Idx' : queue'[i] = First(p) BY <1>6, <1>7 DEF Idx
<1>11. \A i \in Idx' : queue'[i].type = "Added" /\ queue'[i].pod \in Alive BY <1>1, <1>9
<1>12. \A i, j \in Idx' : queue'[i].pod = queue'[j].pod => i = j
  <2>1. \A i, j \in Idx' : queue'[i] = queue'[j] => i = j BY <1>7 DEF Idx
  <2>2. \A i \in Idx' : queue'[i] = First(queue'[i].pod) BY <1>1, <1>9
  <2> QED BY <2>1, <2>2
<1>13. \A p \in Alive : \E i \in Idx' : queue'[i].pod = p BY <1>1, <1>10
<1>14. \A i \in Idx' : queue'[i].running => phase[queue'[i].pod] = "running" BY <1>1, <1>9
<1> QED BY <1>8, <1>11, <1>12, <1>13, <1>14

\* Its events are as those of a queue have to be.
LEMMA QueueOpens ==
    ASSUME ClusterInv, QueueInv, WatchOpens
    PROVE  QueueInv'
<1>1. watching' = TRUE /\ UNCHANGED <<cluster, call, stopping, gaps>> /\ call # "none"
  BY DEF WatchOpens
<1>2. /\ queue' \in Seq(Events)
      /\ \A i \in Idx' : queue'[i].type = "Added" /\ queue'[i].pod \in Pods /\ Live(queue'[i].pod)
      /\ \A i, j \in Idx' : queue'[i].pod = queue'[j].pod => i = j
  BY OpenedQueue
<1>3. Created' = Created BY <1>1 DEF Created, cluster
<1>4. \A i \in Idx' : queue'[i].pod \in Created' BY <1>2, <1>3 DEF Live, Created
<1> QED BY <1>1, <1>2, <1>3, <1>4 DEF QueueInv, Is

\* The event at the head is done.
Done == watching /\ queue # <<>> /\ EventDone
Head1 == queue[1]

\* The index shift.
LEMMA HandledQueue ==
    ASSUME QueueInv, Done
    PROVE  /\ 1 \in Idx /\ Head(queue) = Head1 /\ Head1 \in Events /\ Head1.pod \in Created
           /\ queue' \in Seq(Events)
           /\ \A i \in Idx' : i + 1 \in Idx /\ queue'[i] = queue[i + 1] /\ i \in Nat /\ i >= 1
           /\ \A i \in Idx : i # 1 => i - 1 \in Idx' /\ queue'[i - 1] = queue[i]
<1>1. queue \in Seq(Events) /\ queue # <<>> /\ queue' = Tail(queue)
  BY DEF QueueInv, Done, EventDone
<1>2. /\ Tail(queue) \in Seq(Events) /\ Len(Tail(queue)) = Len(queue) - 1 /\ Head(queue) = queue[1]
      /\ Head(queue) \in Events /\ Len(queue) \in Nat /\ Len(queue) >= 1
      /\ \A i \in 1..Len(Tail(queue)) : i + 1 \in 1..Len(queue) /\ Tail(queue)[i] = queue[i + 1]
  BY <1>1, TailSeq
<1>3. \A i \in Idx' : i + 1 \in Idx /\ queue'[i] = queue[i + 1] /\ i \in Nat /\ i >= 1
  BY <1>1, <1>2 DEF Idx
<1>4. \A i \in Idx : i # 1 => i - 1 \in Idx' /\ queue'[i - 1] = queue[i]
  <2> SUFFICES ASSUME NEW i \in Idx, i # 1 PROVE i - 1 \in Idx' /\ queue'[i - 1] = queue[i] OBVIOUS
  <2>1. i - 1 \in 1..Len(Tail(queue)) /\ (i - 1) + 1 = i BY <1>2 DEF Idx
  <2> QED BY <1>1, <1>2, <2>1 DEF Idx
<1>5. 1 \in Idx BY <1>2 DEF Idx
<1>6. Head1.pod \in Created BY <1>5 DEF QueueInv, Head1
<1> QED BY <1>1, <1>2, <1>3, <1>4, <1>5, <1>6 DEF Head1

\* The same in terms of the events that are queued.
LEMMA QueuedAfterDone ==
    ASSUME QueueInv, Done, NEW t, NEW p
    PROVE  /\ Queued(t, p)' => Queued(t, p)
           /\ Queued(t, p) => Queued(t, p)' \/ (Head1.type = t /\ Head1.pod = p)
           /\ Head1.type = t /\ Head1.pod = p => Queued(t, p)
<1>1. /\ \A i \in Idx' : i + 1 \in Idx /\ queue'[i] = queue[i + 1]
      /\ \A i \in Idx : i # 1 => i - 1 \in Idx' /\ queue'[i - 1] = queue[i]
      /\ 1 \in Idx
  BY HandledQueue
<1>2. Queued(t, p)' => Queued(t, p) BY <1>1 DEF Queued, Is
<1>3. ASSUME Queued(t, p) PROVE Queued(t, p)' \/ (Head1.type = t /\ Head1.pod = p)
  <2>1. PICK i \in Idx : Is(i, t, p) BY <1>3 DEF Queued
  <2>2. CASE i = 1 BY <2>1, <2>2 DEF Is, Head1
  <2>3. CASE i # 1 BY <1>1, <2>1, <2>3 DEF Queued, Is
  <2> QED BY <2>2, <2>3
<1>4. Head1.type = t /\ Head1.pod = p => Queued(t, p) BY <1>1 DEF Queued, Is, Head1
<1> QED BY <1>2, <1>3, <1>4

\* An Added event that is done is not queued any more.
LEMMA AddedIsDone ==
    ASSUME QueueInv, Done, NEW h \in Pods, Head1.type = "Added", Head1.pod = h
    PROVE  ~Queued("Added", h)'
<1>1. SUFFICES ASSUME Queued("Added", h)' PROVE FALSE OBVIOUS
<1>2. PICK i \in Idx' : Is(i, "Added", h)' BY <1>1 DEF Queued
<1>3. /\ i + 1 \in Idx /\ queue'[i] = queue[i + 1] /\ 1 \in Idx /\ i + 1 # 1
  BY <1>2, HandledQueue
<1>4. Is(i + 1, "Added", h) /\ Is(1, "Added", h)
  BY <1>2, <1>3 DEF Is, Head1
<1> QED BY <1>3, <1>4 DEF QueueInv

\* The queue after an event is done.
LEMMA QueueDone ==
    ASSUME QueueInv, Done
    PROVE  QueueInv'
<1>1. UNCHANGED <<call, watching, stopping, gaps, cluster>> BY DEF Done, EventDone
<1>2. /\ queue' \in Seq(Events) /\ watching
      /\ \A i \in Idx' : i + 1 \in Idx /\ queue'[i] = queue[i + 1] /\ i \in Nat
  BY HandledQueue DEF Done
<1>3. Created' = Created BY <1>1 DEF Created, cluster
<1>4. \A i \in Idx' : queue'[i].pod \in Created' /\ (queue'[i].type = "Deleted" => phase'[queue'[i].pod] = "gone")
  BY <1>1, <1>2, <1>3 DEF QueueInv, cluster
<1>5. \A p \in Pods : \A i, j \in Idx' : Is(i, "Added", p)' /\ Is(j, "Added", p)' => i = j
  <2> SUFFICES ASSUME NEW p \in Pods, NEW i \in Idx', NEW j \in Idx', Is(i, "Added", p)', Is(j, "Added", p)'
               PROVE  i = j
    OBVIOUS
  <2>1. Is(i + 1, "Added", p) /\ Is(j + 1, "Added", p) BY <1>2 DEF Is
  <2>2. i + 1 = j + 1 BY <1>2, <2>1 DEF QueueInv
  <2> QED BY <1>2, <2>2
<1> QED BY <1>1, <1>2, <1>4, <1>5 DEF QueueInv

\* The queue of a watch that nothing happens to.
LEMMA QueueKept ==
    ASSUME QueueInv, UNCHANGED <<phase, watching, queue>>, stopping' \in {"no", "asks", "hangs"},
           gaps' \in 0..MaxGaps, call' \in {"none", "first", "later"}, watching => call' # "none"
    PROVE  QueueInv'
<1>1. Idx' = Idx /\ Created' = Created BY DEF Idx, Created
<1> QED BY <1>1 DEF QueueInv, Is

-----------------------------------------------------------------------------
(* The handlers, in the terms of the proofs.  Pod h is the pod of the event *)
(* at the head.                                                             *)

\* Pod h is listed in microservice i, and owner o counts it.
Lists(h, i, o) ==
    /\ Head1.type = "Added" /\ born[h] > last
    /\ i = nextId \/ (i \in DOMAIN pdm /\ PodName[h] \notin pdm[i].pods)
    /\ nextId' = IF i = nextId THEN nextId + 1 ELSE nextId
    /\ DOMAIN pdm' = DOMAIN pdm \cup {i} /\ pdm' \in [DOMAIN pdm' -> Microservices]
    /\ pdm'[i].pods = {PodName[h]} \cup (IF i \in DOMAIN pdm THEN pdm[i].pods ELSE {})
    /\ \A j \in DOMAIN pdm : j # i => pdm'[j] = pdm[j]
    /\ \A j \in DOMAIN pdm : pdm'[j].owner = pdm[j].owner
    /\ view' = [ms |-> view.ms \cup ({i} \ DOMAIN pdm), pods |-> view.pods \cup {PodName[h]}]
    /\ AddCandidate(h, o, Head1.running)
    /\ UNCHANGED <<last, start, scanned, left, early>>

\* An Added event that changes nothing but, perhaps, the time.
Ignores(h) ==
    /\ Head1.type = "Added"
    /\ \/ born[h] <= last /\ last' = last
       \/ (\E i \in DOMAIN pdm : PodName[h] \in pdm[i].pods) /\ last' = clock
    /\ UNCHANGED <<start, nextId, pdm, cand, scanned, view, left, early>>

\* An event that may ask for a scan.
Checks(h, o) ==
    /\ Head1.type \in {"Modified", "Terminating"}
    /\ CheckCandidate(h, o, Head1.running)
    /\ last' \in {last, clock}
    /\ UNCHANGED <<start, nextId, pdm, view, left, early>>

\* The lists of the name, but for those in gone, lose it.
Unlists(h, o, gone) ==
    LET n == PodName[h]
    IN  /\ Head1.type = "Deleted"
        /\ gone = {i \in Listed(n) : pdm[i].pods = {n} /\ NeedsRemoval(i)}
        /\ pdm' = Unlisted(n, Listed(n), gone)
        /\ RemoveCandidate(o)
        /\ view' = [ms |-> view'.ms, pods |-> IF Listed(n) = {} THEN view.pods ELSE view.pods \ {n}]
        /\ view'.ms \subseteq view.ms
        /\ (\A i, j \in Listed(n) : i = j) \/ gone = {} => view'.ms = view.ms \ gone
        /\ UNCHANGED <<last, start, nextId, scanned, left, early>>

\* What AddedIsKnownMicroService does with the microservice it found.
Joins(h, i, o) ==
    IF PodName[h] \in pdm[i].pods
      THEN last' = clock /\ UNCHANGED <<pdm, entries, cand>>
      ELSE /\ pdm' = [pdm EXCEPT ![i].pods = @ \cup {PodName[h]}]
           /\ Creates({}, PodName[h])
           /\ AddCandidate(h, o, Head1.running)
           /\ last' = last

HandlerSteps ==
    \/ AddedIsOld \/ AddedIsNewMicroService \/ AddedIsKnownMicroService
    \/ Modified \/ ModifiedIsTerminating \/ Deleted

\* A microservice is registered.
LEMMA NewEffect ==
    ASSUME StateInv, AddedIsNewMicroService
    PROVE  Done /\ \E o \in Owners : /\ Lists(Head1.pod, nextId, o)
                                     /\ AllStateful => o = OwnerOf[Head1.pod]
<1>1. Done BY DEF AddedIsNewMicroService, Done, Handle
<1>2. Head(queue) = Head1 /\ Head1.pod \in Pods /\ QueueInv /\ ClusterInv /\ CollectorInv
  BY <1>1, HandledQueue DEF StateInv, Created
<1>3. PICK h \in Pods : h = Head1.pod BY <1>2
<1>4. PICK od \in Ancestors(h) :
         /\ pdm' = [i \in DOMAIN pdm \cup {nextId} |->
                       IF i = nextId THEN [owner |-> od.owner, spec |-> od.spec, pods |-> {PodName[h]}]
                                     ELSE pdm[i]]
         /\ AddCandidate(h, od.owner, Head1.running)
  BY <1>2, <1>3 DEF AddedIsNewMicroService
<1>5. /\ Head1.type = "Added" /\ born[h] > last /\ nextId' = nextId + 1
      /\ view' = [ms |-> view.ms \cup {nextId}, pods |-> view.pods \cup {PodName[h]}]
      /\ UNCHANGED <<last, start, scanned, left, early>>
  BY <1>2, <1>3 DEF AddedIsNewMicroService, Handle, Creates
<1>6. nextId \in Nat /\ nextId \notin DOMAIN pdm /\ pdm \in [DOMAIN pdm -> Microservices]
  BY <1>2 DEF CollectorInv
<1>7. od.owner \in Owners /\ (AllStateful => od.owner = OwnerOf[h]) BY <1>2, AncestorTypes
<1>8. od.spec \in {NoSpec} \cup (Owners \X Nat) /\ PodName[h] \in Names
  BY <1>2, AncestorSpec DEF Names
<1>9. pdm' \in [DOMAIN pdm' -> Microservices] BY <1>4, <1>6, <1>7, <1>8 DEF Microservices
<1>10. Lists(h, nextId, od.owner) BY <1>4, <1>5, <1>6, <1>9, <1>3 DEF Lists
<1> QED BY <1>1, <1>3, <1>7, <1>10

\* A microservice is known: the pod joins it, or is there already.
LEMMA KnownEffect ==
    ASSUME StateInv, AddedIsKnownMicroService
    PROVE  Done /\ \/ Ignores(Head1.pod)
                   \/ \E i \in DOMAIN pdm, o \in Owners : /\ Lists(Head1.pod, i, o)
                                                          /\ AllStateful => o = OwnerOf[Head1.pod]
<1>1. Done BY DEF AddedIsKnownMicroService, Done, Handle
<1>2. Head(queue) = Head1 /\ Head1.pod \in Pods /\ QueueInv /\ ClusterInv /\ CollectorInv
  BY <1>1, HandledQueue DEF StateInv, Created
<1>3. PICK h \in Pods : h = Head1.pod BY <1>2
<1>4. PICK od \in Ancestors(h) : \E j \in SameSpec(od.spec) : Joins(h, j, od.owner)
  BY <1>2, <1>3 DEF AddedIsKnownMicroService, Joins
<1>5. PICK i \in SameSpec(od.spec) : Joins(h, i, od.owner) BY <1>4
<1>6. /\ Head1.type = "Added" /\ born[h] > last /\ UNCHANGED <<start, nextId, scanned, early>>
  BY <1>2, <1>3 DEF AddedIsKnownMicroService, Handle
<1>7. /\ nextId \in Nat /\ nextId \notin DOMAIN pdm /\ pdm \in [DOMAIN pdm -> Microservices]
      /\ view \in Entries /\ i \in DOMAIN pdm
  BY <1>2, <1>5 DEF CollectorInv, SameSpec
<1>8. od.owner \in Owners /\ (AllStateful => od.owner = OwnerOf[h]) BY <1>2, AncestorTypes
<1>9. CASE PodName[h] \in pdm[i].pods
  <2>1. Ignores(h) BY <1>5, <1>6, <1>7, <1>9 DEF Ignores, Joins, entries
  <2> QED BY <1>1, <1>3, <2>1
<1>10. CASE PodName[h] \notin pdm[i].pods
  <2>1. PodName[h] \in Names BY DEF Names
  <2>2. pdm' = [pdm EXCEPT ![i].pods = @ \cup {PodName[h]}] BY <1>5, <1>10 DEF Joins
  <2>3. pdm' \in [DOMAIN pdm' -> Microservices] /\ DOMAIN pdm' = DOMAIN pdm
        /\ pdm'[i].pods = {PodName[h]} \cup pdm[i].pods
        /\ (\A j \in DOMAIN pdm : j # i => pdm'[j] = pdm[j])
        /\ (\A j \in DOMAIN pdm : pdm'[j].owner = pdm[j].owner)
    BY <1>7, <2>1, <2>2 DEF Microservices
  <2>4. /\ view' = [ms |-> view.ms \cup ({i} \ DOMAIN pdm), pods |-> view.pods \cup {PodName[h]}]
        /\ left' = left
    BY <1>5, <1>7, <1>10 DEF Joins, Creates
  <2>5. AddCandidate(h, od.owner, Head1.running) /\ last' = last BY <1>5, <1>10 DEF Joins
  <2>6. i # nextId /\ DOMAIN pdm' = DOMAIN pdm \cup {i} BY <1>7, <2>3
  <2>7. Lists(h, i, od.owner) BY <1>6, <1>7, <1>10, <2>3, <2>4, <2>5, <2>6 DEF Lists
  <2> QED BY <1>1, <1>3, <1>7, <1>8, <2>7
<1> QED BY <1>9, <1>10

\* A change of a pod that may be scanned.
LEMMA ChecksEffect ==
    ASSUME StateInv, Modified \/ ModifiedIsTerminating
    PROVE  Done /\ \E o \in Owners : /\ Checks(Head1.pod, o)
                                     /\ AllStateful => o = OwnerOf[Head1.pod]
<1>1. Done BY DEF Modified, ModifiedIsTerminating, Done, Handle
<1>2. Head(queue) = Head1 /\ Head1.pod \in Pods /\ CollectorInv
  BY <1>1, HandledQueue DEF StateInv, Created
<1>3. PICK h \in Pods : h = Head1.pod BY <1>2
<1>4. PICK od \in Ancestors(h) : CheckCandidate(h, od.owner, Head1.running)
  BY <1>2, <1>3 DEF Modified, ModifiedIsTerminating
<1>5. /\ Head1.type \in {"Modified", "Terminating"} /\ last' \in {last, clock}
      /\ UNCHANGED <<start, nextId, pdm, view, left, early>>
  BY <1>2 DEF Modified, ModifiedIsTerminating, Handle, entries
<1>6. od.owner \in Owners /\ (AllStateful => od.owner = OwnerOf[h]) BY <1>2, AncestorTypes
<1>7. Checks(h, od.owner) BY <1>4, <1>5 DEF Checks
<1> QED BY <1>1, <1>3, <1>6, <1>7

\* A pod is taken off its lists.
LEMMA DeletedEffect ==
    ASSUME StateInv, Deleted
    PROVE  Done /\ \E o \in Owners, gone \in SUBSET DOMAIN pdm :
                       /\ Unlists(Head1.pod, o, gone)
                       /\ AllStateful => o = OwnerOf[Head1.pod]
<1>1. Done BY DEF Deleted, Done, Handle
<1>2. Head(queue) = Head1 /\ Head1.pod \in Pods /\ CollectorInv
  BY <1>1, HandledQueue DEF StateInv, Created
<1> DEFINE h == Head(queue).pod
           n == PodName[h]
           hits == Listed(n)
           emptied == {i \in hits : pdm[i].pods = {n}}
           gone == {i \in emptied : NeedsRemoval(i)}
<1>3. h = Head1.pod /\ h \in Pods BY <1>2
<1>4. PICK od \in Ancestors(h) : RemoveCandidate(od.owner)
  BY DEF Deleted
<1>5. od.owner \in Owners /\ (AllStateful => od.owner = OwnerOf[h]) BY <1>2, <1>3, AncestorTypes
<1>6. /\ Head1.type = "Deleted" /\ pdm' = Unlisted(n, hits, gone)
      /\ UNCHANGED <<last, start, nextId, scanned, early>>
  BY <1>2 DEF Deleted, Handle
<1>7. view \in Entries BY <1>2 DEF CollectorInv
<1>8. hits \subseteq DOMAIN pdm BY DEF Listed
<1>9. /\ view' = [ms |-> view'.ms, pods |-> IF hits = {} THEN view.pods ELSE view.pods \ {n}]
      /\ view'.ms \subseteq view.ms
      /\ (\A i, j \in hits : i = j) \/ gone = {} => view'.ms = view.ms \ gone
      /\ left' = left
  <2>1. CASE hits = {}
    <3>1. view' = view /\ left' = left BY <2>1 DEF Deleted, entries
    <3>2. gone = {} BY <2>1
    <3> QED BY <1>7, <2>1, <3>1, <3>2 DEF Entries
  <2>2. CASE hits # {}
    <3>1. PICK final \in hits :
             \E decisive \in IF final \in emptied \/ emptied = {} THEN {final} ELSE emptied :
                 Deletes(IF decisive \in gone THEN {final} ELSE {}, n)
      BY <2>2 DEF Deleted
    <3>2. PICK decisive \in IF final \in emptied \/ emptied = {} THEN {final} ELSE emptied :
             /\ view' = [ms |-> view.ms \ (IF decisive \in gone THEN {final} ELSE {}),
                         pods |-> view.pods \ {n}]
             /\ left' = left
      BY <3>1 DEF Deletes
    <3>3. decisive \in hits /\ gone \subseteq hits BY <3>1, <3>2
    <3> HIDE DEF hits, emptied, gone
    <3>4. /\ view' = [ms |-> view'.ms, pods |-> view.pods \ {n}] /\ view'.ms \subseteq view.ms
          /\ gone = {} => view'.ms = view.ms
      BY <3>2
    <3>5. ASSUME \A i, j \in hits : i = j PROVE view'.ms = view.ms \ gone
      <4>1. decisive = final BY <3>1, <3>3, <3>5
      <4>2. CASE final \in gone
        <5>1. gone = {final} BY <3>1, <3>3, <3>5, <4>2
        <5> QED BY <3>2, <4>1, <4>2, <5>1
      <4>3. CASE final \notin gone
        <5>1. gone = {} BY <3>1, <3>3, <3>5, <4>3
        <5> QED BY <3>4, <5>1
      <4> QED BY <4>2, <4>3
    <3> QED BY <2>2, <3>2, <3>4, <3>5
  <2> QED BY <2>1, <2>2
<1>10. gone = {i \in hits : pdm[i].pods = {n} /\ NeedsRemoval(i)} OBVIOUS
<1>11. Unlists(h, od.owner, gone) BY <1>4, <1>6, <1>9, <1>10 DEF Unlists
<1>12. gone \in SUBSET DOMAIN pdm BY <1>8
<1> HIDE DEF gone, h
<1> QED BY <1>1, <1>3, <1>5, <1>11, <1>12

\* One of these is what a handler that does not fail does.
LEMMA HandlerEffect ==
    ASSUME StateInv, HandlerSteps
    PROVE  /\ Done
           /\ \/ Ignores(Head1.pod)
              \/ \E o \in Owners :
                    /\ AllStateful => o = OwnerOf[Head1.pod]
                    /\ \/ \E i \in DOMAIN pdm \cup {nextId} : Lists(Head1.pod, i, o)
                       \/ Checks(Head1.pod, o)
                       \/ \E gone \in SUBSET DOMAIN pdm : Unlists(Head1.pod, o, gone)
<1>1. CASE AddedIsOld
  <2>1. Done BY <1>1 DEF AddedIsOld, Done, Handle
  <2>2. Head(queue) = Head1 BY <2>1, HandledQueue DEF StateInv
  <2>3. Ignores(Head1.pod) BY <1>1, <2>2 DEF AddedIsOld, Handle, Ignores, collector, entries
  <2> QED BY <2>1, <2>3
<1>2. CASE AddedIsNewMicroService BY <1>2, NewEffect
<1>3. CASE AddedIsKnownMicroService BY <1>3, KnownEffect
<1>4. CASE Modified \/ ModifiedIsTerminating BY <1>4, ChecksEffect
<1>5. CASE Deleted BY <1>5, DeletedEffect
<1> QED BY <1>1, <1>2, <1>3, <1>4, <1>5 DEF HandlerSteps

\* A panic: the name left some of its lists, and the watch is gone.
PanicStep(h, o) ==
    /\ watching /\ queue # <<>> /\ queue' = <<>> /\ watching' = FALSE
    /\ \E hits \in SUBSET Listed(PodName[h]) :
       \E gone \in SUBSET {i \in hits : pdm[i].pods = {PodName[h]}} :
          pdm' = Unlisted(PodName[h], hits, gone)
    /\ RemoveCandidate(o)
    /\ last' = 0 /\ start' = clock /\ call' = "later"
    /\ stopping' \in {"no", "asks", "hangs"} /\ (stopping' = "no" => stopping = "no")
    /\ UNCHANGED <<cluster, gaps, nextId, scanned, view, left, early>>

\* It is reached from a Deployment only.
LEMMA PanicEffect ==
    ASSUME StateInv, DeletedPanics
    PROVE  /\ \E h \in Pods, o \in Owners : PanicStep(h, o)
           /\ ~AllStateful
<1>1. watching /\ queue # <<>> BY DEF DeletedPanics, Handle
<1>2. queue \in Seq(Events) /\ CollectorInv BY DEF StateInv, QueueInv
<1>3. Head(queue) \in Events BY <1>1, <1>2, TailSeq
<1>4. PICK h \in Pods : h = Head(queue).pod BY <1>3 DEF Events
<1>5. PICK od \in Ancestors(h) : RemoveCandidate(od.owner) BY <1>4 DEF DeletedPanics
<1>6. od.owner \in Owners BY <1>2, AncestorTypes
<1> DEFINE n == PodName[h]
           hits == Listed(n)
           emptied == {i \in hits : pdm[i].pods = {n}}
<1>7. PICK culprit \in {i \in emptied : Panics(i)} :
         \E done \in SUBSET {i \in hits : i \in emptied => ~Panics(i)} :
            pdm' = Unlisted(n, done \cup {culprit}, {i \in done \cap emptied : NeedsRemoval(i)})
  BY <1>4 DEF DeletedPanics
<1>8. PICK done \in SUBSET {i \in hits : i \in emptied => ~Panics(i)} :
         pdm' = Unlisted(n, done \cup {culprit}, {i \in done \cap emptied : NeedsRemoval(i)})
  BY <1>7
<1>9. culprit \in DOMAIN pdm /\ Kind[pdm[culprit].owner] = "Deployment"
  BY <1>7 DEF Panics, Listed
<1>10. ~AllStateful
  BY <1>2, <1>9 DEF AllStateful, CollectorInv, Microservices
<1>11. \E s \in SUBSET hits : \E g \in SUBSET {i \in s : pdm[i].pods = {n}} : pdm' = Unlisted(n, s, g)
  <2> DEFINE s == done \cup {culprit}
             g == {i \in done \cap emptied : NeedsRemoval(i)}
  <2>1. s \in SUBSET hits /\ g \in SUBSET {i \in s : pdm[i].pods = {n}} BY <1>7, <1>8
  <2>2. pdm' = Unlisted(n, s, g) BY <1>8
  <2> HIDE DEF s, g
  <2> QED BY <2>1, <2>2
<1>12. PanicStep(h, od.owner)
  <2>1. /\ queue' = <<>> /\ watching' = FALSE /\ last' = 0 /\ start' = clock /\ call' = "later"
        /\ stopping' = IF stopping = "asks" THEN "hangs" ELSE stopping
        /\ UNCHANGED <<cluster, gaps, nextId, scanned, view, left, early>>
    BY DEF DeletedPanics, EndWatch, entries
  <2>2. stopping' \in {"no", "asks", "hangs"} /\ (stopping' = "no" => stopping = "no")
    BY <2>1 DEF StateInv, QueueInv
  <2> QED BY <1>1, <1>5, <1>11, <2>1, <2>2 DEF PanicStep
<1> QED BY <1>6, <1>10, <1>12

-----------------------------------------------------------------------------
(* The scan candidates and the registry.                                    *)

Candidates == [Owners -> [n : Nat, image : 0..MaxSpec]]

\* addPodScanNotificationCandidateList counts one pod, of one owner.
LEMMA AddEffect ==
    ASSUME cand \in Candidates, NEW o \in Owners, NEW h \in Pods, image[h] \in 0..MaxSpec,
           NEW r \in BOOLEAN, AddCandidate(h, o, r)
    PROVE  /\ cand' \in Candidates
           /\ \A x \in Owners : x # o => cand'[x] = cand[x]
           /\ born[h] <= start => cand' = cand
           /\ ~(born[h] <= start) => cand'[o].n = cand[o].n + 1
           /\ ~r \/ born[h] <= start => cand'[o].image = cand[o].image
           /\ cand'[o].image \in {cand[o].image, image[h]}
<1>1. CASE born[h] <= start BY <1>1 DEF AddCandidate
<1>2. CASE ~(born[h] <= start)
  <2> DEFINE im == IF cand[o].n = 0 /\ r THEN image[h] ELSE cand[o].image
  <2>1. im \in 0..MaxSpec /\ (~r => im = cand[o].image) /\ im \in {cand[o].image, image[h]}
    BY DEF Candidates
  <2>2. cand' = [cand EXCEPT ![o] = [n |-> cand[o].n + 1, image |-> im]]
    BY <1>2 DEF AddCandidate
  <2> HIDE DEF im
  <2> QED BY <1>2, <2>1, <2>2 DEF Candidates
<1> QED BY <1>1, <1>2

\* removePodScanNotificationCandidateList does not count below zero.
LEMMA RemoveEffect ==
    ASSUME cand \in Candidates, NEW o \in Owners, RemoveCandidate(o)
    PROVE  /\ cand' \in Candidates
           /\ \A x \in Owners : x # o => cand'[x] = cand[x]
           /\ cand'[o].n = IF cand[o].n > 1 THEN cand[o].n - 1 ELSE 0
           /\ cand'[o].image \in {cand[o].image, 0}
<1>1. 0 \in 0..MaxSpec BY SpecAssumption
<1>2. CASE cand[o].n > 1
  <2>1. cand' = [cand EXCEPT ![o] = [n |-> cand[o].n - 1, image |-> cand[o].image]]
    BY <1>2 DEF RemoveCandidate
  <2>2. cand[o].n - 1 \in Nat BY <1>2 DEF Candidates
  <2> QED BY <1>2, <2>1, <2>2 DEF Candidates
<1>3. CASE ~(cand[o].n > 1)
  <2>1. cand' = [cand EXCEPT ![o] = [n |-> 0, image |-> 0]] BY <1>3 DEF RemoveCandidate
  <2> QED BY <1>1, <1>3, <2>1 DEF Candidates
<1> QED BY <1>2, <1>3

\* checkNotificationCandidateList counts nothing.
LEMMA CheckEffect ==
    ASSUME cand \in Candidates, NEW o \in Owners, NEW h \in Pods, image[h] \in 1..MaxSpec,
           NEW r \in BOOLEAN, CheckCandidate(h, o, r)
    PROVE  /\ cand' \in Candidates
           /\ \A x \in Owners : cand'[x].n = cand[x].n
           /\ scanned' \in {scanned, scanned \cup {<<o, image[h]>>}}
           /\ \A x \in Owners : cand'[x].image # cand[x].image =>
                 x = o /\ cand'[x].image = image[h] /\ <<o, image[h]>> \in scanned'
           /\ r /\ cand[o].n > 0 => cand'[o].image = image[h]
  BY DEF CheckCandidate, Candidates

\* RemovePod takes a name off its lists, and drops some that are empty then.
LEMMA UnlistsEffect ==
    ASSUME pdm \in [DOMAIN pdm -> Microservices], NEW h \in Pods, NEW o \in Owners,
           NEW gone \in SUBSET DOMAIN pdm, Unlists(h, o, gone)
    PROVE  /\ pdm' \in [DOMAIN pdm' -> Microservices]
           /\ DOMAIN pdm' = DOMAIN pdm \ gone
           /\ \A i \in gone : pdm[i].pods = {PodName[h]}
           /\ \A i \in DOMAIN pdm' : /\ pdm'[i].owner = pdm[i].owner
                                     /\ pdm'[i].pods = pdm[i].pods \ {PodName[h]}
<1>1. pdm' = [i \in DOMAIN pdm \ gone |->
                 IF i \in Listed(PodName[h]) THEN [pdm[i] EXCEPT !.pods = @ \ {PodName[h]}] ELSE pdm[i]]
  BY DEF Unlists, Unlisted
<1>2. \A i \in gone : pdm[i].pods = {PodName[h]} BY DEF Unlists
<1>3. \A i \in DOMAIN pdm : pdm[i] \in Microservices /\ pdm[i].pods \subseteq Names
  BY DEF Microservices
<1>4. \A i \in DOMAIN pdm :
         LET new == [pdm[i] EXCEPT !.pods = @ \ {PodName[h]}]
         IN  new \in Microservices /\ new.owner = pdm[i].owner /\ new.pods = pdm[i].pods \ {PodName[h]}
  BY <1>3 DEF Microservices
<1>5. \A i \in DOMAIN pdm : i \notin Listed(PodName[h]) => pdm[i].pods = pdm[i].pods \ {PodName[h]}
  BY DEF Listed
<1>6. \A i \in DOMAIN pdm' : /\ pdm'[i].owner = pdm[i].owner
                             /\ pdm'[i].pods = pdm[i].pods \ {PodName[h]}
                             /\ pdm'[i] \in Microservices
  BY <1>1, <1>3, <1>4, <1>5
<1> QED BY <1>1, <1>2, <1>6

\* An Added event that is handled or dropped counts from then on.
LEMMA CountedFinite ==
    ClusterInv => IsFiniteSet(Counted) /\ Cardinality(Counted) \in Nat
                  /\ Cardinality(Counted) <= Cardinality(Pods) /\ Cardinality(Pods) \in Nat
<1>1. IsFiniteSet(Pods) BY PodsAssumption
<1>2. Counted \subseteq Pods BY DEF Counted, Created
<1> QED BY <1>1, <1>2, FS_Subset, FS_CardinalityType

\* There are not fewer of them.
LEMMA CountedGrows ==
    ASSUME ClusterInv', Counted \subseteq Counted'
    PROVE  Cardinality(Counted) <= Cardinality(Counted') /\ Cardinality(Counted') \in Nat
<1>1. IsFiniteSet(Pods) BY PodsAssumption
<1>2. Counted' \subseteq Pods BY DEF Counted, Created
<1>3. IsFiniteSet(Counted') BY <1>1, <1>2, FS_Subset
<1> QED BY <1>3, FS_Subset, FS_CardinalityType

\* Nothing but the times changes.
LEMMA CollectorKept ==
    ASSUME ClusterInv, ClusterInv', CollectorInv, UNCHANGED <<nextId, pdm, cand, scanned, view, left>>,
           early' \subseteq Owners \X (1..MaxSpec),
           last' \in 0..clock', start' \in 0..clock', Counted \subseteq Counted'
    PROVE  CollectorInv'
<1>1. Cardinality(Counted) <= Cardinality(Counted') /\ Cardinality(Counted') \in Nat
  BY CountedGrows
<1>2. Cardinality(Counted) \in Nat BY CountedFinite
<1>3. \A o \in Owners : cand[o].n \in Nat BY DEF CollectorInv
<1>4. \A o \in Owners : cand'[o].n <= Cardinality(Counted')
  BY <1>1, <1>2, <1>3 DEF CollectorInv
<1>5. Entries' = Entries BY DEF Entries
<1> QED BY <1>4, <1>5 DEF CollectorInv

\* Nothing is known at the start.
LEMMA CollectorInit == Init => CollectorInv
<1> SUFFICES ASSUME Init PROVE CollectorInv OBVIOUS
<1>1. ClusterInv BY ClusterInit
<1>2. Cardinality(Counted) \in Nat BY <1>1, CountedFinite
<1>3. clock = 0 /\ last = 0 /\ start = 0 /\ nextId = 0 /\ scanned = {} /\ early = {} BY DEF Init
<1>4. pdm \in [DOMAIN pdm -> Microservices] /\ DOMAIN pdm = {} BY DEF Init, NoPods
<1>5. view \in Entries /\ left \in Entries BY DEF Init, NoEntries, Entries
<1>6. cand \in [Owners -> [n : Nat, image : 0..MaxSpec]] /\ \A o \in Owners : cand[o].n = 0
  BY SpecAssumption DEF Init
<1> QED BY <1>2, <1>3, <1>4, <1>5, <1>6 DEF CollectorInv

\* Of a change in the cluster the collector knows nothing yet.
LEMMA CollectorPodStep ==
    ASSUME StateInv, NEW p \in Pods, NEW type \in EventTypes, PodStep(p, type)
    PROVE  CollectorInv'
<1>1. ClusterInv /\ QueueInv /\ CollectorInv /\ ClusterInv' BY ClusterPodStep DEF StateInv
<1>2. /\ Created' = Created \cup {p} /\ (type = "Added" <=> p \notin Created)
      /\ clock \in Nat /\ clock' \in Nat /\ clock' >= clock
      /\ type # "Added" => UNCHANGED born
  BY <1>1, PodFacts
<1>3. /\ UNCHANGED <<last, start, nextId, pdm, cand, scanned, view, left, early, watching>>
      /\ \A q \in Pods : q # p => born'[q] = born[q]
  BY DEF PodStep, collector, entries
<1>4. \A q \in Created : born'[q] = born[q] BY <1>2, <1>3 DEF Created
<1>5. Counted \subseteq Counted'
  <2> SUFFICES ASSUME NEW q \in Counted PROVE q \in Counted' OBVIOUS
  <2>1. q \in Created /\ q \in Pods /\ ~Awaited(q) BY DEF Counted, Created
  <2>2. "Added" \in EventTypes BY DEF EventTypes
  <2>3. Queued("Added", q)' <=> Queued("Added", q) \/ (watching /\ "Added" = type /\ q = p)
    BY <1>1, <2>1, <2>2, QueuedAfterPodStep
  <2>4. ~Awaited(q)' BY <1>2, <1>3, <1>4, <2>1, <2>3 DEF Awaited
  <2> QED BY <1>2, <2>1, <2>4 DEF Counted
<1>6. last' \in 0..clock' /\ start' \in 0..clock' /\ early' \subseteq Owners \X (1..MaxSpec)
  BY <1>1, <1>2, <1>3 DEF CollectorInv
<1> QED BY <1>1, <1>3, <1>5, <1>6, CollectorKept

\* The collector starts: for it all pods are old.
LEMMA CollectorStarts ==
    ASSUME StateInv, ClusterInv', PodWatchStarts
    PROVE  CollectorInv'
<1>1. ClusterInv /\ CollectorInv BY DEF StateInv
<1>2. /\ UNCHANGED <<phase, born, clock, last, nextId, pdm, cand, scanned, view, left, early>>
      /\ start' = clock
  BY DEF PodWatchStarts, cluster, entries
<1>3. clock \in Nat BY <1>1, CreatedFinite
<1>4. Counted \subseteq Counted'
  <2>1. \A p \in Created : born[p] \in Nat /\ born[p] <= clock BY <1>1 DEF ClusterInv, Created
  <2>2. \A p \in Created : ~Awaited(p)' BY <1>2, <1>3, <2>1 DEF Awaited
  <2> QED BY <1>2, <2>2 DEF Counted, Created
<1>5. last' \in 0..clock' /\ start' \in 0..clock' /\ early' \subseteq Owners \X (1..MaxSpec)
  BY <1>1, <1>2, <1>3 DEF CollectorInv
<1> QED BY <1>1, <1>2, <1>4, <1>5, CollectorKept

\* A new watch: every pod still awaited is in it.
LEMMA CollectorOpens ==
    ASSUME StateInv, ClusterInv', WatchOpens
    PROVE  CollectorInv'
<1>1. ClusterInv /\ CollectorInv BY DEF StateInv
<1>2. /\ ~watching
      /\ UNCHANGED <<phase, born, clock, last, start, nextId, pdm, cand, scanned, view, left>>
      /\ early' = early \cup {<<OwnerOf[p], image[p]>> :
                                p \in {q \in Pods : phase[q] = "running" /\ born[q] > start}}
  BY DEF WatchOpens, cluster, entries
<1>3. Counted \subseteq Counted' BY <1>2 DEF Counted, Created, Awaited
<1>4. last' \in 0..clock' /\ start' \in 0..clock' /\ early' \subseteq Owners \X (1..MaxSpec)
  <2>1. \A p \in Pods : OwnerOf[p] \in Owners BY PodsAssumption
  <2>2. \A p \in Pods : phase[p] = "running" => image[p] \in 1..MaxSpec
    BY <1>1, SpecAssumption DEF ClusterInv, Created
  <2>3. early' \subseteq Owners \X (1..MaxSpec) BY <1>1, <1>2, <2>1, <2>2 DEF CollectorInv
  <2> QED BY <1>1, <1>2, <2>3 DEF CollectorInv
<1> QED BY <1>1, <1>2, <1>3, <1>4, CollectorKept

\* After the end of a watch all pods are old.
LEMMA CollectorEnds ==
    ASSUME StateInv, ClusterInv', EndStep
    PROVE  CollectorInv'
<1>1. ClusterInv /\ CollectorInv BY DEF StateInv
<1>2. UNCHANGED <<phase, born, clock, start, nextId, pdm, cand, scanned, view, left, early>> /\ last' = clock
  BY DEF EndStep, cluster
<1>3. clock \in Nat BY <1>1, CreatedFinite
<1>4. Counted \subseteq Counted'
  <2>1. \A p \in Created : born[p] \in Nat /\ born[p] <= clock BY <1>1 DEF ClusterInv, Created
  <2>2. \A p \in Created : ~Awaited(p)' BY <1>2, <1>3, <2>1 DEF Awaited
  <2> QED BY <1>2, <2>2 DEF Counted, Created
<1>5. last' \in 0..clock' /\ start' \in 0..clock' /\ early' \subseteq Owners \X (1..MaxSpec)
  BY <1>1, <1>2, <1>3 DEF CollectorInv
<1> QED BY <1>1, <1>2, <1>4, <1>5, CollectorKept

\* What is pending is part of the view.
LEMMA PendingTypes ==
    ASSUME CollectorInv, NEW u \in Pending
    PROVE  u \in Entries /\ u.ms \subseteq view.ms /\ u.pods \subseteq view.pods
<1>1. u \in Unsent BY DEF Pending
<1>2. PICK k \in 0..nextId, pods \in SUBSET view.pods : u = [ms |-> {i \in view.ms : i >= k}, pods |-> pods]
  BY <1>1 DEF Unsent
<1>3. view.ms \subseteq 0..(nextId - 1) /\ view.pods \subseteq Names BY DEF CollectorInv, Entries
<1> QED BY <1>2, <1>3 DEF Entries

\* A new registry.
LEMMA CollectorReset ==
    ASSUME StateInv, ClusterInv', StateIsReset
    PROVE  CollectorInv'
<1>1. ClusterInv /\ CollectorInv BY DEF StateInv
<1>2. /\ UNCHANGED <<phase, born, clock, queue, watching, last, start, nextId, cand, scanned, early>>
      /\ pdm' = NoPods /\ view' \in Pending /\ left' = view'
  BY DEF StateIsReset, cluster
<1>3. Counted' = Counted BY <1>2 DEF Counted, Created, Awaited, Queued, Idx, Is
<1>4. pdm' \in [DOMAIN pdm' -> Microservices] /\ DOMAIN pdm' = {} BY <1>2 DEF NoPods
<1>5. view' \in Entries /\ Entries' = Entries BY <1>1, <1>2, PendingTypes DEF Entries
<1> QED BY <1>1, <1>2, <1>3, <1>4, <1>5 DEF CollectorInv

\* Whose event is done, counts.
LEMMA CountedAfterDone ==
    ASSUME StateInv, Done, UNCHANGED start, last' \in {last, clock}
    PROVE  Counted \subseteq Counted'
<1>1. ClusterInv /\ QueueInv /\ CollectorInv BY DEF StateInv
<1>2. UNCHANGED <<phase, born, clock, watching>> BY DEF Done, EventDone, cluster
<1>3. clock \in Nat /\ last \in Nat /\ last <= clock BY <1>1, CreatedFinite DEF CollectorInv
<1>4. SUFFICES ASSUME NEW p \in Counted PROVE p \in Counted' OBVIOUS
<1>5. p \in Created /\ p \in Pods /\ ~Awaited(p) /\ born[p] \in Nat
  BY <1>1 DEF Counted, Created, ClusterInv
<1>6. Queued("Added", p)' => Queued("Added", p) BY <1>1, QueuedAfterDone
<1>7. ~Awaited(p)' BY <1>2, <1>3, <1>5, <1>6 DEF Awaited
<1> QED BY <1>2, <1>5, <1>7 DEF Counted, Created

\* The handlers: a candidate counts one pod more only when one more was awaited.
LEMMA CollectorHandles ==
    ASSUME StateInv, ClusterInv', HandlerSteps
    PROVE  CollectorInv'
<1>1. ClusterInv /\ QueueInv /\ CollectorInv /\ Done BY HandlerEffect DEF StateInv
<1>2. Head1.pod \in Created /\ Head1 \in Events BY <1>1, HandledQueue
<1>3. PICK h \in Pods : h = Head1.pod BY <1>2 DEF Created
<1>4. UNCHANGED <<phase, born, image, clock, watching>> BY <1>1 DEF Done, EventDone, cluster
<1>5. /\ clock \in Nat /\ last \in 0..clock /\ start \in 0..clock /\ nextId \in Nat
      /\ cand \in Candidates /\ pdm \in [DOMAIN pdm -> Microservices]
      /\ view \in Entries
      /\ DOMAIN pdm \subseteq 0..(nextId - 1)
      /\ scanned \subseteq Owners \X (1..MaxSpec) /\ early \subseteq Owners \X (1..MaxSpec)
      /\ left \in Entries
  BY <1>1, CreatedFinite DEF CollectorInv, Candidates
<1>6. Head1.running \in BOOLEAN /\ image[h] \in 1..MaxSpec /\ image[h] \in 0..MaxSpec /\ born[h] \in Nat
  BY <1>1, <1>2, <1>3, SpecAssumption DEF ClusterInv, Events
<1>7. \A o \in Owners : cand[o].n \in Nat /\ cand[o].n <= Cardinality(Counted)
  BY <1>1, <1>5 DEF CollectorInv, Candidates
<1>8. Cardinality(Counted) \in Nat BY <1>1, CountedFinite
<1>9. CASE Ignores(h)
  <2>1. UNCHANGED <<start, nextId, pdm, cand, scanned, view, left, early>> /\ last' \in {last, clock}
    BY <1>9 DEF Ignores
  <2>2. Counted \subseteq Counted' BY <2>1, CountedAfterDone, <1>1
  <2>3. /\ last' \in 0..clock' /\ start' \in 0..clock'
        /\ early' \subseteq Owners \X (1..MaxSpec)
    BY <1>4, <1>5, <2>1
  <2> QED BY <1>1, <2>1, <2>2, <2>3, CollectorKept
<1>10. ASSUME NEW o \in Owners, NEW i \in DOMAIN pdm \cup {nextId}, Lists(h, i, o)
       PROVE  CollectorInv'
  <2>1. UNCHANGED <<last, start, scanned, left, early>> BY <1>10 DEF Lists
  <2>2. Counted \subseteq Counted' BY <2>1, CountedAfterDone, <1>1
  <2>3. Cardinality(Counted) <= Cardinality(Counted') /\ Cardinality(Counted') \in Nat
    BY <2>2, CountedGrows
  <2>4. /\ cand' \in Candidates
        /\ \A x \in Owners : x # o => cand'[x] = cand[x]
        /\ born[h] <= start => cand' = cand
        /\ ~(born[h] <= start) => cand'[o].n = cand[o].n + 1
    BY <1>5, <1>6, <1>10, AddEffect DEF Lists
  <2>5. ~(born[h] <= start) => Cardinality(Counted) + 1 <= Cardinality(Counted')
    <3> SUFFICES ASSUME ~(born[h] <= start) PROVE Cardinality(Counted) + 1 <= Cardinality(Counted')
      OBVIOUS
    <3>1. Head1.type = "Added" /\ born[h] > last /\ watching BY <1>1, <1>10 DEF Lists, Done
    <3>2. Queued("Added", h) /\ ~Queued("Added", h)'
      BY <1>1, <1>3, <3>1, QueuedAfterDone, AddedIsDone
    <3>3. h \notin Counted BY <1>5, <1>6, <3>1, <3>2 DEF Counted, Awaited
    <3>4. h \in Counted' BY <1>2, <1>3, <1>4, <3>1, <3>2 DEF Counted, Awaited, Created
    <3>5. IsFiniteSet(Counted) BY <1>1, CountedFinite
    <3>6. Cardinality(Counted \cup {h}) = Cardinality(Counted) + 1 /\ IsFiniteSet(Counted \cup {h})
      BY <3>3, <3>5, FS_AddElement
    <3>7. IsFiniteSet(Counted')
      <4>1. IsFiniteSet(Pods) /\ Counted' \subseteq Pods BY PodsAssumption DEF Counted, Created
      <4> QED BY <4>1, FS_Subset
    <3>8. Counted \cup {h} \subseteq Counted' BY <2>2, <3>4
    <3>9. Cardinality(Counted \cup {h}) <= Cardinality(Counted') BY <3>7, <3>8, FS_Subset
    <3> QED BY <3>6, <3>9
  <2>6. \A x \in Owners : cand'[x].n <= Cardinality(Counted')
    BY <1>7, <1>8, <2>3, <2>4, <2>5
  <2>7. /\ DOMAIN pdm' \subseteq 0..(nextId' - 1) /\ nextId' \in Nat
        /\ pdm' \in [DOMAIN pdm' -> Microservices]
    BY <1>5, <1>10 DEF Lists
  <2>8. view' \in Entries' /\ left' \in Entries'
    <3>1. view' = [ms |-> view.ms \cup ({i} \ DOMAIN pdm), pods |-> view.pods \cup {PodName[h]}]
      BY <1>10 DEF Lists
    <3>2. PodName[h] \in Names BY DEF Names
    <3>3. i \in 0..(nextId' - 1) /\ 0..(nextId - 1) \subseteq 0..(nextId' - 1)
      BY <1>5, <1>10 DEF Lists
    <3>4. view.ms \cup ({i} \ DOMAIN pdm) \in SUBSET (0..(nextId' - 1))
      BY <1>5, <3>3 DEF Entries
    <3>5. view.pods \cup {PodName[h]} \in SUBSET Names BY <1>5, <3>2 DEF Entries
    <3>6. left' \in Entries' BY <1>5, <2>1, <3>3 DEF Entries
    <3> QED BY <3>1, <3>4, <3>5, <3>6 DEF Entries
  <2> QED BY <1>4, <1>5, <2>1, <2>4, <2>6, <2>7, <2>8 DEF CollectorInv, Candidates
<1>11. ASSUME NEW o \in Owners, Checks(h, o)
       PROVE  CollectorInv'
  <2>1. UNCHANGED <<start, nextId, pdm, view, left, early>> /\ last' \in {last, clock} BY <1>11 DEF Checks
  <2>2. Counted \subseteq Counted' BY <2>1, CountedAfterDone, <1>1
  <2>3. Cardinality(Counted) <= Cardinality(Counted') /\ Cardinality(Counted') \in Nat
    BY <2>2, CountedGrows
  <2>4. /\ cand' \in Candidates /\ \A x \in Owners : cand'[x].n = cand[x].n
        /\ scanned' \in {scanned, scanned \cup {<<o, image[h]>>}}
    <3>1. PICK r \in BOOLEAN : r = Head1.running BY <1>6
    <3>2. CheckCandidate(h, o, r) BY <1>11, <3>1 DEF Checks
    <3>3. cand \in Candidates /\ image[h] \in 1..MaxSpec BY <1>5, <1>6
    <3>4. cand' \in Candidates /\ \A x \in Owners : cand'[x].n = cand[x].n
      BY <3>2, <3>3, CheckEffect
    <3>5. scanned' \in {scanned, scanned \cup {<<o, image[h]>>}} BY <3>2 DEF CheckCandidate
    <3> QED BY <3>4, <3>5
  <2>5. \A x \in Owners : cand'[x].n <= Cardinality(Counted') BY <1>7, <1>8, <2>3, <2>4
  <2>6. scanned' \subseteq Owners \X (1..MaxSpec) BY <1>5, <1>6, <2>4
  <2>7. last' \in 0..clock' /\ start' \in 0..clock' /\ Entries' = Entries
    BY <1>4, <1>5, <2>1 DEF Entries
  <2> QED BY <1>5, <2>1, <2>4, <2>5, <2>6, <2>7 DEF CollectorInv, Candidates
<1>12. ASSUME NEW o \in Owners, NEW gone \in SUBSET DOMAIN pdm, Unlists(h, o, gone)
       PROVE  CollectorInv'
  <2>1. UNCHANGED <<last, start, nextId, scanned, left, early>> BY <1>12 DEF Unlists
  <2>2. Counted \subseteq Counted' BY <2>1, CountedAfterDone, <1>1
  <2>3. Cardinality(Counted) <= Cardinality(Counted') /\ Cardinality(Counted') \in Nat
    BY <2>2, CountedGrows
  <2>4. /\ cand' \in Candidates
        /\ \A x \in Owners : x # o => cand'[x] = cand[x]
        /\ cand'[o].n = IF cand[o].n > 1 THEN cand[o].n - 1 ELSE 0
    BY <1>5, <1>12, RemoveEffect DEF Unlists
  <2>5. \A x \in Owners : cand'[x].n <= Cardinality(Counted') BY <1>7, <1>8, <2>3, <2>4
  <2>6. pdm' \in [DOMAIN pdm' -> Microservices] /\ DOMAIN pdm' \subseteq DOMAIN pdm
    <3>1. pdm' \in [DOMAIN pdm' -> Microservices] /\ DOMAIN pdm' = DOMAIN pdm \ gone
      BY <1>5, <1>12, UnlistsEffect
    <3> QED BY <3>1
  <2>7. view' \in Entries' /\ left' \in Entries'
    <3>1. /\ view' = [ms |-> view'.ms, pods |-> IF Listed(PodName[h]) = {} THEN view.pods
                                              ELSE view.pods \ {PodName[h]}]
          /\ view'.ms \subseteq view.ms
      BY <1>12 DEF Unlists
    <3> QED BY <1>5, <2>1, <3>1 DEF Entries
  <2> QED BY <1>4, <1>5, <2>1, <2>4, <2>5, <2>6, <2>7 DEF CollectorInv, Candidates
<1> QED BY <1>3, <1>9, <1>10, <1>11, <1>12, HandlerEffect

\* A panic: the watch starts over, and nothing that was created before counts.
LEMMA CollectorPanics ==
    ASSUME StateInv, ClusterInv', DeletedPanics
    PROVE  CollectorInv'
<1>1. PICK h \in Pods, o \in Owners : PanicStep(h, o) BY PanicEffect
<1>2. ClusterInv /\ CollectorInv BY DEF StateInv
<1>3. /\ UNCHANGED <<phase, born, clock, nextId, scanned, view, left, early>>
      /\ last' = 0 /\ start' = clock /\ RemoveCandidate(o)
  BY <1>1 DEF PanicStep, cluster
<1>4. clock \in Nat BY <1>2, CreatedFinite
<1>5. cand \in Candidates /\ pdm \in [DOMAIN pdm -> Microservices]
  BY <1>2 DEF CollectorInv, Candidates
<1>6. Counted \subseteq Counted'
  <2>1. \A p \in Created : born[p] \in Nat /\ born[p] <= clock BY <1>2 DEF ClusterInv, Created
  <2>2. \A p \in Created : ~Awaited(p)' BY <1>3, <1>4, <2>1 DEF Awaited
  <2> QED BY <1>3, <2>2 DEF Counted, Created
<1>7. Cardinality(Counted) <= Cardinality(Counted') /\ Cardinality(Counted') \in Nat
      /\ Cardinality(Counted) \in Nat
  BY <1>2, <1>6, CountedGrows, CountedFinite
<1>8. /\ cand' \in Candidates
      /\ \A x \in Owners : x # o => cand'[x] = cand[x]
      /\ cand'[o].n = IF cand[o].n > 1 THEN cand[o].n - 1 ELSE 0
  BY <1>3, <1>5, RemoveEffect
<1>9. \A x \in Owners : cand[x].n \in Nat /\ cand[x].n <= Cardinality(Counted)
  BY <1>2, <1>5 DEF CollectorInv, Candidates
<1>10. \A x \in Owners : cand'[x].n <= Cardinality(Counted') BY <1>7, <1>8, <1>9
<1>11. pdm' \in [DOMAIN pdm' -> Microservices] /\ DOMAIN pdm' \subseteq DOMAIN pdm
  <2>1. PICK hits \in SUBSET Listed(PodName[h]) :
           \E gone \in SUBSET {i \in hits : pdm[i].pods = {PodName[h]}} :
              pdm' = Unlisted(PodName[h], hits, gone)
    BY <1>1 DEF PanicStep
  <2>2. PICK gone \in SUBSET {i \in hits : pdm[i].pods = {PodName[h]}} :
           pdm' = Unlisted(PodName[h], hits, gone)
    BY <2>1
  <2>3. pdm' = [i \in DOMAIN pdm \ gone |->
                   IF i \in hits THEN [pdm[i] EXCEPT !.pods = @ \ {PodName[h]}] ELSE pdm[i]]
    BY <2>2 DEF Unlisted
  <2>4. \A i \in DOMAIN pdm : [pdm[i] EXCEPT !.pods = @ \ {PodName[h]}] \in Microservices
    BY <1>5 DEF Microservices
  <2>5. \A i \in DOMAIN pdm : pdm[i] \in Microservices BY <1>5
  <2> QED BY <2>3, <2>4, <2>5
<1>12. Entries' = Entries BY <1>3 DEF Entries
<1> QED BY <1>2, <1>3, <1>4, <1>8, <1>10, <1>11, <1>12 DEF CollectorInv, Candidates

-----------------------------------------------------------------------------
(* The types.                                                               *)

\* Every step is one of these.
LEMMA NextCases ==
    ASSUME [Next]_vars
    PROVE  \/ \E p \in Pods : PodSteps(p)
           \/ OwnerSteps \/ PodWatchStarts \/ WatchOpens \/ EndSteps \/ StateIsReset
           \/ HandlerSteps \/ DeletedPanics
           \/ UNCHANGED vars
<1>1. ClusterStep => (\E p \in Pods : PodSteps(p)) \/ OwnerSteps
  BY DEF ClusterStep, PodSteps, OwnerSteps
<1>2. HandlerStep => OwnerLookupFails \/ HandlerSteps \/ DeletedPanics
  BY DEF HandlerStep, HandlerSteps
<1> QED BY <1>1, <1>2 DEF Next, EndSteps

\* A step that leaves pods, channel and times alone changes no state that matters.
LEMMA StateKept ==
    ASSUME StateInv, ClusterInv', UNCHANGED <<phase, born, clock, channel, collector>>
    PROVE  QueueInv' /\ CollectorInv'
<1>1. UNCHANGED <<call, watching, queue, stopping, gaps,
                  last, start, nextId, pdm, cand, scanned, view, left, early>>
  BY DEF channel, collector, entries
<1>2. QueueInv' BY <1>1, QueueKept DEF StateInv, QueueInv
<1>3. Counted \subseteq Counted' BY <1>1 DEF Counted, Created, Awaited, Queued, Idx, Is
<1>4. last' \in 0..clock' /\ start' \in 0..clock' /\ early' \subseteq Owners \X (1..MaxSpec)
  BY <1>1 DEF StateInv, CollectorInv
<1>5. CollectorInv' BY <1>1, <1>3, <1>4, CollectorKept DEF StateInv
<1> QED BY <1>2, <1>5

\* The invariant is inductive: one case for every kind of step.
LEMMA StateStep == StateInv /\ [Next]_vars => StateInv'
<1> SUFFICES ASSUME StateInv, [Next]_vars PROVE StateInv' OBVIOUS
<1>1. ClusterInv /\ QueueInv /\ CollectorInv BY DEF StateInv
<1>2. version \in [Owners -> 0..MaxSpec] BY <1>1 DEF ClusterInv
<1>3. ASSUME NEW p \in Pods, PodSteps(p) PROVE StateInv'
  <2>1. PICK type \in EventTypes : PodStep(p, type) BY <1>1, <1>3, PodEffect
  <2>2. ClusterInv' BY <1>1, <2>1, ClusterPodStep
  <2>3. QueueInv' BY <1>1, <2>1, QueuePodStep
  <2>4. CollectorInv' BY <2>1, CollectorPodStep
  <2> QED BY <2>2, <2>3, <2>4 DEF StateInv
<1>4. CASE OwnerSteps
  <2>1. UNCHANGED <<phase, born, image, clock, channel, collector>>
        /\ version' \in [Owners -> 0..MaxSpec]
    BY <1>1, <1>4, OwnerEffect
  <2>2. ClusterInv' BY <1>1, <2>1, ClusterKept
  <2> QED BY <2>1, <2>2, StateKept DEF StateInv
<1>5. CASE WatchOpens
  <2>1. ClusterInv' BY <1>1, <1>2, <1>5, ClusterKept DEF WatchOpens, cluster
  <2>2. QueueInv' BY <1>1, <1>5, QueueOpens
  <2>3. CollectorInv' BY <1>5, <2>1, CollectorOpens
  <2> QED BY <2>1, <2>2, <2>3 DEF StateInv
<1>6. CASE EndSteps
  <2>1. EndStep BY <1>1, <1>6, EndEffect
  <2>2. ClusterInv' BY <1>1, <1>2, <2>1, ClusterKept DEF EndStep, cluster
  <2>3. queue' = <<>> /\ watching' = FALSE /\ stopping' \in {"no", "asks", "hangs"}
        /\ gaps' \in 0..MaxGaps /\ call' \in {"none", "first", "later"}
    <3>1. stopping \in {"no", "asks", "hangs"} /\ gaps \in Nat BY <1>1, SpecAssumption DEF QueueInv
    <3>2. gaps' \in 0..MaxGaps BY <2>1, <3>1, SpecAssumption DEF EndStep
    <3>3. stopping' \in {"no", "asks", "hangs"} BY <2>1, <3>1 DEF EndStep
    <3> QED BY <1>1, <2>1, <3>2, <3>3 DEF EndStep, QueueInv
  <2>4. QueueInv' BY <2>3, QueueEmpty
  <2>5. CollectorInv' BY <2>1, <2>2, CollectorEnds
  <2> QED BY <2>2, <2>4, <2>5 DEF StateInv
<1>7. CASE StateIsReset
  <2>1. ClusterInv' BY <1>1, <1>2, <1>7, ClusterKept DEF StateIsReset, cluster
  <2>2. UNCHANGED <<phase, call, watching, queue>> /\ stopping' \in {"no", "asks", "hangs"}
        /\ gaps' \in 0..MaxGaps
    BY <1>1, <1>7, SpecAssumption DEF StateIsReset, cluster, QueueInv
  <2>3. QueueInv' BY <1>1, <2>2, QueueKept DEF QueueInv
  <2>4. CollectorInv' BY <1>7, <2>1, CollectorReset
  <2> QED BY <2>1, <2>3, <2>4 DEF StateInv
<1>8. CASE HandlerSteps
  <2>1. Done BY <1>8, HandlerEffect
  <2>2. ClusterInv' BY <1>1, <1>2, <2>1, ClusterKept DEF Done, EventDone, cluster
  <2>3. QueueInv' BY <1>1, <2>1, QueueDone
  <2>4. CollectorInv' BY <1>8, <2>2, CollectorHandles
  <2> QED BY <2>2, <2>3, <2>4 DEF StateInv
<1>9. CASE DeletedPanics
  <2>1. PICK h \in Pods : \E o \in Owners : PanicStep(h, o) BY <1>9, PanicEffect
  <2>2. UNCHANGED <<cluster, gaps>> /\ queue' = <<>> /\ watching' = FALSE
        /\ stopping' \in {"no", "asks", "hangs"} /\ call' = "later"
    BY <2>1 DEF PanicStep
  <2>3. ClusterInv' BY <1>1, <1>2, <2>2, ClusterKept DEF cluster
  <2>4. QueueInv' BY <1>1, <2>2, QueueEmpty DEF QueueInv
  <2>5. CollectorInv' BY <1>9, <2>3, CollectorPanics
  <2> QED BY <2>3, <2>4, <2>5 DEF StateInv
<1>10. CASE UNCHANGED vars
  <2>1. UNCHANGED <<phase, born, image, version, clock, channel, collector>>
    BY <1>10 DEF vars, cluster
  <2>2. ClusterInv' BY <1>1, <1>2, <2>1, ClusterKept
  <2> QED BY <2>1, <2>2, StateKept DEF StateInv
<1>11. CASE PodWatchStarts
  <2>1. UNCHANGED <<cluster, watching, queue, stopping, gaps>> /\ call' = "first"
    BY <1>11 DEF PodWatchStarts
  <2>2. ClusterInv' BY <1>1, <1>2, <2>1, ClusterKept DEF cluster
  <2>3. QueueInv' BY <1>1, <2>1, QueueKept DEF QueueInv, cluster
  <2>4. CollectorInv' BY <1>11, <2>2, CollectorStarts
  <2> QED BY <2>2, <2>3, <2>4 DEF StateInv
<1> QED BY <1>3, <1>4, <1>5, <1>6, <1>7, <1>8, <1>9, <1>10, <1>11, NextCases

\* It holds of every reachable state.
LEMMA StateAlways == Spec => []StateInv
<1>1. Init => StateInv BY ClusterInit, QueueInit, CollectorInit DEF StateInv
<1> QED BY <1>1, StateStep, PTL DEF Spec

\* What is needed of it for the types.
LEMMA TypesHold == StateInv => TypeOK
<1> SUFFICES ASSUME StateInv PROVE TypeOK OBVIOUS
<1>1. ClusterInv /\ QueueInv /\ CollectorInv BY DEF StateInv
<1>2. clock \in Nat /\ clock <= Cardinality(Pods) /\ Cardinality(Pods) \in Nat BY <1>1, CreatedFinite
<1>3. born \in [Pods -> 0..clock] BY <1>1, <1>2 DEF ClusterInv, Created
<1>4. \A i \in DOMAIN queue : queue[i] \in
          [type: {"Added", "Modified", "Terminating", "Deleted"}, pod: Pods, running: BOOLEAN]
  <2>1. queue \in Seq(Events) BY <1>1 DEF QueueInv
  <2>2. \A i \in DOMAIN queue : queue[i] \in Events BY <2>1
  <2> QED BY <2>2 DEF Events, EventTypes
<1>5. \A i \in DOMAIN pdm : pdm[i].owner \in Owners /\ pdm[i].pods \subseteq Names
  BY <1>1 DEF CollectorInv, Microservices
<1>6. cand \in [Owners -> [n: 0..Cardinality(Pods), image: 0..MaxSpec]]
  <2>1. /\ Cardinality(Counted) \in Nat /\ Cardinality(Counted) <= Cardinality(Pods)
    BY <1>1, CountedFinite
  <2>2. \A o \in Owners : cand[o].n \in Nat /\ cand[o].n <= Cardinality(Counted)
    BY <1>1 DEF CollectorInv
  <2>3. \A o \in Owners : cand[o] \in [n: 0..Cardinality(Pods), image: 0..MaxSpec]
    BY <1>1, <1>2, <2>1, <2>2 DEF CollectorInv
  <2>4. cand = [o \in Owners |-> cand[o]] BY <1>1 DEF CollectorInv
  <2> QED BY <2>3, <2>4
<1>7. \A v \in {view, left} : v.ms \subseteq 0..(nextId - 1) /\ v.pods \subseteq Names
  BY <1>1 DEF CollectorInv, Entries
<1>8. /\ phase \in [Pods -> {"absent", "starting", "running", "terminating", "gone"}]
      /\ image \in [Pods -> 0..MaxSpec] /\ version \in [Owners -> 0..MaxSpec]
  BY <1>1 DEF ClusterInv, Phases
<1>9. /\ call \in {"none", "first", "later"} /\ watching \in BOOLEAN
      /\ stopping \in {"no", "asks", "hangs"} /\ gaps \in 0..MaxGaps
  BY <1>1 DEF QueueInv
<1>10. /\ last \in 0..clock /\ start \in 0..clock /\ DOMAIN pdm \subseteq 0..(nextId - 1)
       /\ scanned \subseteq Owners \X (1..MaxSpec) /\ early \subseteq Owners \X (1..MaxSpec)
  BY <1>1 DEF CollectorInv
<1>11. clock \in 0..Cardinality(Pods) BY <1>2
<1> QED BY <1>3, <1>4, <1>5, <1>6, <1>7, <1>8, <1>9, <1>10, <1>11 DEF TypeOK

\* The types, for every size of the cluster: whatever is added, deleted and
\* missed, the counter of a scan candidate stays between 0 and the number of
\* pods (podwatch.go:108, 116), and every identifier in use was given by CreateID.
THEOREM TypeCorrect == Spec => []TypeOK
  BY StateAlways, TypesHold, PTL

-----------------------------------------------------------------------------
(* What is missed is old.                                                   *)

\* A change in the cluster: a new pod comes, and only a pod that is gone then
\* takes its name with it.
LEMMA MissedPodStep ==
    ASSUME StateInv, MissedInv, NEW h \in Pods, NEW type \in EventTypes, PodStep(h, type)
    PROVE  MissedInv'
<1>1. ClusterInv /\ QueueInv BY DEF StateInv
<1>2. UNCHANGED <<watching, stopping, last, view>> BY DEF PodStep, collector, entries
<1>3. SUFFICES ASSUME watching, stopping = "no", NEW p \in Pods, Live(p)'
               PROVE  (born[p] <= last \/ IsKnown(p) \/ Comes(p))'
  BY <1>2 DEF MissedInv
<1>4. /\ \A q \in Pods : q # h => (Live(q)' <=> Live(q))
      /\ (type # "Deleted" <=> Live(h)') /\ (type # "Added" <=> Live(h))
      /\ type # "Added" => UNCHANGED born
  BY <1>1, PodFacts
<1>5. PICK m : m = Len(queue) + 1 OBVIOUS
<1>6. /\ queue'[m].type = type /\ queue'[m].pod = h
      /\ \A i \in Idx : queue'[i] = queue[i] /\ i < m
      /\ Idx' = Idx \cup {m} /\ m \notin Idx
  BY <1>1, <1>3, <1>5, AppendedEvent
<1>7. CASE p = h /\ type = "Added"
  <2>1. Is(m, "Added", p)' BY <1>6, <1>7 DEF Is
  <2>2. \A j \in Idx' : GoesAt(j, p)' => j < m BY <1>6, <1>7 DEF GoesAt
  <2>3. Comes(p)' BY <1>6, <2>1, <2>2 DEF Comes
  <2> QED BY <2>3
<1>8. CASE ~(p = h /\ type = "Added")
  <2>1. Live(p) BY <1>3, <1>4, <1>8
  <2>2. born'[p] = born[p] BY <1>4, <1>8 DEF PodStep
  <2>3. \A j \in Idx' : GoesAt(j, p)' => j \in Idx /\ GoesAt(j, p)
    <3> SUFFICES ASSUME NEW j \in Idx', GoesAt(j, p)' PROVE j \in Idx /\ GoesAt(j, p) OBVIOUS
    <3>1. CASE j = m
      <4>1. type = "Deleted" /\ PodName[h] = PodName[p] BY <1>6, <3>1 DEF GoesAt
      <4>2. Live(h) BY <1>4, <4>1
      <4>3. h = p BY <1>1, <2>1, <4>1, <4>2 DEF ClusterInv
      <4> QED BY <1>3, <1>4, <4>1, <4>3
    <3>2. CASE j \in Idx BY <1>6, <3>2 DEF GoesAt
    <3> QED BY <1>6, <3>1, <3>2
  <2>4. born[p] <= last \/ IsKnown(p) \/ Comes(p) BY <1>3, <2>1 DEF MissedInv
  <2>5. IsKnown(p) => IsKnown(p)' BY <1>2, <2>3 DEF IsKnown
  <2>6. Comes(p) => Comes(p)' BY <1>6, <2>3 DEF Comes, Is
  <2> QED BY <1>2, <2>2, <2>4, <2>5, <2>6
<1> QED BY <1>7, <1>8

\* A new watch: every pod that exists comes.
LEMMA MissedOpens ==
    ASSUME StateInv, WatchOpens
    PROVE  MissedInv'
<1>1. ClusterInv BY DEF StateInv
<1>2. /\ \A i \in Idx' : queue'[i].type = "Added"
      /\ \A p \in Pods : Live(p) => \E i \in Idx' : queue'[i].pod = p
  BY <1>1, OpenedQueue
<1>3. \A p \in Pods : Live(p)' => Live(p) BY DEF WatchOpens, cluster, Live
<1>4. ASSUME NEW p \in Pods, Live(p)' PROVE Comes(p)'
  <2>1. PICK i \in Idx' : queue'[i].pod = p BY <1>2, <1>3, <1>4
  <2>2. Is(i, "Added", p)' BY <1>2, <2>1 DEF Is
  <2>3. \A j \in Idx' : ~GoesAt(j, p)' BY <1>2 DEF GoesAt
  <2> QED BY <2>2, <2>3 DEF Comes
<1> QED BY <1>4 DEF MissedInv

\* An event is done: what it does to a pod that is known or comes.
LEMMA ComesAfterDone ==
    ASSUME QueueInv, Done, NEW p \in Pods
    PROVE  /\ IsKnown(p) /\ PodName[p] \in view'.pods => IsKnown(p)'
           /\ Comes(p) => \/ Comes(p)'
                          \/ /\ Head1.type = "Added" /\ Head1.pod = p
                             /\ PodName[p] \in view'.pods => IsKnown(p)'
<1>1. /\ \A i \in Idx' : i + 1 \in Idx /\ queue'[i] = queue[i + 1] /\ i \in Nat /\ i >= 1
      /\ \A i \in Idx : i # 1 => i - 1 \in Idx' /\ queue'[i - 1] = queue[i]
  BY HandledQueue
<1>2. \A j \in Idx' : GoesAt(j, p)' => j + 1 \in Idx /\ GoesAt(j + 1, p) /\ j \in Nat
  BY <1>1 DEF GoesAt
<1>3. IsKnown(p) /\ PodName[p] \in view'.pods => IsKnown(p)' BY <1>2 DEF IsKnown
<1>4. ASSUME Comes(p)
      PROVE  \/ Comes(p)'
             \/ /\ Head1.type = "Added" /\ Head1.pod = p
                /\ PodName[p] \in view'.pods => IsKnown(p)'
  <2>1. PICK i \in Idx : Is(i, "Added", p) /\ \A j \in Idx : GoesAt(j, p) => j < i
    BY <1>4 DEF Comes
  <2>2. i \in Nat BY DEF Idx
  <2>3. CASE i = 1
    <3>1. \A j \in Idx' : ~GoesAt(j, p)'
      <4> SUFFICES ASSUME NEW j \in Idx', GoesAt(j, p)' PROVE FALSE OBVIOUS
      <4>1. j + 1 < 1 /\ j \in Nat BY <1>2, <2>1, <2>3
      <4> QED BY <4>1
    <3> QED BY <2>1, <2>3, <3>1 DEF Is, Head1, IsKnown
  <2>4. CASE i # 1
    <3>1. i - 1 \in Idx' /\ Is(i - 1, "Added", p)' BY <1>1, <2>1, <2>4 DEF Is
    <3>2. \A j \in Idx' : GoesAt(j, p)' => j < i - 1
      <4> SUFFICES ASSUME NEW j \in Idx', GoesAt(j, p)' PROVE j < i - 1 OBVIOUS
      <4>1. j + 1 < i /\ j \in Nat BY <1>2, <2>1
      <4> QED BY <2>2, <4>1
    <3> QED BY <3>1, <3>2 DEF Comes
  <2> QED BY <2>3, <2>4
<1> QED BY <1>3, <1>4

\* The handlers: an Added event lists its pod unless it is old, and only a
\* Deleted event takes a name off.
LEMMA MissedHandles ==
    ASSUME StateInv, MissedInv, HandlerSteps
    PROVE  MissedInv'
<1>1. ClusterInv /\ QueueInv /\ CollectorInv /\ Done BY HandlerEffect DEF StateInv
<1>2. Head1.pod \in Created /\ 1 \in Idx BY <1>1, HandledQueue
<1>3. PICK h \in Pods : h = Head1.pod BY <1>2 DEF Created
<1>4. UNCHANGED <<watching, stopping, phase, born>> BY <1>1 DEF Done, EventDone, cluster
<1>5. SUFFICES ASSUME watching, stopping = "no", NEW p \in Pods, Live(p)
               PROVE  born[p] <= last' \/ IsKnown(p)' \/ Comes(p)'
  BY <1>4 DEF MissedInv, Live
<1>6. born[p] \in Nat /\ born[p] <= clock /\ clock \in Nat /\ last \in Nat /\ last <= clock
  BY <1>1, <1>5, CreatedFinite DEF ClusterInv, Created, Live, CollectorInv
<1>7. born[p] <= last \/ IsKnown(p) \/ Comes(p) BY <1>5 DEF MissedInv
<1>8. /\ IsKnown(p) /\ PodName[p] \in view'.pods => IsKnown(p)'
      /\ Comes(p) => \/ Comes(p)'
                     \/ /\ Head1.type = "Added" /\ h = p
                        /\ PodName[p] \in view'.pods => IsKnown(p)'
  BY <1>1, <1>3, ComesAfterDone
<1>9. CASE Ignores(h)
  <2>1. view' = view BY <1>9 DEF Ignores
  <2>2. last' = clock \/ (last' = last /\ born[h] <= last) BY <1>9 DEF Ignores
  <2>3. IsKnown(p) => IsKnown(p)' BY <1>8, <2>1 DEF IsKnown
  <2> QED BY <1>6, <1>7, <1>8, <2>2, <2>3
<1>10. ASSUME NEW o \in Owners, NEW i \in DOMAIN pdm \cup {nextId}, Lists(h, i, o)
       PROVE  born[p] <= last' \/ IsKnown(p)' \/ Comes(p)'
  <2>1. last' = last /\ view'.pods = view.pods \cup {PodName[h]} BY <1>10 DEF Lists
  <2>2. IsKnown(p) => PodName[p] \in view'.pods BY <2>1 DEF IsKnown
  <2>3. h = p => PodName[p] \in view'.pods BY <2>1
  <2> QED BY <1>7, <1>8, <2>1, <2>2, <2>3
<1>11. ASSUME NEW o \in Owners, Checks(h, o)
       PROVE  born[p] <= last' \/ IsKnown(p)' \/ Comes(p)'
  <2>1. last' \in {last, clock} /\ view' = view /\ Head1.type # "Added" BY <1>11 DEF Checks
  <2>2. IsKnown(p) => PodName[p] \in view'.pods BY <2>1 DEF IsKnown
  <2> QED BY <1>6, <1>7, <1>8, <2>1, <2>2
<1>12. ASSUME NEW o \in Owners, NEW gone \in SUBSET DOMAIN pdm, Unlists(h, o, gone)
       PROVE  born[p] <= last' \/ IsKnown(p)' \/ Comes(p)'
  <2>1. /\ last' = last /\ Head1.type = "Deleted"
        /\ view'.pods = IF Listed(PodName[h]) = {} THEN view.pods ELSE view.pods \ {PodName[h]}
    BY <1>12 DEF Unlists
  <2>2. IsKnown(p) => PodName[p] # PodName[h]
    BY <1>2, <1>3, <2>1 DEF IsKnown, GoesAt, Head1
  <2>3. IsKnown(p) => PodName[p] \in view'.pods BY <2>1, <2>2 DEF IsKnown
  <2> QED BY <1>7, <1>8, <2>1, <2>3
<1> QED BY <1>3, <1>9, <1>10, <1>11, <1>12, HandlerEffect

\* The invariant is inductive: nothing is missed while no watch is open.
LEMMA MissedStep == StateInv /\ MissedInv /\ [Next]_vars => MissedInv'
<1> SUFFICES ASSUME StateInv, MissedInv, [Next]_vars PROVE MissedInv' OBVIOUS
<1>1. ASSUME NEW p \in Pods, PodSteps(p) PROVE MissedInv'
  <2>1. ClusterInv BY DEF StateInv
  <2>2. PICK type \in EventTypes : PodStep(p, type) BY <1>1, <2>1, PodEffect
  <2> QED BY <2>2, MissedPodStep
<1>2. ASSUME UNCHANGED <<phase, born, channel, collector>> PROVE MissedInv'
  <2>1. UNCHANGED <<phase, born, watching, stopping, queue, last, view>>
    BY <1>2 DEF channel, collector, entries
  <2> QED BY <2>1 DEF MissedInv, IsKnown, Comes, GoesAt, Idx, Is, Live
<1>3. CASE OwnerSteps
  <2>1. UNCHANGED <<phase, born, channel, collector>> BY <1>3, OwnerEffect DEF StateInv
  <2> QED BY <1>2, <2>1
<1>4. CASE WatchOpens BY <1>4, MissedOpens
<1>5. CASE EndSteps
  <2>1. watching' = FALSE BY <1>5, EndEffect DEF StateInv, EndStep
  <2> QED BY <2>1 DEF MissedInv
<1>6. CASE StateIsReset
  <2>1. watching => call # "none" BY DEF StateInv, QueueInv
  <2>2. watching' => stopping' # "no" BY <1>6, <2>1 DEF StateIsReset
  <2> QED BY <2>2 DEF MissedInv
<1>7. CASE HandlerSteps BY <1>7, MissedHandles
<1>8. CASE DeletedPanics
  <2>1. watching' = FALSE BY <1>8 DEF DeletedPanics, EndWatch
  <2> QED BY <2>1 DEF MissedInv
<1>9. CASE UNCHANGED vars
  <2>1. UNCHANGED <<phase, born, channel, collector>> BY <1>9 DEF vars, cluster
  <2> QED BY <1>2, <2>1
<1>10. CASE PodWatchStarts
  <2>1. watching' => call # "none" /\ call = "none" BY <1>10 DEF PodWatchStarts, StateInv, QueueInv
  <2> QED BY <2>1 DEF MissedInv
<1> QED BY <1>1, <1>3, <1>4, <1>5, <1>6, <1>7, <1>8, <1>9, <1>10, NextCases

\* It holds at the end of a batch of events.
LEMMA MissedHold == StateInv /\ MissedInv => MissedAreOld
<1> SUFFICES ASSUME StateInv, MissedInv, Idle, NEW p \in Pods, Live(p), PodName[p] \notin view.pods
             PROVE  born[p] <= last
  BY DEF MissedAreOld
<1>1. Idx = {} BY DEF Idle, Idx
<1>2. ~Comes(p) /\ ~IsKnown(p) BY <1>1 DEF Comes, IsKnown
<1> QED BY <1>2 DEF MissedInv, Idle

\* Whatever watches end, whatever panics and whatever the backend asks for, a
\* pod that the backend does not know of once all events are handled is older
\* than lastWatchEventCreationTime (podwatch.go:71, 205): it was skipped for its
\* age, and no other way of losing a pod is left.
THEOREM MissedOnlyByAge == Spec => []MissedAreOld
<1>1. Init => MissedInv BY DEF Init, MissedInv, Live
<1> QED BY <1>1, StateAlways, MissedStep, MissedHold, PTL DEF Spec

-----------------------------------------------------------------------------
(* The registry and what the backend has of it.                             *)

\* The lists of a name after a pod was listed.
LEMMA ListedAfterLists ==
    ASSUME CollectorInv, NEW h \in Pods, NEW o \in Owners, NEW i \in DOMAIN pdm \cup {nextId},
           Lists(h, i, o), NEW n
    PROVE  /\ n # PodName[h] => Listed(n)' = Listed(n)
           /\ n = PodName[h] => Listed(n)' = Listed(n) \cup {i}
<1>1. nextId \notin DOMAIN pdm BY DEF CollectorInv
<1>2. /\ DOMAIN pdm' = DOMAIN pdm \cup {i}
      /\ pdm'[i].pods = {PodName[h]} \cup (IF i \in DOMAIN pdm THEN pdm[i].pods ELSE {})
      /\ \A j \in DOMAIN pdm : j # i => pdm'[j] = pdm[j]
  BY DEF Lists
<1> QED BY <1>1, <1>2 DEF Listed

\* The lists of a name after a pod was taken off.
LEMMA ListedAfterUnlists ==
    ASSUME CollectorInv, NEW h \in Pods, NEW o \in Owners, NEW gone \in SUBSET DOMAIN pdm,
           Unlists(h, o, gone), NEW n
    PROVE  /\ n # PodName[h] => Listed(n)' = Listed(n)
           /\ n = PodName[h] => Listed(n)' = {}
<1>1. pdm \in [DOMAIN pdm -> Microservices] BY DEF CollectorInv
<1>2. /\ DOMAIN pdm' = DOMAIN pdm \ gone
      /\ \A i \in gone : pdm[i].pods = {PodName[h]}
      /\ \A i \in DOMAIN pdm' : pdm'[i].pods = pdm[i].pods \ {PodName[h]}
  BY <1>1, UnlistsEffect
<1> QED BY <1>2 DEF Listed

\* Under names that are never used again.
LEMMA UniquePodStep ==
    ASSUME StateInv, UniqueInv, NEW h \in Pods, NEW type \in EventTypes, PodStep(h, type)
    PROVE  UniqueInv'
<1>1. ClusterInv /\ QueueInv BY DEF StateInv
<1>2. UNCHANGED <<call, watching, last, pdm>> BY DEF PodStep, collector
<1>3. SUFFICES ASSUME call # "later", NEW p \in Pods, Listed(PodName[p]) # {}
               PROVE  /\ p \in Created'
                      /\ born'[p] <= last \/ (watching /\ ~Queued("Added", p)')
                      /\ \A i, j \in Listed(PodName[p]) : i = j
  BY <1>2 DEF UniqueInv, Listed
<1>4. /\ Created' = Created \cup {h} /\ (type = "Added" <=> h \notin Created)
      /\ type # "Added" => UNCHANGED born
  BY <1>1, PodFacts
<1>5. /\ p \in Created
      /\ born[p] <= last \/ (watching /\ ~Queued("Added", p))
      /\ \A i, j \in Listed(PodName[p]) : i = j
  BY <1>3 DEF UniqueInv
<1>6. born'[p] = born[p] /\ ~(type = "Added" /\ p = h)
  <2>1. \A q \in Pods : q # h => born'[q] = born[q] BY DEF PodStep
  <2> QED BY <1>4, <1>5, <2>1
<1>7. "Added" \in EventTypes BY DEF EventTypes
<1>8. Queued("Added", p)' <=> Queued("Added", p) \/ (watching /\ "Added" = type /\ p = h)
  BY <1>1, <1>7, QueuedAfterPodStep
<1>9. Queued("Added", p)' => Queued("Added", p) BY <1>6, <1>8
<1> QED BY <1>4, <1>5, <1>6, <1>9

\* The handlers: whose Added event lists it is not listed yet.
LEMMA UniqueHandles ==
    ASSUME NamesAreUnique, StateInv, UniqueInv, HandlerSteps
    PROVE  UniqueInv'
<1>1. ClusterInv /\ QueueInv /\ CollectorInv /\ Done BY HandlerEffect DEF StateInv
<1>2. Head1.pod \in Created BY <1>1, HandledQueue
<1>3. PICK h \in Pods : h = Head1.pod BY <1>2 DEF Created
<1>4. UNCHANGED <<call, watching, phase, born, clock>> /\ Created' = Created /\ watching
  BY <1>1 DEF Done, EventDone, cluster, Created
<1>5. clock \in Nat /\ last \in Nat /\ last <= clock BY <1>1, CreatedFinite DEF CollectorInv
<1> DEFINE Alone(p) == /\ p \in Created'
                       /\ born'[p] <= last' \/ (watching' /\ ~Queued("Added", p)')
                       /\ \A i, j \in Listed(PodName[p])' : i = j
<1>6. ASSUME call # "later", NEW p \in Pods, Listed(PodName[p]) # {}, last' \in {last, clock}
      PROVE  /\ p \in Created'
             /\ born'[p] <= last' \/ (watching' /\ ~Queued("Added", p)')
             /\ \A i, j \in Listed(PodName[p]) : i = j
  <2>1. /\ p \in Created
        /\ born[p] <= last \/ (watching /\ ~Queued("Added", p))
        /\ \A i, j \in Listed(PodName[p]) : i = j
    BY <1>6 DEF UniqueInv
  <2>2. Queued("Added", p)' => Queued("Added", p) BY <1>1, QueuedAfterDone
  <2>3. born[p] \in Nat BY <1>1 DEF ClusterInv
  <2> QED BY <1>4, <1>5, <1>6, <2>1, <2>2, <2>3
<1>7. ASSUME pdm' = pdm, last' \in {last, clock} PROVE UniqueInv'
  <2>1. \A p \in Pods : Listed(PodName[p])' = Listed(PodName[p]) BY <1>7 DEF Listed
  <2> SUFFICES ASSUME call # "later", NEW p \in Pods, Listed(PodName[p])' # {} PROVE Alone(p)
    BY <1>4 DEF UniqueInv
  <2>2. Listed(PodName[p])' = Listed(PodName[p]) BY <2>1
  <2> QED BY <1>6, <1>7, <2>2
<1>8. CASE Ignores(h) BY <1>7, <1>8 DEF Ignores
<1>9. ASSUME NEW o \in Owners, NEW i \in DOMAIN pdm \cup {nextId}, Lists(h, i, o)
      PROVE  UniqueInv'
  <2>1. Head1.type = "Added" /\ born[h] > last /\ last' = last BY <1>9 DEF Lists
  <2> SUFFICES ASSUME call # "later", NEW p \in Pods, Listed(PodName[p])' # {} PROVE Alone(p)
    BY <1>4 DEF UniqueInv
  <2>2. /\ PodName[p] # PodName[h] => Listed(PodName[p])' = Listed(PodName[p])
        /\ PodName[p] = PodName[h] => Listed(PodName[p])' = Listed(PodName[p]) \cup {i}
    BY <1>1, <1>9, ListedAfterLists
  <2>3. CASE p # h
    <3>1. PodName[p] # PodName[h] BY <2>3 DEF NamesAreUnique
    <3>2. Listed(PodName[p])' = Listed(PodName[p]) BY <2>2, <3>1
    <3> QED BY <1>6, <2>1, <3>2
  <2>4. CASE p = h
    <3>1. Queued("Added", h) /\ ~Queued("Added", h)'
      BY <1>1, <1>3, <2>1, QueuedAfterDone, AddedIsDone
    <3>2. born[h] \in Nat BY <1>1 DEF ClusterInv
    <3>3. Listed(PodName[h]) = {} BY <1>5, <2>1, <3>1, <3>2 DEF UniqueInv
    <3>4. Listed(PodName[p])' = {i} BY <2>2, <2>4, <3>3
    <3> QED BY <1>2, <1>3, <1>4, <2>4, <3>1, <3>4
  <2> QED BY <2>3, <2>4
<1>10. ASSUME NEW o \in Owners, Checks(h, o) PROVE UniqueInv' BY <1>7, <1>10 DEF Checks
<1>11. ASSUME NEW o \in Owners, NEW gone \in SUBSET DOMAIN pdm, Unlists(h, o, gone)
       PROVE  UniqueInv'
  <2>1. last' = last BY <1>11 DEF Unlists
  <2>2. \A p \in Pods : Listed(PodName[p])' \in {Listed(PodName[p]), {}}
    <3> SUFFICES ASSUME NEW p \in Pods PROVE Listed(PodName[p])' \in {Listed(PodName[p]), {}}
      OBVIOUS
    <3> QED BY <1>1, <1>11, ListedAfterUnlists
  <2> SUFFICES ASSUME call # "later", NEW p \in Pods, Listed(PodName[p])' # {} PROVE Alone(p)
    BY <1>4 DEF UniqueInv
  <2>3. Listed(PodName[p])' = Listed(PodName[p]) BY <2>2
  <2> QED BY <1>6, <2>1, <2>3
<1> QED BY <1>3, <1>8, <1>9, <1>10, <1>11, HandlerEffect

\* The invariant is inductive.
LEMMA UniqueStep == NamesAreUnique /\ StateInv /\ UniqueInv /\ [Next]_vars => UniqueInv'
<1> SUFFICES ASSUME NamesAreUnique, StateInv, UniqueInv, [Next]_vars PROVE UniqueInv' OBVIOUS
<1>1. ClusterInv /\ QueueInv /\ CollectorInv BY DEF StateInv
<1>2. ASSUME NEW p \in Pods, PodSteps(p) PROVE UniqueInv'
  <2>1. PICK type \in EventTypes : PodStep(p, type) BY <1>1, <1>2, PodEffect
  <2> QED BY <2>1, UniquePodStep
<1>3. ASSUME UNCHANGED <<phase, born, channel, collector>> PROVE UniqueInv'
  <2>1. UNCHANGED <<phase, born, call, watching, queue, last, pdm>>
    BY <1>3 DEF channel, collector
  <2> QED BY <2>1 DEF UniqueInv, Listed, Created, Queued, Idx, Is
<1>4. CASE OwnerSteps
  <2>1. UNCHANGED <<phase, born, channel, collector>> BY <1>1, <1>4, OwnerEffect
  <2> QED BY <1>3, <2>1
<1>5. CASE WatchOpens
  <2>1. ~watching /\ UNCHANGED <<phase, born, call, last, pdm>>
    BY <1>5 DEF WatchOpens, cluster
  <2> QED BY <2>1 DEF UniqueInv, Listed, Created
<1>6. CASE EndSteps
  <2>1. last' = clock /\ UNCHANGED <<phase, born, call, pdm>>
    BY <1>1, <1>6, EndEffect DEF EndStep, cluster
  <2>2. \A p \in Created : born[p] <= clock BY <1>1 DEF ClusterInv
  <2> QED BY <2>1, <2>2 DEF UniqueInv, Listed, Created
<1>7. CASE StateIsReset
  <2>1. \A n : Listed(n)' = {} BY <1>7 DEF StateIsReset, NoPods, Listed
  <2> QED BY <2>1 DEF UniqueInv
<1>8. CASE HandlerSteps BY <1>8, UniqueHandles
<1>9. CASE DeletedPanics BY <1>9 DEF UniqueInv, DeletedPanics
<1>10. CASE UNCHANGED vars
  <2>1. UNCHANGED <<phase, born, channel, collector>> BY <1>10 DEF vars, cluster
  <2> QED BY <1>3, <2>1
<1>11. CASE PodWatchStarts
  <2>1. /\ ~watching /\ call # "later" /\ UNCHANGED <<phase, born, watching, last, pdm>>
    BY <1>1, <1>11 DEF PodWatchStarts, cluster, QueueInv
  <2> QED BY <2>1 DEF UniqueInv, Listed, Created
<1> QED BY <1>2, <1>4, <1>5, <1>6, <1>7, <1>8, <1>9, <1>10, <1>11, NextCases

\* A list that has lost its last pod stays, if all owners are stateful sets.
LEMMA NoneIsRemoved ==
    ASSUME AllStateful, CollectorInv, NEW h \in Pods, NEW o \in Owners,
           NEW gone \in SUBSET DOMAIN pdm, Unlists(h, o, gone)
    PROVE  gone = {}
<1>1. gone = {i \in Listed(PodName[h]) : pdm[i].pods = {PodName[h]} /\ NeedsRemoval(i)}
  BY DEF Unlists
<1>2. \A i \in DOMAIN pdm : Kind[pdm[i].owner] = "StatefulSet"
  BY DEF CollectorInv, Microservices, AllStateful
<1>3. \A i \in DOMAIN pdm : ~NeedsRemoval(i) BY <1>2 DEF NeedsRemoval
<1> QED BY <1>1, <1>3 DEF Listed

\* What is reported of an event is what it does to the registry.
LEMMA MatchHandles ==
    ASSUME StateInv, (NamesAreUnique /\ UniqueInv) \/ AllStateful, MatchInv, HandlerSteps
    PROVE  MatchInv'
<1>1. CollectorInv /\ QueueInv /\ Done BY HandlerEffect DEF StateInv
<1>2. Head1.pod \in Pods BY <1>1, HandledQueue DEF Created
<1>3. PICK h \in Pods : h = Head1.pod BY <1>2
<1>4. /\ pdm \in [DOMAIN pdm -> Microservices] /\ nextId \notin DOMAIN pdm
      /\ nextId \notin left.ms
  BY <1>1 DEF CollectorInv, Entries
<1>5. call' = call BY <1>1 DEF Done, EventDone
<1> DEFINE listed == UNION {pdm[j].pods : j \in DOMAIN pdm}
<1>6. CASE call = "later" BY <1>5, <1>6 DEF MatchInv, RegistryMatchesView
<1>7. ASSUME call # "later"
      PROVE  /\ view.ms = DOMAIN pdm \cup left.ms
             /\ listed \subseteq view.pods /\ view.pods \subseteq listed \cup left.pods
             /\ \A j \in DOMAIN pdm : j \notin left.ms
  BY <1>7 DEF MatchInv, RegistryMatchesView
<1>8. ASSUME UNCHANGED <<pdm, view, left>> PROVE MatchInv'
  BY <1>5, <1>8 DEF MatchInv, RegistryMatchesView
<1>9. CASE Ignores(h) BY <1>8, <1>9 DEF Ignores
<1>10. ASSUME NEW o \in Owners, NEW i \in DOMAIN pdm \cup {nextId}, Lists(h, i, o), call # "later"
       PROVE  MatchInv'
  <2>1. /\ DOMAIN pdm' = DOMAIN pdm \cup {i}
        /\ pdm'[i].pods = {PodName[h]} \cup (IF i \in DOMAIN pdm THEN pdm[i].pods ELSE {})
        /\ \A j \in DOMAIN pdm : j # i => pdm'[j] = pdm[j]
        /\ view'.ms = view.ms \cup ({i} \ DOMAIN pdm) /\ view'.pods = view.pods \cup {PodName[h]}
        /\ left' = left
    BY <1>10 DEF Lists
  <2>2. UNION {pdm'[j].pods : j \in DOMAIN pdm'} = {PodName[h]} \cup listed BY <2>1
  <2> HIDE DEF listed
  <2>3. view'.ms = DOMAIN pdm' \cup left'.ms BY <1>7, <1>10, <2>1
  <2>4. \A j \in DOMAIN pdm' : j \notin left'.ms BY <1>4, <1>7, <1>10, <2>1
  <2>5. {PodName[h]} \cup listed \subseteq view'.pods
        /\ view'.pods \subseteq ({PodName[h]} \cup listed) \cup left'.pods
    BY <1>7, <1>10, <2>1
  <2> QED BY <2>2, <2>3, <2>4, <2>5 DEF MatchInv, RegistryMatchesView
<1>11. ASSUME NEW o \in Owners, Checks(h, o) PROVE MatchInv' BY <1>8, <1>11 DEF Checks
<1>12. ASSUME NEW o \in Owners, NEW gone \in SUBSET DOMAIN pdm, Unlists(h, o, gone), call # "later"
       PROVE  MatchInv'
  <2>1. /\ view'.pods = IF Listed(PodName[h]) = {} THEN view.pods ELSE view.pods \ {PodName[h]}
        /\ (\A i, j \in Listed(PodName[h]) : i = j) \/ gone = {} => view'.ms = view.ms \ gone
        /\ left' = left
    BY <1>12 DEF Unlists
  <2>2. /\ DOMAIN pdm' = DOMAIN pdm \ gone
        /\ \A i \in gone : pdm[i].pods = {PodName[h]}
        /\ \A i \in DOMAIN pdm' : pdm'[i].pods = pdm[i].pods \ {PodName[h]}
    BY <1>4, <1>12, UnlistsEffect
  <2>3. UNION {pdm'[j].pods : j \in DOMAIN pdm'} = listed \ {PodName[h]}
    <3> DEFINE new == UNION {pdm'[j].pods : j \in DOMAIN pdm'}
    <3>1. \A n : n \in new => n \in listed /\ n # PodName[h] BY <2>2
    <3>2. ASSUME NEW n \in listed, n # PodName[h] PROVE n \in new
      <4>1. PICK j \in DOMAIN pdm : n \in pdm[j].pods OBVIOUS
      <4>2. j \in DOMAIN pdm' /\ n \in pdm'[j].pods BY <2>2, <3>2, <4>1
      <4> QED BY <4>2
    <3> HIDE DEF listed, new
    <3>3. new = listed \ {PodName[h]} BY <3>1, <3>2
    <3> QED BY <3>3 DEF new
  <2>4. (\A i, j \in Listed(PodName[h]) : i = j) \/ gone = {}
    BY <1>1, <1>12, NoneIsRemoved DEF UniqueInv
  <2>5. view'.ms = DOMAIN pdm' \cup left'.ms BY <1>7, <1>12, <2>1, <2>2, <2>4
  <2>6. \A j \in DOMAIN pdm' : j \notin left'.ms BY <1>7, <1>12, <2>1, <2>2
  <2>7. Listed(PodName[h]) = {} => PodName[h] \notin listed BY DEF Listed
  <2> HIDE DEF listed
  <2>8. /\ listed \ {PodName[h]} \subseteq view'.pods
        /\ view'.pods \subseteq (listed \ {PodName[h]}) \cup left'.pods
    BY <1>7, <1>12, <2>1, <2>7
  <2> QED BY <2>3, <2>5, <2>6, <2>8 DEF MatchInv, RegistryMatchesView
<1> QED BY <1>3, <1>6, <1>9, <1>10, <1>11, <1>12, HandlerEffect

\* The registry and the view change together.
LEMMA MatchStep ==
    /\ StateInv /\ MatchInv /\ [Next]_vars
    /\ (NamesAreUnique /\ UniqueInv) \/ AllStateful
    => MatchInv'
<1> SUFFICES ASSUME StateInv, MatchInv, [Next]_vars,
                    (NamesAreUnique /\ UniqueInv) \/ AllStateful
             PROVE  MatchInv'
  OBVIOUS
<1>1. ClusterInv /\ QueueInv BY DEF StateInv
<1>2. ASSUME UNCHANGED <<pdm, view, left>>, call' # "later" => call # "later" PROVE MatchInv'
  <2>1. pdm' = pdm /\ view' = view /\ left' = left BY <1>2
  <2>2. (\A i \in DOMAIN pdm : i \notin left.ms)' <=> \A i \in DOMAIN pdm : i \notin left.ms BY <2>1
  <2>3. RegistryMatchesView' BY <1>2, <2>1 DEF MatchInv, RegistryMatchesView
  <2> QED BY <1>2, <2>2, <2>3 DEF MatchInv
<1>3. ASSUME NEW p \in Pods, PodSteps(p) PROVE MatchInv'
  <2>1. PICK type \in EventTypes : PodStep(p, type) BY <1>1, <1>3, PodEffect
  <2> QED BY <1>2, <2>1 DEF PodStep, collector, entries
<1>4. CASE OwnerSteps BY <1>1, <1>2, <1>4, OwnerEffect DEF channel, collector, entries
<1>5. CASE WatchOpens BY <1>2, <1>5 DEF WatchOpens, entries
<1>6. CASE EndSteps BY <1>1, <1>2, <1>6, EndEffect DEF EndStep
<1>7. CASE StateIsReset
  <2>1. pdm' = NoPods /\ left' = view' BY <1>7 DEF StateIsReset
  <2>2. DOMAIN pdm' = {} BY <2>1 DEF NoPods
  <2>3. UNION {pdm'[i].pods : i \in DOMAIN pdm'} = {} BY <2>2
  <2> QED BY <2>1, <2>2, <2>3 DEF MatchInv, RegistryMatchesView
<1>8. CASE HandlerSteps BY <1>8, MatchHandles
<1>9. CASE DeletedPanics BY <1>9 DEF DeletedPanics, MatchInv, RegistryMatchesView
<1>10. CASE UNCHANGED vars BY <1>2, <1>10 DEF vars, channel, collector, entries
<1>11. CASE PodWatchStarts
  <2>1. UNCHANGED <<pdm, view, left>> /\ call = "none" BY <1>11 DEF PodWatchStarts, entries
  <2> QED BY <1>2, <2>1
<1> QED BY <1>3, <1>4, <1>5, <1>6, <1>7, <1>8, <1>9, <1>10, <1>11, NextCases

\* As long as PodWatch never panicked, what the backend has is what wh.pdm holds
\* (podwatch.go:217, 251, 381: reported in the same step) and, after a new state,
\* besides that only what was collected and not sent when wh.pdm was replaced
\* (watchhandler.go:178); when names are never used again, as those of deployments
\* and jobs are not, or when all owners are stateful sets.
THEOREM RegistryIsReported ==
    ASSUME NamesAreUnique \/ AllStateful
    PROVE  Spec => []RegistryMatchesView
<1>1. Init => MatchInv
  <2> SUFFICES ASSUME Init PROVE MatchInv OBVIOUS
  <2>1. DOMAIN pdm = {} /\ view.ms = {} /\ left.ms = {} /\ view.pods = {} /\ left.pods = {}
    BY DEF Init, NoPods, NoEntries
  <2>2. UNION {pdm[i].pods : i \in DOMAIN pdm} = {} BY <2>1
  <2> QED BY <2>1, <2>2 DEF MatchInv, RegistryMatchesView
<1>2. MatchInv => RegistryMatchesView BY DEF MatchInv
<1>3. CASE AllStateful
  <2>1. StateInv /\ MatchInv /\ [Next]_vars => MatchInv' BY <1>3, MatchStep
  <2> QED BY <1>1, <1>2, <2>1, StateAlways, PTL DEF Spec
<1>4. CASE NamesAreUnique
  <2>1. Init => UniqueInv BY DEF Init, UniqueInv, Listed, NoPods
  <2>2. StateInv /\ UniqueInv /\ [Next]_vars => UniqueInv' BY <1>4, UniqueStep
  <2>3. StateInv /\ UniqueInv /\ MatchInv /\ [Next]_vars => MatchInv' BY <1>4, MatchStep
  <2> QED BY <1>1, <1>2, <2>1, <2>2, <2>3, StateAlways, PTL DEF Spec
<1> QED BY <1>3, <1>4

-----------------------------------------------------------------------------
(* Stateful sets, on one unbroken watch.                                    *)

\* Until the first watch ends, nothing happens but changes in the cluster, the
\* start of the collector and of the watch, and events that are handled.
LEMMA QuietCases ==
    ASSUME AllStateful, StateInv, SerialInv, [Next]_vars, gaps' = 0
    PROVE  /\ gaps = 0
           /\ \/ \E p \in Pods : \E type \in EventTypes : PodStep(p, type)
              \/ HandlerSteps
              \/ PodWatchStarts \/ WatchOpens
              \/ UNCHANGED <<phase, born, image, channel, collector>>
<1>1. ClusterInv /\ QueueInv /\ CollectorInv /\ gaps \in Nat
  BY SpecAssumption DEF StateInv, QueueInv
<1>2. ASSUME NEW p \in Pods, PodSteps(p)
      PROVE  gaps = 0 /\ \E type \in EventTypes : PodStep(p, type)
  <2>1. PICK type \in EventTypes : PodStep(p, type) BY <1>1, <1>2, PodEffect
  <2>2. gaps = 0 BY <2>1 DEF PodStep
  <2> QED BY <2>1, <2>2
<1>3. ASSUME UNCHANGED <<phase, born, image, channel, collector>> PROVE gaps = 0
  BY <1>3 DEF channel
<1>4. OwnerSteps => UNCHANGED <<phase, born, image, channel, collector>> BY <1>1, OwnerEffect
<1>5. PodWatchStarts \/ WatchOpens => gaps = 0 BY DEF PodWatchStarts, WatchOpens
<1>6. EndSteps => FALSE
  <2>1. WatchEnds => FALSE BY <1>1 DEF WatchEnds
  <2>2. StopsForNewState => FALSE
    <3>1. StopsForNewState => stopping = "asks" /\ gaps = 0 BY DEF StopsForNewState
    <3> QED BY <3>1 DEF SerialInv
  <2>3. OwnerLookupFails => FALSE
    <3> SUFFICES ASSUME OwnerLookupFails PROVE FALSE OBVIOUS
    <3>1. queue \in Seq(Events) /\ queue # <<>> BY <1>1 DEF OwnerLookupFails, QueueInv
    <3>2. Head(queue) \in Events BY <3>1, TailSeq
    <3>3. OwnerOf[Head(queue).pod] \in Owners BY <3>2, PodsAssumption DEF Events
    <3>4. ~Indirect(Head(queue).pod) BY <3>3 DEF AllStateful, Indirect
    <3> QED BY <3>4 DEF OwnerLookupFails, LookupMayFail
  <2> QED BY <2>1, <2>2, <2>3 DEF EndSteps
<1>7. StateIsReset => FALSE BY <1>1 DEF StateIsReset
<1>8. HandlerSteps => gaps = 0 BY HandlerEffect DEF Done, EventDone
<1>9. DeletedPanics => FALSE BY PanicEffect
<1>10. UNCHANGED vars => UNCHANGED <<phase, born, image, channel, collector>> BY DEF vars, cluster
<1> QED BY <1>2, <1>3, <1>4, <1>5, <1>6, <1>7, <1>8, <1>9, <1>10, NextCases

\* Only a pod that is gone leaves its name to a younger one.
LEMMA GoneFirst ==
    ASSUME ClusterInv, NEW h \in Pods, NEW type \in EventTypes, PodStep(h, type),
           \A p, q \in Created : PodName[p] = PodName[q] /\ born[p] < born[q] => phase[p] = "gone",
           NEW p \in Created', NEW q \in Created', PodName[p] = PodName[q], born'[p] < born'[q]
    PROVE  /\ phase'[p] = "gone"
           /\ \/ type = "Added" /\ q = h
              \/ /\ p # h /\ p \in Created /\ q \in Created
                 /\ phase[p] = "gone" /\ born[p] < born[q]
<1>1. /\ Created' = Created \cup {h} /\ (type = "Added" <=> h \notin Created)
      /\ phase[h] # "gone" /\ clock \in Nat
      /\ type # "Added" => UNCHANGED <<born, image, clock>>
  BY PodFacts
<1>2. \A x \in Pods : x # h => phase'[x] = phase[x] /\ born'[x] = born[x] BY DEF PodStep
<1>3. \A x \in Created : x \in Pods /\ born[x] \in Nat /\ born[x] <= clock
  BY DEF ClusterInv, Created
<1>4. CASE type = "Added" /\ q = h
  <2>1. \A x \in Pods : Live(x) => PodName[x] # PodName[h] BY <1>4 DEF PodStep
  <2>2. p \in Created /\ p # h
    <3>1. born'[h] = clock + 1 BY <1>4 DEF PodStep
    <3> QED BY <1>1, <1>4, <3>1
  <2>3. p \in Pods /\ phase[p] \in Phases BY <1>3, <2>2 DEF ClusterInv
  <2>4. phase[p] = "gone" BY <1>4, <2>1, <2>2, <2>3 DEF Created, Live, Phases
  <2> QED BY <1>2, <1>4, <2>2, <2>3, <2>4
<1>5. CASE type = "Added" /\ q # h
  <2>1. q \in Created BY <1>1, <1>5
  <2>2. p # h
    <3>1. born'[h] = clock + 1 BY <1>5 DEF PodStep
    <3>2. born'[q] <= clock /\ born'[q] \in Nat BY <1>2, <1>3, <1>5, <2>1
    <3> QED BY <1>1, <3>1, <3>2
  <2>3. p \in Created BY <1>1, <2>2
  <2>4. born'[p] = born[p] /\ born'[q] = born[q] /\ phase'[p] = phase[p]
    BY <1>2, <1>3, <1>5, <2>1, <2>2, <2>3
  <2> QED BY <2>1, <2>2, <2>3, <2>4
<1>6. CASE type # "Added"
  <2>1. p \in Created /\ q \in Created /\ born' = born BY <1>1, <1>6
  <2>2. phase[p] = "gone" BY <2>1
  <2>3. p # h /\ phase'[p] = "gone" BY <1>1, <1>2, <1>3, <2>1, <2>2
  <2> QED BY <2>1, <2>2, <2>3
<1> QED BY <1>4, <1>5, <1>6

\* A pod changes: its Added event is the first of its events, and comes after
\* the Deleted event of the last pod of its name.
LEMMA SerialPodStep ==
    ASSUME StateInv, SerialInv, gaps = 0, NEW h \in Pods, NEW type \in EventTypes, PodStep(h, type)
    PROVE  SerialInv'
<1>1. ClusterInv /\ QueueInv BY DEF StateInv
<1>2. UNCHANGED <<call, watching, stopping, gaps, left, pdm, cand>>
  BY DEF PodStep, collector, entries
<1>3. /\ stopping = "no" /\ call # "later" /\ left = NoEntries /\ (watching \/ Nothing)
      /\ \A p, q \in Created : PodName[p] = PodName[q] /\ born[p] < born[q] => phase[p] = "gone"
  BY DEF SerialInv
<1>4. (stopping = "no" /\ call # "later" /\ left = NoEntries /\ (watching \/ Nothing))'
  BY <1>2, <1>3 DEF Nothing
<1>5. CASE ~watching
  <2>1. Idx' = {}
    <3>1. queue' = <<>> BY <1>1, <1>5 DEF PodStep, QueueInv
    <3> QED BY <3>1 DEF Idx
  <2>2. \A p, q \in Created' : PodName[p] = PodName[q] /\ born'[p] < born'[q] => phase'[p] = "gone"
    BY <1>1, <1>3, GoneFirst
  <2> QED BY <1>4, <2>1, <2>2 DEF SerialInv, Queued
<1>6. CASE watching
  <2>1. PICK m : m = Len(queue) + 1 OBVIOUS
  <2>2. /\ queue'[m].type = type /\ queue'[m].pod = h /\ m \in Nat
        /\ \A i \in Idx : queue'[i] = queue[i] /\ i < m
        /\ Idx' = Idx \cup {m} /\ m \notin Idx
    BY <1>1, <1>6, <2>1, AppendedEvent
  <2>3. /\ (type = "Added" <=> h \notin Created)
        /\ (type = "Deleted" <=> phase'[h] = "gone")
    BY <1>1, PodFacts
  <2>4. \A q \in Pods : q # h => phase'[q] = phase[q] BY DEF PodStep
  <2>5. \A i \in Idx : queue[i].pod \in Created BY <1>1 DEF QueueInv
  <2>6. \A i, j \in Idx' : queue'[i].type = "Added" /\ queue'[j].pod = queue'[i].pod => i <= j
    <3> SUFFICES ASSUME NEW i \in Idx', NEW j \in Idx', queue'[i].type = "Added",
                        queue'[j].pod = queue'[i].pod
                 PROVE  i <= j
      OBVIOUS
    <3>1. CASE i = m
      <4>1. j = m BY <2>2, <2>3, <2>5, <3>1
      <4> QED BY <2>2, <3>1, <4>1
    <3>2. CASE i \in Idx /\ j = m BY <2>2, <3>2 DEF Idx
    <3>3. CASE i \in Idx /\ j \in Idx BY <2>2, <3>3 DEF SerialInv
    <3> QED BY <2>2, <3>1, <3>2, <3>3
  <2>7. ASSUME NEW p \in Pods, Queued("Added", p)', phase'[p] = "gone" PROVE Queued("Deleted", p)'
    <3>1. Queued("Added", p)' <=> Queued("Added", p) \/ (watching /\ "Added" = type /\ p = h)
      BY <1>1, QueuedAfterPodStep DEF EventTypes
    <3>2. Queued("Deleted", p)' <=> Queued("Deleted", p) \/ (watching /\ "Deleted" = type /\ p = h)
      BY <1>1, QueuedAfterPodStep DEF EventTypes
    <3>3. CASE p = h BY <1>6, <2>3, <2>7, <3>2, <3>3
    <3>4. CASE p # h
      <4>1. Queued("Added", p) /\ phase[p] = "gone" BY <2>4, <2>7, <3>1, <3>4
      <4>2. Queued("Deleted", p) BY <4>1 DEF SerialInv
      <4> QED BY <3>2, <4>2
    <3> QED BY <3>3, <3>4
  <2>8. ASSUME NEW p \in Created', NEW q \in Created', PodName[p] = PodName[q], born'[p] < born'[q]
        PROVE  /\ phase'[p] = "gone"
               /\ \A i \in Idx' : Is(i, "Deleted", p)' => \E j \in Idx' : i < j /\ Is(j, "Added", q)'
    <3>1. /\ phase'[p] = "gone"
          /\ \/ type = "Added" /\ q = h
             \/ /\ p # h /\ p \in Created /\ q \in Created
                /\ phase[p] = "gone" /\ born[p] < born[q]
      BY <1>1, <2>8, GoneFirst DEF SerialInv
    <3>2. CASE type = "Added" /\ q = h
      <4>1. \A i \in Idx' : Is(i, "Deleted", p)' => i < m /\ Is(m, "Added", q)'
        BY <2>2, <3>2 DEF Is
      <4> QED BY <2>2, <3>1, <4>1
    <3>3. CASE p # h /\ p \in Created /\ q \in Created /\ born[p] < born[q]
      <4>1. \A i \in Idx : Is(i, "Deleted", p) => \E j \in Idx : i < j /\ Is(j, "Added", q)
        BY <2>8, <3>3 DEF SerialInv
      <4> QED BY <2>2, <3>1, <3>3, <4>1 DEF Is
    <3> QED BY <3>1, <3>2, <3>3
  <2> QED BY <1>4, <2>6, <2>7, <2>8 DEF SerialInv
<1> QED BY <1>5, <1>6

\* The watch opens: each pod that exists is added, and nothing is deleted.
LEMMA SerialOpens ==
    ASSUME StateInv, SerialInv, gaps = 0, WatchOpens
    PROVE  SerialInv'
<1>1. UNCHANGED <<phase, born, call, stopping, gaps, left>> /\ watching' = TRUE
  BY DEF WatchOpens, cluster, entries
<1>2. /\ \A i \in Idx' : queue'[i].type = "Added" /\ queue'[i].pod \in Pods /\ Live(queue'[i].pod)
      /\ \A i, j \in Idx' : queue'[i].pod = queue'[j].pod => i = j
  BY OpenedQueue DEF StateInv
<1>3. /\ stopping = "no" /\ call # "later" /\ left = NoEntries
      /\ \A p, q \in Created : PodName[p] = PodName[q] /\ born[p] < born[q] => phase[p] = "gone"
  BY DEF SerialInv
<1>4. \A i, j \in Idx' : queue'[j].pod = queue'[i].pod => i <= j BY <1>2 DEF Idx
<1>5. \A p \in Pods : Queued("Added", p)' => phase'[p] # "gone" BY <1>1, <1>2 DEF Queued, Is, Live
<1>6. \A i \in Idx', p \in Pods : ~Is(i, "Deleted", p)' BY <1>2 DEF Is
<1>7. Created' = Created /\ Created \subseteq Pods BY <1>1 DEF Created
<1>8. \A p, q \in Created' : PodName[p] = PodName[q] /\ born'[p] < born'[q] =>
         /\ phase'[p] = "gone"
         /\ \A i \in Idx' : Is(i, "Deleted", p)' => \E j \in Idx' : i < j /\ Is(j, "Added", q)'
  BY <1>1, <1>3, <1>6, <1>7
<1> QED BY <1>1, <1>3, <1>4, <1>5, <1>8 DEF SerialInv

\* An event is done: the first of its pod goes first.
LEMMA SerialDone ==
    ASSUME StateInv, SerialInv, gaps = 0, Done, left' = left
    PROVE  SerialInv'
<1>1. QueueInv BY DEF StateInv
<1>2. UNCHANGED <<call, watching, stopping, gaps, phase, born>> /\ watching
  BY DEF Done, EventDone, cluster
<1>3. stopping = "no" /\ call # "later" /\ left = NoEntries BY DEF SerialInv
<1>4. /\ \A i \in Idx' : i + 1 \in Idx /\ queue'[i] = queue[i + 1] /\ i \in Nat /\ i >= 1
      /\ \A i \in Idx : i # 1 => i - 1 \in Idx' /\ queue'[i - 1] = queue[i]
      /\ 1 \in Idx
  BY <1>1, HandledQueue
<1>5. Created' = Created BY <1>2 DEF Created
<1>6. \A i, j \in Idx' : queue'[i].type = "Added" /\ queue'[j].pod = queue'[i].pod => i <= j
  <2> SUFFICES ASSUME NEW i \in Idx', NEW j \in Idx', queue'[i].type = "Added",
                      queue'[j].pod = queue'[i].pod
               PROVE  i <= j
    OBVIOUS
  <2>1. i + 1 <= j + 1 BY <1>4 DEF SerialInv
  <2> QED BY <1>4, <2>1
<1>7. ASSUME NEW p \in Pods, Queued("Added", p)', phase'[p] = "gone" PROVE Queued("Deleted", p)'
  <2>1. Queued("Deleted", p) BY <1>1, <1>2, <1>7, QueuedAfterDone DEF SerialInv
  <2>2. Queued("Deleted", p)' \/ (Head1.type = "Deleted" /\ Head1.pod = p)
    BY <1>1, <2>1, QueuedAfterDone
  <2>3. ~(Head1.type = "Deleted" /\ Head1.pod = p)
    <3> SUFFICES ASSUME Head1.pod = p PROVE FALSE OBVIOUS
    <3>1. PICK i \in Idx' : Is(i, "Added", p)' BY <1>7 DEF Queued
    <3>2. i + 1 \in Idx /\ Is(i + 1, "Added", p) /\ i \in Nat /\ i >= 1 BY <1>4, <3>1 DEF Is
    <3>3. i + 1 <= 1 BY <1>4, <3>2 DEF SerialInv, Is, Head1
    <3> QED BY <3>2, <3>3
  <2> QED BY <2>2, <2>3
<1>8. ASSUME NEW p \in Created', NEW q \in Created', PodName[p] = PodName[q], born'[p] < born'[q]
      PROVE  /\ phase'[p] = "gone"
             /\ \A i \in Idx' : Is(i, "Deleted", p)' => \E j \in Idx' : i < j /\ Is(j, "Added", q)'
  <2>1. /\ phase[p] = "gone"
        /\ \A i \in Idx : Is(i, "Deleted", p) => \E j \in Idx : i < j /\ Is(j, "Added", q)
    BY <1>2, <1>5, <1>8 DEF SerialInv
  <2>2. ASSUME NEW i \in Idx', Is(i, "Deleted", p)' PROVE \E j \in Idx' : i < j /\ Is(j, "Added", q)'
    <3>1. i + 1 \in Idx /\ Is(i + 1, "Deleted", p) /\ i \in Nat /\ i >= 1 BY <1>4, <2>2 DEF Is
    <3>2. PICK j \in Idx : i + 1 < j /\ Is(j, "Added", q) BY <2>1, <3>1
    <3>3. j \in Nat /\ j # 1 BY <3>1, <3>2 DEF Idx
    <3>4. j - 1 \in Idx' /\ Is(j - 1, "Added", q)' /\ i < j - 1 BY <1>4, <3>1, <3>2, <3>3 DEF Is
    <3> QED BY <3>4
  <2> QED BY <1>2, <2>1, <2>2
<1> QED BY <1>2, <1>3, <1>6, <1>7, <1>8 DEF SerialInv

\* No handler starts over.
LEMMA HandlersKeep ==
    ASSUME StateInv, HandlerSteps
    PROVE  Done /\ UNCHANGED <<start, left, early>>
  BY HandlerEffect DEF Ignores, Lists, Checks, Unlists

\* The invariant is inductive.
LEMMA SerialStep == AllStateful /\ StateInv /\ SerialInv /\ [Next]_vars => SerialInv'
<1> SUFFICES ASSUME AllStateful, StateInv, SerialInv, [Next]_vars, gaps' = 0 PROVE SerialInv'
  BY DEF SerialInv
<1>1. gaps = 0 BY QuietCases
<1>2. ASSUME NEW p \in Pods, NEW type \in EventTypes, PodStep(p, type) PROVE SerialInv'
  BY <1>1, <1>2, SerialPodStep
<1>3. CASE HandlerSteps BY <1>1, <1>3, SerialDone, HandlersKeep
<1>4. CASE UNCHANGED <<phase, born, image, channel, collector>>
  <2>1. UNCHANGED <<phase, born, call, watching, queue, stopping, gaps, left, pdm, cand>>
    BY <1>4 DEF channel, collector, entries
  <2> QED BY <2>1 DEF SerialInv, Nothing, Created, Queued, Idx, Is
<1>5. CASE PodWatchStarts
  <2>1. UNCHANGED <<phase, born, watching, queue, stopping, gaps, left, pdm, cand>> /\ call' = "first"
    BY <1>5 DEF PodWatchStarts, cluster, entries
  <2> QED BY <2>1 DEF SerialInv, Nothing, Created, Queued, Idx, Is
<1>6. CASE WatchOpens BY <1>1, <1>6, SerialOpens
<1> QED BY <1>2, <1>3, <1>4, <1>5, <1>6, QuietCases

\* When the collector starts, and when its watch opens, nothing is known.
LEMMA NothingYet ==
    ASSUME StateInv, SerialInv, gaps = 0, PodWatchStarts \/ WatchOpens
    PROVE  /\ Nothing /\ UNCHANGED <<pdm, cand, scanned>>
           /\ \A n : Listed(n) = {} /\ Listed(n)' = {}
<1>1. ~watching BY DEF PodWatchStarts, WatchOpens, StateInv, QueueInv
<1>2. Nothing BY <1>1 DEF SerialInv
<1>3. UNCHANGED <<pdm, cand, scanned>> BY DEF PodWatchStarts, WatchOpens
<1> QED BY <1>2, <1>3 DEF Nothing, Listed, NoPods

\* A name is shown for one pod at most.
LEMMA ShownOnce ==
    ASSUME StateInv, SerialInv, gaps = 0, NEW p \in Pods, NEW q \in Pods,
           Shown(p), Shown(q), PodName[p] = PodName[q]
    PROVE  p = q
<1>1. \A x, y \in Created : PodName[x] = PodName[y] /\ born[x] < born[y] =>
          /\ phase[x] = "gone"
          /\ \A i \in Idx : Is(i, "Deleted", x) => \E j \in Idx : i < j /\ Is(j, "Added", y)
  BY DEF SerialInv
<1>2. p \in Created /\ q \in Created /\ born[p] \in Nat /\ born[q] \in Nat
  BY DEF Shown, StateInv, ClusterInv
<1>3. ~(born[p] < born[q]) BY <1>1, <1>2 DEF Shown, Live, Queued
<1>4. ~(born[q] < born[p]) BY <1>1, <1>2 DEF Shown, Live, Queued
<1>5. born[p] = born[q] BY <1>2, <1>3, <1>4
<1> QED BY <1>2, <1>5 DEF StateInv, ClusterInv

\* The pod whose Deleted event is handled is shown until then.
LEMMA ShownUntilDeleted ==
    ASSUME StateInv, SerialInv, gaps = 0, Done, NEW h \in Pods, Head1.pod = h, Head1.type = "Deleted"
    PROVE  Shown(h)
<1>1. 1 \in Idx /\ h \in Created BY HandledQueue DEF StateInv
<1>2. Queued("Deleted", h) BY <1>1 DEF Queued, Is, Head1
<1>3. ASSUME NEW i \in Idx, Is(i, "Added", h) PROVE FALSE
  <2>1. i <= 1 BY <1>1, <1>3 DEF SerialInv, Is, Head1
  <2>2. i = 1 BY <2>1 DEF Idx
  <2> QED BY <1>3, <2>2 DEF Is, Head1
<1> QED BY <1>1, <1>2, <1>3 DEF Shown, Queued

\* The pod whose Added event is handled is not shown yet, and no other pod of
\* its name is.
LEMMA NotShownYet ==
    ASSUME StateInv, SerialInv, gaps = 0, Done, NEW h \in Pods, Head1.pod = h, Head1.type = "Added",
           NEW p \in Pods, PodName[p] = PodName[h]
    PROVE  ~Shown(p)
<1> SUFFICES ASSUME Shown(p) PROVE FALSE OBVIOUS
<1>1. 1 \in Idx /\ h \in Created /\ p \in Created /\ born[p] \in Nat /\ born[h] \in Nat
  BY HandledQueue DEF StateInv, ClusterInv, Shown
<1>2. Is(1, "Added", h) /\ Queued("Added", h) BY <1>1 DEF Queued, Is, Head1
<1>3. \A x, y \in Created : PodName[x] = PodName[y] /\ born[x] < born[y] =>
          /\ phase[x] = "gone"
          /\ \A i \in Idx : Is(i, "Deleted", x) => \E j \in Idx : i < j /\ Is(j, "Added", y)
  BY DEF SerialInv
<1>4. CASE born[p] < born[h]
  <2>1. phase[p] = "gone" BY <1>1, <1>3, <1>4
  <2>2. PICK i \in Idx : Is(i, "Deleted", p) BY <2>1 DEF Shown, Live, Queued
  <2>3. PICK j \in Idx : i < j /\ Is(j, "Added", h) BY <1>1, <1>3, <1>4, <2>2
  <2>4. j = 1 BY <1>1, <1>2, <2>3 DEF StateInv, QueueInv
  <2> QED BY <2>3, <2>4 DEF Idx
<1>5. CASE born[h] < born[p]
  <2>1. phase[h] = "gone" BY <1>1, <1>3, <1>5
  <2>2. Queued("Deleted", h) BY <1>2, <2>1 DEF SerialInv
  <2>3. Queued("Added", p) BY <1>1, <1>3, <1>5, <2>2 DEF Queued
  <2> QED BY <2>3 DEF Shown
<1>6. CASE born[h] = born[p]
  <2>1. h = p BY <1>1, <1>6 DEF StateInv, ClusterInv
  <2> QED BY <1>2, <2>1 DEF Shown
<1> QED BY <1>1, <1>4, <1>5, <1>6

\* A pod that is shown remains so until its Deleted event is handled.
LEMMA ShownAfterPodStep ==
    ASSUME StateInv, SerialInv, gaps = 0, NEW h \in Pods, NEW type \in EventTypes, PodStep(h, type),
           watching, NEW p \in Pods, Shown(p)
    PROVE  Shown(p)' /\ (Young(p)' <=> Young(p))
<1>1. ClusterInv /\ QueueInv /\ watching BY DEF StateInv
<1>2. /\ Created' = Created \cup {h} /\ (type = "Added" <=> h \notin Created)
      /\ \A q \in Pods : q # h => (Live(q)' <=> Live(q))
      /\ (type # "Deleted" <=> Live(h)')
  BY <1>1, PodFacts
<1>3. Queued("Added", p)' <=> Queued("Added", p) \/ (watching /\ "Added" = type /\ p = h)
  BY <1>1, QueuedAfterPodStep DEF EventTypes
<1>4. Queued("Deleted", p)' <=> Queued("Deleted", p) \/ (watching /\ "Deleted" = type /\ p = h)
  BY <1>1, QueuedAfterPodStep DEF EventTypes
<1>5. p \in Created /\ ~Queued("Added", p) /\ (Live(p) \/ Queued("Deleted", p)) BY DEF Shown
<1>6. ~Queued("Added", p)' BY <1>2, <1>3, <1>5
<1>7. Live(p)' \/ Queued("Deleted", p)'
  <2>1. CASE p # h BY <1>2, <1>4, <1>5, <2>1
  <2>2. CASE p = h /\ type = "Deleted" BY <1>1, <1>4, <2>2
  <2>3. CASE p = h /\ type # "Deleted" BY <1>2, <2>3
  <2> QED BY <2>1, <2>2, <2>3
<1>8. p # h \/ type # "Added" BY <1>2, <1>5
<1>9. born'[p] = born[p] /\ start' = start BY <1>1, <1>8, PodFacts DEF PodStep, collector
<1> QED BY <1>2, <1>5, <1>6, <1>7, <1>9 DEF Shown, Young

\* The same of the handlers.
LEMMA ShownAfterDone ==
    ASSUME StateInv, Done, NEW p \in Pods, Shown(p), ~(Head1.type = "Deleted" /\ Head1.pod = p)
    PROVE  Shown(p)'
<1>1. QueueInv BY DEF StateInv
<1>2. phase' = phase BY DEF Done, EventDone, cluster
<1>3. Queued("Added", p)' => Queued("Added", p) BY <1>1, QueuedAfterDone
<1>4. Queued("Deleted", p) => Queued("Deleted", p)' BY <1>1, QueuedAfterDone
<1> QED BY <1>2, <1>3, <1>4 DEF Shown, Live, Created

\* A pod whose Added event is done is shown.
LEMMA ShownOnceAdded ==
    ASSUME StateInv, SerialInv, gaps = 0, Done, NEW h \in Pods, Head1.pod = h, Head1.type = "Added"
    PROVE  Shown(h)'
<1>1. QueueInv /\ ClusterInv BY DEF StateInv
<1>2. h \in Created /\ phase' = phase /\ Created' = Created
  BY <1>1, HandledQueue DEF Done, EventDone, cluster, Created
<1>3. ~Queued("Added", h)' /\ Queued("Added", h) BY <1>1, AddedIsDone, QueuedAfterDone
<1>4. phase[h] \in Phases /\ phase[h] # "absent" BY <1>1, <1>2 DEF ClusterInv, Created
<1>5. CASE phase[h] = "gone"
  <2>1. Queued("Deleted", h) BY <1>3, <1>5 DEF SerialInv
  <2>2. Queued("Deleted", h)' BY <1>1, <2>1, QueuedAfterDone
  <2> QED BY <1>2, <1>3, <2>2 DEF Shown
<1>6. CASE phase[h] # "gone"
  <2>1. Live(h)' BY <1>2, <1>4, <1>6 DEF Live, Phases
  <2> QED BY <1>2, <1>3, <2>1 DEF Shown
<1> QED BY <1>5, <1>6

\* The lists show pods: each name in them stands for one pod, and is in one list.
LEMMA ListStep == AllStateful /\ StateInv /\ SerialInv /\ ListInv /\ [Next]_vars => ListInv'
<1> SUFFICES ASSUME AllStateful, StateInv, SerialInv, ListInv, [Next]_vars, gaps' = 0 PROVE ListInv'
  BY DEF ListInv
<1>1. gaps = 0 /\ CollectorInv BY QuietCases DEF StateInv
<1>2. \A n \in Names : /\ Listed(n) # {} => \E p \in Pods : PodName[p] = n /\ Shown(p)
                       /\ \A i, j \in Listed(n) : i = j
  BY <1>1 DEF ListInv
<1>3. ASSUME pdm' = pdm, \A p \in Pods : Shown(p) => Shown(p)' PROVE ListInv'
  <2>1. \A n \in Names : Listed(n)' = Listed(n) BY <1>3 DEF Listed
  <2>2. ASSUME NEW n \in Names
        PROVE  /\ Listed(n)' # {} => \E p \in Pods : PodName[p] = n /\ Shown(p)'
               /\ \A i, j \in Listed(n)' : i = j
    <3>1. Listed(n)' = Listed(n) BY <2>1
    <3> QED BY <1>2, <1>3, <3>1
  <2> QED BY <2>2 DEF ListInv
<1>4. ASSUME NEW p \in Pods, NEW type \in EventTypes, PodStep(p, type) PROVE ListInv'
  <2>1. pdm' = pdm BY <1>4 DEF PodStep, collector
  <2>2. CASE watching
    <3>1. \A q \in Pods : Shown(q) => Shown(q)' BY <1>1, <1>4, <2>2, ShownAfterPodStep
    <3> QED BY <1>3, <2>1, <3>1
  <2>3. CASE ~watching
    <3>1. pdm = NoPods BY <1>1, <2>3 DEF SerialInv, Nothing
    <3>2. \A n : Listed(n)' = {} BY <2>1, <3>1 DEF Listed, NoPods
    <3> QED BY <3>2 DEF ListInv
  <2> QED BY <2>2, <2>3
<1>5. CASE UNCHANGED <<phase, born, image, channel, collector>>
  <2>1. UNCHANGED <<phase, queue, pdm>> BY <1>5 DEF channel, collector
  <2>2. \A q \in Pods : Shown(q) => Shown(q)'
    BY <2>1 DEF Shown, Created, Live, Queued, Idx, Is
  <2> QED BY <1>3, <2>1, <2>2
<1>6. CASE HandlerSteps
  <2>1. Done BY <1>6, HandlerEffect
  <2>2. Head1.pod \in Pods BY <2>1, HandledQueue DEF StateInv, Created
  <2>3. PICK h \in Pods : h = Head1.pod BY <2>2
  <2>4. PodName[h] \in Names BY DEF Names
  <2>5. Head1.type # "Deleted" => \A q \in Pods : Shown(q) => Shown(q)' BY <2>1, ShownAfterDone
  <2>6. CASE Ignores(h) BY <1>3, <2>5, <2>6 DEF Ignores
  <2>7. ASSUME NEW o \in Owners, NEW i \in DOMAIN pdm \cup {nextId}, Lists(h, i, o) PROVE ListInv'
    <3>1. Head1.type = "Added" BY <2>7 DEF Lists
    <3>2. Listed(PodName[h]) = {} BY <1>1, <1>2, <2>1, <2>3, <2>4, <3>1, NotShownYet
    <3>3. Shown(h)' BY <1>1, <2>1, <2>3, <3>1, ShownOnceAdded
    <3>4. ASSUME NEW n \in Names
          PROVE  /\ Listed(n)' # {} => \E p \in Pods : PodName[p] = n /\ Shown(p)'
                 /\ \A j, k \in Listed(n)' : j = k
      <4>1. /\ n # PodName[h] => Listed(n)' = Listed(n)
            /\ n = PodName[h] => Listed(n)' = Listed(n) \cup {i}
        BY <1>1, <2>7, ListedAfterLists
      <4>2. CASE n = PodName[h]
        <5>1. Listed(n)' = {i} BY <3>2, <4>1, <4>2
        <5> QED BY <3>3, <4>2, <5>1
      <4>3. CASE n # PodName[h] BY <1>2, <2>5, <3>1, <4>1, <4>3
      <4> QED BY <4>2, <4>3
    <3> QED BY <3>4 DEF ListInv
  <2>8. ASSUME NEW o \in Owners, Checks(h, o) PROVE ListInv'
    <3>1. pdm' = pdm /\ Head1.type # "Deleted" BY <2>8 DEF Checks
    <3> QED BY <1>3, <2>5, <3>1
  <2>9. ASSUME NEW o \in Owners, NEW gone \in SUBSET DOMAIN pdm, Unlists(h, o, gone) PROVE ListInv'
    <3>1. ASSUME NEW n \in Names
          PROVE  /\ Listed(n)' # {} => \E p \in Pods : PodName[p] = n /\ Shown(p)'
                 /\ \A j, k \in Listed(n)' : j = k
      <4>1. /\ n # PodName[h] => Listed(n)' = Listed(n)
            /\ n = PodName[h] => Listed(n)' = {}
        BY <1>1, <2>9, ListedAfterUnlists
      <4>2. CASE n = PodName[h]
        <5>1. Listed(n)' = {} BY <4>1, <4>2
        <5> QED BY <5>1
      <4>3. CASE n # PodName[h]
        <5>1. \A p \in Pods : PodName[p] = n /\ Shown(p) => Shown(p)'
          BY <2>1, <2>3, <4>3, ShownAfterDone
        <5>2. Listed(n)' = Listed(n) BY <4>1, <4>3
        <5> QED BY <1>2, <5>1, <5>2
      <4> QED BY <4>2, <4>3
    <3> QED BY <3>1 DEF ListInv
  <2> QED BY <1>6, <2>3, <2>6, <2>7, <2>8, <2>9, HandlerEffect
<1>7. CASE PodWatchStarts \/ WatchOpens
  <2>1. \A n : Listed(n)' = {} BY <1>1, <1>7, NothingYet
  <2> QED BY <2>1 DEF ListInv
<1> QED BY <1>4, <1>5, <1>6, <1>7, QuietCases

\* It holds of every reachable state of a cluster of stateful sets.
LEMMA SerialAlways ==
    ASSUME AllStateful
    PROVE  Spec => [](StateInv /\ SerialInv /\ ListInv /\ RegistryMatchesView)
<1>1. Init => SerialInv
  <2> SUFFICES ASSUME Init PROVE SerialInv OBVIOUS
  <2>1. Idx = {} /\ Created = {} BY DEF Init, Idx, Created
  <2>2. Nothing BY DEF Init, Nothing
  <2> QED BY <2>1, <2>2 DEF Init, SerialInv, Queued
<1>2. Init => ListInv
  <2> SUFFICES ASSUME Init PROVE ListInv OBVIOUS
  <2>1. \A n : Listed(n) = {} BY DEF Init, Listed, NoPods
  <2> QED BY <2>1 DEF ListInv
<1>3. StateInv /\ SerialInv /\ [Next]_vars => SerialInv' BY SerialStep
<1>4. StateInv /\ SerialInv /\ ListInv /\ [Next]_vars => ListInv' BY ListStep
<1> QED BY <1>1, <1>2, <1>3, <1>4, StateAlways, RegistryIsReported, PTL DEF Spec

\* Until the first watch ends, over stateful sets, each pod name is in one list
\* of wh.pdm at most (podwatch.go:249, 754): the pod that takes a name again is not
\* listed before the last one was deleted.
THEOREM StatefulPodsAreListedOnce ==
    ASSUME AllStateful
    PROVE  Spec => []OneListPerPod
<1>1. ListInv => OneListPerPod
  <2> SUFFICES ASSUME ListInv, gaps = 0, NEW n \in Names PROVE Cardinality(Listed(n)) <= 1
    BY DEF OneListPerPod
  <2>1. \A i, j \in Listed(n) : i = j BY DEF ListInv
  <2>2. CASE Listed(n) = {} BY <2>2, FS_EmptySet
  <2>3. CASE Listed(n) # {}
    <3>1. PICK i \in Listed(n) : TRUE BY <2>3
    <3>2. Listed(n) = {i} BY <2>1, <3>1
    <3>3. Cardinality({i}) = 1 BY FS_Singleton
    <3> QED BY <3>2, <3>3
  <2> QED BY <2>2, <2>3
<1> QED BY <1>1, SerialAlways, PTL

\* Until the first watch ends, over stateful sets, the backend knows of no pod
\* that is gone, once the events are handled (podwatch.go:370).
THEOREM NoStatefulGhosts ==
    ASSUME AllStateful
    PROVE  Spec => []NoGhostPods
<1>1. StateInv /\ SerialInv /\ ListInv /\ RegistryMatchesView => NoGhostPods
  <2> SUFFICES ASSUME StateInv, SerialInv, ListInv, RegistryMatchesView, gaps = 0, Idle,
                      NEW n \in view.pods
               PROVE  \E p \in Pods : Live(p) /\ PodName[p] = n
    BY DEF NoGhostPods
  <2>1. call # "later" /\ left.pods = {} BY DEF SerialInv, NoEntries
  <2>2. view.pods \subseteq UNION {pdm[i].pods : i \in DOMAIN pdm} BY <2>1 DEF RegistryMatchesView
  <2>3. PICK i \in DOMAIN pdm : n \in pdm[i].pods BY <2>2
  <2>4. Listed(n) # {} BY <2>3 DEF Listed
  <2>5. n \in Names BY <2>3 DEF StateInv, CollectorInv, Microservices
  <2>6. PICK p \in Pods : PodName[p] = n /\ Shown(p) BY <2>4, <2>5 DEF ListInv
  <2>7. Idx = {} BY DEF Idle, Idx
  <2> QED BY <2>6, <2>7 DEF Shown, Queued
<1> QED BY <1>1, SerialAlways, PTL

-----------------------------------------------------------------------------
(* The scan candidates of stateful sets.                                    *)

\* The names that are counted.
LEMMA MineFinite ==
    ASSUME NEW o \in Owners
    PROVE  /\ IsFiniteSet(Mine(o)) /\ IsFiniteSet(Mine(o)')
           /\ Cardinality(Mine(o)) \in Nat /\ Cardinality(Mine(o)') \in Nat
<1>1. IsFiniteSet(Names)
  <2>1. IsFiniteSet(Pods) BY PodsAssumption
  <2>2. [p \in Pods |-> PodName[p]] \in Surjection(Pods, Names) BY DEF Surjection, Names
  <2> HIDE DEF Names
  <2> QED BY <2>1, <2>2, FS_Surjection
<1>2. Mine(o) \subseteq Names /\ Mine(o)' \subseteq Names BY DEF Mine
<1> QED BY <1>1, <1>2, FS_Subset, FS_CardinalityType

\* How many more, or fewer, there are.
LEMMA OneMore ==
    ASSUME NEW S, IsFiniteSet(S), NEW T, IsFiniteSet(T), NEW n
    PROVE  /\ S \subseteq T => Cardinality(S) <= Cardinality(T)
           /\ S \cup {n} \subseteq T /\ n \notin S => Cardinality(S) + 1 <= Cardinality(T)
           /\ S \ {n} \subseteq T => Cardinality(S) <= Cardinality(T) + 1
           /\ n \in T => Cardinality(T) > 0
<1>1. Cardinality(S) \in Nat /\ Cardinality(T) \in Nat BY FS_CardinalityType
<1>2. S \subseteq T => Cardinality(S) <= Cardinality(T) BY FS_Subset
<1>3. ASSUME S \cup {n} \subseteq T, n \notin S PROVE Cardinality(S) + 1 <= Cardinality(T)
  <2>1. Cardinality(S \cup {n}) = Cardinality(S) + 1 BY <1>3, FS_AddElement
  <2>2. Cardinality(S \cup {n}) <= Cardinality(T) BY <1>3, FS_Subset
  <2> QED BY <2>1, <2>2
<1>4. ASSUME S \ {n} \subseteq T PROVE Cardinality(S) <= Cardinality(T) + 1
  <2>1. Cardinality(S \ {n}) <= Cardinality(T) /\ Cardinality(S \ {n}) \in Nat
    BY <1>4, FS_Subset, FS_CardinalityType
  <2>2. CASE n \in S
    <3>1. Cardinality(S \ {n}) = Cardinality(S) - 1 BY <2>2, FS_RemoveElement
    <3> QED BY <1>1, <2>1, <3>1
  <2>3. CASE n \notin S
    <3>1. S \ {n} = S BY <2>3
    <3> QED BY <1>1, <2>1, <3>1
  <2> QED BY <2>2, <2>3
<1>5. ASSUME n \in T PROVE Cardinality(T) > 0
  <2>1. T # {} BY <1>5
  <2> QED BY <1>1, <2>1, FS_EmptySet
<1> QED BY <1>2, <1>3, <1>4, <1>5

\* A step that takes nothing off the lists.
LEMMA MineKept ==
    ASSUME pdm' = pdm, \A p \in Pods : Counts(p) => Counts(p)', NEW o \in Owners
    PROVE  Cardinality(Mine(o)) <= Cardinality(Mine(o)')
<1>1. Mine(o) \subseteq Mine(o)' BY DEF Mine, Listed
<1> QED BY <1>1, MineFinite, OneMore

\* Nor do changes in the cluster, and events other than Deleted events.
LEMMA CountsKept ==
    ASSUME StateInv, SerialInv, gaps = 0,
           \/ watching /\ \E h \in Pods : \E type \in EventTypes : PodStep(h, type)
           \/ HandlerSteps /\ Head1.type # "Deleted"
           \/ UNCHANGED <<phase, born, image, channel, collector>>
    PROVE  \A p \in Pods : Counts(p) => Counts(p)'
<1> SUFFICES ASSUME NEW p \in Pods, Counts(p) PROVE Counts(p)' OBVIOUS
<1>1. Shown(p) /\ Young(p) BY DEF Counts
<1>2. CASE watching /\ \E h \in Pods : \E type \in EventTypes : PodStep(h, type)
  <2>1. PICK h \in Pods, type \in EventTypes : PodStep(h, type) BY <1>2
  <2> QED BY <1>1, <1>2, <2>1, ShownAfterPodStep DEF Counts
<1>3. CASE HandlerSteps /\ Head1.type # "Deleted"
  <2>1. Done /\ start' = start BY <1>3, HandlersKeep
  <2>2. Shown(p)' BY <1>1, <1>3, <2>1, ShownAfterDone
  <2>3. born' = born BY <2>1 DEF Done, EventDone, cluster
  <2> QED BY <1>1, <2>1, <2>2, <2>3 DEF Counts, Young
<1>4. CASE UNCHANGED <<phase, born, image, channel, collector>>
  <2>1. UNCHANGED <<phase, born, queue, start>> BY <1>4 DEF channel, collector
  <2> QED BY <1>1, <2>1 DEF Counts, Young, Shown, Created, Live, Queued, Idx, Is
<1> QED BY <1>2, <1>3, <1>4

\* A young pod is listed: it is one more of its owner's.
LEMMA MineGains ==
    ASSUME StateInv, SerialInv, ListInv, gaps = 0, HandlerSteps, NEW h \in Pods, Head1.pod = h,
           NEW i \in DOMAIN pdm \cup {nextId}, Lists(h, i, OwnerOf[h]), NEW o \in Owners
    PROVE  /\ Cardinality(Mine(o)) <= Cardinality(Mine(o)')
           /\ o = OwnerOf[h] /\ Young(h) => Cardinality(Mine(o)) + 1 <= Cardinality(Mine(o)')
<1>1. CollectorInv /\ Head1.type = "Added" /\ OwnerOf[h] \in Owners /\ Done
  BY PodsAssumption, HandlerEffect DEF StateInv, Lists
<1>2. \A n \in Names : Listed(n) # {} => Listed(n)' # {}
  <2> SUFFICES ASSUME NEW n \in Names, Listed(n) # {} PROVE Listed(n)' # {} OBVIOUS
  <2>1. /\ n # PodName[h] => Listed(n)' = Listed(n)
        /\ n = PodName[h] => Listed(n)' = Listed(n) \cup {i}
    <3>1. PICK x \in Owners : x = OwnerOf[h] BY <1>1
    <3>2. Lists(h, i, x) BY <3>1
    <3> QED BY <1>1, <3>2, ListedAfterLists
  <2> QED BY <2>1
<1>3. \A p \in Pods : Counts(p) => Counts(p)' BY <1>1, CountsKept
<1>4. Mine(o) \subseteq Mine(o)' BY <1>2, <1>3 DEF Mine
<1>5. ASSUME o = OwnerOf[h], Young(h) PROVE PodName[h] \in Mine(o)' /\ PodName[h] \notin Mine(o)
  <2>1. \A p \in Pods : PodName[p] = PodName[h] => ~Shown(p) BY <1>1, NotShownYet
  <2>2. Shown(h)' BY <1>1, ShownOnceAdded
  <2>3. Listed(PodName[h])' # {} BY <1>1, ListedAfterLists
  <2>4. Young(h)' BY <1>1, <1>5, HandlersKeep DEF Young, Done, EventDone, cluster
  <2> QED BY <1>5, <2>1, <2>2, <2>3, <2>4 DEF Mine, Names, Counts
<1>6. o = OwnerOf[h] /\ Young(h) =>
         Mine(o) \cup {PodName[h]} \subseteq Mine(o)' /\ PodName[h] \notin Mine(o)
  BY <1>4, <1>5
<1>7. IsFiniteSet(Mine(o)) /\ IsFiniteSet(Mine(o)') BY MineFinite
<1>8. Cardinality(Mine(o)) <= Cardinality(Mine(o)') BY <1>4, <1>7, OneMore
<1>9. o = OwnerOf[h] /\ Young(h) => Cardinality(Mine(o)) + 1 <= Cardinality(Mine(o)')
  BY <1>6, <1>7, OneMore
<1> QED BY <1>8, <1>9

\* A pod is taken off: its owner, and nobody else, loses one.
LEMMA MineLoses ==
    ASSUME StateInv, SerialInv, gaps = 0, HandlerSteps, NEW h \in Pods, Head1.pod = h,
           NEW gone \in SUBSET DOMAIN pdm, Unlists(h, OwnerOf[h], gone), NEW o \in Owners
    PROVE  /\ Cardinality(Mine(o)) <= Cardinality(Mine(o)') + 1
           /\ o # OwnerOf[h] => Cardinality(Mine(o)) <= Cardinality(Mine(o)')
<1>1. CollectorInv /\ Head1.type = "Deleted" /\ OwnerOf[h] \in Owners /\ Done /\ start' = start
  BY PodsAssumption, HandlersKeep DEF StateInv, Unlists
<1>2. ASSUME NEW n \in Names, n # PodName[h] PROVE Listed(n)' = Listed(n)
  BY <1>1, <1>2, ListedAfterUnlists
<1>3. \A p \in Pods : p # h /\ Counts(p) => Counts(p)'
  <2>1. \A p \in Pods : p # h /\ Shown(p) => Shown(p)' BY <1>1, ShownAfterDone
  <2>2. born' = born BY <1>1 DEF Done, EventDone, cluster
  <2> QED BY <1>1, <2>1, <2>2 DEF Counts, Young
<1>4. Mine(o) \ {PodName[h]} \subseteq Mine(o)' BY <1>2, <1>3 DEF Mine
<1>5. ASSUME o # OwnerOf[h] PROVE PodName[h] \notin Mine(o)
  <2>1. Shown(h) BY <1>1, ShownUntilDeleted
  <2>2. \A p \in Pods : PodName[p] = PodName[h] /\ Shown(p) => p = h BY <2>1, ShownOnce
  <2> QED BY <1>5, <2>2 DEF Mine, Counts
<1>6. IsFiniteSet(Mine(o)) /\ IsFiniteSet(Mine(o)') BY MineFinite
<1>7. Cardinality(Mine(o)) <= Cardinality(Mine(o)') + 1 BY <1>4, <1>6, OneMore
<1>8. o # OwnerOf[h] => Mine(o) \subseteq Mine(o)' BY <1>4, <1>5
<1>9. o # OwnerOf[h] => Cardinality(Mine(o)) <= Cardinality(Mine(o)') BY <1>6, <1>8, OneMore
<1> QED BY <1>7, <1>9

\* The counter of a candidate and the names counted change together.
LEMMA CountStep ==
    AllStateful /\ StateInv /\ SerialInv /\ ListInv /\ CountInv /\ [Next]_vars => CountInv'
<1> SUFFICES ASSUME AllStateful, StateInv, SerialInv, ListInv, CountInv, [Next]_vars, gaps' = 0,
                    NEW x \in Owners
             PROVE  cand'[x].n <= Cardinality(Mine(x)')
  BY DEF CountInv
<1>1. gaps = 0 /\ CollectorInv /\ ClusterInv BY QuietCases DEF StateInv
<1>2. cand \in Candidates /\ cand[x].n \in Nat /\ cand[x].n <= Cardinality(Mine(x))
  BY <1>1 DEF CountInv, CollectorInv, Candidates
<1>3. Cardinality(Mine(x)) \in Nat /\ Cardinality(Mine(x)') \in Nat BY MineFinite
<1>4. ASSUME pdm' = pdm, cand'[x].n = cand[x].n, \A p \in Pods : Counts(p) => Counts(p)'
      PROVE  cand'[x].n <= Cardinality(Mine(x)')
  <2>1. Cardinality(Mine(x)) <= Cardinality(Mine(x)') BY <1>4, MineKept
  <2> QED BY <1>2, <1>3, <1>4, <2>1
<1>5. ASSUME NEW p \in Pods, NEW type \in EventTypes, PodStep(p, type)
      PROVE  cand'[x].n <= Cardinality(Mine(x)')
  <2>1. pdm' = pdm /\ cand' = cand BY <1>5 DEF PodStep, collector
  <2>2. CASE watching
    <3>1. \A q \in Pods : Counts(q) => Counts(q)' BY <1>1, <1>5, <2>2, CountsKept
    <3> QED BY <1>4, <2>1, <3>1
  <2>3. CASE ~watching
    <3>1. cand'[x].n = 0 BY <1>1, <2>1, <2>3 DEF SerialInv, Nothing
    <3> QED BY <1>3, <3>1
  <2> QED BY <2>2, <2>3
<1>6. CASE UNCHANGED <<phase, born, image, channel, collector>>
  <2>1. pdm' = pdm /\ cand' = cand BY <1>6 DEF collector
  <2>2. \A q \in Pods : Counts(q) => Counts(q)' BY <1>1, <1>6, CountsKept
  <2> QED BY <1>4, <2>1, <2>2
<1>7. CASE HandlerSteps
  <2>1. Done BY <1>7, HandlerEffect
  <2>2. Head1.pod \in Created /\ Head1 \in Events BY <2>1, HandledQueue DEF StateInv
  <2>3. PICK h \in Pods : h = Head1.pod BY <2>2 DEF Created
  <2>4. PICK r \in BOOLEAN : r = Head1.running BY <2>2 DEF Events
  <2>5. image[h] \in 1..MaxSpec /\ image[h] \in 0..MaxSpec
    BY <1>1, <2>2, <2>3, SpecAssumption DEF ClusterInv
  <2>6. Head1.type # "Deleted" => \A q \in Pods : Counts(q) => Counts(q)' BY <1>1, <1>7, CountsKept
  <2>7. PICK o \in Owners : o = OwnerOf[h] BY PodsAssumption
  <2>8. CASE Ignores(h) BY <1>4, <2>6, <2>8 DEF Ignores
  <2>9. ASSUME NEW i \in DOMAIN pdm \cup {nextId}, Lists(h, i, o)
        PROVE  cand'[x].n <= Cardinality(Mine(x)')
    <3>1. /\ \A y \in Owners : y # o => cand'[y] = cand[y]
          /\ born[h] <= start => cand' = cand
          /\ ~(born[h] <= start) => cand'[o].n = cand[o].n + 1
      BY <1>2, <2>4, <2>5, <2>9, AddEffect DEF Lists
    <3>2. /\ Cardinality(Mine(x)) <= Cardinality(Mine(x)')
          /\ x = o /\ Young(h) => Cardinality(Mine(x)) + 1 <= Cardinality(Mine(x)')
      BY <1>1, <1>7, <2>3, <2>7, <2>9, MineGains
    <3>3. x # o \/ ~Young(h) => cand'[x].n = cand[x].n
      <4>1. ~Young(h) => born[h] <= start
        <5>1. born[h] \in Nat /\ start \in Nat BY <1>1, CreatedFinite DEF ClusterInv, CollectorInv
        <5> QED BY <5>1 DEF Young
      <4> QED BY <3>1, <4>1
    <3>4. x = o => cand'[x].n \in {cand[x].n, cand[x].n + 1} BY <3>1
    <3> QED BY <1>2, <1>3, <3>2, <3>3, <3>4
  <2>10. ASSUME Checks(h, o) PROVE cand'[x].n <= Cardinality(Mine(x)')
    <3>1. pdm' = pdm /\ Head1.type # "Deleted" /\ CheckCandidate(h, o, r) BY <2>4, <2>10 DEF Checks
    <3>2. \A y \in Owners : cand'[y].n = cand[y].n BY <1>2, <2>5, <3>1, CheckEffect
    <3> QED BY <1>4, <2>6, <3>1, <3>2
  <2>11. ASSUME NEW gone \in SUBSET DOMAIN pdm, Unlists(h, o, gone)
         PROVE  cand'[x].n <= Cardinality(Mine(x)')
    <3>1. /\ \A y \in Owners : y # o => cand'[y] = cand[y]
          /\ cand'[o].n = IF cand[o].n > 1 THEN cand[o].n - 1 ELSE 0
      BY <1>2, <2>11, RemoveEffect DEF Unlists
    <3>2. /\ Cardinality(Mine(x)) <= Cardinality(Mine(x)') + 1
          /\ x # o => Cardinality(Mine(x)) <= Cardinality(Mine(x)')
      BY <1>1, <1>7, <2>3, <2>7, <2>11, MineLoses
    <3>3. x # o => cand'[x].n = cand[x].n BY <3>1
    <3>4. x = o => cand'[x].n = IF cand[x].n > 1 THEN cand[x].n - 1 ELSE 0 BY <3>1
    <3> QED BY <1>2, <1>3, <3>2, <3>3, <3>4
  <2>12. \/ Ignores(h)
         \/ \E i \in DOMAIN pdm \cup {nextId} : Lists(h, i, o)
         \/ Checks(h, o)
         \/ \E gone \in SUBSET DOMAIN pdm : Unlists(h, o, gone)
    BY <1>7, <2>3, <2>7, HandlerEffect
  <2> QED BY <2>8, <2>9, <2>10, <2>11, <2>12
<1>8. CASE PodWatchStarts \/ WatchOpens
  <2>1. Nothing /\ cand' = cand BY <1>1, <1>8, NothingYet
  <2>2. cand'[x].n = 0 BY <2>1 DEF Nothing
  <2> QED BY <1>3, <2>2
<1> QED BY <1>5, <1>6, <1>7, <1>8, QuietCases

\* Until the first watch ends, over stateful sets, a scan candidate never counts
\* more pods than its owner has young ones in wh.pdm (podwatch.go:108 and 116 against
\* 249 and 754), so its counter is never too high for it to go with its last pod.
THEOREM StatefulCandidatesAreListed ==
    ASSUME AllStateful
    PROVE  Spec => []CandidatesAreListed
<1>1. Init => CountInv
  <2> SUFFICES ASSUME Init, NEW o \in Owners PROVE cand[o].n <= Cardinality(Mine(o)) BY DEF CountInv
  <2>1. cand[o].n = 0 BY DEF Init
  <2>2. Cardinality(Mine(o)) \in Nat BY MineFinite
  <2> QED BY <2>1, <2>2
<1>2. StateInv /\ SerialInv /\ ListInv /\ CountInv /\ [Next]_vars => CountInv' BY CountStep
<1>3. StateInv /\ CountInv => CandidatesAreListed
  <2> SUFFICES ASSUME StateInv, CountInv, gaps = 0, NEW o \in Owners
               PROVE  cand[o].n <= Cardinality({n \in Names :
                          /\ Listed(n) # {}
                          /\ \E p \in Pods : OwnerOf[p] = o /\ PodName[p] = n /\ Young(p)})
    BY DEF CandidatesAreListed
  <2> DEFINE All == {n \in Names :
                        /\ Listed(n) # {}
                        /\ \E p \in Pods : OwnerOf[p] = o /\ PodName[p] = n /\ Young(p)}
  <2>1. IsFiniteSet(All)
    <3>1. IsFiniteSet(Names)
      <4>1. IsFiniteSet(Pods) BY PodsAssumption
      <4>2. [p \in Pods |-> PodName[p]] \in Surjection(Pods, Names) BY DEF Surjection, Names
      <4> HIDE DEF Names, All
      <4> QED BY <4>1, <4>2, FS_Surjection
    <3> QED BY <3>1, FS_Subset
  <2>2. Mine(o) \subseteq All BY DEF Mine, Counts
  <2> HIDE DEF All
  <2>3. /\ Cardinality(Mine(o)) <= Cardinality(All) /\ Cardinality(All) \in Nat
        /\ Cardinality(Mine(o)) \in Nat
    BY <2>1, <2>2, FS_Subset, FS_CardinalityType, MineFinite
  <2>4. cand[o].n \in Nat /\ cand[o].n <= Cardinality(Mine(o)) BY DEF CountInv, StateInv, CollectorInv
  <2> QED BY <2>3, <2>4 DEF All
<1> QED BY <1>1, <1>2, <1>3, SerialAlways, PTL DEF Spec

-----------------------------------------------------------------------------
(* The scans of stateful sets.                                              *)

\* Changes in the cluster.
LEMMA FlagsPodStep ==
    ASSUME StateInv, FlagsInv, NEW h \in Pods, NEW type \in EventTypes, PodStep(h, type)
    PROVE  FlagsInv'
<1>1. ClusterInv /\ QueueInv BY DEF StateInv
<1>2. CASE ~watching
  <2>1. queue' = <<>> BY <1>1, <1>2 DEF PodStep, QueueInv
  <2>2. Idx' = {} BY <2>1 DEF Idx
  <2> QED BY <2>2 DEF FlagsInv, Queued
<1>3. CASE watching
  <2>1. PICK m : m = Len(queue) + 1 OBVIOUS
  <2>2. /\ queue'[m].type = type /\ queue'[m].pod = h
        /\ type = "Added" => ~queue'[m].running
        /\ type = "Modified" => queue'[m].running
        /\ \A i \in Idx : queue'[i] = queue[i]
        /\ Idx' = Idx \cup {m}
    BY <1>1, <1>3, <2>1, AppendedEvent
  <2>3. /\ start' = start /\ early' = early
        /\ \A q \in Pods : q # h => phase'[q] = phase[q] /\ born'[q] = born[q] /\ image'[q] = image[q]
    BY DEF PodStep, collector
  <2>4. type # "Added" => UNCHANGED <<born, image>> BY <1>1, PodFacts
  <2>5. \A q \in Created : /\ Young(q)' <=> Young(q)
                           /\ IsEarly(q)' <=> IsEarly(q)
    <3>1. \A q \in Created : q \in Pods /\ (q # h \/ type # "Added")
      BY <1>1, PodFacts DEF Created
    <3> QED BY <2>3, <2>4, <3>1 DEF Young, IsEarly
  <2>6. ASSUME NEW i \in Idx'
        PROVE  /\ queue'[i].type = "Added" /\ queue'[i].running /\ Young(queue[i].pod)'
                     => IsEarly(queue[i].pod)'
               /\ queue'[i].type = "Modified" => queue'[i].running
    <3>1. CASE i = m BY <2>2, <3>1
    <3>2. CASE i \in Idx
      <4>1. queue[i].pod \in Created BY <1>1, <3>2 DEF QueueInv
      <4>2. /\ queue[i].type = "Added" /\ queue[i].running /\ Young(queue[i].pod)
                  => IsEarly(queue[i].pod)
            /\ queue[i].type = "Modified" => queue[i].running
        BY <3>2 DEF FlagsInv
      <4>3. PICK x \in Created : x = queue[i].pod BY <4>1
      <4>4. queue'[i] = queue[i] BY <2>2, <3>2
      <4>5. /\ queue[i].type = "Added" /\ queue[i].running /\ Young(x)' => IsEarly(x)'
            /\ queue[i].type = "Modified" => queue[i].running
        BY <2>5, <4>2, <4>3
      <4> QED BY <4>3, <4>4, <4>5 DEF Young, IsEarly
    <3> QED BY <2>2, <3>1, <3>2
  <2>7. ASSUME NEW p \in Pods, phase'[p] = "running", Young(p)', Queued("Added", p)'
        PROVE  Queued("Modified", p)' \/ IsEarly(p)'
    <3>1. Queued("Added", p)' <=> Queued("Added", p) \/ (watching /\ "Added" = type /\ p = h)
      BY <1>1, QueuedAfterPodStep DEF EventTypes
    <3>2. Queued("Modified", p)' <=> Queued("Modified", p) \/ (watching /\ "Modified" = type /\ p = h)
      BY <1>1, QueuedAfterPodStep DEF EventTypes
    <3>3. CASE p = h
      <4>1. type = "Modified" BY <1>1, <2>7, <3>3, PodFacts
      <4> QED BY <1>3, <3>2, <3>3, <4>1
    <3>4. CASE p # h
      <4>1. phase[p] = "running" /\ Young(p) BY <2>3, <2>7, <3>4 DEF Young
      <4>2. Queued("Added", p) BY <2>7, <3>1, <3>4
      <4>3. Queued("Modified", p) \/ IsEarly(p) BY <4>1, <4>2 DEF FlagsInv
      <4>4. IsEarly(p) => IsEarly(p)' BY <2>3, <3>4 DEF IsEarly
      <4> QED BY <3>2, <4>3, <4>4
    <3> QED BY <3>3, <3>4
  <2> QED BY <2>6, <2>7 DEF FlagsInv
<1> QED BY <1>2, <1>3

\* The watch opens: the pods that run are early.
LEMMA FlagsOpens ==
    ASSUME StateInv, WatchOpens
    PROVE  FlagsInv' /\ early \subseteq early'
<1>1. /\ UNCHANGED <<phase, born, image, start>>
      /\ early' = early \cup {<<OwnerOf[p], image[p]>> :
                                p \in {q \in Pods : phase[q] = "running" /\ born[q] > start}}
  BY DEF WatchOpens, cluster
<1>2. /\ \A i \in Idx' : queue'[i].type = "Added" /\ queue'[i].pod \in Pods
      /\ \A i \in Idx' : queue'[i].running => phase[queue'[i].pod] = "running"
  BY OpenedQueue DEF StateInv
<1>3. \A p \in Pods : phase[p] = "running" /\ Young(p)' => IsEarly(p)' BY <1>1 DEF Young, IsEarly
<1> HIDE DEF Young, IsEarly
<1>4. \A i \in Idx' : queue'[i].running /\ Young(queue[i].pod)' => IsEarly(queue[i].pod)'
  <2> SUFFICES ASSUME NEW i \in Idx', queue'[i].running, Young(queue[i].pod)'
               PROVE  IsEarly(queue[i].pod)'
    OBVIOUS
  <2>1. PICK p \in Pods : p = queue'[i].pod BY <1>2
  <2>2. phase[p] = "running" /\ born'[p] > start' BY <1>2, <2>1 DEF Young
  <2>3. <<OwnerOf[p], image'[p]>> \in early' BY <1>1, <2>2
  <2> QED BY <2>1, <2>3 DEF IsEarly
<1> QED BY <1>1, <1>2, <1>3, <1>4 DEF FlagsInv

\* Events that are done.
LEMMA FlagsDone ==
    ASSUME StateInv, SerialInv, gaps = 0, FlagsInv, Done, UNCHANGED <<start, early>>
    PROVE  FlagsInv'
<1>1. QueueInv BY DEF StateInv
<1>2. /\ \A i \in Idx' : i + 1 \in Idx /\ queue'[i] = queue[i + 1] /\ i \in Nat /\ i >= 1
      /\ 1 \in Idx
  BY <1>1, HandledQueue
<1>3. UNCHANGED <<phase, born, image>> BY DEF Done, EventDone, cluster
<1>4. \A i \in Idx' : /\ queue'[i].type = "Added" /\ queue'[i].running /\ Young(queue[i].pod)'
                            => IsEarly(queue[i].pod)'
                      /\ queue'[i].type = "Modified" => queue'[i].running
  BY <1>2, <1>3 DEF FlagsInv, Young, IsEarly
<1>5. ASSUME NEW p \in Pods, phase'[p] = "running", Young(p)', Queued("Added", p)'
      PROVE  Queued("Modified", p)' \/ IsEarly(p)'
  <2>1. phase[p] = "running" /\ Young(p) /\ (IsEarly(p)' <=> IsEarly(p))
    BY <1>3, <1>5 DEF Young, IsEarly
  <2>2. Queued("Added", p) BY <1>1, <1>5, QueuedAfterDone
  <2>3. Queued("Modified", p) \/ IsEarly(p) BY <2>1, <2>2 DEF FlagsInv
  <2>4. Queued("Modified", p) => Queued("Modified", p)' \/ (Head1.type = "Modified" /\ Head1.pod = p)
    BY <1>1, QueuedAfterDone
  <2>5. ~(Head1.type = "Modified" /\ Head1.pod = p)
    <3> SUFFICES ASSUME Head1.pod = p PROVE FALSE OBVIOUS
    <3>1. PICK i \in Idx' : Is(i, "Added", p)' BY <1>5 DEF Queued
    <3>2. i + 1 \in Idx /\ Is(i + 1, "Added", p) /\ i \in Nat /\ i >= 1 BY <1>2, <3>1 DEF Is
    <3>3. i + 1 <= 1 BY <1>2, <3>2 DEF SerialInv, Is, Head1
    <3> QED BY <3>2, <3>3
  <2> QED BY <2>1, <2>3, <2>4, <2>5
<1> QED BY <1>4, <1>5 DEF FlagsInv

\* An Added event sets the image of an early pod only, and what else sets it asks
\* for the scan.
LEMMA ImageHandles ==
    ASSUME AllStateful, StateInv, FlagsInv, ImageInv, HandlerSteps
    PROVE  ImageInv' /\ scanned \subseteq scanned'
<1>1. Done /\ early' = early BY HandlersKeep
<1>2. Head1.pod \in Created /\ Head1 \in Events /\ 1 \in Idx BY <1>1, HandledQueue DEF StateInv
<1>3. PICK h \in Pods : h = Head1.pod BY <1>2 DEF Created
<1>4. PICK r \in BOOLEAN : r = Head1.running BY <1>2 DEF Events
<1>5. image[h] \in 1..MaxSpec /\ image[h] \in 0..MaxSpec
  BY <1>2, <1>3, SpecAssumption DEF StateInv, ClusterInv
<1>6. cand \in Candidates BY DEF StateInv, CollectorInv, Candidates
<1>7. CASE Ignores(h) BY <1>1, <1>7 DEF Ignores, ImageInv
<1>8. ASSUME NEW o \in Owners, o = OwnerOf[h], NEW i \in DOMAIN pdm \cup {nextId}, Lists(h, i, o)
      PROVE  ImageInv' /\ scanned \subseteq scanned'
  <2>1. Head1.type = "Added" /\ AddCandidate(h, o, r) /\ scanned' = scanned BY <1>4, <1>8 DEF Lists
  <2>2. /\ \A x \in Owners : x # o => cand'[x] = cand[x]
        /\ ~r \/ born[h] <= start => cand'[o].image = cand[o].image
        /\ cand'[o].image \in {cand[o].image, image[h]}
    BY <1>5, <1>6, <2>1, AddEffect
  <2>3. CASE ~r \/ born[h] <= start BY <1>1, <2>1, <2>2, <2>3 DEF ImageInv
  <2>4. CASE r /\ ~(born[h] <= start)
    <3>1. Young(h)
      <4>1. born[h] \in Nat /\ start \in Nat
        BY CreatedFinite DEF StateInv, ClusterInv, CollectorInv
      <4> QED BY <2>4, <4>1 DEF Young
    <3>2. IsEarly(h) BY <1>2, <1>3, <1>4, <2>1, <2>4, <3>1 DEF FlagsInv, Head1
    <3> QED BY <1>1, <1>8, <2>1, <2>2, <3>2 DEF ImageInv, IsEarly
  <2> QED BY <2>3, <2>4
<1>9. ASSUME NEW o \in Owners, Checks(h, o) PROVE ImageInv' /\ scanned \subseteq scanned'
  <2>1. CheckCandidate(h, o, r) BY <1>4, <1>9 DEF Checks
  <2>2. /\ scanned' \in {scanned, scanned \cup {<<o, image[h]>>}}
        /\ \A x \in Owners : cand'[x].image # cand[x].image =>
              x = o /\ cand'[x].image = image[h] /\ <<o, image[h]>> \in scanned'
    BY <1>5, <1>6, <2>1, CheckEffect
  <2> QED BY <1>1, <2>2 DEF ImageInv
<1>10. ASSUME NEW o \in Owners, NEW gone \in SUBSET DOMAIN pdm, Unlists(h, o, gone)
       PROVE  ImageInv' /\ scanned \subseteq scanned'
  <2>1. RemoveCandidate(o) /\ scanned' = scanned BY <1>10 DEF Unlists
  <2>2. /\ \A x \in Owners : x # o => cand'[x] = cand[x]
        /\ cand'[o].image \in {cand[o].image, 0}
    BY <1>6, <2>1, RemoveEffect
  <2> QED BY <1>1, <2>1, <2>2 DEF ImageInv
<1> QED BY <1>3, <1>7, <1>8, <1>9, <1>10, HandlerEffect

\* A pod that is left unscanned by the handler of an event was so before, or its
\* own event found no candidate.
LEMMA ScanHandles ==
    ASSUME AllStateful, StateInv, SerialInv, ListInv, ScanInv, gaps = 0, HandlerSteps, ImageInv',
           FlagsInv', scanned \subseteq scanned', NEW p \in Pods, Unscanned(p)',
           NEW x \in Owners, x = OwnerOf[p]
    PROVE  cand'[x].n < Cardinality(Mine(x)')
<1>1. CollectorInv /\ ClusterInv /\ QueueInv /\ Done BY HandlerEffect DEF StateInv
<1>2. Head1.pod \in Created /\ Head1 \in Events /\ 1 \in Idx BY <1>1, HandledQueue
<1>3. PICK h \in Pods : h = Head1.pod BY <1>2 DEF Created
<1>4. PICK r \in BOOLEAN : r = Head1.running BY <1>2 DEF Events
<1>5. image[h] \in 1..MaxSpec /\ image[h] \in 0..MaxSpec /\ h \in Created
  BY <1>1, <1>2, <1>3, SpecAssumption DEF ClusterInv
<1>6. PICK o \in Owners : o = OwnerOf[h] BY PodsAssumption
<1>7. cand \in Candidates /\ cand[x].n \in Nat BY <1>1 DEF CollectorInv, Candidates
<1>8. Cardinality(Mine(x)) \in Nat /\ Cardinality(Mine(x)') \in Nat BY MineFinite
<1>9. UNCHANGED <<phase, born, image, start, early>>
  BY <1>1, HandlersKeep DEF Done, EventDone, cluster
<1>10. /\ phase[p] = "running" /\ Young(p) /\ Young(p)'
       /\ ~Queued("Added", p)' /\ ~Queued("Modified", p)'
       /\ <<x, image[p]>> \notin scanned' /\ <<x, image[p]>> \notin scanned /\ Listed(PodName[p])' # {}
       /\ ~IsEarly(p)
  BY <1>9 DEF Unscanned, Young, IsEarly
<1>11. /\ Queued("Added", p) => Head1.type = "Added" /\ h = p
       /\ Queued("Modified", p) => Head1.type = "Modified" /\ h = p
  BY <1>1, <1>3, <1>10, QueuedAfterDone
<1>12. FlagsInv /\ ImageInv BY DEF ScanInv
<1>13. ~Queued("Added", p)
  <2> SUFFICES ASSUME Queued("Added", p) PROVE FALSE OBVIOUS
  <2>1. Queued("Modified", p) BY <1>10, <1>12 DEF FlagsInv
  <2> QED BY <1>11, <2>1
<1>14. Listed(PodName[p]) # {} /\ ~Queued("Modified", p) => cand[x].n < Cardinality(Mine(x))
  BY <1>10, <1>13 DEF ScanInv, Unscanned, IsEarly
<1>15. Head1.type # "Deleted" => \A q \in Pods : Counts(q) => Counts(q)' BY CountsKept
<1>16. CASE Ignores(h)
  <2>1. pdm' = pdm /\ cand' = cand /\ Head1.type = "Added" BY <1>16 DEF Ignores
  <2>2. Listed(PodName[p])' = Listed(PodName[p]) BY <2>1 DEF Listed
  <2>3. cand[x].n < Cardinality(Mine(x)) BY <1>10, <1>11, <1>14, <2>1, <2>2
  <2>4. Cardinality(Mine(x)) <= Cardinality(Mine(x)') BY <1>15, <2>1, MineKept
  <2> QED BY <1>7, <1>8, <2>1, <2>3, <2>4
<1>17. ASSUME NEW i \in DOMAIN pdm \cup {nextId}, Lists(h, i, o)
       PROVE  cand'[x].n < Cardinality(Mine(x)')
  <2>1. Head1.type = "Added" /\ AddCandidate(h, o, r) BY <1>4, <1>17 DEF Lists
  <2>2. PodName[p] # PodName[h]
    <3> SUFFICES ASSUME PodName[p] = PodName[h] PROVE FALSE OBVIOUS
    <3>1. p \in Created /\ Live(p) BY <1>10 DEF Created, Live
    <3>2. ~Shown(p) BY <1>1, <1>3, <2>1, NotShownYet
    <3> QED BY <1>13, <3>1, <3>2 DEF Shown
  <2>3. Listed(PodName[p])' = Listed(PodName[p]) BY <1>1, <1>17, <2>2, ListedAfterLists
  <2>4. cand[x].n < Cardinality(Mine(x)) BY <1>10, <1>11, <1>14, <2>1, <2>3
  <2>5. /\ \A y \in Owners : y # o => cand'[y] = cand[y]
        /\ born[h] <= start => cand' = cand
        /\ ~(born[h] <= start) => cand'[o].n = cand[o].n + 1
    BY <1>5, <1>7, <2>1, AddEffect
  <2>6. /\ Cardinality(Mine(x)) <= Cardinality(Mine(x)')
        /\ x = o /\ Young(h) => Cardinality(Mine(x)) + 1 <= Cardinality(Mine(x)')
    BY <1>3, <1>6, <1>17, MineGains
  <2>7. x # o \/ ~Young(h) => cand'[x].n = cand[x].n
    <3>1. born[h] \in Nat /\ start \in Nat BY <1>1, CreatedFinite DEF ClusterInv, CollectorInv
    <3>2. ~Young(h) => born[h] <= start BY <3>1 DEF Young
    <3> QED BY <2>5, <3>2
  <2>8. x = o => cand'[x].n \in {cand[x].n, cand[x].n + 1} BY <2>5
  <2> QED BY <1>7, <1>8, <2>4, <2>6, <2>7, <2>8
<1>18. ASSUME Checks(h, o) PROVE cand'[x].n < Cardinality(Mine(x)')
  <2>1. /\ pdm' = pdm /\ Head1.type \in {"Modified", "Terminating"} /\ CheckCandidate(h, o, r)
    BY <1>4, <1>18 DEF Checks
  <2>2. Listed(PodName[p])' = Listed(PodName[p]) BY <2>1 DEF Listed
  <2>3. Cardinality(Mine(x)) <= Cardinality(Mine(x)') BY <1>15, <2>1, MineKept
  <2>4. /\ \A y \in Owners : cand'[y].n = cand[y].n
        /\ r /\ cand[o].n > 0 => cand'[o].image = image[h]
    <3>1. cand \in Candidates /\ image[h] \in 1..MaxSpec /\ CheckCandidate(h, o, r) BY <1>5, <1>7, <2>1
    <3>2. \A y \in Owners : cand'[y].n = cand[y].n BY <3>1, CheckEffect
    <3>3. r /\ cand[o].n > 0 => cand'[o].image = image[h]
      BY <3>1 DEF CheckCandidate, Candidates
    <3> QED BY <3>2, <3>3
  <2>5. CASE ~Queued("Modified", p)
    <3>1. cand[x].n < Cardinality(Mine(x)) BY <1>10, <1>14, <2>2, <2>5
    <3> QED BY <1>7, <1>8, <2>3, <2>4, <3>1
  <2>6. CASE Queued("Modified", p)
    <3>1. Head1.type = "Modified" /\ h = p /\ x = o BY <1>6, <1>11, <2>6
    <3>2. r
      <4>1. Head1.running BY <1>2, <1>12, <3>1 DEF FlagsInv, Head1
      <4> QED BY <1>4, <4>1
    <3>3. ~(cand[x].n > 0)
      <4> SUFFICES ASSUME cand[x].n > 0 PROVE FALSE OBVIOUS
      <4>1. cand'[x].image = image[p] /\ image[p] # 0 BY <1>5, <2>4, <3>1, <3>2
      <4>2. <<x, image[p]>> \in scanned' \cup early' BY <4>1 DEF ImageInv
      <4> QED BY <1>9, <1>10, <4>2 DEF IsEarly
    <3>4. Shown(p)'
      <4>1. p \in Created' /\ Live(p)' BY <1>9, <1>10 DEF Created, Live
      <4> QED BY <1>10, <4>1 DEF Shown
    <3>5. PodName[p] \in Mine(x)' BY <1>10, <3>4 DEF Mine, Names, Counts
    <3>6. IsFiniteSet(Mine(x)') BY MineFinite
    <3>7. Cardinality(Mine(x)') > 0 BY <3>5, <3>6, OneMore
    <3> QED BY <1>7, <1>8, <2>4, <3>3, <3>7
  <2> QED BY <2>5, <2>6
<1>19. ASSUME NEW gone \in SUBSET DOMAIN pdm, Unlists(h, o, gone)
       PROVE  cand'[x].n < Cardinality(Mine(x)')
  <2>1. Head1.type = "Deleted" /\ RemoveCandidate(o) BY <1>19 DEF Unlists
  <2>2. PodName[p] # PodName[h] /\ Listed(PodName[p])' = Listed(PodName[p])
    BY <1>1, <1>10, <1>19, ListedAfterUnlists
  <2>3. cand[x].n < Cardinality(Mine(x)) BY <1>10, <1>11, <1>14, <2>1, <2>2
  <2>4. /\ \A y \in Owners : y # o => cand'[y] = cand[y]
        /\ cand'[o].n = IF cand[o].n > 1 THEN cand[o].n - 1 ELSE 0
    BY <1>7, <2>1, RemoveEffect
  <2>5. /\ Cardinality(Mine(x)) <= Cardinality(Mine(x)') + 1
        /\ x # o => Cardinality(Mine(x)) <= Cardinality(Mine(x)')
    BY <1>3, <1>6, <1>19, MineLoses
  <2>6. Cardinality(Mine(x)') > 0
    <3>1. Shown(p)'
      <4>1. p \in Created' /\ Live(p)' BY <1>9, <1>10 DEF Created, Live
      <4> QED BY <1>10, <4>1 DEF Shown
    <3>2. PodName[p] \in Mine(x)' BY <1>10, <3>1 DEF Mine, Names, Counts
    <3>3. IsFiniteSet(Mine(x)') BY MineFinite
    <3> QED BY <3>2, <3>3, OneMore
  <2>7. x # o => cand'[x].n = cand[x].n BY <2>4
  <2>8. x = o => cand'[x].n = IF cand[x].n > 1 THEN cand[x].n - 1 ELSE 0 BY <2>4
  <2> QED BY <1>7, <1>8, <2>3, <2>5, <2>6, <2>7, <2>8
<1>20. \/ Ignores(h)
       \/ \E i \in DOMAIN pdm \cup {nextId} : Lists(h, i, o)
       \/ Checks(h, o)
       \/ \E gone \in SUBSET DOMAIN pdm : Unlists(h, o, gone)
  BY <1>3, <1>6, HandlerEffect
<1> QED BY <1>16, <1>17, <1>18, <1>19, <1>20

\* The invariant is inductive.
LEMMA ScanStep ==
    AllStateful /\ StateInv /\ SerialInv /\ ListInv /\ ScanInv /\ [Next]_vars => ScanInv'
<1> SUFFICES ASSUME AllStateful, StateInv, SerialInv, ListInv, ScanInv, [Next]_vars, gaps' = 0
             PROVE  /\ FlagsInv' /\ ImageInv'
                    /\ \A p \in Pods :
                          Unscanned(p)' => cand'[OwnerOf[p]].n < Cardinality(Mine(OwnerOf[p])')
  BY DEF ScanInv
<1>1. gaps = 0 /\ FlagsInv /\ ImageInv BY QuietCases DEF ScanInv
<1>2. \A p \in Pods : Unscanned(p) => cand[OwnerOf[p]].n < Cardinality(Mine(OwnerOf[p]))
  BY <1>1 DEF ScanInv
<1>3. \A o \in Owners : cand[o].n \in Nat BY DEF StateInv, CollectorInv
<1>4. ASSUME pdm' = pdm, cand' = cand, \A q \in Pods : Counts(q) => Counts(q)',
             NEW p \in Pods, Unscanned(p)
      PROVE  cand'[OwnerOf[p]].n < Cardinality(Mine(OwnerOf[p])')
  <2>1. PICK o \in Owners : o = OwnerOf[p] BY PodsAssumption
  <2>2. Cardinality(Mine(o)) <= Cardinality(Mine(o)') BY <1>4, MineKept
  <2>3. cand[o].n < Cardinality(Mine(o)) BY <1>2, <1>4, <2>1
  <2>4. Cardinality(Mine(o)) \in Nat /\ Cardinality(Mine(o)') \in Nat BY MineFinite
  <2>5. cand'[o].n < Cardinality(Mine(o)') BY <1>3, <1>4, <2>2, <2>3, <2>4
  <2> QED BY <2>1, <2>5
<1>5. ASSUME NEW h \in Pods, NEW type \in EventTypes, PodStep(h, type)
      PROVE  /\ FlagsInv' /\ ImageInv'
             /\ \A p \in Pods :
                   Unscanned(p)' => cand'[OwnerOf[p]].n < Cardinality(Mine(OwnerOf[p])')
  <2>1. UNCHANGED <<pdm, cand, scanned, start, early>> BY <1>5 DEF PodStep, collector
  <2>2. FlagsInv' BY <1>1, <1>5, FlagsPodStep
  <2>3. ImageInv' BY <1>1, <2>1 DEF ImageInv
  <2>4. CASE ~watching
    <3>1. pdm = NoPods BY <1>1, <2>4 DEF SerialInv, Nothing
    <3>2. \A n : Listed(n)' = {} BY <2>1, <3>1 DEF Listed, NoPods
    <3> QED BY <2>2, <2>3, <3>2 DEF Unscanned
  <2>5. CASE watching
    <3>1. \A q \in Pods : Counts(q) => Counts(q)' BY <1>1, <1>5, <2>5, CountsKept
    <3>2. ASSUME NEW p \in Pods, Unscanned(p)' PROVE Unscanned(p)
      <4>1. Queued("Added", p)' <=> Queued("Added", p) \/ (watching /\ "Added" = type /\ p = h)
        BY <1>5, QueuedAfterPodStep DEF EventTypes, StateInv
      <4>2. Queued("Modified", p)' <=> Queued("Modified", p) \/ (watching /\ "Modified" = type /\ p = h)
        BY <1>5, QueuedAfterPodStep DEF EventTypes, StateInv
      <4>3. phase'[p] = "running" /\ ~Queued("Added", p)' /\ ~Queued("Modified", p)' /\ Young(p)'
        BY <3>2 DEF Unscanned
      <4>4. p # h
        <5>1. type = "Modified" <=> phase'[h] = "running" BY <1>5, PodFacts DEF StateInv
        <5> QED BY <2>5, <4>2, <4>3, <5>1
      <4>5. phase'[p] = phase[p] /\ image'[p] = image[p] /\ born'[p] = born[p]
        BY <1>5, <4>4 DEF PodStep
      <4>6. Listed(PodName[p])' = Listed(PodName[p]) BY <2>1 DEF Listed
      <4>7. /\ Listed(PodName[p]) # {} /\ <<OwnerOf[p], image[p]>> \notin scanned \cup early
            /\ Young(p)
        BY <2>1, <3>2, <4>3, <4>5, <4>6 DEF Unscanned, Young
      <4> QED BY <4>1, <4>2, <4>3, <4>5, <4>7 DEF Unscanned
    <3> QED BY <1>4, <2>1, <2>2, <2>3, <3>1, <3>2
  <2> QED BY <2>4, <2>5
<1>6. CASE UNCHANGED <<phase, born, image, channel, collector>>
  <2>1. UNCHANGED <<phase, born, image, queue, start, pdm, cand, scanned, early>>
    BY <1>6 DEF channel, collector
  <2>2. \A q \in Pods : Counts(q) => Counts(q)' BY <1>1, <1>6, CountsKept
  <2>3. \A p \in Pods : Unscanned(p)' => Unscanned(p)
    BY <2>1 DEF Unscanned, Young, Listed, Queued, Idx, Is
  <2>4. FlagsInv' BY <1>1, <2>1 DEF FlagsInv, Young, IsEarly, Queued, Idx, Is
  <2>5. ImageInv' BY <1>1, <2>1 DEF ImageInv
  <2> QED BY <1>4, <2>1, <2>2, <2>3, <2>4, <2>5
<1>7. CASE HandlerSteps
  <2>1. Done /\ UNCHANGED <<start, early>> BY <1>7, HandlersKeep
  <2>2. FlagsInv' BY <1>1, <2>1, FlagsDone
  <2>3. ImageInv' /\ scanned \subseteq scanned' BY <1>1, <1>7, ImageHandles
  <2>4. ASSUME NEW p \in Pods, Unscanned(p)'
        PROVE  cand'[OwnerOf[p]].n < Cardinality(Mine(OwnerOf[p])')
    <3>1. PICK x \in Owners : x = OwnerOf[p] BY PodsAssumption
    <3>2. cand'[x].n < Cardinality(Mine(x)') BY <1>1, <1>7, <2>2, <2>3, <2>4, <3>1, ScanHandles
    <3> QED BY <3>1, <3>2
  <2> QED BY <2>2, <2>3, <2>4
<1>8. CASE PodWatchStarts \/ WatchOpens
  <2>1. UNCHANGED <<cand, scanned>> /\ \A n : Listed(n)' = {} BY <1>1, <1>8, NothingYet
  <2>2. FlagsInv' /\ early \subseteq early'
    <3>1. CASE WatchOpens BY <3>1, FlagsOpens
    <3>2. CASE PodWatchStarts
      <4>1. queue' = <<>> /\ early' = early
        BY <3>2 DEF PodWatchStarts, StateInv, QueueInv
      <4>2. Idx' = {} BY <4>1 DEF Idx
      <4> QED BY <4>1, <4>2 DEF FlagsInv, Queued
    <3> QED BY <1>8, <3>1, <3>2
  <2>3. ImageInv' BY <1>1, <2>1, <2>2 DEF ImageInv
  <2> QED BY <2>1, <2>2, <2>3 DEF Unscanned
<1> QED BY <1>5, <1>6, <1>7, <1>8, QuietCases

\* Until the first watch ends, over stateful sets, the image of a running pod that
\* is younger than the collector was scanned once the events are handled
\* (podwatch.go:211, 258), unless the image ran already when the watch was opened
\* (then its Added event lists the candidate with it, podwatch.go:105), or the
\* candidate counts fewer pods than its owner has young ones in the lists.
THEOREM StatefulImagesAreScanned ==
    ASSUME AllStateful
    PROVE  Spec => []RunningImagesScanned
<1>1. Init => ScanInv
  <2> SUFFICES ASSUME Init PROVE ScanInv OBVIOUS
  <2>1. Idx = {} /\ (\A p \in Pods : phase[p] # "running") /\ \A o \in Owners : cand[o].image = 0
    BY DEF Init, Idx
  <2> QED BY <2>1 DEF ScanInv, FlagsInv, ImageInv, Unscanned
<1>2. StateInv /\ SerialInv /\ ListInv /\ ScanInv /\ [Next]_vars => ScanInv' BY ScanStep
<1>3. StateInv /\ ScanInv => RunningImagesScanned
  <2> SUFFICES ASSUME StateInv, ScanInv, gaps = 0, Idle, NEW p \in Pods, NEW o, o = OwnerOf[p],
                      p \in ListedOf(o), phase[p] = "running",
                      cand[o].n = Cardinality(ListedOf(o)), <<o, image[p]>> \notin scanned \cup early
               PROVE  FALSE
    BY DEF RunningImagesScanned
  <2>1. Idx = {} BY DEF Idle, Idx
  <2>2. \A t, q : ~Queued(t, q) BY <2>1 DEF Queued
  <2>3. Unscanned(p) BY <2>2 DEF Unscanned, ListedOf
  <2>4. o \in Owners BY PodsAssumption
  <2>5. cand[o].n < Cardinality(Mine(o)) BY <2>3 DEF ScanInv
  <2>6. Cardinality(Mine(o)) <= Cardinality(ListedOf(o)) /\ Cardinality(ListedOf(o)) \in Nat
    <3>1. IsFiniteSet(ListedOf(o))
      <4>1. IsFiniteSet(Pods) /\ ListedOf(o) \subseteq Pods BY PodsAssumption DEF ListedOf
      <4> QED BY <4>1, FS_Subset
    <3>2. \A n \in Mine(o) : \E q \in ListedOf(o) : PodName[q] = n BY <2>2 DEF Mine, ListedOf, Shown, Counts
    <3>3. \A q \in ListedOf(o) : PodName[q] \in Mine(o)
      BY <2>2 DEF Mine, ListedOf, Names, Shown, Counts, Created, Live
    <3>4. [q \in ListedOf(o) |-> PodName[q]] \in Surjection(ListedOf(o), Mine(o))
      <4> HIDE DEF ListedOf, Mine
      <4> QED BY <3>2, <3>3 DEF Surjection
    <3> QED BY <3>1, <3>4, FS_Surjection, FS_CardinalityType
  <2>7. Cardinality(Mine(o)) \in Nat BY <2>4, MineFinite
  <2> QED BY <2>5, <2>6, <2>7
<1> QED BY <1>1, <1>2, <1>3, SerialAlways, PTL DEF Spec
==============================================================================
