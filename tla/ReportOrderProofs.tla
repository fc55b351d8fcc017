--------------------------- MODULE ReportOrderProofs ---------------------------
(***************************************************************************)
(* Proofs about the order of what ReportPipeline sends, for every set of   *)
(* watchers and any number of events: in a field with one writer the last  *)
(* entry of every list that is sent is newer than all that was sent there  *)
(* before, although a racing append brings entries back.                   *)
(***************************************************************************)
EXTENDS ReportPipelineProofs

(* Who writes a field, and what is behind it.  An entry is past for a field *)
(* if its writer reported it in an earlier event than any it has yet to     *)
(* put there.                                                               *)

Writer == [t \in SingleWriter |->
    CASE t = NODE -> "node" [] t = SERVICES -> "service" [] t = SECRETS -> "secret"
      [] t = NAMESPACES -> "namespace" [] t = PODS -> "pod"]
Pending(plan, t) == \E i \in 1..Len(plan) : plan[i].op = "add" /\ plan[i].jtype = t
Past(e, t, ev, plans) ==
    /\ e.by = Writer[t] /\ e.by \in Watchers /\ e.n \in Nat /\ e.n <= ev[e.by]
    /\ Pending(plans[e.by], t) => e.n < ev[e.by]
Rising(l) == \A a, b \in 1..Len(l) : a < b => l[a].n < l[b].n
Newer(l, m) == l # <<>> => \A a \in 1..Len(m) : m[a].n < l[Len(l)].n

\* A handler adds to a field once, and to that of its watcher.
PlanOnce(w, plan) ==
    /\ \A i, j \in 1..Len(plan) :
          plan[i].op = "add" /\ plan[j].op = "add" /\ plan[i].jtype = plan[j].jtype => i = j
    /\ \A i \in 1..Len(plan) :
          plan[i].op = "add" /\ plan[i].jtype \in SingleWriter => w = Writer[plan[i].jtype]
PlansOnce == \A w \in Watchers : PlanOnce(w, todo[w])

\* A field with one writer never points to a second object.
OneObject ==
    /\ \A t \in SingleWriter : Len(objs[t]) <= 1
    /\ \A w \in Watchers : wpc[w] = "alloc" /\ Head(todo[w]).jtype \in SingleWriter
           => objs[Head(todo[w]).jtype] = <<>>

\* A list was emptied in this round, after it was marshalled.
Cleared(t, s) ==
    \/ lpc \in {"decide", "send", "wait"}
    \/ lpc = "delete" /\ \E j \in 1..lj : DeleteOrder[j] = t /\ (j = lj => s < ls)

GoodThen(l, t, ev, plans) ==
    l \in Seq(Item) /\ Rising(l) /\ \A k \in 1..Len(l) : Past(l[k], t, ev, plans)
Good(l, t) == GoodThen(l, t, evt, todo)
Storing(w, t, s) == wpc[w] = "store" /\ Head(todo[w]) = Add(t, s)
ListsGood(t, s) ==
    /\ Good(Current(t, s), t) /\ Good(lrep.body[t][s], t)
    /\ \A i \in 1..Len(sent) : Good(sent[i].body[t][s], t)
    /\ \A w \in Watchers : Storing(w, t, s) => Good(header[w].list, t)
\* What is collected is news to what was sent; to the report in preparation it
\* is once the list was emptied.
ListsNewer(t, s) ==
    /\ \A i, j \in 1..Len(sent) : i < j => Newer(sent[j].body[t][s], sent[i].body[t][s])
    /\ \A i \in 1..Len(sent) : Newer(Current(t, s), sent[i].body[t][s])
    /\ lpc \notin {"wait", "copy"} => \A i \in 1..Len(sent) : Newer(lrep.body[t][s], sent[i].body[t][s])
    /\ Cleared(t, s) => Newer(Current(t, s), lrep.body[t][s])
ListInv == \A t \in SingleWriter, s \in StateType : ListsGood(t, s) /\ ListsNewer(t, s)
OrderInv == PlansOnce /\ OneObject /\ ListInv

-----------------------------------------------------------------------------
(* Plans.                                                                   *)

\* The fields with one writer.
LEMMA Fields ==
    /\ SingleWriter \subseteq JsonType
    /\ \A t \in SingleWriter : t = NODE \/ t = SERVICES \/ t = SECRETS \/ t = NAMESPACES \/ t = PODS
    /\ MICROSERVICES \notin SingleWriter
  BY DEF SingleWriter, JsonType, MICROSERVICES, NODE, SERVICES, SECRETS, NAMESPACES, PODS

\* Calls are told apart by their list.
LEMMA AddsDiffer ==
    ASSUME NEW t, NEW s, NEW u, NEW v
    PROVE  /\ Add(t, s) = Add(u, v) <=> t = u /\ s = v
           /\ Add(t, s).op = "add" /\ Add(t, s).jtype = t /\ Add(t, s).stype = s
           /\ Inform.op = "inform"
  BY DEF Add, Inform

\* Whoever writes a field but the pods' is the one it is named for.
LEMMA WriterOfType ==
    ASSUME NEW w \in AllWatchers, w \notin {"pod", "cronjob"}
    PROVE  TypeOf[w] \in SingleWriter /\ Writer[TypeOf[w]] = w
<1>1. TypeOf[w] \in {NODE, SERVICES, SECRETS, NAMESPACES}
  BY DEF AllWatchers, TypeOf
<1>2. TypeOf[w] \in SingleWriter
  BY <1>1 DEF SingleWriter, JsonType, MICROSERVICES, NODE, SERVICES, SECRETS, NAMESPACES
<1> QED BY <1>1, <1>2
        DEF AllWatchers, TypeOf, Writer, NODE, SERVICES, SECRETS, NAMESPACES, PODS

\* Every plan adds to a field once, and to its watcher's own.
LEMMA PlansAddOnce ==
    ASSUME NEW w \in AllWatchers, NEW s \in StateType, NEW plan \in Plans(w, s)
    PROVE  PlanOnce(w, plan)
<1>0. PODS \in SingleWriter /\ Writer[PODS] = "pod"
  BY DEF SingleWriter, JsonType, MICROSERVICES, PODS, Writer, NODE, SERVICES, SECRETS, NAMESPACES
<1>1. CASE w = "pod"
  <2>1. plan \in PodPlans(s) BY <1>1 DEF Plans
  <2>2. \/ plan = <<Add(MICROSERVICES, CREATED), Add(PODS, CREATED), Inform>>
        \/ plan = <<Add(PODS, CREATED), Inform>>
        \/ plan = <<Add(PODS, UPDATED), Inform>>
        \/ plan = <<Add(PODS, DELETED), Inform>>
        \/ plan = <<Add(PODS, DELETED), Add(MICROSERVICES, DELETED), Inform>>
    BY <2>1 DEF PodPlans, CREATED, UPDATED, DELETED, StateType
  <2>3. ASSUME NEW u, plan = <<Add(PODS, u), Inform>> PROVE PlanOnce(w, plan)
    <3>1. Len(plan) = 2 /\ plan[1] = Add(PODS, u) /\ plan[2] = Inform BY <2>3
    <3> QED BY <1>0, <1>1, <3>1, AddsDiffer DEF PlanOnce
  <2>4. ASSUME NEW u, NEW a, NEW b, plan = <<a, b, Inform>>,
               \/ a = Add(MICROSERVICES, u) /\ b = Add(PODS, u)
               \/ a = Add(PODS, u) /\ b = Add(MICROSERVICES, u)
        PROVE  PlanOnce(w, plan)
    <3>1. Len(plan) = 3 /\ plan[1] = a /\ plan[2] = b /\ plan[3] = Inform BY <2>4
    <3>2. a.op = "add" /\ b.op = "add" /\ a.jtype # b.jtype /\ Inform.op = "inform"
      BY <2>4, AddsDiffer DEF MICROSERVICES, PODS
    <3>3. \A k \in {a, b} : k.jtype \in SingleWriter => k.jtype = PODS
      BY <2>4, AddsDiffer, Fields
    <3> QED BY <1>0, <1>1, <3>1, <3>2, <3>3 DEF PlanOnce
  <2> QED BY <2>2, <2>3, <2>4
<1>2. CASE w = "cronjob"
  <2>1. plan = <<Add(MICROSERVICES, s), Inform>> BY <1>2 DEF Plans, CronJobPlan
  <2>2. Len(plan) = 2 /\ plan[1] = Add(MICROSERVICES, s) /\ plan[2] = Inform BY <2>1
  <2> QED BY <2>2, AddsDiffer, Fields DEF PlanOnce
<1>3. CASE w \notin {"pod", "cronjob"}
  <2>1. plan = <<Inform, Add(TypeOf[w], s)>> BY <1>3 DEF Plans, ResourcePlan
  <2>2. Len(plan) = 2 /\ plan[1] = Inform /\ plan[2] = Add(TypeOf[w], s) BY <2>1
  <2> QED BY <1>3, <2>2, AddsDiffer, WriterOfType DEF PlanOnce
<1> QED BY <1>1, <1>2, <1>3

\* The rest of such a plan is one, and adds no more to the field the first call
\* added to.
LEMMA RestOnce ==
    ASSUME NEW w, NEW plan \in Seq(Op), plan # <<>>, PlanOnce(w, plan)
    PROVE  /\ PlanOnce(w, Tail(plan))
           /\ \A i \in 1..Len(Tail(plan)) : /\ \E j \in 1..Len(plan) : plan[j] = Tail(plan)[i]
                                            /\ Head(plan).op = "add" /\ Tail(plan)[i].op = "add"
                                                   => Tail(plan)[i].jtype # Head(plan).jtype
<1> DEFINE rest == Tail(plan)
<1>1. /\ Len(rest) = Len(plan) - 1 /\ Head(plan) = plan[1] /\ Len(plan) \in Nat /\ 1 \in 1..Len(plan)
      /\ \A i \in 1..Len(rest) : i + 1 \in 1..Len(plan) /\ rest[i] = plan[i + 1]
  BY TailSeq
<1> HIDE DEF rest
<1>2. ASSUME NEW i \in 1..Len(rest), NEW j \in 1..Len(rest), rest[i].op = "add", rest[j].op = "add",
             rest[i].jtype = rest[j].jtype
      PROVE  i = j
  <2>1. /\ i + 1 \in 1..Len(plan) /\ plan[i + 1].op = "add"
        /\ j + 1 \in 1..Len(plan) /\ plan[j + 1].op = "add"
        /\ plan[i + 1].jtype = plan[j + 1].jtype
    BY <1>1, <1>2
  <2>2. i + 1 = j + 1 BY <2>1 DEF PlanOnce
  <2> QED BY <2>2
<1>3. ASSUME NEW i \in 1..Len(rest), Head(plan).op = "add", rest[i].op = "add"
      PROVE  rest[i].jtype # Head(plan).jtype
  <2> SUFFICES ASSUME rest[i].jtype = Head(plan).jtype PROVE FALSE OBVIOUS
  <2>1. i + 1 \in 1..Len(plan) /\ plan[i + 1].op = "add" /\ plan[1].op = "add"
        /\ plan[1].jtype = plan[i + 1].jtype
    BY <1>1, <1>3
  <2>2. 1 = i + 1 BY <1>1, <2>1 DEF PlanOnce
  <2> QED BY <2>2
<1>4. PlanOnce(w, rest) BY <1>1, <1>2 DEF PlanOnce
<1>5. \A i \in 1..Len(rest) : \E j \in 1..Len(plan) : plan[j] = rest[i] BY <1>1
<1> QED BY <1>3, <1>4, <1>5 DEF rest

\* What a step does to the plan of a watcher: nothing, a call is done, or a new
\* event brings a new one.
Advances(w) ==
    \/ evt'[w] = evt[w] /\ todo'[w] = todo[w]
    \/ evt'[w] = evt[w] /\ todo[w] # <<>> /\ todo'[w] = Tail(todo[w])
    \/ evt'[w] = evt[w] + 1 /\ \E s \in EventStates : todo'[w] \in Plans(w, s)

\* Every step does one of these.
LEMMA StepAdvances ==
    ASSUME TypeInv, [Next]_vars, NEW v \in Watchers
    PROVE  Advances(v)
<1>0. todo \in [Watchers -> Seq(Op)] /\ evt \in [Watchers -> Nat]
  BY DEF TypeInv, TypeOK, WatcherTypes
<1>1. ASSUME NEW w \in Watchers, WatcherStep(w) \/ Event(w) PROVE Advances(v)
  <2>1. CASE Event(w)
    <3>1. PICK s \in EventStates : \E plan \in Plans(w, s) : todo' = [todo EXCEPT ![w] = plan]
      BY <2>1 DEF Event
    <3>2. PICK plan \in Plans(w, s) : todo' = [todo EXCEPT ![w] = plan] BY <3>1
    <3>3. evt' = [evt EXCEPT ![w] = @ + 1] BY <2>1 DEF Event
    <3> QED BY <1>0, <3>2, <3>3 DEF Advances
  <2>2. CASE AddWrites(w) \/ InformSkipped(w)
    <3>1. todo[w] # <<>> /\ CallDone(w) /\ evt' = evt
      BY <2>2 DEF AddWrites, InformSkipped, Calls, TypeInv, TypeOK, InCall
    <3> QED BY <1>0, <3>1 DEF CallDone, Advances
  <2>3. CASE ~(AddWrites(w) \/ InformSkipped(w) \/ Event(w))
    BY <1>1, <2>3 DEF WatcherStep, GetClusterVersion, AddFindsNil, AddAllocates, AddReads, InformBlocks,
       Advances
  <2> QED BY <2>1, <2>2, <2>3
<1>2. CASE TakeInform
  <2>1. informQ \in Seq(Watchers) /\ informQ # <<>> BY <1>2 DEF TakeInform, TypeInv, TypeOK, SharedTypes
  <2>2. PICK w \in Watchers : w = Head(informQ) BY <2>1, TailSeq
  <2>3. DOMAIN informQ = 1..Len(informQ) /\ 1 \in 1..Len(informQ) /\ w = informQ[1]
    BY <2>1, <2>2, TailSeq
  <2>4. todo[w] # <<>> BY <2>3 DEF TypeInv, TypeOK, QueueInv, InCall
  <2>5. CallDone(w) /\ evt' = evt BY <1>2, <2>2 DEF TakeInform
  <2> QED BY <1>0, <2>4, <2>5 DEF CallDone, Advances
<1>3. CASE ListenerStep /\ ~TakeInform
  BY <1>3 DEF ListenerStep, PrepareCopies, PrepareChecks, DropEmpty, Marshal, DeleteData, Decide,
     SendReport, watcher, Advances
<1>4. CASE UNCHANGED vars
  BY <1>4 DEF vars, watcher, Advances
<1> QED BY <1>1, <1>2, <1>3, <1>4 DEF Next

\* Plans stay as they must be.
LEMMA PlansStay ==
    ASSUME TypeInv, PlansOnce, [Next]_vars
    PROVE  PlansOnce'
<1> SUFFICES ASSUME NEW w \in Watchers PROVE PlanOnce(w, todo'[w]) BY DEF PlansOnce, PlanOnce
<1>1. Advances(w) BY StepAdvances
<1>2. todo[w] \in Seq(Op) /\ PlanOnce(w, todo[w]) BY DEF TypeInv, TypeOK, WatcherTypes, PlansOnce
<1>3. CASE todo'[w] = todo[w] BY <1>2, <1>3
<1>4. CASE todo[w] # <<>> /\ todo'[w] = Tail(todo[w]) BY <1>2, <1>4, RestOnce
<1>5. CASE \E s \in EventStates : todo'[w] \in Plans(w, s)
  BY <1>5, PlansAddOnce, WatchersAssumption, EventStatesAssumption
<1> QED BY <1>1, <1>3, <1>4, <1>5 DEF Advances

\* What is past stays past: a new event is newer than all before it.
LEMMA GoodStays ==
    ASSUME TypeInv, PlansOnce, [Next]_vars, NEW t \in SingleWriter
    PROVE  \A l : GoodThen(l, t, evt, todo) => GoodThen(l, t, evt', todo')
<1> SUFFICES ASSUME NEW e, Past(e, t, evt, todo) PROVE Past(e, t, evt', todo')
  BY DEF GoodThen
<1>1. PICK w \in Watchers : w = e.by BY DEF Past
<1>2. Advances(w) BY StepAdvances
<1>3. todo[w] \in Seq(Op) /\ PlanOnce(w, todo[w]) /\ evt[w] \in Nat
  BY DEF TypeInv, TypeOK, WatcherTypes, PlansOnce
<1>4. w = Writer[t] /\ e.n \in Nat /\ e.n <= evt[w] /\ (Pending(todo[w], t) => e.n < evt[w])
  BY <1>1 DEF Past
<1>5. CASE evt'[w] = evt[w] /\ todo'[w] = todo[w]
  BY <1>1, <1>4, <1>5 DEF Past
<1>6. CASE evt'[w] = evt[w] /\ todo[w] # <<>> /\ todo'[w] = Tail(todo[w])
  <2>1. Pending(todo'[w], t) => Pending(todo[w], t) BY <1>3, <1>6, RestOnce DEF Pending
  <2> QED BY <1>1, <1>4, <1>6, <2>1 DEF Past
<1>7. CASE evt'[w] = evt[w] + 1
  BY <1>1, <1>3, <1>4, <1>7 DEF Past
<1> QED BY <1>2, <1>5, <1>6, <1>7 DEF Advances

-----------------------------------------------------------------------------
(* One object.                                                              *)

\* What a field with one writer holds.
LEMMA CurrentOne ==
    ASSUME TypeInv, OneObject, NEW t \in SingleWriter, NEW s \in StateType
    PROVE  /\ Current(t, s) \in Seq(Item) /\ objs[t] \in Seq(ObjectData)
           /\ objs[t] = <<>> => Current(t, s) = <<>>
           /\ objs[t] # <<>> => /\ Len(objs[t]) = 1 /\ objs[t][1] \in ObjectData
                                /\ Current(t, s) = objs[t][1][s]
<1>1. objs[t] \in Seq(ObjectData) /\ Len(objs[t]) <= 1
  BY Fields DEF TypeInv, TypeOK, SharedTypes, OneObject
<1>2. CASE objs[t] = <<>> BY <1>1, <1>2 DEF Current
<1>3. CASE objs[t] # <<>>
  <2>1. Len(objs[t]) \in Nat /\ Len(objs[t]) >= 1 /\ objs[t][1] \in ObjectData BY <1>1, <1>3, TailSeq
  <2>2. Len(objs[t]) = 1
    <3>1. PICK n \in Nat : n = Len(objs[t]) BY <2>1
    <3>2. n <= 1 /\ n >= 1 BY <1>1, <2>1, <3>1
    <3>3. n = 1 BY <3>2
    <3> QED BY <3>1, <3>3, Zenon
  <2> QED BY <1>1, <1>3, <2>1, <2>2 DEF Current, ObjectData
<1> QED BY <1>2, <1>3

\* Whoever is at a call to add has it at the head of its plan, and is the writer
\* of the field.
LEMMA AddingOwn ==
    ASSUME TypeInv, PlansOnce, NEW w \in Watchers,
           Calls(w, "add") \/ wpc[w] \in {"alloc", "store"}
    PROVE  /\ todo[w] \in Seq(Op) /\ todo[w] # <<>> /\ Head(todo[w]).op = "add"
           /\ Head(todo[w]).jtype \in JsonType /\ Head(todo[w]).stype \in StateType
           /\ Head(todo[w]) = Add(Head(todo[w]).jtype, Head(todo[w]).stype)
           /\ Head(todo[w]).jtype \in SingleWriter => w = Writer[Head(todo[w]).jtype]
<1>1. todo[w] \in Seq(Op) /\ todo[w] # <<>> /\ Head(todo[w]).op = "add"
  BY DEF Calls, TypeInv, TypeOK, WatcherTypes, InCall
<1>2. Head(todo[w]).jtype \in JsonType /\ Head(todo[w]).stype \in StateType /\ Head(todo[w]) \in Op
  BY <1>1, CallTyped DEF TypeInv, TypeOK
<1>3. Head(todo[w]) = todo[w][1] /\ 1 \in 1..Len(todo[w]) BY <1>1, TailSeq
<1>4. PlanOnce(w, todo[w]) BY DEF PlansOnce
<1>5. Head(todo[w]).jtype \in SingleWriter => w = Writer[Head(todo[w]).jtype]
  BY <1>1, <1>3, <1>4 DEF PlanOnce
<1>6. Head(todo[w]) = Add(Head(todo[w]).jtype, Head(todo[w]).stype)
  BY <1>1, <1>2 DEF Op, Inform, Add
<1> QED BY <1>1, <1>2, <1>5, <1>6

\* A watcher's step leaves the others where they are.
LEMMA OthersStay ==
    ASSUME TypeInv, NEW w \in Watchers, WatcherStep(w) \/ Event(w), NEW v \in Watchers, v # w
    PROVE  wpc'[v] = wpc[v] /\ todo'[v] = todo[v] /\ header'[v] = header[v] /\ evt'[v] = evt[v]
  BY DEF WatcherStep, GetClusterVersion, AddFindsNil, AddAllocates, AddReads, AddWrites, InformSkipped,
     InformBlocks, Event, Goto, CallDone, TypeInv, TypeOK, WatcherTypes

\* Only an allocation adds an object, and it finds none.
LEMMA ObjectsStay ==
    ASSUME TypeInv, PlansOnce, OneObject, [Next]_vars
    PROVE  OneObject'
<1>0. TypeInv' BY NextTyped
<1>1. objs \in [JsonType -> Seq(ObjectData)] /\ objs' \in [JsonType -> Seq(ObjectData)]
  BY <1>0 DEF TypeInv, TypeOK, SharedTypes
<1>2. ASSUME NEW w \in Watchers, AddAllocates(w) PROVE OneObject'
  <2>1. PICK u \in JsonType : u = Head(todo[w]).jtype
    BY <1>2, AddingOwn DEF AddAllocates
  <2>2. /\ objs' = [objs EXCEPT ![u] = Append(objs[u], EmptyObjectData)] /\ todo' = todo
        /\ wpc[w] = "alloc" /\ wpc' = [wpc EXCEPT ![w] = "run"]
        /\ (u \in SingleWriter => w = Writer[u] /\ objs[u] = <<>>)
    BY <1>2, <2>1, AddingOwn DEF AddAllocates, Goto, OneObject
  <2>3. u \in SingleWriter => Len(objs'[u]) <= 1
    <3> SUFFICES ASSUME u \in SingleWriter PROVE Len(objs'[u]) <= 1 OBVIOUS
    <3>1. objs'[u] = Append(<<>>, EmptyObjectData) BY <1>1, <2>2
    <3> QED BY <3>1
  <2>4. \A t \in SingleWriter : Len(objs'[t]) <= 1
    <3> SUFFICES ASSUME NEW t \in SingleWriter PROVE Len(objs'[t]) <= 1 OBVIOUS
    <3>1. CASE t = u BY <2>3, <3>1
    <3>2. CASE t # u
      <4>1. objs'[t] = objs[t] BY <1>1, <2>2, <3>2, Fields
      <4> QED BY <4>1 DEF OneObject
    <3> QED BY <3>1, <3>2
  <2>5. ASSUME NEW v \in Watchers, wpc'[v] = "alloc", Head(todo[v]).jtype \in SingleWriter
        PROVE  objs'[Head(todo[v]).jtype] = <<>>
    <3>1. v # w /\ wpc[v] = "alloc" BY <2>2, <2>5 DEF TypeInv, TypeOK, WatcherTypes
    <3>2. Head(todo[v]).jtype # u BY <2>2, <2>5, <3>1, AddingOwn
    <3>3. objs[Head(todo[v]).jtype] = <<>> BY <2>5, <3>1 DEF OneObject
    <3> QED BY <1>1, <2>2, <2>5, <3>2, <3>3, Fields
  <2> QED BY <2>2, <2>4, <2>5 DEF OneObject
<1>3. CASE DeleteData
  <2>1. \A t \in JsonType : Len(objs'[t]) = Len(objs[t]) BY <1>3, DeleteDataObjs
  <2>2. \A t \in SingleWriter : objs'[t] \in Seq(ObjectData) /\ objs[t] \in Seq(ObjectData) BY <1>1, Fields
  <2>3. \A t \in SingleWriter : objs[t] = <<>> => objs'[t] = <<>> BY <2>1, <2>2, Fields
  <2>4. wpc' = wpc /\ todo' = todo BY <1>3 DEF DeleteData, watcher
  <2> QED BY <2>1, <2>3, <2>4, Fields DEF OneObject
<1>4. ASSUME NEW w \in Watchers, AddWrites(w) PROVE OneObject'
  <2> DEFINE u == Head(todo[w]).jtype
             obj == AddToJsonFormatByState(objs[u][header[w].obj], Head(todo[w]).stype,
                        header[w].list, [by |-> w, n |-> evt[w]])
  <2>0. u \in JsonType /\ objs' = [objs EXCEPT ![u][header[w].obj] = obj]
    BY <1>4, AddingOwn DEF AddWrites
  <2>1. \A t \in JsonType : Len(objs'[t]) = Len(objs[t])
    <3> HIDE DEF u, obj
    <3> SUFFICES ASSUME NEW t \in JsonType PROVE Len(objs'[t]) = Len(objs[t]) OBVIOUS
    <3>1. CASE t = u
      <4>1. objs'[u] = [objs[u] EXCEPT ![header[w].obj] = obj] /\ objs[u] \in Seq(ObjectData)
            /\ objs'[u] \in Seq(ObjectData)
        BY <1>1, <2>0
      <4>2. DOMAIN objs'[u] = DOMAIN objs[u] BY <4>1
      <4> QED BY <3>1, <4>1, <4>2
    <3>2. CASE t # u BY <1>1, <2>0, <3>2
    <3> QED BY <3>1, <3>2
  <2>2. \A t \in SingleWriter : objs'[t] \in Seq(ObjectData) /\ objs[t] \in Seq(ObjectData) BY <1>1, Fields
  <2>3. \A t \in SingleWriter : objs[t] = <<>> => objs'[t] = <<>> BY <2>1, <2>2, Fields
  <2>4. \A v \in Watchers : wpc'[v] = "alloc" => wpc[v] = "alloc" /\ todo'[v] = todo[v]
    <3> SUFFICES ASSUME NEW v \in Watchers, wpc'[v] = "alloc" PROVE wpc[v] = "alloc" /\ todo'[v] = todo[v]
      OBVIOUS
    <3>1. CASE v # w BY <1>4, <3>1, OthersStay DEF WatcherStep
    <3>2. CASE v = w BY <1>4, <3>2 DEF AddWrites, Goto, AfterCall, TypeInv, TypeOK, WatcherTypes
    <3> QED BY <3>1, <3>2
  <2> QED BY <2>1, <2>3, <2>4, Fields DEF OneObject
<1>5. ASSUME NEW w \in Watchers, WatcherStep(w) \/ Event(w), ~AddAllocates(w), ~AddWrites(w)
      PROVE  OneObject'
  <2>1. objs' = objs
    BY <1>5 DEF WatcherStep, GetClusterVersion, AddFindsNil, AddReads, InformSkipped, InformBlocks, Event
  <2>2. ASSUME NEW v \in Watchers, wpc'[v] = "alloc", Head(todo'[v]).jtype \in SingleWriter
        PROVE  objs[Head(todo'[v]).jtype] = <<>>
    <3>1. CASE v # w BY <1>5, <2>2, <3>1, OthersStay DEF OneObject
    <3>2. CASE v = w
      <4>1. AddFindsNil(w)
        BY <1>5, <2>2, <3>2 DEF WatcherStep, GetClusterVersion, AddFindsNil, AddReads, InformSkipped,
           InformBlocks, Event, Goto, AfterCall, TypeInv, TypeOK, WatcherTypes
      <4> QED BY <3>2, <4>1 DEF AddFindsNil
    <3> QED BY <3>1, <3>2
  <2> QED BY <2>1, <2>2 DEF OneObject
<1>6. CASE TakeInform
  <2>1. informQ \in Seq(Watchers) /\ informQ # <<>> BY <1>6 DEF TakeInform, TypeInv, TypeOK, SharedTypes
  <2>2. PICK w \in Watchers : w = Head(informQ) BY <2>1, TailSeq
  <2>3. objs' = objs /\ wpc' = [wpc EXCEPT ![w] = AfterCall(w)] /\ todo' = [todo EXCEPT ![w] = Tail(@)]
    BY <1>6, <2>2 DEF TakeInform, Goto, CallDone
  <2>4. wpc'[w] # "alloc" /\ \A v \in Watchers : v # w => wpc'[v] = wpc[v] /\ todo'[v] = todo[v]
    BY <2>3 DEF AfterCall, TypeInv, TypeOK, WatcherTypes
  <2> QED BY <2>3, <2>4 DEF OneObject
<1>7. CASE ListenerStep /\ ~DeleteData /\ ~TakeInform
  <2>1. UNCHANGED <<objs, wpc, todo>>
    BY <1>7 DEF ListenerStep, PrepareCopies, PrepareChecks, DropEmpty, Marshal, Decide, SendReport, watcher
  <2> QED BY <2>1 DEF OneObject
<1>8. CASE UNCHANGED vars
  BY <1>8 DEF vars, watcher, OneObject
<1> QED BY <1>2, <1>3, <1>4, <1>5, <1>6, <1>7, <1>8 DEF Next


-----------------------------------------------------------------------------
(* What the steps do to the lists of a field with one writer.               *)

\* Nothing is in an empty list.
LEMMA EmptyIsGood ==
    ASSUME NEW t, NEW ev, NEW plans, NEW l
    PROVE  GoodThen(<<>>, t, ev, plans) /\ Newer(<<>>, l) /\ Newer(l, <<>>)
  BY DEF GoodThen, Rising, Newer

\* Lists stay good where they are kept, moved, or dropped.
LEMMA GoodKept ==
    ASSUME TypeInv, PlansOnce, [Next]_vars, NEW t \in SingleWriter, NEW s \in StateType, ListsGood(t, s),
           \/ Current(t, s)' = Current(t, s) \/ Current(t, s)' = <<>> \/ Good(Current(t, s), t)',
           lrep'.body[t][s] \in {lrep.body[t][s], Current(t, s), <<>>},
           sent' = sent \/ sent' = Append(sent, lrep),
           \A w \in Watchers : Storing(w, t, s)' =>
               \/ Storing(w, t, s) /\ header'[w] = header[w]
               \/ header'[w].list = Current(t, s)
    PROVE  ListsGood(t, s)'
<1>1. \A l : GoodThen(l, t, evt, todo) => GoodThen(l, t, evt', todo') BY GoodStays
<1>2. GoodThen(Current(t, s), t, evt', todo') /\ GoodThen(lrep.body[t][s], t, evt', todo')
  BY <1>1 DEF ListsGood, Good
<1>3. GoodThen(Current(t, s)', t, evt', todo') BY <1>2, EmptyIsGood DEF Good
<1>4. GoodThen(lrep'.body[t][s], t, evt', todo') BY <1>2, EmptyIsGood
<1>5. \A i \in 1..Len(sent') : GoodThen(sent'[i].body[t][s], t, evt', todo')
  <2> SUFFICES ASSUME NEW i \in 1..Len(sent') PROVE GoodThen(sent'[i].body[t][s], t, evt', todo')
    OBVIOUS
  <2>1. sent \in Seq(Report) /\ lrep \in Report BY DEF TypeInv, TypeOK, ListenerTypes
  <2>2. CASE sent' = Append(sent, lrep)
    <3>1. Len(sent') = Len(sent) + 1 /\ Len(sent) \in Nat /\ sent'[Len(sent) + 1] = lrep
          /\ \A k \in 1..Len(sent) : sent'[k] = sent[k]
      BY <2>1, <2>2, AppendSeq
    <3>2. CASE i \in 1..Len(sent) BY <1>1, <3>1, <3>2 DEF ListsGood, Good
    <3>3. CASE i = Len(sent) + 1 BY <1>2, <3>1, <3>3
    <3> QED BY <3>1, <3>2, <3>3
  <2>3. CASE sent' = sent BY <1>1, <2>3 DEF ListsGood, Good
  <2> QED BY <2>2, <2>3
<1>6. ASSUME NEW w \in Watchers, Storing(w, t, s)' PROVE GoodThen(header'[w].list, t, evt', todo')
  BY <1>1, <1>2, <1>6 DEF ListsGood, Good
<1> QED BY <1>3, <1>4, <1>5, <1>6 DEF ListsGood, Good

\* They stay news where they are kept or dropped, or marshalled.
LEMMA NewerKept ==
    ASSUME NEW t \in SingleWriter, NEW s \in StateType, ListsNewer(t, s), sent' = sent,
           Current(t, s)' = Current(t, s) \/ Current(t, s)' = <<>>,
           lpc' \notin {"wait", "copy"} =>
               \/ lpc \notin {"wait", "copy"} /\ lrep'.body[t][s] = lrep.body[t][s]
               \/ lrep'.body[t][s] \in {Current(t, s), <<>>},
           Cleared(t, s)' =>
               \/ Current(t, s)' = <<>>
               \/ Cleared(t, s) /\ lrep'.body[t][s] = lrep.body[t][s]
    PROVE  ListsNewer(t, s)'
<1>1. \A i \in 1..Len(sent) : Newer(Current(t, s)', sent[i].body[t][s])
  BY EmptyIsGood DEF ListsNewer
<1>2. lpc' \notin {"wait", "copy"} => \A i \in 1..Len(sent) : Newer(lrep'.body[t][s], sent[i].body[t][s])
  BY EmptyIsGood DEF ListsNewer
<1>3. Cleared(t, s)' => Newer(Current(t, s)', lrep'.body[t][s])
  BY EmptyIsGood DEF ListsNewer
<1> QED BY <1>1, <1>2, <1>3 DEF ListsNewer, Newer

\* A store replaces the list by the one that was read, and one entry more.
LEMMA StoreAppends ==
    ASSUME TypeInv, PlansOnce, OneObject, NEW w \in Watchers, AddWrites(w),
           NEW t \in SingleWriter, NEW s \in StateType
    PROVE  /\ Storing(w, t, s) => Current(t, s)' = Append(header[w].list, [by |-> w, n |-> evt[w]])
           /\ ~Storing(w, t, s) => Current(t, s)' = Current(t, s)
<1> DEFINE it == [by |-> w, n |-> evt[w]]
<1>0. PICK u \in JsonType, v \in StateType : Head(todo[w]) = Add(u, v)
  BY AddingOwn DEF AddWrites
<1>1. /\ wpc[w] = "store" /\ Head(todo[w]).jtype = u /\ Head(todo[w]).stype = v
      /\ header[w].obj \in 1..Len(objs[u]) /\ header[w].list \in Seq(Item) /\ it \in Item
      /\ objs \in [JsonType -> Seq(ObjectData)] /\ t \in JsonType
  <2>1. Head(todo[w]).jtype = u /\ Head(todo[w]).stype = v BY <1>0, AddsDiffer
  <2>2. evt[w] \in Nat /\ w \in AllWatchers BY WatchersAssumption DEF TypeInv, TypeOK, WatcherTypes
  <2>3. wpc[w] = "store" BY DEF AddWrites
  <2>4. header[w].obj \in 1..Len(objs[u]) BY <2>1, <2>3 DEF TypeInv, TypeOK, InCall
  <2> QED BY <2>1, <2>2, <2>3, <2>4, Fields DEF TypeInv, TypeOK, WatcherTypes, SharedTypes, Item
<1>2. Storing(w, t, s) <=> u = t /\ v = s
  BY <1>0, <1>1, AddsDiffer DEF Storing
<1> DEFINE o == header[w].obj
           obj == AddToJsonFormatByState(objs[u][o], v, header[w].list, it)
<1>3. objs' = [objs EXCEPT ![u] = [objs[u] EXCEPT ![o] = obj]]
  BY <1>1 DEF AddWrites
<1>4. CASE u # t
  <2>1. objs'[t] = objs[t] BY <1>1, <1>3, <1>4
  <2> QED BY <1>2, <1>4, <2>1 DEF Current
<1>5. CASE u = t
  <2>1. objs[t] # <<>> /\ o = 1 /\ Len(objs[t]) = 1 /\ objs[t][1] \in ObjectData
        /\ Current(t, s) = objs[t][1][s]
    <3>1. objs[t] # <<>> BY <1>1, <1>5
    <3>2. Len(objs[t]) = 1 /\ objs[t][1] \in ObjectData /\ Current(t, s) = objs[t][1][s]
      BY <3>1, CurrentOne
    <3> QED BY <1>1, <1>5, <3>1, <3>2
  <2>2. obj \in ObjectData /\ obj[s] = IF s = v THEN Append(header[w].list, it) ELSE objs[t][1][s]
    <3>1. Append(header[w].list, it) \in Seq(Item) BY <1>1, AppendSeq
    <3> HIDE DEF it
    <3> QED BY <1>5, <2>1, <3>1 DEF AddToJsonFormatByState, ObjectData
  <2> HIDE DEF obj
  <2>3. objs'[t] = [objs[t] EXCEPT ![1] = obj] BY <1>1, <1>3, <1>5, <2>1
  <2>4. objs[t] \in Seq(ObjectData) /\ 1 \in 1..Len(objs[t]) BY <1>1, <2>1
  <2>5. Len(objs'[t]) = 1 /\ objs'[t][1] = obj BY <2>1, <2>2, <2>3, <2>4, ReplacedSeq
  <2>6. objs'[t] # <<>> BY <2>5
  <2>7. Current(t, s)' = obj[s] BY <2>5, <2>6 DEF Current
  <2> QED BY <1>2, <1>5, <2>1, <2>2, <2>7
<1> QED BY <1>4, <1>5

\* A store by the writer keeps the lists: its entry is the newest of the field.
LEMMA StoreKeeps ==
    ASSUME TypeInv, PlansOnce, OneObject, NEW w \in Watchers, AddWrites(w),
           NEW t \in SingleWriter, NEW s \in StateType, Storing(w, t, s),
           ListsGood(t, s), ListsNewer(t, s)
    PROVE  ListsGood(t, s)' /\ ListsNewer(t, s)'
<1> DEFINE it == [by |-> w, n |-> evt[w]]
<1> DEFINE h == header[w].list
<1>0. [Next]_vars BY DEF Next, WatcherStep
<1>1. /\ todo[w] \in Seq(Op) /\ todo[w] # <<>> /\ Head(todo[w]) = Add(t, s) /\ Head(todo[w]).op = "add"
      /\ w = Writer[t] /\ evt[w] \in Nat /\ PlanOnce(w, todo[w])
  <2>1. wpc[w] = "store" /\ Head(todo[w]) = Add(t, s) BY DEF Storing
  <2>2. Head(todo[w]).jtype = t BY <2>1, AddsDiffer
  <2>3. todo[w] \in Seq(Op) /\ todo[w] # <<>> /\ Head(todo[w]).op = "add" /\ w = Writer[t]
    BY <2>1, <2>2, AddingOwn
  <2>4. evt[w] \in Nat /\ PlanOnce(w, todo[w])
    BY DEF PlansOnce, TypeInv, TypeOK, WatcherTypes
  <2> QED BY <2>1, <2>3, <2>4
<1>2. Pending(todo[w], t)
  <2>1. todo[w][1] = Add(t, s) /\ 1 \in 1..Len(todo[w]) BY <1>1, TailSeq
  <2> QED BY <2>1, AddsDiffer DEF Pending
<1>3. UNCHANGED <<lpc, lj, ls, lrep, sent>> /\ evt' = evt /\ todo'[w] = Tail(todo[w])
      /\ wpc'[w] # "store"
  BY DEF AddWrites, listener, CallDone, Goto, AfterCall, TypeInv, TypeOK, WatcherTypes
<1>4. ~Pending(todo'[w], t)
  <2>1. Head(todo[w]).jtype = t BY <1>1, AddsDiffer
  <2>2. \A i \in 1..Len(Tail(todo[w])) : Tail(todo[w])[i].op = "add" => Tail(todo[w])[i].jtype # t
    BY <1>1, <2>1, RestOnce
  <2> QED BY <1>3, <2>2 DEF Pending
<1>5. Past(it, t, evt', todo')
  BY <1>1, <1>3, <1>4 DEF Past
<1>6. ASSUME NEW l, Good(l, t) PROVE \A k \in 1..Len(l) : l[k].n < it.n /\ l[k].n \in Nat
  BY <1>1, <1>2, <1>6 DEF Good, GoodThen, Past
<1>7. Good(h, t) BY DEF ListsGood
<1>8. GoodThen(h, t, evt', todo') BY <1>0, <1>7, GoodStays DEF Good
<1>9. Current(t, s)' = Append(h, it) BY StoreAppends
<1>10. it \in Item /\ h \in Seq(Item)
  BY <1>1, <1>7, WatchersAssumption DEF Good, GoodThen, Item
<1> HIDE DEF h
<1>11. /\ Append(h, it) \in Seq(Item) /\ Append(h, it) # <<>> /\ Len(Append(h, it)) = Len(h) + 1
       /\ Len(h) \in Nat /\ Append(h, it)[Len(h) + 1] = it
       /\ \A i \in 1..Len(h) : Append(h, it)[i] = h[i]
  <2> HIDE DEF it
  <2> QED BY <1>10, AppendSeq
<1> DEFINE new == Append(h, it)
<1> HIDE DEF new, it
<1>12. new \in Seq(Item) /\ new # <<>> /\ Len(new) = Len(h) + 1 /\ Len(h) \in Nat
       /\ new[Len(h) + 1] = it /\ (\A i \in 1..Len(h) : new[i] = h[i]) /\ Current(t, s)' = new
  BY <1>9, <1>11 DEF new
<1>13. Rising(new)
  <2> SUFFICES ASSUME NEW a \in 1..Len(new), NEW b \in 1..Len(new), a < b PROVE new[a].n < new[b].n
    BY DEF Rising
  <2>1. a \in 1..Len(h) /\ new[a] = h[a] BY <1>12
  <2>2. CASE b = Len(h) + 1
    <3>1. new[b] = it BY <1>12, <2>2
    <3>2. h[a].n < it.n BY <1>6, <1>7, <2>1
    <3> QED BY <2>1, <3>1, <3>2
  <2>3. CASE b # Len(h) + 1
    <3>1. b \in 1..Len(h) /\ new[b] = h[b] BY <1>12, <2>3
    <3> QED BY <1>7, <2>1, <3>1 DEF Good, GoodThen, Rising
  <2> QED BY <2>2, <2>3
<1>14. \A k \in 1..Len(new) : Past(new[k], t, evt', todo')
  <2> SUFFICES ASSUME NEW k \in 1..Len(new) PROVE Past(new[k], t, evt', todo') OBVIOUS
  <2>1. CASE k = Len(h) + 1 BY <1>5, <1>12, <2>1
  <2>2. CASE k # Len(h) + 1
    <3>1. k \in 1..Len(h) /\ new[k] = h[k] BY <1>12, <2>2
    <3> QED BY <1>8, <3>1 DEF GoodThen
  <2> QED BY <2>1, <2>2
<1>15. Good(Current(t, s), t)'
  BY <1>12, <1>13, <1>14 DEF Good, GoodThen
<1>16. ListsGood(t, s)'
  <2>1. \A v \in Watchers : Storing(v, t, s)' => Storing(v, t, s) /\ header'[v] = header[v]
    <3> SUFFICES ASSUME NEW v \in Watchers, Storing(v, t, s)'
                 PROVE  Storing(v, t, s) /\ header'[v] = header[v]
      OBVIOUS
    <3>1. v # w BY <1>3 DEF Storing
    <3> QED BY <3>1, OthersStay DEF Storing, WatcherStep
  <2> QED BY <1>0, <1>3, <1>15, <2>1, GoodKept
<1>17. ASSUME NEW l, Good(l, t) PROVE Newer(new, l)
  <2>1. \A k \in 1..Len(l) : l[k].n < it.n BY <1>6, <1>17
  <2>2. new[Len(new)] = it BY <1>12
  <2> QED BY <2>1, <2>2 DEF Newer
<1>18. ListsNewer(t, s)'
  <2>1. \A i \in 1..Len(sent) : Newer(new, sent[i].body[t][s]) BY <1>17 DEF ListsGood
  <2>2. Newer(new, lrep.body[t][s]) BY <1>17 DEF ListsGood
  <2> QED BY <1>3, <1>12, <2>1, <2>2 DEF ListsNewer
<1> QED BY <1>16, <1>18

\* Only a store changes what a field with one writer holds.
LEMMA CurrentStays ==
    ASSUME TypeInv, PlansOnce, OneObject, NEW w \in Watchers, WatcherStep(w) \/ Event(w),
           NEW t \in SingleWriter, NEW s \in StateType, ~(AddWrites(w) /\ Storing(w, t, s))
    PROVE  Current(t, s)' = Current(t, s)
<1>1. CASE AddWrites(w) BY <1>1, StoreAppends
<1>2. CASE AddAllocates(w)
  <2>1. PICK u \in JsonType : u = Head(todo[w]).jtype BY <1>2, AddingOwn DEF AddAllocates
  <2>2. /\ objs' = [objs EXCEPT ![u] = Append(objs[u], EmptyObjectData)]
        /\ (u \in SingleWriter => objs[u] = <<>>)
    BY <1>2, <2>1 DEF AddAllocates, OneObject
  <2>3. objs \in [JsonType -> Seq(ObjectData)] BY DEF TypeInv, TypeOK, SharedTypes
  <2>4. CASE t # u
    <3>1. objs'[t] = objs[t] BY <2>2, <2>3, <2>4, Fields
    <3> QED BY <3>1 DEF Current
  <2>5. CASE t = u
    <3>1. objs'[t] = Append(objs[t], EmptyObjectData) /\ objs[t] \in Seq(ObjectData)
      BY <2>2, <2>3, <2>5
    <3>2. objs'[t] # <<>> /\ objs'[t][Len(objs'[t])] = EmptyObjectData BY <3>1, EmptyAppended
    <3>3. Current(t, s)' = <<>> BY <3>2 DEF Current, EmptyObjectData
    <3>4. Current(t, s) = <<>> BY <2>2, <2>5 DEF Current
    <3> QED BY <3>3, <3>4
  <2> QED BY <2>4, <2>5
<1>3. CASE ~(AddWrites(w) \/ AddAllocates(w))
  <2>1. objs' = objs
    BY <1>3 DEF WatcherStep, GetClusterVersion, AddFindsNil, AddReads, InformSkipped, InformBlocks, Event
  <2> QED BY <2>1 DEF Current
<1> QED BY <1>1, <1>2, <1>3

\* A watcher starts a store by reading the list it is going to replace.
LEMMA StoreStarts ==
    ASSUME TypeInv, NEW w \in Watchers, WatcherStep(w) \/ Event(w), NEW t, NEW s, Storing(w, t, s)'
    PROVE  AddReads(w) /\ header'[w].list = Current(t, s)
<1>1. AddReads(w)
  BY DEF WatcherStep, GetClusterVersion, AddFindsNil, AddAllocates, AddReads, AddWrites, InformSkipped,
     InformBlocks, Event, Storing, Goto, AfterCall, TypeInv, TypeOK, WatcherTypes
<1>2. Head(todo[w]) = Add(t, s) BY <1>1 DEF Storing, AddReads
<1>3. Head(todo[w]).jtype = t /\ Head(todo[w]).stype = s BY <1>2, AddsDiffer
<1>4. header'[w].list = Current(t, s)
  BY <1>1, <1>3 DEF AddReads, Current, TypeInv, TypeOK, WatcherTypes
<1> QED BY <1>1, <1>4

\* Every step of a watcher keeps the lists.
LEMMA WatcherKeepsLists ==
    ASSUME TypeInv, PlansOnce, OneObject, NEW w \in Watchers, WatcherStep(w) \/ Event(w),
           NEW t \in SingleWriter, NEW s \in StateType, ListsGood(t, s), ListsNewer(t, s)
    PROVE  ListsGood(t, s)' /\ ListsNewer(t, s)'
<1>0. [Next]_vars BY DEF Next
<1>1. CASE AddWrites(w) /\ Storing(w, t, s) BY <1>1, StoreKeeps
<1>2. CASE ~(AddWrites(w) /\ Storing(w, t, s))
  <2>1. Current(t, s)' = Current(t, s) BY <1>2, CurrentStays
  <2>2. UNCHANGED <<lpc, lj, ls, lrep, sent>>
    BY DEF WatcherStep, GetClusterVersion, AddFindsNil, AddAllocates, AddReads, AddWrites, InformSkipped,
       InformBlocks, Event, listener
  <2>3. \A v \in Watchers : Storing(v, t, s)' =>
            \/ Storing(v, t, s) /\ header'[v] = header[v]
            \/ header'[v].list = Current(t, s)
    BY StoreStarts, OthersStay DEF Storing
  <2>4. ListsGood(t, s)' BY <1>0, <2>1, <2>2, <2>3, GoodKept
  <2>5. Cleared(t, s)' <=> Cleared(t, s) BY <2>2 DEF Cleared
  <2>6. ListsNewer(t, s)' BY <2>1, <2>2, <2>5, NewerKept
  <2> QED BY <2>4, <2>6
<1> QED BY <1>1, <1>2

\* json.Marshal takes the list it is at as it is now, unless the copy of the
\* field is nil, and leaves the others.
LEMMA MarshalBody ==
    ASSUME TypeInv, OneObject, Marshal, NEW t \in SingleWriter, NEW s \in StateType
    PROVE  /\ lrep'.body[t][s] \in {lrep.body[t][s], Current(t, s)}
           /\ lcopy[t] = 0 => lrep'.body[t][s] = lrep.body[t][s]
           /\ lcopy[t] # 0 /\ t = MarshalOrder[lj] /\ s = ls => lrep'.body[t][s] = Current(t, s)
<1> DEFINE u == MarshalOrder[lj]
<1>1. t \in JsonType /\ lj \in 1..6 /\ ls \in 1..3 /\ s \in 1..3 /\ lrep \in Report
      /\ lrep.body \in [JsonType -> ObjectData] /\ u \in JsonType
  BY Fields, ReportFields, OrdersTyped DEF TypeInv, TypeOK, ListenerTypes, StateType
<1>2. CASE lcopy[u] = 0
  <2>1. lrep' = lrep BY <1>2 DEF Marshal
  <2> QED BY <1>2, <2>1
<1>3. CASE lcopy[u] # 0
  <2>1. lrep' = [lrep EXCEPT !.body[u][ls] = objs[u][lcopy[u]][ls]]
    BY <1>3 DEF Marshal
  <2> HIDE DEF u
  <2>2. lrep'.body = [lrep.body EXCEPT ![u] = [lrep.body[u] EXCEPT ![ls] = objs[u][lcopy[u]][ls]]]
    BY <1>1, <2>1 DEF Report
  <2>3. CASE t = u /\ s = ls
    <3>1. lrep'.body[t][s] = objs[t][lcopy[t]][s]
      BY <1>1, <2>2, <2>3 DEF ObjectData, StateType
    <3>2. lcopy[t] \in Nat /\ lcopy[t] <= Len(objs[t]) /\ lcopy[t] # 0
      BY <1>1, <1>3, <2>3 DEF TypeInv, TypeOK, ListenerTypes
    <3>3. objs[t] # <<>> BY <3>2
    <3>4. Len(objs[t]) = 1 /\ Current(t, s) = objs[t][1][s] BY <3>3, CurrentOne
    <3>5. lcopy[t] = 1 BY <3>2, <3>4
    <3> QED BY <3>1, <3>4, <3>5
  <2>4. CASE ~(t = u /\ s = ls)
    <3>1. lrep'.body[t][s] = lrep.body[t][s] BY <1>1, <2>1, <2>2, <2>4 DEF ObjectData, StateType
    <3> QED BY <2>4, <3>1 DEF u
  <2> QED BY <2>3, <2>4
<1> QED BY <1>2, <1>3

\* deleteJsonData empties the list it is at, and leaves the others.
LEMMA DeleteDataCurrent ==
    ASSUME TypeInv, OneObject, DeleteData, NEW t \in SingleWriter, NEW s \in StateType
    PROVE  /\ t = DeleteOrder[lj] /\ s = ls => Current(t, s)' = <<>>
           /\ Current(t, s)' = Current(t, s) \/ Current(t, s)' = <<>>
<1>0. /\ t \in JsonType /\ lj \in 1..6 /\ ls \in StateType /\ objs \in [JsonType -> Seq(ObjectData)]
      /\ objs' \in [JsonType -> Seq(ObjectData)] /\ Len(objs'[t]) = Len(objs[t])
  BY Fields, DeleteDataObjs DEF TypeInv, TypeOK, ListenerTypes, SharedTypes, StateType
<1>1. t = DeleteOrder[lj] /\ s = ls => Current(t, s)' = <<>> BY <1>0, DeleteDataObjs
<1>2. CASE objs'[t] = objs[t]
  <2>1. Current(t, s)' = Current(t, s) BY <1>2 DEF Current
  <2> QED BY <1>1, <2>1
<1>3. CASE objs'[t] # objs[t]
  <2>1. t = DeleteOrder[lj] /\ objs[t] # <<>> BY <1>0, <1>3 DEF DeleteData
  <2>2. Len(objs[t]) = 1 /\ objs[t][1] \in ObjectData /\ Current(t, s) = objs[t][1][s]
    BY <2>1, CurrentOne
  <2>3. objs'[t] = [objs[t] EXCEPT ![1] = [objs[t][1] EXCEPT ![ls] = <<>>]]
    BY <1>0, <2>1, <2>2 DEF DeleteData
  <2>4. objs'[t][1] = [objs[t][1] EXCEPT ![ls] = <<>>]
    BY <1>0, <2>2, <2>3
  <2>5. Current(t, s)' = objs'[t][1][s]
    <3>1. Len(objs'[t]) = 1 BY <1>0, <2>2
    <3>2. objs'[t] # <<>> BY <3>1
    <3> QED BY <3>1, <3>2 DEF Current
  <2> QED BY <1>1, <2>1, <2>2, <2>4, <2>5 DEF ObjectData
<1> QED BY <1>1, <1>2, <1>3

\* Every field has its place in the order of deletion, and no other.
LEMMA DeletedOnce ==
    ASSUME NEW t \in JsonType
    PROVE  /\ \E j \in 1..6 : DeleteOrder[j] = t
           /\ \A i, j \in 1..6 : DeleteOrder[i] = DeleteOrder[j] => i = j
<1>1. /\ DeleteOrder[1] = 1 /\ DeleteOrder[2] = 4 /\ DeleteOrder[3] = 2 /\ DeleteOrder[4] = 3
      /\ DeleteOrder[5] = 5 /\ DeleteOrder[6] = 6
  BY DEF DeleteOrder, NODE, PODS, SERVICES, MICROSERVICES, SECRETS, NAMESPACES
<1>2. t = 1 \/ t = 2 \/ t = 3 \/ t = 4 \/ t = 5 \/ t = 6 BY DEF JsonType
<1>3. \A j \in 1..6 : j = 1 \/ j = 2 \/ j = 3 \/ j = 4 \/ j = 5 \/ j = 6 OBVIOUS
<1>4. \E j \in 1..6 : DeleteOrder[j] = t BY <1>1, <1>2
<1>5. \A i, j \in 1..6 : DeleteOrder[i] = DeleteOrder[j] => i = j BY <1>1, <1>3
<1> QED BY <1>4, <1>5

\* What counts as emptied after a step of it was before, or is empty.
LEMMA DeleteDataClears ==
    ASSUME TypeInv, OneObject, DeleteData, NEW t \in SingleWriter, NEW s \in StateType, Cleared(t, s)'
    PROVE  Current(t, s)' = <<>> \/ Cleared(t, s)
<1>0. t \in JsonType /\ lj \in 1..6 /\ ls \in 1..3 /\ lpc = "delete" /\ s \in 1..3
  BY Fields DEF TypeInv, TypeOK, ListenerTypes, DeleteData, StateType
<1>1. PICK p \in 1..6 : DeleteOrder[p] = t BY <1>0, DeletedOnce
<1>2. \A j \in 1..6 : DeleteOrder[j] = t => j = p BY <1>0, <1>1, DeletedOnce
<1>3. \/ lpc' = "delete" /\ lj' = lj /\ ls' = ls + 1 /\ ls < 3 /\ objs[DeleteOrder[lj]] # <<>>
      \/ lpc' = "delete" /\ lj' = lj + 1 /\ ls' = 1 /\ lj < 6
           /\ (ls = 3 \/ objs[DeleteOrder[lj]] = <<>>)
      \/ lpc' = "decide" /\ lj = 6 /\ (ls = 3 \/ objs[DeleteOrder[lj]] = <<>>)
  BY <1>0 DEF DeleteData, NextSlot
<1>4. \/ lpc' = "delete" /\ p <= lj' /\ (p = lj' => s < ls')
      \/ lpc' = "decide"
  <2>1. lpc' = "delete" => p \in 1..lj' /\ (p = lj' => s < ls')
    <3> SUFFICES ASSUME lpc' = "delete" PROVE p \in 1..lj' /\ (p = lj' => s < ls') OBVIOUS
    <3>1. PICK j \in 1..lj' : DeleteOrder[j] = t /\ (j = lj' => s < ls') BY DEF Cleared
    <3>2. j \in 1..6 BY <1>0, <1>3
    <3>3. j = p BY <1>2, <3>1, <3>2
    <3> QED BY <3>1, <3>3
  <2> QED BY <1>3, <2>1
<1>5. CASE p < lj
  <2>1. p \in 1..lj /\ p # lj BY <1>0, <1>5
  <2> QED BY <1>0, <1>1, <2>1 DEF Cleared
<1>6. CASE p = lj
  <2>1. CASE s < ls
    <3>1. p \in 1..lj BY <1>0, <1>6
    <3> QED BY <1>0, <1>1, <2>1, <3>1 DEF Cleared
  <2>2. CASE s = ls
    <3>1. Current(t, s)' = <<>> BY <1>1, <1>6, <2>2, DeleteDataCurrent
    <3> QED BY <3>1
  <2>3. CASE s > ls
    <3>1. objs[t] = <<>> BY <1>0, <1>1, <1>3, <1>4, <1>6, <2>3
    <3>2. Current(t, s) = <<>> BY <3>1 DEF Current
    <3>3. Current(t, s)' = <<>> BY <3>2, DeleteDataCurrent
    <3> QED BY <3>3
  <2> QED BY <1>0, <2>1, <2>2, <2>3
<1>7. CASE p > lj
  <2>1. FALSE BY <1>0, <1>3, <1>4, <1>7
  <2> QED BY <2>1
<1> QED BY <1>0, <1>5, <1>6, <1>7

\* Every step of the listener keeps the lists.
LEMMA ListenerKeepsLists ==
    ASSUME TypeInv, PlansOnce, OneObject, ListenerStep,
           NEW t \in SingleWriter, NEW s \in StateType, ListsGood(t, s), ListsNewer(t, s)
    PROVE  ListsGood(t, s)' /\ ListsNewer(t, s)'
<1>0. [Next]_vars BY DEF Next
<1> DEFINE Stored == \A w \in Watchers : Storing(w, t, s)' => Storing(w, t, s) /\ header'[w] = header[w]
<1>1. UNCHANGED watcher => Stored BY DEF watcher, Storing
<1>2. t \in JsonType /\ lj \in 1..6 /\ ls \in 1..3 /\ s \in 1..3 /\ lrep \in Report
      /\ lrep.body \in [JsonType -> ObjectData] /\ sent \in Seq(Report)
  BY Fields, ReportFields DEF TypeInv, TypeOK, ListenerTypes, StateType
<1>3. ASSUME Current(t, s)' = Current(t, s), lrep'.body[t][s] = lrep.body[t][s], sent' = sent, Stored,
             lpc' \notin {"wait", "copy"} => lpc \notin {"wait", "copy"},
             Cleared(t, s)' => Cleared(t, s)
      PROVE  ListsGood(t, s)' /\ ListsNewer(t, s)'
  <2>1. ListsGood(t, s)' BY <1>0, <1>3, GoodKept
  <2>2. ListsNewer(t, s)' BY <1>3, NewerKept
  <2> QED BY <2>1, <2>2
<1>4. CASE PrepareCopies
  <2>1. lrep'.body[t][s] = <<>>
    <3>1. lrep'.body = EmptyBody BY <1>4 DEF PrepareCopies
    <3> QED BY <1>2, <3>1 DEF EmptyBody, EmptyObjectData
  <2>2. Current(t, s)' = Current(t, s) /\ sent' = sent /\ Stored
    BY <1>1, <1>4 DEF PrepareCopies, Current
  <2>3. ListsGood(t, s)' BY <1>0, <2>1, <2>2, GoodKept
  <2>4. ~Cleared(t, s)' BY <1>4 DEF PrepareCopies, Cleared
  <2>5. ListsNewer(t, s)' BY <2>1, <2>2, <2>4, NewerKept
  <2> QED BY <2>3, <2>5
<1>5. CASE PrepareChecks
  <2>1. lrep'.body = lrep.body BY <1>2, <1>5 DEF PrepareChecks, Report
  <2>2. Current(t, s)' = Current(t, s) /\ sent' = sent /\ Stored
    BY <1>1, <1>5 DEF PrepareChecks, Current
  <2>3. lpc = "check" /\ ~Cleared(t, s)' BY <1>5 DEF PrepareChecks, Cleared
  <2> QED BY <1>3, <2>1, <2>2, <2>3
<1>6. CASE DropEmpty
  <2>1. lrep' = lrep /\ Current(t, s)' = Current(t, s) /\ sent' = sent /\ Stored
    BY <1>1, <1>6 DEF DropEmpty, Current
  <2>2. lpc = "len" /\ ~Cleared(t, s)' BY <1>6 DEF DropEmpty, Cleared
  <2> QED BY <1>3, <2>1, <2>2
<1>7. CASE Marshal
  <2>1. Current(t, s)' = Current(t, s) /\ sent' = sent /\ Stored
    BY <1>1, <1>7 DEF Marshal, Current
  <2>2. lrep'.body[t][s] \in {lrep.body[t][s], Current(t, s)} BY <1>7, MarshalBody
  <2>3. ~Cleared(t, s)' /\ lpc = "marshal"
    <3>1. lpc = "marshal" /\ (lpc' = "marshal" \/ (lpc' = "delete" /\ lj' = 1 /\ ls' = 1))
      BY <1>2, <1>7 DEF Marshal, NextSlot
    <3> QED BY <1>2, <3>1 DEF Cleared
  <2>4. ListsGood(t, s)' BY <1>0, <2>1, <2>2, GoodKept
  <2>5. ListsNewer(t, s)' BY <2>1, <2>2, <2>3, NewerKept
  <2> QED BY <2>4, <2>5
<1>8. CASE DeleteData
  <2>1. lrep' = lrep /\ sent' = sent /\ Stored /\ lpc = "delete"
    BY <1>1, <1>8 DEF DeleteData
  <2>2. Current(t, s)' = Current(t, s) \/ Current(t, s)' = <<>> BY <1>8, DeleteDataCurrent
  <2>3. Cleared(t, s)' => Current(t, s)' = <<>> \/ Cleared(t, s) BY <1>8, DeleteDataClears
  <2>4. ListsGood(t, s)' BY <1>0, <2>1, <2>2, GoodKept
  <2>5. ListsNewer(t, s)' BY <2>1, <2>2, <2>3, NewerKept
  <2> QED BY <2>4, <2>5
<1>9. CASE Decide
  <2>1. lrep' = lrep /\ Current(t, s)' = Current(t, s) /\ sent' = sent /\ Stored
    BY <1>1, <1>9 DEF Decide, Current
  <2>2. lpc = "decide" /\ Cleared(t, s) BY <1>9 DEF Decide, Cleared
  <2> QED BY <1>3, <2>1, <2>2
<1>10. CASE SendReport
  <2>1. /\ lrep' = lrep /\ Current(t, s)' = Current(t, s) /\ sent' = Append(sent, lrep) /\ Stored
        /\ lpc = "send" /\ lpc' = "wait"
    BY <1>1, <1>10 DEF SendReport, Current
  <2>2. ListsGood(t, s)' BY <1>0, <2>1, GoodKept
  <2>3. Cleared(t, s) BY <2>1 DEF Cleared
  <2>4. /\ \A i \in 1..Len(sent) : Newer(lrep.body[t][s], sent[i].body[t][s])
        /\ Newer(Current(t, s), lrep.body[t][s])
    BY <2>1, <2>3 DEF ListsNewer
  <2>5. /\ Len(sent') = Len(sent) + 1 /\ Len(sent) \in Nat /\ sent'[Len(sent) + 1] = lrep
        /\ \A k \in 1..Len(sent) : sent'[k] = sent[k]
    BY <1>2, <2>1, AppendSeq
  <2>6. \A i, j \in 1..Len(sent') : i < j => Newer(sent'[j].body[t][s], sent'[i].body[t][s])
    <3> SUFFICES ASSUME NEW i \in 1..Len(sent'), NEW j \in 1..Len(sent'), i < j
                 PROVE  Newer(sent'[j].body[t][s], sent'[i].body[t][s])
      OBVIOUS
    <3>1. i \in 1..Len(sent) /\ sent'[i] = sent[i] BY <2>5
    <3>2. CASE j = Len(sent) + 1 BY <2>4, <2>5, <3>1, <3>2
    <3>3. CASE j # Len(sent) + 1
      <4>1. j \in 1..Len(sent) /\ sent'[j] = sent[j] BY <2>5, <3>3
      <4> QED BY <3>1, <4>1 DEF ListsNewer
    <3> QED BY <3>2, <3>3
  <2>7. \A i \in 1..Len(sent') : Newer(Current(t, s), sent'[i].body[t][s])
    <3> SUFFICES ASSUME NEW i \in 1..Len(sent') PROVE Newer(Current(t, s), sent'[i].body[t][s]) OBVIOUS
    <3>1. CASE i = Len(sent) + 1 BY <2>4, <2>5, <3>1
    <3>2. CASE i # Len(sent) + 1
      <4>1. i \in 1..Len(sent) /\ sent'[i] = sent[i] BY <2>5, <3>2
      <4> QED BY <4>1 DEF ListsNewer
    <3> QED BY <3>1, <3>2
  <2>8. ListsNewer(t, s)' BY <2>1, <2>4, <2>6, <2>7 DEF ListsNewer
  <2> QED BY <2>2, <2>8
<1>11. CASE TakeInform
  <2>1. lrep' = lrep /\ Current(t, s)' = Current(t, s) /\ sent' = sent /\ lpc' = "copy"
    BY <1>11 DEF TakeInform, Current
  <2>2. ~Cleared(t, s)' BY <2>1 DEF Cleared
  <2>3. Stored
    <3>1. informQ \in Seq(Watchers) /\ informQ # <<>> BY <1>11 DEF TakeInform, TypeInv, TypeOK, SharedTypes
    <3>2. PICK w \in Watchers : w = Head(informQ) BY <3>1, TailSeq
    <3>3. header' = header /\ wpc' = [wpc EXCEPT ![w] = AfterCall(w)] /\ todo' = [todo EXCEPT ![w] = Tail(@)]
      BY <1>11, <3>2 DEF TakeInform, Goto, CallDone
    <3>4. wpc'[w] # "store" /\ \A v \in Watchers : v # w => wpc'[v] = wpc[v] /\ todo'[v] = todo[v]
      BY <3>3 DEF AfterCall, TypeInv, TypeOK, WatcherTypes
    <3> QED BY <3>3, <3>4 DEF Storing
  <2> QED BY <1>3, <2>1, <2>2, <2>3
<1> QED BY <1>4, <1>5, <1>6, <1>7, <1>8, <1>9, <1>10, <1>11 DEF ListenerStep

-----------------------------------------------------------------------------
(* The invariant and the theorem.                                           *)

\* At the start every list is empty.
LEMMA InitOrder == Init => OrderInv
<1> SUFFICES ASSUME Init PROVE OrderInv OBVIOUS
<1>1. PlansOnce BY DEF Init, PlansOnce, PlanOnce
<1>2. OneObject
  <2>1. \A t \in SingleWriter : objs[t] = <<>> BY Fields DEF Init
  <2>2. \A w \in Watchers : wpc[w] # "alloc" BY DEF Init
  <2> QED BY <2>1, <2>2 DEF OneObject
<1>3. ASSUME NEW t \in SingleWriter, NEW s \in StateType PROVE ListsGood(t, s) /\ ListsNewer(t, s)
  <2>1. Current(t, s) = <<>> BY Fields DEF Init, Current
  <2>2. lrep.body[t][s] = <<>>
    <3>1. lrep.body = EmptyBody BY DEF Init
    <3> QED BY <3>1, Fields DEF EmptyBody, EmptyObjectData
  <2>3. sent = <<>> /\ \A w \in Watchers : wpc[w] # "store" BY DEF Init
  <2> QED BY <2>1, <2>2, <2>3, EmptyIsGood DEF ListsGood, ListsNewer, Good, Storing
<1> QED BY <1>1, <1>2, <1>3 DEF OrderInv, ListInv

\* Every step keeps the invariant.
LEMMA NextOrder == TypeInv /\ OrderInv /\ [Next]_vars => OrderInv'
<1> SUFFICES ASSUME TypeInv, OrderInv, [Next]_vars PROVE OrderInv' OBVIOUS
<1>1. PlansOnce' /\ OneObject' BY PlansStay, ObjectsStay DEF OrderInv
<1>2. ASSUME NEW t \in SingleWriter, NEW s \in StateType PROVE ListsGood(t, s)' /\ ListsNewer(t, s)'
  <2>1. ListsGood(t, s) /\ ListsNewer(t, s) /\ PlansOnce /\ OneObject BY DEF OrderInv, ListInv
  <2>2. CASE ListenerStep BY <2>1, <2>2, ListenerKeepsLists
  <2>3. ASSUME NEW w \in Watchers, WatcherStep(w) \/ Event(w) PROVE ListsGood(t, s)' /\ ListsNewer(t, s)'
    BY <2>1, <2>3, WatcherKeepsLists
  <2>4. CASE UNCHANGED vars
    <3>1. UNCHANGED <<objs, evt, todo, lrep, sent, lpc, lj, ls, header, wpc>>
      BY <2>4 DEF vars, watcher, listener
    <3> QED BY <2>1, <3>1
            DEF ListsGood, ListsNewer, Good, Storing, Current, Cleared
  <2> QED BY <2>2, <2>3, <2>4 DEF Next
<1> QED BY <1>1, <1>2 DEF OrderInv, ListInv

\* Node, service, secret, namespace and pod data is sent in order: each list in
\* event order, and with a last entry newer than all that any earlier report
\* had there, however the append races with the emptying of the list.
THEOREM SentInOrder == Spec => []ReportsMoveForward
<1>1. TypeInv /\ OrderInv => ReportsMoveForward
  <2> SUFFICES ASSUME TypeInv, OrderInv, NEW t \in SingleWriter, NEW s \in StateType, NEW j \in DOMAIN sent
               PROVE  LET l == sent[j].body[t][s]
                      IN  /\ \A a, b \in DOMAIN l : a < b => l[a].n < l[b].n
                          /\ \A i \in 1..(j - 1) : \A a \in DOMAIN sent[i].body[t][s] :
                                 l # <<>> => sent[i].body[t][s][a].n < l[Len(l)].n
    BY DEF ReportsMoveForward
  <2>1. ListsGood(t, s) /\ ListsNewer(t, s) BY DEF OrderInv, ListInv
  <2>2. sent \in Seq(Report) BY DEF TypeInv, TypeOK, ListenerTypes
  <2>3. j \in 1..Len(sent) /\ \A i \in 1..(j - 1) : i \in 1..Len(sent) /\ i < j BY <2>2
  <2>4. \A i \in 1..Len(sent) : /\ DOMAIN sent[i].body[t][s] = 1..Len(sent[i].body[t][s])
                                /\ Rising(sent[i].body[t][s])
    BY <2>1 DEF ListsGood, Good, GoodThen
  <2>5. \A i \in 1..(j - 1) : Newer(sent[j].body[t][s], sent[i].body[t][s])
    BY <2>1, <2>3 DEF ListsNewer
  <2> QED BY <2>3, <2>4, <2>5 DEF Rising, Newer
<1> QED BY <1>1, InitOrder, NextOrder, TypeInvariant, PTL DEF Spec
=============================================================================
