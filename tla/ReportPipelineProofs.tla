------------------------ MODULE ReportPipelineProofs ------------------------
(***************************************************************************)
(* Proofs about ReportPipeline, for every set of watchers and any number   *)
(* of events: type correctness, that only the first report is marked and   *)
(* carries the metadata, and that the listener never sleeps on pod data.   *)
(***************************************************************************)
EXTENDS ReportPipeline, QueueLemmas

(* Informers are blocked, each of them once.                               *)
QueueInv ==
    /\ \A i \in DOMAIN informQ : wpc[informQ[i]] = "blocked"
    /\ \A i, j \in DOMAIN informQ : informQ[i] = informQ[j] => i = j

TypeInv == TypeOK /\ QueueInv

-----------------------------------------------------------------------------
(* Facts about sequences.                                                  *)

\* informNewDataArrive and AddToJsonFormat calls are calls.
LEMMA OpTyped ==
    Inform \in Op /\ \A t \in JsonType, s \in StateType : Add(t, s) \in Op
  BY DEF Op, Inform, Add

\* The plans a handler can follow are sequences of calls.
LEMMA PlansTyped ==
    ASSUME NEW w \in AllWatchers, NEW s \in StateType, NEW plan \in Plans(w, s)
    PROVE  plan \in Seq(Op) /\ plan # <<>>
<1> USE OpTyped
<1>0. MICROSERVICES \in JsonType /\ PODS \in JsonType /\ CREATED \in StateType /\ UPDATED \in StateType
      /\ DELETED \in StateType
  BY DEF MICROSERVICES, PODS, JsonType, CREATED, UPDATED, DELETED, StateType
<1>1. CASE w = "pod"
  <2>1. plan \in PodPlans(s) BY <1>1 DEF Plans
  <2>2. \/ plan = <<Add(MICROSERVICES, CREATED), Add(PODS, CREATED), Inform>>
        \/ plan = <<Add(PODS, CREATED), Inform>>
        \/ plan = <<Add(PODS, UPDATED), Inform>>
        \/ plan = <<Add(PODS, DELETED), Inform>>
        \/ plan = <<Add(PODS, DELETED), Add(MICROSERVICES, DELETED), Inform>>
    BY <2>1 DEF PodPlans, CREATED, UPDATED, DELETED, StateType
  <2>3. \A a, b, c \in Op : <<a, b>> \in Seq(Op) /\ <<a, b, c>> \in Seq(Op)
    OBVIOUS
  <2>4. Add(MICROSERVICES, CREATED) \in Op /\ Add(PODS, CREATED) \in Op /\ Add(PODS, UPDATED) \in Op
        /\ Add(PODS, DELETED) \in Op /\ Add(MICROSERVICES, DELETED) \in Op
    BY <1>0
  <2>5. plan \in Seq(Op)
    BY <2>2, <2>3, <2>4
  <2>6. plan # <<>>
    BY <2>2
  <2> QED BY <2>5, <2>6
<1>2. CASE w = "cronjob"
  <2>1. plan = <<Add(MICROSERVICES, s), Inform>> BY <1>2 DEF Plans, CronJobPlan
  <2> QED BY <2>1, <1>0
<1>3. CASE w \notin {"pod", "cronjob"}
  <2>1. TypeOf[w] \in JsonType
    BY <1>3 DEF AllWatchers, TypeOf, NODE, SERVICES, SECRETS, NAMESPACES, JsonType
  <2>2. plan = <<Inform, Add(TypeOf[w], s)>> BY <1>3 DEF Plans, ResourcePlan
  <2> QED BY <2>1, <2>2
<1> QED BY <1>1, <1>2, <1>3

-----------------------------------------------------------------------------
(* Type correctness.                                                       *)

\* A record with the fields of a report is one.
LEMMA ReportTyped ==
    ASSUME NEW f \in BOOLEAN, NEW m \in BOOLEAN, NEW b \in [JsonType -> ObjectData]
    PROVE  [first |-> f, meta |-> m, body |-> b] \in Report
  BY DEF Report

\* The process starts with an empty report and no goroutine in a call.
LEMMA InitTyped == Init => TypeInv
<1> SUFFICES ASSUME Init PROVE TypeInv OBVIOUS
<1>1. EmptyBody \in [JsonType -> ObjectData]
  BY DEF EmptyBody, EmptyObjectData, ObjectData
<1>2. lrep \in Report
  <2>1. lrep = [first |-> TRUE, meta |-> FALSE, body |-> EmptyBody] BY DEF Init
  <2>2. [first |-> TRUE, meta |-> FALSE, body |-> EmptyBody] \in Report
    BY <1>1, SMT DEF Report
  <2> QED BY <2>1, <2>2, Zenon
<1>3. SharedTypes
  <2>1. version \in BOOLEAN /\ aggregate \in BOOLEAN /\ first \in BOOLEAN
    BY Zenon DEF Init
  <2>2. objs \in [JsonType -> Seq(ObjectData)] /\ informQ \in Seq(Watchers)
    BY DEF Init
  <2> QED BY <2>1, <2>2 DEF SharedTypes
<1>4. WatcherTypes
  BY DEF Init, WatcherTypes, NoHeader
<1>5. ListenerTypes
  BY <1>2 DEF Init, ListenerTypes
<1>6. \A t \in JsonType : lcopy[t] <= Len(objs[t])
  BY DEF Init
<1>7. \A w \in Watchers : InCall(w)
  BY DEF Init, InCall
<1>8. QueueInv
  BY DEF Init, QueueInv
<1> QED BY <1>3, <1>4, <1>5, <1>6, <1>7, <1>8 DEF TypeInv, TypeOK

\* A call that is to be made is of the right type.
LEMMA CallTyped ==
    ASSUME WatcherTypes, NEW w \in Watchers, todo[w] # <<>>
    PROVE  /\ Head(todo[w]) \in Op
           /\ Tail(todo[w]) \in Seq(Op)
           /\ Head(todo[w]).op = "add" => /\ Head(todo[w]).jtype \in JsonType
                                          /\ Head(todo[w]).stype \in StateType
           /\ Head(todo[w]).op = "inform" => Head(todo[w]) = Inform
<1>1. todo[w] \in Seq(Op) BY DEF WatcherTypes
<1>2. Head(todo[w]) \in Op /\ Tail(todo[w]) \in Seq(Op) BY <1>1, TailSeq
<1> QED BY <1>2 DEF Op, Inform

\* Steps of a watcher that change its control state, its call or its captured
\* header, and none of the listener's, preserve what the listener relies on.
LEMMA ListenerTypesKept ==
    ASSUME ListenerTypes, UNCHANGED listener
    PROVE  ListenerTypes'
  BY DEF ListenerTypes, listener

\* The same of a watcher whose own state is left alone.
LEMMA WatcherTypesKept ==
    ASSUME WatcherTypes, UNCHANGED watcher
    PROVE  WatcherTypes'
  BY DEF WatcherTypes, watcher

\* A watcher that is not blocked and stays out of the queue leaves it alone.
LEMMA QueueKept ==
    ASSUME TypeInv, NEW w \in Watchers, NEW pc, wpc[w] # "blocked", Goto(w, pc), informQ' = informQ
    PROVE  QueueInv'
  BY DEF TypeInv, TypeOK, SharedTypes, WatcherTypes, QueueInv, Goto

\* GetClusterVersion keeps the types.
LEMMA GetClusterVersionTyped ==
    ASSUME TypeInv, NEW w \in Watchers, GetClusterVersion(w)
    PROVE  TypeInv'
<1>1. SharedTypes' /\ WatcherTypes'
  BY DEF TypeInv, TypeOK, SharedTypes, WatcherTypes, GetClusterVersion, Goto
<1>2. ListenerTypes'
  BY ListenerTypesKept DEF TypeInv, TypeOK, GetClusterVersion
<1>3. (\A t \in JsonType : lcopy[t] <= Len(objs[t]))'
  BY DEF TypeInv, TypeOK, GetClusterVersion, listener
<1>4. (\A v \in Watchers : InCall(v))'
  BY DEF TypeInv, TypeOK, WatcherTypes, GetClusterVersion, InCall, Goto
<1>5. QueueInv'
  BY QueueKept DEF GetClusterVersion
<1> QED BY <1>1, <1>2, <1>3, <1>4, <1>5 DEF TypeInv, TypeOK

\* Event keeps the types.
LEMMA EventTyped ==
    ASSUME TypeInv, NEW w \in Watchers, Event(w)
    PROVE  TypeInv'
<1>1. PICK s \in EventStates : \E plan \in Plans(w, s) : todo' = [todo EXCEPT ![w] = plan]
  BY DEF Event
<1>2. PICK plan \in Plans(w, s) : todo' = [todo EXCEPT ![w] = plan]
  BY <1>1
<1>3. plan \in Seq(Op)
  BY PlansTyped, WatchersAssumption, EventStatesAssumption
<1>4. SharedTypes' /\ WatcherTypes'
  BY <1>2, <1>3 DEF TypeInv, TypeOK, SharedTypes, WatcherTypes, Event, Goto
<1>5. ListenerTypes'
  BY ListenerTypesKept DEF TypeInv, TypeOK, Event
<1>6. (\A t \in JsonType : lcopy[t] <= Len(objs[t]))'
  BY DEF TypeInv, TypeOK, Event, listener
<1>7. (\A v \in Watchers : InCall(v))'
  BY <1>2 DEF TypeInv, TypeOK, WatcherTypes, Event, InCall, Goto
<1>8. QueueInv'
  BY QueueKept DEF Event
<1> QED BY <1>4, <1>5, <1>6, <1>7, <1>8 DEF TypeInv, TypeOK

\* AddFindsNil keeps the types.
LEMMA AddFindsNilTyped ==
    ASSUME TypeInv, NEW w \in Watchers, AddFindsNil(w)
    PROVE  TypeInv'
<1>1. SharedTypes' /\ WatcherTypes'
  BY DEF TypeInv, TypeOK, SharedTypes, WatcherTypes, AddFindsNil, Goto
<1>2. ListenerTypes'
  BY ListenerTypesKept DEF TypeInv, TypeOK, AddFindsNil
<1>3. (\A t \in JsonType : lcopy[t] <= Len(objs[t]))'
  BY DEF TypeInv, TypeOK, AddFindsNil, listener
<1>4. (\A v \in Watchers : InCall(v))'
  BY DEF TypeInv, TypeOK, WatcherTypes, AddFindsNil, Calls, InCall, Goto
<1>5. QueueInv'
  BY QueueKept DEF AddFindsNil, Calls
<1> QED BY <1>1, <1>2, <1>3, <1>4, <1>5 DEF TypeInv, TypeOK

\* An object without data at the end of a list.
LEMMA EmptyAppended ==
    ASSUME NEW o \in Seq(ObjectData)
    PROVE  LET a == Append(o, EmptyObjectData)
           IN  /\ a \in Seq(ObjectData) /\ Len(o) <= Len(a)
               /\ a # <<>> /\ a[Len(a)] = EmptyObjectData
<1> DEFINE a == Append(o, EmptyObjectData)
<1>1. EmptyObjectData \in ObjectData BY DEF EmptyObjectData, ObjectData
<1>2. /\ a \in Seq(ObjectData) /\ a # <<>> /\ Len(a) = Len(o) + 1 /\ Len(o) \in Nat
      /\ a[Len(o) + 1] = EmptyObjectData
  BY <1>1, AppendSeq
<1> HIDE DEF a
<1>3. Len(o) <= Len(a) /\ a[Len(a)] = EmptyObjectData BY <1>2
<1> QED BY <1>2, <1>3 DEF a

\* AddAllocates keeps the types: objects are only added.
LEMMA AddAllocatesTyped ==
    ASSUME TypeInv, NEW w \in Watchers, AddAllocates(w)
    PROVE  TypeInv'
<1> DEFINE t0 == Head(todo[w]).jtype
<1>0. t0 \in JsonType /\ EmptyObjectData \in ObjectData
  BY CallTyped DEF TypeInv, TypeOK, InCall, AddAllocates, EmptyObjectData, ObjectData
<1>1. /\ objs' \in [JsonType -> Seq(ObjectData)]
      /\ \A t \in JsonType : Len(objs[t]) <= Len(objs'[t])
  <2>1. objs' = [objs EXCEPT ![t0] = Append(objs[t0], EmptyObjectData)]
    BY DEF AddAllocates
  <2>2. objs \in [JsonType -> Seq(ObjectData)] BY DEF TypeInv, TypeOK, SharedTypes
  <2>3. Append(objs[t0], EmptyObjectData) \in Seq(ObjectData) /\ Len(objs[t0]) <= Len(Append(objs[t0], EmptyObjectData))
    BY <1>0, <2>2, EmptyAppended
  <2> QED BY <1>0, <2>1, <2>2, <2>3
<1>2. SharedTypes' /\ WatcherTypes'
  BY <1>1 DEF TypeInv, TypeOK, SharedTypes, WatcherTypes, AddAllocates, Goto
<1>3. ListenerTypes'
  BY ListenerTypesKept DEF TypeInv, TypeOK, AddAllocates
<1>4. (\A t \in JsonType : lcopy[t] <= Len(objs[t]))'
  BY <1>1 DEF TypeInv, TypeOK, SharedTypes, ListenerTypes, AddAllocates, listener
<1>5. (\A v \in Watchers : InCall(v))'
  <2> SUFFICES ASSUME NEW v \in Watchers PROVE InCall(v)' OBVIOUS
  <2>1. CASE v = w BY <2>1 DEF AddAllocates, InCall, Goto, TypeInv, TypeOK, WatcherTypes
  <2>2. CASE v # w
    <3>1. wpc'[v] = wpc[v] /\ todo' = todo /\ header' = header
      BY <2>2 DEF AddAllocates, Goto, TypeInv, TypeOK, WatcherTypes
    <3>2. InCall(v) BY DEF TypeInv, TypeOK
    <3>3. wpc[v] = "store" => Head(todo[v]).jtype \in JsonType
      BY <3>2, CallTyped DEF InCall, TypeInv, TypeOK
    <3>4. wpc[v] = "store" => header[v].obj \in 1..Len(objs'[Head(todo[v]).jtype])
      BY <1>1, <3>2, <3>3 DEF InCall, TypeInv, TypeOK, SharedTypes
    <3> QED BY <3>1, <3>2, <3>4 DEF InCall
  <2> QED BY <2>1, <2>2
<1>6. QueueInv'
  BY QueueKept DEF AddAllocates
<1> QED BY <1>2, <1>3, <1>4, <1>5, <1>6 DEF TypeInv, TypeOK

\* AddReads keeps the types: the object it captured exists.
LEMMA AddReadsTyped ==
    ASSUME TypeInv, NEW w \in Watchers, AddReads(w)
    PROVE  TypeInv'
<1> DEFINE t0 == Head(todo[w]).jtype
           s0 == Head(todo[w]).stype
           h0 == [obj |-> Len(objs[t0]), list |-> objs[t0][Len(objs[t0])][s0]]
<1>0. t0 \in JsonType /\ s0 \in StateType
  BY CallTyped DEF TypeInv, TypeOK, AddReads, Calls
<1>1. objs[t0] \in Seq(ObjectData) /\ objs[t0] # <<>>
  BY <1>0 DEF TypeInv, TypeOK, SharedTypes, AddReads
<1>2. Len(objs[t0]) \in 1..Len(objs[t0]) /\ objs[t0][Len(objs[t0])] \in ObjectData
  BY <1>1
<1>3. h0 \in [obj : Nat, list : Seq(Item)]
  <2>1. objs[t0][Len(objs[t0])][s0] \in Seq(Item) BY <1>0, <1>2 DEF ObjectData
  <2>2. Len(objs[t0]) \in Nat BY <1>1
  <2> HIDE DEF t0, s0
  <2> QED BY <2>1, <2>2
<1>4. header' = [header EXCEPT ![w] = h0]
  BY DEF AddReads
<1>5. SharedTypes' /\ WatcherTypes'
  <2>1. /\ wpc' = [wpc EXCEPT ![w] = "store"]
        /\ UNCHANGED <<objs, version, aggregate, first, informQ, todo, evt>>
    BY DEF AddReads, Goto
  <2> HIDE DEF h0
  <2> QED BY <1>3, <1>4, <2>1 DEF TypeInv, TypeOK, SharedTypes, WatcherTypes
<1>6. ListenerTypes'
  BY ListenerTypesKept DEF TypeInv, TypeOK, AddReads
<1>7. (\A t \in JsonType : lcopy[t] <= Len(objs[t]))'
  BY DEF TypeInv, TypeOK, AddReads, listener
<1>8. (\A v \in Watchers : InCall(v))'
  <2> SUFFICES ASSUME NEW v \in Watchers PROVE InCall(v)' OBVIOUS
  <2>0. InCall(v) /\ WatcherTypes BY DEF TypeInv, TypeOK
  <2>1. CASE v = w
    BY <2>0, <2>1, <1>2, <1>4 DEF AddReads, Calls, InCall, Goto, WatcherTypes
  <2>2. CASE v # w
    BY <2>0, <2>2, <1>4 DEF AddReads, InCall, Goto, WatcherTypes
  <2> QED BY <2>1, <2>2
<1>9. QueueInv'
  BY QueueKept DEF AddReads, Calls
<1> QED BY <1>5, <1>6, <1>7, <1>8, <1>9 DEF TypeInv, TypeOK

\* Extending one list of an ObjectData leaves an ObjectData.
LEMMA AddByStateTyped ==
    ASSUME NEW obj \in ObjectData, NEW s \in StateType, NEW list \in Seq(Item), NEW it \in Item
    PROVE  AddToJsonFormatByState(obj, s, list, it) \in ObjectData
<1>1. Append(list, it) \in Seq(Item) BY AppendSeq
<1> QED BY <1>1 DEF AddToJsonFormatByState, ObjectData

\* Replacing object o of field t keeps the type and every field's length.
LEMMA ReplaceTyped ==
    ASSUME objs \in [JsonType -> Seq(ObjectData)], NEW t \in JsonType, NEW o \in 1..Len(objs[t]),
           NEW obj \in ObjectData, NEW new, new = [objs EXCEPT ![t] = [objs[t] EXCEPT ![o] = obj]]
    PROVE  /\ new \in [JsonType -> Seq(ObjectData)]
           /\ \A u \in JsonType : Len(new[u]) = Len(objs[u])
<1>1. objs[t] \in Seq(ObjectData) OBVIOUS
<1>2. [objs[t] EXCEPT ![o] = obj] \in Seq(ObjectData) /\ Len([objs[t] EXCEPT ![o] = obj]) = Len(objs[t])
  BY <1>1, ReplacedSeq
<1> QED BY <1>2

\* The rest of a handler after a call is done.
LEMMA CallDoneTyped ==
    ASSUME WatcherTypes, NEW w \in Watchers, todo[w] # <<>>, CallDone(w), Goto(w, AfterCall(w)),
           UNCHANGED evt, header' \in [Watchers -> [obj : Nat, list : Seq(Item)]]
    PROVE  WatcherTypes' /\ wpc'[w] \in {"select", "run"}
<1>1. Tail(todo[w]) \in Seq(Op) BY CallTyped
<1>2. AfterCall(w) \in {"select", "run"} BY DEF AfterCall
<1> QED BY <1>1, <1>2 DEF WatcherTypes, CallDone, Goto

\* What a watcher that does not move is in the middle of does not change when
\* objects are not removed.
LEMMA InCallKept ==
    ASSUME TypeOK, NEW v \in Watchers, wpc'[v] = wpc[v], todo'[v] = todo[v], header'[v] = header[v],
           objs' \in [JsonType -> Seq(ObjectData)],
           \A t \in JsonType : Len(objs[t]) <= Len(objs'[t])
    PROVE  InCall(v)'
<1>1. InCall(v) BY DEF TypeOK
<1>2. wpc[v] = "store" => Head(todo[v]).jtype \in JsonType
  BY <1>1, CallTyped DEF InCall, TypeOK
<1>3. wpc[v] = "store" => header[v].obj \in 1..Len(objs'[Head(todo[v]).jtype])
  BY <1>1, <1>2 DEF InCall, TypeOK, SharedTypes
<1> QED BY <1>1, <1>3 DEF InCall

\* AddWrites keeps the types.
LEMMA AddWritesTyped ==
    ASSUME TypeInv, NEW w \in Watchers, AddWrites(w)
    PROVE  TypeInv'
<1> DEFINE t0 == Head(todo[w]).jtype
           s0 == Head(todo[w]).stype
           h0 == header[w]
           it == [by |-> w, n |-> evt[w]]
           obj == AddToJsonFormatByState(objs[t0][h0.obj], s0, h0.list, it)
<1>0. todo[w] # <<>> /\ t0 \in JsonType /\ s0 \in StateType /\ h0.obj \in 1..Len(objs[t0])
  BY CallTyped DEF TypeInv, TypeOK, InCall, AddWrites
<1>1. it \in Item
  BY WatchersAssumption DEF Item, TypeInv, TypeOK, WatcherTypes
<1>2. h0 \in [obj : Nat, list : Seq(Item)]
  BY DEF TypeInv, TypeOK, WatcherTypes
<1>3. objs \in [JsonType -> Seq(ObjectData)]
  BY DEF TypeInv, TypeOK, SharedTypes
<1>4. obj \in ObjectData
  <2>1. objs[t0][h0.obj] \in ObjectData BY <1>0, <1>3
  <2>2. h0.list \in Seq(Item) BY <1>2
  <2>3. AddToJsonFormatByState(objs[t0][h0.obj], s0, h0.list, it) \in ObjectData
    <3> HIDE DEF t0, s0, h0, it
    <3> QED BY <1>0, <1>1, <2>1, <2>2, AddByStateTyped
  <2> QED BY <2>3
<1>5. objs' = [objs EXCEPT ![t0] = [objs[t0] EXCEPT ![h0.obj] = obj]]
  BY <1>0, <1>3 DEF AddWrites
<1>6. objs' \in [JsonType -> Seq(ObjectData)] /\ \A u \in JsonType : Len(objs'[u]) = Len(objs[u])
  <2> DEFINE k == h0.obj
  <2>1. k \in 1..Len(objs[t0]) BY <1>0
  <2>2. objs' = [objs EXCEPT ![t0] = [objs[t0] EXCEPT ![k] = obj]] BY <1>5
  <2> HIDE DEF t0, k, obj
  <2> QED BY <1>0, <1>3, <1>4, <2>1, <2>2, ReplaceTyped
<1>7. header' \in [Watchers -> [obj : Nat, list : Seq(Item)]]
  BY DEF AddWrites, NoHeader, TypeInv, TypeOK, WatcherTypes
<1>8. WatcherTypes' /\ wpc'[w] \in {"select", "run"}
  BY <1>0, <1>7, CallDoneTyped DEF AddWrites, TypeInv, TypeOK
<1>9. SharedTypes'
  BY <1>6 DEF AddWrites, TypeInv, TypeOK, SharedTypes
<1>10. ListenerTypes'
  BY ListenerTypesKept DEF TypeInv, TypeOK, AddWrites
<1>11. (\A t \in JsonType : lcopy[t] <= Len(objs[t]))'
  BY <1>6 DEF TypeInv, TypeOK, AddWrites, listener
<1>12. (\A v \in Watchers : InCall(v))'
  <2> SUFFICES ASSUME NEW v \in Watchers PROVE InCall(v)' OBVIOUS
  <2>1. CASE v = w BY <2>1, <1>8 DEF InCall
  <2>2. CASE v # w
    <3>1. wpc'[v] = wpc[v] /\ todo'[v] = todo[v] /\ header'[v] = header[v]
      BY <2>2 DEF AddWrites, Goto, CallDone, TypeInv, TypeOK, WatcherTypes
    <3>2. \A t \in JsonType : Len(objs[t]) <= Len(objs'[t]) BY <1>3, <1>6
    <3> QED BY <3>1, <3>2, <1>6, InCallKept DEF TypeInv
  <2> QED BY <2>1, <2>2
<1>13. QueueInv'
  BY QueueKept DEF AddWrites
<1> QED BY <1>8, <1>9, <1>10, <1>11, <1>12, <1>13 DEF TypeInv, TypeOK

\* InformSkipped keeps the types.
LEMMA InformSkippedTyped ==
    ASSUME TypeInv, NEW w \in Watchers, InformSkipped(w)
    PROVE  TypeInv'
<1>1. WatcherTypes' /\ wpc'[w] \in {"select", "run"}
  BY CallDoneTyped DEF InformSkipped, Calls, TypeInv, TypeOK, WatcherTypes
<1>2. SharedTypes'
  BY DEF InformSkipped, TypeInv, TypeOK, SharedTypes
<1>3. ListenerTypes'
  BY ListenerTypesKept DEF TypeInv, TypeOK, InformSkipped
<1>4. (\A t \in JsonType : lcopy[t] <= Len(objs[t]))'
  BY DEF TypeInv, TypeOK, InformSkipped, listener
<1>5. (\A v \in Watchers : InCall(v))'
  <2> SUFFICES ASSUME NEW v \in Watchers PROVE InCall(v)' OBVIOUS
  <2>1. CASE v = w BY <2>1, <1>1 DEF InCall
  <2>2. CASE v # w
    <3>1. wpc'[v] = wpc[v] /\ todo'[v] = todo[v] /\ header'[v] = header[v] /\ objs' = objs
      BY <2>2 DEF InformSkipped, Goto, CallDone, TypeInv, TypeOK, WatcherTypes
    <3> QED BY <3>1 DEF InCall, TypeInv, TypeOK
  <2> QED BY <2>1, <2>2
<1>6. QueueInv'
  BY QueueKept DEF InformSkipped, Calls
<1> QED BY <1>1, <1>2, <1>3, <1>4, <1>5, <1>6 DEF TypeInv, TypeOK

\* InformBlocks keeps the types: it was not in the queue and is now, once.
LEMMA InformBlocksTyped ==
    ASSUME TypeInv, NEW w \in Watchers, InformBlocks(w)
    PROVE  TypeInv'
<1>0. wpc[w] = "run" /\ todo[w] # <<>> /\ Head(todo[w]) = Inform /\ informQ \in Seq(Watchers)
  BY CallTyped DEF InformBlocks, Calls, TypeInv, TypeOK, SharedTypes
<1>1. /\ informQ' = Append(informQ, w) /\ informQ' \in Seq(Watchers)
      /\ Len(informQ') = Len(informQ) + 1 /\ informQ'[Len(informQ) + 1] = w
      /\ \A i \in 1..Len(informQ) : informQ'[i] = informQ[i]
  BY <1>0, AppendSeq DEF InformBlocks
<1>2. SharedTypes' /\ WatcherTypes'
  BY <1>1 DEF TypeInv, TypeOK, SharedTypes, WatcherTypes, InformBlocks, Goto
<1>3. ListenerTypes'
  BY ListenerTypesKept DEF TypeInv, TypeOK, InformBlocks
<1>4. (\A t \in JsonType : lcopy[t] <= Len(objs[t]))'
  BY DEF TypeInv, TypeOK, InformBlocks, listener
<1>5. (\A v \in Watchers : InCall(v))'
  BY <1>0 DEF TypeInv, TypeOK, WatcherTypes, InformBlocks, InCall, Goto
<1>6. QueueInv'
  <2>1. DOMAIN informQ = 1..Len(informQ) /\ DOMAIN informQ' = 1..(Len(informQ) + 1) /\ Len(informQ) \in Nat
    BY <1>0, <1>1
  <2>2. \A i \in DOMAIN informQ : informQ[i] # w /\ informQ[i] \in Watchers
    BY <1>0 DEF TypeInv, QueueInv
  <2>3. wpc' = [wpc EXCEPT ![w] = "blocked"] /\ wpc \in [Watchers -> {"version", "select", "run", "alloc", "store", "blocked"}]
    BY DEF InformBlocks, Goto, TypeInv, TypeOK, WatcherTypes
  <2>4. \A i \in DOMAIN informQ' : wpc'[informQ'[i]] = "blocked"
    BY <1>1, <2>1, <2>2, <2>3 DEF TypeInv, QueueInv
  <2>5. \A i, j \in DOMAIN informQ' : informQ'[i] = informQ'[j] => i = j
    BY <1>1, <2>1, <2>2 DEF TypeInv, QueueInv
  <2> QED BY <2>4, <2>5 DEF QueueInv
<1> QED BY <1>2, <1>3, <1>4, <1>5, <1>6 DEF TypeInv, TypeOK

\* A step of the listener that only touches its own state and the flags.
LEMMA ListenerOnly ==
    ASSUME TypeInv, UNCHANGED <<objs, informQ, watcher>>
    PROVE  /\ WatcherTypes' /\ QueueInv' /\ (\A w \in Watchers : InCall(w))'
           /\ objs' \in [JsonType -> Seq(ObjectData)] /\ informQ' \in Seq(Watchers)
  BY WatcherTypesKept DEF TypeInv, TypeOK, SharedTypes, QueueInv, InCall, watcher

\* Every report has the fields of a report.
LEMMA ReportFields ==
    ASSUME NEW r \in Report
    PROVE  r.first \in BOOLEAN /\ r.meta \in BOOLEAN /\ r.body \in [JsonType -> ObjectData]
  BY DEF Report

\* PrepareCopies keeps the types: the copy points to objects that exist.
LEMMA PrepareCopiesTyped ==
    ASSUME TypeInv, PrepareCopies
    PROVE  TypeInv'
<1>1. EmptyBody \in [JsonType -> ObjectData]
  BY DEF EmptyBody, EmptyObjectData, ObjectData
<1>2. lrep' \in Report
  <2>1. lrep' = [first |-> first, meta |-> FALSE, body |-> EmptyBody] BY DEF PrepareCopies
  <2>2. first \in BOOLEAN BY DEF TypeInv, TypeOK, SharedTypes
  <2>3. [first |-> first, meta |-> FALSE, body |-> EmptyBody] \in Report
    BY <1>1, <2>2, SMT DEF Report
  <2> QED BY <2>1, <2>3, Zenon
<1>3. lcopy' \in [JsonType -> Nat] /\ \A t \in JsonType : lcopy'[t] <= Len(objs[t])
  BY DEF PrepareCopies, TypeInv, TypeOK, SharedTypes
<1>4. ListenerTypes'
  BY <1>2, <1>3 DEF PrepareCopies, TypeInv, TypeOK, ListenerTypes
<1>5. SharedTypes'
  BY DEF PrepareCopies, TypeInv, TypeOK, SharedTypes
<1>6. UNCHANGED <<objs, informQ, watcher>>
  BY DEF PrepareCopies
<1> QED BY <1>3, <1>4, <1>5, <1>6, ListenerOnly DEF TypeInv, TypeOK

\* PrepareChecks keeps the types.
LEMMA PrepareChecksTyped ==
    ASSUME TypeInv, PrepareChecks
    PROVE  TypeInv'
<1>1. lrep' \in Report
  <2>1. lrep \in Report BY DEF TypeInv, TypeOK, ListenerTypes
  <2>2. (version /\ aggregate) \in BOOLEAN OBVIOUS
  <2>3. lrep' = [lrep EXCEPT !.meta = version /\ aggregate] BY DEF PrepareChecks
  <2> QED BY <2>1, <2>2, <2>3 DEF Report
<1>2. ListenerTypes'
  BY <1>1 DEF PrepareChecks, TypeInv, TypeOK, ListenerTypes
<1>3. SharedTypes' /\ UNCHANGED <<objs, informQ, watcher, lcopy>>
  BY DEF PrepareChecks, TypeInv, TypeOK, SharedTypes
<1> QED BY <1>2, <1>3, ListenerOnly DEF TypeInv, TypeOK

\* The fields the listener goes through are fields.
LEMMA OrdersTyped ==
    ASSUME NEW j \in 1..6
    PROVE  LenOrder[j] \in JsonType /\ MarshalOrder[j] \in JsonType /\ DeleteOrder[j] \in JsonType
<1>1. j = 1 \/ j = 2 \/ j = 3 \/ j = 4 \/ j = 5 \/ j = 6 OBVIOUS
<1> QED BY <1>1 DEF LenOrder, MarshalOrder, DeleteOrder, JsonType, NODE, SERVICES, MICROSERVICES,
                    PODS, SECRETS, NAMESPACES

\* DropEmpty keeps the types.
LEMMA DropEmptyTyped ==
    ASSUME TypeInv, DropEmpty
    PROVE  TypeInv'
<1>0. lcopy \in [JsonType -> Nat]
  BY DEF TypeInv, TypeOK, ListenerTypes
<1>1. lcopy' \in [JsonType -> Nat] /\ \A t \in JsonType : lcopy'[t] <= lcopy[t]
  <2> DEFINE t0 == LenOrder[lj]
  <2>1. lcopy' = lcopy \/ lcopy' = [lcopy EXCEPT ![t0] = 0]
    BY DEF DropEmpty
  <2> HIDE DEF t0
  <2> QED BY <1>0, <2>1
<1>2. ListenerTypes'
  BY <1>1 DEF DropEmpty, TypeInv, TypeOK, ListenerTypes
<1>3. SharedTypes' /\ UNCHANGED <<objs, informQ, watcher>>
  BY DEF DropEmpty, TypeInv, TypeOK, SharedTypes
<1>4. \A t \in JsonType : lcopy'[t] <= Len(objs[t])
  BY <1>1 DEF TypeInv, TypeOK, SharedTypes, ListenerTypes
<1> QED BY <1>2, <1>3, <1>4, ListenerOnly DEF TypeInv, TypeOK

\* NextSlot stays inside the report.
LEMMA NextSlotTyped ==
    ASSUME lj \in 1..6, ls \in 1..3, NEW skip, NEW pc, NEW then, NextSlot(skip, pc, then)
    PROVE  lj' \in 1..6 /\ ls' \in 1..3 /\ lpc' \in {pc, then}
  BY DEF NextSlot

\* Marshal keeps the types: what it copies is a list of entries.
LEMMA MarshalTyped ==
    ASSUME TypeInv, Marshal
    PROVE  TypeInv'
<1> DEFINE t0 == MarshalOrder[lj]
<1>0. lj \in 1..6 /\ ls \in 1..3 /\ lrep \in Report /\ lcopy \in [JsonType -> Nat]
  BY DEF TypeInv, TypeOK, ListenerTypes
<1>1. t0 \in JsonType
  BY <1>0, OrdersTyped
<1>2. lrep' \in Report
  <2>1. CASE lcopy[t0] = 0 BY <1>0, <2>1 DEF Marshal
  <2>2. CASE lcopy[t0] # 0
    <3>1. lcopy[t0] \in 1..Len(objs[t0]) /\ objs[t0] \in Seq(ObjectData)
      BY <1>0, <1>1, <2>2 DEF TypeInv, TypeOK, SharedTypes
    <3>2. objs[t0][lcopy[t0]] \in ObjectData BY <3>1
    <3>3. objs[t0][lcopy[t0]][ls] \in Seq(Item) BY <1>0, <3>2 DEF ObjectData, StateType
    <3>4. lrep' = [lrep EXCEPT !.body[t0][ls] = objs[t0][lcopy[t0]][ls]]
      BY <2>2 DEF Marshal
    <3>5. lrep.body \in [JsonType -> ObjectData] BY <1>0, ReportFields
    <3>6. [lrep.body EXCEPT ![t0][ls] = objs[t0][lcopy[t0]][ls]] \in [JsonType -> ObjectData]
      BY <1>1, <3>3, <3>5 DEF ObjectData
    <3>7. lrep' = [lrep EXCEPT !.body = [lrep.body EXCEPT ![t0][ls] = objs[t0][lcopy[t0]][ls]]]
      BY <1>0, <3>4 DEF Report
    <3> HIDE DEF t0
    <3> QED BY <1>0, <3>6, <3>7 DEF Report
  <2> QED BY <2>1, <2>2
<1>3. lj' \in 1..6 /\ ls' \in 1..3 /\ lpc' \in {"marshal", "delete"}
  BY <1>0, NextSlotTyped DEF Marshal
<1>4. ListenerTypes'
  BY <1>2, <1>3 DEF Marshal, TypeInv, TypeOK, ListenerTypes
<1>5. SharedTypes' /\ UNCHANGED <<objs, informQ, watcher, lcopy>>
  BY DEF Marshal, TypeInv, TypeOK, SharedTypes
<1> QED BY <1>4, <1>5, ListenerOnly DEF TypeInv, TypeOK

\* What DeleteData does to the objects: the list it is at becomes empty in the
\* current object, and nothing else changes.
LEMMA DeleteDataObjs ==
    ASSUME TypeInv, DeleteData
    PROVE  /\ objs' \in [JsonType -> Seq(ObjectData)]
           /\ \A u \in JsonType : Len(objs'[u]) = Len(objs[u])
           /\ \A u \in JsonType, s \in StateType :
                  u = DeleteOrder[lj] /\ s = ls => Current(u, s)' = <<>>
           /\ \A u \in JsonType, s \in StateType : Current(u, s)' # <<>> => Current(u, s) # <<>>
<1> DEFINE t0 == DeleteOrder[lj]
<1>0. lj \in 1..6 /\ ls \in StateType /\ objs \in [JsonType -> Seq(ObjectData)]
  BY DEF TypeInv, TypeOK, ListenerTypes, SharedTypes, StateType
<1>1. t0 \in JsonType
  BY <1>0, OrdersTyped
<1> DEFINE o == Len(objs[t0])
           obj == [objs[t0][o] EXCEPT ![ls] = <<>>]
<1>2. CASE objs[t0] = <<>>
  <2>1. objs' = objs BY <1>2 DEF DeleteData
  <2> QED BY <1>0, <1>2, <2>1 DEF Current
<1>3. CASE objs[t0] # <<>>
  <2>1. o \in 1..Len(objs[t0]) /\ objs[t0][o] \in ObjectData
    BY <1>0, <1>1, <1>3
  <2>2. obj \in ObjectData /\ obj[ls] = <<>>
        /\ \A s \in StateType : obj[s] # <<>> => objs[t0][o][s] # <<>>
    BY <1>0, <2>1 DEF ObjectData
  <2>3. objs' = [objs EXCEPT ![t0] = [objs[t0] EXCEPT ![o] = obj]]
    BY <1>0, <1>1, <1>3 DEF DeleteData
  <2>4. objs' \in [JsonType -> Seq(ObjectData)] /\ \A u \in JsonType : Len(objs'[u]) = Len(objs[u])
    BY <1>0, <1>1, <2>1, <2>2, <2>3, ReplaceTyped
  <2>5. objs'[t0] # <<>> /\ objs'[t0][Len(objs'[t0])] = obj
    <3>1. objs'[t0] = [objs[t0] EXCEPT ![o] = obj] /\ Len(objs'[t0]) = o BY <1>0, <1>1, <2>3, <2>4
    <3>2. objs'[t0][o] = obj BY <1>0, <1>1, <2>1, <3>1
    <3> HIDE DEF obj
    <3> QED BY <2>1, <3>1, <3>2
  <2>6. \A u \in JsonType : u # t0 => objs'[u] = objs[u]
    BY <1>0, <1>1, <2>3
  <2>7. \A u \in JsonType, s \in StateType : Current(u, s)' # <<>> => Current(u, s) # <<>>
    <3> SUFFICES ASSUME NEW u \in JsonType, NEW s \in StateType, Current(u, s)' # <<>>
                 PROVE  Current(u, s) # <<>>
      OBVIOUS
    <3>1. CASE u = t0
      <4> HIDE DEF obj, o
      <4> QED BY <1>3, <2>2, <2>5, <3>1 DEF Current, o
    <3>2. CASE u # t0 BY <2>6, <3>2 DEF Current
    <3> QED BY <3>1, <3>2
  <2>8. \A u \in JsonType, s \in StateType : u = t0 /\ s = ls => Current(u, s)' = <<>>
    <3> HIDE DEF obj
    <3> QED BY <2>2, <2>5 DEF Current
  <2> QED BY <2>4, <2>7, <2>8
<1> QED BY <1>2, <1>3

\* DeleteData keeps the types.
LEMMA DeleteDataTyped ==
    ASSUME TypeInv, DeleteData
    PROVE  TypeInv'
<1>1. objs' \in [JsonType -> Seq(ObjectData)] /\ \A u \in JsonType : Len(objs'[u]) = Len(objs[u])
  BY DeleteDataObjs
<1>2. lj' \in 1..6 /\ ls' \in 1..3 /\ lpc' \in {"delete", "decide"}
  BY NextSlotTyped DEF DeleteData, TypeInv, TypeOK, ListenerTypes
<1>3. ListenerTypes'
  BY <1>2 DEF DeleteData, TypeInv, TypeOK, ListenerTypes
<1>4. SharedTypes' /\ (\A t \in JsonType : lcopy[t] <= Len(objs[t]))'
  BY <1>1 DEF DeleteData, TypeInv, TypeOK, SharedTypes
<1>5. UNCHANGED <<informQ, watcher>>
  BY DEF DeleteData
<1>6. WatcherTypes' /\ QueueInv'
  BY <1>5, WatcherTypesKept DEF TypeInv, TypeOK, QueueInv, watcher
<1>7. (\A v \in Watchers : InCall(v))'
  <2> SUFFICES ASSUME NEW v \in Watchers PROVE InCall(v)' OBVIOUS
  <2>1. \A t \in JsonType : Len(objs[t]) <= Len(objs'[t])
    BY <1>1 DEF TypeInv, TypeOK, SharedTypes
  <2> QED BY <1>1, <1>5, <2>1, InCallKept DEF TypeInv, watcher
<1> QED BY <1>3, <1>4, <1>6, <1>7 DEF TypeInv, TypeOK

\* Decide keeps the types.
LEMMA DecideTyped ==
    ASSUME TypeInv, Decide
    PROVE  TypeInv'
<1>1. ListenerTypes'
  BY DEF Decide, TypeInv, TypeOK, ListenerTypes
<1>2. UNCHANGED <<objs, informQ, watcher, lcopy, version, first>>
  BY DEF Decide
<1>3. aggregate' \in BOOLEAN
  BY Zenon DEF Decide
<1>4. SharedTypes'
  BY <1>2, <1>3 DEF TypeInv, TypeOK, SharedTypes
<1> QED BY <1>1, <1>2, <1>4, ListenerOnly DEF TypeInv, TypeOK

\* SendReport keeps the types.
LEMMA SendReportTyped ==
    ASSUME TypeInv, SendReport
    PROVE  TypeInv'
<1>0. sent \in Seq(Report) /\ lrep \in Report
  BY DEF TypeInv, TypeOK, ListenerTypes
<1>1. sent' \in Seq(Report)
  BY <1>0, AppendSeq DEF SendReport
<1>2. ListenerTypes'
  BY <1>1 DEF SendReport, TypeInv, TypeOK, ListenerTypes
<1>3. UNCHANGED <<objs, informQ, watcher, lcopy, version, aggregate>>
  BY DEF SendReport
<1>4. first' \in BOOLEAN
  BY Zenon DEF SendReport
<1>5. SharedTypes'
  BY <1>3, <1>4 DEF TypeInv, TypeOK, SharedTypes
<1> QED BY <1>2, <1>3, <1>5, ListenerOnly DEF TypeInv, TypeOK

\* TakeInform keeps the types: the informer at the head of the queue is
\* blocked, and is not in the queue a second time.
LEMMA TakeInformTyped ==
    ASSUME TypeInv, TakeInform
    PROVE  TypeInv'
<1> DEFINE w == Head(informQ)
<1>0. informQ \in Seq(Watchers) /\ informQ # <<>>
  BY DEF TakeInform, TypeInv, TypeOK, SharedTypes
<1>1. /\ w \in Watchers /\ w = informQ[1] /\ informQ' = Tail(informQ) /\ informQ' \in Seq(Watchers)
      /\ Len(informQ') = Len(informQ) - 1
      /\ \A i \in 1..Len(informQ') : i + 1 \in 1..Len(informQ) /\ informQ'[i] = informQ[i + 1]
  BY <1>0, TailSeq DEF TakeInform
<1>2. DOMAIN informQ = 1..Len(informQ) /\ DOMAIN informQ' = 1..Len(informQ') /\ Len(informQ) \in Nat \ {0}
  BY <1>0, <1>1
<1>3. wpc[w] = "blocked" /\ todo[w] # <<>>
  <2>1. wpc[w] = "blocked" BY <1>1, <1>2 DEF TypeInv, QueueInv
  <2> QED BY <1>1, <2>1 DEF TypeInv, TypeOK, InCall
<1>4. WatcherTypes' /\ wpc'[w] \in {"select", "run"}
  BY <1>1, <1>3, CallDoneTyped DEF TakeInform, TypeInv, TypeOK, WatcherTypes
<1>5. SharedTypes'
  BY <1>1 DEF TakeInform, TypeInv, TypeOK, SharedTypes
<1>6. ListenerTypes' /\ (\A t \in JsonType : lcopy[t] <= Len(objs[t]))'
  BY DEF TakeInform, TypeInv, TypeOK, ListenerTypes
<1>7. (\A v \in Watchers : InCall(v))'
  <2> SUFFICES ASSUME NEW v \in Watchers PROVE InCall(v)' OBVIOUS
  <2>1. CASE v = w BY <2>1, <1>4 DEF InCall
  <2>2. CASE v # w
    <3>1. wpc'[v] = wpc[v] /\ todo'[v] = todo[v] /\ header'[v] = header[v] /\ objs' = objs
      BY <2>2 DEF TakeInform, Goto, CallDone, TypeInv, TypeOK, WatcherTypes
    <3> QED BY <3>1 DEF InCall, TypeInv, TypeOK
  <2> QED BY <2>1, <2>2
<1>8. QueueInv'
  <2>1. \A i \in DOMAIN informQ' : informQ'[i] # w
    BY <1>1, <1>2 DEF TypeInv, QueueInv
  <2>2. \A i \in DOMAIN informQ' : wpc'[informQ'[i]] = "blocked"
    <3> SUFFICES ASSUME NEW i \in DOMAIN informQ' PROVE wpc'[informQ'[i]] = "blocked" OBVIOUS
    <3>1. informQ'[i] = informQ[i + 1] /\ i + 1 \in DOMAIN informQ /\ informQ'[i] \in Watchers
      BY <1>1, <1>2
    <3>2. wpc[informQ'[i]] = "blocked" BY <3>1 DEF TypeInv, QueueInv
    <3>3. wpc'[informQ'[i]] = wpc[informQ'[i]]
      BY <2>1, <3>1 DEF TakeInform, Goto, TypeInv, TypeOK, WatcherTypes
    <3> QED BY <3>2, <3>3
  <2>3. \A i, j \in DOMAIN informQ' : informQ'[i] = informQ'[j] => i = j
    <3> SUFFICES ASSUME NEW i \in DOMAIN informQ', NEW j \in DOMAIN informQ', informQ'[i] = informQ'[j]
                 PROVE  i = j
      OBVIOUS
    <3>1. i + 1 \in DOMAIN informQ /\ j + 1 \in DOMAIN informQ /\ informQ[i + 1] = informQ[j + 1]
      BY <1>1, <1>2
    <3>2. i + 1 = j + 1 BY <3>1 DEF TypeInv, QueueInv
    <3> QED BY <1>2, <3>2
  <2> QED BY <2>2, <2>3 DEF QueueInv
<1> QED BY <1>4, <1>5, <1>6, <1>7, <1>8 DEF TypeInv, TypeOK

\* Every step keeps the types.
LEMMA NextTyped == TypeInv /\ [Next]_vars => TypeInv'
<1> SUFFICES ASSUME TypeInv, [Next]_vars PROVE TypeInv' OBVIOUS
<1>1. ASSUME NEW w \in Watchers, WatcherStep(w) PROVE TypeInv'
  BY <1>1, GetClusterVersionTyped, AddFindsNilTyped, AddAllocatesTyped, AddReadsTyped, AddWritesTyped,
     InformSkippedTyped, InformBlocksTyped DEF WatcherStep
<1>2. ASSUME NEW w \in Watchers, Event(w) PROVE TypeInv'
  BY <1>2, EventTyped
<1>3. CASE ListenerStep
  BY <1>3, PrepareCopiesTyped, PrepareChecksTyped, DropEmptyTyped, MarshalTyped, DeleteDataTyped,
     DecideTyped, SendReportTyped, TakeInformTyped DEF ListenerStep
<1>4. CASE UNCHANGED vars
  <2>1. UNCHANGED <<objs, informQ, watcher, listener, version, aggregate, first>> BY <1>4 DEF vars
  <2>2. SharedTypes' BY <2>1 DEF TypeInv, TypeOK, SharedTypes
  <2>3. ListenerTypes' BY <2>1, ListenerTypesKept DEF TypeInv, TypeOK
  <2>4. (\A t \in JsonType : lcopy[t] <= Len(objs[t]))' BY <2>1 DEF TypeInv, TypeOK, listener
  <2> QED BY <2>1, <2>2, <2>3, <2>4, ListenerOnly DEF TypeInv, TypeOK
<1> QED BY <1>1, <1>2, <1>3, <1>4 DEF Next

\* The types hold in every state.
LEMMA TypeInvariant == Spec => []TypeInv
  BY InitTyped, NextTyped, PTL DEF Spec

\* Type correctness, for every set of watchers and any number of events: in
\* particular every captured slice header and every copied pointer refers to
\* an object that exists, and an informer is blocked exactly once.
THEOREM TypeCorrect == Spec => []TypeOK
<1>1. TypeInv => TypeOK BY DEF TypeInv
<1> QED BY <1>1, TypeInvariant, PTL

-----------------------------------------------------------------------------
(* Only the first report is marked.  The flag aggregateFirstDataFlag falls *)
(* between preparing and sending the first report, firstReport after it;   *)
(* what the report being prepared says agrees with them all the way.       *)

MarkInv ==
    /\ first <=> sent = <<>>
    /\ aggregate <=> sent = <<>> /\ lpc # "send"
    /\ lpc = "check" => (lrep.first <=> first)
    /\ lpc \in {"len", "marshal", "delete", "decide"} => (lrep.meta <=> aggregate) /\ (lrep.first <=> first)
    /\ lpc = "send" => (lrep.meta <=> first) /\ (lrep.first <=> first)
    /\ FirstReportOnce

\* A step that leaves the flags and the listener alone.
LEMMA MarkKept ==
    ASSUME MarkInv, UNCHANGED <<first, aggregate, listener>>
    PROVE  MarkInv'
  BY DEF MarkInv, FirstReportOnce, listener

\* Watchers never touch the flags.
LEMMA WatcherKeepsMark ==
    ASSUME MarkInv, NEW w \in Watchers, WatcherStep(w) \/ Event(w)
    PROVE  MarkInv'
<1>1. UNCHANGED <<first, aggregate, listener>>
  BY DEF WatcherStep, GetClusterVersion, AddFindsNil, AddAllocates, AddReads, AddWrites, InformSkipped,
         InformBlocks, Event
<1> QED BY <1>1, MarkKept

\* The listener's steps keep the marks right.
LEMMA ListenerKeepsMark ==
    ASSUME TypeInv, MarkInv, ListenerStep
    PROVE  MarkInv'
<1>0. lrep \in Report /\ sent \in Seq(Report)
  BY DEF TypeInv, TypeOK, ListenerTypes
<1>1. CASE PrepareCopies
  <2>1. lrep'.first = first BY <1>1 DEF PrepareCopies
  <2> QED BY <1>1, <2>1 DEF PrepareCopies, MarkInv, FirstReportOnce
<1>2. CASE PrepareChecks
  <2>1. /\ lrep'.first = lrep.first
        /\ lrep'.meta = (version /\ aggregate)
    BY <1>0, <1>2 DEF PrepareChecks, Report
  <2>2. UNCHANGED <<first, aggregate, sent>> /\ lpc = "check" /\ lpc' \in {"len", "copy"}
        /\ (lpc' = "len" => version)
    BY <1>2 DEF PrepareChecks
  <2> QED BY <2>1, <2>2 DEF MarkInv, FirstReportOnce
<1>3. CASE DropEmpty
  <2>1. UNCHANGED <<first, aggregate, sent, lrep>> /\ lpc = "len" /\ lpc' \in {"len", "marshal"}
    BY <1>3 DEF DropEmpty
  <2> QED BY <2>1 DEF MarkInv, FirstReportOnce
<1>4. CASE Marshal
  <2>1. lrep'.first = lrep.first /\ lrep'.meta = lrep.meta
    BY <1>0, <1>4 DEF Marshal, Report
  <2>2. UNCHANGED <<first, aggregate, sent>> /\ lpc = "marshal" /\ lpc' \in {"marshal", "delete"}
    BY <1>4 DEF Marshal, NextSlot
  <2> QED BY <2>1, <2>2 DEF MarkInv, FirstReportOnce
<1>5. CASE DeleteData
  <2>1. UNCHANGED <<first, aggregate, sent, lrep>> /\ lpc = "delete" /\ lpc' \in {"delete", "decide"}
    BY <1>5 DEF DeleteData, NextSlot
  <2> QED BY <2>1 DEF MarkInv, FirstReportOnce
<1>6. CASE Decide
  <2>1. UNCHANGED <<first, sent, lrep>> /\ lpc = "decide"
    BY <1>6 DEF Decide
  <2>2. (lrep.meta <=> sent = <<>>) /\ (lrep.first <=> sent = <<>>)
    BY <2>1 DEF MarkInv
  <2>3. ~isEmptyFirstReport(lrep)
    BY <2>2 DEF isEmptyFirstReport
  <2>4. lpc' = "send" /\ ~aggregate'
    BY <1>6, <2>3 DEF Decide
  <2> QED BY <2>1, <2>2, <2>4 DEF MarkInv, FirstReportOnce
<1>7. CASE SendReport
  <2>1. /\ sent' = Append(sent, lrep) /\ ~first' /\ lpc = "send" /\ lpc' = "wait"
        /\ UNCHANGED aggregate
    BY <1>7 DEF SendReport
  <2>2. /\ Len(sent') = Len(sent) + 1 /\ sent'[Len(sent) + 1] = lrep
        /\ \A i \in 1..Len(sent) : sent'[i] = sent[i]
        /\ sent' # <<>> /\ DOMAIN sent' = 1..(Len(sent) + 1) /\ DOMAIN sent = 1..Len(sent)
        /\ Len(sent) \in Nat /\ (sent = <<>> <=> Len(sent) = 0)
    BY <1>0, <2>1
  <2>3. (lrep.meta <=> Len(sent) = 0) /\ (lrep.first <=> Len(sent) = 0)
    BY <2>1, <2>2 DEF MarkInv
  <2>4. FirstReportOnce'
    <3> SUFFICES ASSUME NEW i \in DOMAIN sent'
                 PROVE  (sent'[i].meta <=> i = 1) /\ (sent'[i].first <=> i = 1)
      BY DEF FirstReportOnce
    <3>1. CASE i = Len(sent) + 1 BY <2>2, <2>3, <3>1
    <3>2. CASE i # Len(sent) + 1
      <4>1. i \in DOMAIN sent /\ sent'[i] = sent[i] BY <2>2, <3>2
      <4> QED BY <4>1 DEF MarkInv, FirstReportOnce
    <3> QED BY <3>1, <3>2
  <2> QED BY <2>1, <2>2, <2>4 DEF MarkInv
<1>8. CASE TakeInform
  <2>1. UNCHANGED <<first, aggregate, sent>> /\ lpc = "wait" /\ lpc' = "copy"
    BY <1>8 DEF TakeInform
  <2> QED BY <2>1 DEF MarkInv, FirstReportOnce
<1> QED BY <1>1, <1>2, <1>3, <1>4, <1>5, <1>6, <1>7, <1>8 DEF ListenerStep

\* Exactly the first report carries the cluster metadata and the firstReport
\* flag, however the watchers interleave with prepareDataToSend.
THEOREM FirstReportIsMarkedOnce == Spec => []FirstReportOnce
<1>1. Init => MarkInv
  BY DEF Init, MarkInv, FirstReportOnce
<1>2. TypeInv /\ MarkInv /\ [Next]_vars => MarkInv'
  <2> SUFFICES ASSUME TypeInv, MarkInv, [Next]_vars PROVE MarkInv' OBVIOUS
  <2>1. CASE UNCHANGED vars BY <2>1, MarkKept DEF vars
  <2> QED BY <2>1, WatcherKeepsMark, ListenerKeepsMark DEF Next
<1>3. MarkInv => FirstReportOnce BY DEF MarkInv
<1> QED BY <1>1, <1>2, <1>3, TypeInvariant, PTL DEF Spec

-----------------------------------------------------------------------------
(* The listener never sleeps on pod data.  While pod or microservice data  *)
(* is in the report, either the listener has yet to empty that list in its *)
(* current round, or a watcher that adds before it informs has yet to      *)
(* inform it: the report is never both collected and forgotten.            *)

PodTypes == {PODS, MICROSERVICES}

\* The plans of PodWatch and CronJobWatch end with informing; the others'
\* never touch the pod and microservice fields.
PlanShape(w, plan) ==
    /\ w \in AddFirst /\ plan # <<>> => plan[Len(plan)] = Inform
    /\ w \notin AddFirst => \A i \in DOMAIN plan : plan[i].jtype \notin PodTypes
PlanInv == \A w \in Watchers : PlanShape(w, todo[w])

InformerComing == \E w \in AddFirst \cap Watchers : Owes(w)
WillClear(t, s) ==
    \/ lpc \in {"copy", "check", "len", "marshal"}
    \/ lpc = "delete" /\ \E j \in lj..6 : DeleteOrder[j] = t /\ (j = lj => s >= ls)

CoverInv ==
    /\ ~version => lpc \in {"copy", "check"}
    /\ PlanInv
    /\ \A t \in PodTypes, s \in StateType : Current(t, s) # <<>> => InformerComing \/ WillClear(t, s)

\* Both fields are emptied in the course of deleteJsonData.
LEMMA PodTypesDeleted ==
    /\ PodTypes \subseteq JsonType
    /\ \A t \in PodTypes : \E j \in 1..6 : DeleteOrder[j] = t
<1>1. DeleteOrder[2] = PODS /\ DeleteOrder[4] = MICROSERVICES
  BY DEF DeleteOrder
<1> QED BY <1>1 DEF PodTypes, JsonType, PODS, MICROSERVICES

\* Every plan has the shape.
LEMMA PlansShaped ==
    ASSUME NEW w \in AllWatchers, NEW s \in StateType, NEW plan \in Plans(w, s)
    PROVE  PlanShape(w, plan)
<1>1. CASE w = "pod"
  <2>1. plan \in PodPlans(s) BY <1>1 DEF Plans
  <2>2. \/ plan = <<Add(MICROSERVICES, CREATED), Add(PODS, CREATED), Inform>>
        \/ plan = <<Add(PODS, CREATED), Inform>>
        \/ plan = <<Add(PODS, UPDATED), Inform>>
        \/ plan = <<Add(PODS, DELETED), Inform>>
        \/ plan = <<Add(PODS, DELETED), Add(MICROSERVICES, DELETED), Inform>>
    BY <2>1 DEF PodPlans, CREATED, UPDATED, DELETED, StateType
  <2>3. plan[Len(plan)] = Inform BY <2>2
  <2> QED BY <1>1, <2>3 DEF PlanShape, AddFirst
<1>2. CASE w = "cronjob"
  <2>1. plan = <<Add(MICROSERVICES, s), Inform>> BY <1>2 DEF Plans, CronJobPlan
  <2>2. plan[Len(plan)] = Inform BY <2>1
  <2> QED BY <1>2, <2>2 DEF PlanShape, AddFirst
<1>3. CASE w \notin {"pod", "cronjob"}
  <2>1. TypeOf[w] \notin PodTypes
    BY <1>3 DEF AllWatchers, TypeOf, NODE, SERVICES, SECRETS, NAMESPACES, PodTypes, PODS, MICROSERVICES
  <2>2. plan = <<Inform, Add(TypeOf[w], s)>> BY <1>3 DEF Plans, ResourcePlan
  <2>3. DOMAIN plan = {1, 2} /\ plan[1].jtype = 0 /\ plan[2].jtype = TypeOf[w]
    BY <2>2 DEF Inform, Add
  <2> QED BY <1>3, <2>1, <2>3 DEF PlanShape, AddFirst, PodTypes, PODS, MICROSERVICES
<1> QED BY <1>1, <1>2, <1>3

\* A plan keeps its shape when its first call is done.
LEMMA TailShaped ==
    ASSUME NEW w, NEW plan \in Seq(Op), plan # <<>>, PlanShape(w, plan)
    PROVE  PlanShape(w, Tail(plan))
<1> DEFINE rest == Tail(plan)
<1>1. /\ rest \in Seq(Op) /\ Len(rest) = Len(plan) - 1
      /\ \A i \in 1..Len(rest) : i + 1 \in 1..Len(plan) /\ rest[i] = plan[i + 1]
  BY TailSeq
<1>2. DOMAIN rest = 1..Len(rest) /\ DOMAIN plan = 1..Len(plan) /\ Len(rest) \in Nat
  BY <1>1
<1>3. ASSUME w \in AddFirst, rest # <<>> PROVE rest[Len(rest)] = Inform
  <2>1. Len(rest) \in 1..Len(rest) BY <1>1, <1>3
  <2>2. rest[Len(rest)] = plan[Len(plan)] BY <1>1, <2>1
  <2> QED BY <1>3, <2>2 DEF PlanShape
<1>4. ASSUME w \notin AddFirst, NEW i \in DOMAIN rest PROVE rest[i].jtype \notin PodTypes
  BY <1>1, <1>2, <1>4 DEF PlanShape
<1> HIDE DEF rest
<1> QED BY <1>3, <1>4 DEF PlanShape, rest

\* A call that is done leaves the rest of a plan, which is a plan still.
LEMMA PlanInvCallDone ==
    ASSUME WatcherTypes, PlanInv, NEW w \in Watchers, todo[w] # <<>>, CallDone(w)
    PROVE  PlanInv'
<1>1. todo[w] \in Seq(Op) /\ PlanShape(w, todo[w]) BY DEF WatcherTypes, PlanInv
<1>2. PlanShape(w, Tail(todo[w])) BY <1>1, TailShaped
<1>3. todo' = [todo EXCEPT ![w] = Tail(todo[w])] /\ todo \in [Watchers -> Seq(Op)]
  BY DEF CallDone, WatcherTypes
<1> QED BY <1>2, <1>3 DEF PlanInv, PlanShape

\* A watcher with an unfinished plan of the right shape owes an inform.
LEMMA UnfinishedOwes ==
    ASSUME NEW w \in AddFirst \cap Watchers, WatcherTypes, PlanInv, todo[w] # <<>>
    PROVE  Owes(w)
<1>1. todo[w] \in Seq(Op) /\ PlanShape(w, todo[w]) BY DEF WatcherTypes, PlanInv
<1>2. Len(todo[w]) \in DOMAIN todo[w] BY <1>1
<1> QED BY <1>1, <1>2 DEF PlanShape, Owes

\* A step that changes none of what CoverInv talks about.
LEMMA CoverKept ==
    ASSUME CoverInv, UNCHANGED <<objs, todo, lpc, lj, ls>>, version' = version \/ version' = TRUE
    PROVE  CoverInv'
  BY DEF CoverInv, PlanInv, PlanShape, InformerComing, Owes, WillClear, Current

\* A new event: the watcher is given a plan, and owes its inform.
LEMMA EventKeepsCover ==
    ASSUME TypeInv, CoverInv, NEW w \in Watchers, Event(w)
    PROVE  CoverInv'
<1>1. PICK s \in EventStates : \E plan \in Plans(w, s) : todo' = [todo EXCEPT ![w] = plan]
  BY DEF Event
<1>2. PICK plan \in Plans(w, s) : todo' = [todo EXCEPT ![w] = plan]
  BY <1>1
<1>3. plan # <<>> /\ PlanShape(w, plan)
  BY PlansTyped, PlansShaped, WatchersAssumption, EventStatesAssumption
<1>4. todo \in [Watchers -> Seq(Op)] BY DEF TypeInv, TypeOK, WatcherTypes
<1>5. PlanInv'
  BY <1>2, <1>3, <1>4 DEF CoverInv, PlanInv, PlanShape
<1>6. UNCHANGED <<objs, lpc, lj, ls, version>> BY DEF Event, listener
<1>7. ASSUME InformerComing PROVE InformerComing'
  <2>1. PICK v \in AddFirst \cap Watchers : Owes(v) BY <1>7 DEF InformerComing
  <2>2. CASE v # w BY <1>2, <1>4, <2>1, <2>2 DEF InformerComing, Owes
  <2>3. CASE v = w
    <3>1. WatcherTypes' BY EventTyped DEF TypeInv, TypeOK
    <3>2. todo'[v] # <<>> BY <1>2, <1>3, <1>4, <2>3
    <3>3. Owes(v)'
      <4>1. todo'[v] \in Seq(Op) /\ PlanShape(v, todo'[v]) BY <1>5, <3>1 DEF WatcherTypes, PlanInv
      <4>2. Len(todo'[v]) \in DOMAIN todo'[v] BY <3>2, <4>1
      <4> QED BY <3>2, <4>1, <4>2 DEF PlanShape, Owes
    <3> QED BY <3>3 DEF InformerComing
  <2> QED BY <2>2, <2>3
<1>8. \A t \in PodTypes, st \in StateType : Current(t, st)' = Current(t, st) /\ (WillClear(t, st) => WillClear(t, st)')
  BY <1>6 DEF Current, WillClear
<1> QED BY <1>5, <1>6, <1>7, <1>8 DEF CoverInv

\* A new object is empty.
LEMMA AddAllocatesKeepsCover ==
    ASSUME TypeInv, CoverInv, NEW w \in Watchers, AddAllocates(w)
    PROVE  CoverInv'
<1> DEFINE t0 == Head(todo[w]).jtype
<1>0. t0 \in JsonType /\ objs \in [JsonType -> Seq(ObjectData)]
  BY CallTyped DEF TypeInv, TypeOK, SharedTypes, InCall, AddAllocates
<1>1. UNCHANGED <<todo, lpc, lj, ls, version>> BY DEF AddAllocates, listener
<1>2. \A t \in JsonType, s \in StateType : Current(t, s)' # <<>> => Current(t, s) # <<>>
  <2> SUFFICES ASSUME NEW t \in JsonType, NEW s \in StateType, Current(t, s)' # <<>>
               PROVE  Current(t, s) # <<>>
    OBVIOUS
  <2>1. objs' = [objs EXCEPT ![t0] = Append(objs[t0], EmptyObjectData)] BY DEF AddAllocates
  <2>2. CASE t = t0
    <3>1. objs'[t] = Append(objs[t0], EmptyObjectData) BY <1>0, <2>1, <2>2
    <3>2. objs[t0] \in Seq(ObjectData) BY <1>0
    <3>3. objs'[t] # <<>> /\ objs'[t][Len(objs'[t])] = EmptyObjectData
      BY <3>1, <3>2, EmptyAppended
    <3> QED BY <3>3 DEF Current, EmptyObjectData
  <2>3. CASE t # t0 BY <1>0, <2>1, <2>3 DEF Current
  <2> QED BY <2>2, <2>3
<1>3. \A t \in PodTypes, s \in StateType : WillClear(t, s)' <=> WillClear(t, s)
  BY <1>1 DEF WillClear
<1>4. PlanInv' /\ (InformerComing' <=> InformerComing)
  BY <1>1 DEF CoverInv, PlanInv, PlanShape, InformerComing, Owes
<1> QED BY <1>1, <1>2, <1>3, <1>4, PodTypesDeleted DEF CoverInv

\* What is stored by a pod or cron job handler is followed by its inform; what
\* the others store is not pod data.
LEMMA AddWritesKeepsCover ==
    ASSUME TypeInv, CoverInv, NEW w \in Watchers, AddWrites(w)
    PROVE  CoverInv'
<1> DEFINE t0 == Head(todo[w]).jtype
<1>0. /\ todo[w] # <<>> /\ Head(todo[w]).op = "add" /\ t0 \in JsonType /\ WatcherTypes
      /\ objs \in [JsonType -> Seq(ObjectData)] /\ todo \in [Watchers -> Seq(Op)]
  BY CallTyped DEF TypeInv, TypeOK, SharedTypes, WatcherTypes, InCall, AddWrites
<1>1. UNCHANGED <<lpc, lj, ls, version>> BY DEF AddWrites, listener
<1>2. PlanInv' BY <1>0, PlanInvCallDone DEF AddWrites, CoverInv
<1>3. todo' = [todo EXCEPT ![w] = Tail(todo[w])] BY DEF AddWrites, CallDone
<1>4. CASE w \in AddFirst
  <2>1. todo[w] \in Seq(Op) /\ todo[w][Len(todo[w])] = Inform
    BY <1>0, <1>4 DEF CoverInv, PlanInv, PlanShape
  <2>2. Len(todo[w]) # 1
    <3>1. Head(todo[w]) = todo[w][1] BY <1>0, <2>1
    <3> QED BY <1>0, <2>1, <3>1 DEF Inform
  <2>3. todo'[w] # <<>>
    <3> DEFINE rest == Tail(todo[w])
    <3>1. todo'[w] = rest BY <1>0, <1>3
    <3>2. Len(rest) = Len(todo[w]) - 1 /\ Len(todo[w]) \in Nat BY <1>0, <2>1, TailSeq
    <3>3. Len(rest) # 0 BY <2>2, <3>2
    <3> HIDE DEF rest
    <3> QED BY <3>1, <3>3
  <2>4. WatcherTypes' BY AddWritesTyped DEF TypeInv, TypeOK
  <2>5. Owes(w)'
    <3>1. todo'[w] \in Seq(Op) /\ PlanShape(w, todo'[w]) BY <1>2, <2>4 DEF WatcherTypes, PlanInv
    <3>2. Len(todo'[w]) \in DOMAIN todo'[w] BY <2>3, <3>1
    <3> QED BY <1>4, <2>3, <3>1, <3>2 DEF PlanShape, Owes
  <2>6. InformerComing' BY <1>4, <2>5 DEF InformerComing
  <2> QED BY <1>1, <1>2, <2>6 DEF CoverInv
<1>5. CASE w \notin AddFirst
  <2>1. t0 \notin PodTypes
    <3>1. todo[w] \in Seq(Op) /\ Head(todo[w]) = todo[w][1] /\ 1 \in DOMAIN todo[w] BY <1>0
    <3> QED BY <1>5, <3>1 DEF CoverInv, PlanInv, PlanShape
  <2>2. \A t \in PodTypes : objs'[t] = objs[t]
    BY <1>0, <2>1, PodTypesDeleted DEF AddWrites
  <2>3. \A t \in PodTypes, s \in StateType :
           Current(t, s)' = Current(t, s) /\ (WillClear(t, s)' <=> WillClear(t, s))
    BY <1>1, <2>2 DEF Current, WillClear
  <2>4. InformerComing' <=> InformerComing
    BY <1>0, <1>3, <1>5 DEF InformerComing, Owes
  <2> QED BY <1>1, <1>2, <2>3, <2>4 DEF CoverInv
<1> QED BY <1>4, <1>5

\* An inform is skipped only while the listener is still waiting for the
\* server version, and has its whole round before it.
LEMMA InformSkippedKeepsCover ==
    ASSUME TypeInv, CoverInv, NEW w \in Watchers, InformSkipped(w)
    PROVE  CoverInv'
<1>1. ~version /\ UNCHANGED <<lpc, version>>
  BY DEF InformSkipped, MustInform, listener
<1>2. lpc' \in {"copy", "check"} BY <1>1 DEF CoverInv
<1>3. PlanInv'
  BY PlanInvCallDone DEF InformSkipped, Calls, CoverInv, TypeInv, TypeOK
<1> QED BY <1>1, <1>2, <1>3 DEF CoverInv, WillClear

\* The watchers keep CoverInv.
LEMMA WatcherKeepsCover ==
    ASSUME TypeInv, CoverInv, NEW w \in Watchers, WatcherStep(w) \/ Event(w)
    PROVE  CoverInv'
<1>1. CASE GetClusterVersion(w) \/ AddFindsNil(w) \/ AddReads(w) \/ InformBlocks(w)
  BY <1>1, CoverKept DEF GetClusterVersion, AddFindsNil, AddReads, InformBlocks, listener
<1> QED BY <1>1, EventKeepsCover, AddAllocatesKeepsCover, AddWritesKeepsCover, InformSkippedKeepsCover
        DEF WatcherStep

\* deleteJsonData empties what it passes.
LEMMA DeleteDataKeepsCover ==
    ASSUME TypeInv, CoverInv, DeleteData
    PROVE  CoverInv'
<1>0. lj \in 1..6 /\ ls \in 1..3 /\ lpc = "delete"
  BY DEF TypeInv, TypeOK, ListenerTypes, DeleteData
<1>1. version' = version /\ version /\ todo' = todo
  BY <1>0 DEF DeleteData, CoverInv, watcher
<1>2. PlanInv' /\ (InformerComing => InformerComing')
  BY <1>1 DEF CoverInv, PlanInv, PlanShape, InformerComing, Owes
<1>3. ASSUME NEW t \in PodTypes, NEW s \in StateType, Current(t, s)' # <<>>, ~InformerComing
      PROVE  WillClear(t, s)'
  <2>1. t \in JsonType BY PodTypesDeleted
  <2>2. Current(t, s) # <<>> /\ ~(t = DeleteOrder[lj] /\ s = ls)
    BY <1>3, <2>1, DeleteDataObjs
  <2>3. PICK j \in lj..6 : DeleteOrder[j] = t /\ (j = lj => s >= ls)
    BY <1>0, <1>3, <2>2 DEF CoverInv, WillClear
  <2>4. CASE j = lj
    <3>1. s > ls /\ ls < 3 BY <1>0, <2>2, <2>3, <2>4 DEF StateType
    <3>2. objs[DeleteOrder[lj]] # <<>> BY <2>2, <2>3, <2>4 DEF Current
    <3>3. lpc' = "delete" /\ ls' = ls + 1 /\ lj' = lj
      BY <3>1, <3>2 DEF DeleteData, NextSlot
    <3>4. j \in lj'..6 /\ DeleteOrder[j] = t /\ (j = lj' => s >= ls')
      BY <1>0, <2>3, <2>4, <3>1, <3>3 DEF StateType
    <3> QED BY <3>3, <3>4 DEF WillClear
  <2>5. CASE j # lj
    <3>1. lj < 6 /\ j >= lj + 1 BY <1>0, <2>3, <2>5
    <3>2. lpc' = "delete" /\ (lj' = lj \/ (lj' = lj + 1 /\ ls' = 1))
      BY <3>1 DEF DeleteData, NextSlot
    <3>3. j \in lj'..6 /\ DeleteOrder[j] = t /\ (j = lj' => s >= ls')
      BY <1>0, <2>3, <2>5, <3>1, <3>2 DEF StateType
    <3> QED BY <3>2, <3>3 DEF WillClear
  <2> QED BY <2>4, <2>5
<1> QED BY <1>1, <1>2, <1>3 DEF CoverInv

\* The listener keeps CoverInv.
LEMMA ListenerKeepsCover ==
    ASSUME TypeInv, CoverInv, ListenerStep
    PROVE  CoverInv'
<1>0. lj \in 1..6 /\ ls \in 1..3
  BY DEF TypeInv, TypeOK, ListenerTypes
<1>1. CASE PrepareCopies \/ PrepareChecks
  <2>1. UNCHANGED <<objs, todo, version>> /\ lpc' \in {"copy", "check", "len"} /\ (lpc' = "len" => version)
    BY <1>1 DEF PrepareCopies, PrepareChecks, watcher
  <2> QED BY <2>1 DEF CoverInv, PlanInv, PlanShape, WillClear
<1>2. CASE DropEmpty
  <2>1. UNCHANGED <<objs, todo, version>> /\ lpc = "len" /\ lpc' \in {"len", "marshal"}
    BY <1>2 DEF DropEmpty, watcher
  <2> QED BY <2>1 DEF CoverInv, PlanInv, PlanShape, WillClear
<1>3. CASE Marshal
  <2>1. UNCHANGED <<objs, todo, version>> /\ lpc = "marshal"
    BY <1>3 DEF Marshal, watcher
  <2>2. lpc' = "marshal" \/ (lpc' = "delete" /\ lj' = 1 /\ ls' = 1)
    BY <1>3 DEF Marshal, NextSlot
  <2>3. \A t \in PodTypes, s \in StateType : WillClear(t, s)'
    BY <2>2, PodTypesDeleted DEF WillClear, StateType
  <2> QED BY <2>1, <2>3 DEF CoverInv, PlanInv, PlanShape
<1>4. CASE DeleteData
  BY <1>4, DeleteDataKeepsCover
<1>5. CASE Decide \/ SendReport
  <2>1. UNCHANGED <<objs, todo, version>> /\ lpc \in {"decide", "send"}
    BY <1>5 DEF Decide, SendReport, watcher
  <2>2. version /\ \A t \in PodTypes, s \in StateType : ~WillClear(t, s)
    BY <2>1 DEF CoverInv, WillClear
  <2>3. \A t \in PodTypes, s \in StateType : Current(t, s)' # <<>> => InformerComing'
    BY <2>1, <2>2 DEF CoverInv, InformerComing, Owes, Current
  <2> QED BY <2>1, <2>2, <2>3 DEF CoverInv, PlanInv, PlanShape
<1>6. CASE TakeInform
  <2>1. lpc' = "copy" /\ UNCHANGED version BY <1>6 DEF TakeInform
  <2>2. PlanInv'
    <3> DEFINE w == Head(informQ)
    <3>1. informQ \in Seq(Watchers) /\ informQ # <<>>
      BY <1>6 DEF TakeInform, TypeInv, TypeOK, SharedTypes
    <3>2. w \in Watchers /\ w = informQ[1] /\ 1 \in DOMAIN informQ BY <3>1
    <3>3. todo[w] # <<>> BY <3>2 DEF TypeInv, TypeOK, QueueInv, InCall
    <3> QED BY <1>6, <3>2, <3>3, PlanInvCallDone DEF TakeInform, CoverInv, TypeInv, TypeOK
  <2> QED BY <2>1, <2>2 DEF CoverInv, WillClear
<1> QED BY <1>1, <1>2, <1>3, <1>4, <1>5, <1>6 DEF ListenerStep

\* ListenerAndSender never sleeps on pod or microservice data nobody will wake
\* it for, whatever the races on the lists lose or bring back.
THEOREM PodDataIsCovered == Spec => []PodDataCovered
<1>1. Init => CoverInv
  BY DEF Init, CoverInv, PlanInv, PlanShape, WillClear
<1>2. TypeInv /\ CoverInv /\ [Next]_vars => CoverInv'
  <2> SUFFICES ASSUME TypeInv, CoverInv, [Next]_vars PROVE CoverInv' OBVIOUS
  <2>1. CASE UNCHANGED vars BY <2>1, CoverKept DEF vars, watcher, listener
  <2> QED BY <2>1, WatcherKeepsCover, ListenerKeepsCover DEF Next
<1>3. CoverInv => PodDataCovered
  BY DEF CoverInv, PodDataCovered, Holds, InformerComing, WillClear, PodTypes
<1> QED BY <1>1, <1>2, <1>3, TypeInvariant, PTL DEF Spec
=============================================================================
