--------------------------- MODULE ReportPipeline ---------------------------
(***************************************************************************)
(* The goroutines of kollector that share one WatchHandler: a watcher per  *)
(* resource type (NodeWatch, PodWatch, ...) turns cluster events into      *)
(* entries of wh.jsonReport and informs ListenerAndSender, which marshals  *)
(* the report, empties it and hands it to the websocket sender.  Nothing   *)
(* locks wh.jsonReport, so a step here is one access to a shared word: a   *)
(* pointer, a flag or a slice header.                                      *)
(*                                                                         *)
(* What a handler does before it touches the report (dictionaries, owner   *)
(* lookups, creation times) is abstracted to the choice of its plan: the   *)
(* AddToJsonFormat and informNewDataArrive calls it makes, in code order.  *)
(***************************************************************************)
EXTENDS JsonFormat

CONSTANTS
    Watchers,       \* the watcher goroutines of this instance
    EventStates,    \* bound: the kinds of event that arrive (of StateType)
    MaxEvents       \* bound: how many reported events each watcher gets

ASSUME WatchersAssumption == Watchers \subseteq AllWatchers
ASSUME EventStatesAssumption == EventStates \subseteq StateType
ASSUME MaxEventsAssumption == MaxEvents \in [Watchers -> Nat]

VARIABLES
    objs,       \* per field, every ObjectData it pointed to; the last is current
    version,    \* wh.clusterAPIServerVersion # nil
    aggregate,  \* wh.aggregateFirstDataFlag
    first,      \* wh.jsonReport.FirstReport
    informQ,    \* watchers blocked sending on wh.informNewDataChannel
    wpc,        \* where each watcher is
    todo,       \* the calls its handler still has to make
    header,     \* slice header it read and will write back
    evt,        \* events it reported so far
    lpc,        \* where ListenerAndSender is
    lcopy,      \* prepareDataToSend's copy: index into objs, 0 for nil
    lrep,       \* the report being marshalled
    lj, ls,     \* field and list it is at
    sent        \* reports handed to the websocket sender, in order

watcher == <<wpc, todo, header, evt>>
listener == <<lpc, lcopy, lrep, lj, ls, sent>>
vars == <<objs, version, aggregate, first, informQ, watcher, listener>>

-----------------------------------------------------------------------------
(* Plans of the event handlers.                                            *)

Inform == [op |-> "inform", jtype |-> 0, stype |-> 0]
Add(t, s) == [op |-> "add", jtype |-> t, stype |-> s]

\* PodWatch and CronJobWatch call AddToJsonFormat before informNewDataArrive,
\* the other four handlers after it.
AddFirst == {"pod", "cronjob"}
TypeOf == [node |-> NODE, service |-> SERVICES, secret |-> SECRETS, namespace |-> NAMESPACES]

\* Faulty variant: PodWatch informs before it adds a new pod.
PodPlansInformFirst(s) ==
    IF s = CREATED THEN {<<Inform, Add(PODS, CREATED)>>} ELSE {<<Add(PODS, s), Inform>>}
PodPlans(s) ==
    CASE s = CREATED -> {<<Add(MICROSERVICES, CREATED), Add(PODS, CREATED), Inform>>,
                         <<Add(PODS, CREATED), Inform>>}
      [] s = UPDATED -> {<<Add(PODS, UPDATED), Inform>>}
      [] s = DELETED -> {<<Add(PODS, DELETED), Inform>>,
                         <<Add(PODS, DELETED), Add(MICROSERVICES, DELETED), Inform>>}
\* Faulty variant: CronJobWatch informs before it adds.
CronJobPlanInformFirst(s) == <<Inform, Add(MICROSERVICES, s)>>
CronJobPlan(s) == <<Add(MICROSERVICES, s), Inform>>
\* Faulty variant: updates are added without informing.
ResourcePlanQuiet(w, s) ==
    IF s = UPDATED THEN <<Add(TypeOf[w], s)>> ELSE <<Inform, Add(TypeOf[w], s)>>
ResourcePlan(w, s) == <<Inform, Add(TypeOf[w], s)>>

Plans(w, s) ==
    CASE w = "pod" -> PodPlans(s)
      [] w = "cronjob" -> {CronJobPlan(s)}
      [] OTHER -> {ResourcePlan(w, s)}

-----------------------------------------------------------------------------
(* A watcher.                                                              *)

NoHeader == [obj |-> 0, list |-> <<>>]

Goto(w, pc) == wpc' = [wpc EXCEPT ![w] = pc]

\* NodeWatch asks for the server version before it opens its watch.
GetClusterVersion(w) ==
    /\ wpc[w] = "version"
    /\ version' = TRUE
    /\ Goto(w, "select")
    /\ UNCHANGED <<objs, aggregate, first, informQ, todo, header, evt, listener>>

\* An event arrives that the handler reports.
Event(w) ==
    /\ wpc[w] = "select"
    /\ evt[w] < MaxEvents[w]
    /\ \E s \in EventStates : \E plan \in Plans(w, s) : todo' = [todo EXCEPT ![w] = plan]
    /\ evt' = [evt EXCEPT ![w] = @ + 1]
    /\ Goto(w, "run")
    /\ UNCHANGED <<objs, version, aggregate, first, informQ, header, listener>>

AfterCall(w) == IF Len(todo[w]) = 1 THEN "select" ELSE "run"
CallDone(w) == todo' = [todo EXCEPT ![w] = Tail(@)]
Calls(w, op) == wpc[w] = "run" /\ todo[w] # <<>> /\ Head(todo[w]).op = op

\* if jsonReport.<field> == nil, read; the allocation is a later write.
AddFindsNil(w) ==
    /\ Calls(w, "add")
    /\ objs[Head(todo[w]).jtype] = <<>>
    /\ Goto(w, "alloc")
    /\ UNCHANGED <<objs, version, aggregate, first, informQ, todo, header, evt, listener>>

AddAllocates(w) ==
    /\ wpc[w] = "alloc"
    /\ objs' = [objs EXCEPT ![Head(todo[w]).jtype] = Append(@, EmptyObjectData)]
    /\ Goto(w, "run")
    /\ UNCHANGED <<version, aggregate, first, informQ, todo, header, evt, listener>>

\* The read half of obj.<list> = append(obj.<list>, NewData).
AddReads(w) ==
    LET t == Head(todo[w]).jtype
        s == Head(todo[w]).stype
    IN  /\ Calls(w, "add")
        /\ objs[t] # <<>>
        /\ header' = [header EXCEPT ![w] =
               [obj |-> Len(objs[t]), list |-> objs[t][Len(objs[t])][s]]]
        /\ Goto(w, "store")
        /\ UNCHANGED <<objs, version, aggregate, first, informQ, todo, evt, listener>>

\* The write half: the list read before, extended, into the object read before.
AddWrites(w) ==
    LET t == Head(todo[w]).jtype
        s == Head(todo[w]).stype
        h == header[w]
    IN  /\ wpc[w] = "store"
        /\ objs' = [objs EXCEPT ![t][h.obj] =
               AddToJsonFormatByState(@, s, h.list, [by |-> w, n |-> evt[w]])]
        /\ header' = [header EXCEPT ![w] = NoHeader]
        /\ CallDone(w)
        /\ Goto(w, AfterCall(w))
        /\ UNCHANGED <<version, aggregate, first, informQ, evt, listener>>

\* Before the cluster version is known the first data is only aggregated.
MustInform == ~aggregate \/ version

InformSkipped(w) ==
    /\ Calls(w, "inform")
    /\ ~MustInform
    /\ CallDone(w)
    /\ Goto(w, AfterCall(w))
    /\ UNCHANGED <<objs, version, aggregate, first, informQ, header, evt, listener>>

\* The send blocks until WaitTillNewDataArrived receives it.
InformBlocks(w) ==
    /\ Calls(w, "inform")
    /\ MustInform
    /\ informQ' = Append(informQ, w)
    /\ Goto(w, "blocked")
    /\ UNCHANGED <<objs, version, aggregate, first, todo, header, evt, listener>>

WatcherStep(w) ==
    \/ GetClusterVersion(w)
    \/ AddFindsNil(w) \/ AddAllocates(w) \/ AddReads(w) \/ AddWrites(w)
    \/ InformSkipped(w) \/ InformBlocks(w)

-----------------------------------------------------------------------------
(* ListenerAndSender.  SetFirstReportFlag(true), its first call, changes    *)
(* nothing in a process that starts with the flag set.                     *)

\* jsonReport := wh.jsonReport
PrepareCopies ==
    /\ lpc = "copy"
    /\ lcopy' = [t \in JsonType |-> Len(objs[t])]
    /\ lrep' = [first |-> first, meta |-> FALSE, body |-> EmptyBody]
    /\ lpc' = "check"
    /\ UNCHANGED <<objs, version, aggregate, first, informQ, watcher, lj, ls, sent>>

\* No report before the server version is known; the first one carries it.
PrepareChecks ==
    /\ lpc = "check"
    /\ lrep' = [lrep EXCEPT !.meta = version /\ aggregate]
    /\ lpc' = IF version THEN "len" ELSE "copy"
    /\ lj' = 1
    /\ UNCHANGED <<objs, version, aggregate, first, informQ, watcher, lcopy, ls, sent>>

\* if jsonReport.<field>.Len() == 0 { jsonReport.<field> = nil }
DropEmpty ==
    LET t == LenOrder[lj]
    IN  /\ lpc = "len"
        /\ lcopy' = IF lcopy[t] # 0 /\ IsEmptyObject(objs[t][lcopy[t]])
                      THEN [lcopy EXCEPT ![t] = 0] ELSE lcopy
        /\ IF lj < 6 THEN lpc' = "len" /\ lj' = lj + 1
                     ELSE lpc' = "marshal" /\ lj' = 1
        /\ ls' = 1
        /\ UNCHANGED <<objs, version, aggregate, first, informQ, watcher, lrep, sent>>

\* Faulty variant: one list too many.
NextSlotOffByOne(skip, pc, then) ==
    IF ls <= 3 /\ ~skip
      THEN lpc' = pc /\ ls' = ls + 1 /\ lj' = lj
      ELSE /\ ls' = 1
           /\ IF lj < 6 THEN lpc' = pc /\ lj' = lj + 1
                        ELSE lpc' = then /\ lj' = 1

\* Advance from list to list and from field to field; a nil field is skipped.
NextSlot(skip, pc, then) ==
    IF ls < 3 /\ ~skip
      THEN lpc' = pc /\ ls' = ls + 1 /\ lj' = lj
      ELSE /\ ls' = 1
           /\ IF lj < 6 THEN lpc' = pc /\ lj' = lj + 1
                        ELSE lpc' = then /\ lj' = 1

\* json.Marshal reads the live lists, one after the other.
Marshal ==
    LET t == MarshalOrder[lj]
    IN  /\ lpc = "marshal"
        /\ lrep' = IF lcopy[t] # 0
                     THEN [lrep EXCEPT !.body[t][ls] = objs[t][lcopy[t]][ls]] ELSE lrep
        /\ NextSlot(lcopy[t] = 0, "marshal", "delete")
        /\ UNCHANGED <<objs, version, aggregate, first, informQ, watcher, lcopy, sent>>

\* deleteJsonData empties the lists of the objects wh.jsonReport points to now.
DeleteData ==
    LET t == DeleteOrder[lj]
    IN  /\ lpc = "delete"
        /\ objs' = IF objs[t] # <<>>
                     THEN [objs EXCEPT ![t][Len(objs[t])][ls] = <<>>] ELSE objs
        /\ NextSlot(objs[t] = <<>>, "delete", "decide")
        /\ UNCHANGED <<version, aggregate, first, informQ, watcher, lcopy, lrep, sent>>

\* Faulty variant: the aggregation of the first data never ends.
DecideKeepsAggregating ==
    /\ lpc = "decide"
    /\ aggregate' = aggregate
    /\ lpc' = IF isEmptyFirstReport(lrep) THEN "copy" ELSE "send"
    /\ UNCHANGED <<objs, version, first, informQ, watcher, lcopy, lrep, lj, ls, sent>>

\* The first report that is not empty ends the aggregation; an empty first
\* report is skipped and prepared again.
Decide ==
    /\ lpc = "decide"
    /\ aggregate' = (aggregate /\ isEmptyFirstReport(lrep))
    /\ lpc' = IF isEmptyFirstReport(lrep) THEN "copy" ELSE "send"
    /\ UNCHANGED <<objs, version, first, informQ, watcher, lcopy, lrep, lj, ls, sent>>

\* SendMessageToWebSocket, then SetFirstReportFlag(false).
SendReport ==
    /\ lpc = "send"
    /\ sent' = Append(sent, lrep)
    /\ first' = FALSE
    /\ lpc' = "wait"
    /\ UNCHANGED <<objs, version, aggregate, informQ, watcher, lcopy, lrep, lj, ls>>

\* WaitTillNewDataArrived: take one informer, which goes on with its handler.
TakeInform ==
    LET w == Head(informQ)
    IN  /\ lpc = "wait"
        /\ informQ # <<>>
        /\ informQ' = Tail(informQ)
        /\ CallDone(w)
        /\ Goto(w, AfterCall(w))
        /\ lpc' = "copy"
        /\ UNCHANGED <<objs, version, aggregate, first, header, evt, lcopy, lrep, lj, ls, sent>>

ListenerStep ==
    \/ PrepareCopies \/ PrepareChecks \/ DropEmpty \/ Marshal \/ DeleteData
    \/ Decide \/ SendReport \/ TakeInform

-----------------------------------------------------------------------------

Init ==
    /\ objs = [t \in JsonType |-> <<>>]
    /\ version = FALSE
    /\ aggregate = TRUE
    /\ first = TRUE
    /\ informQ = <<>>
    /\ wpc = [w \in Watchers |-> IF w = "node" THEN "version" ELSE "select"]
    /\ todo = [w \in Watchers |-> <<>>]
    /\ header = [w \in Watchers |-> NoHeader]
    /\ evt = [w \in Watchers |-> 0]
    /\ lpc = "copy"
    /\ lcopy = [t \in JsonType |-> 0]
    /\ lrep = [first |-> TRUE, meta |-> FALSE, body |-> EmptyBody]
    /\ lj = 1
    /\ ls = 1
    /\ sent = <<>>

Next ==
    \/ \E w \in Watchers : WatcherStep(w) \/ Event(w)
    \/ ListenerStep

\* Goroutines that can run do run; events need not happen.
Fairness == WF_vars(ListenerStep) /\ \A w \in Watchers : WF_vars(WatcherStep(w))

Spec == Init /\ [][Next]_vars
FairSpec == Spec /\ Fairness
-----------------------------------------------------------------------------
(* Properties.                                                             *)

Op == {Inform} \cup [op : {"add"}, jtype : JsonType, stype : StateType]

\* Every variable keeps its type, the indices into objs that the watchers and
\* the listener hold are of objects that exist, and a goroutine that is in the
\* middle of a call has that call at the head of its plan.
SharedTypes ==
    /\ objs \in [JsonType -> Seq(ObjectData)]
    /\ version \in BOOLEAN /\ aggregate \in BOOLEAN /\ first \in BOOLEAN
    /\ informQ \in Seq(Watchers)
WatcherTypes ==
    /\ wpc \in [Watchers -> {"version", "select", "run", "alloc", "store", "blocked"}]
    /\ todo \in [Watchers -> Seq(Op)]
    /\ header \in [Watchers -> [obj : Nat, list : Seq(Item)]]
    /\ evt \in [Watchers -> Nat]
ListenerTypes ==
    /\ lpc \in {"copy", "check", "len", "marshal", "delete", "decide", "send", "wait"}
    /\ lcopy \in [JsonType -> Nat]
    /\ lrep \in Report
    /\ lj \in 1..6 /\ ls \in 1..3
    /\ sent \in Seq(Report)
InCall(w) ==
    /\ wpc[w] \in {"alloc", "store"} => todo[w] # <<>> /\ Head(todo[w]).op = "add"
    /\ wpc[w] = "store" => header[w].obj \in 1..Len(objs[Head(todo[w]).jtype])
    /\ wpc[w] = "blocked" => todo[w] # <<>> /\ Head(todo[w]) = Inform
TypeOK ==
    /\ SharedTypes /\ WatcherTypes /\ ListenerTypes
    /\ \A t \in JsonType : lcopy[t] <= Len(objs[t])
    /\ \A w \in Watchers : InCall(w)

\* What a field of wh.jsonReport holds in list s now.
Current(t, s) == IF objs[t] = <<>> THEN <<>> ELSE objs[t][Len(objs[t])][s]
Holds(t) == \E s \in StateType : Current(t, s) # <<>>
Owes(w) == \E i \in DOMAIN todo[w] : todo[w][i] = Inform

\* ListenerAndSender never goes to sleep on pod or microservice data nobody
\* will wake it for: while it waits, a non-empty field is one whose writer is
\* still to inform it.  (PodWatch and CronJobWatch add before they inform, and
\* the inform they skip before the server version is known is never needed.)
PodDataCovered ==
    lpc = "wait" =>
        \A t \in {PODS, MICROSERVICES} : Holds(t) => \E w \in AddFirst \cap Watchers : Owes(w)

Entries(list) == {list[k] : k \in DOMAIN list}
ReportItems(r) == UNION {Entries(r.body[t][s]) : t \in JsonType, s \in StateType}
SentItems == UNION {ReportItems(sent[i]) : i \in DOMAIN sent}
Unreported(w) == (UNION {Entries(Current(TypeOf[w], s)) : s \in StateType}) \ SentItems

\* Node, service, secret and namespace handlers inform before they add, so
\* their last change can sit in the report while the listener sleeps; but once
\* a change of theirs has been sent, never more than that one does.  (Changes
\* collected before the first report can do worse: it drops a field that was
\* nil when it was copied, and a racing append brings all of it back.)
AtMostOneStranded ==
    lpc = "wait" =>
        \A w \in Watchers \ AddFirst :
            (\E it \in SentItems : it.by = w) => \A a, b \in Unreported(w) : a = b

\* Exactly the first report carries the cluster metadata and the firstReport
\* flag: what was collected before the server version was known goes out with
\* it, and no later report repeats it.
FirstReportOnce == \A i \in DOMAIN sent : (sent[i].meta <=> i = 1) /\ (sent[i].first <=> i = 1)

\* In the fields with one writer the last entry of a list is news: newer than
\* everything any earlier report had there, although a racing append can
\* bring back entries that were sent before; and each list is in event order.
SingleWriter == JsonType \ {MICROSERVICES}
ReportsMoveForward ==
    \A t \in SingleWriter, s \in StateType, j \in DOMAIN sent :
        LET l == sent[j].body[t][s]
        IN  /\ \A a, b \in DOMAIN l : a < b => l[a].n < l[b].n
            /\ \A i \in 1..(j - 1) : \A a \in DOMAIN sent[i].body[t][s] :
                   l # <<>> => sent[i].body[t][s][a].n < l[Len(l)].n

\* A handler blocked in informNewDataArrive gets through to the listener.
InformersReleased == \A w \in Watchers : wpc[w] = "blocked" ~> wpc[w] # "blocked"

\* Pod and microservice data leaves the report.
PodDataLeaves == \A t \in {PODS, MICROSERVICES} : Holds(t) ~> ~Holds(t)

\* Every change a handler has finished with is in the report being collected,
\* in the one being prepared, or was sent.
Collected == UNION {Entries(Current(t, s)) : t \in JsonType, s \in StateType}
NoLostChange ==
    \A w \in Watchers : wpc[w] = "select" =>
        \A n \in 1..evt[w] : [by |-> w, n |-> n] \in Collected \cup ReportItems(lrep) \cup SentItems

\* A report without metadata and without data is not sent.
NoEmptyReport == \A i \in DOMAIN sent : sent[i].meta \/ ~HasNoData(sent[i])
=============================================================================
