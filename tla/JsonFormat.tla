----------------------------- MODULE JsonFormat -----------------------------
(***************************************************************************)
(* The report that kollector accumulates and sends (watch/jsonformat.go):  *)
(* six fields, one per resource type, each a pointer to an ObjectData with *)
(* three lists.  An entry of a list is the watcher that wrote it and the   *)
(* number of the event it stands for; the resource itself is abstracted.   *)
(***************************************************************************)
EXTENDS Integers, Sequences

\* JsonType: NODE, SERVICES, MICROSERVICES, PODS, SECRETS, NAMESPACES.
NODE == 1
SERVICES == 2
MICROSERVICES == 3
PODS == 4
SECRETS == 5
NAMESPACES == 6
JsonType == 1..6

CREATED == 1
DELETED == 2
UPDATED == 3
StateType == 1..3

\* The goroutines that call AddToJsonFormat: one per watched resource.
AllWatchers == {"node", "service", "secret", "namespace", "pod", "cronjob"}

Item == [by : AllWatchers, n : Nat]

\* &ObjectData{}: three lists, all empty.
ObjectData == [StateType -> Seq(Item)]
EmptyObjectData == [s \in StateType |-> <<>>]

\* obj.Len() == 0.
IsEmptyObject(obj) == \A s \in StateType : obj[s] = <<>>

\* obj.<list> = append(list, NewData): the list was read earlier, and the
\* write replaces whatever the field holds by then.
AddToJsonFormatByState(obj, s, list, data) == [obj EXCEPT ![s] = Append(list, data)]

\* The order in which prepareDataToSend drops empty fields, in which
\* encoding/json walks the struct, and in which deleteJsonData empties it.
LenOrder == <<NODE, SERVICES, SECRETS, PODS, MICROSERVICES, NAMESPACES>>
MarshalOrder == <<NODE, SERVICES, MICROSERVICES, PODS, SECRETS, NAMESPACES>>
\* Faulty variant: the pods' lines were copied from the nodes' and not changed.
DeleteOrderWithoutPods == <<NODE, NODE, SERVICES, MICROSERVICES, SECRETS, NAMESPACES>>
DeleteOrder == <<NODE, PODS, SERVICES, MICROSERVICES, SECRETS, NAMESPACES>>

\* What a marshalled report holds: the firstReport flag, whether the cluster
\* metadata (API server version, installation data) is in it, and the lists.
Report == [first : BOOLEAN, meta : BOOLEAN, body : [JsonType -> ObjectData]]
EmptyBody == [t \in JsonType |-> EmptyObjectData]
HasNoData(r) == \A t \in JsonType : IsEmptyObject(r.body[t])

\* Faulty variant: every report without data counts as an empty first one.
isEmptyReport(r) == ~r.meta /\ HasNoData(r)

\* The length test of isEmptyFirstReport: 0 and 2 bytes never come out of
\* json.Marshal here, and 20 bytes is exactly {"firstReport":true}.  The
\* report {"firstReport":false} has 21 and is not recognised.
isEmptyFirstReport(r) == r.first /\ ~r.meta /\ HasNoData(r)
=============================================================================
