------------------------- MODULE ReportStrandedProofs -------------------------
(***************************************************************************)
(* Proofs about what stays behind in ReportPipeline while the listener     *)
(* sleeps, for every set of watchers and any number of events: of a        *)
(* watcher that informs before it adds, at most its last change, once one  *)
(* of its changes was sent.                                                *)
(***************************************************************************)
EXTENDS ReportOrderProofs

(* What is in a list, a report, or was sent of field t.                     *)

InformFirst == Watchers \ AddFirst
Within(e, l) == \E k \in 1..Len(l) : l[k] = e
InReport(e, t, rep) == \E s \in StateType : Within(e, rep.body[t][s])
WasSent(e, t, all) == \E i \in 1..Len(all) : InReport(e, t, all[i])
NoData(t, rep) == \A s \in StateType : rep.body[t][s] = <<>>
NothingOut(t, rep, all) == NoData(t, rep) /\ \A i \in 1..Len(all) : NoData(t, all[i])

\* Nothing of the field was sent, or of the list all that is older than n.
CoveredBy(l, t, n, rep, all) ==
    \/ NothingOut(t, rep, all)
    \/ \A k \in 1..Len(l) : l[k].n < n => InReport(l[k], t, rep) \/ WasSent(l[k], t, all)

\* The last event of w for which the listener was informed (or need not be).
Newest(w) == IF Owes(w) THEN evt[w] - 1 ELSE evt[w]
Covered(l, w, t) == CoveredBy(l, t, Newest(w), lrep, sent)
NoneHeld(t) == \A s \in StateType : Current(t, s) = <<>>

(* The invariant, for w in InformFirst and its field t.                     *)

VersionInv == ~version => sent = <<>> /\ lpc \in {"copy", "check"}

\* A handler that informs before it adds.
Shape(plan, t) ==
    \/ plan = <<>>
    \/ \E s \in StateType : plan = <<Add(t, s)>> \/ plan = <<Inform, Add(t, s)>>
Adding(w) == todo[w] # <<>> /\ ~Owes(w)
IdleInv == \A w \in Watchers : wpc[w] \in {"version", "select"} => todo[w] = <<>>

\* The report in preparation is empty until the field is marshalled; between
\* two rounds it has nothing that was not sent.
RepInv(t) ==
    /\ (lpc \in {"check", "len"} \/ (lpc = "marshal" /\ lcopy[t] = 0)) => NoData(t, lrep)
    /\ lpc \in {"wait", "copy"} =>
           \A s \in StateType : \A k \in 1..Len(lrep.body[t][s]) : WasSent(lrep.body[t][s][k], t, sent)

\* While the change is not added, what the listener emptied stays empty.
LateInv(w, t) == Adding(w) => \A s \in StateType : Cleared(t, s) => Current(t, s) = <<>>

\* What a store will bring back that the round has not emptied away: nothing,
\* or all that is left, and that is covered.
HeaderInv(w, t) ==
    lpc \in {"copy", "check", "len", "marshal"} =>
        \A s \in StateType : Storing(w, t, s) =>
            \/ header[w].list = Current(t, s)
            \/ NoneHeld(t) /\ Covered(header[w].list, w, t)

\* A field that was not dropped has data.
Kept(t) ==
    /\ lcopy[t] # 0
    /\ lpc = "marshal" \/ (lpc = "len" /\ \E j \in 1..(lj - 1) : LenOrder[j] = t)
KeptInv(t) == Kept(t) => ~NoneHeld(t)

\* What was marshalled has all but what came after the inform.
Marshalled(t, s) == lpc = "marshal" /\ \E j \in 1..lj : MarshalOrder[j] = t /\ (j = lj => s < ls)
Has(t, s, n, rep, l) == \A k \in 1..Len(l) : l[k].n < n => Within(l[k], rep.body[t][s])
MarshalInv(w, t) ==
    lcopy[t] # 0 => \A s \in StateType :
        Marshalled(t, s) => Has(t, s, Newest(w), lrep, Current(t, s))

\* The round has taken from the field what it takes.
Taken(t) ==
    \/ lpc \in {"delete", "decide", "send", "wait"}
    \/ lpc \in {"check", "len", "marshal"} /\ lcopy[t] = 0
CoveredInv(w, t) ==
    Taken(t) => \A s \in StateType : /\ Covered(Current(t, s), w, t)
                                     /\ Storing(w, t, s) => Covered(header[w].list, w, t)

Strand(w, t) ==
    RepInv(t) /\ LateInv(w, t) /\ HeaderInv(w, t) /\ KeptInv(t) /\ MarshalInv(w, t) /\ CoveredInv(w, t)
StrandInv == \A w \in InformFirst : Shape(todo[w], TypeOf[w]) /\ Strand(w, TypeOf[w])

-----------------------------------------------------------------------------
(* Plans and cover.                                                         *)

\* Each of them writes a field of its own.
LEMMA OwnField ==
    ASSUME NEW w \in InformFirst
    PROVE  /\ w \in Watchers /\ w \in AllWatchers /\ TypeOf[w] \in SingleWriter /\ TypeOf[w] \in JsonType
           /\ Writer[TypeOf[w]] = w
<1>1. w \in Watchers /\ w \in AllWatchers /\ w \notin {"pod", "cronjob"}
  BY WatchersAssumption DEF InformFirst, AddFirst
<1> QED BY <1>1, WriterOfType, Fields

\* The three forms of what is left of a handler.
LEMMA ShapeCases ==
    ASSUME NEW plan, NEW t, Shape(plan, t)
    PROVE  \/ plan = <<>> /\ ~\E i \in DOMAIN plan : plan[i] = Inform
           \/ \E s \in StateType : /\ plan = <<Add(t, s)>> /\ plan # <<>> /\ Len(plan) = 1
                                   /\ Head(plan) = Add(t, s) /\ Head(plan).op = "add" /\ Tail(plan) = <<>>
                                   /\ ~\E i \in DOMAIN plan : plan[i] = Inform
           \/ \E s \in StateType : /\ plan = <<Inform, Add(t, s)>> /\ plan # <<>> /\ Len(plan) = 2
                                   /\ Head(plan) = Inform /\ Head(plan).op = "inform"
                                   /\ Tail(plan) = <<Add(t, s)>>
                                   /\ \E i \in DOMAIN plan : plan[i] = Inform
<1>1. CASE plan = <<>> BY <1>1
<1>2. ASSUME NEW s \in StateType, plan = <<Add(t, s)>>
      PROVE  /\ plan # <<>> /\ Len(plan) = 1 /\ Head(plan) = Add(t, s) /\ Head(plan).op = "add"
             /\ Tail(plan) = <<>> /\ ~\E i \in DOMAIN plan : plan[i] = Inform
  <2>1. Len(plan) = 1 /\ plan[1] = Add(t, s) /\ Head(plan) = Add(t, s) /\ DOMAIN plan = 1..1 BY <1>2
  <2>2. Tail(plan) = <<>> BY <1>2
  <2>3. Add(t, s) # Inform /\ Head(plan).op = "add" BY <2>1, AddsDiffer
  <2> QED BY <2>1, <2>2, <2>3
<1>3. ASSUME NEW s \in StateType, plan = <<Inform, Add(t, s)>>
      PROVE  /\ plan # <<>> /\ Len(plan) = 2 /\ Head(plan) = Inform /\ Head(plan).op = "inform"
             /\ Tail(plan) = <<Add(t, s)>> /\ \E i \in DOMAIN plan : plan[i] = Inform
  <2>1. Len(plan) = 2 /\ plan[1] = Inform /\ Head(plan) = Inform /\ DOMAIN plan = 1..2 BY <1>3
  <2>2. Tail(plan) = <<Add(t, s)>> BY <1>3
  <2> QED BY <2>1, <2>2, AddsDiffer
<1> QED BY <1>1, <1>2, <1>3 DEF Shape

\* Handlers keep the form.
LEMMA ShapeStays ==
    ASSUME TypeInv, [Next]_vars, NEW w \in InformFirst, Shape(todo[w], TypeOf[w])
    PROVE  Shape(todo'[w], TypeOf[w])
<1>1. Advances(w) BY OwnField, StepAdvances
<1>2. CASE todo'[w] = todo[w] BY <1>2
<1>3. CASE todo[w] # <<>> /\ todo'[w] = Tail(todo[w])
  BY <1>3, ShapeCases DEF Shape
<1>4. CASE \E s \in EventStates : todo'[w] \in Plans(w, s)
  <2>1. PICK s \in StateType : todo'[w] \in Plans(w, s) BY <1>4, EventStatesAssumption
  <2>2. todo'[w] = <<Inform, Add(TypeOf[w], s)>>
    BY <2>1 DEF Plans, ResourcePlan, InformFirst, AddFirst
  <2> QED BY <2>2 DEF Shape
<1> QED BY <1>1, <1>2, <1>3, <1>4 DEF Advances

\* Between two events a watcher has no calls left to make.
LEMMA IdleStays == TypeInv /\ IdleInv /\ [Next]_vars => IdleInv'
<1> SUFFICES ASSUME TypeInv, IdleInv, [Next]_vars PROVE IdleInv' OBVIOUS
<1>0. wpc \in [Watchers -> {"version", "select", "run", "alloc", "store", "blocked"}]
      /\ todo \in [Watchers -> Seq(Op)]
  BY DEF TypeInv, TypeOK, WatcherTypes
<1>1. ASSUME NEW w \in Watchers, todo[w] # <<>>, CallDone(w), Goto(w, AfterCall(w)) PROVE IdleInv'
  <2>1. Tail(todo[w]) \in Seq(Op) /\ Len(Tail(todo[w])) = Len(todo[w]) - 1 /\ Len(todo[w]) \in Nat
    BY <1>0, <1>1, TailSeq
  <2>2. wpc'[w] \in {"version", "select"} => Len(todo[w]) = 1
    BY <1>0, <1>1 DEF Goto, AfterCall
  <2>3. wpc'[w] \in {"version", "select"} => todo'[w] = <<>>
    <3> SUFFICES ASSUME Len(todo[w]) = 1 PROVE todo'[w] = <<>> BY <2>2
    <3>1. todo'[w] = Tail(todo[w]) BY <1>0, <1>1 DEF CallDone
    <3>2. Len(Tail(todo[w])) = 0 BY <2>1
    <3>3. \A l \in Seq(Op) : Len(l) = 0 => l = <<>> OBVIOUS
    <3> QED BY <2>1, <3>1, <3>2, <3>3, Zenon
  <2>4. \A v \in Watchers : v # w => wpc'[v] = wpc[v] /\ todo'[v] = todo[v]
    BY <1>0, <1>1 DEF Goto, CallDone
  <2> QED BY <2>3, <2>4 DEF IdleInv
<1>2. ASSUME NEW w \in Watchers, AddWrites(w) \/ InformSkipped(w) PROVE IdleInv'
  BY <1>1, <1>2 DEF AddWrites, InformSkipped, Calls, TypeInv, TypeOK, InCall
<1>3. CASE TakeInform
  <2>1. informQ \in Seq(Watchers) /\ informQ # <<>> BY <1>3 DEF TakeInform, TypeInv, TypeOK, SharedTypes
  <2>2. PICK w \in Watchers : w = Head(informQ) BY <2>1, TailSeq
  <2>3. DOMAIN informQ = 1..Len(informQ) /\ 1 \in 1..Len(informQ) /\ w = informQ[1]
    BY <2>1, <2>2, TailSeq
  <2>4. todo[w] # <<>> BY <2>3 DEF TypeInv, TypeOK, QueueInv, InCall
  <2> QED BY <1>1, <1>3, <2>2, <2>4 DEF TakeInform
<1>4. ASSUME NEW w \in Watchers, WatcherStep(w) \/ Event(w), ~(AddWrites(w) \/ InformSkipped(w))
      PROVE  IdleInv'
  BY <1>0, <1>4 DEF IdleInv, WatcherStep, GetClusterVersion, AddFindsNil, AddAllocates, AddReads,
     InformBlocks, Event, Goto
<1>5. CASE ListenerStep /\ ~TakeInform
  BY <1>5 DEF IdleInv, ListenerStep, PrepareCopies, PrepareChecks, DropEmpty, Marshal, DeleteData, Decide,
     SendReport, watcher
<1>6. CASE UNCHANGED vars BY <1>6 DEF IdleInv, vars, watcher
<1> QED BY <1>2, <1>3, <1>4, <1>5, <1>6 DEF Next

\* An empty list is covered.
LEMMA EmptyCovered ==
    ASSUME NEW t, NEW n, NEW rep, NEW all
    PROVE  CoveredBy(<<>>, t, n, rep, all)
  BY DEF CoveredBy

\* A report with the same data covers the same.
LEMMA SameDataCovers ==
    ASSUME NEW t, NEW n, NEW rep, NEW rep2, NEW all, \A s \in StateType : rep2.body[t][s] = rep.body[t][s]
    PROVE  \A l : CoveredBy(l, t, n, rep, all) => CoveredBy(l, t, n, rep2, all)
  BY DEF CoveredBy, NothingOut, NoData, InReport

\* One that is sent goes on covering.
LEMMA SentCovers ==
    ASSUME NEW t, NEW n, NEW rep \in Report, NEW all \in Seq(Report)
    PROVE  \A l : CoveredBy(l, t, n, rep, all) => CoveredBy(l, t, n, rep, Append(all, rep))
<1> DEFINE more == Append(all, rep)
<1>1. Len(more) = Len(all) + 1 /\ Len(all) \in Nat /\ more[Len(all) + 1] = rep
      /\ \A i \in 1..Len(all) : more[i] = all[i]
  BY AppendSeq
<1> HIDE DEF more
<1>2. NothingOut(t, rep, all) => NothingOut(t, rep, more)
  <2> SUFFICES ASSUME NothingOut(t, rep, all), NEW i \in 1..Len(more) PROVE NoData(t, more[i])
    BY DEF NothingOut
  <2>1. CASE i = Len(all) + 1 BY <1>1, <2>1 DEF NothingOut
  <2>2. CASE i # Len(all) + 1
    <3>1. i \in 1..Len(all) BY <1>1, <2>2
    <3> QED BY <1>1, <3>1 DEF NothingOut
  <2> QED BY <2>1, <2>2
<1>3. \A e : WasSent(e, t, all) => WasSent(e, t, more)
  <2> SUFFICES ASSUME NEW e, NEW i \in 1..Len(all), InReport(e, t, all[i]) PROVE WasSent(e, t, more)
    BY DEF WasSent
  <2>1. i \in 1..Len(more) /\ more[i] = all[i] BY <1>1
  <2> QED BY <2>1 DEF WasSent
<1>4. \A l : CoveredBy(l, t, n, rep, all) => CoveredBy(l, t, n, rep, more)
  BY <1>2, <1>3 DEF CoveredBy
<1> QED BY <1>4 DEF more

\* A new report does without what was sent.
LEMMA NewReportCovers ==
    ASSUME NEW t, NEW n, NEW rep, NEW rep2, NEW all, NoData(t, rep2),
           \A s \in StateType : \A k \in 1..Len(rep.body[t][s]) : WasSent(rep.body[t][s][k], t, all)
    PROVE  \A l : CoveredBy(l, t, n, rep, all) => CoveredBy(l, t, n, rep2, all)
<1>1. \A e : InReport(e, t, rep) => WasSent(e, t, all) BY DEF InReport, Within
<1> QED BY <1>1 DEF CoveredBy, NothingOut

\* A change of the last event needs no cover.
LEMMA NewestCovered ==
    ASSUME NEW t, NEW n \in Nat, NEW rep, NEW all, NEW l \in Seq(Item), NEW e \in Item, e.n = n,
           CoveredBy(l, t, n, rep, all)
    PROVE  CoveredBy(Append(l, e), t, n, rep, all)
<1> DEFINE new == Append(l, e)
<1>1. Len(new) = Len(l) + 1 /\ Len(l) \in Nat /\ new[Len(l) + 1] = e /\ \A k \in 1..Len(l) : new[k] = l[k]
  BY AppendSeq
<1> HIDE DEF new
<1>2. CASE NothingOut(t, rep, all) BY <1>2 DEF CoveredBy
<1>3. CASE ~NothingOut(t, rep, all)
  <2> SUFFICES ASSUME NEW k \in 1..Len(new), new[k].n < n
               PROVE  InReport(new[k], t, rep) \/ WasSent(new[k], t, all)
    BY DEF CoveredBy, new
  <2>1. k # Len(l) + 1 BY <1>1
  <2>2. k \in 1..Len(l) /\ new[k] = l[k] BY <1>1, <2>1
  <2> QED BY <1>3, <2>2 DEF CoveredBy
<1> QED BY <1>2, <1>3

-----------------------------------------------------------------------------
(* The steps of the watchers.                                               *)

\* Nothing was sent before the server version is known.
LEMMA VersionStays == VersionInv /\ [Next]_vars => VersionInv'
<1> SUFFICES ASSUME VersionInv, [Next]_vars PROVE VersionInv' OBVIOUS
<1>1. CASE ListenerStep
  BY <1>1 DEF VersionInv, ListenerStep, PrepareCopies, PrepareChecks, DropEmpty, Marshal, DeleteData,
     Decide, SendReport, TakeInform
<1>2. ASSUME NEW w \in Watchers, WatcherStep(w) \/ Event(w) PROVE VersionInv'
  BY <1>2 DEF VersionInv, WatcherStep, GetClusterVersion, AddFindsNil, AddAllocates, AddReads, AddWrites,
     InformSkipped, InformBlocks, Event, listener
<1>3. CASE UNCHANGED vars BY <1>3 DEF VersionInv, vars, listener
<1> QED BY <1>1, <1>2, <1>3 DEF Next

\* Steps that change neither the field nor the listener, and leave the watcher
\* no further.
LEMMA QuietKeeps ==
    ASSUME NEW w \in InformFirst, NEW t, Strand(w, t),
           \A s \in StateType : Current(t, s)' = Current(t, s),
           UNCHANGED <<lpc, lj, ls, lcopy, lrep, sent>>,
           Newest(w)' = Newest(w), Adding(w)' => Adding(w),
           \A s \in StateType : Storing(w, t, s)' =>
               \/ Storing(w, t, s) /\ header'[w] = header[w]
               \/ header'[w].list = Current(t, s)
    PROVE  Strand(w, t)'
<1>1. RepInv(t)' BY DEF Strand, RepInv
<1>2. \A s \in StateType : Cleared(t, s)' <=> Cleared(t, s) BY DEF Cleared
<1>3. LateInv(w, t)' BY <1>2 DEF Strand, LateInv
<1>4. NoneHeld(t)' <=> NoneHeld(t) BY DEF NoneHeld
<1>5. HeaderInv(w, t)' BY <1>4 DEF Strand, HeaderInv, Covered
<1>6. KeptInv(t)' BY <1>4 DEF Strand, KeptInv, Kept
<1>7. \A s \in StateType : Marshalled(t, s)' <=> Marshalled(t, s) BY DEF Marshalled
<1>8. MarshalInv(w, t)' BY <1>7 DEF Strand, MarshalInv
<1>9. Taken(t)' <=> Taken(t) BY DEF Taken
<1>10. CoveredInv(w, t)' BY <1>9 DEF Strand, CoveredInv, Covered
<1> QED BY <1>1, <1>3, <1>5, <1>6, <1>8, <1>10 DEF Strand

\* A store by the watcher itself: its new change, and what the header had.
LEMMA StoreStrands ==
    ASSUME TypeInv, PlansOnce, OneObject, NEW w \in InformFirst, AddWrites(w),
           NEW t, t = TypeOf[w], Shape(todo[w], t), Strand(w, t)
    PROVE  Strand(w, t)'
<1>0. w \in Watchers /\ t \in SingleWriter BY OwnField
<1>1. PICK s0 \in StateType : /\ todo[w] = <<Add(t, s0)>> /\ Storing(w, t, s0)
                              /\ ~Owes(w) /\ Tail(todo[w]) = <<>>
  <2>1. wpc[w] = "store" /\ todo[w] # <<>> /\ Head(todo[w]).op = "add"
    BY <1>0, AddingOwn DEF AddWrites
  <2> QED BY <2>1, ShapeCases, AddsDiffer DEF Storing, Owes
<1> DEFINE it == [by |-> w, n |-> evt[w]]
<1> DEFINE h == header[w].list
<1>2. /\ todo'[w] = <<>> /\ evt' = evt /\ UNCHANGED <<lpc, lj, ls, lcopy, lrep, sent>>
      /\ wpc'[w] # "store"
  BY <1>0, <1>1
     DEF AddWrites, CallDone, Goto, AfterCall, listener, TypeInv, TypeOK, WatcherTypes
<1>3. ~Adding(w)' /\ ~Owes(w)' BY <1>2 DEF Adding, Owes
<1>4. Newest(w) = evt[w] /\ Newest(w)' = evt[w] BY <1>1, <1>2, <1>3 DEF Newest
<1>5. h \in Seq(Item) /\ it \in Item /\ evt[w] \in Nat /\ it.n = evt[w]
  <2>1. evt[w] \in Nat /\ w \in AllWatchers BY <1>0, OwnField DEF TypeInv, TypeOK, WatcherTypes
  <2> QED BY <1>0, <2>1 DEF TypeInv, TypeOK, WatcherTypes, Item
<1>6. Current(t, s0)' = Append(h, it) BY <1>0, <1>1, StoreAppends
<1>7. \A s \in StateType : s # s0 => Current(t, s)' = Current(t, s)
  <2> SUFFICES ASSUME NEW s \in StateType, s # s0 PROVE Current(t, s)' = Current(t, s) OBVIOUS
  <2>1. ~Storing(w, t, s) BY <1>1, AddsDiffer DEF Storing
  <2> QED BY <1>0, <2>1, StoreAppends
<1> HIDE DEF h, it
<1>8. Append(h, it) # <<>> /\ Len(Append(h, it)) = Len(h) + 1 /\ Len(h) \in Nat
      /\ Append(h, it)[Len(h) + 1] = it /\ \A k \in 1..Len(h) : Append(h, it)[k] = h[k]
  BY <1>5, AppendSeq
<1>9. RepInv(t)' BY <1>2 DEF Strand, RepInv
<1>10. LateInv(w, t)' BY <1>3 DEF LateInv
<1>11. \A s : ~Storing(w, t, s)' BY <1>2 DEF Storing
<1>12. HeaderInv(w, t)' BY <1>11 DEF HeaderInv
<1>13. KeptInv(t)'
  <2>1. ~NoneHeld(t)' BY <1>6, <1>8 DEF NoneHeld
  <2> QED BY <2>1 DEF KeptInv
<1>14. MarshalInv(w, t)'
  <2> SUFFICES ASSUME lcopy[t] # 0, NEW s \in StateType, Marshalled(t, s)
               PROVE  Has(t, s, evt[w], lrep, Current(t, s)')
    BY <1>2, <1>4 DEF MarshalInv, Marshalled
  <2>1. Has(t, s, evt[w], lrep, Current(t, s)) BY <1>4 DEF Strand, MarshalInv
  <2>2. CASE s # s0 BY <1>7, <2>1, <2>2
  <2>3. CASE s = s0
    <3>1. lpc = "marshal" /\ Kept(t) BY DEF Marshalled, Kept
    <3>2. h = Current(t, s0) BY <1>1, <3>1 DEF Strand, KeptInv, HeaderInv, h
    <3>3. Has(t, s, evt[w], lrep, Append(h, it))
      <4> SUFFICES ASSUME NEW k \in 1..Len(Append(h, it)), Append(h, it)[k].n < evt[w]
                   PROVE  Within(Append(h, it)[k], lrep.body[t][s])
        BY DEF Has
      <4>1. k # Len(h) + 1 BY <1>5, <1>8
      <4>2. k \in 1..Len(h) /\ Append(h, it)[k] = h[k] BY <1>8, <4>1
      <4> QED BY <2>1, <2>3, <3>2, <4>2 DEF Has
    <3> QED BY <1>6, <2>3, <3>3
  <2> QED BY <2>2, <2>3
<1>15. CoveredInv(w, t)'
  <2> SUFFICES ASSUME Taken(t), NEW s \in StateType
               PROVE  CoveredBy(Current(t, s)', t, evt[w], lrep, sent)
    BY <1>2, <1>4, <1>11 DEF CoveredInv, Covered, Taken
  <2>1. CASE s # s0 BY <1>4, <1>7, <2>1 DEF Strand, CoveredInv, Covered
  <2>2. CASE s = s0
    <3>1. CoveredBy(h, t, evt[w], lrep, sent) BY <1>1, <1>4 DEF Strand, CoveredInv, Covered, h
    <3>2. CoveredBy(Append(h, it), t, evt[w], lrep, sent) BY <1>5, <3>1, NewestCovered
    <3> QED BY <1>6, <2>2, <3>2
  <2> QED BY <2>1, <2>2
<1> QED BY <1>9, <1>10, <1>12, <1>13, <1>14, <1>15 DEF Strand

\* An inform is skipped while nothing was sent.
LEMMA SkipStrands ==
    ASSUME TypeInv, VersionInv, NEW w \in InformFirst, InformSkipped(w), NEW t, Strand(w, t),
           \A s \in StateType : Current(t, s)' = Current(t, s)
    PROVE  Strand(w, t)'
<1>1. ~version /\ sent = <<>> /\ lpc \in {"copy", "check"} /\ UNCHANGED <<lpc, lj, ls, lcopy, lrep, sent>>
  BY DEF InformSkipped, MustInform, VersionInv, listener
<1>2. wpc'[w] # "store"
  BY OwnField DEF InformSkipped, Goto, AfterCall, TypeInv, TypeOK, WatcherTypes
<1>3. RepInv(t)' BY <1>1 DEF Strand, RepInv
<1>4. LateInv(w, t)' BY <1>1 DEF LateInv, Cleared
<1>5. \A s : ~Storing(w, t, s)' BY <1>2 DEF Storing
<1>6. HeaderInv(w, t)' BY <1>5 DEF HeaderInv
<1>7. KeptInv(t)' /\ MarshalInv(w, t)' BY <1>1 DEF KeptInv, Kept, MarshalInv, Marshalled
<1>8. CoveredInv(w, t)'
  <2> SUFFICES ASSUME Taken(t)' PROVE CoveredInv(w, t)' BY DEF CoveredInv
  <2>1. lpc = "check" BY <1>1 DEF Taken
  <2>2. NothingOut(t, lrep', sent') BY <1>1, <2>1 DEF Strand, RepInv, NothingOut
  <2> QED BY <1>5, <2>2 DEF CoveredInv, Covered, CoveredBy
<1> QED BY <1>3, <1>4, <1>6, <1>7, <1>8 DEF Strand

\* Every step of a watcher.
LEMMA WatcherStrands ==
    ASSUME TypeInv, VersionInv, IdleInv, PlansOnce, OneObject, NEW v \in Watchers, WatcherStep(v) \/ Event(v),
           NEW w \in InformFirst, NEW t, t = TypeOf[w], Shape(todo[w], t), Strand(w, t)
    PROVE  Strand(w, t)'
<1>0. w \in Watchers /\ t \in SingleWriter /\ Writer[t] = w BY OwnField
<1>1. CASE v = w /\ AddWrites(w) BY <1>1, StoreStrands
<1>2. ASSUME ~(v = w /\ AddWrites(w))
      PROVE  \A s \in StateType : Current(t, s)' = Current(t, s)
  <2> SUFFICES ASSUME NEW s \in StateType PROVE Current(t, s)' = Current(t, s) OBVIOUS
  <2>1. ~(AddWrites(v) /\ Storing(v, t, s))
    <3> SUFFICES ASSUME AddWrites(v), Storing(v, t, s) PROVE FALSE OBVIOUS
    <3>1. wpc[v] = "store" /\ Head(todo[v]) = Add(t, s) BY DEF Storing
    <3>2. Head(todo[v]).jtype = t BY <3>1, AddsDiffer
    <3>3. v = Writer[t] BY <1>0, <3>1, <3>2, AddingOwn
    <3> QED BY <1>0, <1>2, <3>3
  <2> QED BY <1>0, <2>1, CurrentStays
<1>3. UNCHANGED <<lpc, lj, ls, lcopy, lrep, sent>>
  BY DEF WatcherStep, GetClusterVersion, AddFindsNil, AddAllocates, AddReads, AddWrites, InformSkipped,
     InformBlocks, Event, listener
<1>4. CASE v # w
  <2>1. wpc'[w] = wpc[w] /\ todo'[w] = todo[w] /\ header'[w] = header[w] /\ evt'[w] = evt[w]
    BY <1>0, <1>4, OthersStay
  <2>2. Newest(w)' = Newest(w) /\ (Adding(w)' => Adding(w)) BY <2>1 DEF Newest, Owes, Adding
  <2>3. \A s \in StateType : Storing(w, t, s)' => Storing(w, t, s) BY <2>1 DEF Storing
  <2> QED BY <1>2, <1>3, <1>4, <2>1, <2>2, <2>3, QuietKeeps
<1>5. CASE v = w /\ InformSkipped(w) BY <1>0, <1>2, <1>5, SkipStrands DEF InformSkipped, AddWrites, Calls
<1>6. CASE v = w /\ ~AddWrites(w) /\ ~InformSkipped(w)
  <2>1. \A s \in StateType : Storing(w, t, s)' => header'[w].list = Current(t, s)
    BY <1>0, <1>6, StoreStarts
  <2>2. Newest(w)' = Newest(w) /\ (Adding(w)' => Adding(w))
    <3>1. CASE Event(w)
      <4>1. wpc[w] = "select" /\ evt' = [evt EXCEPT ![w] = @ + 1] /\ evt \in [Watchers -> Nat]
            /\ todo \in [Watchers -> Seq(Op)]
        BY <3>1 DEF Event, TypeInv, TypeOK, WatcherTypes
      <4>2. PICK s \in EventStates : \E plan \in Plans(w, s) : todo' = [todo EXCEPT ![w] = plan]
        BY <3>1 DEF Event
      <4>3. todo'[w] = <<Inform, Add(t, s)>>
        BY <4>1, <4>2, <1>0 DEF Plans, ResourcePlan, InformFirst, AddFirst
      <4>4. s \in StateType BY EventStatesAssumption
      <4>5. Shape(todo'[w], t) BY <4>3, <4>4 DEF Shape
      <4>6. Owes(w)' BY <4>3, <4>5, ShapeCases DEF Owes
      <4>7. todo[w] = <<>> BY <1>0, <4>1 DEF IdleInv
      <4>8. ~Owes(w) BY <4>7 DEF Owes
      <4>9. evt'[w] = evt[w] + 1 /\ evt[w] \in Nat BY <1>0, <4>1
      <4>10. Newest(w)' = Newest(w) BY <4>6, <4>8, <4>9 DEF Newest
      <4> QED BY <4>6, <4>10 DEF Adding
    <3>2. CASE ~Event(w)
      <4>1. todo' = todo /\ evt' = evt
        BY <1>6, <3>2 DEF WatcherStep, GetClusterVersion, AddFindsNil, AddAllocates, AddReads, InformBlocks
      <4> QED BY <4>1 DEF Newest, Owes, Adding
    <3> QED BY <3>1, <3>2
  <2> QED BY <1>2, <1>3, <1>6, <2>1, <2>2, QuietKeeps
<1> QED BY <1>1, <1>4, <1>5, <1>6

-----------------------------------------------------------------------------
(* The steps of the listener.                                               *)

\* Every field has its place in the order of the length tests and of the
\* marshaller.
LEMMA LenAndMarshalReach ==
    ASSUME NEW t \in JsonType
    PROVE  /\ \E j \in 1..6 : LenOrder[j] = t
           /\ \E j \in 1..6 : MarshalOrder[j] = t
           /\ \A i, j \in 1..6 : MarshalOrder[i] = MarshalOrder[j] => i = j
<1>1. /\ LenOrder[1] = 1 /\ LenOrder[2] = 2 /\ LenOrder[3] = 5 /\ LenOrder[4] = 4
      /\ LenOrder[5] = 3 /\ LenOrder[6] = 6
  BY DEF LenOrder, NODE, PODS, SERVICES, MICROSERVICES, SECRETS, NAMESPACES
<1>2. /\ MarshalOrder[1] = 1 /\ MarshalOrder[2] = 2 /\ MarshalOrder[3] = 3 /\ MarshalOrder[4] = 4
      /\ MarshalOrder[5] = 5 /\ MarshalOrder[6] = 6
  BY DEF MarshalOrder, NODE, PODS, SERVICES, MICROSERVICES, SECRETS, NAMESPACES
<1>3. t = 1 \/ t = 2 \/ t = 3 \/ t = 4 \/ t = 5 \/ t = 6 BY DEF JsonType
<1>4. \A j \in 1..6 : j = 1 \/ j = 2 \/ j = 3 \/ j = 4 \/ j = 5 \/ j = 6 OBVIOUS
<1>5. \E j \in 1..6 : LenOrder[j] = t BY <1>1, <1>3
<1>6. \E j \in 1..6 : MarshalOrder[j] = t BY <1>2, <1>3
<1>7. \A i, j \in 1..6 : MarshalOrder[i] = MarshalOrder[j] => i = j BY <1>2, <1>4
<1> QED BY <1>5, <1>6, <1>7

\* What a step that leaves the watchers alone leaves of them.
LEMMA WatcherStays ==
    ASSUME UNCHANGED watcher, NEW w, NEW t
    PROVE  /\ Newest(w)' = Newest(w) /\ (Adding(w)' <=> Adding(w)) /\ header' = header
           /\ \A s : Storing(w, t, s)' <=> Storing(w, t, s)
<1>1. wpc' = wpc /\ todo' = todo /\ evt' = evt /\ header' = header BY DEF watcher
<1>2. (Owes(w)' <=> Owes(w)) /\ \A s : Storing(w, t, s)' <=> Storing(w, t, s) BY <1>1 DEF Owes, Storing
<1> QED BY <1>1, <1>2 DEF Newest, Adding

\* Whoever stores has informed.
LEMMA StoringAdds ==
    ASSUME TypeInv, NEW w \in Watchers, NEW t, NEW s, Shape(todo[w], t), Storing(w, t, s)
    PROVE  Adding(w) /\ objs[t] # <<>>
<1>1. todo[w] # <<>> /\ Head(todo[w]).op = "add" /\ Head(todo[w]).jtype = t
      /\ header[w].obj \in 1..Len(objs[t])
  BY AddsDiffer DEF Storing, TypeInv, TypeOK, InCall
<1>2. ~Owes(w) BY <1>1, ShapeCases, AddsDiffer DEF Owes
<1>3. objs[t] # <<>>
  <2> SUFFICES ASSUME objs[t] = <<>> PROVE FALSE OBVIOUS
  <2>1. Len(objs[t]) = 0 OBVIOUS
  <2> QED BY <1>1, <2>1
<1> QED BY <1>1, <1>2, <1>3 DEF Adding

\* A report is begun.
LEMMA CopyStrands ==
    ASSUME TypeInv, OneObject, PrepareCopies,
           NEW w \in InformFirst, NEW t, t = TypeOf[w], Shape(todo[w], t), Strand(w, t)
    PROVE  Strand(w, t)'
<1>0. w \in Watchers /\ t \in SingleWriter /\ t \in JsonType BY OwnField
<1>1. lpc = "copy" /\ lpc' = "check" /\ objs' = objs /\ sent' = sent /\ lrep'.body = EmptyBody
      /\ lcopy'[t] = Len(objs[t]) /\ UNCHANGED watcher
  BY <1>0 DEF PrepareCopies
<1>2. /\ Newest(w)' = Newest(w) /\ header' = header
      /\ \A s \in StateType : Storing(w, t, s)' <=> Storing(w, t, s)
      /\ \A s \in StateType : Current(t, s)' = Current(t, s)
  BY <1>1, WatcherStays DEF Current
<1>3. NoData(t, lrep') BY <1>0, <1>1 DEF NoData, EmptyBody, EmptyObjectData
<1>4. RepInv(t)' BY <1>1, <1>3 DEF RepInv
<1>5. LateInv(w, t)' /\ KeptInv(t)' /\ MarshalInv(w, t)'
  BY <1>1 DEF LateInv, Cleared, KeptInv, Kept, MarshalInv, Marshalled
<1>6. HeaderInv(w, t)'
  <2> SUFFICES ASSUME NEW s \in StateType, Storing(w, t, s)
               PROVE  \/ header[w].list = Current(t, s)
                      \/ NoneHeld(t) /\ CoveredBy(header[w].list, t, Newest(w), lrep', sent)
    BY <1>1, <1>2 DEF HeaderInv, Covered, NoneHeld
  <2>1. \A u \in StateType : \A k \in 1..Len(lrep.body[t][u]) : WasSent(lrep.body[t][u][k], t, sent)
    BY <1>1 DEF Strand, RepInv
  <2>2. \A l : CoveredBy(l, t, Newest(w), lrep, sent) => CoveredBy(l, t, Newest(w), lrep', sent)
    BY <1>3, <2>1, NewReportCovers
  <2> QED BY <1>1, <2>2 DEF Strand, HeaderInv, Covered
<1>7. CoveredInv(w, t)'
  <2> SUFFICES ASSUME lcopy'[t] = 0, NEW s \in StateType
               PROVE  CoveredBy(Current(t, s), t, Newest(w), lrep', sent) /\ ~Storing(w, t, s)
    BY <1>1, <1>2 DEF CoveredInv, Covered, Taken
  <2>1. objs[t] = <<>>
    <3>1. objs[t] \in Seq(ObjectData) /\ Len(objs[t]) = 0 BY <1>0, <1>1 DEF TypeInv, TypeOK, SharedTypes
    <3>2. \A l \in Seq(ObjectData) : Len(l) = 0 => l = <<>> OBVIOUS
    <3> QED BY <3>1, <3>2, Zenon
  <2>2. ~Storing(w, t, s) BY <1>0, <2>1, StoringAdds
  <2>3. Current(t, s) = <<>> BY <2>1 DEF Current
  <2> QED BY <2>2, <2>3, EmptyCovered
<1> QED BY <1>4, <1>5, <1>6, <1>7 DEF Strand

\* The metadata is looked at.
LEMMA CheckStrands ==
    ASSUME TypeInv, PrepareChecks, NEW w \in InformFirst, NEW t, Strand(w, t)
    PROVE  Strand(w, t)'
<1>1. lpc = "check" /\ lpc' \in {"copy", "len"} /\ lj' = 1 /\ objs' = objs /\ sent' = sent
      /\ lcopy' = lcopy /\ UNCHANGED watcher
  BY DEF PrepareChecks
<1>2. /\ Newest(w)' = Newest(w) /\ header' = header
      /\ \A s \in StateType : Storing(w, t, s)' <=> Storing(w, t, s)
      /\ \A s \in StateType : Current(t, s)' = Current(t, s)
  BY <1>1, WatcherStays DEF Current
<1>3. lrep'.body = lrep.body
  BY DEF PrepareChecks, TypeInv, TypeOK, ListenerTypes, Report
<1>4. NoData(t, lrep') BY <1>1, <1>3 DEF Strand, RepInv, NoData
<1>5. RepInv(t)' BY <1>1, <1>4 DEF RepInv, NoData
<1>6. LateInv(w, t)' /\ MarshalInv(w, t)'
  BY <1>1 DEF LateInv, Cleared, MarshalInv, Marshalled
<1>7. KeptInv(t)'
  <2>1. 1..(lj' - 1) = {} BY <1>1
  <2> QED BY <1>1, <2>1 DEF KeptInv, Kept
<1>8. \A l : CoveredBy(l, t, Newest(w), lrep, sent) => CoveredBy(l, t, Newest(w), lrep', sent)
  BY <1>3, SameDataCovers
<1>9. HeaderInv(w, t)' BY <1>1, <1>2, <1>8 DEF Strand, HeaderInv, Covered, NoneHeld
<1>10. CoveredInv(w, t)' BY <1>1, <1>2, <1>8 DEF Strand, CoveredInv, Covered, Taken
<1> QED BY <1>5, <1>6, <1>7, <1>9, <1>10 DEF Strand

\* An empty field is dropped: what comes back to it is covered.
LEMMA DropStrands ==
    ASSUME TypeInv, OneObject, DropEmpty, NEW w \in InformFirst, NEW t, t = TypeOf[w], Strand(w, t)
    PROVE  Strand(w, t)'
<1> DEFINE u == LenOrder[lj]
<1>0. w \in Watchers /\ t \in SingleWriter /\ t \in JsonType /\ lj \in 1..6 /\ u \in JsonType
  BY OwnField, OrdersTyped DEF TypeInv, TypeOK, ListenerTypes
<1>1. lpc = "len" /\ objs' = objs /\ sent' = sent /\ lrep' = lrep /\ UNCHANGED watcher /\ ls' = 1
  BY DEF DropEmpty
<1>2. \/ lpc' = "len" /\ lj' = lj + 1
      \/ lpc' = "marshal" /\ lj' = 1 /\ lj = 6
  BY <1>0 DEF DropEmpty
<1>3. /\ Newest(w)' = Newest(w) /\ header' = header
      /\ \A s \in StateType : Storing(w, t, s)' <=> Storing(w, t, s)
      /\ \A s \in StateType : Current(t, s)' = Current(t, s)
  BY <1>1, WatcherStays DEF Current
<1>4. lcopy[t] # 0 => (IsEmptyObject(objs[t][lcopy[t]]) <=> NoneHeld(t))
  <2> SUFFICES ASSUME lcopy[t] # 0 PROVE IsEmptyObject(objs[t][lcopy[t]]) <=> NoneHeld(t) OBVIOUS
  <2>1. lcopy[t] \in Nat /\ lcopy[t] <= Len(objs[t]) BY <1>0 DEF TypeInv, TypeOK, ListenerTypes
  <2>2. objs[t] # <<>> BY <2>1
  <2>3. Len(objs[t]) = 1 /\ \A s \in StateType : Current(t, s) = objs[t][1][s]
    <3>1. \A s \in StateType : Len(objs[t]) = 1 /\ Current(t, s) = objs[t][1][s]
      BY <1>0, <2>2, CurrentOne
    <3>2. 1 \in StateType BY DEF StateType
    <3> QED BY <3>1, <3>2
  <2>4. lcopy[t] = 1 BY <2>1, <2>3
  <2> QED BY <2>3, <2>4 DEF IsEmptyObject, NoneHeld
<1>5. \/ lcopy'[t] = lcopy[t] /\ (t = u /\ lcopy[t] # 0 => ~NoneHeld(t))
      \/ lcopy'[t] = 0 /\ NoneHeld(t)
  <2>1. CASE lcopy[u] # 0 /\ IsEmptyObject(objs[u][lcopy[u]])
    <3>1. lcopy' = [lcopy EXCEPT ![u] = 0] /\ lcopy \in [JsonType -> Nat]
      BY <2>1 DEF DropEmpty, TypeInv, TypeOK, ListenerTypes
    <3> HIDE DEF u
    <3> QED BY <1>0, <1>4, <2>1, <3>1
  <2>2. CASE ~(lcopy[u] # 0 /\ IsEmptyObject(objs[u][lcopy[u]]))
    <3>1. lcopy' = lcopy BY <2>2 DEF DropEmpty
    <3> HIDE DEF u
    <3> QED BY <1>4, <2>2, <3>1
  <2> QED BY <2>1, <2>2
<1>6. RepInv(t)' BY <1>1, <1>2 DEF Strand, RepInv
<1>7. LateInv(w, t)' BY <1>2 DEF LateInv, Cleared
<1>8. NoneHeld(t)' <=> NoneHeld(t) BY <1>3 DEF NoneHeld
<1>9. HeaderInv(w, t)' BY <1>1, <1>3, <1>8 DEF Strand, HeaderInv, Covered
<1>10. KeptInv(t)'
  <2> SUFFICES ASSUME Kept(t)', NoneHeld(t) PROVE FALSE BY <1>8 DEF KeptInv
  <2>1. lcopy'[t] # 0 /\ lcopy[t] # 0 /\ t # u BY <1>5 DEF Kept
  <2>2. PICK j \in 1..6 : LenOrder[j] = t /\ j <= lj
    <3>1. CASE lpc' = "len"
      <4>1. PICK j \in 1..(lj' - 1) : LenOrder[j] = t BY <3>1 DEF Kept
      <4>2. j \in 1..6 /\ j <= lj BY <1>0, <1>2, <3>1, <4>1
      <4> QED BY <4>1, <4>2
    <3>2. CASE lpc' = "marshal"
      <4>1. PICK j \in 1..6 : LenOrder[j] = t BY <1>0, LenAndMarshalReach
      <4>2. j <= lj BY <1>2, <3>2
      <4> QED BY <4>1, <4>2
    <3> QED BY <1>2, <3>1, <3>2
  <2>3. j # lj BY <2>1, <2>2
  <2>4. j \in 1..(lj - 1) BY <1>0, <2>2, <2>3
  <2>5. Kept(t) BY <1>1, <2>1, <2>2, <2>4 DEF Kept
  <2> QED BY <2>5 DEF Strand, KeptInv
<1>11. MarshalInv(w, t)'
  <2>1. \A s \in StateType : ~Marshalled(t, s)'
    BY <1>1, <1>2 DEF Marshalled, StateType
  <2> QED BY <2>1 DEF MarshalInv
<1>12. CoveredInv(w, t)'
  <2> SUFFICES ASSUME Taken(t)', NEW s \in StateType
               PROVE  /\ Covered(Current(t, s), w, t)
                      /\ Storing(w, t, s) => Covered(header[w].list, w, t)
    BY <1>1, <1>3 DEF CoveredInv, Covered
  <2>1. lcopy'[t] = 0 BY <1>2 DEF Taken
  <2>2. CASE lcopy[t] = 0
    <3>1. Taken(t) BY <1>1, <2>2 DEF Taken
    <3> QED BY <3>1 DEF Strand, CoveredInv
  <2>3. CASE lcopy[t] # 0
    <3>1. NoneHeld(t) BY <1>5, <2>1, <2>3
    <3>2. Current(t, s) = <<>> BY <3>1 DEF NoneHeld
    <3>3. Covered(Current(t, s), w, t) BY <3>2, EmptyCovered DEF Covered
    <3>4. Storing(w, t, s) => header[w].list = Current(t, s) \/ Covered(header[w].list, w, t)
      BY <1>1 DEF Strand, HeaderInv
    <3> QED BY <3>3, <3>4
  <2> QED BY <2>2, <2>3
<1> QED BY <1>6, <1>7, <1>9, <1>10, <1>11, <1>12 DEF Strand

\* What counts as marshalled after a step of it was before, or is the list the
\* step is at.
LEMMA MarshalAdvances ==
    ASSUME TypeInv, Marshal, NEW t \in JsonType, NEW s \in StateType, lcopy[t] # 0,
           Marshalled(t, s)' \/ lpc' = "delete"
    PROVE  Marshalled(t, s) \/ (t = MarshalOrder[lj] /\ s = ls)
<1>0. lj \in 1..6 /\ ls \in 1..3 /\ lpc = "marshal" /\ s \in 1..3
  BY DEF TypeInv, TypeOK, ListenerTypes, Marshal, StateType
<1>1. PICK p \in 1..6 : MarshalOrder[p] = t BY LenAndMarshalReach
<1>2. \A j \in 1..6 : MarshalOrder[j] = t => j = p BY <1>1, LenAndMarshalReach
<1>3. \/ lpc' = "marshal" /\ lj' = lj /\ ls' = ls + 1 /\ ls < 3
      \/ lpc' = "marshal" /\ lj' = lj + 1 /\ ls' = 1 /\ lj < 6
           /\ (ls = 3 \/ lcopy[MarshalOrder[lj]] = 0)
      \/ lpc' = "delete" /\ lj = 6 /\ (ls = 3 \/ lcopy[MarshalOrder[lj]] = 0)
  BY <1>0 DEF Marshal, NextSlot
<1>4. \/ lpc' = "marshal" /\ p <= lj' /\ (p = lj' => s < ls')
      \/ lpc' = "delete"
  <2>1. lpc' = "marshal" => p \in 1..lj' /\ (p = lj' => s < ls')
    <3> SUFFICES ASSUME lpc' = "marshal" PROVE p \in 1..lj' /\ (p = lj' => s < ls') OBVIOUS
    <3>1. PICK j \in 1..lj' : MarshalOrder[j] = t /\ (j = lj' => s < ls') BY DEF Marshalled
    <3>2. j \in 1..6 BY <1>0, <1>3
    <3>3. j = p BY <1>2, <3>1, <3>2
    <3> QED BY <3>1, <3>3
  <2> QED BY <1>3, <2>1
<1>5. CASE p < lj
  <2>1. p \in 1..lj /\ p # lj BY <1>0, <1>5
  <2> QED BY <1>0, <1>1, <2>1 DEF Marshalled
<1>6. CASE p = lj
  <2>1. CASE s < ls
    <3>1. p \in 1..lj BY <1>0, <1>6
    <3> QED BY <1>0, <1>1, <2>1, <3>1, <1>6 DEF Marshalled
  <2>2. CASE s = ls BY <1>1, <1>6, <2>2
  <2>3. CASE s > ls
    <3>1. FALSE BY <1>0, <1>1, <1>3, <1>4, <1>6, <2>3
    <3> QED BY <3>1
  <2> QED BY <1>0, <2>1, <2>2, <2>3
<1>7. CASE p > lj
  <2>1. FALSE BY <1>0, <1>3, <1>4, <1>7
  <2> QED BY <2>1
<1> QED BY <1>0, <1>5, <1>6, <1>7

\* A list is marshalled: it has all but what came after the inform.
LEMMA MarshalStrands ==
    ASSUME TypeInv, OneObject, Marshal, NEW w \in InformFirst, NEW t, t = TypeOf[w], Strand(w, t)
    PROVE  Strand(w, t)'
<1>0. w \in Watchers /\ t \in SingleWriter /\ t \in JsonType BY OwnField
<1>1. lpc = "marshal" /\ objs' = objs /\ sent' = sent /\ lcopy' = lcopy /\ UNCHANGED watcher
  BY DEF Marshal
<1>2. lpc' = "marshal" \/ (lpc' = "delete" /\ lj' = 1 /\ ls' = 1)
  BY DEF Marshal, NextSlot, TypeInv, TypeOK, ListenerTypes
<1>3. /\ Newest(w)' = Newest(w) /\ header' = header
      /\ \A s \in StateType : Storing(w, t, s)' <=> Storing(w, t, s)
      /\ \A s \in StateType : Current(t, s)' = Current(t, s)
  BY <1>1, WatcherStays DEF Current
<1>4. NoneHeld(t)' <=> NoneHeld(t) BY <1>3 DEF NoneHeld
<1>5. lcopy[t] = 0 => /\ \A s \in StateType : lrep'.body[t][s] = lrep.body[t][s]
                      /\ NoData(t, lrep)
  BY <1>0, <1>1, MarshalBody DEF Strand, RepInv
<1>6. lcopy[t] = 0 => \A l : CoveredBy(l, t, Newest(w), lrep, sent) => CoveredBy(l, t, Newest(w), lrep', sent)
  BY <1>5, SameDataCovers
<1>7. RepInv(t)' BY <1>1, <1>2, <1>5 DEF RepInv, NoData
<1>8. LateInv(w, t)'
  <2>1. \A s \in StateType : ~Cleared(t, s)' BY <1>2 DEF Cleared, StateType
  <2> QED BY <2>1 DEF LateInv
<1>9. HeaderInv(w, t)'
  <2> SUFFICES ASSUME NEW s \in StateType, Storing(w, t, s), header[w].list # Current(t, s)
               PROVE  NoneHeld(t) /\ CoveredBy(header[w].list, t, Newest(w), lrep', sent)
    BY <1>1, <1>3, <1>4 DEF HeaderInv, Covered
  <2>1. NoneHeld(t) /\ CoveredBy(header[w].list, t, Newest(w), lrep, sent)
    BY <1>1 DEF Strand, HeaderInv, Covered
  <2>2. lcopy[t] = 0 BY <1>1, <2>1 DEF Strand, KeptInv, Kept
  <2> QED BY <1>6, <2>1, <2>2
<1>10. KeptInv(t)' BY <1>1, <1>2, <1>4 DEF Strand, KeptInv, Kept
<1>11. ASSUME lcopy[t] # 0, NEW s \in StateType, Marshalled(t, s)' \/ lpc' = "delete"
       PROVE  Has(t, s, Newest(w), lrep', Current(t, s))
  <2>1. CASE lrep'.body[t][s] = Current(t, s) BY <2>1 DEF Has, Within
  <2>2. CASE lrep'.body[t][s] # Current(t, s)
    <3>1. lrep'.body[t][s] = lrep.body[t][s] /\ ~(t = MarshalOrder[lj] /\ s = ls)
      BY <1>0, <1>11, <2>2, MarshalBody
    <3>2. Marshalled(t, s) BY <1>0, <1>11, <3>1, MarshalAdvances
    <3>3. Has(t, s, Newest(w), lrep, Current(t, s)) BY <1>11, <3>2 DEF Strand, MarshalInv
    <3> QED BY <3>1, <3>3 DEF Has
  <2> QED BY <2>1, <2>2
<1>12. MarshalInv(w, t)' BY <1>1, <1>3, <1>11 DEF MarshalInv
<1>13. CoveredInv(w, t)'
  <2> SUFFICES ASSUME Taken(t)', NEW s \in StateType
               PROVE  /\ CoveredBy(Current(t, s), t, Newest(w), lrep', sent)
                      /\ Storing(w, t, s) => CoveredBy(header[w].list, t, Newest(w), lrep', sent)
    BY <1>1, <1>3 DEF CoveredInv, Covered
  <2>1. CASE lcopy[t] = 0
    <3>1. Taken(t) BY <1>1, <2>1 DEF Taken
    <3> QED BY <1>6, <2>1, <3>1 DEF Strand, CoveredInv, Covered
  <2>2. CASE lcopy[t] # 0
    <3>1. lpc' = "delete" BY <1>1, <1>2, <2>2 DEF Taken
    <3>2. Has(t, s, Newest(w), lrep', Current(t, s)) BY <1>11, <2>2, <3>1
    <3>3. CoveredBy(Current(t, s), t, Newest(w), lrep', sent) BY <3>2 DEF Has, CoveredBy, InReport
    <3>4. Storing(w, t, s) => header[w].list = Current(t, s)
      BY <1>1, <2>2 DEF Strand, HeaderInv, KeptInv, Kept
    <3> QED BY <3>3, <3>4
  <2> QED BY <2>1, <2>2
<1> QED BY <1>7, <1>8, <1>9, <1>10, <1>12, <1>13 DEF Strand

\* A list is emptied.
LEMMA DeleteStrands ==
    ASSUME TypeInv, OneObject, DeleteData, NEW w \in InformFirst, NEW t, t = TypeOf[w], Strand(w, t)
    PROVE  Strand(w, t)'
<1>0. w \in Watchers /\ t \in SingleWriter BY OwnField
<1>1. lpc = "delete" /\ lrep' = lrep /\ sent' = sent /\ lcopy' = lcopy /\ UNCHANGED watcher
      /\ lpc' \in {"delete", "decide"}
  BY DEF DeleteData, NextSlot
<1>2. /\ Newest(w)' = Newest(w) /\ header' = header /\ (Adding(w)' <=> Adding(w))
      /\ \A s \in StateType : Storing(w, t, s)' <=> Storing(w, t, s)
  BY <1>1, WatcherStays
<1>3. \A s \in StateType : Current(t, s)' = Current(t, s) \/ Current(t, s)' = <<>>
  BY <1>0, DeleteDataCurrent
<1>4. RepInv(t)' /\ HeaderInv(w, t)' /\ KeptInv(t)' /\ MarshalInv(w, t)'
  BY <1>1 DEF RepInv, HeaderInv, KeptInv, Kept, MarshalInv, Marshalled
<1>5. LateInv(w, t)'
  <2> SUFFICES ASSUME Adding(w), NEW s \in StateType, Cleared(t, s)' PROVE Current(t, s)' = <<>>
    BY <1>2 DEF LateInv
  <2>1. Current(t, s)' = <<>> \/ Cleared(t, s) BY <1>0, DeleteDataClears
  <2>2. Cleared(t, s) => Current(t, s) = <<>> BY DEF Strand, LateInv
  <2> QED BY <1>3, <2>1, <2>2
<1>6. CoveredInv(w, t)'
  <2> SUFFICES ASSUME NEW s \in StateType
               PROVE  /\ CoveredBy(Current(t, s)', t, Newest(w), lrep, sent)
                      /\ Storing(w, t, s) => CoveredBy(header[w].list, t, Newest(w), lrep, sent)
    BY <1>1, <1>2 DEF CoveredInv, Covered
  <2>1. Taken(t) BY <1>1 DEF Taken
  <2> QED BY <1>3, <2>1, EmptyCovered DEF Strand, CoveredInv, Covered
<1> QED BY <1>4, <1>5, <1>6 DEF Strand

\* It is decided whether the report is sent.
LEMMA DecideStrands ==
    ASSUME TypeInv, Decide, NEW w \in InformFirst, NEW t, t = TypeOf[w], Shape(todo[w], t), Strand(w, t)
    PROVE  Strand(w, t)'
<1>0. w \in Watchers /\ t \in SingleWriter /\ t \in JsonType BY OwnField
<1>1. lpc = "decide" /\ objs' = objs /\ lrep' = lrep /\ sent' = sent /\ lcopy' = lcopy /\ UNCHANGED watcher
      /\ lpc' \in {"copy", "send"} /\ (lpc' = "copy" => isEmptyFirstReport(lrep))
  BY DEF Decide
<1>2. /\ Newest(w)' = Newest(w) /\ header' = header /\ (Adding(w)' <=> Adding(w))
      /\ \A s \in StateType : Storing(w, t, s)' <=> Storing(w, t, s)
      /\ \A s \in StateType : Current(t, s)' = Current(t, s)
  BY <1>1, WatcherStays DEF Current
<1>3. Taken(t) /\ \A s \in StateType : Cleared(t, s) BY <1>1 DEF Taken, Cleared
<1>4. RepInv(t)'
  <2>1. isEmptyFirstReport(lrep) => \A s \in StateType : lrep.body[t][s] = <<>>
    BY <1>0 DEF isEmptyFirstReport, HasNoData, IsEmptyObject
  <2> QED BY <1>1, <2>1 DEF RepInv
<1>5. LateInv(w, t)' BY <1>2, <1>3 DEF Strand, LateInv
<1>6. KeptInv(t)' /\ MarshalInv(w, t)' BY <1>1 DEF KeptInv, Kept, MarshalInv, Marshalled
<1>7. HeaderInv(w, t)'
  <2> SUFFICES ASSUME NEW s \in StateType, Storing(w, t, s)
               PROVE  NoneHeld(t) /\ Covered(header[w].list, w, t)
    BY <1>1, <1>2 DEF HeaderInv, Covered, NoneHeld
  <2>1. Adding(w) BY <1>0, StoringAdds
  <2>2. NoneHeld(t) BY <1>3, <2>1 DEF Strand, LateInv, NoneHeld
  <2> QED BY <1>3, <2>2 DEF Strand, CoveredInv
<1>8. CoveredInv(w, t)' BY <1>1, <1>2, <1>3 DEF Strand, CoveredInv, Covered
<1> QED BY <1>4, <1>5, <1>6, <1>7, <1>8 DEF Strand

\* The report is sent.
LEMMA SendStrands ==
    ASSUME TypeInv, SendReport, NEW w \in InformFirst, NEW t, t = TypeOf[w], Strand(w, t)
    PROVE  Strand(w, t)'
<1>1. lpc = "send" /\ lpc' = "wait" /\ objs' = objs /\ lrep' = lrep /\ sent' = Append(sent, lrep)
      /\ UNCHANGED watcher
  BY DEF SendReport
<1>2. /\ Newest(w)' = Newest(w) /\ header' = header /\ (Adding(w)' <=> Adding(w))
      /\ \A s \in StateType : Storing(w, t, s)' <=> Storing(w, t, s)
      /\ \A s \in StateType : Current(t, s)' = Current(t, s)
  BY <1>1, WatcherStays DEF Current
<1>3. Taken(t) /\ \A s \in StateType : Cleared(t, s) BY <1>1 DEF Taken, Cleared
<1>4. sent \in Seq(Report) /\ lrep \in Report BY DEF TypeInv, TypeOK, ListenerTypes
<1>5. RepInv(t)'
  <2>1. Len(sent') = Len(sent) + 1 /\ Len(sent) \in Nat /\ sent'[Len(sent) + 1] = lrep
    BY <1>1, <1>4, AppendSeq
  <2>2. Len(sent) + 1 \in 1..Len(sent') BY <2>1
  <2>3. ASSUME NEW s \in StateType, NEW k \in 1..Len(lrep.body[t][s])
        PROVE  WasSent(lrep.body[t][s][k], t, sent')
    <3>1. InReport(lrep.body[t][s][k], t, lrep) BY DEF InReport, Within
    <3> QED BY <2>1, <2>2, <3>1 DEF WasSent
  <2> QED BY <1>1, <2>3 DEF RepInv
<1>6. LateInv(w, t)' BY <1>2, <1>3 DEF Strand, LateInv
<1>7. HeaderInv(w, t)' /\ KeptInv(t)' /\ MarshalInv(w, t)'
  BY <1>1 DEF HeaderInv, KeptInv, Kept, MarshalInv, Marshalled
<1>8. CoveredInv(w, t)'
  <2>1. \A l : CoveredBy(l, t, Newest(w), lrep, sent) => CoveredBy(l, t, Newest(w), lrep, sent')
    BY <1>1, <1>4, SentCovers
  <2> QED BY <1>1, <1>2, <1>3, <2>1 DEF Strand, CoveredInv, Covered
<1> QED BY <1>5, <1>6, <1>7, <1>8 DEF Strand

\* Someone informs, and goes on to add.
LEMMA TakeStrands ==
    ASSUME TypeInv, TakeInform, NEW w \in InformFirst, NEW t, t = TypeOf[w], Shape(todo[w], t), Strand(w, t)
    PROVE  Strand(w, t)'
<1>0. w \in Watchers BY OwnField
<1>1. lpc = "wait" /\ lpc' = "copy" /\ objs' = objs /\ lrep' = lrep /\ sent' = sent /\ evt' = evt
      /\ header' = header
  BY DEF TakeInform
<1>2. PICK v \in Watchers : /\ wpc' = [wpc EXCEPT ![v] = AfterCall(v)]
                            /\ todo' = [todo EXCEPT ![v] = Tail(@)]
  <2>1. informQ \in Seq(Watchers) /\ informQ # <<>> BY DEF TakeInform, TypeInv, TypeOK, SharedTypes
  <2>2. PICK v \in Watchers : v = Head(informQ) BY <2>1, TailSeq
  <2> QED BY <2>2 DEF TakeInform, Goto, CallDone
<1>3. \A s \in StateType : Storing(w, t, s)' =>
          Storing(w, t, s) /\ header'[w] = header[w] /\ Newest(w)' = Newest(w)
  <2> SUFFICES ASSUME NEW s \in StateType, Storing(w, t, s)'
               PROVE  Storing(w, t, s) /\ Newest(w)' = Newest(w)
    BY <1>1
  <2>1. w # v BY <1>0, <1>2 DEF Storing, AfterCall, TypeInv, TypeOK, WatcherTypes
  <2>2. wpc'[w] = wpc[w] /\ todo'[w] = todo[w]
    BY <1>0, <1>2, <2>1 DEF TypeInv, TypeOK, WatcherTypes
  <2> QED BY <1>1, <2>2 DEF Storing, Newest, Owes
<1>4. \A s \in StateType : Current(t, s)' = Current(t, s) BY <1>1 DEF Current
<1>5. Taken(t) /\ \A s \in StateType : Cleared(t, s) BY <1>1 DEF Taken, Cleared
<1>6. RepInv(t)' BY <1>1 DEF Strand, RepInv
<1>7. LateInv(w, t)' /\ KeptInv(t)' /\ MarshalInv(w, t)' /\ CoveredInv(w, t)'
  BY <1>1 DEF LateInv, Cleared, KeptInv, Kept, MarshalInv, Marshalled, CoveredInv, Taken
<1>8. HeaderInv(w, t)'
  <2> SUFFICES ASSUME NEW s \in StateType, Storing(w, t, s)'
               PROVE  NoneHeld(t) /\ CoveredBy(header[w].list, t, Newest(w), lrep, sent)
    BY <1>1, <1>3, <1>4 DEF HeaderInv, Covered, NoneHeld
  <2>1. Storing(w, t, s) BY <1>3
  <2>2. Adding(w) BY <1>0, <2>1, StoringAdds
  <2>3. NoneHeld(t) BY <1>5, <2>2 DEF Strand, LateInv, NoneHeld
  <2> QED BY <1>5, <2>1, <2>3 DEF Strand, CoveredInv, Covered
<1> QED BY <1>6, <1>7, <1>8 DEF Strand

\* Every step of the listener.
LEMMA ListenerStrands ==
    ASSUME TypeInv, OneObject, ListenerStep,
           NEW w \in InformFirst, NEW t, t = TypeOf[w], Shape(todo[w], t), Strand(w, t)
    PROVE  Strand(w, t)'
<1>1. CASE PrepareCopies BY <1>1, CopyStrands
<1>2. CASE PrepareChecks BY <1>2, CheckStrands
<1>3. CASE DropEmpty BY <1>3, DropStrands
<1>4. CASE Marshal BY <1>4, MarshalStrands
<1>5. CASE DeleteData BY <1>5, DeleteStrands
<1>6. CASE Decide BY <1>6, DecideStrands
<1>7. CASE SendReport BY <1>7, SendStrands
<1>8. CASE TakeInform BY <1>8, TakeStrands
<1> QED BY <1>1, <1>2, <1>3, <1>4, <1>5, <1>6, <1>7, <1>8 DEF ListenerStep

-----------------------------------------------------------------------------
(* The microservices field has two writers, and both add before they        *)
(* inform: nothing of the others is ever in it.                             *)

ByAddFirst(l) == \A k \in 1..Len(l) : l[k].by \in AddFirst
ObjBy(obj) == \A s \in StateType : ByAddFirst(obj[s])
ObjsBy(os) == \A i \in 1..Len(os) : ObjBy(os[i])
MicroStoring(w) == wpc[w] = "store" /\ Head(todo[w]).jtype = MICROSERVICES
MicroInv ==
    /\ ObjsBy(objs[MICROSERVICES])
    /\ ObjBy(lrep.body[MICROSERVICES])
    /\ \A i \in 1..Len(sent) : ObjBy(sent[i].body[MICROSERVICES])
    /\ \A w \in Watchers : MicroStoring(w) => w \in AddFirst /\ ByAddFirst(header[w].list)
ShapesInv == \A w \in InformFirst : Shape(todo[w], TypeOf[w])

\* The field and an empty object in it.
LEMMA MicroField ==
    /\ MICROSERVICES \in JsonType
    /\ EmptyObjectData \in ObjectData /\ ObjBy(EmptyObjectData) /\ ByAddFirst(<<>>)
  BY DEF MICROSERVICES, JsonType, EmptyObjectData, ObjectData, ObjBy, ByAddFirst

\* One object is replaced, or a new one is added.
LEMMA ObjsByKept ==
    ASSUME NEW os \in Seq(ObjectData), ObjsBy(os), NEW obj \in ObjectData, ObjBy(obj)
    PROVE  /\ \A o \in 1..Len(os) : ObjsBy([os EXCEPT ![o] = obj])
           /\ ObjsBy(Append(os, obj))
<1>1. ASSUME NEW o \in 1..Len(os) PROVE ObjsBy([os EXCEPT ![o] = obj])
  <2>1. /\ Len([os EXCEPT ![o] = obj]) = Len(os) /\ [os EXCEPT ![o] = obj][o] = obj
        /\ \A j \in 1..Len(os) : j # o => [os EXCEPT ![o] = obj][j] = os[j]
    BY ReplacedSeq
  <2> QED BY <2>1 DEF ObjsBy
<1>2. ObjsBy(Append(os, obj))
  <2>1. /\ Len(Append(os, obj)) = Len(os) + 1 /\ Len(os) \in Nat /\ Append(os, obj)[Len(os) + 1] = obj
        /\ \A i \in 1..Len(os) : Append(os, obj)[i] = os[i]
    BY AppendSeq
  <2> SUFFICES ASSUME NEW i \in 1..Len(Append(os, obj)) PROVE ObjBy(Append(os, obj)[i]) BY DEF ObjsBy
  <2>2. CASE i = Len(os) + 1 BY <2>1, <2>2
  <2>3. CASE i # Len(os) + 1
    <3>1. i \in 1..Len(os) BY <2>1, <2>3
    <3> QED BY <2>1, <3>1 DEF ObjsBy
  <2> QED BY <2>2, <2>3
<1> QED BY <1>1, <1>2

\* Whoever is at a call to add to the field adds before it informs.
LEMMA MicroWriters ==
    ASSUME TypeInv, PlansOnce, ShapesInv, NEW w \in Watchers,
           Calls(w, "add") \/ wpc[w] \in {"alloc", "store"}, Head(todo[w]).jtype = MICROSERVICES
    PROVE  w \in AddFirst
<1> SUFFICES ASSUME w \in InformFirst PROVE FALSE BY DEF InformFirst
<1>1. TypeOf[w] \in SingleWriter /\ Shape(todo[w], TypeOf[w]) BY OwnField DEF ShapesInv
<1>2. todo[w] # <<>> /\ Head(todo[w]).op = "add" BY AddingOwn
<1>3. Head(todo[w]).jtype = TypeOf[w] BY <1>1, <1>2, ShapeCases, AddsDiffer
<1> QED BY <1>1, <1>3, Fields

\* The objects of the field after a step of a watcher.
LEMMA MicroObjsWatcher ==
    ASSUME TypeInv, PlansOnce, ShapesInv, MicroInv, NEW w \in Watchers, WatcherStep(w) \/ Event(w)
    PROVE  ObjsBy(objs[MICROSERVICES])'
<1>1. objs \in [JsonType -> Seq(ObjectData)] /\ MICROSERVICES \in JsonType /\ ObjsBy(objs[MICROSERVICES])
  BY MicroField DEF TypeInv, TypeOK, SharedTypes, MicroInv
<1>2. CASE AddWrites(w)
  <2>1. PICK u \in JsonType, v \in StateType : Head(todo[w]) = Add(u, v)
    BY <1>2, AddingOwn DEF AddWrites
  <2>2. Head(todo[w]).jtype = u /\ Head(todo[w]).stype = v BY <2>1, AddsDiffer
  <2>3. wpc[w] = "store" BY <1>2 DEF AddWrites
  <2> DEFINE o == header[w].obj
             it == [by |-> w, n |-> evt[w]]
             list == header[w].list
             obj == AddToJsonFormatByState(objs[u][o], v, list, it)
  <2>4. objs' = [objs EXCEPT ![u] = [objs[u] EXCEPT ![o] = obj]]
    BY <1>1, <1>2, <2>2 DEF AddWrites
  <2>5. o \in 1..Len(objs[u]) /\ objs[u][o] \in ObjectData /\ list \in Seq(Item) /\ it \in Item
    <3>1. o \in 1..Len(objs[u]) BY <2>2, <2>3 DEF TypeInv, TypeOK, InCall
    <3>2. evt[w] \in Nat /\ w \in AllWatchers BY WatchersAssumption DEF TypeInv, TypeOK, WatcherTypes
    <3>3. objs[u] \in Seq(ObjectData) BY <1>1
    <3>4. objs[u][o] \in ObjectData BY <3>1, <3>3
    <3>5. list \in Seq(Item) BY DEF TypeInv, TypeOK, WatcherTypes
    <3>6. it \in Item BY <3>2 DEF Item
    <3> QED BY <3>1, <3>4, <3>5, <3>6
  <2>6. obj \in ObjectData BY <2>5, AddByStateTyped
  <2>7. CASE u # MICROSERVICES
    <3> HIDE DEF obj
    <3>1. objs'[MICROSERVICES] = objs[MICROSERVICES] BY <1>1, <2>4, <2>7
    <3> QED BY <1>1, <3>1
  <2>8. CASE u = MICROSERVICES
    <3>1. it.by \in AddFirst /\ ByAddFirst(list)
      BY <2>2, <2>3, <2>8 DEF MicroInv, MicroStoring
    <3> HIDE DEF it, list
    <3>2. ByAddFirst(Append(list, it))
      <4>1. /\ Len(Append(list, it)) = Len(list) + 1 /\ Len(list) \in Nat
            /\ Append(list, it)[Len(list) + 1] = it
            /\ \A k \in 1..Len(list) : Append(list, it)[k] = list[k]
        BY <2>5, AppendSeq
      <4> SUFFICES ASSUME NEW k \in 1..Len(Append(list, it)) PROVE Append(list, it)[k].by \in AddFirst
        BY DEF ByAddFirst
      <4>2. CASE k = Len(list) + 1 BY <3>1, <4>1, <4>2
      <4>3. CASE k # Len(list) + 1
        <5>1. k \in 1..Len(list) BY <4>1, <4>3
        <5> QED BY <3>1, <4>1, <5>1 DEF ByAddFirst
      <4> QED BY <4>2, <4>3
    <3>3. \A s \in StateType : obj[s] = IF s = v THEN Append(list, it) ELSE objs[u][o][s]
      BY <2>5 DEF AddToJsonFormatByState, ObjectData
    <3>4. ObjBy(objs[u][o]) BY <1>1, <2>5, <2>8 DEF ObjsBy
    <3> HIDE DEF obj
    <3>5. ObjBy(obj) BY <3>2, <3>3, <3>4 DEF ObjBy
    <3> HIDE DEF o
    <3>6. objs'[u] = [objs[u] EXCEPT ![o] = obj] BY <1>1, <2>4, <2>8
    <3>7. ObjsBy(objs'[u]) BY <1>1, <2>5, <2>6, <2>8, <3>5, <3>6, ObjsByKept
    <3> QED BY <2>8, <3>7
  <2> QED BY <2>7, <2>8
<1>3. CASE AddAllocates(w)
  <2>1. PICK u \in JsonType : u = Head(todo[w]).jtype BY <1>3, AddingOwn DEF AddAllocates
  <2>2. objs' = [objs EXCEPT ![u] = Append(objs[u], EmptyObjectData)] BY <1>1, <1>3, <2>1 DEF AddAllocates
  <2>3. \/ objs'[MICROSERVICES] = objs[MICROSERVICES]
        \/ objs'[MICROSERVICES] = Append(objs[MICROSERVICES], EmptyObjectData)
    BY <1>1, <2>2
  <2>4. ObjsBy(Append(objs[MICROSERVICES], EmptyObjectData)) BY <1>1, MicroField, ObjsByKept
  <2> QED BY <1>1, <2>3, <2>4
<1>4. CASE ~AddWrites(w) /\ ~AddAllocates(w)
  <2>1. objs' = objs
    BY <1>4 DEF WatcherStep, GetClusterVersion, AddFindsNil, AddReads, InformSkipped, InformBlocks, Event
  <2> QED BY <1>1, <2>1
<1> QED BY <1>2, <1>3, <1>4

\* A step of a watcher.
LEMMA MicroWatcher ==
    ASSUME TypeInv, PlansOnce, ShapesInv, MicroInv, NEW w \in Watchers, WatcherStep(w) \/ Event(w)
    PROVE  MicroInv'
<1>1. ObjsBy(objs[MICROSERVICES])' BY MicroObjsWatcher
<1>2. lrep' = lrep /\ sent' = sent
  BY DEF WatcherStep, GetClusterVersion, AddFindsNil, AddAllocates, AddReads, AddWrites, InformSkipped,
     InformBlocks, Event, listener
<1>3. ASSUME NEW v \in Watchers, MicroStoring(v)' PROVE v \in AddFirst /\ ByAddFirst(header'[v].list)
  <2>1. CASE v # w
    <3>1. wpc'[v] = wpc[v] /\ todo'[v] = todo[v] /\ header'[v] = header[v] BY <2>1, OthersStay
    <3> QED BY <1>3, <3>1 DEF MicroInv, MicroStoring
  <2>2. CASE v = w
    <3>1. AddReads(w)
      BY <1>3, <2>2 DEF WatcherStep, GetClusterVersion, AddFindsNil, AddAllocates, AddReads, AddWrites,
         InformSkipped, InformBlocks, Event, MicroStoring, Goto, AfterCall, TypeInv, TypeOK, WatcherTypes
    <3>2. Head(todo[w]).jtype = MICROSERVICES /\ Calls(w, "add")
      BY <1>3, <2>2, <3>1 DEF AddReads, MicroStoring
    <3>3. w \in AddFirst BY <3>2, MicroWriters
    <3> DEFINE os == objs[MICROSERVICES]
               s == Head(todo[w]).stype
    <3>4. s \in StateType BY <3>2, AddingOwn
    <3>5. header'[w].list = os[Len(os)][s] /\ os # <<>>
      BY <3>1, <3>2 DEF AddReads, TypeInv, TypeOK, WatcherTypes
    <3>6. os \in Seq(ObjectData) /\ ObjsBy(os)
      BY MicroField DEF TypeInv, TypeOK, SharedTypes, MicroInv
    <3> HIDE DEF os, s
    <3>7. Len(os) \in 1..Len(os) BY <3>5, <3>6, TailSeq
    <3>8. ByAddFirst(os[Len(os)][s]) BY <3>4, <3>6, <3>7 DEF ObjsBy, ObjBy
    <3> QED BY <2>2, <3>3, <3>5, <3>8
  <2> QED BY <2>1, <2>2
<1> QED BY <1>1, <1>2, <1>3 DEF MicroInv

\* Reports and lists are kept, emptied or moved.
LEMMA MicroKept ==
    ASSUME TypeInv, MicroInv, ObjsBy(objs'[MICROSERVICES]), ObjBy(lrep'.body[MICROSERVICES]),
           sent' = sent \/ sent' = Append(sent, lrep),
           \A w \in Watchers : MicroStoring(w)' => MicroStoring(w) /\ header'[w] = header[w]
    PROVE  MicroInv'
<1>1. \A i \in 1..Len(sent') : ObjBy(sent'[i].body[MICROSERVICES])
  <2>1. CASE sent' = sent BY <2>1 DEF MicroInv
  <2>2. CASE sent' = Append(sent, lrep)
    <3>1. sent \in Seq(Report) /\ lrep \in Report BY DEF TypeInv, TypeOK, ListenerTypes
    <3>2. /\ Len(sent') = Len(sent) + 1 /\ Len(sent) \in Nat /\ sent'[Len(sent) + 1] = lrep
          /\ \A k \in 1..Len(sent) : sent'[k] = sent[k]
      BY <2>2, <3>1, AppendSeq
    <3> SUFFICES ASSUME NEW i \in 1..Len(sent') PROVE ObjBy(sent'[i].body[MICROSERVICES]) OBVIOUS
    <3>3. CASE i = Len(sent) + 1 BY <3>2, <3>3 DEF MicroInv
    <3>4. CASE i # Len(sent) + 1
      <4>1. i \in 1..Len(sent) BY <3>2, <3>4
      <4> QED BY <3>2, <4>1 DEF MicroInv
    <3> QED BY <3>3, <3>4
  <2> QED BY <2>1, <2>2
<1> QED BY <1>1 DEF MicroInv

\* A list of it is marshalled.
LEMMA MicroMarshal ==
    ASSUME TypeInv, MicroInv, Marshal
    PROVE  ObjBy(lrep'.body[MICROSERVICES])
<1> DEFINE u == MarshalOrder[lj]
           os == objs[u]
<1>1. /\ lj \in 1..6 /\ ls \in StateType /\ lrep \in Report /\ lrep.body \in [JsonType -> ObjectData]
      /\ u \in JsonType /\ os \in Seq(ObjectData) /\ MICROSERVICES \in JsonType
  BY ReportFields, OrdersTyped, MicroField DEF TypeInv, TypeOK, ListenerTypes, SharedTypes, StateType
<1>2. CASE lcopy[u] = 0
  <2>1. lrep' = lrep BY <1>2 DEF Marshal
  <2> QED BY <2>1 DEF MicroInv
<1>3. CASE lcopy[u] # 0
  <2> DEFINE l == os[lcopy[u]][ls]
  <2>1. lrep' = [lrep EXCEPT !.body[u][ls] = l] BY <1>3 DEF Marshal
  <2>2. lcopy[u] \in 1..Len(os)
    <3>1. lcopy[u] \in Nat /\ lcopy[u] <= Len(os) BY <1>1 DEF TypeInv, TypeOK, ListenerTypes
    <3> QED BY <1>1, <1>3, <3>1
  <2>3. u = MICROSERVICES => ByAddFirst(l) BY <1>1, <2>2 DEF MicroInv, ObjsBy, ObjBy
  <2> HIDE DEF u, os, l
  <2>4. lrep'.body = [lrep.body EXCEPT ![u] = [lrep.body[u] EXCEPT ![ls] = l]]
    BY <1>1, <2>1 DEF Report
  <2>5. ObjBy(lrep.body[MICROSERVICES]) BY DEF MicroInv
  <2>6. CASE u = MICROSERVICES
    <3>1. \A s \in StateType : lrep'.body[u][s] = IF s = ls THEN l ELSE lrep.body[u][s]
      BY <1>1, <2>4 DEF ObjectData
    <3> QED BY <2>3, <2>5, <2>6, <3>1 DEF ObjBy
  <2>7. CASE u # MICROSERVICES
    <3>1. lrep'.body[MICROSERVICES] = lrep.body[MICROSERVICES] BY <1>1, <2>4, <2>7
    <3> QED BY <2>5, <3>1
  <2> QED BY <2>6, <2>7
<1> QED BY <1>2, <1>3

\* A list of it is emptied.
LEMMA MicroDelete ==
    ASSUME TypeInv, MicroInv, DeleteData
    PROVE  ObjsBy(objs'[MICROSERVICES])
<1> DEFINE u == DeleteOrder[lj]
           o == Len(objs[u])
           obj == [objs[u][o] EXCEPT ![ls] = <<>>]
<1>1. /\ lj \in 1..6 /\ ls \in StateType /\ objs \in [JsonType -> Seq(ObjectData)] /\ u \in JsonType
      /\ MICROSERVICES \in JsonType
  BY OrdersTyped, MicroField DEF TypeInv, TypeOK, ListenerTypes, SharedTypes, StateType
<1>2. ObjsBy(objs[MICROSERVICES]) BY DEF MicroInv
<1>3. CASE objs[u] = <<>> \/ u # MICROSERVICES
  <2>1. objs'[MICROSERVICES] = objs[MICROSERVICES] BY <1>1, <1>3 DEF DeleteData
  <2> QED BY <1>2, <2>1
<1>4. CASE objs[u] # <<>> /\ u = MICROSERVICES
  <2>1. objs[u] \in Seq(ObjectData) /\ o \in 1..o /\ objs[u][o] \in ObjectData BY <1>1, <1>4
  <2>2. ObjBy(objs[u][o]) BY <1>2, <1>4, <2>1 DEF ObjsBy
  <2>3. obj \in ObjectData /\ \A s \in StateType : obj[s] = objs[u][o][s] \/ obj[s] = <<>>
    BY <1>1, <2>1 DEF ObjectData
  <2>4. objs'[u] = [objs[u] EXCEPT ![o] = obj] BY <1>1, <1>4 DEF DeleteData
  <2> HIDE DEF obj
  <2>5. ObjBy(obj) BY <2>2, <2>3, MicroField DEF ObjBy
  <2>6. ObjsBy([objs[u] EXCEPT ![o] = obj]) BY <1>2, <1>4, <2>1, <2>3, <2>5, ObjsByKept
  <2> QED BY <1>4, <2>4, <2>6
<1> QED BY <1>3, <1>4

\* A step of the listener.
LEMMA MicroListener ==
    ASSUME TypeInv, MicroInv, ListenerStep
    PROVE  MicroInv'
<1>0. ObjsBy(objs[MICROSERVICES]) /\ ObjBy(lrep.body[MICROSERVICES]) BY DEF MicroInv
<1> DEFINE Stored == \A w \in Watchers : MicroStoring(w)' => MicroStoring(w) /\ header'[w] = header[w]
<1>1. UNCHANGED watcher => Stored BY DEF watcher, MicroStoring
<1>2. CASE PrepareCopies
  <2>1. lrep'.body = EmptyBody /\ objs' = objs /\ sent' = sent /\ UNCHANGED watcher
    BY <1>2 DEF PrepareCopies
  <2>2. lrep'.body[MICROSERVICES] = EmptyObjectData BY <2>1, MicroField DEF EmptyBody
  <2> QED BY <1>0, <1>1, <2>1, <2>2, MicroField, MicroKept
<1>3. CASE PrepareChecks
  <2>1. lrep'.body = lrep.body BY <1>3 DEF PrepareChecks, TypeInv, TypeOK, ListenerTypes, Report
  <2>2. objs' = objs /\ sent' = sent /\ UNCHANGED watcher BY <1>3 DEF PrepareChecks
  <2> QED BY <1>0, <1>1, <2>1, <2>2, MicroKept
<1>4. CASE Marshal
  <2>1. objs' = objs /\ sent' = sent /\ UNCHANGED watcher BY <1>4 DEF Marshal
  <2> QED BY <1>0, <1>1, <1>4, <2>1, MicroMarshal, MicroKept
<1>5. CASE DeleteData
  <2>1. lrep' = lrep /\ sent' = sent /\ UNCHANGED watcher BY <1>5 DEF DeleteData
  <2> QED BY <1>0, <1>1, <1>5, <2>1, MicroDelete, MicroKept
<1>6. CASE DropEmpty \/ Decide \/ SendReport
  <2>1. objs' = objs /\ lrep' = lrep /\ (sent' = sent \/ sent' = Append(sent, lrep)) /\ UNCHANGED watcher
    BY <1>6 DEF DropEmpty, Decide, SendReport
  <2> QED BY <1>0, <1>1, <2>1, MicroKept
<1>7. CASE TakeInform
  <2>1. objs' = objs /\ lrep' = lrep /\ sent' = sent BY <1>7 DEF TakeInform
  <2>2. Stored
    <3>1. informQ \in Seq(Watchers) /\ informQ # <<>> BY <1>7 DEF TakeInform, TypeInv, TypeOK, SharedTypes
    <3>2. PICK v \in Watchers : v = Head(informQ) BY <3>1, TailSeq
    <3>3. header' = header /\ wpc' = [wpc EXCEPT ![v] = AfterCall(v)] /\ todo' = [todo EXCEPT ![v] = Tail(@)]
      BY <1>7, <3>2 DEF TakeInform, Goto, CallDone
    <3>4. wpc'[v] # "store" /\ \A w \in Watchers : w # v => wpc'[w] = wpc[w] /\ todo'[w] = todo[w]
      BY <3>3 DEF AfterCall, TypeInv, TypeOK, WatcherTypes
    <3> QED BY <3>3, <3>4 DEF MicroStoring
  <2> QED BY <1>0, <2>1, <2>2, MicroKept
<1> QED BY <1>2, <1>3, <1>4, <1>5, <1>6, <1>7 DEF ListenerStep

-----------------------------------------------------------------------------
(* The invariant and the theorem.                                           *)

StrandedInv == VersionInv /\ IdleInv /\ StrandInv /\ MicroInv

\* At the start nothing is held, in preparation or sent.
LEMMA InitStranded == Init => StrandedInv
<1> SUFFICES ASSUME Init PROVE StrandedInv OBVIOUS
<1>1. /\ lpc = "copy" /\ sent = <<>> /\ lrep.body = EmptyBody /\ objs = [t \in JsonType |-> <<>>]
      /\ \A w \in Watchers : todo[w] = <<>> /\ wpc[w] # "store"
  BY DEF Init
<1>2. VersionInv /\ IdleInv BY <1>1 DEF VersionInv, IdleInv
<1>3. ASSUME NEW w \in InformFirst, NEW t, t = TypeOf[w] PROVE Shape(todo[w], t) /\ Strand(w, t)
  <2>1. w \in Watchers /\ t \in JsonType BY <1>3, OwnField
  <2>2. Shape(todo[w], t) BY <1>1, <2>1 DEF Shape
  <2>3. RepInv(t) BY <1>1, <2>1 DEF RepInv, EmptyBody, EmptyObjectData
  <2>4. LateInv(w, t) /\ HeaderInv(w, t) BY <1>1, <2>1 DEF LateInv, Adding, HeaderInv, Storing
  <2>5. KeptInv(t) /\ MarshalInv(w, t) /\ CoveredInv(w, t)
    BY <1>1 DEF KeptInv, Kept, MarshalInv, Marshalled, CoveredInv, Taken
  <2> QED BY <2>2, <2>3, <2>4, <2>5 DEF Strand
<1>4. StrandInv BY <1>3 DEF StrandInv
<1>5. MicroInv
  <2>1. lrep.body[MICROSERVICES] = EmptyObjectData /\ objs[MICROSERVICES] = <<>>
    BY <1>1, MicroField DEF EmptyBody
  <2> QED BY <1>1, <2>1, MicroField DEF MicroInv, ObjsBy, MicroStoring
<1> QED BY <1>2, <1>4, <1>5 DEF StrandedInv

\* Every step keeps it.
LEMMA NextStranded == TypeInv /\ OrderInv /\ StrandedInv /\ [Next]_vars => StrandedInv'
<1> SUFFICES ASSUME TypeInv, OrderInv, StrandedInv, [Next]_vars PROVE StrandedInv' OBVIOUS
<1>0. PlansOnce /\ OneObject /\ VersionInv /\ IdleInv /\ StrandInv /\ MicroInv /\ ShapesInv
  BY DEF OrderInv, StrandedInv, StrandInv, ShapesInv
<1>1. VersionInv' /\ IdleInv' BY <1>0, VersionStays, IdleStays
<1>2. ASSUME NEW w \in InformFirst, NEW t, t = TypeOf[w] PROVE Shape(todo'[w], t) /\ Strand(w, t)'
  <2>1. Shape(todo[w], t) /\ Strand(w, t) BY <1>0, <1>2 DEF StrandInv
  <2>2. Shape(todo'[w], t) BY <1>2, <2>1, ShapeStays
  <2>3. ASSUME ListenerStep PROVE Strand(w, t)' BY <1>0, <1>2, <2>1, <2>3, ListenerStrands
  <2>4. ASSUME NEW v \in Watchers, WatcherStep(v) \/ Event(v) PROVE Strand(w, t)'
    BY <1>0, <1>2, <2>1, <2>4, WatcherStrands
  <2>5. ASSUME UNCHANGED vars PROVE Strand(w, t)'
    <3>1. UNCHANGED <<objs, lpc, lj, ls, lcopy, lrep, sent>> /\ UNCHANGED watcher
      BY <2>5 DEF vars, listener, watcher
    <3>2. /\ Newest(w)' = Newest(w) /\ (Adding(w)' => Adding(w))
          /\ \A s \in StateType : Storing(w, t, s)' => Storing(w, t, s) /\ header'[w] = header[w]
      BY <3>1, WatcherStays
    <3>3. \A s \in StateType : Current(t, s)' = Current(t, s) BY <3>1 DEF Current
    <3> QED BY <2>1, <3>1, <3>2, <3>3, QuietKeeps
  <2>6. Strand(w, t)' BY <2>3, <2>4, <2>5 DEF Next
  <2> QED BY <2>2, <2>6
<1>3. StrandInv' BY <1>2 DEF StrandInv
<1>4. MicroInv'
  <2>1. CASE ListenerStep BY <1>0, <2>1, MicroListener
  <2>2. ASSUME NEW v \in Watchers, WatcherStep(v) \/ Event(v) PROVE MicroInv'
    BY <1>0, <2>2, MicroWatcher
  <2>3. CASE UNCHANGED vars
    <3>1. UNCHANGED <<objs, lrep, sent, wpc, todo, header>> BY <2>3 DEF vars, listener, watcher
    <3> QED BY <1>0, <3>1 DEF MicroInv, MicroStoring
  <2> QED BY <2>1, <2>2, <2>3 DEF Next
<1> QED BY <1>1, <1>3, <1>4 DEF StrandedInv

\* No two fields have the same writer.
LEMMA WritersDiffer ==
    ASSUME NEW t \in SingleWriter, NEW u \in SingleWriter, Writer[t] = Writer[u]
    PROVE  t = u
<1>1. /\ NODE = 1 /\ SERVICES = 2 /\ PODS = 4 /\ SECRETS = 5 /\ NAMESPACES = 6
      /\ 1 \in SingleWriter /\ 2 \in SingleWriter /\ 4 \in SingleWriter /\ 5 \in SingleWriter
      /\ 6 \in SingleWriter
  BY DEF NODE, SERVICES, PODS, SECRETS, NAMESPACES, SingleWriter, JsonType, MICROSERVICES
<1>2. /\ Writer[1] = "node" /\ Writer[2] = "service" /\ Writer[4] = "pod" /\ Writer[5] = "secret"
      /\ Writer[6] = "namespace"
  BY <1>1 DEF Writer
<1>3. t \in {1, 2, 4, 5, 6} /\ u \in {1, 2, 4, 5, 6} BY <1>1, Fields
<1> QED BY <1>2, <1>3

\* An entry of w that was sent was sent in the field of w.
LEMMA SentInOwnField ==
    ASSUME TypeInv, OrderInv, MicroInv, NEW w \in InformFirst, NEW it \in SentItems, it.by = w
    PROVE  ~NothingOut(TypeOf[w], lrep, sent)
<1>0. /\ w \in Watchers /\ TypeOf[w] \in SingleWriter /\ Writer[TypeOf[w]] = w /\ w \notin AddFirst
      /\ sent \in Seq(Report)
  BY OwnField DEF InformFirst, TypeInv, TypeOK, ListenerTypes
<1>1. PICK i \in DOMAIN sent : it \in ReportItems(sent[i]) BY DEF SentItems
<1>2. PICK u \in JsonType, s \in StateType : it \in Entries(sent[i].body[u][s]) BY <1>1 DEF ReportItems
<1>3. i \in 1..Len(sent) /\ sent[i].body[u][s] \in Seq(Item)
  <2>1. i \in 1..Len(sent) /\ sent[i] \in Report BY <1>0
  <2>2. sent[i].body \in [JsonType -> ObjectData] BY <2>1, ReportFields
  <2> QED BY <2>1, <2>2 DEF ObjectData
<1>4. PICK k \in 1..Len(sent[i].body[u][s]) : it = sent[i].body[u][s][k] BY <1>2, <1>3 DEF Entries
<1>5. u # MICROSERVICES BY <1>0, <1>3, <1>4 DEF MicroInv, ObjBy, ByAddFirst
<1>6. u \in SingleWriter BY <1>5 DEF SingleWriter
<1>7. it.by = Writer[u] BY <1>3, <1>4, <1>6 DEF OrderInv, ListInv, ListsGood, Good, GoodThen, Past
<1>8. u = TypeOf[w] BY <1>0, <1>6, <1>7, WritersDiffer
<1>9. sent[i].body[u][s] # <<>>
  <2> SUFFICES ASSUME sent[i].body[u][s] = <<>> PROVE FALSE OBVIOUS
  <2>1. Len(sent[i].body[u][s]) = 0 OBVIOUS
  <2> QED BY <1>4, <2>1
<1> QED BY <1>3, <1>8, <1>9 DEF NothingOut, NoData

\* What a list of the field holds while the listener sleeps and that was never
\* sent is of the last event that w informed of.
LEMMA StrandedIsNewest ==
    ASSUME TypeInv, OrderInv, StrandedInv, lpc = "wait", NEW w \in InformFirst,
           ~NothingOut(TypeOf[w], lrep, sent), NEW e \in Unreported(w)
    PROVE  e.by = w /\ e.n = Newest(w) /\ e \in Item
<1> DEFINE t == TypeOf[w]
<1>0. w \in Watchers /\ t \in SingleWriter /\ t \in JsonType /\ Writer[t] = w /\ sent \in Seq(Report)
  BY OwnField DEF TypeInv, TypeOK, ListenerTypes
<1>1. PICK s \in StateType : e \in Entries(Current(t, s)) BY DEF Unreported
<1>2. e \notin SentItems BY DEF Unreported
<1>3. ListsGood(t, s) /\ Shape(todo[w], t) /\ Strand(w, t)
  BY <1>0 DEF OrderInv, ListInv, StrandedInv, StrandInv
<1> HIDE DEF t
<1>4. Current(t, s) \in Seq(Item) /\ Good(Current(t, s), t) BY <1>3 DEF ListsGood, Good, GoodThen
<1>5. PICK k \in 1..Len(Current(t, s)) : e = Current(t, s)[k] BY <1>1, <1>4 DEF Entries
<1>6. e \in Item BY <1>4, <1>5
<1>7. Past(e, t, evt, todo) BY <1>4, <1>5 DEF Good, GoodThen
<1>8. e.by = w /\ e.n \in Nat /\ e.n <= evt[w] /\ (Pending(todo[w], t) => e.n < evt[w])
  BY <1>0, <1>7 DEF Past
<1>9. evt[w] \in Nat BY <1>0 DEF TypeInv, TypeOK, WatcherTypes
<1>10. e.n <= Newest(w)
  <2>1. CASE ~Owes(w) BY <1>8, <2>1 DEF Newest
  <2>2. CASE Owes(w)
    <3>1. PICK v \in StateType : todo[w] = <<Inform, Add(t, v)>>
      BY <1>3, <2>2, ShapeCases DEF Owes
    <3>2. Len(todo[w]) = 2 /\ todo[w][2] = Add(t, v) BY <3>1
    <3>3. 2 \in 1..Len(todo[w]) BY <3>2
    <3>4. Pending(todo[w], t) BY <3>2, <3>3, AddsDiffer DEF Pending
    <3> QED BY <1>8, <1>9, <2>2, <3>4 DEF Newest
  <2> QED BY <2>1, <2>2
<1>11. ~(e.n < Newest(w))
  <2> SUFFICES ASSUME e.n < Newest(w) PROVE FALSE OBVIOUS
  <2>1. Taken(t) BY DEF Taken
  <2>2. CoveredBy(Current(t, s), t, Newest(w), lrep, sent)
    BY <1>3, <2>1 DEF Strand, CoveredInv, Covered
  <2>3. InReport(e, t, lrep) \/ WasSent(e, t, sent) BY <1>5, <2>2 DEF CoveredBy, t
  <2>4. WasSent(e, t, sent) BY <1>3, <2>3 DEF Strand, RepInv, InReport, Within
  <2>5. PICK i \in 1..Len(sent), v \in StateType : Within(e, sent[i].body[t][v])
    BY <2>4 DEF WasSent, InReport
  <2>6. i \in DOMAIN sent /\ sent[i].body[t][v] \in Seq(Item)
    <3>1. i \in DOMAIN sent /\ sent[i] \in Report BY <1>0
    <3>2. sent[i].body \in [JsonType -> ObjectData] BY <3>1, ReportFields
    <3> QED BY <1>0, <3>1, <3>2 DEF ObjectData
  <2>7. e \in Entries(sent[i].body[t][v]) BY <2>5, <2>6 DEF Within, Entries
  <2>8. e \in ReportItems(sent[i]) BY <1>0, <2>7 DEF ReportItems
  <2> QED BY <1>2, <2>6, <2>8 DEF SentItems
<1>12. Newest(w) \in Int BY <1>9 DEF Newest
<1> QED BY <1>6, <1>8, <1>10, <1>11, <1>12

\* Of a node, service, secret or namespace watcher one of whose changes was
\* sent, never more than one change waits for the listener to be woken.
THEOREM OneIsStranded == Spec => []AtMostOneStranded
<1>1. TypeInv /\ OrderInv /\ StrandedInv => AtMostOneStranded
  <2> SUFFICES ASSUME TypeInv, OrderInv, StrandedInv, lpc = "wait", NEW w \in Watchers \ AddFirst,
                      NEW it \in SentItems, it.by = w, NEW a \in Unreported(w), NEW b \in Unreported(w)
               PROVE  a = b
    BY DEF AtMostOneStranded
  <2>1. w \in InformFirst /\ MicroInv BY DEF InformFirst, StrandedInv
  <2>2. ~NothingOut(TypeOf[w], lrep, sent) BY <2>1, SentInOwnField
  <2>3. a.by = b.by /\ a.n = b.n /\ a \in Item /\ b \in Item BY <2>1, <2>2, StrandedIsNewest
  <2> QED BY <2>3 DEF Item
<1> QED BY <1>1, InitStranded, NextStranded, InitOrder, NextOrder, TypeInvariant, PTL DEF Spec
=============================================================================
