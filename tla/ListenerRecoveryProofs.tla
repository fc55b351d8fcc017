------------------------ MODULE ListenerRecoveryProofs ------------------------
(***************************************************************************)
(* Proofs about ListenerRecovery, for every set of watchers, any number of *)
(* events and any number of panics: every call of ListenerAndSender marks  *)
(* its first report, identifiers are unique, and a new state reaches every *)
(* watcher.                                                                *)
(***************************************************************************)
EXTENDS ListenerRecovery, QueueLemmas

-----------------------------------------------------------------------------
(* Marks.  While ListenerAndSender notifies the watchers the report of its  *)
(* start is still to come; when it is about to report, the flag says        *)
(* whether this start has sent one.                                         *)

Sent == [first : BOOLEAN, meta : BOOLEAN, start : Nat]
MarkTypes ==
    /\ first \in BOOLEAN /\ aggregate \in BOOLEAN
    /\ starts \in Nat /\ sent \in Seq(Sent)
    /\ \A i \in 1..Len(sent) : sent[i].start <= starts
NewStart == \A i \in 1..Len(sent) : sent[i].start # starts
Marked(i) ==
    /\ sent[i].first <=> i = 1 \/ sent[i - 1].start # sent[i].start
    /\ sent[i].meta <=> i = 1
MarkInv ==
    /\ MarkTypes
    /\ aggregate <=> Len(sent) = 0
    /\ lpc \in {"notify", "tell"} => first /\ NewStart
    /\ lpc = "report" => (first <=> Len(sent) = 0 \/ sent[Len(sent)].start # starts)
    /\ lpc = "wait" => ~first /\ Len(sent) # 0 /\ sent[Len(sent)].start = starts
    /\ \A i \in 1..Len(sent) : Marked(i)

\* Nothing is sent and nothing is marked at the start.
LEMMA InitMark == Init => MarkInv
<1> SUFFICES ASSUME Init PROVE MarkInv OBVIOUS
<1>1. sent = <<>> /\ first = TRUE /\ aggregate = TRUE /\ starts = 0 /\ lpc = "start"
  BY Zenon DEF Init
<1>2. MarkTypes BY <1>1 DEF MarkTypes
<1>3. Len(sent) = 0 BY <1>1
<1> QED BY <1>1, <1>2, <1>3 DEF MarkInv

\* What the marks depend on.
marks == <<first, aggregate, starts, sent, lpc>>

\* A step that changes none of it keeps them.
LEMMA MarkKept == MarkInv /\ UNCHANGED marks => MarkInv'
  BY DEF MarkInv, MarkTypes, NewStart, Marked, marks

\* Flags and reports are ListenerAndSender's: no watcher touches them.
LEMMA WatcherKeepsMarks ==
    ASSUME NEW w \in Watchers,
           WatcherStep(w) \/ Opens(w) \/ OpenFails(w) \/ Event(w) \/ NotifierAnswers(w)
    PROVE  UNCHANGED marks
  BY DEF WatcherStep, Event, NotifierAnswers, Registers, Appends, AsksVersion, Opens, OpenFails, LocksAndReads, Counts,
         Gives, MakesList, Pushes, HandlerPanics, Adds, Informs, marks, report, listener

\* A start comes before every report of its own.
LEMMA StartsMark == MarkInv /\ Starts => MarkInv'
<1> SUFFICES ASSUME MarkInv, Starts PROVE MarkInv' OBVIOUS
<1>0. starts \in Nat /\ \A i \in 1..Len(sent) : sent[i].start \in Nat /\ sent[i].start <= starts
  <2>1. starts \in Nat /\ sent \in Seq(Sent) /\ \A i \in 1..Len(sent) : sent[i].start <= starts
    BY DEF MarkInv, MarkTypes
  <2>2. \A i \in 1..Len(sent) : sent[i] \in Sent
    BY <2>1
  <2> QED BY <2>1, <2>2 DEF Sent
<1>2. aggregate' = aggregate /\ sent' = sent /\ starts' = starts + 1
  BY DEF Starts
<1>6. first' = TRUE
  BY Zenon DEF MarkInv, MarkTypes, Starts
<1>7. \A i \in 1..Len(sent') : sent'[i].start <= starts' /\ sent'[i].start # starts'
  BY <1>0, <1>2
<1>1. MarkTypes' /\ NewStart'
  BY <1>0, <1>2, <1>6, <1>7 DEF MarkInv, MarkTypes, NewStart
<1>3. lpc' \in {"report", "notify"} BY DEF Starts
<1>4. Len(sent) # 0 => sent'[Len(sent')].start # starts'
  <2> SUFFICES ASSUME Len(sent) # 0 PROVE sent'[Len(sent')].start # starts' OBVIOUS
  <2>1. Len(sent) \in 1..Len(sent) BY DEF MarkInv, MarkTypes
  <2> QED BY <2>1, <1>1, <1>2 DEF NewStart
<1>5. \A i \in 1..Len(sent') : Marked(i)'
  BY <1>2 DEF MarkInv, Marked
<1> QED BY <1>1, <1>2, <1>3, <1>4, <1>5, <1>6 DEF MarkInv

\* A report is marked by what was sent before it.
LEMMA ReportsMark == MarkInv /\ Reports => MarkInv'
<1> SUFFICES ASSUME MarkInv, Reports PROVE MarkInv' OBVIOUS
<1> DEFINE r == [first |-> first, meta |-> aggregate, start |-> starts]
           n == Len(sent)
<1>1. r \in Sent /\ sent \in Seq(Sent) /\ n \in Nat
  BY DEF MarkInv, MarkTypes, Sent
<1>2. sent' = Append(sent, r) /\ first' = FALSE /\ aggregate' = FALSE /\ lpc' = "wait"
      /\ starts' = starts
  BY DEF Reports
<1>3. /\ sent' \in Seq(Sent) /\ Len(sent') = n + 1 /\ sent'[n + 1] = r
      /\ \A i \in 1..n : sent'[i] = sent[i]
  BY <1>1, <1>2, AppendSeq
<1>8. starts \in Nat /\ \A i \in 1..n : sent[i].start <= starts
  BY DEF MarkInv, MarkTypes
<1>9. r.start = starts
  OBVIOUS
<1>4. MarkTypes'
  <2>1. \A i \in 1..Len(sent') : sent'[i].start <= starts'
    BY <1>1, <1>2, <1>3, <1>8, <1>9
  <2> QED BY <1>2, <1>3, <1>8, <2>1 DEF MarkTypes
<1>5. \A i \in 1..n : Marked(i)'
  <2> SUFFICES ASSUME NEW i \in 1..n PROVE Marked(i)' OBVIOUS
  <2>1. sent'[i] = sent[i] /\ (i # 1 => sent'[i - 1] = sent[i - 1])
    BY <1>1, <1>3
  <2>2. Marked(i) BY DEF MarkInv
  <2> QED BY <2>1, <2>2 DEF Marked
<1>6. ASSUME NEW i \in 1..Len(sent'), i = n + 1
      PROVE  Marked(i)'
  <2>1. sent'[i].first = first /\ sent'[i].meta = aggregate /\ sent'[i].start = starts
    BY <1>3, <1>6
  <2>2. first <=> n = 0 \/ sent[n].start # starts
    BY DEF MarkInv, Reports
  <2>3. aggregate <=> n = 0
    BY DEF MarkInv
  <2>4. n = 0 <=> i = 1
    BY <1>1, <1>6
  <2>5. n # 0 => sent'[i - 1] = sent[n]
    <3> SUFFICES ASSUME n # 0 PROVE sent'[i - 1] = sent[n] OBVIOUS
    <3>1. i - 1 = n /\ n \in 1..n BY <1>1, <1>6
    <3> QED BY <3>1, <1>3
  <2>6. sent'[i].first <=> i = 1 \/ sent'[i - 1].start # sent'[i].start
    <3>1. CASE n = 0 BY <2>1, <2>2, <2>4, <3>1, Zenon
    <3>2. CASE n # 0 BY <2>1, <2>2, <2>4, <2>5, <3>2, Zenon
    <3> QED BY <3>1, <3>2
  <2>7. sent'[i].meta <=> i = 1
    BY <2>1, <2>3, <2>4, Zenon
  <2> QED BY <2>6, <2>7, Zenon DEF Marked
<1>7. \A i \in 1..Len(sent') : Marked(i)'
  <2> SUFFICES ASSUME NEW i \in 1..Len(sent') PROVE Marked(i)' OBVIOUS
  <2>1. CASE i = n + 1 BY <1>6, <2>1
  <2>2. CASE i # n + 1
    <3>1. i \in 1..n BY <1>1, <1>3, <2>2
    <3> QED BY <1>5, <3>1
  <2> QED BY <2>1, <2>2
<1> QED BY <1>1, <1>2, <1>3, <1>4, <1>7 DEF MarkInv

\* Steps of ListenerAndSender.
LEMMA ListenerMark == MarkInv /\ (ListenerStep \/ ReportPanics) => MarkInv'
<1> SUFFICES ASSUME MarkInv, ListenerStep \/ ReportPanics PROVE MarkInv' OBVIOUS
<1>1. CASE Starts BY <1>1, StartsMark
<1>2. CASE Reports BY <1>2, ReportsMark
<1>3. CASE PicksChannel \/ NotifyPanics \/ Tells \/ ReportPanics
  <2>1. UNCHANGED <<first, aggregate, starts, sent>>
    BY <1>3 DEF PicksChannel, NotifyPanics, Tells, ReportPanics, report
  <2>2. CASE lpc' = "start"
    BY <2>1, <2>2 DEF MarkInv, MarkTypes, Marked
  <2>3. CASE lpc \in {"notify", "tell"} /\ lpc' \in {"notify", "tell"}
    BY <2>1, <2>3 DEF MarkInv, MarkTypes, NewStart, Marked
  <2>4. lpc' = "start" \/ (lpc \in {"notify", "tell"} /\ lpc' \in {"notify", "tell"})
    <3>1. CASE PicksChannel BY <3>1 DEF PicksChannel
    <3>2. CASE NotifyPanics BY <3>2 DEF NotifyPanics
    <3>3. CASE Tells BY <3>3 DEF Tells
    <3>4. CASE ReportPanics BY <3>4 DEF ReportPanics
    <3> QED BY <1>3, <3>1, <3>2, <3>3, <3>4
  <2> QED BY <2>2, <2>3, <2>4
<1>4. CASE Notified
  <2>1. Len(sent) # 0 => Len(sent) \in 1..Len(sent) BY DEF MarkInv, MarkTypes
  <2>2. first /\ NewStart BY <1>4 DEF MarkInv, Notified
  <2>3. Len(sent) # 0 => sent[Len(sent)].start # starts BY <2>1, <2>2 DEF NewStart
  <2>4. UNCHANGED <<first, aggregate, starts, sent>> /\ lpc' = "report"
    BY <1>4 DEF Notified, report
  <2> QED BY <2>2, <2>3, <2>4 DEF MarkInv, MarkTypes, Marked
<1>5. CASE TakesInform
  <2>1. UNCHANGED <<first, aggregate, starts, sent>> /\ lpc = "wait" /\ lpc' = "report"
    BY <1>5 DEF TakesInform, report
  <2> QED BY <2>1 DEF MarkInv, MarkTypes, Marked
<1> QED BY <1>1, <1>2, <1>3, <1>4, <1>5 DEF ListenerStep

\* Every call of ListenerAndSender marks its first report and no other, and
\* the metadata is in the very first only, whatever panics and whoever is told
\* of a new state in between.
THEOREM FirstIsMarked == Spec => []FirstAfterStart
<1>1. Init => MarkInv BY InitMark
<1>2. MarkInv /\ [Next]_vars => MarkInv'
  <2> SUFFICES ASSUME MarkInv, [Next]_vars PROVE MarkInv' OBVIOUS
  <2>1. CASE \E w \in Watchers : WatcherStep(w) \/ Opens(w) \/ OpenFails(w) \/ Event(w) \/ NotifierAnswers(w)
    BY <2>1, WatcherKeepsMarks, MarkKept
  <2>2. CASE ListenerStep \/ ReportPanics
    BY <2>2, ListenerMark
  <2>3. CASE UNCHANGED vars
    <3>1. UNCHANGED marks BY <2>3 DEF vars, marks, report, listener
    <3> QED BY <3>1, MarkKept
  <2> QED BY <2>1, <2>2, <2>3 DEF Next
<1>3. MarkInv => FirstAfterStart
  <2>1. MarkInv => DOMAIN sent = 1..Len(sent) BY DEF MarkInv, MarkTypes
  <2> QED BY <2>1 DEF MarkInv, Marked, FirstAfterStart
<1> QED BY <1>1, <1>2, <1>3, PTL DEF Spec

-----------------------------------------------------------------------------
(* Control.  Whoever is in the queue of the inform channel is blocked, and  *)
(* is in it once.                                                           *)

PC == {"register", "append", "version", "open", "select", "run", "count", "give", "blocked"}
QueueInv ==
    /\ wpc \in [Watchers -> PC]
    /\ informQ \in Seq(Watchers)
    /\ \A i \in 1..Len(informQ) : wpc[informQ[i]] = "blocked"
    /\ \A i, j \in 1..Len(informQ) : informQ[i] = informQ[j] => i = j

Acts(w) == WatcherStep(w) \/ Opens(w) \/ OpenFails(w) \/ Event(w) \/ NotifierAnswers(w)
Moves(w) ==
    /\ wpc[w] # "blocked" /\ wpc' = [wpc EXCEPT ![w] = wpc'[w]] /\ wpc'[w] \in PC
    /\ \/ informQ' = informQ /\ wpc'[w] # "blocked"
       \/ informQ' = Append(informQ, w) /\ wpc'[w] = "blocked"

\* A watcher that is about to finish a call goes on in its handler or selects.
LEMMA DoneMoves ==
    ASSUME QueueInv, NEW w \in Watchers, Done(w)
    PROVE  wpc' = [wpc EXCEPT ![w] = wpc'[w]] /\ wpc'[w] \in {"select", "run"}
  BY DEF Done, Goto, Next1, QueueInv

\* Every step of a watcher moves itself and nobody else.
LEMMA WatcherMoves ==
    ASSUME QueueInv, NEW w \in Watchers, Acts(w)
    PROVE  Moves(w)
<1> USE DEF PC
<1>1. CASE Registers(w) BY <1>1 DEF Registers, Goto, QueueInv, Moves
<1>2. CASE Appends(w) BY <1>2 DEF Appends, Goto, Loop, QueueInv, Moves
<1>3. CASE AsksVersion(w) \/ Opens(w) \/ OpenFails(w)
  BY <1>3 DEF AsksVersion, Opens, OpenFails, Goto, Loop, QueueInv, Moves
<1>4. CASE LocksAndReads(w) BY <1>4 DEF LocksAndReads, Does, Goto, QueueInv, Moves
<1>5. CASE Counts(w) BY <1>5 DEF Counts, Goto, QueueInv, Moves
<1>6. CASE Gives(w) BY <1>6, DoneMoves DEF Gives, Moves
<1>7. CASE MakesList(w) BY <1>7, DoneMoves DEF MakesList, Does, Moves
<1>8. CASE Pushes(w) BY <1>8, DoneMoves DEF Pushes, Does, Moves
<1>9. CASE HandlerPanics(w) BY <1>9 DEF HandlerPanics, Does, Goto, QueueInv, Moves
<1>10. CASE Adds(w) BY <1>10, DoneMoves DEF Adds, Does, Moves
<1>11. CASE Informs(w)
  <2>1. CASE MustInform BY <1>11, <2>1 DEF Informs, Does, Goto, QueueInv, Moves
  <2>2. CASE ~MustInform BY <1>11, <2>2, DoneMoves DEF Informs, Does, Moves
  <2> QED BY <2>1, <2>2
<1>12. CASE Event(w) BY <1>12 DEF Event, Goto, QueueInv, Moves
<1>13. CASE NotifierAnswers(w) BY <1>13, DoneMoves DEF NotifierAnswers, Does, Moves
<1> QED BY <1>1, <1>2, <1>3, <1>4, <1>5, <1>6, <1>7, <1>8, <1>9, <1>10, <1>11, <1>12, <1>13
        DEF Acts, WatcherStep

\* The watcher whose channel is sent on receives in its select.
LEMMA TellsMoves ==
    ASSUME QueueInv, Tells
    PROVE  \E w \in Watchers : /\ target = Channel(w) /\ wpc[w] = "select"
                               /\ wpc' = [wpc EXCEPT ![w] = Loop(w)] /\ informQ' = informQ
  BY DEF Tells, Goto

\* The watcher that waited longest in an inform goes on.
LEMMA TakesInformMoves ==
    ASSUME QueueInv, TakesInform
    PROVE  /\ Head(informQ) \in Watchers /\ wpc[Head(informQ)] = "blocked"
           /\ wpc' = [wpc EXCEPT ![Head(informQ)] = wpc'[Head(informQ)]]
           /\ wpc'[Head(informQ)] \in {"select", "run"}
           /\ informQ' = Tail(informQ) /\ informQ # <<>>
<1>1. informQ # <<>> /\ informQ' = Tail(informQ) /\ Done(Head(informQ))
  BY DEF TakesInform
<1>2. Head(informQ) \in Watchers /\ Head(informQ) = informQ[1] /\ 1 \in 1..Len(informQ)
  BY <1>1, TailSeq DEF QueueInv
<1>3. wpc[Head(informQ)] = "blocked"
  BY <1>2 DEF QueueInv
<1> QED BY <1>1, <1>2, <1>3, DoneMoves

\* The other steps of ListenerAndSender move no watcher.
LEMMA ListenerMoves ==
    ASSUME QueueInv, ListenerStep \/ ReportPanics, UNCHANGED wpc
    PROVE  UNCHANGED informQ
<1>1. ~TakesInform
  <2> SUFFICES ASSUME TakesInform PROVE FALSE OBVIOUS
  <2>1. Head(informQ) \in Watchers /\ wpc[Head(informQ)] = "blocked"
        /\ wpc'[Head(informQ)] \in {"select", "run"}
    BY TakesInformMoves
  <2> QED BY <2>1
<1> QED BY <1>1 DEF ListenerStep, Starts, PicksChannel, NotifyPanics, Tells, Notified, Reports, ReportPanics

\* ListenerAndSender moves a watcher only by telling it or taking its inform.
LEMMA ListenerMovesOne ==
    ASSUME QueueInv, ListenerStep \/ ReportPanics
    PROVE  UNCHANGED wpc \/ Tells \/ TakesInform
  BY DEF ListenerStep, Starts, PicksChannel, NotifyPanics, Notified, Reports, ReportPanics, watcher

\* Nobody is blocked at the start.
LEMMA InitQueue == Init => QueueInv
  BY DEF Init, QueueInv, PC

\* Whoever is queued is blocked, and joins the queue only while it is not in it.
LEMMA NextQueue == QueueInv /\ [Next]_vars => QueueInv'
<1> SUFFICES ASSUME QueueInv, [Next]_vars PROVE QueueInv' OBVIOUS
<1>1. ASSUME NEW w \in Watchers, Acts(w) PROVE QueueInv'
  <2>1. Moves(w) BY <1>1, WatcherMoves
  <2>2. CASE informQ' = informQ /\ wpc'[w] # "blocked"
    BY <2>1, <2>2 DEF Moves, QueueInv
  <2>3. CASE informQ' = Append(informQ, w) /\ wpc'[w] = "blocked"
    <3>1. /\ informQ' \in Seq(Watchers) /\ Len(informQ') = Len(informQ) + 1
          /\ informQ'[Len(informQ) + 1] = w /\ Len(informQ) \in Nat
          /\ \A i \in 1..Len(informQ) : informQ'[i] = informQ[i]
      BY <2>3, AppendSeq DEF QueueInv
    <3>2. \A i \in 1..Len(informQ) : informQ[i] # w /\ informQ[i] \in Watchers
      BY <2>1 DEF Moves, QueueInv
    <3>3. wpc' \in [Watchers -> PC] /\ \A v \in Watchers : v # w => wpc'[v] = wpc[v]
      BY <2>1 DEF Moves, QueueInv
    <3>4. \A i \in 1..Len(informQ') : wpc'[informQ'[i]] = "blocked"
      BY <2>3, <3>1, <3>2, <3>3 DEF QueueInv
    <3>5. \A i, j \in 1..Len(informQ') : informQ'[i] = informQ'[j] => i = j
      BY <3>1, <3>2 DEF QueueInv
    <3> QED BY <3>1, <3>3, <3>4, <3>5 DEF QueueInv
  <2> QED BY <2>1, <2>2, <2>3 DEF Moves
<1>2. CASE Tells
  <2>1. PICK w \in Watchers : wpc[w] = "select" /\ wpc' = [wpc EXCEPT ![w] = Loop(w)] /\ informQ' = informQ
    BY <1>2, TellsMoves
  <2> QED BY <2>1 DEF QueueInv, PC, Loop
<1>3. CASE TakesInform
  <2> DEFINE w == Head(informQ)
  <2>1. /\ w \in Watchers /\ wpc' = [wpc EXCEPT ![w] = wpc'[w]] /\ wpc'[w] \in {"select", "run"}
        /\ informQ' = Tail(informQ) /\ informQ # <<>>
    BY <1>3, TakesInformMoves
  <2>2. /\ informQ' \in Seq(Watchers) /\ Len(informQ') = Len(informQ) - 1 /\ w = informQ[1]
        /\ Len(informQ) \in Nat /\ Len(informQ) >= 1
        /\ \A i \in 1..Len(informQ') : i + 1 \in 1..Len(informQ) /\ informQ'[i] = informQ[i + 1]
    BY <2>1, TailSeq DEF QueueInv
  <2>3. \A i \in 1..Len(informQ') : informQ'[i] # w /\ informQ'[i] \in Watchers
        /\ wpc[informQ'[i]] = "blocked"
    BY <2>2 DEF QueueInv
  <2>4. wpc' \in [Watchers -> PC] /\ \A v \in Watchers : v # w => wpc'[v] = wpc[v]
    BY <2>1 DEF QueueInv, PC
  <2>5. \A i, j \in 1..Len(informQ') : informQ'[i] = informQ'[j] => i = j
    BY <2>2 DEF QueueInv
  <2> QED BY <2>2, <2>3, <2>4, <2>5 DEF QueueInv
<1>4. CASE UNCHANGED <<wpc, informQ>>
  BY <1>4 DEF QueueInv
<1>5. CASE UNCHANGED vars
  BY <1>4, <1>5 DEF vars, watcher
<1>6. CASE ListenerStep \/ ReportPanics
  BY <1>2, <1>3, <1>4, <1>6, ListenerMovesOne, ListenerMoves
<1> QED BY <1>1, <1>5, <1>6 DEF Next, Acts

-----------------------------------------------------------------------------
(* Identifiers.  One watcher at a time is inside CreateID; the counter is   *)
(* above every identifier given, and the one inside holds its old value     *)
(* once it has counted.                                                     *)

Inside(w) == wpc[w] \in {"count", "give"}
Given == \A i \in 1..Len(ids) : ids[i] < counter
Counted(w) == idOf[w] + 1 = counter /\ \A i \in 1..Len(ids) : ids[i] < idOf[w]
IdInv ==
    /\ mutex = {w \in Watchers : Inside(w)}
    /\ \A w, v \in mutex : w = v
    /\ counter \in Nat /\ idOf \in [Watchers -> Nat] /\ ids \in Seq(Nat)
    /\ Given
    /\ \A w \in Watchers : wpc[w] = "count" => idOf[w] = counter
    /\ \A w \in Watchers : wpc[w] = "give" => Counted(w)
    /\ \A i, j \in 1..Len(ids) : ids[i] = ids[j] => i = j

\* Nobody is inside CreateID at the start.
LEMMA InitIds == Init => IdInv
  BY DEF Init, IdInv, Inside, Given

\* A step outside CreateID.
LEMMA OutsideKeepsIds ==
    ASSUME IdInv, QueueInv, UNCHANGED identifiers, NEW w \in Watchers,
           ~Inside(w), wpc' = [wpc EXCEPT ![w] = wpc'[w]], wpc'[w] \notin {"count", "give"}
    PROVE  IdInv'
<1>1. \A v \in Watchers : v # w => wpc'[v] = wpc[v]
  BY DEF QueueInv
<1>2. \A v \in Watchers : Inside(v)' <=> Inside(v)
  BY <1>1 DEF Inside
<1>3. mutex' = {v \in Watchers : Inside(v)'}
  BY <1>2 DEF IdInv, identifiers
<1>4. \A v \in Watchers : wpc'[v] \in {"count", "give"} => wpc[v] = wpc'[v]
  BY <1>1
<1> QED BY <1>3, <1>4 DEF IdInv, identifiers, Given, Counted

\* The lock is taken, and the counter read.
LEMMA LocksKeepsIds ==
    ASSUME IdInv, QueueInv, NEW w \in Watchers, LocksAndReads(w)
    PROVE  IdInv'
<1>1. /\ wpc[w] = "run" /\ mutex = {} /\ mutex' = {w} /\ idOf' = [idOf EXCEPT ![w] = counter]
      /\ wpc' = [wpc EXCEPT ![w] = "count"] /\ counter' = counter /\ ids' = ids
  BY DEF LocksAndReads, Does, Goto
<1>2. \A v \in Watchers : ~Inside(v)
  BY <1>1 DEF IdInv
<1>3. mutex' = {v \in Watchers : Inside(v)'}
  BY <1>1, <1>2 DEF Inside, QueueInv
<1>4. \A v \in Watchers : wpc'[v] \in {"count", "give"} => v = w
  BY <1>1, <1>2 DEF Inside, QueueInv
<1>5. wpc'[w] = "count" /\ idOf'[w] = counter' /\ idOf' \in [Watchers -> Nat]
  BY <1>1 DEF QueueInv, IdInv
<1> QED BY <1>1, <1>3, <1>4, <1>5 DEF IdInv, Given

\* The counter goes up: what was read is above all that was given.
LEMMA CountsKeepsIds ==
    ASSUME IdInv, QueueInv, NEW w \in Watchers, Counts(w)
    PROVE  IdInv'
<1>1. wpc[w] = "count" /\ counter' = idOf[w] + 1 /\ UNCHANGED <<mutex, ids>>
  BY DEF Counts
<1>2. idOf[w] = counter /\ counter \in Nat /\ ids \in Seq(Nat) /\ \A i \in 1..Len(ids) : ids[i] < idOf[w]
  BY <1>1 DEF IdInv, Given
<1>3. ~\E i \in DOMAIN ids : ids[i] = idOf[w]
  <2>1. DOMAIN ids = 1..Len(ids) /\ \A i \in 1..Len(ids) : ids[i] \in Nat BY <1>2
  <2> QED BY <1>2, <2>1
<1>4. wpc' = [wpc EXCEPT ![w] = "give"] /\ idOf' = idOf
  BY <1>3 DEF Counts, Goto
<1>5. mutex = {v \in Watchers : Inside(v)} /\ \A v \in Watchers : Inside(v) => v = w
  BY <1>1 DEF IdInv, Inside
<1>6. mutex' = {v \in Watchers : Inside(v)'}
  BY <1>1, <1>4, <1>5 DEF Inside, QueueInv
<1>7. \A v \in Watchers : wpc'[v] \in {"count", "give"} => v = w /\ wpc'[v] = "give"
  BY <1>4, <1>5 DEF Inside, QueueInv
<1>8. \A i \in 1..Len(ids) : ids[i] \in Nat BY <1>2
<1>9. Counted(w)' /\ Given'
  BY <1>1, <1>2, <1>4, <1>8 DEF Counted, Given
<1>10. \A v \in Watchers : wpc'[v] = "give" => Counted(v)'
  <2> SUFFICES ASSUME NEW v \in Watchers, wpc'[v] = "give" PROVE Counted(v)' OBVIOUS
  <2>1. v = w BY <1>7
  <2> QED BY <1>9, <2>1 DEF Counted
<1> QED BY <1>1, <1>2, <1>4, <1>6, <1>7, <1>9, <1>10 DEF IdInv

\* What is given is above all that was given before, and the lock is free again.
LEMMA GivesKeepsIds ==
    ASSUME IdInv, QueueInv, NEW w \in Watchers, Gives(w)
    PROVE  IdInv'
<1>1. /\ wpc[w] = "give" /\ ids' = Append(ids, idOf[w]) /\ idOf' = [idOf EXCEPT ![w] = 0]
      /\ mutex' = mutex \ {w} /\ counter' = counter
  BY DEF Gives
<1>2. wpc' = [wpc EXCEPT ![w] = wpc'[w]] /\ wpc'[w] \in {"select", "run"}
  BY DoneMoves DEF Gives
<1>3. Counted(w) /\ idOf[w] \in Nat /\ ids \in Seq(Nat) /\ Len(ids) \in Nat /\ counter \in Nat
  BY <1>1 DEF IdInv
<1>4. mutex = {v \in Watchers : Inside(v)} /\ \A v \in Watchers : Inside(v) => v = w
  BY <1>1 DEF IdInv, Inside
<1>5. \A v \in Watchers : ~Inside(v)'
  BY <1>2, <1>4 DEF Inside, QueueInv
<1>6. mutex' = {}
  BY <1>1, <1>4
<1>7. /\ ids' \in Seq(Nat) /\ Len(ids') = Len(ids) + 1 /\ ids'[Len(ids) + 1] = idOf[w]
      /\ \A i \in 1..Len(ids) : ids'[i] = ids[i] /\ ids[i] \in Nat
  BY <1>1, <1>3, AppendSeq
<1>8. Given'
  BY <1>1, <1>3, <1>7 DEF Given, Counted
<1>9. \A i, j \in 1..Len(ids') : ids'[i] = ids'[j] => i = j
  <2>1. \A i, j \in 1..Len(ids) : ids[i] = ids[j] => i = j BY DEF IdInv
  <2>2. \A i \in 1..Len(ids) : ids'[i] # idOf[w] BY <1>3, <1>7 DEF Counted
  <2> SUFFICES ASSUME NEW i \in 1..Len(ids'), NEW j \in 1..Len(ids'), ids'[i] = ids'[j] PROVE i = j
    OBVIOUS
  <2>3. (i \in 1..Len(ids) \/ i = Len(ids) + 1) /\ (j \in 1..Len(ids) \/ j = Len(ids) + 1)
    BY <1>3, <1>7
  <2>4. CASE i \in 1..Len(ids) /\ j \in 1..Len(ids) BY <1>7, <2>1, <2>4
  <2>5. CASE i = Len(ids) + 1 /\ j \in 1..Len(ids) BY <1>7, <2>2, <2>5
  <2>6. CASE i \in 1..Len(ids) /\ j = Len(ids) + 1 BY <1>7, <2>2, <2>6
  <2> QED BY <2>3, <2>4, <2>5, <2>6
<1>10. idOf' \in [Watchers -> Nat]
  BY <1>1 DEF IdInv
<1>11. mutex' = {v \in Watchers : Inside(v)'}
  BY <1>5, <1>6
<1>12. \A v \in Watchers : wpc'[v] # "count" /\ wpc'[v] # "give"
  BY <1>5 DEF Inside
<1> QED BY <1>1, <1>3, <1>6, <1>7, <1>8, <1>9, <1>10, <1>11, <1>12 DEF IdInv

\* The watchers' other steps are outside.
LEMMA WatcherKeepsIds ==
    ASSUME IdInv, QueueInv, NEW w \in Watchers, Acts(w)
    PROVE  IdInv'
<1>1. CASE LocksAndReads(w) BY <1>1, LocksKeepsIds
<1>2. CASE Counts(w) BY <1>2, CountsKeepsIds
<1>3. CASE Gives(w) BY <1>3, GivesKeepsIds
<1>4. CASE \/ Registers(w) \/ Appends(w) \/ AsksVersion(w) \/ Opens(w) \/ OpenFails(w)
           \/ Event(w) \/ HandlerPanics(w)
  <2>1. UNCHANGED identifiers /\ ~Inside(w)
    BY <1>4 DEF Registers, Appends, AsksVersion, Opens, OpenFails, Event, HandlerPanics, Does, Inside
  <2>2. wpc'[w] \in {"append", "version", "open", "select", "run", "register"}
    BY <1>4 DEF Registers, Appends, AsksVersion, Opens, OpenFails, Event, HandlerPanics, Goto, Loop, QueueInv
  <2>3. wpc' = [wpc EXCEPT ![w] = wpc'[w]]
    BY WatcherMoves DEF Moves
  <2> QED BY <2>1, <2>2, <2>3, OutsideKeepsIds
<1>5. CASE MakesList(w) \/ Pushes(w) \/ Adds(w) \/ NotifierAnswers(w) \/ Informs(w)
  <2>1. UNCHANGED identifiers /\ ~Inside(w)
    BY <1>5 DEF MakesList, Pushes, Adds, NotifierAnswers, Informs, Does, Inside
  <2>2. wpc'[w] \in {"select", "run", "blocked"}
    BY <1>5, DoneMoves DEF MakesList, Pushes, Adds, NotifierAnswers, Informs, Goto, QueueInv
  <2>3. wpc' = [wpc EXCEPT ![w] = wpc'[w]]
    BY WatcherMoves DEF Moves
  <2> QED BY <2>1, <2>2, <2>3, OutsideKeepsIds
<1> QED BY <1>1, <1>2, <1>3, <1>4, <1>5 DEF Acts, WatcherStep

\* ListenerAndSender leaves the identifiers alone and moves only watchers outside.
LEMMA ListenerKeepsIds ==
    ASSUME IdInv, QueueInv, ListenerStep \/ ReportPanics
    PROVE  IdInv'
<1>1. UNCHANGED identifiers
  BY DEF ListenerStep, Starts, PicksChannel, NotifyPanics, Tells, Notified, Reports, ReportPanics, TakesInform
<1>2. CASE UNCHANGED wpc
  BY <1>1, <1>2 DEF IdInv, identifiers, Inside, Given, Counted
<1>3. CASE Tells
  <2>1. PICK w \in Watchers : wpc[w] = "select" /\ wpc' = [wpc EXCEPT ![w] = Loop(w)]
    BY <1>3, TellsMoves
  <2>2. wpc'[w] \notin {"count", "give"} /\ wpc' = [wpc EXCEPT ![w] = wpc'[w]] /\ ~Inside(w)
    BY <2>1 DEF QueueInv, Inside, Loop
  <2> QED BY <1>1, <2>2, OutsideKeepsIds
<1>4. CASE TakesInform
  <2>1. /\ Head(informQ) \in Watchers /\ ~Inside(Head(informQ))
        /\ wpc' = [wpc EXCEPT ![Head(informQ)] = wpc'[Head(informQ)]]
        /\ wpc'[Head(informQ)] \notin {"count", "give"}
    BY <1>4, TakesInformMoves DEF Inside
  <2> QED BY <1>1, <2>1, OutsideKeepsIds
<1> QED BY <1>2, <1>3, <1>4, ListenerMovesOne

\* CreateID never gives an identifier twice, whichever watchers call it at the
\* same time and however often.
THEOREM IdentifiersAreUnique == Spec => []UniqueIds
<1> DEFINE Inv == QueueInv /\ IdInv
<1>1. Init => Inv BY InitQueue, InitIds
<1>2. Inv /\ [Next]_vars => Inv'
  <2> SUFFICES ASSUME Inv, [Next]_vars PROVE Inv' OBVIOUS
  <2>1. QueueInv' BY NextQueue
  <2>2. IdInv'
    <3>1. CASE \E w \in Watchers : Acts(w) BY <3>1, WatcherKeepsIds
    <3>2. CASE ListenerStep \/ ReportPanics BY <3>2, ListenerKeepsIds
    <3>3. CASE UNCHANGED vars
      BY <3>3 DEF vars, watcher, identifiers, IdInv, Inside, Given, Counted
    <3> QED BY <3>1, <3>2, <3>3 DEF Next, Acts
  <2> QED BY <2>1, <2>2
<1>3. Inv => UniqueIds
  <2>1. IdInv => DOMAIN ids = 1..Len(ids) BY DEF IdInv
  <2> QED BY <2>1 DEF IdInv, UniqueIds
<1> QED BY <1>1, <1>2, <1>3, PTL DEF Spec

-----------------------------------------------------------------------------
(* A new state reaches every watcher.  As long as no registration was       *)
(* written over, the channel of every watcher that made one is registered,  *)
(* and a watcher whose watch is older than the dictionaries is still before *)
(* the loop that notifies.                                                  *)

Channels == Watchers \X Nat
RegTypes ==
    /\ chans \in Seq(Channels) /\ slice \in [Watchers -> Seq(Channels)]
    /\ calls \in [Watchers -> Nat] /\ opened \in [Watchers -> Nat]
    /\ generation \in Nat /\ at \in Nat \ {0} /\ upto \in Nat
Telling == lpc \in {"notify", "tell"}
Registered(w) == wpc[w] \notin {"register", "append"}
Working(w) == wpc[w] \in {"select", "run", "count", "give", "blocked"}
Found(w) == \E k \in 1..Len(chans) : chans[k] = Channel(w)
Ahead(w) == Telling /\ \E k \in at..upto : chans[k] = Channel(w)
Reach ==
    /\ \A w \in Watchers : Registered(w) => Found(w)
    /\ \A w \in Watchers : Working(w) => opened[w] = generation \/ Ahead(w)
    /\ Telling => upto <= Len(chans)
    /\ lpc = "tell" => at <= upto /\ target = chans[at]
ReachInv == RegTypes /\ (~raced => Reach)

\* No watcher has registered at the start.
LEMMA InitReach == Init => ReachInv
<1> SUFFICES ASSUME Init PROVE ReachInv OBVIOUS
<1>1. RegTypes BY DEF Init, RegTypes, Channels
<1>2. Reach BY DEF Init, Reach, Telling, Registered, Working
<1> QED BY <1>1, <1>2 DEF ReachInv

\* Every step keeps the types of the registry and of the loop over it.
LEMMA StepTyped ==
    ASSUME RegTypes, QueueInv, (\E w \in Watchers : Acts(w)) \/ ListenerStep \/ ReportPanics
    PROVE  RegTypes'
<1>1. ASSUME NEW w \in Watchers, Acts(w) PROVE RegTypes'
  <2>1. CASE Registers(w)
    BY <2>1 DEF Registers, RegTypes, registry, listener
  <2>2. CASE Appends(w)
    <3>1. Channel(w) \in Channels /\ slice[w] \in Seq(Channels) /\ <<>> \in Seq(Channels)
      BY DEF Channel, Channels, RegTypes
    <3>2. chans' \in Seq(Channels)
      BY <2>2, <3>1, AppendSeq DEF Appends
    <3> QED BY <2>2, <3>1, <3>2 DEF Appends, RegTypes, listener
  <2>3. CASE Opens(w)
    BY <2>3 DEF Opens, RegTypes, registry, listener
  <2>4. CASE ~(Registers(w) \/ Appends(w) \/ Opens(w))
    <3>1. UNCHANGED <<registry, launch, listener>>
      BY <1>1, <2>4 DEF Acts, WatcherStep, AsksVersion, OpenFails, Event, NotifierAnswers,
         LocksAndReads, Counts, Gives,
         MakesList, Pushes, HandlerPanics, Adds, Informs
    <3> QED BY <3>1 DEF RegTypes, registry, launch, listener
  <2> QED BY <2>1, <2>2, <2>3, <2>4
<1>2. CASE Starts
  BY <1>2 DEF Starts, RegTypes, watcher, launch
<1>3. CASE Tells \/ PicksChannel \/ NotifyPanics \/ Notified
  <2>1. UNCHANGED <<chans, slice, calls, opened, generation>>
    BY <1>3 DEF Tells, PicksChannel, NotifyPanics, Notified, registry, watcher, launch
  <2>2. at' \in {1, at, at + 1} /\ upto' \in {0, upto}
    <3>1. CASE Tells BY <3>1 DEF Tells
    <3>2. CASE PicksChannel BY <3>2 DEF PicksChannel
    <3>3. CASE NotifyPanics \/ Notified BY <3>3 DEF NotifyPanics, Notified
    <3> QED BY <1>3, <3>1, <3>2, <3>3
  <2> QED BY <2>1, <2>2 DEF RegTypes
<1>4. CASE Reports \/ TakesInform \/ ReportPanics
  BY <1>4 DEF Reports, TakesInform, ReportPanics, RegTypes, registry, watcher, launch
<1> QED BY <1>1, <1>2, <1>3, <1>4 DEF ListenerStep

\* A step of a watcher that is none of its start.
LEMMA HandlerKeepsReach ==
    ASSUME Reach, QueueInv, NEW w \in Watchers, UNCHANGED <<registry, launch, listener>>,
           wpc' = [wpc EXCEPT ![w] = wpc'[w]], Working(w), wpc'[w] \in PC \ {"open", "append", "version"}
    PROVE  Reach'
<1>1. \A v \in Watchers : (Registered(v)' => Registered(v)) /\ (Working(v)' => Working(v))
  BY DEF QueueInv, Registered, Working, PC
<1>2. UNCHANGED <<chans, generation, calls, opened, lpc, at, upto, target>>
  BY DEF registry, launch, listener
<1>3. \A v \in Watchers : (Found(v)' <=> Found(v)) /\ (Ahead(v)' <=> Ahead(v))
  BY <1>2 DEF Found, Ahead, Channel, Telling
<1> QED BY <1>1, <1>2, <1>3 DEF Reach, Telling

\* A new channel is made; the old one is nobody's any more.
LEMMA RegistersKeepsReach ==
    ASSUME Reach, RegTypes, QueueInv, NEW w \in Watchers, Registers(w)
    PROVE  Reach'
<1>1. UNCHANGED <<chans, generation, opened, lpc, at, upto, target>>
      /\ calls' = [calls EXCEPT ![w] = @ + 1] /\ wpc' = [wpc EXCEPT ![w] = "append"]
  BY DEF Registers, Goto, registry, listener
<1>2. \A v \in Watchers : (Registered(v)' => v # w /\ Registered(v))
                          /\ (Working(v)' => v # w /\ Working(v))
  BY <1>1 DEF QueueInv, Registered, Working
<1>3. \A v \in Watchers : v # w => calls'[v] = calls[v]
  BY <1>1 DEF RegTypes
<1>4. \A v \in Watchers : v # w => (Found(v) => Found(v)') /\ (Ahead(v) => Ahead(v)')
  BY <1>1, <1>3 DEF Found, Ahead, Channel, Telling
<1> QED BY <1>1, <1>2, <1>4 DEF Reach, Telling

\* The channel is registered behind all others, unless it is written over one.
LEMMA AppendsKeepsReach ==
    ASSUME Reach, RegTypes, QueueInv, NEW w \in Watchers, Appends(w), ~raced'
    PROVE  Reach'
<1>1. /\ UNCHANGED <<generation, opened, calls, lpc, at, upto, target>>
      /\ wpc' = [wpc EXCEPT ![w] = Loop(w)] /\ chans' = Append(chans, Channel(w))
  BY DEF Appends, Goto, listener
<1>2. Channel(w) \in Channels BY DEF Channel, Channels, RegTypes
<1>3. /\ Len(chans) \in Nat /\ Len(chans') = Len(chans) + 1
      /\ \A k \in 1..Len(chans) : chans'[k] = chans[k]
      /\ chans'[Len(chans) + 1] = Channel(w)
  BY <1>1, <1>2, AppendSeq DEF RegTypes
<1>4. \A v \in Watchers : Channel(v)' = Channel(v) BY <1>1 DEF Channel
<1>5. Found(w)'
  BY <1>3, <1>4 DEF Found
<1>6. ASSUME NEW v \in Watchers, Found(v) PROVE Found(v)'
  BY <1>3, <1>4, <1>6 DEF Found
<1>7. ASSUME NEW v \in Watchers, Ahead(v) PROVE Ahead(v)'
  <2>1. PICK k \in at..upto : chans[k] = Channel(v) BY <1>7 DEF Ahead
  <2>2. k \in 1..Len(chans) BY <1>3, <1>7 DEF Ahead, Reach, RegTypes
  <2>3. chans'[k] = Channel(v)' /\ k \in at'..upto' BY <1>1, <1>3, <1>4, <2>1, <2>2
  <2> QED BY <1>1, <1>7, <2>3 DEF Ahead, Telling
<1>8. \A v \in Watchers : (Registered(v)' => v = w \/ Registered(v)) /\ (Working(v)' => Working(v))
  BY <1>1 DEF QueueInv, Registered, Working, Loop
<1>9. lpc' = "tell" => at' <= upto' /\ target' = chans'[at']
  <2> SUFFICES ASSUME lpc = "tell" PROVE at <= upto /\ target = chans'[at] BY <1>1
  <2>1. at <= upto /\ upto <= Len(chans) /\ target = chans[at] BY DEF Reach, Telling
  <2>2. at \in 1..Len(chans) BY <1>3, <2>1 DEF RegTypes
  <2> QED BY <1>3, <2>1, <2>2
<1>10. Telling' => upto' <= Len(chans')
  BY <1>1, <1>3 DEF Reach, Telling, RegTypes
<1>11. \A v \in Watchers : Registered(v)' => Found(v)'
  BY <1>5, <1>6, <1>8 DEF Reach
<1>12. \A v \in Watchers : Working(v)' => opened'[v] = generation' \/ Ahead(v)'
  BY <1>1, <1>7, <1>8 DEF Reach
<1> QED BY <1>9, <1>10, <1>11, <1>12 DEF Reach

\* A watcher that tries to open its watch.
LEMMA TriesKeepsReach ==
    ASSUME Reach, QueueInv, NEW w \in Watchers, AsksVersion(w) \/ OpenFails(w)
    PROVE  Reach'
<1>1. UNCHANGED <<chans, generation, calls, opened, lpc, at, upto, target>>
  BY DEF AsksVersion, OpenFails, registry, launch, listener
<1>2. wpc[w] \in {"version", "open"} /\ wpc' = [wpc EXCEPT ![w] = wpc'[w]]
      /\ wpc'[w] \in {"version", "open"}
  BY DEF AsksVersion, OpenFails, Goto, Loop, QueueInv
<1>3. \A v \in Watchers : (Registered(v)' <=> Registered(v)) /\ (Working(v)' <=> Working(v))
  BY <1>2 DEF QueueInv, Registered, Working
<1>4. \A v \in Watchers : (Found(v)' <=> Found(v)) /\ (Ahead(v)' <=> Ahead(v))
  BY <1>1 DEF Found, Ahead, Channel, Telling
<1> QED BY <1>1, <1>3, <1>4 DEF Reach, Telling

\* A watch that is opened is as new as the dictionaries.
LEMMA OpensKeepsReach ==
    ASSUME Reach, RegTypes, QueueInv, NEW w \in Watchers, Opens(w)
    PROVE  Reach'
<1>1. /\ UNCHANGED <<chans, generation, calls, lpc, at, upto, target>>
      /\ wpc' = [wpc EXCEPT ![w] = "select"] /\ opened' = [opened EXCEPT ![w] = generation]
      /\ wpc[w] = "open"
  BY DEF Opens, Goto, registry, listener
<1>2. \A v \in Watchers : (Found(v)' <=> Found(v)) /\ (Ahead(v)' <=> Ahead(v))
  BY <1>1 DEF Found, Ahead, Channel, Telling
<1>3. \A v \in Watchers : (Registered(v)' => Registered(v)) /\ (Working(v)' => v = w \/ Working(v))
  BY <1>1 DEF QueueInv, Registered, Working
<1>4. opened'[w] = generation' /\ \A v \in Watchers : v # w => opened'[v] = opened[v]
  BY <1>1 DEF RegTypes
<1> QED BY <1>1, <1>2, <1>3, <1>4 DEF Reach, Telling

\* Every step of a watcher, as long as no registration is written over.
LEMMA WatcherKeepsReach ==
    ASSUME ReachInv, QueueInv, NEW w \in Watchers, Acts(w), ~raced'
    PROVE  Reach'
<1>0. ~raced
  BY Zenon DEF Acts, WatcherStep, Event, NotifierAnswers, Registers, Appends,
         AsksVersion, Opens, OpenFails, LocksAndReads, Counts, Gives, MakesList, Pushes, HandlerPanics, Adds, Informs, registry
<1>1. Reach /\ RegTypes BY <1>0 DEF ReachInv
<1>2. CASE Registers(w) BY <1>1, <1>2, RegistersKeepsReach
<1>3. CASE Appends(w) BY <1>1, <1>3, AppendsKeepsReach
<1>4. CASE Opens(w) BY <1>1, <1>4, OpensKeepsReach
<1>5. CASE AsksVersion(w) \/ OpenFails(w) BY <1>1, <1>5, TriesKeepsReach
<1>6. CASE ~(Registers(w) \/ Appends(w) \/ Opens(w) \/ AsksVersion(w) \/ OpenFails(w))
  <2>1. UNCHANGED <<registry, launch, listener>>
    BY <1>6 DEF Acts, WatcherStep, Event, NotifierAnswers, LocksAndReads, Counts, Gives,
         MakesList, Pushes, HandlerPanics, Adds, Informs
  <2>2. Working(w)
    BY <1>6 DEF Acts, WatcherStep, Event, NotifierAnswers, LocksAndReads, Counts, Gives,
         MakesList, Pushes, HandlerPanics, Adds, Informs, Does, Working
  <2>3. wpc'[w] \notin {"open", "append", "version"}
    <3>1. CASE Done(w) BY <3>1, DoneMoves
    <3>2. CASE ~Done(w)
      BY <1>6, <3>2 DEF Acts, WatcherStep, Event, NotifierAnswers, LocksAndReads, Counts, Gives,
         MakesList, Pushes, HandlerPanics, Adds, Informs, Goto, QueueInv
    <3> QED BY <3>1, <3>2
  <2>4. wpc' = [wpc EXCEPT ![w] = wpc'[w]] /\ wpc'[w] \in PC
    BY WatcherMoves DEF Moves
  <2> QED BY <1>1, <2>1, <2>2, <2>3, <2>4, HandlerKeepsReach
<1> QED BY <1>2, <1>3, <1>4, <1>5, <1>6

\* The steps of ListenerAndSender that move no watcher and no place in the loop.
LEMMA StillKeepsReach ==
    ASSUME Reach, UNCHANGED <<wpc, launch, registry, at, upto>>, Telling' <=> Telling,
           lpc' = "tell" => at <= upto /\ target' = chans[at]
    PROVE  Reach'
<1>1. UNCHANGED <<chans, generation, calls, opened>>
  BY DEF registry, launch
<1>2. \A v \in Watchers : /\ (Found(v)' <=> Found(v)) /\ (Ahead(v)' <=> Ahead(v))
                          /\ (Registered(v)' <=> Registered(v)) /\ (Working(v)' <=> Working(v))
  BY <1>1 DEF Found, Ahead, Channel, Registered, Working
<1> QED BY <1>1, <1>2 DEF Reach

\* Outside the loop every watch at work is of this generation.  A new one puts
\* all of them ahead of the loop, which starts over the whole slice.
LEMMA StartsKeepsReach ==
    ASSUME Reach, RegTypes, Starts
    PROVE  Reach'
<1>1. UNCHANGED <<chans, calls, opened, wpc>> /\ lpc = "start"
  BY DEF Starts, watcher, launch
<1>2. \A v \in Watchers : /\ (Found(v)' <=> Found(v))
                          /\ (Registered(v)' <=> Registered(v)) /\ (Working(v)' <=> Working(v))
  BY <1>1 DEF Found, Channel, Registered, Working
<1>3. CASE first
  <2>1. lpc' = "report" /\ generation' = generation BY <1>3 DEF Starts
  <2>2. \A v \in Watchers : Working(v) => opened[v] = generation
    BY <1>1 DEF Reach, Ahead, Telling
  <2>3. ~Telling' /\ lpc' # "tell" BY <2>1 DEF Telling
  <2> QED BY <1>1, <1>2, <2>1, <2>2, <2>3 DEF Reach
<1>4. CASE ~first
  <2>1. lpc' = "notify" /\ at' = 1 /\ upto' = Len(chans) BY <1>4 DEF Starts
  <2>2. \A v \in Watchers : Found(v) => Ahead(v)'
    BY <1>1, <2>1 DEF Found, Ahead, Channel, Telling
  <2>3. \A v \in Watchers : Working(v) => Registered(v)
    BY DEF Working, Registered
  <2>4. upto' <= Len(chans') /\ lpc' # "tell" BY <1>1, <2>1 DEF RegTypes
  <2> QED BY <1>2, <2>2, <2>3, <2>4 DEF Reach
<1> QED BY <1>3, <1>4

\* The watcher that is told goes to open its watch again; every other channel
\* that was ahead of the loop still is.
LEMMA TellsKeepsReach ==
    ASSUME Reach, RegTypes, QueueInv, Tells
    PROVE  Reach'
<1>1. PICK w \in Watchers : target = Channel(w) /\ wpc[w] = "select"
                            /\ wpc' = [wpc EXCEPT ![w] = Loop(w)]
  BY TellsMoves
<1>2. /\ UNCHANGED <<chans, generation, calls, opened, upto>> /\ at' = at + 1
      /\ lpc = "tell" /\ lpc' = "notify"
  BY DEF Tells, registry, launch
<1>3. chans[at] = Channel(w)
  BY <1>1, <1>2 DEF Reach
<1>4. \A v \in Watchers : /\ (Found(v)' <=> Found(v)) /\ (Registered(v)' => Registered(v))
                          /\ (Working(v)' => v # w /\ Working(v))
  BY <1>1, <1>2 DEF Found, Channel, Registered, Working, QueueInv, Loop
<1>5. ASSUME NEW v \in Watchers, v # w, Ahead(v) PROVE Ahead(v)'
  <2>1. PICK k \in at..upto : chans[k] = Channel(v) BY <1>5 DEF Ahead
  <2>2. Channel(v) # Channel(w) BY <1>5 DEF Channel
  <2>3. k # at BY <1>3, <2>1, <2>2
  <2>4. k \in at'..upto' BY <1>2, <2>1, <2>3 DEF RegTypes
  <2>5. chans'[k] = Channel(v)' BY <1>2, <2>1 DEF Channel
  <2> QED BY <1>2, <2>4, <2>5 DEF Ahead, Telling
<1>6. Telling' => upto' <= Len(chans')
  BY <1>2 DEF Reach, Telling
<1>7. \A v \in Watchers : Registered(v)' => Found(v)'
  BY <1>4 DEF Reach
<1>8. \A v \in Watchers : Working(v)' => opened'[v] = generation' \/ Ahead(v)'
  BY <1>2, <1>4, <1>5 DEF Reach
<1> QED BY <1>2, <1>6, <1>7, <1>8 DEF Reach

\* Nothing is ahead of a loop that is through.
LEMMA NotifiedKeepsReach ==
    ASSUME Reach, RegTypes, Notified
    PROVE  Reach'
<1>1. UNCHANGED <<chans, generation, calls, opened, wpc>> /\ at > upto /\ lpc' = "report"
  BY DEF Notified, registry, watcher, launch
<1>2. \A v \in Watchers : ~Ahead(v)
  BY <1>1 DEF Ahead, RegTypes
<1>3. \A v \in Watchers : /\ (Found(v)' <=> Found(v))
                          /\ (Registered(v)' <=> Registered(v)) /\ (Working(v)' <=> Working(v))
  BY <1>1 DEF Found, Channel, Registered, Working
<1>4. ~Telling' /\ lpc' # "tell" BY <1>1 DEF Telling
<1> QED BY <1>1, <1>2, <1>3, <1>4 DEF Reach

\* Every step of ListenerAndSender; the loop never runs past the end of the
\* slice, because without a race the slice only grows.
LEMMA ListenerKeepsReach ==
    ASSUME ReachInv, QueueInv, ListenerStep \/ ReportPanics, ~raced'
    PROVE  Reach'
<1>0. ~raced
  BY Zenon DEF ListenerStep, Starts, PicksChannel, NotifyPanics, Tells, Notified, Reports,
         ReportPanics, TakesInform, registry
<1>1. Reach /\ RegTypes BY <1>0 DEF ReachInv
<1>2. CASE Starts BY <1>1, <1>2, StartsKeepsReach
<1>3. CASE PicksChannel
  <2>1. UNCHANGED <<wpc, launch, registry, at, upto>> /\ Telling /\ Telling'
    BY <1>3 DEF PicksChannel, watcher, Telling
  <2>2. at <= upto /\ target' = chans[at] BY <1>3 DEF PicksChannel
  <2> QED BY <1>1, <2>1, <2>2, StillKeepsReach
<1>4. CASE NotifyPanics
  <2>1. upto <= Len(chans) BY <1>1, <1>4 DEF NotifyPanics, Reach, Telling
  <2> QED BY <1>1, <1>4, <2>1 DEF NotifyPanics, RegTypes
<1>5. CASE Tells BY <1>1, <1>5, TellsKeepsReach
<1>6. CASE Notified BY <1>1, <1>6, NotifiedKeepsReach
<1>7. CASE Reports \/ ReportPanics
  <2>1. UNCHANGED <<wpc, launch, registry, at, upto>> /\ ~Telling /\ ~Telling' /\ lpc' # "tell"
    BY <1>7 DEF Reports, ReportPanics, watcher, Telling
  <2> QED BY <1>1, <2>1, StillKeepsReach
<1>8. CASE TakesInform
  <2>1. /\ Head(informQ) \in Watchers /\ wpc[Head(informQ)] = "blocked"
        /\ wpc' = [wpc EXCEPT ![Head(informQ)] = wpc'[Head(informQ)]]
        /\ wpc'[Head(informQ)] \in {"select", "run"}
    BY <1>8, TakesInformMoves
  <2>2. UNCHANGED <<chans, generation, calls, opened>> /\ lpc = "wait" /\ lpc' = "report"
    BY <1>8 DEF TakesInform, registry, launch
  <2>3. \A v \in Watchers : /\ (Found(v)' <=> Found(v)) /\ (Registered(v)' => Registered(v))
                            /\ (Working(v)' => Working(v)) /\ ~Ahead(v)
    BY <2>1, <2>2 DEF Found, Ahead, Telling, Channel, Registered, Working, QueueInv
  <2>4. ~Telling' /\ lpc' # "tell" BY <2>2 DEF Telling
  <2> QED BY <1>1, <2>2, <2>3, <2>4 DEF Reach
<1> QED BY <1>2, <1>3, <1>4, <1>5, <1>6, <1>7, <1>8 DEF ListenerStep

\* When SetFirstReportFlag is through, every watcher works on a watch that was
\* opened after the dictionaries were replaced, or is about to open one, as
\* long as no registration was written over another.
THEOREM NewStateReachesAll == Spec => []ReopenedAfterReset
<1> DEFINE Inv == QueueInv /\ ReachInv
<1>1. Init => Inv BY InitQueue, InitReach
<1>2. Inv /\ [Next]_vars => Inv'
  <2> SUFFICES ASSUME Inv, [Next]_vars PROVE Inv' OBVIOUS
  <2>1. QueueInv' BY NextQueue
  <2>2. CASE Next
    <3>1. (\E w \in Watchers : Acts(w)) \/ ListenerStep \/ ReportPanics
      BY <2>2 DEF Next, Acts
    <3>2. RegTypes' BY <3>1, StepTyped DEF ReachInv
    <3>3. ~raced' => Reach' BY <3>1, WatcherKeepsReach, ListenerKeepsReach
    <3> QED BY <2>1, <3>2, <3>3 DEF ReachInv
  <2>3. CASE UNCHANGED vars
    <3>1. UNCHANGED <<chans, generation, calls, opened, slice, lpc, at, upto, target, wpc, raced>>
      BY <2>3 DEF vars, registry, watcher, launch, listener
    <3>2. ReachInv'
      BY <3>1 DEF ReachInv, RegTypes, Reach, Registered, Working, Found, Ahead, Telling, Channel
    <3> QED BY <2>1, <3>2
  <2> QED BY <2>2, <2>3
<1>3. Inv => ReopenedAfterReset
  <2> SUFFICES ASSUME Inv, lpc \in {"report", "wait"}, ~raced, NEW w \in Watchers,
                      wpc[w] \in {"select", "run", "count", "give", "blocked"}
               PROVE  opened[w] = generation
    BY DEF ReopenedAfterReset
  <2>1. Reach /\ Working(w) /\ ~Telling BY DEF ReachInv, Working, Telling
  <2> QED BY <2>1 DEF Reach, Ahead
<1> QED BY <1>1, <1>2, <1>3, PTL DEF Spec

-----------------------------------------------------------------------------
(* Types.  What the other invariants leave open: every watcher blocked in   *)
(* an inform is in the queue, the loop over the channels stays within its   *)
(* bounds, and no handler or watch is of dictionaries still to come.        *)

BlockedInv == \A w \in Watchers : wpc[w] = "blocked" => \E i \in 1..Len(informQ) : informQ[i] = w
FlagTypes ==
    /\ version \in BOOLEAN /\ aggregate \in BOOLEAN /\ first \in BOOLEAN /\ pending \in BOOLEAN
    /\ raced \in BOOLEAN
LoopTypes ==
    /\ lpc \in {"start", "notify", "tell", "report", "wait"}
    /\ at <= upto + 1 /\ (lpc = "tell" => at <= upto)
    /\ target \in {NoChannel} \cup Channels
    /\ starts \in Nat /\ generation <= starts /\ (lpc # "start" => starts >= 1)
HandlerTypes ==
    /\ evt \in [Watchers -> Nat] /\ made \in [Watchers -> Nat]
    /\ \A w \in Watchers : opened[w] <= generation /\ made[w] <= generation
SentTypes == sent \in Seq(Sent) /\ \A i \in 1..Len(sent) : sent[i].start \in 1..starts

\* Nothing has happened at the start.
LEMMA InitLoop == Init => BlockedInv /\ FlagTypes /\ LoopTypes /\ HandlerTypes /\ SentTypes
<1> SUFFICES ASSUME Init PROVE BlockedInv /\ FlagTypes /\ LoopTypes /\ HandlerTypes /\ SentTypes
  OBVIOUS
<1>1. BlockedInv BY DEF Init, BlockedInv
<1>2. FlagTypes BY DEF Init, FlagTypes
<1>3. LoopTypes BY DEF Init, LoopTypes
<1>4. HandlerTypes BY BoundsAssumption DEF Init, HandlerTypes
<1>5. SentTypes
  <2>1. sent = <<>> BY DEF Init
  <2> QED BY <2>1 DEF SentTypes
<1> QED BY <1>1, <1>2, <1>3, <1>4, <1>5

\* Whoever blocks joins the queue, and whoever leaves the queue goes on.
LEMMA NextBlocked == QueueInv /\ BlockedInv /\ [Next]_vars => BlockedInv'
<1> SUFFICES ASSUME QueueInv, BlockedInv, [Next]_vars PROVE BlockedInv' OBVIOUS
<1>1. ASSUME NEW w \in Watchers, Acts(w) PROVE BlockedInv'
  <2>1. Moves(w) BY <1>1, WatcherMoves
  <2>2. \A v \in Watchers : v # w => wpc'[v] = wpc[v]
    BY <2>1 DEF Moves, QueueInv
  <2>3. CASE informQ' = informQ /\ wpc'[w] # "blocked"
    BY <2>2, <2>3 DEF BlockedInv
  <2>4. CASE informQ' = Append(informQ, w)
    <3>1. /\ Len(informQ') = Len(informQ) + 1 /\ Len(informQ) \in Nat
          /\ informQ'[Len(informQ) + 1] = w
          /\ \A i \in 1..Len(informQ) : informQ'[i] = informQ[i]
      BY <2>4, AppendSeq DEF QueueInv
    <3>2. \A i \in 1..Len(informQ) : i \in 1..Len(informQ') BY <3>1
    <3>3. Len(informQ) + 1 \in 1..Len(informQ') BY <3>1
    <3> QED BY <2>2, <3>1, <3>2, <3>3 DEF BlockedInv
  <2> QED BY <2>1, <2>3, <2>4 DEF Moves
<1>2. CASE Tells
  <2>1. PICK w \in Watchers : wpc' = [wpc EXCEPT ![w] = Loop(w)] /\ informQ' = informQ
    BY <1>2, TellsMoves
  <2> QED BY <2>1 DEF QueueInv, BlockedInv, Loop
<1>3. CASE TakesInform
  <2>1. PICK w \in Watchers : /\ w = Head(informQ) /\ wpc' = [wpc EXCEPT ![w] = wpc'[w]]
                              /\ wpc'[w] \in {"select", "run"}
                              /\ informQ' = Tail(informQ) /\ informQ # <<>>
    BY <1>3, TakesInformMoves
  <2>2. /\ Len(informQ') = Len(informQ) - 1 /\ w = informQ[1] /\ Len(informQ) \in Nat
        /\ \A i \in 1..Len(informQ') : informQ'[i] = informQ[i + 1]
    BY <2>1, TailSeq DEF QueueInv
  <2> SUFFICES ASSUME NEW v \in Watchers, wpc'[v] = "blocked"
               PROVE  \E i \in 1..Len(informQ') : informQ'[i] = v
    BY DEF BlockedInv
  <2>3. v # w /\ wpc[v] = "blocked" BY <2>1 DEF QueueInv
  <2>4. PICK i \in 1..Len(informQ) : informQ[i] = v BY <2>3 DEF BlockedInv
  <2>5. i # 1 BY <2>2, <2>3, <2>4
  <2>6. i - 1 \in 1..Len(informQ') /\ (i - 1) + 1 = i BY <2>2, <2>5
  <2> QED BY <2>2, <2>4, <2>6
<1>4. CASE UNCHANGED <<wpc, informQ>> BY <1>4 DEF BlockedInv
<1>5. CASE UNCHANGED vars BY <1>4, <1>5 DEF vars, watcher
<1>6. CASE ListenerStep \/ ReportPanics
  BY <1>2, <1>3, <1>4, <1>6, ListenerMovesOne, ListenerMoves
<1> QED BY <1>1, <1>5, <1>6 DEF Next, Acts

\* A watcher sets flags, and takes the generation there is.
LEMMA WatcherKeepsLoop ==
    ASSUME QueueInv, RegTypes, FlagTypes, LoopTypes, HandlerTypes, SentTypes,
           NEW w \in Watchers, Acts(w)
    PROVE  FlagTypes' /\ LoopTypes' /\ HandlerTypes' /\ SentTypes'
<1>1. UNCHANGED <<generation, listener>>
  BY DEF Acts, WatcherStep, Event, NotifierAnswers, Registers, Appends,
         AsksVersion, Opens, OpenFails, LocksAndReads, Counts, Gives, MakesList, Pushes, HandlerPanics, Adds, Informs, registry
<1>2. LoopTypes' /\ SentTypes'
  BY <1>1 DEF LoopTypes, SentTypes, listener
<1>3. FlagTypes'
  <2>1. aggregate' = aggregate /\ first' = first
    BY DEF Acts, WatcherStep, Event, NotifierAnswers, Registers, Appends,
         AsksVersion, Opens, OpenFails, LocksAndReads, Counts, Gives, MakesList, Pushes, HandlerPanics, Adds, Informs, report
  <2>2. version' = version \/ AsksVersion(w)
    BY DEF Acts, WatcherStep, Event, NotifierAnswers, Registers, Appends,
         Opens, OpenFails, LocksAndReads, Counts, Gives, MakesList, Pushes, HandlerPanics, Adds, Informs, report
  <2>3. version' \in BOOLEAN
    BY <2>2, Zenon DEF AsksVersion, FlagTypes
  <2>4. pending' = pending \/ Adds(w)
    BY DEF Acts, WatcherStep, Event, NotifierAnswers, Registers, Appends,
         AsksVersion, Opens, OpenFails, LocksAndReads, Counts, Gives, MakesList, Pushes, HandlerPanics, Informs, report
  <2>5. pending' \in BOOLEAN
    BY <2>4, Zenon DEF Adds, FlagTypes
  <2>6. raced' = raced \/ Appends(w)
    BY DEF Acts, WatcherStep, Event, NotifierAnswers, Registers,
         AsksVersion, Opens, OpenFails, LocksAndReads, Counts, Gives, MakesList, Pushes, HandlerPanics, Adds, Informs, registry
  <2>7. raced' \in BOOLEAN
    BY <2>6, Zenon DEF Appends, FlagTypes
  <2> QED BY <2>1, <2>3, <2>5, <2>7, Zenon DEF FlagTypes
<1>4. HandlerTypes'
  <2>1. CASE Opens(w)
    BY <1>1, <2>1 DEF Opens, HandlerTypes, RegTypes, handler
  <2>2. CASE Event(w)
    <3>1. evt[w] - 1 \in Nat BY <2>2 DEF Event, HandlerTypes
    <3> QED BY <1>1, <2>2, <3>1 DEF Event, HandlerTypes, launch
  <2>3. CASE MakesList(w)
    BY <1>1, <2>3 DEF MakesList, HandlerTypes, RegTypes, launch
  <2>4. CASE ~(Opens(w) \/ Event(w) \/ MakesList(w))
    <3>1. UNCHANGED <<evt, made, opened>>
      BY <2>4 DEF Acts, WatcherStep, NotifierAnswers, Registers, Appends,
         AsksVersion, OpenFails, LocksAndReads, Counts, Gives, Pushes, HandlerPanics, Adds, Informs, handler, launch
    <3> QED BY <1>1, <3>1 DEF HandlerTypes
  <2> QED BY <2>1, <2>2, <2>3, <2>4
<1> QED BY <1>2, <1>3, <1>4

\* A start of ListenerAndSender makes one generation at most.
LEMMA StartsKeepsLoop ==
    ASSUME RegTypes, FlagTypes, LoopTypes, HandlerTypes, SentTypes, Starts
    PROVE  FlagTypes' /\ LoopTypes' /\ HandlerTypes' /\ SentTypes'
<1>1. starts' = starts + 1 /\ UNCHANGED <<version, aggregate, pending, raced, target, sent, evt, made, opened>>
  BY DEF Starts, watcher, launch, handler
<1>2. FlagTypes'
  <2>1. first' \in BOOLEAN BY Zenon DEF Starts, FlagTypes
  <2> QED BY <1>1, <2>1, Zenon DEF FlagTypes
<1>3. generation' \in {generation, generation + 1} BY DEF Starts
<1>4. HandlerTypes'
  BY <1>1, <1>3 DEF HandlerTypes, RegTypes
<1>5. LoopTypes'
  <2>1. \/ lpc' = "report" /\ UNCHANGED <<at, upto>>
        \/ lpc' = "notify" /\ at' = 1 /\ upto' = Len(chans)
    BY DEF Starts
  <2>2. Len(chans) \in Nat BY DEF RegTypes
  <2> QED BY <1>1, <1>3, <2>1, <2>2 DEF LoopTypes, RegTypes
<1>6. SentTypes'
  BY <1>1 DEF SentTypes, LoopTypes
<1> QED BY <1>2, <1>4, <1>5, <1>6

\* A report has a mark of the present start.
LEMMA ReportsKeepsLoop ==
    ASSUME RegTypes, FlagTypes, LoopTypes, HandlerTypes, SentTypes, Reports
    PROVE  FlagTypes' /\ LoopTypes' /\ HandlerTypes' /\ SentTypes'
<1> DEFINE new == [first |-> first, meta |-> aggregate, start |-> starts]
<1>1. /\ sent' = Append(sent, new) /\ lpc = "report" /\ lpc' = "wait"
      /\ UNCHANGED <<version, raced, at, upto, target, starts, generation, evt, made, opened>>
  BY DEF Reports, registry, watcher, launch, handler
<1>2. FlagTypes' BY DEF Reports, FlagTypes, registry
<1>3. LoopTypes' /\ HandlerTypes'
  BY <1>1 DEF LoopTypes, HandlerTypes
<1>4. starts \in 1..starts BY <1>1 DEF LoopTypes
<1>5. new \in Sent /\ new.start = starts BY <1>4 DEF FlagTypes, Sent
<1>6. /\ sent' \in Seq(Sent) /\ Len(sent') = Len(sent) + 1 /\ Len(sent) \in Nat
      /\ sent'[Len(sent) + 1] = new
      /\ \A i \in 1..Len(sent) : sent'[i] = sent[i]
  BY <1>1, <1>5, AppendSeq DEF SentTypes
<1>7. \A i \in 1..Len(sent') : sent'[i].start \in 1..starts'
  <2> SUFFICES ASSUME NEW i \in 1..Len(sent') PROVE sent'[i].start \in 1..starts BY <1>1
  <2>1. CASE i \in 1..Len(sent) BY <1>6, <2>1 DEF SentTypes
  <2>2. CASE i = Len(sent) + 1 BY <1>4, <1>5, <1>6, <2>2
  <2> QED BY <1>6, <2>1, <2>2
<1> QED BY <1>2, <1>3, <1>6, <1>7 DEF SentTypes

\* The other steps of ListenerAndSender move its position only.
LEMMA ListenerKeepsLoop ==
    ASSUME RegTypes, FlagTypes, LoopTypes, HandlerTypes, SentTypes, ListenerStep \/ ReportPanics
    PROVE  FlagTypes' /\ LoopTypes' /\ HandlerTypes' /\ SentTypes'
<1>1. CASE Starts BY <1>1, StartsKeepsLoop
<1>2. CASE Reports BY <1>2, ReportsKeepsLoop
<1>3. CASE ~(Starts \/ Reports)
  <2>1. UNCHANGED <<report, raced, generation, chans, launch, made, evt, starts, sent>>
    BY <1>3 DEF ListenerStep, PicksChannel, NotifyPanics, Tells, Notified, TakesInform, ReportPanics,
       registry, watcher, handler
  <2>2. FlagTypes' /\ HandlerTypes' /\ SentTypes'
    BY <2>1 DEF FlagTypes, HandlerTypes, SentTypes, report, launch
  <2>3. LoopTypes'
    <3>1. CASE PicksChannel
      <4>1. at \in 1..Len(chans) BY <3>1 DEF PicksChannel, RegTypes
      <4>2. chans[at] \in Channels BY <4>1 DEF RegTypes
      <4> QED BY <2>1, <3>1, <4>2 DEF PicksChannel, LoopTypes
    <3>2. CASE NotifyPanics \/ Notified
      BY <2>1, <3>2 DEF NotifyPanics, Notified, LoopTypes
    <3>3. CASE Tells
      BY <2>1, <3>3 DEF Tells, LoopTypes, RegTypes
    <3>4. CASE TakesInform \/ ReportPanics
      BY <2>1, <3>4 DEF TakesInform, ReportPanics, LoopTypes
    <3> QED BY <1>3, <3>1, <3>2, <3>3, <3>4 DEF ListenerStep
  <2> QED BY <2>2, <2>3
<1> QED BY <1>1, <1>2, <1>3

\* The identifiers, by every step.
LEMMA NextIds == QueueInv /\ IdInv /\ [Next]_vars => IdInv'
<1> SUFFICES ASSUME QueueInv, IdInv, [Next]_vars PROVE IdInv' OBVIOUS
<1>1. CASE \E w \in Watchers : Acts(w) BY <1>1, WatcherKeepsIds
<1>2. CASE ListenerStep \/ ReportPanics BY <1>2, ListenerKeepsIds
<1>3. CASE UNCHANGED vars
  BY <1>3 DEF vars, watcher, identifiers, IdInv, Inside, Given, Counted
<1> QED BY <1>1, <1>2, <1>3 DEF Next, Acts

\* The types of start and recovery: who waits for the listener is in its queue,
\* the mutex of the identifiers is held by who is inside CreateID, and the loop
\* over the channels never looks beyond the slice it was started with.
THEOREM TypeCorrect == Spec => []TypeOK
<1> DEFINE Types == RegTypes /\ FlagTypes /\ LoopTypes /\ HandlerTypes /\ SentTypes
           Inv == QueueInv /\ BlockedInv /\ IdInv /\ Types
<1>1. Init => Inv
  BY InitQueue, InitIds, InitReach, InitLoop DEF ReachInv
<1>2. Inv /\ [Next]_vars => Inv'
  <2> SUFFICES ASSUME Inv, [Next]_vars PROVE Inv' OBVIOUS
  <2>1. QueueInv' /\ BlockedInv' /\ IdInv' BY NextQueue, NextBlocked, NextIds
  <2>2. CASE Next
    <3>1. (\E w \in Watchers : Acts(w)) \/ ListenerStep \/ ReportPanics
      BY <2>2 DEF Next, Acts
    <3>2. RegTypes' BY <3>1, StepTyped
    <3>3. FlagTypes' /\ LoopTypes' /\ HandlerTypes' /\ SentTypes'
      BY <3>1, WatcherKeepsLoop, ListenerKeepsLoop
    <3> QED BY <2>1, <3>2, <3>3
  <2>3. CASE UNCHANGED vars
    <3>1. UNCHANGED <<report, registry, launch, handler, listener>> BY <2>3 DEF vars, watcher
    <3>2. RegTypes' BY <3>1 DEF RegTypes, registry, launch, listener
    <3>3. FlagTypes' BY <3>1, Zenon DEF FlagTypes, report, registry
    <3>4. LoopTypes' /\ SentTypes' BY <3>1 DEF LoopTypes, SentTypes, registry, listener
    <3>5. HandlerTypes' BY <3>1 DEF HandlerTypes, handler, registry, launch
    <3> QED BY <2>1, <3>2, <3>3, <3>4, <3>5
  <2> QED BY <2>2, <2>3
<1>3. Inv => TypeOK
  <2> SUFFICES ASSUME Inv PROVE TypeOK OBVIOUS
  <2>1. Cardinality(mutex) <= 1
    <3>1. CASE mutex = {}
      <4>1. Cardinality(mutex) = 0 BY <3>1, FS_EmptySet
      <4> QED BY <4>1
    <3>2. CASE mutex # {}
      <4>1. PICK w \in mutex : mutex = {w} BY <3>2 DEF IdInv
      <4>2. Cardinality(mutex) = 1 BY <4>1, FS_Singleton
      <4> QED BY <4>2
    <3> QED BY <3>1, <3>2
  <2>2. mutex = {w \in Watchers : wpc[w] \in {"count", "give"}} BY DEF IdInv, Inside
  <2>3. {informQ[i] : i \in DOMAIN informQ} = {w \in Watchers : wpc[w] = "blocked"}
    <3>1. DOMAIN informQ = 1..Len(informQ) BY DEF QueueInv
    <3>2. \A i \in 1..Len(informQ) : informQ[i] \in Watchers BY DEF QueueInv
    <3> QED BY <3>1, <3>2 DEF QueueInv, BlockedInv
  <2>4. sent \in Seq([first : BOOLEAN, meta : BOOLEAN, start : 1..starts])
    <3> DEFINE S == [first : BOOLEAN, meta : BOOLEAN, start : 1..starts]
    <3>1. sent \in Seq(Sent) /\ Len(sent) \in Nat BY DEF SentTypes
    <3>2. \A i \in 1..Len(sent) : sent[i] \in Sent /\ sent[i].start \in 1..starts
      BY <3>1 DEF SentTypes
    <3>3. \A i \in 1..Len(sent) : sent[i] \in S BY <3>2 DEF Sent
    <3> HIDE DEF S
    <3>4. sent \in Seq(S) BY <3>1, <3>3
    <3> QED BY <3>4 DEF S
  <2>5. wpc \in [Watchers -> PC] BY DEF QueueInv
  <2>6. generation \in 0..starts /\ at \in 1..(upto + 1) BY DEF RegTypes, LoopTypes
  <2>7. opened \in [Watchers -> 0..generation] /\ made \in [Watchers -> 0..generation]
    BY DEF RegTypes, HandlerTypes
  <2>8. /\ chans \in Seq(Watchers \X Nat) /\ \A w \in Watchers : slice[w] \in Seq(Watchers \X Nat)
        /\ calls \in [Watchers -> Nat] /\ evt \in [Watchers -> Nat]
        /\ target \in {NoChannel} \cup Watchers \X Nat
    BY DEF RegTypes, HandlerTypes, LoopTypes, Channels
  <2>9. /\ version \in BOOLEAN /\ aggregate \in BOOLEAN /\ first \in BOOLEAN /\ pending \in BOOLEAN
        /\ raced \in BOOLEAN
    BY Zenon DEF FlagTypes
  <2>10. /\ counter \in Nat /\ idOf \in [Watchers -> Nat] /\ ids \in Seq(Nat)
         /\ starts \in Nat /\ lpc \in {"start", "notify", "tell", "report", "wait"}
    BY DEF IdInv, LoopTypes
  <2> QED BY <2>1, <2>2, <2>3, <2>4, <2>5, <2>6, <2>7, <2>8, <2>9, <2>10, Zenon DEF TypeOK, PC
<1> QED BY <1>1, <1>2, <1>3, PTL DEF Spec
=============================================================================
