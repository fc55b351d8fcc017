--------------------------- MODULE WebSocketProofs ---------------------------
(***************************************************************************)
(* Proofs about WebSocketHandler, for any number of dials, reports,        *)
(* processes and frames: the types and the bound of the counter of silent  *)
(* rounds, that no connection is closed under a write, and that the        *)
(* handler implements ReportDelivery.                                      *)
(***************************************************************************)
EXTENDS WebSocketHandler, QueueLemmas

-----------------------------------------------------------------------------
(* Types.  The counter is at most 3 because the ping goroutine sleeps, and  *)
(* then counts, only if it was at most 2; what is on the wire has a         *)
(* connection to go to.                                                     *)

Frames == {"control", "data"}
SenderTypes ==
    /\ proc \in {"running", "exited", "stopped"} /\ code \in {0, 1, 4} /\ lives \in Nat
    /\ spc \in {"dial", "recv", "lock", "act"} /\ tries \in 0..Tries
    /\ taken \in DataSocket /\ made \in Nat /\ mutex \in BOOLEAN
    /\ blocked \in Seq(DataSocket)
    /\ proc = "running" => tries < Tries
CheckerTypes ==
    /\ cpc \in [Checker -> {"off", "top", "test", "sleep", "count", "close", "exit", "blocked", "sent"}]
    /\ end \in BOOLEAN /\ counter \in 0..3 /\ counted \in 0..2
    /\ cpc["ping"] = "sleep" => counter <= 2
NetworkTypes ==
    /\ link \in {"none", "up", "down", "closed"}
    /\ wire \in Seq(Nat) /\ inbound \in Seq(Frames)
    /\ received \in Seq(Seq(Nat))
    /\ link = "up" \/ wire # <<>> => received # <<>>
TypeInv == SenderTypes /\ CheckerTypes /\ NetworkTypes

\* The three parts are the type invariant.
LEMMA TypeInvIsTypeOK == TypeInv => TypeOK
  BY DEF TypeInv, SenderTypes, CheckerTypes, NetworkTypes, TypeOK, Frames

\* Nothing was dialled or sent yet.
LEMMA InitTypes == Init => TypeInv
<1> SUFFICES ASSUME Init PROVE TypeInv OBVIOUS
<1> mutex \in BOOLEAN /\ end \in BOOLEAN BY DEF Init
<1>1. SenderTypes
  BY TriesAssumption DEF Init, SenderTypes, NoData, DataSocket
<1>2. CheckerTypes
  BY DEF Init, CheckerTypes, CheckersOff, Checker
<1>3. NetworkTypes
  BY DEF Init, NetworkTypes
<1> QED BY <1>1, <1>2, <1>3 DEF TypeInv

\* The entrypoint.
LEMMA EntrypointTyped == TypeInv /\ EntrypointStep => TypeInv'
<1> SUFFICES ASSUME TypeInv, EntrypointStep PROVE TypeInv' OBVIOUS
<1>1. CASE EntrypointRestarts
  <2> mutex' \in BOOLEAN /\ end' \in BOOLEAN BY <1>1 DEF EntrypointRestarts
  <2>1. SenderTypes'
    BY <1>1, TriesAssumption DEF EntrypointRestarts, TypeInv, SenderTypes, NoData, DataSocket
  <2>2. CheckerTypes'
    BY <1>1 DEF EntrypointRestarts, CheckerTypes, CheckersOff, Checker
  <2>3. NetworkTypes'
    BY <1>1 DEF EntrypointRestarts, TypeInv, NetworkTypes, network
  <2> QED BY <2>1, <2>2, <2>3 DEF TypeInv
<1>2. CASE EntrypointStops
  BY <1>2 DEF EntrypointStops, TypeInv, SenderTypes, CheckerTypes, NetworkTypes, process, sender,
     checkers, network
<1> QED BY <1>1, <1>2 DEF EntrypointStep

\* Dialling: the last failed dial ends the process.
LEMMA DialTyped == TypeInv /\ Dial => TypeInv'
<1> SUFFICES ASSUME TypeInv, Dial PROVE TypeInv' OBVIOUS
<1>1. CASE DialSucceeds
  <2> end' \in BOOLEAN BY <1>1 DEF DialSucceeds
  <2>1. received' \in Seq(Seq(Nat)) /\ received' # <<>>
    <3>1. received \in Seq(Seq(Nat)) /\ <<>> \in Seq(Nat) BY DEF TypeInv, NetworkTypes
    <3> QED BY <1>1, <3>1, AppendSeq DEF DialSucceeds
  <2>2. NetworkTypes'
    BY <1>1, <2>1 DEF DialSucceeds, NetworkTypes
  <2>3. SenderTypes'
    BY <1>1 DEF DialSucceeds, TypeInv, SenderTypes
  <2>4. CheckerTypes'
    BY <1>1 DEF DialSucceeds, TypeInv, CheckerTypes, Checker
  <2> QED BY <2>2, <2>3, <2>4 DEF TypeInv
<1>2. CASE DialFails
  <2>1. proc = "running" /\ tries' = tries + 1 /\ tries' \in 0..Tries
        /\ UNCHANGED <<lives, sender, checkers, made, blocked, received>>
    BY <1>2, TriesAssumption DEF DialFails, TypeInv, SenderTypes
  <2>2. CASE tries' < Tries
    BY <1>2, <2>1, <2>2 DEF DialFails, TypeInv, SenderTypes, CheckerTypes, NetworkTypes, sender, checkers
  <2>3. CASE ~(tries' < Tries)
    BY <1>2, <2>1, <2>3 DEF DialFails, ExitProcess, TypeInv, SenderTypes, CheckerTypes, NetworkTypes,
       sender, checkers
  <2> QED BY <2>2, <2>3
<1> QED BY <1>1, <1>2 DEF Dial

\* The sender and the client.
LEMMA SenderTyped == TypeInv /\ (SenderStep \/ SendMessageToWebSocket) => TypeInv'
<1> SUFFICES ASSUME TypeInv, SenderStep \/ SendMessageToWebSocket PROVE TypeInv' OBVIOUS
<1>1. CASE SenderTakes
  <2>1. Head(blocked) \in DataSocket /\ Tail(blocked) \in Seq(DataSocket)
    BY <1>1, TailSeq DEF SenderTakes, TypeInv, SenderTypes
  <2>2. SenderTypes'
    BY <1>1, <2>1 DEF SenderTakes, TypeInv, SenderTypes
  <2>3. CheckerTypes'
    BY <1>1 DEF SenderTakes, TypeInv, CheckerTypes, Checker
  <2> QED BY <1>1, <2>2, <2>3 DEF SenderTakes, TypeInv, NetworkTypes, network
<1>2. CASE SenderLocks
  BY <1>2 DEF SenderLocks, TypeInv, SenderTypes, CheckerTypes, NetworkTypes, checkers, network
<1>3. CASE SenderWrites
  <2>1. taken.n \in Nat BY DEF TypeInv, SenderTypes, DataSocket
  <2>2. NetworkTypes'
    <3>1. CASE link = "up"
      <4>1. wire' \in Seq(Nat) /\ received # <<>>
        BY <1>3, <2>1, <3>1, AppendSeq DEF SenderWrites, TypeInv, NetworkTypes
      <4> QED BY <1>3, <4>1 DEF SenderWrites, TypeInv, NetworkTypes
    <3>2. CASE link # "up"
      BY <1>3, <3>2 DEF SenderWrites, TypeInv, NetworkTypes
    <3> QED BY <3>1, <3>2
  <2>3. SenderTypes'
    BY <1>3 DEF SenderWrites, SenderUnlocks, TypeInv, SenderTypes, NoData, DataSocket
  <2> QED BY <1>3, <2>2, <2>3 DEF SenderWrites, TypeInv, CheckerTypes, checkers
<1>4. CASE SenderFails \/ SenderTakesExit
  <2>1. ExitProcess(4) /\ UNCHANGED <<lives, process, received>>
    BY <1>4 DEF SenderFails, SenderTakesExit
  <2>2. SenderTypes'
    BY <2>1 DEF ExitProcess, TypeInv, SenderTypes, process, sender
  <2>3. CheckerTypes'
    BY <2>1 DEF TypeInv, CheckerTypes, process, checkers
  <2>4. NetworkTypes'
    BY <2>1 DEF ExitProcess, TypeInv, NetworkTypes
  <2> QED BY <2>2, <2>3, <2>4 DEF TypeInv
<1>5. CASE SendMessageToWebSocket
  <2>1. made' \in Nat /\ Message(made') \in DataSocket
    BY <1>5 DEF SendMessageToWebSocket, Message, DataSocket, TypeInv, SenderTypes
  <2>2. blocked' \in Seq(DataSocket)
    BY <1>5, <2>1, AppendSeq DEF SendMessageToWebSocket, TypeInv, SenderTypes
  <2> QED BY <1>5, <2>1, <2>2 DEF SendMessageToWebSocket, TypeInv, SenderTypes, CheckerTypes,
          NetworkTypes, sender, checkers, network
<1> QED BY <1>1, <1>2, <1>3, <1>4, <1>5 DEF SenderStep

\* The ping goroutine.
LEMMA PingTyped ==
    TypeInv /\ (Pings \/ TestsCounter \/ CounterRead \/ CounterWritten) => TypeInv'
<1> SUFFICES ASSUME TypeInv, Pings \/ TestsCounter \/ CounterRead \/ CounterWritten PROVE TypeInv'
  OBVIOUS
<1> USE DEF At, GotoC, Checker
<1>1. CASE Pings
  <2>1. inbound' \in Seq(Frames)
    <3>1. inbound \in Seq(Frames) /\ "control" \in Frames BY DEF TypeInv, NetworkTypes, Frames
    <3> QED BY <1>1, <3>1, AppendSeq DEF Pings
  <2> QED BY <1>1, <2>1 DEF Pings, TypeInv, SenderTypes, CheckerTypes, NetworkTypes, sender
<1>2. CASE TestsCounter
  <2>1. cpc' = [cpc EXCEPT !["ping"] = cpc'["ping"]] /\ cpc'["ping"] \in {"sleep", "off", "close"}
        /\ (cpc'["ping"] = "sleep" => counter <= 2)
    BY <1>2 DEF TestsCounter, TypeInv, CheckerTypes
  <2> QED BY <1>2, <2>1 DEF TestsCounter, TypeInv, SenderTypes, CheckerTypes, NetworkTypes, sender, network
<1>3. CASE CounterRead
  BY <1>3 DEF CounterRead, TypeInv, SenderTypes, CheckerTypes, NetworkTypes, sender, network
<1>4. CASE CounterWritten
  BY <1>4 DEF CounterWritten, TypeInv, SenderTypes, CheckerTypes, NetworkTypes, sender, network
<1> QED BY <1>1, <1>2, <1>3, <1>4

\* The read goroutine and what the two have in common.
LEMMA CheckerTyped ==
    ASSUME TypeInv, NEW g \in Checker,
           StopsAtEnd(g) \/ Closes(g) \/ SendsExit(g) \/ Leaves(g) \/ ReadsFrame \/ ReadFails
    PROVE  TypeInv'
<1> USE DEF At, GotoC, Checker
<1>1. CASE StopsAtEnd(g) \/ Leaves(g) \/ ReadFails
  <2>1. UNCHANGED <<proc, code, lives, sender, counter, counted, tries, made, blocked, network>>
        /\ (end' = end \/ end' = TRUE) /\ \E h \in Checker, pc \in {"off", "close"} : cpc' = [cpc EXCEPT ![h] = pc]
    BY <1>1 DEF StopsAtEnd, Leaves, ReadFails
  <2>2. SenderTypes' /\ NetworkTypes'
    BY <2>1 DEF TypeInv, SenderTypes, NetworkTypes, sender, network
  <2>3. CheckerTypes'
    <3>1. PICK h \in Checker, pc \in {"off", "close"} : cpc' = [cpc EXCEPT ![h] = pc] BY <2>1
    <3> QED BY <2>1, <3>1 DEF TypeInv, CheckerTypes
  <2> QED BY <2>2, <2>3 DEF TypeInv
<1>2. CASE Closes(g)
  BY <1>2 DEF Closes, TypeInv, SenderTypes, CheckerTypes, NetworkTypes, sender
<1>3. CASE SendsExit(g)
  <2>1. Exit(g) \in DataSocket BY DEF Exit, DataSocket
  <2>2. blocked' \in Seq(DataSocket)
    BY <1>3, <2>1, AppendSeq DEF SendsExit, TypeInv, SenderTypes
  <2> QED BY <1>3, <2>2 DEF SendsExit, TypeInv, SenderTypes, CheckerTypes, NetworkTypes, sender, network
<1>4. CASE ReadsFrame
  <2>1. inbound' \in Seq(Frames)
    BY <1>4, TailSeq DEF ReadsFrame, TypeInv, NetworkTypes
  <2> QED BY <1>4, <2>1 DEF ReadsFrame, TypeInv, SenderTypes, CheckerTypes, NetworkTypes, sender
<1> QED BY <1>1, <1>2, <1>3, <1>4

\* The network and the backend.
LEMMA NetworkTyped == TypeInv /\ (PeerReceives \/ PeerLost \/ PeerSends) => TypeInv'
<1> SUFFICES ASSUME TypeInv, PeerReceives \/ PeerLost \/ PeerSends PROVE TypeInv' OBVIOUS
<1>0. UNCHANGED <<proc, code, lives, process>>
  BY DEF PeerReceives, PeerLost, PeerSends
<1>1. NetworkTypes'
  <2>1. CASE PeerReceives
    <3>1. Head(wire) \in Nat /\ Tail(wire) \in Seq(Nat) /\ received # <<>>
      BY <2>1, TailSeq DEF PeerReceives, TypeInv, NetworkTypes
    <3>2. received[Len(received)] \in Seq(Nat) /\ Len(received) \in 1..Len(received)
      BY <3>1 DEF TypeInv, NetworkTypes
    <3>3. Append(received[Len(received)], Head(wire)) \in Seq(Nat)
      BY <3>1, <3>2, AppendSeq
    <3>4. received' \in Seq(Seq(Nat)) /\ Len(received') = Len(received)
      BY <2>1, <3>2, <3>3, ReplacedSeq DEF PeerReceives, TypeInv, NetworkTypes
    <3>5. received' # <<>> BY <3>2, <3>4
    <3> QED BY <2>1, <3>1, <3>4, <3>5 DEF PeerReceives, TypeInv, NetworkTypes
  <2>2. CASE PeerLost
    BY <2>2 DEF PeerLost, TypeInv, NetworkTypes
  <2>3. CASE PeerSends
    <3>1. PICK frame \in Frames : inbound' = Append(inbound, frame)
      BY <2>3 DEF PeerSends, Frames
    <3>2. inbound' \in Seq(Frames)
      BY <3>1, AppendSeq DEF TypeInv, NetworkTypes
    <3> QED BY <2>3, <3>2 DEF PeerSends, TypeInv, NetworkTypes
  <2> QED BY <2>1, <2>2, <2>3
<1> QED BY <1>0, <1>1 DEF TypeInv, SenderTypes, CheckerTypes, process, sender, checkers

\* Every step keeps the types.
LEMMA NextTyped == TypeInv /\ [Next]_vars => TypeInv'
<1> SUFFICES ASSUME TypeInv, [Next]_vars PROVE TypeInv' OBVIOUS
<1>1. CASE \E g \in Checker : CheckerStep(g)
  BY <1>1, PingTyped, CheckerTyped DEF CheckerStep
<1>2. CASE ReadFails
  BY <1>2, CheckerTyped DEF Checker
<1>3. CASE UNCHANGED vars
  BY <1>3 DEF vars, process, sender, checkers, network, TypeInv, SenderTypes, CheckerTypes, NetworkTypes
<1> QED BY <1>1, <1>2, <1>3, EntrypointTyped, DialTyped, SenderTyped, NetworkTyped DEF Next

\* Every variable has its type, and the counter of silent rounds never exceeds
\* the three after which the connection is closed, although it is counted in
\* two steps while the read goroutine resets it.
THEOREM TypeCorrect == Spec => []TypeOK
<1>1. Spec => []TypeInv
  BY InitTypes, NextTyped, PTL DEF Spec
<1> QED BY <1>1, TypeInvIsTypeOK, PTL

-----------------------------------------------------------------------------
(* The mutex.  It is held exactly while the sender writes.                  *)

LockInv == spc = "act" <=> mutex

\* Only the sender locks for longer than a step, and only to write.
LEMMA NextLock == TypeInv /\ LockInv /\ [Next]_vars => LockInv'
<1> SUFFICES ASSUME TypeInv, LockInv, [Next]_vars PROVE LockInv' OBVIOUS
<1> USE DEF LockInv
<1>1. CASE EntrypointRestarts BY <1>1 DEF EntrypointRestarts
<1>2. CASE DialSucceeds BY <1>2 DEF DialSucceeds
<1>3. CASE SenderTakes BY <1>3 DEF SenderTakes
<1>4. CASE SenderLocks BY <1>4 DEF SenderLocks
<1>5. CASE SenderWrites BY <1>5 DEF SenderWrites, SenderUnlocks
<1>6. CASE UNCHANGED sender BY <1>6 DEF sender
<1>7. CASE ~(EntrypointRestarts \/ DialSucceeds \/ SenderTakes \/ SenderLocks \/ SenderWrites)
  <2>1. UNCHANGED sender
    BY <1>7 DEF Next, EntrypointStep, EntrypointStops, Dial, DialFails, SenderStep, SenderFails,
       SenderTakesExit, SendMessageToWebSocket, CheckerStep, StopsAtEnd, Closes, SendsExit, Leaves,
       Pings, TestsCounter, CounterRead, CounterWritten, ReadsFrame, ReadFails, PeerReceives,
       PeerLost, PeerSends, vars, process
  <2> QED BY <2>1, <1>6
<1> QED BY <1>1, <1>2, <1>3, <1>4, <1>5, <1>7

\* A connection is closed by a goroutine that has the mutex.
LEMMA ClosesOutsideWrites ==
    ASSUME LockInv, [Next]_vars
    PROVE  link' = "closed" => spc # "act" \/ link = "closed"
<1>1. CASE \E g \in Checker : Closes(g)
  BY <1>1 DEF Closes, LockInv
<1>2. CASE ~\E g \in Checker : Closes(g)
  <2>1. link' = "closed" => link = "closed"
    BY <1>2 DEF Next, EntrypointStep, EntrypointRestarts, EntrypointStops, Dial, DialSucceeds,
       DialFails, SenderStep, SenderTakes, SenderLocks, SenderWrites, SenderFails,
       SenderTakesExit, ExitProcess, SendMessageToWebSocket, CheckerStep, StopsAtEnd,
       SendsExit, Leaves, Pings, TestsCounter, CounterRead, CounterWritten, ReadsFrame, ReadFails,
       PeerReceives, PeerLost, PeerSends, vars, network
  <2> QED BY <2>1
<1> QED BY <1>1, <1>2

\* No connection is closed while the sender is inside conn.WriteMessage.
THEOREM WritesAreNotCutOff == Spec => NoCloseDuringWrite
<1>1. Init => LockInv BY DEF Init, LockInv
<1>2. Spec => [](TypeInv /\ LockInv)
  BY <1>1, InitTypes, NextTyped, NextLock, PTL DEF Spec
<1>3. LockInv /\ [Next]_vars => [link' = "closed" => spc # "act" \/ link = "closed"]_vars
  BY ClosesOutsideWrites
<1> QED BY <1>2, <1>3, PTL DEF Spec, NoCloseDuringWrite

-----------------------------------------------------------------------------
(* Delivery.  On a live connection the reports that the sender took from    *)
(* the channel are, in order, received, on the wire, or in its hand; one    *)
(* more may be offered to it.  What is on the wire follows what was         *)
(* received also when the connection is closed behind it.                   *)

FromListener(d) == d.from = "listener"
Queued == \E i \in 1..Len(blocked) : FromListener(blocked[i])
Offered == IF Queued THEN made - 1 ELSE made
Delivered == Len(received[Len(received)])
ClientInv ==
    /\ \A i \in 1..Len(blocked) : FromListener(blocked[i]) => blocked[i].n = made
    /\ \A i, j \in 1..Len(blocked) : FromListener(blocked[i]) /\ FromListener(blocked[j]) => i = j
WireInv ==
    /\ spc \in {"dial", "recv"} => taken = NoData
    /\ link = "up" => proc = "running"
    /\ proc = "running" /\ spc = "dial" => Offered = 0
    /\ \A i \in 1..Len(wire) : wire[i] = Delivered + i
    /\ link = "up" /\ FromListener(taken) => Offered = taken.n /\ taken.n = Delivered + Len(wire) + 1
    /\ link = "up" /\ ~FromListener(taken) => Offered = Delivered + Len(wire)
DeliveryInv == ClientInv /\ WireInv

\* Nothing is offered, and no connection is up.
LEMMA InitDelivery == Init => DeliveryInv
  BY DEF Init, DeliveryInv, ClientInv, WireInv, Offered, Queued

\* What is kept when the channel and its client are left alone.
LEMMA OfferedKept ==
    ASSUME UNCHANGED <<made, blocked>>
    PROVE  Offered' = Offered /\ (ClientInv => ClientInv')
  BY DEF Offered, Queued, ClientInv, FromListener

\* A lost connection keeps what is on the wire or drops it.
LEMMA LosesKeeps ==
    ASSUME DeliveryInv, UNCHANGED <<spc, taken, made, blocked, received>>,
           proc' = "running" => proc = "running",
           \/ UNCHANGED <<proc, link, wire>>
           \/ link' # "up" /\ (wire' = wire \/ wire' = <<>>)
    PROVE  DeliveryInv'
<1>1. Offered' = Offered /\ ClientInv' BY OfferedKept DEF DeliveryInv
<1>2. Delivered' = Delivered BY DEF Delivered
<1>3. WireInv' BY <1>1, <1>2 DEF DeliveryInv, WireInv, FromListener, NoData
<1> QED BY <1>1, <1>3 DEF DeliveryInv

\* A new process and a new connection start with nothing.
LEMMA RestartsKeeps == DeliveryInv /\ EntrypointRestarts /\ TypeInv => DeliveryInv'
<1> SUFFICES ASSUME DeliveryInv, EntrypointRestarts, TypeInv PROVE DeliveryInv' OBVIOUS
<1>1. made' = 0 /\ blocked' = <<>> /\ taken' = NoData /\ UNCHANGED <<link, wire, received>>
      /\ spc' = "dial" /\ proc = "exited"
  BY DEF EntrypointRestarts, network
<1>2. ClientInv' /\ Offered' = 0 BY <1>1 DEF ClientInv, Offered, Queued
<1>3. Delivered' = Delivered BY <1>1 DEF Delivered
<1>4. link # "up" BY <1>1 DEF DeliveryInv, WireInv
<1> QED BY <1>1, <1>2, <1>3, <1>4 DEF DeliveryInv, WireInv

\* A connection that is dialled has received nothing, and nothing was taken yet.
LEMMA DialKeeps == DeliveryInv /\ TypeInv /\ DialSucceeds => DeliveryInv'
<1> SUFFICES ASSUME DeliveryInv, TypeInv, DialSucceeds PROVE DeliveryInv' OBVIOUS
<1>1. /\ proc = "running" /\ spc = "dial" /\ spc' = "recv" /\ wire' = <<>>
      /\ received' = Append(received, <<>>) /\ UNCHANGED <<proc, made, blocked, taken>>
  BY DEF DialSucceeds
<1>2. Delivered' = 0
  <2>1. received \in Seq(Seq(Nat)) /\ <<>> \in Seq(Nat) BY DEF TypeInv, NetworkTypes
  <2>2. received'[Len(received')] = <<>> BY <1>1, <2>1, AppendSeq
  <2> QED BY <2>2 DEF Delivered
<1>3. Offered' = Offered /\ Offered = 0 /\ ClientInv' /\ taken = NoData
  BY <1>1, OfferedKept DEF DeliveryInv, WireInv
<1> QED BY <1>1, <1>2, <1>3 DEF DeliveryInv, WireInv, FromListener, NoData

\* ListenerAndSender offers a report when it has no other in the channel.
LEMMA ClientKeeps == DeliveryInv /\ TypeInv /\ SendMessageToWebSocket => DeliveryInv'
<1> SUFFICES ASSUME DeliveryInv, TypeInv, SendMessageToWebSocket PROVE DeliveryInv' OBVIOUS
<1>1. /\ made' = made + 1 /\ blocked' = Append(blocked, Message(made')) /\ made \in Nat
      /\ UNCHANGED <<proc, spc, taken, link, wire, received>> /\ blocked \in Seq(DataSocket)
  BY DEF SendMessageToWebSocket, sender, network, TypeInv, SenderTypes
<1>2. \A i \in 1..Len(blocked) : ~FromListener(blocked[i])
  BY <1>1 DEF SendMessageToWebSocket, FromListener
<1>3. Message(made') \in DataSocket /\ FromListener(Message(made')) /\ Message(made').n = made'
  BY <1>1 DEF Message, DataSocket, FromListener
<1>4. /\ Len(blocked') = Len(blocked) + 1 /\ blocked'[Len(blocked) + 1] = Message(made')
      /\ \A i \in 1..Len(blocked) : blocked'[i] = blocked[i]
      /\ Len(blocked) \in Nat
  BY <1>1, <1>3, AppendSeq
<1>5. \A i \in 1..Len(blocked') : FromListener(blocked'[i]) <=> i = Len(blocked) + 1
  <2> SUFFICES ASSUME NEW i \in 1..Len(blocked')
               PROVE  FromListener(blocked'[i]) <=> i = Len(blocked) + 1
    OBVIOUS
  <2>1. CASE i = Len(blocked) + 1 BY <1>3, <1>4, <2>1
  <2>2. CASE i # Len(blocked) + 1
    <3>1. i \in 1..Len(blocked) BY <1>4, <2>2
    <3> QED BY <1>2, <1>4, <2>2, <3>1
  <2> QED BY <2>1, <2>2
<1>6. ClientInv'
  BY <1>3, <1>4, <1>5 DEF ClientInv, FromListener
<1>7. Queued' /\ ~Queued
  BY <1>2, <1>4, <1>5 DEF Queued, FromListener
<1>8. Offered' = Offered
  BY <1>1, <1>7 DEF Offered
<1>9. WireInv'
  BY <1>1, <1>8 DEF DeliveryInv, WireInv, Delivered, FromListener, NoData
<1> QED BY <1>6, <1>9 DEF DeliveryInv

\* A goroutine that asks the sender to leave offers no report.
LEMMA ExitKeeps ==
    ASSUME DeliveryInv, TypeInv, NEW g \in Checker, SendsExit(g)
    PROVE  DeliveryInv'
<1>1. /\ blocked' = Append(blocked, Exit(g)) /\ blocked \in Seq(DataSocket)
      /\ UNCHANGED <<proc, spc, taken, made, link, wire, received>>
  BY DEF SendsExit, sender, network, TypeInv, SenderTypes
<1>2. Exit(g) \in DataSocket /\ ~FromListener(Exit(g))
  BY DEF Exit, DataSocket, FromListener, Checker
<1>3. /\ Len(blocked') = Len(blocked) + 1 /\ blocked'[Len(blocked) + 1] = Exit(g)
      /\ \A i \in 1..Len(blocked) : blocked'[i] = blocked[i]
      /\ Len(blocked) \in Nat
  BY <1>1, <1>2, AppendSeq
<1>4. \A i \in 1..Len(blocked') : FromListener(blocked'[i]) => i \in 1..Len(blocked)
  <2> SUFFICES ASSUME NEW i \in 1..Len(blocked'), i \notin 1..Len(blocked)
               PROVE  ~FromListener(blocked'[i])
    OBVIOUS
  <2>1. i = Len(blocked) + 1 BY <1>3
  <2> QED BY <1>2, <1>3, <2>1
<1>5. Queued' <=> Queued
  <2>1. Queued => Queued'
    BY <1>3 DEF Queued, FromListener
  <2>2. Queued' => Queued
    BY <1>3, <1>4 DEF Queued, FromListener
  <2> QED BY <2>1, <2>2
<1>6. ClientInv'
  BY <1>1, <1>3, <1>4 DEF DeliveryInv, ClientInv, FromListener
<1>7. Offered' = Offered BY <1>1, <1>5 DEF Offered
<1>8. WireInv'
  BY <1>1, <1>7 DEF DeliveryInv, WireInv, Delivered, FromListener, NoData
<1> QED BY <1>6, <1>8 DEF DeliveryInv

\* The report that is taken is the next one, and no other is offered behind it.
LEMMA TakesKeeps == DeliveryInv /\ TypeInv /\ SenderTakes => DeliveryInv'
<1> SUFFICES ASSUME DeliveryInv, TypeInv, SenderTakes PROVE DeliveryInv' OBVIOUS
<1>1. /\ spc = "recv" /\ spc' = "lock" /\ taken' = Head(blocked) /\ blocked # <<>>
      /\ blocked' = Tail(blocked) /\ blocked \in Seq(DataSocket) /\ made \in Nat
      /\ UNCHANGED <<proc, made, link, wire, received>>
  BY DEF SenderTakes, network, TypeInv, SenderTypes
<1>2. /\ taken' = blocked[1] /\ 1 \in 1..Len(blocked) /\ Len(blocked') = Len(blocked) - 1
      /\ \A i \in 1..Len(blocked') : i + 1 \in 1..Len(blocked) /\ blocked'[i] = blocked[i + 1]
      /\ Len(blocked) \in Nat
  BY <1>1, TailSeq
<1>3. ClientInv'
  BY <1>1, <1>2 DEF DeliveryInv, ClientInv, FromListener
<1>4. taken = NoData /\ (link = "up" => Offered = Delivered + Len(wire))
  BY <1>1 DEF DeliveryInv, WireInv, FromListener, NoData
<1>5. CASE FromListener(blocked[1])
  <2>1. taken'.n = made /\ Queued
    BY <1>2, <1>5 DEF DeliveryInv, ClientInv, Queued
  <2>2. ~Queued'
    <3> SUFFICES ASSUME NEW i \in 1..Len(blocked'), FromListener(blocked'[i]) PROVE FALSE
      BY DEF Queued, FromListener
    <3>1. i + 1 \in 1..Len(blocked) /\ FromListener(blocked[i + 1]) BY <1>2
    <3>2. i + 1 = 1 BY <1>2, <1>5, <3>1 DEF DeliveryInv, ClientInv
    <3> QED BY <3>2
  <2>3. Offered' = made /\ Offered = made - 1
    BY <1>1, <2>1, <2>2 DEF Offered
  <2>4. link = "up" => Delivered \in Int /\ Len(wire) \in Nat
    BY DEF Delivered, TypeInv, NetworkTypes
  <2>5. link' = "up" => taken'.n = Delivered' + Len(wire') + 1
    BY <1>1, <1>4, <2>1, <2>3, <2>4 DEF Delivered
  <2>6. \A i \in 1..Len(wire') : wire'[i] = Delivered' + i
    BY <1>1 DEF DeliveryInv, WireInv, Delivered
  <2>7. FromListener(taken)' BY <1>2, <1>5 DEF FromListener
  <2> QED BY <1>1, <1>3, <2>1, <2>3, <2>5, <2>6, <2>7 DEF DeliveryInv, WireInv
<1>6. CASE ~FromListener(blocked[1])
  <2>1. Queued => Queued'
    <3> SUFFICES ASSUME NEW i \in 1..Len(blocked), FromListener(blocked[i]) PROVE Queued'
      BY DEF Queued
    <3>1. i # 1 BY <1>6
    <3>2. i - 1 \in 1..Len(blocked') /\ (i - 1) + 1 = i BY <1>2, <3>1
    <3>3. blocked'[i - 1] = blocked[i] BY <1>2, <3>2
    <3> QED BY <3>2, <3>3 DEF Queued, FromListener
  <2>2. Queued' => Queued
    BY <1>2 DEF Queued, FromListener
  <2>3. Offered' = Offered BY <1>1, <2>1, <2>2 DEF Offered
  <2>4. ~FromListener(taken)' BY <1>2, <1>6 DEF FromListener
  <2> QED BY <1>1, <1>3, <1>4, <2>3, <2>4 DEF DeliveryInv, WireInv, Delivered
<1> QED BY <1>5, <1>6

\* The report in hand is the next one on the wire.
LEMMA WritesKeeps == DeliveryInv /\ TypeInv /\ SenderWrites => DeliveryInv'
<1> SUFFICES ASSUME DeliveryInv, TypeInv, SenderWrites PROVE DeliveryInv' OBVIOUS
<1>1. /\ spc' = "recv" /\ taken' = NoData /\ FromListener(taken)
      /\ wire' = (IF link = "up" THEN Append(wire, taken.n) ELSE wire)
      /\ UNCHANGED <<proc, made, blocked, link, received>>
  BY DEF SenderWrites, SenderUnlocks, FromListener
<1>2. Offered' = Offered /\ ClientInv' BY <1>1, OfferedKept DEF DeliveryInv
<1>3. Delivered' = Delivered BY <1>1 DEF Delivered
<1>4. ~FromListener(taken)' BY <1>1 DEF FromListener, NoData
<1>5. CASE link = "up"
  <2>1. /\ wire \in Seq(Nat) /\ taken.n \in Nat /\ Delivered \in Nat
        /\ Offered = taken.n /\ taken.n = Delivered + Len(wire) + 1
    <3>1. received # <<>> /\ received \in Seq(Seq(Nat)) BY <1>5 DEF TypeInv, NetworkTypes
    <3>2. received[Len(received)] \in Seq(Nat) BY <3>1
    <3>3. Delivered \in Nat BY <3>2 DEF Delivered
    <3> QED BY <1>1, <1>5, <3>3 DEF TypeInv, SenderTypes, NetworkTypes, DataSocket, DeliveryInv, WireInv
  <2>2. /\ Len(wire') = Len(wire) + 1 /\ wire'[Len(wire) + 1] = taken.n /\ Len(wire) \in Nat
        /\ \A i \in 1..Len(wire) : wire'[i] = wire[i]
    BY <1>1, <1>5, <2>1, AppendSeq
  <2>3. \A i \in 1..Len(wire') : wire'[i] = Delivered' + i
    <3> SUFFICES ASSUME NEW i \in 1..Len(wire') PROVE wire'[i] = Delivered + i BY <1>3
    <3>1. CASE i = Len(wire) + 1 BY <2>1, <2>2, <3>1
    <3>2. CASE i # Len(wire) + 1
      <4>1. i \in 1..Len(wire) BY <2>2, <3>2
      <4> QED BY <2>2, <4>1 DEF DeliveryInv, WireInv
    <3> QED BY <3>1, <3>2
  <2>4. Offered' = Delivered' + Len(wire') BY <1>2, <1>3, <2>1, <2>2
  <2> QED BY <1>1, <1>2, <1>4, <2>3, <2>4 DEF DeliveryInv, WireInv
<1>6. CASE link # "up"
  BY <1>1, <1>2, <1>3, <1>4, <1>6 DEF DeliveryInv, WireInv
<1> QED BY <1>5, <1>6

\* The backend receives the next report.
LEMMA PeerKeeps ==
    ASSUME DeliveryInv, TypeInv, PeerReceives
    PROVE  /\ DeliveryInv'
           /\ received' = [received EXCEPT ![Len(received)] = Append(@, Len(@) + 1)]
<1>1. /\ wire # <<>> /\ wire' = Tail(wire) /\ wire \in Seq(Nat)
      /\ received' = [received EXCEPT ![Len(received)] = Append(@, Head(wire))]
      /\ received # <<>> /\ received \in Seq(Seq(Nat))
      /\ UNCHANGED <<proc, spc, taken, made, blocked, link>>
  BY DEF PeerReceives, process, sender, TypeInv, NetworkTypes
<1>2. /\ Head(wire) = wire[1] /\ 1 \in 1..Len(wire) /\ Len(wire') = Len(wire) - 1
      /\ \A i \in 1..Len(wire') : i + 1 \in 1..Len(wire) /\ wire'[i] = wire[i + 1]
      /\ Len(wire) \in Nat
  BY <1>1, TailSeq
<1>3. Len(received) \in 1..Len(received) /\ received[Len(received)] \in Seq(Nat)
  BY <1>1
<1>4. Delivered \in Nat BY <1>3 DEF Delivered
<1>5. Head(wire) = Delivered + 1 BY <1>2 DEF DeliveryInv, WireInv
<1>6. received' = [received EXCEPT ![Len(received)] = Append(@, Len(@) + 1)]
  BY <1>1, <1>5 DEF Delivered
<1>7. Delivered' = Delivered + 1
  <2> DEFINE r == Append(received[Len(received)], Head(wire))
  <2>1. r \in Seq(Nat) /\ Len(r) = Delivered + 1
    BY <1>3, <1>4, <1>5, AppendSeq DEF Delivered
  <2>2. Len(received') = Len(received) /\ received'[Len(received)] = r
    BY <1>1, <1>3, <2>1, ReplacedSeq
  <2> QED BY <2>1, <2>2 DEF Delivered
<1>8. Offered' = Offered /\ ClientInv' BY <1>1, OfferedKept DEF DeliveryInv
<1>9. \A i \in 1..Len(wire') : wire'[i] = Delivered' + i
  BY <1>2, <1>4, <1>7 DEF DeliveryInv, WireInv
<1>10. Delivered' + Len(wire') = Delivered + Len(wire)
  BY <1>2, <1>4, <1>7
<1>11. WireInv'
  BY <1>1, <1>8, <1>9, <1>10 DEF DeliveryInv, WireInv, FromListener, NoData
<1> QED BY <1>6, <1>8, <1>11 DEF DeliveryInv

\* Every step keeps what is delivered in order.
LEMMA NextDelivery == TypeInv /\ DeliveryInv /\ [Next]_vars => DeliveryInv'
<1> SUFFICES ASSUME TypeInv, DeliveryInv, [Next]_vars PROVE DeliveryInv' OBVIOUS
<1>1. CASE EntrypointRestarts \/ DialSucceeds \/ SenderTakes \/ SenderWrites
           \/ SendMessageToWebSocket \/ PeerReceives
  BY <1>1, RestartsKeeps, DialKeeps, TakesKeeps, WritesKeeps, ClientKeeps, PeerKeeps
<1>2. CASE \E g \in Checker : SendsExit(g)
  BY <1>2, ExitKeeps
<1>3. CASE SenderLocks
  <2>1. UNCHANGED <<taken, made, blocked, received, proc, link, wire>> /\ spc' = "act"
    BY <1>3 DEF SenderLocks, network
  <2>2. Offered' = Offered /\ ClientInv' BY <2>1, OfferedKept DEF DeliveryInv
  <2> QED BY <2>1, <2>2 DEF DeliveryInv, WireInv, Delivered, FromListener, NoData
<1>4. CASE EntrypointStops \/ SenderFails \/ SenderTakesExit
  <2>1. /\ UNCHANGED <<spc, taken, made, blocked, received>> /\ proc' # "running"
        /\ link' # "up" /\ (wire' = wire \/ wire' = <<>>)
    BY <1>4 DEF EntrypointStops, SenderFails, SenderTakesExit, ExitProcess, process, sender, network,
       DeliveryInv, WireInv
  <2> QED BY <2>1, LosesKeeps
<1>5. CASE DialFails
  <2>1. UNCHANGED <<spc, taken, made, blocked, received>> /\ proc = "running"
    BY <1>5 DEF DialFails, sender
  <2>2. UNCHANGED <<proc, link, wire>> \/ (link' # "up" /\ wire' = <<>>)
    BY <1>5 DEF DialFails, ExitProcess
  <2> QED BY <2>1, <2>2, LosesKeeps
<1>6. CASE PeerLost \/ \E g \in Checker : Closes(g)
  <2>1. /\ UNCHANGED <<spc, taken, made, blocked, received, proc>>
        /\ link' # "up" /\ (wire' = wire \/ wire' = <<>>)
    BY <1>6 DEF PeerLost, Closes, process, sender
  <2> QED BY <2>1, LosesKeeps
<1>7. CASE \/ \E g \in Checker : StopsAtEnd(g) \/ Leaves(g)
           \/ Pings \/ TestsCounter \/ CounterRead \/ CounterWritten \/ ReadsFrame \/ ReadFails
           \/ PeerSends \/ UNCHANGED vars
  <2>1. UNCHANGED <<spc, taken, made, blocked, received, proc, link, wire>>
    BY <1>7 DEF StopsAtEnd, Leaves, Pings, TestsCounter, CounterRead, CounterWritten, ReadsFrame,
       ReadFails, PeerSends, vars, process, sender, network
  <2> QED BY <2>1, LosesKeeps
<1> QED BY <1>1, <1>2, <1>3, <1>4, <1>5, <1>6, <1>7
        DEF Next, EntrypointStep, Dial, SenderStep, CheckerStep

\* A step is a connection, a delivery of the next report, or nothing that the
\* backend sees.
LEMMA NextDelivers ==
    TypeInv /\ DeliveryInv /\ [Next]_vars => [Delivery!Next]_received
<1> SUFFICES ASSUME TypeInv, DeliveryInv, [Next]_vars PROVE [Delivery!Next]_received OBVIOUS
<1>1. CASE DialSucceeds
  BY <1>1 DEF DialSucceeds, Delivery!Next, Delivery!Connect
<1>2. CASE PeerReceives
  <2>1. received # <<>> BY <1>2 DEF PeerReceives, TypeInv, NetworkTypes
  <2>2. received' = [received EXCEPT ![Len(received)] = Append(@, Len(@) + 1)]
    BY <1>2, PeerKeeps
  <2> QED BY <2>1, <2>2 DEF Delivery!Next, Delivery!Deliver
<1>3. CASE ~(DialSucceeds \/ PeerReceives)
  <2>1. UNCHANGED received
    BY <1>3 DEF Next, EntrypointStep, EntrypointRestarts, EntrypointStops, Dial, DialFails,
       SenderStep, SenderTakes, SenderLocks, SenderWrites, SenderFails, SenderTakesExit,
       SendMessageToWebSocket, CheckerStep, StopsAtEnd, Closes, SendsExit, Leaves, Pings,
       TestsCounter, CounterRead, CounterWritten, ReadsFrame, ReadFails, PeerLost, PeerSends,
       vars, network
  <2> QED BY <2>1
<1> QED BY <1>1, <1>2, <1>3

\* The handler implements ReportDelivery: whatever fails and restarts, every
\* connection gets the reports of one process from the first one on and
\* without a gap, and a replaced connection gets no more.
THEOREM DeliveryIsImplemented == Spec => DeliveryImplemented
<1>1. Init => Delivery!Init
  BY DEF Init, Delivery!Init
<1>2. Spec => [](TypeInv /\ DeliveryInv)
  BY InitTypes, NextTyped, InitDelivery, NextDelivery, PTL DEF Spec
<1> QED BY <1>1, <1>2, NextDelivers, PTL DEF Spec, DeliveryImplemented, Delivery!Spec

-----------------------------------------------------------------------------
(* What ReportDelivery promises of a connection.                            *)

DeliveryTyped == received \in Seq(Seq(Nat)) /\ Delivery!Consecutive

\* A step of ReportDelivery keeps the reports of every connection consecutive.
LEMMA DeliveryKeepsConsecutive ==
    DeliveryTyped /\ [Delivery!Next]_received => DeliveryTyped'
<1> SUFFICES ASSUME DeliveryTyped, [Delivery!Next]_received PROVE DeliveryTyped' OBVIOUS
<1>0. received \in Seq(Seq(Nat)) /\ <<>> \in Seq(Nat)
      /\ \A c \in 1..Len(received) : \A i \in 1..Len(received[c]) : received[c][i] = i
  BY DEF DeliveryTyped, Delivery!Consecutive
<1>1. /\ received' \in Seq(Seq(Nat))
      /\ \A c \in 1..Len(received') : \A i \in 1..Len(received'[c]) : received'[c][i] = i
  <2>1. CASE UNCHANGED received BY <1>0, <2>1
  <2>2. CASE Delivery!Connect
    <3>1. /\ received' \in Seq(Seq(Nat)) /\ Len(received') = Len(received) + 1 /\ Len(received) \in Nat
          /\ \A c \in 1..Len(received) : received'[c] = received[c]
          /\ received'[Len(received) + 1] = <<>>
      BY <1>0, <2>2, AppendSeq DEF Delivery!Connect
    <3> SUFFICES ASSUME NEW c \in 1..Len(received'), NEW i \in 1..Len(received'[c])
                 PROVE  received'[c][i] = i
      BY <3>1
    <3>2. c # Len(received) + 1 BY <3>1
    <3>3. c \in 1..Len(received) BY <3>1, <3>2
    <3> QED BY <1>0, <3>1, <3>3
  <2>3. CASE Delivery!Deliver
    <3> DEFINE n == Len(received)
               q == received[n]
               r == Append(q, Len(q) + 1)
    <3>1. n \in 1..n /\ q \in Seq(Nat) /\ Len(q) \in Nat
      BY <1>0, <2>3 DEF Delivery!Deliver
    <3>2. /\ r \in Seq(Nat) /\ Len(r) = Len(q) + 1 /\ r[Len(q) + 1] = Len(q) + 1
          /\ \A i \in 1..Len(q) : r[i] = q[i]
      BY <3>1, AppendSeq
    <3>3. /\ received' \in Seq(Seq(Nat)) /\ Len(received') = n /\ received'[n] = r
          /\ \A c \in 1..n : c # n => received'[c] = received[c]
      BY <1>0, <2>3, <3>1, <3>2, ReplacedSeq DEF Delivery!Deliver
    <3> SUFFICES ASSUME NEW c \in 1..Len(received'), NEW i \in 1..Len(received'[c])
                 PROVE  received'[c][i] = i
      BY <3>3
    <3>4. CASE c # n BY <1>0, <3>3, <3>4
    <3>5. CASE c = n
      <4>1. CASE i = Len(q) + 1 BY <3>2, <3>3, <3>5, <4>1
      <4>2. CASE i # Len(q) + 1
        <5>1. i \in 1..Len(q) BY <3>1, <3>2, <3>3, <3>5, <4>2
        <5> QED BY <1>0, <3>1, <3>2, <3>3, <3>5, <5>1
      <4> QED BY <4>1, <4>2
    <3> QED BY <3>4, <3>5
  <2> QED BY <2>1, <2>2, <2>3 DEF Delivery!Next
<1>2. DOMAIN received' = 1..Len(received')
      /\ \A c \in 1..Len(received') : DOMAIN received'[c] = 1..Len(received'[c])
  <2>1. \A c \in 1..Len(received') : received'[c] \in Seq(Nat) BY <1>1
  <2> QED BY <1>1, <2>1
<1> QED BY <1>1, <1>2 DEF DeliveryTyped, Delivery!Consecutive

\* Report i that a connection received is the i-th its process prepared, on
\* every connection and at any time.
THEOREM ReceivedInOrder == Spec => []Delivery!Consecutive
<1>1. Delivery!Init => DeliveryTyped
  BY DEF Delivery!Init, DeliveryTyped, Delivery!Consecutive
<1>2. Delivery!Spec => []DeliveryTyped
  BY <1>1, DeliveryKeepsConsecutive, PTL DEF Delivery!Spec
<1>3. DeliveryTyped => Delivery!Consecutive
  BY DEF DeliveryTyped
<1> QED BY <1>2, <1>3, DeliveryIsImplemented, PTL DEF DeliveryImplemented
=============================================================================
