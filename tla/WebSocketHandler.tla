--------------------------- MODULE WebSocketHandler ---------------------------
(***************************************************************************)
(* The connection to the backend (watch/websocket.go): the main goroutine  *)
(* dials and then sends what it takes from the channel wsh.data; a ping    *)
(* and a read goroutine watch the connection and, when it is dead, close   *)
(* it and ask the sender to leave with exit code 4, on which               *)
(* kollector-entrypoint.sh starts a fresh process.  ListenerAndSender is   *)
(* reduced to a client that sends reports 1, 2, ...; report 1 is the one   *)
(* that is marked as first.                                                *)
(***************************************************************************)
EXTENDS Integers, Sequences

CONSTANTS
    Tries,          \* dials before the process gives up (60 in the code)
    MaxReports,     \* bound: reports a process sends
    MaxLives,       \* bound: processes the entrypoint starts
    MaxInbound      \* bound: frames from the backend not read yet

ASSUME TriesAssumption == Tries \in Nat \ {0}
ASSUME BoundsAssumption == MaxReports \in Nat /\ MaxLives \in Nat /\ MaxInbound \in Nat

VARIABLES
    proc,       \* "running", "exited" (the entrypoint looks at code) or "stopped"
    code,       \* exit code of the last process
    lives,      \* processes started so far
    spc,        \* where the main goroutine (the sender) is
    tries,      \* failed dials of this process
    taken,      \* DataSocket the sender works on
    made,       \* reports ListenerAndSender sent or is sending
    blocked,    \* DataSockets whose senders block on wsh.data, first come first
    mutex,      \* wsh.mutex is held
    cpc,        \* where the ping and the read goroutine are
    end,        \* shared by the two: stop
    counter,    \* shared by the two: rounds since the last ping or pong
    counted,    \* what the read half of counter++ saw
    link,       \* the connection: "none", "up", "down" (peer lost) or "closed"
    wire,       \* reports written and not yet received
    inbound,    \* frames from the backend not yet read
    received    \* per connection, the reports the backend received

sender == <<spc, taken, mutex>>
checkers == <<cpc, end, counter, counted>>
process == <<sender, checkers, tries, made, blocked>>
network == <<link, wire, inbound, received>>
vars == <<proc, code, lives, process, network>>

Checker == {"ping", "reader"}

\* DataSocket: a MESSAGE with a report, or the EXIT of a checker.
Message(n) == [from |-> "listener", n |-> n]
Exit(g) == [from |-> g, n |-> 0]
NoData == [from |-> "none", n |-> 0]
DataSocket == [from : {"none", "listener"} \cup Checker, n : Nat]

-----------------------------------------------------------------------------
(* The process and its entrypoint.                                         *)

CheckersOff == [g \in Checker |-> "off"]

\* os.Exit: every goroutine is gone and the kernel drops the connection.
ExitProcess(c) ==
    /\ proc' = "exited" /\ code' = c
    /\ link' = "none" /\ wire' = <<>> /\ inbound' = <<>>

\* kollector-entrypoint.sh starts the process again on exit code 4 only.
EntrypointRestarts ==
    /\ proc = "exited" /\ code = 4
    /\ lives < MaxLives
    /\ proc' = "running" /\ lives' = lives + 1
    /\ spc' = "dial" /\ tries' = 0 /\ taken' = NoData /\ mutex' = FALSE
    /\ made' = 0 /\ blocked' = <<>>
    /\ cpc' = CheckersOff /\ end' = FALSE /\ counter' = 0 /\ counted' = 0
    /\ UNCHANGED <<code, network>>

EntrypointStops ==
    /\ proc = "exited" /\ code # 4
    /\ proc' = "stopped"
    /\ UNCHANGED <<code, lives, process, network>>

-----------------------------------------------------------------------------
(* The sender: SendReportRoutine and handleSendReportRoutine.               *)

\* A dial that succeeds also starts the ping and the read goroutine.
DialSucceeds ==
    /\ proc = "running" /\ spc = "dial"
    /\ link' = "up" /\ wire' = <<>> /\ inbound' = <<>>
    /\ received' = Append(received, <<>>)
    /\ cpc' = [g \in Checker |-> "top"]
    /\ end' = FALSE /\ counter' = 0
    /\ spc' = "recv"
    /\ UNCHANGED <<proc, code, lives, tries, taken, made, blocked, mutex, counted>>

\* After the last try SendReportRoutine returns and main is Fatal.
DialFails ==
    /\ proc = "running" /\ spc = "dial"
    /\ tries' = tries + 1
    /\ IF tries' < Tries THEN UNCHANGED <<proc, code, link, wire, inbound>> ELSE ExitProcess(1)
    /\ UNCHANGED <<lives, sender, checkers, made, blocked, received>>

\* data := <-wsh.data: the one that sent it goes on.
SenderTakes ==
    LET d == Head(blocked)
    IN  /\ proc = "running" /\ spc = "recv" /\ blocked # <<>>
        /\ taken' = d
        /\ blocked' = Tail(blocked)
        /\ cpc' = [g \in Checker |-> IF g = d.from THEN "sent" ELSE cpc[g]]
        /\ spc' = "lock"
        /\ UNCHANGED <<proc, code, lives, tries, made, mutex, end, counter, counted, network>>

SenderLocks ==
    /\ proc = "running" /\ spc = "lock"
    /\ ~mutex
    /\ mutex' = TRUE
    /\ spc' = "act"
    /\ UNCHANGED <<proc, code, lives, tries, taken, made, blocked, checkers, network>>

SenderUnlocks(pc) == mutex' = FALSE /\ spc' = pc /\ taken' = NoData

\* Faulty variant: an early continue leaves the mutex locked.
SenderWritesKeepsMutex ==
    /\ proc = "running" /\ spc = "act" /\ taken.from = "listener"
    /\ link \in {"up", "down"}
    /\ wire' = IF link = "up" THEN Append(wire, taken.n) ELSE wire
    /\ spc' = "recv" /\ taken' = NoData
    /\ UNCHANGED <<proc, code, lives, mutex, tries, made, blocked, checkers, link, inbound, received>>

\* conn.WriteMessage returns nil: the report is on its way or, when the peer
\* is lost, in a buffer that goes nowhere.
SenderWrites ==
    /\ proc = "running" /\ spc = "act" /\ taken.from = "listener"
    /\ link \in {"up", "down"}
    /\ wire' = IF link = "up" THEN Append(wire, taken.n) ELSE wire
    /\ SenderUnlocks("recv")
    /\ UNCHANGED <<proc, code, lives, tries, made, blocked, checkers, link, inbound, received>>

\* Faulty variant: the report is dropped and the sender dials again.
SenderFailsAndRedials ==
    /\ proc = "running" /\ spc = "act" /\ taken.from = "listener"
    /\ link \in {"down", "closed"}
    /\ SenderUnlocks("dial")
    /\ UNCHANGED <<proc, code, lives, tries, made, blocked, checkers, network>>

\* conn.WriteMessage returns an error.
SenderFails ==
    /\ proc = "running" /\ spc = "act" /\ taken.from = "listener"
    /\ link \in {"down", "closed"}
    /\ ExitProcess(4)
    /\ UNCHANGED <<lives, process, received>>

SenderTakesExit ==
    /\ proc = "running" /\ spc = "act" /\ taken.from \in Checker
    /\ ExitProcess(4)
    /\ UNCHANGED <<lives, process, received>>

-----------------------------------------------------------------------------
(* The client: ListenerAndSender sends one report at a time.                *)

SendMessageToWebSocket ==
    /\ proc = "running"
    /\ \A i \in DOMAIN blocked : blocked[i].from # "listener"
    /\ made < MaxReports
    /\ made' = made + 1
    /\ blocked' = Append(blocked, Message(made'))
    /\ UNCHANGED <<proc, code, lives, sender, checkers, tries, network>>

-----------------------------------------------------------------------------
(* The ping and the read goroutine of setPingPongHandler.                   *)

GotoC(g, pc) == cpc' = [cpc EXCEPT ![g] = pc]
At(g, pc) == proc = "running" /\ cpc[g] = pc

\* for { if end { break } ...
StopsAtEnd(g) ==
    /\ At(g, "top") /\ end
    /\ GotoC(g, "off")
    /\ UNCHANGED <<proc, code, lives, sender, end, counter, counted, tries, made, blocked, network>>

\* conn.WriteControl: a backend that is there may answer with a pong.
Pings ==
    /\ At("ping", "top") /\ ~end
    /\ \/ inbound' = inbound
       \/ /\ link = "up" /\ Len(inbound) < MaxInbound
          /\ inbound' = Append(inbound, "control")
    /\ GotoC("ping", "test")
    /\ UNCHANGED <<proc, code, lives, sender, end, counter, counted, tries, made, blocked, link, wire, received>>

\* Faulty variant: one silent round more.
TestsCounterLate ==
    /\ At("ping", "test")
    /\ GotoC("ping", CASE counter <= 3 -> "sleep" [] counter > 3 /\ end -> "off" [] OTHER -> "close")
    /\ UNCHANGED <<proc, code, lives, sender, end, counter, counted, tries, made, blocked, network>>

TestsCounter ==
    /\ At("ping", "test")
    /\ GotoC("ping", CASE counter <= 2 -> "sleep" [] counter > 2 /\ end -> "off" [] OTHER -> "close")
    /\ UNCHANGED <<proc, code, lives, sender, end, counter, counted, tries, made, blocked, network>>

\* time.Sleep(timeout), and counter++ in two steps: nothing guards counter.
CounterRead ==
    /\ At("ping", "sleep")
    /\ counted' = counter
    /\ GotoC("ping", "count")
    /\ UNCHANGED <<proc, code, lives, sender, end, counter, tries, made, blocked, network>>

CounterWritten ==
    /\ At("ping", "count")
    /\ counter' = counted + 1
    /\ GotoC("ping", "top")
    /\ UNCHANGED <<proc, code, lives, sender, end, counted, tries, made, blocked, network>>

\* conn.ReadMessage: a control frame resets the counter and is not returned; a
\* data frame is, and the goroutine sleeps and starts over.
ReadsFrame ==
    /\ At("reader", "top") /\ ~end
    /\ link = "up" /\ inbound # <<>>
    /\ inbound' = Tail(inbound)
    /\ counter' = IF Head(inbound) = "control" THEN 0 ELSE counter
    /\ UNCHANGED <<proc, code, lives, sender, cpc, end, counted, tries, made, blocked, link, wire, received>>

\* conn.ReadMessage returns an error.
ReadFails ==
    /\ At("reader", "top") /\ ~end
    /\ link \in {"down", "closed"}
    /\ end' = TRUE
    /\ GotoC("reader", "close")
    /\ UNCHANGED <<proc, code, lives, sender, counter, counted, tries, made, blocked, network>>

\* Faulty variant: the mutex is released only after the EXIT was sent.
ClosesDeferringUnlock(g) ==
    /\ At(g, "close")
    /\ ~mutex
    /\ mutex' = TRUE
    /\ link' = "closed" /\ inbound' = <<>>
    /\ GotoC(g, "exit")
    /\ UNCHANGED <<proc, code, lives, spc, taken, end, counter, counted, tries, made, blocked, wire, received>>

\* Faulty variant: the connection is closed without the mutex.
ClosesUnlocked(g) ==
    /\ At(g, "close")
    /\ link' = "closed" /\ inbound' = <<>>
    /\ GotoC(g, "exit")
    /\ UNCHANGED <<proc, code, lives, sender, end, counter, counted, tries, made, blocked, wire, received>>

\* closeConnection: Lock, Close, Unlock; then the EXIT.
Closes(g) ==
    /\ At(g, "close")
    /\ ~mutex
    /\ link' = "closed" /\ inbound' = <<>>
    /\ GotoC(g, "exit")
    /\ UNCHANGED <<proc, code, lives, sender, end, counter, counted, tries, made, blocked, wire, received>>

SendsExit(g) ==
    /\ At(g, "exit")
    /\ blocked' = Append(blocked, Exit(g))
    /\ GotoC(g, "blocked")
    /\ UNCHANGED <<proc, code, lives, sender, end, counter, counted, tries, made, network>>

Leaves(g) ==
    /\ At(g, "sent")
    /\ end' = TRUE
    /\ GotoC(g, "off")
    /\ UNCHANGED <<proc, code, lives, sender, counter, counted, tries, made, blocked, network>>

CheckerStep(g) ==
    \/ StopsAtEnd(g) \/ Closes(g) \/ SendsExit(g) \/ Leaves(g)
    \/ g = "ping" /\ (Pings \/ TestsCounter \/ CounterRead \/ CounterWritten)
    \/ g = "reader" /\ ReadsFrame

-----------------------------------------------------------------------------
(* The network and the backend.                                             *)

PeerReceives ==
    /\ wire # <<>>
    /\ received' = [received EXCEPT ![Len(received)] = Append(@, Head(wire))]
    /\ wire' = Tail(wire)
    /\ UNCHANGED <<proc, code, lives, process, link, inbound>>

PeerLost ==
    /\ link = "up"
    /\ link' = "down" /\ wire' = <<>> /\ inbound' = <<>>
    /\ UNCHANGED <<proc, code, lives, process, received>>

\* The backend sends data or a ping of its own.
PeerSends ==
    /\ link = "up" /\ Len(inbound) < MaxInbound
    /\ \E frame \in {"control", "data"} : inbound' = Append(inbound, frame)
    /\ UNCHANGED <<proc, code, lives, process, link, wire, received>>

-----------------------------------------------------------------------------

Init ==
    /\ proc = "running" /\ code = 0 /\ lives = 1
    /\ spc = "dial" /\ tries = 0 /\ taken = NoData /\ mutex = FALSE
    /\ made = 0 /\ blocked = <<>>
    /\ cpc = CheckersOff /\ end = FALSE /\ counter = 0 /\ counted = 0
    /\ link = "none" /\ wire = <<>> /\ inbound = <<>>
    /\ received = <<>>

Dial == DialSucceeds \/ DialFails
SenderStep == SenderTakes \/ SenderLocks \/ SenderWrites \/ SenderFails \/ SenderTakesExit
EntrypointStep == EntrypointRestarts \/ EntrypointStops

Next ==
    \/ EntrypointStep
    \/ Dial \/ SenderStep
    \/ SendMessageToWebSocket
    \/ \E g \in Checker : CheckerStep(g)
    \/ ReadFails
    \/ PeerReceives \/ PeerLost \/ PeerSends

Spec == Init /\ [][Next]_vars

\* A goroutine that can go on does: the sender takes what is offered, writes
\* return and are delivered.  Only the read of a dead connection need not
\* return: the kernel may not notice that the peer is lost.
Fairness ==
    /\ WF_vars(EntrypointStep) /\ WF_vars(Dial) /\ WF_vars(SenderStep)
    /\ \A g \in Checker : WF_vars(CheckerStep(g))
    /\ WF_vars(PeerReceives)

FairSpec == Spec /\ Fairness

-----------------------------------------------------------------------------
(* Properties.                                                              *)

\* Every variable has its type, and the counter of silent rounds stays within
\* the three after which the ping goroutine closes the connection.
TypeOK ==
    /\ proc \in {"running", "exited", "stopped"} /\ code \in {0, 1, 4} /\ lives \in Nat
    /\ spc \in {"dial", "recv", "lock", "act"} /\ tries \in 0..Tries
    /\ taken \in DataSocket /\ made \in Nat /\ mutex \in BOOLEAN
    /\ blocked \in Seq(DataSocket)
    /\ cpc \in [Checker -> {"off", "top", "test", "sleep", "count", "close", "exit", "blocked", "sent"}]
    /\ end \in BOOLEAN /\ counter \in 0..3 /\ counted \in 0..2
    /\ link \in {"none", "up", "down", "closed"}
    /\ wire \in Seq(Nat) /\ inbound \in Seq({"control", "data"})
    /\ received \in Seq(Seq(Nat))

\* The backend sees on every connection the reports of one process, from its
\* first report on and without a gap: a report that could not be written is
\* never followed by the next one, on this connection or another.
Delivery == INSTANCE ReportDelivery WITH received <- received
DeliveryImplemented == Delivery!Spec

\* A connection is not closed under a report that is being written.
NoCloseDuringWrite == [][link' = "closed" => spc # "act" \/ link = "closed"]_vars

\* A process with a dead connection ends, whoever notices it first: the
\* sender, the ping or the read goroutine, two of them at once included.
DeadConnectionEndsProcess == link \in {"down", "closed"} ~> proc # "running"

\* A report that ListenerAndSender hands over arrives or the process ends (and
\* the next one starts over with a first report): it is not silently dropped.
ReportArrivesOrProcessEnds ==
    \A n \in 1..MaxReports :
        made >= n ~> \/ proc # "running"
                     \/ received # <<>> /\ Len(received[Len(received)]) >= n
=============================================================================
