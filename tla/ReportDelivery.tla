---------------------------- MODULE ReportDelivery ----------------------------
(***************************************************************************)
(* What the backend may rely on: on every connection of a collector it     *)
(* receives a first report and then the following ones, none left out,     *)
(* none twice, and a connection that was replaced stays as it is.          *)
(***************************************************************************)
EXTENDS Integers, Sequences

VARIABLE received   \* per connection, the numbers of the reports received

Init == received = <<>>

Connect == received' = Append(received, <<>>)

Deliver ==
    /\ received # <<>>
    /\ LET c == Len(received)
       IN  received' = [received EXCEPT ![c] = Append(@, Len(@) + 1)]

Next == Connect \/ Deliver

Spec == Init /\ [][Next]_received

\* Report i of a connection is the i-th one the collector prepared.
Consecutive == \A c \in DOMAIN received : \A i \in DOMAIN received[c] : received[c][i] = i
=============================================================================
