---------------------------- MODULE ClusterMirror ----------------------------
(***************************************************************************)
(* What a reader of the reports may rely on for the objects of one kind:   *)
(* what it was told of a name is something that was true of that name, it  *)
(* is never followed by something older, and it is forgotten only when a   *)
(* first report starts over, but for what was not sent before that.        *)
(***************************************************************************)
EXTENDS Integers

CONSTANT Names

VARIABLES
    now,    \* revision of the last change of each name in the cluster
    told    \* revision of what was last reported of it, 0 for nothing

Nothing == [n \in Names |-> 0]

Init == now \in [Names -> Nat] /\ told = Nothing

Change(n) ==
    /\ now' = [now EXCEPT ![n] = now'[n]]
    /\ now'[n] > now[n]
    /\ UNCHANGED told

Tell(n) ==
    /\ told' = [told EXCEPT ![n] = told'[n]]
    /\ told'[n] \in (told[n] + 1)..now[n]
    /\ UNCHANGED now

StartOver ==
    /\ told' \in [Names -> Nat] /\ \A n \in Names : told'[n] \in {told[n], 0}
    /\ UNCHANGED now

Next == StartOver \/ \E n \in Names : Change(n) \/ Tell(n)

Spec == Init /\ [][Next]_<<now, told>>
=============================================================================
