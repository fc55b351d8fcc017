------------------------------ MODULE MCRecovery ------------------------------
(***************************************************************************)
(* Instances of ListenerRecovery.  The node and the pod watcher have the   *)
(* events: one informs before it adds, the other adds before it informs.   *)
(* The secret watcher only registers, and races the others at that.        *)
(***************************************************************************)
EXTENDS ListenerRecovery

MCWatchers == {"node", "pod", "secret"}
MCLoads == {[w \in MCWatchers |-> IF w = "secret" THEN 0 ELSE 1]}
MCTwo == {"node", "pod"}
MCTwoLoads == {[w \in MCTwo |-> 1]}
=============================================================================
