----------------------------- MODULE MCPodWatch -----------------------------
(***************************************************************************)
(* Instances of PodWatch.  In the first, every pod has a name of its own,  *)
(* as the pods of a deployment or of a cron job's jobs have.  In the       *)
(* second, a stateful set uses its names again.                            *)
(***************************************************************************)
EXTENDS PodWatch, TLC

CONSTANTS p1, p2, p3

MCPods == {p1, p2, p3}
MCOwners == {"dep", "cron"}
MCUnique == [p \in MCPods |-> p]
MCOwnerOf == [p \in MCPods |-> IF p = p3 THEN "cron" ELSE "dep"]
MCKind == [o \in MCOwners |-> IF o = "dep" THEN "Deployment" ELSE "CronJob"]

SetOwners == {"set"}
SetName == [p \in MCPods |-> IF p = p3 THEN "set-1" ELSE "set-0"]
SetOwnerOf == [p \in MCPods |-> "set"]
SetKind == [o \in SetOwners |-> "StatefulSet"]

\* The pods p1 and p2 have the same owner, and names of their own or the same.
SamePods == Permutations({p1, p2})
=============================================================================
