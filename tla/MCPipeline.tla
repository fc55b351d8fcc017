----------------------------- MODULE MCPipeline -----------------------------
(* Instances of ReportPipeline for TLC.                                    *)
EXTENDS ReportPipeline

\* Pods and cron jobs share the microservice lists; the node watcher only
\* supplies the server version.
PodWatchers == {"node", "pod", "cronjob"}
PodEvents == [w \in PodWatchers |-> CASE w = "pod" -> 2 [] w = "cronjob" -> 1 [] OTHER -> 0]

\* Pods alone: every list has one writer.
PodOnly == {"node", "pod"}
PodOnlyEvents == [w \in PodOnly |-> 1]

\* Two watchers that inform before they add.
ResourceWatchers == {"node", "service"}
ResourceEvents == [w \in ResourceWatchers |-> IF w = "service" THEN 3 ELSE 1]
=============================================================================
