--------------------------- MODULE MCRequestTasks ---------------------------
(* Instances of RequestTasks for TLC.                                       *)
EXTENDS RequestTasks, TLC

\* A probe, the same probe with another spec, and none.
MCProbeSets == {"a" :> 1, "a" :> 2, <<>>}

\* Two containers with a volume each run one image on one network; nothing uses
\* the other image, volume and network.
MCImageOf == [c \in Containers |-> "i1"]
MCNetworkOf == [c \in Containers |-> "n1"]
MCVolumeOf == [c \in Containers |-> IF c = "c1" THEN "v1" ELSE "v2"]
=============================================================================
