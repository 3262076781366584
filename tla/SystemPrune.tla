---------------------------- MODULE SystemPrune ----------------------------
(***************************************************************************)
(* docker system prune -a (docker.rs): a preview built from `docker system *)
(* df', and the prune itself, which removes stopped containers first and   *)
(* then what nothing uses any more: networks, volumes if asked for, images *)
(* and the build cache.  Containers stop and start in between.             *)
(***************************************************************************)
EXTENDS Outgoing

CONSTANTS
    Containers,
    Images,
    Volumes,
    Networks,  \* those docker prunes: its own three are not among them
    Cache,     \* the build cache
    ImageOf,   \* the image each container runs
    VolumeOf,  \* the volume it mounts
    NetworkOf, \* the network it is attached to
    MaxChanges \* bound: containers started or stopped, before the preview and since

DockerAssumption ==
    /\ ImageOf \in [Containers -> Images] /\ VolumeOf \in [Containers -> Volumes]
    /\ NetworkOf \in [Containers -> Networks]
    /\ MaxChanges \in Nat

VARIABLES
    container, \* "running", "exited" or "removed"
    kept,      \* what docker still has besides containers
    preview,   \* what the preview lists
    listed,    \* history: it was made of what docker said
    atPreview, \* history: the containers when it was taken
    prune,     \* "idle", "shown", the stage of docker, "responding", "done"
    withVolumes, \* prune_volumes, of the preview and of the prune
    removed,   \* what the prune has removed
    changes    \* changes of containers, before the preview and since

task == <<container, kept, preview, listed, atPreview, prune, withVolumes, removed,
          changes>>

Resources == Images \cup Volumes \cup Networks \cup Cache
Stages == {"containers", "networks", "volumes", "images", "cache"}

Init ==
    /\ container = [c \in Containers |-> "running"]
    /\ kept = Resources
    /\ preview = {} /\ listed = FALSE /\ atPreview = container
    /\ prune = "idle" /\ withVolumes = FALSE
    /\ removed = {}
    /\ changes = 0

Idle == prune = "idle"

Stopped == {c \in Containers : container[c] = "exited"}

\* What some container, running or stopped, refers to.
Used ==
    UNION {{ImageOf[c], VolumeOf[c], NetworkOf[c]} :
              c \in {d \in Containers : container[d] # "removed"}}

-----------------------------------------------------------------------------

\* A container is stopped or started by somebody else.
Change(c) ==
    /\ changes < MaxChanges
    /\ changes' = changes + 1
    /\ \/ container[c] = "running" /\ container' = [container EXCEPT ![c] = "exited"]
       \/ container[c] = "exited" /\ container' = [container EXCEPT ![c] = "running"]
    /\ UNCHANGED <<kept, preview, listed, atPreview, prune, withVolumes, removed, outgoing>>

\* Mutant: volumes are not listed though they were asked for.
Listed_unlinked(volumes) == Stopped \cup (Images \ Used)

\* Images with no container, stopped containers, volumes with no link.  docker
\* lists its build cache too, and no networks; the preview takes neither.
Listed(volumes) ==
    Stopped \cup (Images \ Used) \cup (IF volumes THEN Volumes \ Used ELSE {})

\* docker fails, or what it says does not parse: the preview is empty, and in the
\* second case a success.
Preview(volumes, said) ==
    /\ Idle
    /\ withVolumes' = volumes
    /\ atPreview' = container
    /\ listed' = said
    /\ preview' = IF said THEN Listed(volumes) ELSE {}
    /\ prune' = "shown"
    /\ Send([type |-> "preview"])
    /\ changes' = 0
    /\ UNCHANGED <<container, kept, removed>>

\* The operator confirms what the preview showed.
Request ==
    /\ prune = "shown"
    /\ prune' = "containers"
    /\ UNCHANGED <<container, kept, preview, listed, atPreview, withVolumes, removed,
                   changes, outgoing>>

PruneContainers ==
    /\ prune = "containers"
    /\ prune' = "networks"
    /\ removed' = removed \cup Stopped
    /\ container' = [c \in Containers |->
          IF container[c] = "exited" THEN "removed" ELSE container[c]]
    /\ UNCHANGED <<kept, preview, listed, atPreview, withVolumes, changes, outgoing>>

\* A stage of the prune: what nothing uses any more of a set.
RemoveUnused(stage, set, next) ==
    /\ prune = stage
    /\ prune' = next
    /\ removed' = removed \cup (kept \cap (set \ Used))
    /\ kept' = kept \ (set \ Used)
    /\ UNCHANGED <<container, preview, listed, atPreview, withVolumes, changes, outgoing>>

PruneNetworks == RemoveUnused("networks", Networks, "volumes")

\* Mutant: --volumes is passed whether or not it was asked for.
PruneVolumes_always == RemoveUnused("volumes", Volumes, "images")

PruneVolumes == RemoveUnused("volumes", IF withVolumes THEN Volumes ELSE {}, "images")

PruneImages == RemoveUnused("images", Images, "cache")

PruneCache == RemoveUnused("cache", Cache, "responding")

\* docker fails: what it has removed so far is in the response.
PruneFails ==
    /\ prune \in Stages
    /\ prune' = "responding"
    /\ UNCHANGED <<container, kept, preview, listed, atPreview, withVolumes, removed,
                   changes, outgoing>>

Respond ==
    /\ prune = "responding"
    /\ prune' = "done"
    /\ Send([type |-> "pruned"])
    /\ UNCHANGED <<container, kept, preview, listed, atPreview, withVolumes, removed,
                   changes>>

Next ==
    \/ \E volumes, said \in BOOLEAN : Preview(volumes, said)
    \/ \E c \in Containers : Change(c)
    \/ Request \/ PruneContainers \/ PruneNetworks \/ PruneVolumes \/ PruneImages
    \/ PruneCache \/ PruneFails \/ Respond

-----------------------------------------------------------------------------
(* Properties.                                                              *)

TypeOK ==
    /\ container \in [Containers -> {"running", "exited", "removed"}]
    /\ kept \subseteq Resources
    /\ preview \subseteq Containers \cup Resources /\ listed \in BOOLEAN
    /\ prune \in {"idle", "shown", "responding", "done"} \cup Stages
    /\ withVolumes \in BOOLEAN
    /\ removed \subseteq Containers \cup Resources
    /\ changes \in 0 .. MaxChanges

Users(x) == {c \in Containers : x \in {ImageOf[c], VolumeOf[c], NetworkOf[c]}}

\* What only stopped containers used, of what the prune was asked to look at.
FreedAtPreview ==
    {x \in Images \cup Networks \cup (IF withVolumes THEN Volumes ELSE {}) :
        Users(x) # {} /\ \A c \in Users(x) : atPreview[c] = "exited"}

\* What no preview lists, however little it is used.
NeverListed == Cache \cup {n \in Networks : Users(n) = {}}

(* If docker could be read for the preview and no container changes since, the *)
(* prune removes beyond it what only stopped containers used (images, their    *)
(* networks, and volumes if asked for), and the unused networks and build      *)
(* cache, which no preview lists (docker.rs:1202); nothing else.               *)
MissesOnlyFreed ==
    (listed /\ changes = 0) => removed \ preview \subseteq FreedAtPreview \cup NeverListed
=============================================================================
