---------------------------- MODULE RequestTasks ----------------------------
(***************************************************************************)
(* The tasks the main loop spawns to answer the control plane's requests   *)
(* (main.rs), each kind with the bounded queue they all send into and the  *)
(* main loop that drains it.  The requests of two kinds share nothing but  *)
(* that queue, so a behaviour follows one kind of task, and what the       *)
(* others send is OtherSend.                                               *)
(***************************************************************************)
EXTENDS Outgoing, FiniteSets

CONSTANTS MaxLines, ChunkLines                            \* log streams
CONSTANTS MaxWritten, OutputLimit, ReadSize               \* ExecRun
CONSTANTS ProbeIds, Specs, NoSpec, ProbeSets, MaxSyncs, MaxFlips
CONSTANTS Backups, Parts, MaxSecond
CONSTANTS BodyChunks, MaxChunks, StdinRoom, StderrRoom    \* Restore
CONSTANTS MaxDocs                                         \* K8sApply
CONSTANTS MaxSessions, MaxPrinted                         \* Sessions
CONSTANTS Containers, Images, Volumes, Networks, Cache, ImageOf, VolumeOf, NetworkOf,
          MaxChanges                                      \* SystemPrune
CONSTANTS Subsystems, MaxShifts                           \* Capabilities

VARIABLE running  \* the kind of task the behaviour follows

VARIABLES child, printed, pumped, pump, channel, buf, batcher, supervisor
VARIABLES source, logged, taken, reading, held
VARIABLES alive, helper, holds, written, captured, consumed, reader, budget,
          limited, limitSent, exec, timedOut, answer
VARIABLES received, pending, overlapped, probes, tasks, health, flips, late
VARIABLES second, stage, dest, named, file, object, upload, stored, lost, success
VARIABLES phase, size, fetched, chunk, piped, stdinOpen, warned, tar, extracted,
          whole, pipeError, restored
VARIABLES apply, manifest, dryRun, force, doc, changed, outcome
VARIABLES sessions, mapped
VARIABLES container, kept, preview, listed, atPreview, prune, withVolumes, removed,
          changes
VARIABLES present, shifts, registered, current

Journal == INSTANCE JournalStream
PodLog == INSTANCE K8sLogStream
Exec == INSTANCE ExecRun
Probe == INSTANCE HealthProbes
Backup == INSTANCE Backups
Restoring == INSTANCE Restore
Apply == INSTANCE K8sApply
Session == INSTANCE Sessions
Prune == INSTANCE SystemPrune
Announce == INSTANCE Capabilities

ASSUME RequestsAssumption ==
    /\ Journal!SizesAssumption /\ PodLog!SizesAssumption /\ Exec!LimitsAssumption
    /\ Probe!ProbesAssumption /\ Backup!BackupsAssumption /\ Restoring!PipesAssumption
    /\ Apply!DocsAssumption /\ Session!SessionsAssumption /\ Prune!DockerAssumption
    /\ Announce!CapabilitiesAssumption

journalTask == <<child, printed, pumped, pump, channel, buf, batcher, supervisor>>
podTask == <<source, logged, taken, reading, held>>
execTask == <<alive, helper, holds, written, captured, consumed, reader, budget,
              limited, limitSent, exec, timedOut, answer>>
probeTask == <<received, pending, overlapped, probes, tasks, health, flips, late>>
backupTask == <<second, stage, dest, named, file, object, upload, stored, lost, success>>
restoreTask == <<phase, size, fetched, chunk, piped, stdinOpen, warned, tar, extracted,
                 whole, pipeError, restored>>
applyTask == <<apply, manifest, dryRun, force, doc, changed, outcome>>
sessionTask == <<sessions, mapped>>
pruneTask == <<container, kept, preview, listed, atPreview, prune, withVolumes, removed,
               changes>>
capabilityTask == <<present, shifts, registered, current>>

vars == <<outgoing, running, journalTask, podTask, execTask, probeTask, backupTask,
          restoreTask, applyTask, sessionTask, pruneTask, capabilityTask>>

Kinds == {"journal", "pod", "exec", "probe", "backup", "restore", "apply", "session",
          "prune", "capabilities"}

Init ==
    /\ running \in Kinds
    /\ OutgoingInit
    /\ Journal!Init /\ PodLog!Init /\ Exec!Init /\ Probe!Init /\ Backup!Init
    /\ Restoring!Init /\ Apply!Init /\ Session!Init /\ Prune!Init
    /\ Announce!Init

\* Every task but one of this kind rests.
Rest(kind) ==
    /\ running' = running
    /\ kind # "journal" => UNCHANGED journalTask
    /\ kind # "pod" => UNCHANGED podTask
    /\ kind # "exec" => UNCHANGED execTask
    /\ kind # "probe" => UNCHANGED probeTask
    /\ kind # "backup" => UNCHANGED backupTask
    /\ kind # "restore" => UNCHANGED restoreTask
    /\ kind # "apply" => UNCHANGED applyTask
    /\ kind # "session" => UNCHANGED sessionTask
    /\ kind # "prune" => UNCHANGED pruneTask
    /\ kind # "capabilities" => UNCHANGED capabilityTask

DeliverOne == Deliver /\ Rest("queue")

Next ==
    \/ DeliverOne
    \/ OtherSend /\ Rest("queue")
    \/ running = "journal" /\ Journal!Next /\ Rest("journal")
    \/ running = "pod" /\ PodLog!Next /\ Rest("pod")
    \/ running = "exec" /\ Exec!Next /\ Rest("exec")
    \/ running = "probe" /\ Probe!Next /\ Rest("probe")
    \/ running = "backup" /\ Backup!Next /\ Rest("backup")
    \/ running = "restore" /\ Restoring!Next /\ Rest("restore")
    \/ running = "apply" /\ Apply!Next /\ Rest("apply")
    \/ running = "session" /\ Session!Next /\ Rest("session")
    \/ running = "prune" /\ Prune!Next /\ Rest("prune")
    \/ running = "capabilities" /\ Announce!Next /\ Rest("capabilities")

\* The main loop goes on draining the queue; each task by its own fairness.
Fairness ==
    /\ WF_vars(DeliverOne)
    /\ Journal!Fairness /\ PodLog!Fairness /\ Exec!Fairness /\ Probe!Fairness
    /\ Backup!Fairness /\ Restoring!Fairness /\ Apply!Fairness /\ Session!Fairness
    /\ Announce!Fairness

Spec == Init /\ [][Next]_vars /\ Fairness

-----------------------------------------------------------------------------
(* Properties.                                                              *)

TypeOK ==
    /\ running \in Kinds
    /\ Len(queue) <= QueueLength /\ refused \in BOOLEAN
    /\ Journal!TypeOK /\ PodLog!TypeOK /\ Exec!TypeOK /\ Probe!TypeOK /\ Backup!TypeOK
    /\ Restoring!TypeOK /\ Apply!TypeOK /\ Session!TypeOK /\ Prune!TypeOK
    /\ Announce!TypeOK

(* A log stream shows the server a prefix of each source, nothing twice,     *)
(* skipped or out of order, whatever the queue refuses; End is its last       *)
(* message and, unless something was refused, the server has every line by    *)
(* then, apart from a pod's log whose End reports that reading failed and a   *)
(* pipe of journalctl that could not be read, of which it has what was read;  *)
(* a pod's stream that returns has said End.                                  *)
LogsAreWhole ==
    /\ Journal!ChunksInOrder /\ PodLog!ChunksInOrder
    /\ Journal!EndIsLast /\ Journal!EndMeansComplete
    /\ PodLog!EndMeansComplete /\ PodLog!EndUnlessRefused

(* Output of a command that was not kept is never lost in silence, whichever  *)
(* of exit, timeout and limit ends it, two readers share one budget, and no  *)
(* process of the group outlives the answer with a pipe still read, nor a    *)
(* timeout.                                                                  *)
CommandIsAccounted ==
    Exec!OutputIsAccounted /\ Exec!BudgetIsShared /\ Exec!NoSurvivors

(* The probe tasks that run are those of the map, and of the last set asked   *)
(* for unless syncs overlapped.                                              *)
ProbesMatch == Probe!RunningIsMapped /\ Probe!LastSetRuns

(* What the server was told last of a probe or of the host's capabilities is *)
(* what the task believes it told, unless the queue refused it.              *)
ToldIsRemembered == Probe!ToldIsRemembered /\ Announce!ToldIsRemembered

(* A backup that reports success is whole at its destination, and none       *)
(* leaves a multipart upload open but where the bucket failed to complete it. *)
BackupIsStored == Backup!SuccessIsStored /\ Backup!UploadIsClosed

(* A restore that reports success has given tar the whole archive.            *)
RestoredIsWhole == Restoring!RestoredIsWhole

(* The cluster has taken a prefix of an applied manifest.                     *)
AppliedIsPrefix == Apply!AppliedIsPrefix

(* The banner is the last word of a pod session, after all of its output.     *)
BannerIsLast == Session!BannerIsLast

(* A prune removes beyond its preview only what stopped containers used, and  *)
(* the networks and build cache that a preview never lists.                   *)
MissesOnlyFreed == Prune!MissesOnlyFreed

(* What has been read is told in the end: log lines reach the queue within a  *)
(* tick, and the lasting state of a target and of the host the server,       *)
(* refusals apart.                                                           *)
ReadIsTold ==
    <>[](/\ Journal!LinesFlushed /\ PodLog!LinesFlushed /\ Probe!LastingStateTold
         /\ Announce!LastingStateTold)

(* Every task ends: a stream when its source has, a command by its timeout,   *)
(* a backup, a restore that tar's unread warnings do not block, a session     *)
(* whose program has ended, as a shell does that was stopped or superseded    *)
(* and reads its input.  Sources print and targets change boundedly often     *)
(* here, so that what each must lead to is what holds from some moment on.   *)
TasksEnd ==
    <>[](/\ Journal!WoundUp /\ PodLog!WoundUp /\ Exec!IsAnswered
         /\ Backup!BackupsEnded /\ Restoring!EndedUnlessBlocked
         /\ Session!SessionsWoundUp)
=============================================================================
