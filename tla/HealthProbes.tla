---------------------------- MODULE HealthProbes ----------------------------
(***************************************************************************)
(* The health probes (health.rs).  The main loop spawns a task per         *)
(* HealthProbeSyncRequest; each takes the lock and makes the running tasks *)
(* match its probe set.  A probe task samples its target and reports when  *)
(* the state differs from the one it last reported.                        *)
(***************************************************************************)
EXTENDS Outgoing

CONSTANTS
    ProbeIds,
    Specs,     \* what a probe may be configured to do (its signature)
    NoSpec,
    ProbeSets, \* the requests enumerated: functions from some ids to specs
    MaxSyncs,  \* bound: requests
    MaxFlips   \* bound: changes of a target's state

ProbesAssumption ==
    /\ NoSpec \notin Specs
    /\ \A set \in ProbeSets :
          DOMAIN set \subseteq ProbeIds /\ \A i \in DOMAIN set : set[i] \in Specs
    /\ MaxSyncs \in Nat /\ MaxFlips \in Nat

VARIABLES
    received,   \* the probe sets received, in order
    pending,    \* indices of those whose task has not had the lock
    overlapped, \* history: two were pending at once
    probes,     \* for each id, every task spawned for it
    tasks,      \* Inner::tasks: for each id, the index of its task or 0
    health,     \* what a sample of each target would find
    flips,      \* changes of health so far
    late        \* history: ids that an aborted task has reported on

task == <<received, pending, overlapped, probes, tasks, health, flips, late>>

States == {"green", "red"}
NoState == "none"
ProbeTask == [spec : Specs, at : {"sleeping", "sampled", "aborted", "gone"},
              sample : States \cup {NoState}, last : States \cup {NoState}]

Init ==
    /\ received = <<>> /\ pending = {} /\ overlapped = FALSE
    /\ probes = [i \in ProbeIds |-> <<>>]
    /\ tasks = [i \in ProbeIds |-> 0]
    /\ health = [i \in ProbeIds |-> "green"]
    /\ flips = 0
    /\ late = {}

Idle == received = <<>>

-----------------------------------------------------------------------------
(* The targets and the main loop.                                           *)

Flip(i) ==
    /\ ~Idle
    /\ flips < MaxFlips
    /\ flips' = flips + 1
    /\ health' = [health EXCEPT ![i] = IF @ = "green" THEN "red" ELSE "green"]
    /\ UNCHANGED <<received, pending, overlapped, probes, tasks, late, outgoing>>

\* The task that will call sync is spawned.
Request(set) ==
    /\ Len(received) < MaxSyncs
    /\ received' = Append(received, set)
    /\ overlapped' = (overlapped \/ pending # {})
    /\ pending' = pending \cup {Len(received) + 1}
    /\ UNCHANGED <<probes, tasks, health, flips, late, outgoing>>

-----------------------------------------------------------------------------
(* sync: once the lock is held nothing is awaited.                          *)

Configured(i) == IF tasks[i] = 0 THEN NoSpec ELSE probes[i][tasks[i]].spec

\* Mutant: a probe whose spec has changed is respawned and not aborted.
Superseded_changed(set) == {i \in ProbeIds : tasks[i] # 0 /\ i \notin DOMAIN set}

\* The tasks to abort: their spec has changed, or the new set lacks them.
Superseded(set) ==
    {i \in ProbeIds : tasks[i] # 0 /\ (i \in DOMAIN set => set[i] # Configured(i))}

\* Mutant: a probe that already has a task keeps it.
Fresh_once(set) == {i \in DOMAIN set : tasks[i] = 0}

\* The probes to spawn.
Fresh(set) == {i \in DOMAIN set : set[i] # Configured(i)}

\* An abort ends a task at its next await; one that holds a sample sends first.
AbortTask(probe) ==
    [probe EXCEPT !.at = IF @ = "sampled" THEN "aborted" ELSE "gone"]

Spawned(spec) ==
    [spec |-> spec, at |-> "sleeping", sample |-> NoState, last |-> NoState]

Sync(n) ==
    LET set == received[n]
        Kept(i) == IF i \in Superseded(set)
                   THEN [probes[i] EXCEPT ![tasks[i]] = AbortTask(@)]
                   ELSE probes[i]
    IN
    /\ n \in pending
    /\ pending' = pending \ {n}
    /\ probes' = [i \in ProbeIds |->
           IF i \in Fresh(set) THEN Append(Kept(i), Spawned(set[i])) ELSE Kept(i)]
    /\ tasks' = [i \in ProbeIds |->
           IF i \in Fresh(set) THEN Len(probes[i]) + 1
           ELSE IF i \in DOMAIN set THEN tasks[i] ELSE 0]
    /\ UNCHANGED <<received, overlapped, health, flips, late, outgoing>>

-----------------------------------------------------------------------------
(* run_probe.                                                               *)

\* probe_http, probe_tcp or probe_exec returns; no await before the report.
Sample(i, k) ==
    /\ probes[i][k].at = "sleeping"
    /\ probes' = [probes EXCEPT ![i][k].at = "sampled", ![i][k].sample = health[i]]
    /\ UNCHANGED <<received, pending, overlapped, tasks, health, flips, late, outgoing>>

\* Mutant: only a bad state is reported.
Flipped_red(probe) == probe.last # probe.sample /\ probe.sample = "red"

Flipped(probe) == probe.last # probe.sample

\* last_state advances whether or not the queue has taken the report.
Remember(probe) ==
    [probe EXCEPT !.at = IF @ = "aborted" THEN "gone" ELSE "sleeping",
                  !.last = probe.sample, !.sample = NoState]

Report(i, k) ==
    LET probe == probes[i][k] IN
    /\ probe.at \in {"sampled", "aborted"}
    /\ probes' = [probes EXCEPT ![i][k] = Remember(probe)]
    /\ IF Flipped(probe)
       THEN /\ Send([type |-> "report", id |-> i, state |-> probe.sample])
            /\ late' = IF probe.at = "aborted" THEN late \cup {i} ELSE late
       ELSE UNCHANGED <<late, outgoing>>
    /\ UNCHANGED <<received, pending, overlapped, tasks, health, flips>>

Next ==
    \/ \E set \in ProbeSets : Request(set)
    \/ \E n \in pending : Sync(n)
    \/ \E i \in ProbeIds :
          Flip(i) \/ \E k \in DOMAIN probes[i] : Sample(i, k) \/ Report(i, k)

\* Spawned tasks get the lock, intervals pass, a sample ends by its timeout.
Fairness ==
    /\ \A n \in 1 .. MaxSyncs : WF_<<task, outgoing>>(Sync(n))
    /\ \A i \in ProbeIds : \A k \in 1 .. MaxSyncs :
          WF_<<task, outgoing>>(k \in DOMAIN probes[i] /\ (Sample(i, k) \/ Report(i, k)))

-----------------------------------------------------------------------------
(* Properties.                                                              *)

TypeOK ==
    /\ received \in Seq(ProbeSets) /\ Len(received) <= MaxSyncs
    /\ pending \subseteq 1 .. Len(received)
    /\ overlapped \in BOOLEAN
    /\ probes \in [ProbeIds -> Seq(ProbeTask)]
    /\ tasks \in [ProbeIds -> Nat]
    /\ \A i \in ProbeIds : tasks[i] <= Len(probes[i])
    /\ health \in [ProbeIds -> States]
    /\ flips \in 0 .. MaxFlips
    /\ late \subseteq ProbeIds

(* One task at most runs for an id, and it is the one the map holds: no task *)
(* that a later sync cannot reach goes on probing, and the map holds no task *)
(* that has ended.                                                           *)
RunningIsMapped ==
    \A i \in ProbeIds : \A k \in DOMAIN probes[i] :
        probes[i][k].at \in {"sleeping", "sampled"} <=> k = tasks[i]

(* The running set is the last one requested, unless requests overlapped     *)
(* (main.rs:1544 spawns each) or one is still to be applied.                 *)
LastSetRuns ==
    (~overlapped /\ pending = {} /\ ~Idle) =>
        LET set == received[Len(received)] IN
        \A i \in ProbeIds : Configured(i) = IF i \in DOMAIN set THEN set[i] ELSE NoSpec

ReportsOn(i) == Select(Messaged, LAMBDA m : m.type = "report" /\ m.id = i)
Told(i) == IF ReportsOn(i) = <<>> THEN NoState
           ELSE ReportsOn(i)[Len(ReportsOn(i))].state

(* What the server has been told last of a probe is what its running task    *)
(* believes it has told, unless the queue refused a report or an aborted     *)
(* task of the same id spoke after it was superseded.                        *)
ToldIsRemembered ==
    \A i \in ProbeIds :
        (tasks[i] # 0 /\ ~refused /\ i \notin late) =>
            LET last == probes[i][tasks[i]].last IN last # NoState => Told(i) = last

(* To hold in the end, when targets no longer change: the server has been     *)
(* told the state of every target that is probed, with the exceptions of      *)
(* ToldIsRemembered.                                                         *)
LastingStateTold ==
    \A i \in ProbeIds : tasks[i] # 0 => Told(i) = health[i] \/ refused \/ i \in late
=============================================================================
