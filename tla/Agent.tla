------------------------------- MODULE Agent -------------------------------
(***************************************************************************)
(* The agent's process: its way to a connection (Credentials) and its main *)
(* loop on that connection (AgentLoop).  The loop touches no credential    *)
(* and knows its end only as "running" and GiveUp there, so a behaviour    *)
(* follows one of the two.                                                 *)
(***************************************************************************)
EXTENDS Naturals, Sequences

CONSTANTS MaxTriples, MaxPairings, MaxFaults
CONSTANTS HeartbeatPeriod, WatchdogPeriod, IdleTimeout, ReplyTime, PingRoom, MaxEvents

VARIABLE following

VARIABLES triples, accepted, legacy, disk, step, caller, token, answer, refreshed, mine,
          pairings, faults, cut, revoked
VARIABLES loop, sinceBeat, sinceLook, heartbeat, watchdog, idle, pings, sending, text,
          control, owed, alive, stalled, events, deadFor, wellFor

Process == INSTANCE Credentials
Loop == INSTANCE AgentLoop

ASSUME AgentAssumption == Process!CredentialsAssumption /\ Loop!LoopAssumption

process == <<triples, accepted, legacy, disk, step, caller, token, answer, refreshed, mine,
             pairings, faults, cut, revoked>>
mainLoop == <<loop, sinceBeat, sinceLook, heartbeat, watchdog, idle, pings, sending, text,
              control, owed, alive, stalled, events, deadFor, wellFor>>
vars == <<following, process, mainLoop>>

Init ==
    /\ following \in {"process", "loop"}
    /\ Process!Init /\ Loop!Init
    /\ following = "loop" => ~legacy

Next ==
    \/ following = "process" /\ Process!Next /\ UNCHANGED <<following, mainLoop>>
    \/ following = "loop" /\ Loop!Next /\ UNCHANGED <<following, process>>

\* The process runs on, systemd restarts it, and the server answers.
Fairness == WF_vars(Process!Proceed /\ UNCHANGED <<following, mainLoop>>)

Spec == Init /\ [][Next]_vars /\ Fairness

-----------------------------------------------------------------------------
(* Properties.                                                              *)

TypeOK ==
    /\ following \in {"process", "loop"}
    /\ Process!TypeOK /\ Loop!TypeOK

(* The files hold the newest triple unless a rotation was cut short.          *)
FilesAgree == Process!FilesAgree

(* The process connects with a token of the pairing it was started for.       *)
PairingSupersedes == Process!PairingSupersedes

(* While the loop is not stuck in a write or a handler, a dropped session is  *)
(* given up in time, whatever a proxy keeps warm; and the watchdog ends no    *)
(* healthy connection whose Pings the queue has taken.                        *)
WatchdogIsRight == Loop!DeadServerNoticed /\ Loop!HealthyServerKept

(* The agent gets back online by itself after every exit, unless a rotation   *)
(* was cut short, the operator revoked it or its server knows no rotation.    *)
AgentReturns == following = "process" => <>[]Process!Settled
=============================================================================
