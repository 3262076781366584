---------------------------- MODULE Capabilities ----------------------------
(***************************************************************************)
(* What the agent announces of its host (main.rs): the subsystems found at *)
(* the connect in Register, and a task that probes them again and sends    *)
(* CapabilitiesUpdate when they differ.  Its cadence (fast until six probes *)
(* agree, then slow) decides only when a probe happens.                    *)
(***************************************************************************)
EXTENDS Outgoing

CONSTANTS
    Subsystems,  \* those whose presence may change: docker, systemd, k8s, ...
    MaxShifts    \* bound: changes on the host

CapabilitiesAssumption == MaxShifts \in Nat

VARIABLES
    present,     \* the subsystems that run
    shifts,      \* changes so far
    registered,  \* Register has been sent
    current      \* the task's: what it last found

capabilitiesTask == <<present, shifts, registered, current>>

Init ==
    /\ present = {} /\ shifts = 0
    /\ registered = FALSE /\ current = {}

Shift(s) ==
    /\ shifts < MaxShifts /\ shifts' = shifts + 1
    /\ present' = IF s \in present THEN present \ {s} ELSE present \cup {s}
    /\ UNCHANGED <<registered, current, outgoing>>

Announcement(found) == [type |-> "capabilities", found |-> found]

Register ==
    /\ ~registered
    /\ registered' = TRUE /\ current' = present
    /\ Send(Announcement(present))
    /\ UNCHANGED <<present, shifts>>

\* Mutant: the task compares with what Register said, whatever it found since.
Reprobe_initial ==
    /\ registered /\ present # current
    /\ Send(Announcement(present))
    /\ UNCHANGED <<present, shifts, registered, current>>

\* The result of the send is ignored; a probe that finds nothing new sends nothing.
Reprobe ==
    /\ registered /\ present # current
    /\ Send(Announcement(present))
    /\ current' = present
    /\ UNCHANGED <<present, shifts, registered>>

Next ==
    \/ \E s \in Subsystems : Shift(s)
    \/ Register \/ Reprobe

\* The task goes on probing.
Fairness == WF_<<capabilitiesTask, outgoing>>(Reprobe)

-----------------------------------------------------------------------------

TypeOK ==
    /\ present \subseteq Subsystems /\ current \subseteq Subsystems
    /\ shifts \in 0..MaxShifts /\ registered \in BOOLEAN

Told == IF Messaged = <<>> THEN {} ELSE Messaged[Len(Messaged)].found

(* The server was told last what the task takes for announced, unless the    *)
(* queue has refused a message.                                              *)
ToldIsRemembered == (registered /\ ~refused) => Told = current

(* To hold in the end, when the host no longer changes: the server knows     *)
(* what runs there, with the exception of ToldIsRemembered.                  *)
LastingStateTold == registered => (Told = present \/ refused)
=============================================================================
