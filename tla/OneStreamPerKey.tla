-------------------------- MODULE OneStreamPerKey --------------------------
(***************************************************************************)
(* What a log-stream registry promises, from the comment on LogStreams     *)
(* (logs.rs): one active stream per key; a new request replaces the old    *)
(* stream and a stop leaves none.  Streams are numbered by the request     *)
(* that started them, in the order the agent received the requests.        *)
(***************************************************************************)
EXTENDS Naturals

CONSTANTS Keys, Streams

VARIABLES
    active,  \* the stream of each key, or 0
    started  \* the streams it has had

Init ==
    /\ active = [k \in Keys |-> 0]
    /\ started = [k \in Keys |-> {}]

\* A request never brings back an older stream.
Start(k, i) ==
    /\ active[k] = 0
    /\ \A j \in started[k] : j < i
    /\ active' = [active EXCEPT ![k] = i]
    /\ started' = [started EXCEPT ![k] = @ \cup {i}]

\* Stopped, superseded or ended by itself.
Stop(k) ==
    /\ active[k] # 0
    /\ active' = [active EXCEPT ![k] = 0]
    /\ UNCHANGED started

Next == \E k \in Keys : Stop(k) \/ \E i \in Streams : Start(k, i)

Spec == Init /\ [][Next]_<<active, started>>
=============================================================================
