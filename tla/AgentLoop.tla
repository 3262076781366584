----------------------------- MODULE AgentLoop -----------------------------
(***************************************************************************)
(* The main loop of a connected agent (main.rs): one select over the       *)
(* websocket, the outgoing queue, the heartbeat and the watchdog.  Time    *)
(* passes in ticks, and a loop that is not stuck in a branch, in a write   *)
(* or in a handler it awaits, takes every ready branch, in any order,      *)
(* before the next tick.                                                   *)
(***************************************************************************)
EXTENDS Naturals

CONSTANTS
    HeartbeatPeriod, WatchdogPeriod, IdleTimeout,  \* in ticks: 20 s, 15 s, 75 s
    ReplyTime,    \* a healthy server answers a Ping within it
    PingRoom,     \* bound: Pings in the queue
    MaxEvents     \* bound: stalls, deaths and pings of the proxy

LoopAssumption ==
    /\ {HeartbeatPeriod, WatchdogPeriod, IdleTimeout, PingRoom} \subseteq Nat \ {0}
    /\ ReplyTime \in Nat /\ MaxEvents \in Nat
    /\ HeartbeatPeriod + ReplyTime <= IdleTimeout

VARIABLES
    loop,       \* "selecting"; stuck in a branch: "sending" a message, "flushing" a
                \* Pong, "handling" a Text; or how it ended
    sinceBeat,  \* ticks since the heartbeat last fell due
    sinceLook,  \* ticks since the watchdog did
    heartbeat,  \* its tick is due
    watchdog,
    idle,       \* last_read.elapsed()
    pings,      \* Pings in the outgoing queue
    sending,    \* the message being written is a Ping
    text,       \* an unread Text of the server
    control,    \* an unread Ping frame of the proxy
    owed,       \* age of the Ping the server has yet to answer, or NoPing
    alive,      \* the server still serves the session; the proxy keeps the socket
    stalled,    \* the peer takes no data
    events,
    deadFor,    \* history: ticks of a dropped session since the loop was last stuck
    wellFor     \* history: ticks since the connection last stalled or died, the
                \* loop was last stuck, or a Ping was last refused by the queue

timers == <<sinceBeat, sinceLook, heartbeat, watchdog>>
network == <<alive, stalled, events, deadFor, wellFor>>
mainLoop == <<loop, timers, idle, pings, sending, text, control, owed, network>>

NoPing == ReplyTime + 1
Answered == HeartbeatPeriod + ReplyTime    \* a heartbeat and its answer
Deadline == IdleTimeout + WatchdogPeriod   \* the last look that may find it silent

NextAge(age, period) == IF age + 1 = period THEN 0 ELSE age + 1

\* Clocks stop counting past what anything asks of them.
Later(age, last) == IF age > last THEN age ELSE age + 1

Init ==
    /\ loop = "selecting" /\ sinceBeat = 0 /\ sinceLook = 0
    /\ heartbeat = TRUE /\ watchdog = FALSE  \* only the watchdog's first tick is consumed
    /\ idle = 0 /\ pings = 0 /\ sending = FALSE
    /\ text = FALSE /\ control = FALSE /\ owed = NoPing
    /\ alive = TRUE /\ stalled = FALSE /\ events = 0
    /\ deadFor = 0 /\ wellFor = 0

Writing == loop \in {"sending", "flushing"}
Ready == text \/ control \/ pings > 0 \/ heartbeat \/ watchdog

-----------------------------------------------------------------------------
(* Time and the other end.                                                  *)

Tick ==
    /\ loop = "selecting" => ~Ready
    /\ Writing => stalled
    /\ loop \in {"selecting", "sending", "flushing", "handling"}
    /\ (alive /\ ~stalled /\ owed # NoPing) => owed < ReplyTime
    /\ sinceBeat' = NextAge(sinceBeat, HeartbeatPeriod)
    /\ sinceLook' = NextAge(sinceLook, WatchdogPeriod)
    \* MissedTickBehavior::Skip: a late tick fires once, and the grid stays
    /\ heartbeat' = (heartbeat \/ sinceBeat' = 0)
    /\ watchdog' = (watchdog \/ sinceLook' = 0)
    /\ idle' = Later(idle, IdleTimeout)
    /\ owed' = IF owed < ReplyTime THEN owed + 1 ELSE owed
    /\ deadFor' = IF ~alive /\ loop = "selecting" THEN Later(deadFor, Deadline) ELSE 0
    /\ wellFor' = IF alive /\ ~stalled /\ loop = "selecting"
                  THEN Later(wellFor, Answered) ELSE 0
    /\ UNCHANGED <<loop, pings, sending, text, control, alive, stalled, events>>

Event == events < MaxEvents /\ events' = events + 1

\* The Pong, or any other message of a server that is there.
ServerSends ==
    /\ alive /\ ~stalled
    /\ text' = TRUE /\ owed' = NoPing
    /\ UNCHANGED <<loop, timers, idle, pings, sending, control, network>>

ServerReaps ==
    /\ alive /\ Event
    /\ alive' = FALSE /\ wellFor' = 0
    /\ UNCHANGED <<loop, timers, idle, pings, sending, text, control, owed, stalled, deadFor>>

ProxyPings ==
    /\ ~control /\ Event
    /\ control' = TRUE
    /\ UNCHANGED <<loop, timers, idle, pings, sending, text, owed, alive, stalled, deadFor,
                   wellFor>>

Stall ==
    /\ ~stalled /\ Event
    /\ stalled' = TRUE /\ wellFor' = 0
    /\ UNCHANGED <<loop, timers, idle, pings, sending, text, control, owed, alive, deadFor>>

Unstall ==
    /\ stalled
    /\ stalled' = FALSE
    /\ UNCHANGED <<loop, timers, idle, pings, sending, text, control, owed, alive, events,
                   deadFor, wellFor>>

-----------------------------------------------------------------------------
(* The branches of the select.                                              *)

\* Any Text, parseable or not, proves that the server is there.  Most handlers are
\* spawned; some are awaited here, a pod's exec with the requests it takes.
ReadText ==
    /\ loop = "selecting" /\ text
    /\ text' = FALSE /\ idle' = 0
    /\ loop' \in {"selecting", "handling"}
    /\ UNCHANGED <<timers, pings, sending, control, owed, network>>

\* The awaited handler returns, be it late: it has no timeout of its own.
Handled ==
    /\ loop = "handling"
    /\ loop' = "selecting"
    /\ UNCHANGED <<timers, idle, pings, sending, text, control, owed, network>>

\* Mutant: every frame counts as a sign of the server.
ReadPing_alive ==
    /\ loop = "selecting" /\ control
    /\ control' = FALSE /\ loop' = "flushing" /\ idle' = 0
    /\ UNCHANGED <<timers, pings, sending, text, owed, network>>

\* A Ping frame may be the proxy's: it only has its Pong flushed.
ReadPing ==
    /\ loop = "selecting" /\ control
    /\ control' = FALSE /\ loop' = "flushing"
    /\ UNCHANGED <<timers, idle, pings, sending, text, owed, network>>

ReadFails ==
    /\ loop = "selecting" /\ ~alive
    /\ loop' = "closed"
    /\ UNCHANGED <<timers, idle, pings, sending, text, control, owed, network>>

\* rx.recv: the write is awaited inside the branch.
Forward ==
    /\ loop = "selecting" /\ pings > 0
    /\ pings' = pings - 1 /\ loop' = "sending" /\ sending' = TRUE
    /\ UNCHANGED <<timers, idle, text, control, owed, network>>

\* Another task's message; a write that does not block changes nothing here.
ForwardOther ==
    /\ loop = "selecting" /\ stalled
    /\ loop' = "sending" /\ sending' = FALSE
    /\ UNCHANGED <<timers, idle, pings, text, control, owed, network>>

Written ==
    /\ Writing /\ ~stalled
    /\ loop' = "selecting" /\ sending' = FALSE
    /\ owed' = IF sending /\ alive /\ owed = NoPing THEN 0 ELSE owed
    /\ UNCHANGED <<timers, idle, pings, text, control, network>>

\* A failed flush is ignored; the next read or write tells.
WriteFails ==
    /\ Writing /\ ~alive
    /\ loop' = IF loop = "sending" THEN "closed" ELSE "selecting"
    /\ sending' = FALSE
    /\ UNCHANGED <<timers, idle, pings, text, control, owed, network>>

\* The queue is that of every task, and one full of their messages refuses the Ping.
Heartbeat ==
    /\ loop = "selecting" /\ heartbeat
    /\ heartbeat' = FALSE
    /\ \/ pings < PingRoom /\ pings' = pings + 1 /\ UNCHANGED wellFor
       \/ pings' = pings /\ wellFor' = IF pings = 0 THEN 0 ELSE wellFor
    /\ UNCHANGED <<loop, sinceBeat, sinceLook, watchdog, idle, sending, text, control, owed,
                   alive, stalled, events, deadFor>>

\* Mutant: the timeout leaves one chance to answer, not three.
Watchdog_hasty ==
    /\ loop = "selecting" /\ watchdog
    /\ watchdog' = FALSE
    /\ loop' = IF idle > HeartbeatPeriod THEN "silent" ELSE loop
    /\ UNCHANGED <<sinceBeat, sinceLook, heartbeat, idle, pings, sending, text, control,
                   owed, network>>

Watchdog ==
    /\ loop = "selecting" /\ watchdog
    /\ watchdog' = FALSE
    /\ loop' = IF idle > IdleTimeout THEN "silent" ELSE loop
    /\ UNCHANGED <<sinceBeat, sinceLook, heartbeat, idle, pings, sending, text, control,
                   owed, network>>

Next ==
    \/ Tick \/ ServerSends \/ ServerReaps \/ ProxyPings \/ Stall \/ Unstall
    \/ ReadText \/ Handled \/ ReadPing \/ ReadFails \/ Forward \/ ForwardOther
    \/ Written \/ WriteFails \/ Heartbeat \/ Watchdog

-----------------------------------------------------------------------------

TypeOK ==
    /\ loop \in {"selecting", "sending", "flushing", "handling", "closed", "silent"}
    /\ sinceBeat \in 0..HeartbeatPeriod - 1 /\ sinceLook \in 0..WatchdogPeriod - 1
    /\ {heartbeat, watchdog} \subseteq BOOLEAN
    /\ idle \in 0..IdleTimeout + 1 /\ deadFor \in 0..Deadline + 1
    /\ wellFor \in 0..Answered + 1
    /\ pings \in 0..PingRoom
    /\ {sending, text, control, alive, stalled} \subseteq BOOLEAN
    /\ owed \in 0..NoPing
    /\ events \in 0..MaxEvents

(* Whatever the proxy keeps warm, a loop that is not stuck gives up a dropped *)
(* session one watchdog period after the idle timeout.  One that is stuck in  *)
(* a write or in a handler (main.rs:1313) notices nothing, for as long as it  *)
(* is; then it reads what had arrived before as if it came now, and starts    *)
(* over.                                                                      *)
DeadServerNoticed == loop = "selecting" => deadFor <= Deadline

(* The watchdog ends no connection that has been well, with a loop that was   *)
(* not stuck and no Ping refused by a full queue (main.rs:2035), for longer   *)
(* than a heartbeat and its answer take.                                      *)
HealthyServerKept == loop = "silent" => wellFor <= Answered
=============================================================================
