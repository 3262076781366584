---------------------------- MODULE AgentProofs ----------------------------
(***************************************************************************)
(* Proofs about Agent, for any number of triples, pairings and faults, and *)
(* any periods that leave an answer time to arrive.                        *)
(***************************************************************************)
EXTENDS Agent, SequenceTheorems, TLAPS

-----------------------------------------------------------------------------
(* The connected loop.  A write of a Ping is that of a message.             *)

LoopFlags ==
    /\ loop \in {"selecting", "sending", "flushing", "handling", "closed", "silent"}
    /\ heartbeat \in BOOLEAN /\ watchdog \in BOOLEAN
    /\ sending \in BOOLEAN /\ text \in BOOLEAN /\ control \in BOOLEAN
    /\ alive \in BOOLEAN /\ stalled \in BOOLEAN
    /\ sending => loop = "sending"

LoopClocks ==
    /\ sinceBeat \in Nat /\ sinceBeat < HeartbeatPeriod
    /\ sinceLook \in Nat /\ sinceLook < WatchdogPeriod
    /\ idle \in Nat /\ idle <= IdleTimeout + 1

LoopHistory ==
    /\ deadFor \in Nat /\ deadFor <= IdleTimeout + WatchdogPeriod + 1
    /\ wellFor \in Nat /\ wellFor <= HeartbeatPeriod + ReplyTime + 1

LoopCounts ==
    /\ pings \in Nat /\ pings <= PingRoom
    /\ owed \in Nat /\ owed <= ReplyTime + 1
    /\ events \in Nat /\ events <= MaxEvents

LoopTypes == LoopFlags /\ LoopClocks /\ LoopHistory /\ LoopCounts

\* Ticks since the server was last heard and the connection has been well.
Unheard == IF idle < wellFor THEN idle ELSE wellFor

OnItsWay == heartbeat \/ pings > 0 \/ sending

\* An answer is never further off than a heartbeat and its Ping.
AnswersCome ==
    /\ (~alive \/ stalled) => wellFor = 0
    /\ Unheard <= HeartbeatPeriod + ReplyTime
    /\ (~text /\ owed <= ReplyTime) => Unheard <= HeartbeatPeriod + owed
    /\ (~text /\ owed = ReplyTime + 1 /\ OnItsWay) => Unheard <= HeartbeatPeriod
    /\ (~text /\ owed = ReplyTime + 1 /\ ~OnItsWay) => Unheard <= sinceBeat

\* A dropped session falls silent, and the watchdog looks in time.
SilenceGrows ==
    /\ deadFor > 0 => ~alive /\ ~text /\ (deadFor <= idle \/ idle = IdleTimeout + 1)
    /\ (deadFor > IdleTimeout /\ loop \in {"selecting", "sending", "flushing", "handling"}) =>
           deadFor <= IdleTimeout + (IF watchdog THEN WatchdogPeriod ELSE sinceLook)

LoopInv == LoopTypes /\ AnswersCome /\ SilenceGrows /\ Loop!HealthyServerKept

\* The assumption, as the provers want it.
LEMMA LoopConstants ==
    /\ HeartbeatPeriod \in Nat /\ WatchdogPeriod \in Nat /\ IdleTimeout \in Nat
    /\ HeartbeatPeriod > 0 /\ WatchdogPeriod > 0 /\ IdleTimeout > 0
    /\ PingRoom \in Nat /\ PingRoom > 0 /\ ReplyTime \in Nat /\ MaxEvents \in Nat
    /\ HeartbeatPeriod + ReplyTime \in Nat /\ HeartbeatPeriod + ReplyTime <= IdleTimeout
    /\ IdleTimeout + WatchdogPeriod \in Nat
  BY AgentAssumption DEF Loop!LoopAssumption

\* The flat form implies the module's type invariant.
LEMMA LoopTyped == LoopTypes => Loop!TypeOK
  BY LoopConstants
     DEF LoopTypes, LoopFlags, LoopClocks, LoopHistory, LoopCounts, Loop!TypeOK, Loop!NoPing, Loop!Answered, Loop!Deadline

\* A fresh loop satisfies the invariant.
LEMMA LoopInit == Loop!Init => LoopInv
  <1> SUFFICES ASSUME Loop!Init PROVE LoopInv
    OBVIOUS
  <1> USE LoopConstants DEF Loop!Init, Loop!NoPing
  <1>1. LoopFlags
    BY DEF LoopFlags
  <1>2. LoopClocks
    BY DEF LoopClocks
  <1>3. LoopHistory
    BY DEF LoopHistory
  <1>4. LoopCounts
    BY DEF LoopCounts
  <1>5. AnswersCome
    BY DEF AnswersCome, OnItsWay, Unheard
  <1>6. SilenceGrows
    BY DEF SilenceGrows
  <1>7. Loop!HealthyServerKept
    BY DEF Loop!HealthyServerKept
  <1>8. QED
    BY <1>1, <1>2, <1>3, <1>4, <1>5, <1>6, <1>7 DEF LoopInv, LoopTypes

\* A clock stops one past the last reading anything asks for.
LEMMA LaterBounded ==
  ASSUME NEW age \in Nat, NEW last \in Nat, age <= last + 1
  PROVE  Loop!Later(age, last) \in Nat /\ Loop!Later(age, last) <= last + 1
  <1>1. CASE age > last
    BY <1>1 DEF Loop!Later
  <1>2. CASE age <= last
    BY <1>2 DEF Loop!Later
  <1>3. QED
    BY <1>1, <1>2

\* For the provers: no sum of two counts is negative.
LEMMA SumsAreNat ==
  ASSUME NEW m \in Nat, NEW n \in Nat
  PROVE  0 <= m + n
  OBVIOUS

\* A tick ages the silence by one at most.
LEMMA UnheardTick ==
  ASSUME LoopTypes, Loop!Tick
  PROVE  /\ Unheard \in Nat /\ Unheard' \in Nat
         /\ Unheard' <= Unheard + 1
         /\ wellFor' = 0 => Unheard' = 0
  BY LoopConstants
     DEF LoopTypes, LoopClocks, LoopHistory, Unheard, Loop!Tick, Loop!Later

\* Just heard, an agent waits for nothing overdue.
LEMMA HeardNow ==
  ASSUME LoopTypes', Unheard' = 0, (~alive' \/ stalled') => wellFor' = 0
  PROVE  AnswersCome'
  <1>1. owed' \in Nat /\ sinceBeat' \in Nat
    BY DEF LoopTypes, LoopClocks, LoopCounts
  <1>2. 0 <= HeartbeatPeriod + ReplyTime /\ 0 <= HeartbeatPeriod + owed'
    BY <1>1, LoopConstants, SumsAreNat
  <1>3. Unheard' <= HeartbeatPeriod + ReplyTime
    BY <1>2
  <1>4. Unheard' <= HeartbeatPeriod + owed'
    BY <1>2
  <1>5. Unheard' <= HeartbeatPeriod /\ Unheard' <= sinceBeat'
    BY <1>1, LoopConstants
  <1>6. QED
    BY <1>3, <1>4, <1>5 DEF AnswersCome

\* Time keeps the invariant, for ready branches are taken before it passes.
LEMMA LoopTick == LoopInv /\ Loop!Tick => LoopInv'
  <1> SUFFICES ASSUME LoopInv, Loop!Tick PROVE LoopInv'
    OBVIOUS
  <1>0. LoopTypes /\ AnswersCome /\ SilenceGrows
    BY DEF LoopInv
  <1> USE LoopConstants DEF LoopTypes
  <1>1. LoopFlags'
    BY <1>0 DEF LoopFlags, Loop!Tick
  <1>2. LoopClocks'
    BY <1>0 DEF LoopClocks, Loop!Tick, Loop!NextAge, Loop!Later
  <1>3. LoopHistory'
    <2>1. deadFor' \in Nat /\ deadFor' <= Loop!Deadline + 1
      <3>1. deadFor \in Nat /\ deadFor <= Loop!Deadline + 1 /\ Loop!Deadline \in Nat
        BY <1>0 DEF LoopHistory, Loop!Deadline
      <3>2. deadFor' = 0 \/ deadFor' = Loop!Later(deadFor, Loop!Deadline)
        BY DEF Loop!Tick
      <3>3. /\ Loop!Later(deadFor, Loop!Deadline) \in Nat
            /\ Loop!Later(deadFor, Loop!Deadline) <= Loop!Deadline + 1
        BY <3>1, LaterBounded, Zenon
      <3>4. 0 <= Loop!Deadline + 1
        BY <3>1
      <3>5. QED
        BY <3>2, <3>3, <3>4
    <2>2. wellFor' \in Nat /\ wellFor' <= Loop!Answered + 1
      <3>1. wellFor \in Nat /\ wellFor <= Loop!Answered + 1 /\ Loop!Answered \in Nat
        BY <1>0 DEF LoopHistory, Loop!Answered
      <3>2. wellFor' = 0 \/ wellFor' = Loop!Later(wellFor, Loop!Answered)
        BY DEF Loop!Tick
      <3>3. /\ Loop!Later(wellFor, Loop!Answered) \in Nat
            /\ Loop!Later(wellFor, Loop!Answered) <= Loop!Answered + 1
        BY <3>1, LaterBounded, Zenon
      <3>4. 0 <= Loop!Answered + 1
        BY <3>1
      <3>5. QED
        BY <3>2, <3>3, <3>4
    <2>3. QED
      BY <2>1, <2>2 DEF LoopHistory, Loop!Deadline, Loop!Answered
  <1>4. LoopCounts'
    BY <1>0 DEF LoopCounts, Loop!Tick
  <1>5. AnswersCome'
    <2>1. (~alive' \/ stalled') => wellFor' = 0
      BY DEF Loop!Tick
    <2>2. CASE wellFor' = 0
      <3>1. Unheard' = 0
        BY <1>0, <2>2, UnheardTick
      <3>2. QED
        BY <1>1, <1>2, <1>3, <1>4, <2>1, <3>1, HeardNow
    <2>3. CASE wellFor' # 0
      <3>1. alive /\ ~stalled /\ ~text /\ ~OnItsWay
        BY <1>0, <2>3 DEF Loop!Tick, Loop!Ready, Loop!Writing, OnItsWay, LoopFlags
      <3>2. CASE owed <= ReplyTime
        <4>1. owed' = owed + 1 /\ owed' <= ReplyTime
          BY <1>0, <3>1, <3>2 DEF Loop!Tick, Loop!NoPing, LoopCounts
        <4>2. Unheard <= HeartbeatPeriod + owed
          BY <1>0, <3>1, <3>2 DEF AnswersCome
        <4>3. Unheard' <= HeartbeatPeriod + owed'
          BY <1>0, <4>1, <4>2, UnheardTick DEF LoopCounts
        <4>4. Unheard' <= HeartbeatPeriod + ReplyTime
          BY <1>0, <1>4, <4>1, <4>3, UnheardTick DEF LoopCounts
        <4>5. QED
          BY <1>4, <2>1, <4>1, <4>3, <4>4 DEF AnswersCome, LoopCounts
      <3>3. CASE owed = ReplyTime + 1
        <4>1. owed' = ReplyTime + 1
          BY <3>3 DEF Loop!Tick
        <4>2. Unheard <= sinceBeat
          BY <1>0, <3>1, <3>3 DEF AnswersCome
        <4>3. Unheard' <= sinceBeat + 1
          BY <1>0, <4>2, UnheardTick DEF LoopClocks
        <4>4. OnItsWay' \/ sinceBeat' = sinceBeat + 1
          BY DEF Loop!Tick, Loop!NextAge, OnItsWay
        <4>5. Unheard' <= HeartbeatPeriod
          BY <1>0, <4>3, UnheardTick DEF LoopClocks
        <4>6. Unheard' <= HeartbeatPeriod + ReplyTime
          BY <1>0, <4>5, UnheardTick
        <4>7. QED
          BY <2>1, <4>1, <4>3, <4>4, <4>5, <4>6 DEF AnswersCome
      <3>4. QED
        BY <1>0, <3>2, <3>3 DEF LoopCounts
    <2>4. QED
      BY <2>2, <2>3
  <1>6. SilenceGrows'
    <2>1. CASE deadFor' = 0
      BY <1>0, <2>1 DEF SilenceGrows
    <2>2. CASE deadFor' # 0
      <3>1. ~alive /\ ~text /\ ~watchdog
        BY <1>0, <2>2 DEF Loop!Tick, Loop!Ready, LoopFlags
      <3>2. deadFor' = Loop!Later(deadFor, Loop!Deadline)
        BY <2>2 DEF Loop!Tick
      <3>3. deadFor' <= idle' \/ idle' = IdleTimeout + 1
        BY <1>0, <3>2 DEF SilenceGrows, LoopClocks, LoopHistory, Loop!Tick, Loop!Later
      <3>4. CASE deadFor' > IdleTimeout
        <4>1. deadFor' <= deadFor + 1
          BY <1>0, <3>2 DEF Loop!Later, LoopHistory
        <4>2. deadFor <= IdleTimeout + sinceLook
          <5>1. CASE deadFor > IdleTimeout
            BY <1>0, <3>1, <5>1 DEF SilenceGrows, Loop!Tick
          <5>2. CASE deadFor <= IdleTimeout
            BY <1>0, <5>2 DEF LoopHistory, LoopClocks
          <5>3. QED
            BY <1>0, <5>1, <5>2 DEF LoopHistory
        <4>3. deadFor' <= IdleTimeout + (sinceLook + 1)
          BY <1>0, <1>3, <4>1, <4>2 DEF LoopHistory, LoopClocks
        <4>4. (watchdog' /\ sinceLook + 1 = WatchdogPeriod) \/ sinceLook' = sinceLook + 1
          BY DEF Loop!Tick, Loop!NextAge
        <4>5. deadFor' <= IdleTimeout + (IF watchdog' THEN WatchdogPeriod ELSE sinceLook')
          <5>1. CASE watchdog'
            <6>1. sinceLook + 1 <= WatchdogPeriod
              BY <1>0 DEF LoopClocks
            <6>2. deadFor' <= IdleTimeout + WatchdogPeriod
              BY <1>0, <1>3, <4>3, <6>1 DEF LoopHistory, LoopClocks
            <6>3. QED
              BY <5>1, <6>2
          <5>2. CASE ~watchdog'
            BY <4>3, <4>4, <5>2
          <5>3. QED
            BY <5>1, <5>2
        <4>6. QED
          BY <3>1, <3>3, <4>5 DEF SilenceGrows, Loop!Tick
      <3>5. QED
        BY <1>3, <3>1, <3>3, <3>4 DEF SilenceGrows, LoopHistory, Loop!Tick
    <2>3. QED
      BY <2>1, <2>2
  <1>7. Loop!HealthyServerKept'
    BY DEF Loop!Tick, Loop!HealthyServerKept
  <1>8. QED
    BY <1>1, <1>2, <1>3, <1>4, <1>5, <1>6, <1>7 DEF LoopInv

\* The other end, and the branches of the select.
Others ==
    \/ Loop!ServerSends \/ Loop!ServerReaps \/ Loop!ProxyPings \/ Loop!Stall \/ Loop!Unstall
    \/ Loop!ReadText \/ Loop!Handled \/ Loop!ReadPing \/ Loop!ReadFails \/ Loop!Forward \/ Loop!ForwardOther
    \/ Loop!Written \/ Loop!WriteFails \/ Loop!Heartbeat \/ Loop!Watchdog

\* No clock moves but to be reset.
LEMMA OthersTimeless ==
  ASSUME Others
  PROVE  /\ sinceBeat' = sinceBeat /\ sinceLook' = sinceLook
         /\ idle' = idle \/ (idle' = 0 /\ text)
         /\ deadFor' = deadFor
         /\ wellFor' = wellFor \/ wellFor' = 0
  BY DEF Others, Loop!ServerSends, Loop!ServerReaps, Loop!ProxyPings, Loop!Stall, Loop!Unstall,
         Loop!ReadText, Loop!Handled, Loop!ReadPing, Loop!ReadFails, Loop!Forward, Loop!ForwardOther,
         Loop!Written, Loop!WriteFails, Loop!Heartbeat, Loop!Watchdog, Loop!timers, Loop!network

\* No such step leaves the types.
LEMMA OthersTyped ==
  ASSUME LoopTypes, Others
  PROVE  LoopTypes'
  <1> USE DEF LoopTypes
  <1>1. LoopFlags'
    <2>1. loop' \in {"selecting", "sending", "flushing", "handling", "closed", "silent"}
      BY DEF LoopFlags, Others, Loop!ServerSends, Loop!ServerReaps, Loop!ProxyPings, Loop!Stall, Loop!Unstall,
         Loop!ReadText, Loop!Handled, Loop!ReadPing, Loop!ReadFails, Loop!Forward, Loop!ForwardOther,
         Loop!Written, Loop!WriteFails, Loop!Heartbeat, Loop!Watchdog
    <2>2. heartbeat' \in BOOLEAN /\ watchdog' \in BOOLEAN
      BY DEF LoopFlags, Others, Loop!ServerSends, Loop!ServerReaps, Loop!ProxyPings, Loop!Stall, Loop!Unstall,
         Loop!ReadText, Loop!Handled, Loop!ReadPing, Loop!ReadFails, Loop!Forward, Loop!ForwardOther,
         Loop!Written, Loop!WriteFails, Loop!Heartbeat, Loop!Watchdog,
         Loop!timers
    <2>3. sending' \in BOOLEAN /\ text' \in BOOLEAN /\ control' \in BOOLEAN
      BY DEF LoopFlags, Others, Loop!ServerSends, Loop!ServerReaps, Loop!ProxyPings, Loop!Stall, Loop!Unstall,
         Loop!ReadText, Loop!Handled, Loop!ReadPing, Loop!ReadFails, Loop!Forward, Loop!ForwardOther,
         Loop!Written, Loop!WriteFails, Loop!Heartbeat, Loop!Watchdog
    <2>4. alive' \in BOOLEAN /\ stalled' \in BOOLEAN
      BY DEF LoopFlags, Others, Loop!ServerSends, Loop!ServerReaps, Loop!ProxyPings, Loop!Stall, Loop!Unstall,
         Loop!ReadText, Loop!Handled, Loop!ReadPing, Loop!ReadFails, Loop!Forward, Loop!ForwardOther,
         Loop!Written, Loop!WriteFails, Loop!Heartbeat, Loop!Watchdog,
         Loop!network
    <2>5. sending' => loop' = "sending"
      BY DEF LoopFlags, Others, Loop!ServerSends, Loop!ServerReaps, Loop!ProxyPings, Loop!Stall, Loop!Unstall,
         Loop!ReadText, Loop!Handled, Loop!ReadPing, Loop!ReadFails, Loop!Forward, Loop!ForwardOther,
         Loop!Written, Loop!WriteFails, Loop!Heartbeat, Loop!Watchdog
    <2>6. QED
      BY <2>1, <2>2, <2>3, <2>4, <2>5 DEF LoopFlags
  <1>2. LoopClocks'
    BY OthersTimeless, LoopConstants DEF LoopClocks
  <1>3. LoopHistory'
    BY OthersTimeless, LoopConstants, SumsAreNat DEF LoopHistory
  <1>4. LoopCounts'
    <2>1. owed' = owed \/ owed' = ReplyTime + 1 \/ owed' = 0
      BY DEF Others, Loop!ServerSends, Loop!ServerReaps, Loop!ProxyPings, Loop!Stall,
         Loop!Unstall, Loop!ReadText, Loop!Handled, Loop!ReadPing, Loop!ReadFails, Loop!Forward,
         Loop!ForwardOther, Loop!Written, Loop!WriteFails, Loop!Heartbeat, Loop!Watchdog,
         Loop!NoPing
    <2>2. events' = events \/ (events < MaxEvents /\ events' = events + 1)
      BY DEF Others, Loop!ServerSends, Loop!ServerReaps, Loop!ProxyPings, Loop!Stall,
         Loop!Unstall, Loop!ReadText, Loop!Handled, Loop!ReadPing, Loop!ReadFails, Loop!Forward,
         Loop!ForwardOther, Loop!Written, Loop!WriteFails, Loop!Heartbeat, Loop!Watchdog,
         Loop!Event, Loop!network
    <2>3. \/ pings' = pings
          \/ pings > 0 /\ pings' = pings - 1
          \/ pings < PingRoom /\ pings' = pings + 1
      BY DEF Others, Loop!ServerSends, Loop!ServerReaps, Loop!ProxyPings, Loop!Stall,
         Loop!Unstall, Loop!ReadText, Loop!Handled, Loop!ReadPing, Loop!ReadFails, Loop!Forward,
         Loop!ForwardOther, Loop!Written, Loop!WriteFails, Loop!Heartbeat, Loop!Watchdog
    <2>4. owed' \in Nat /\ owed' <= ReplyTime + 1
      BY <2>1, LoopConstants DEF LoopCounts
    <2>5. events' \in Nat /\ events' <= MaxEvents
      BY <2>2, LoopConstants DEF LoopCounts
    <2>6. pings' \in Nat /\ pings' <= PingRoom
      BY <2>3, LoopConstants DEF LoopCounts
    <2>7. QED
      BY <2>4, <2>5, <2>6 DEF LoopCounts
  <1>5. QED
    BY <1>1, <1>2, <1>3, <1>4

\* No such step puts an answer further off.
LEMMA OthersAnswered ==
  ASSUME LoopTypes, AnswersCome, Others
  PROVE  AnswersCome'
  <1>1. (~alive' \/ stalled') => wellFor' = 0
    BY DEF LoopTypes, LoopFlags, AnswersCome, Others, Loop!ServerSends, Loop!ServerReaps,
       Loop!ProxyPings, Loop!Stall, Loop!Unstall, Loop!ReadText, Loop!Handled, Loop!ReadPing, Loop!ReadFails,
       Loop!Forward, Loop!ForwardOther, Loop!Written, Loop!WriteFails, Loop!Heartbeat,
       Loop!Watchdog, Loop!network
  <1>2. Unheard' = Unheard \/ Unheard' = 0
    BY OthersTimeless DEF LoopTypes, LoopClocks, LoopHistory, Unheard
  <1>3. CASE Unheard' = 0
    BY <1>1, <1>3, OthersTyped, HeardNow
  <1>4. CASE Unheard' # 0
    <2>1. Unheard' = Unheard /\ sinceBeat' = sinceBeat
      BY <1>2, <1>4, OthersTimeless
    <2>2. alive /\ ~stalled /\ alive' /\ ~stalled' /\ idle' # 0
      BY <1>1, <1>4, OthersTimeless, OthersTyped
         DEF AnswersCome, Unheard, LoopTypes, LoopClocks, LoopHistory
    <2>3. CASE text'
      BY <1>1, <2>1, <2>3 DEF AnswersCome
    <2>4. CASE ~text'
      <3>1. ~text
        BY <2>2, <2>4 DEF Others, Loop!ServerSends, Loop!ServerReaps, Loop!ProxyPings,
           Loop!Stall, Loop!Unstall, Loop!ReadText, Loop!Handled, Loop!ReadPing, Loop!ReadFails, Loop!Forward,
           Loop!ForwardOther, Loop!Written, Loop!WriteFails, Loop!Heartbeat, Loop!Watchdog
      <3>2. CASE sending /\ ~sending'
        <4>1. owed' = IF owed = ReplyTime + 1 THEN 0 ELSE owed
          BY <2>2, <3>2 DEF Others, Loop!ServerSends, Loop!ServerReaps, Loop!ProxyPings,
             Loop!Stall, Loop!Unstall, Loop!ReadText, Loop!Handled, Loop!ReadPing, Loop!ReadFails,
             Loop!Forward, Loop!ForwardOther, Loop!Written, Loop!WriteFails, Loop!Heartbeat,
             Loop!Watchdog, Loop!NoPing, LoopTypes, LoopFlags
        <4>2. OnItsWay
          BY <3>2 DEF OnItsWay
        <4>3. owed' <= ReplyTime /\ owed' # ReplyTime + 1
          BY <4>1, LoopConstants DEF LoopTypes, LoopCounts
        <4>4. Unheard <= HeartbeatPeriod + owed'
          BY <3>1, <4>1, <4>2, LoopConstants DEF AnswersCome, LoopTypes, LoopCounts
        <4>5. QED
          BY <1>1, <2>1, <4>3, <4>4 DEF AnswersCome
      <3>3. CASE ~(sending /\ ~sending')
        <4>1. owed' = owed
          BY <2>2, <2>4, <3>3 DEF Others, Loop!ServerSends, Loop!ServerReaps, Loop!ProxyPings,
             Loop!Stall, Loop!Unstall, Loop!ReadText, Loop!Handled, Loop!ReadPing, Loop!ReadFails,
             Loop!Forward, Loop!ForwardOther, Loop!Written, Loop!WriteFails, Loop!Heartbeat,
             Loop!Watchdog
        <4>2. OnItsWay' <=> OnItsWay
          <5>1. CASE Loop!Forward
            BY <5>1 DEF Loop!Forward, OnItsWay
          <5>2. CASE Loop!Heartbeat
            <6>1. pings' > 0
              <7>1. wellFor' # 0
                BY <1>4, OthersTyped DEF Unheard, LoopTypes, LoopClocks, LoopHistory
              <7>2. QED
                BY <5>2, <7>1, LoopConstants DEF Loop!Heartbeat, LoopTypes, LoopCounts
            <6>2. QED
              BY <5>2, <6>1 DEF Loop!Heartbeat, OnItsWay
          <5>3. CASE ~Loop!Forward /\ ~Loop!Heartbeat
            <6>1. pings' = pings /\ heartbeat' = heartbeat
              BY <5>3 DEF Others, Loop!ServerSends, Loop!ServerReaps, Loop!ProxyPings, Loop!Stall, Loop!Unstall,
                 Loop!ReadText, Loop!Handled, Loop!ReadPing, Loop!ReadFails, Loop!Forward, Loop!ForwardOther,
                 Loop!Written, Loop!WriteFails, Loop!Heartbeat, Loop!Watchdog, Loop!timers
            <6>2. sending' => sending
              BY <5>3 DEF Others, Loop!ServerSends, Loop!ServerReaps, Loop!ProxyPings,
                 Loop!Stall, Loop!Unstall, Loop!ReadText, Loop!Handled, Loop!ReadPing, Loop!ReadFails,
                 Loop!ForwardOther, Loop!Written, Loop!WriteFails, Loop!Heartbeat, Loop!Watchdog
            <6>3. QED
              BY <3>3, <6>1, <6>2 DEF OnItsWay
          <5>4. QED
            BY <5>1, <5>2, <5>3
        <4>3. QED
          BY <1>1, <2>1, <3>1, <4>1, <4>2 DEF AnswersCome
      <3>4. QED
        BY <3>2, <3>3
    <2>5. QED
      BY <2>3, <2>4, OthersTyped DEF LoopTypes, LoopFlags
  <1>5. QED
    BY <1>3, <1>4

\* No such step hides a dropped session from the watchdog.
LEMMA OthersSilent ==
  ASSUME LoopTypes, SilenceGrows, Others
  PROVE  SilenceGrows'
  <1>1. CASE deadFor' = 0
    BY <1>1, LoopConstants DEF SilenceGrows
  <1>2. CASE deadFor' # 0
    <2>1. deadFor' = deadFor /\ deadFor > 0 /\ sinceLook' = sinceLook
      BY <1>2, OthersTimeless DEF LoopTypes, LoopHistory
    <2>2. ~alive /\ ~text /\ (deadFor <= idle \/ idle = IdleTimeout + 1)
      BY <2>1 DEF SilenceGrows
    <2>3. idle' = idle
      BY <2>2, OthersTimeless
    <2>4. ~alive' /\ ~text'
      BY <2>2 DEF Others, Loop!ServerSends, Loop!ServerReaps, Loop!ProxyPings, Loop!Stall, Loop!Unstall,
         Loop!ReadText, Loop!Handled, Loop!ReadPing, Loop!ReadFails, Loop!Forward, Loop!ForwardOther,
         Loop!Written, Loop!WriteFails, Loop!Heartbeat, Loop!Watchdog, Loop!network
    <2>5. CASE deadFor > IdleTimeout /\ loop' \in {"selecting", "sending", "flushing", "handling"}
      <3>1. loop \in {"selecting", "sending", "flushing", "handling"}
        BY <2>5 DEF Others, Loop!ServerSends, Loop!ServerReaps, Loop!ProxyPings, Loop!Stall, Loop!Unstall,
           Loop!ReadText, Loop!Handled, Loop!ReadPing, Loop!ReadFails, Loop!Forward, Loop!ForwardOther,
           Loop!Written, Loop!WriteFails, Loop!Heartbeat, Loop!Watchdog,
           Loop!Writing
      <3>2. deadFor <= IdleTimeout + (IF watchdog THEN WatchdogPeriod ELSE sinceLook)
        BY <2>5, <3>1 DEF SilenceGrows
      <3>3. idle > IdleTimeout
        BY <2>2, <2>5, LoopConstants DEF LoopTypes, LoopClocks, LoopHistory
      <3>4. watchdog' = watchdog
        BY <2>5, <3>3 DEF Others, Loop!ServerSends, Loop!ServerReaps, Loop!ProxyPings, Loop!Stall, Loop!Unstall,
           Loop!ReadText, Loop!Handled, Loop!ReadPing, Loop!ReadFails, Loop!Forward, Loop!ForwardOther,
           Loop!Written, Loop!WriteFails, Loop!Heartbeat, Loop!Watchdog,
           Loop!timers
      <3>5. QED
        BY <2>1, <2>2, <2>3, <2>4, <3>2, <3>4 DEF SilenceGrows
    <2>6. QED
      BY <2>1, <2>2, <2>3, <2>4, <2>5 DEF SilenceGrows
  <1>3. QED
    BY <1>1, <1>2

\* A look that ends the loop has found more silence than a well connection has.
LEMMA OthersKeep ==
  ASSUME LoopTypes, AnswersCome, Loop!HealthyServerKept, Others
  PROVE  Loop!HealthyServerKept'
  <1>1. CASE Loop!Watchdog /\ idle > IdleTimeout
    <2>1. wellFor' = wellFor
      BY <1>1 DEF Loop!Watchdog, Loop!network
    <2>2. Unheard = wellFor
      BY <1>1, LoopConstants
         DEF LoopTypes, LoopClocks, LoopHistory, AnswersCome, Unheard
    <2>3. QED
      BY <2>1, <2>2 DEF AnswersCome, Loop!HealthyServerKept, Loop!Answered
  <1>2. CASE ~(Loop!Watchdog /\ idle > IdleTimeout)
    <2>1. loop' = "silent" => loop = "silent"
      BY <1>2 DEF Others, Loop!ServerSends, Loop!ServerReaps, Loop!ProxyPings, Loop!Stall, Loop!Unstall,
         Loop!ReadText, Loop!Handled, Loop!ReadPing, Loop!ReadFails, Loop!Forward, Loop!ForwardOther,
         Loop!Written, Loop!WriteFails, Loop!Heartbeat, Loop!Watchdog
    <2>2. wellFor' = wellFor \/ wellFor' = 0
      BY OthersTimeless
    <2>3. 0 <= Loop!Answered
      BY LoopConstants, SumsAreNat DEF Loop!Answered
    <2>4. QED
      BY <2>1, <2>2, <2>3 DEF Loop!HealthyServerKept
  <1>3. QED
    BY <1>1, <1>2

\* Every step of the loop keeps its invariant.
LEMMA LoopStep == LoopInv /\ Loop!Next => LoopInv'
  <1> SUFFICES ASSUME LoopInv, Loop!Next PROVE LoopInv'
    OBVIOUS
  <1>1. CASE Loop!Tick
    BY <1>1, LoopTick
  <1>2. CASE Others
    BY <1>2, OthersTyped, OthersAnswered, OthersSilent, OthersKeep DEF LoopInv
  <1>3. QED
    BY <1>1, <1>2 DEF Loop!Next, Others

\* A step of the process keeps the loop's invariant.
LEMMA LoopRests == LoopInv /\ UNCHANGED mainLoop => LoopInv'
  BY DEF mainLoop, LoopInv, LoopTypes, LoopFlags, LoopClocks, LoopHistory, LoopCounts,
     AnswersCome, OnItsWay, Unheard, SilenceGrows, Loop!HealthyServerKept, Loop!Answered

\* The invariant gives both halves of WatchdogIsRight.
LEMMA LoopIsRight == LoopInv => WatchdogIsRight
  <1> SUFFICES ASSUME LoopInv PROVE Loop!DeadServerNoticed
    BY DEF LoopInv, WatchdogIsRight
  <1> SUFFICES ASSUME loop = "selecting" PROVE deadFor <= IdleTimeout + WatchdogPeriod
    BY DEF Loop!DeadServerNoticed, Loop!Deadline
  <1>1. CASE deadFor > IdleTimeout
    BY <1>1, LoopConstants DEF LoopInv, LoopTypes, LoopClocks, LoopHistory, SilenceGrows
  <1>2. CASE deadFor <= IdleTimeout
    BY <1>2, LoopConstants DEF LoopInv, LoopTypes, LoopHistory
  <1>3. QED
    BY <1>1, <1>2, LoopConstants DEF LoopInv, LoopTypes, LoopHistory

-----------------------------------------------------------------------------
(* The way to a connection.                                                 *)

Newest == Process!Newest
Files == Process!Files
Triple == [life : Process!Lives, family : 1..MaxPairings, bare : BOOLEAN]

Handed == triples \in Seq(Triple) /\ Newest \in Nat /\ Newest <= MaxTriples

Known ==
    /\ accepted \subseteq 1..Newest
    /\ disk \in [Files -> 0..Newest]
    /\ token \in 0..Newest /\ answer \in 0..Newest

Places ==
    /\ step \in Files \cup {"down", "pairing", "proactive", "asking", "connecting", "running"}
    /\ caller \in {"pair", "proactive", "reactive"}
    /\ legacy \in BOOLEAN /\ refreshed \in BOOLEAN
    /\ cut \in BOOLEAN /\ revoked \in BOOLEAN

Numbers ==
    /\ mine \in 0..MaxPairings /\ pairings \in 0..MaxPairings
    /\ faults \in 0..MaxFaults

ProcessTypes == Handed /\ Known /\ Places /\ Numbers

\* The triple being written is the newest.
AnswerHeld ==
    /\ step \in Files => Newest > 0 /\ answer = Newest
    /\ step \in {"refresh", "expiry"} => ~triples[answer].bare
    /\ step = "pairing" => mine > 0

\* A server that hands out bare triples has never handed out another.
BareUntilUpgrade ==
    /\ legacy => \A t \in 1..Newest : triples[t].bare
    /\ (Newest > 0 /\ triples[Newest].bare) => disk["refresh"] = 0

\* What is on the disk while no rotation was cut short.
OnDisk ==
    /\ (step \notin Files /\ Newest > 0) =>
           /\ disk["access"] = Newest
           /\ ~triples[Newest].bare => disk["refresh"] = Newest /\ disk["expiry"] = Newest
    /\ step \in {"refresh", "expiry"} => disk["access"] = Newest
    /\ step = "expiry" => disk["refresh"] = Newest

\* Whose token is in use, likewise.
InUse ==
    /\ step \in Files => triples[Newest].family = mine
    /\ step \in {"proactive", "asking", "connecting", "running"} =>
           Newest > 0 /\ token = Newest /\ triples[Newest].family = mine

Whole == ~cut => OnDisk /\ InUse

ProcessInv == ProcessTypes /\ AnswerHeld /\ BareUntilUpgrade /\ Whole

\* The assumption, conjunct by conjunct.
LEMMA ProcessConstants ==
    MaxTriples \in Nat /\ MaxPairings \in Nat /\ MaxFaults \in Nat
  BY AgentAssumption DEF Process!CredentialsAssumption

\* The named parts make up the module's type invariant.
LEMMA ProcessTyped == ProcessTypes => Process!TypeOK
  BY DEF ProcessTypes, Handed, Known, Places, Numbers, Triple, Newest, Files, Process!TypeOK,
         Process!Newest

\* A host never paired satisfies the invariant.
LEMMA ProcessInit == Process!Init => ProcessInv
  <1> SUFFICES ASSUME Process!Init PROVE ProcessInv
    OBVIOUS
  <1>1. Newest = 0 /\ Handed
    BY ProcessConstants, EmptySeq DEF Process!Init, Handed, Newest, Process!Newest
  <1>2. Known
    <2>1. 0 \in 0..Newest
      BY <1>1
    <2>2. disk \in [Files -> 0..Newest]
      BY <2>1 DEF Process!Init, Files
    <2>3. accepted \subseteq 1..Newest
      BY DEF Process!Init
    <2>4. token \in 0..Newest /\ answer \in 0..Newest
      BY <2>1 DEF Process!Init
    <2>5. QED
      BY <2>2, <2>3, <2>4 DEF Known
  <1>3. Places /\ Numbers
    <2>1. Places
      BY DEF Process!Init, Places
    <2>2. Numbers
      BY ProcessConstants DEF Process!Init, Numbers
    <2>3. QED
      BY <2>1, <2>2
  <1>4. step = "down" /\ step \notin Files
    BY DEF Process!Init, Files, Process!Files
  <1>5. AnswerHeld /\ BareUntilUpgrade /\ Whole
    BY <1>1, <1>4 DEF AnswerHeld, BareUntilUpgrade, Whole, OnDisk, InUse
  <1>6. QED
    BY <1>1, <1>2, <1>3, <1>5 DEF ProcessInv, ProcessTypes

\* What the server does to the triples it has handed out.
SameTriples ==
    /\ Newest' = Newest
    /\ \A t \in 1..Newest : /\ triples'[t].family = triples[t].family
                            /\ triples'[t].bare = triples[t].bare

OneMore(family) ==
    /\ Newest' = Newest + 1
    /\ \A t \in 1..Newest : triples'[t] = triples[t]
    /\ triples'[Newest + 1].family = family /\ triples'[Newest + 1].bare = legacy

\* Giving triples other lives changes nothing else of them.
LEMMA Reassigned ==
  ASSUME Handed, NEW lives \in [1..Newest -> Process!Lives],
         triples' = [t \in 1..Newest |-> [triples[t] EXCEPT !.life = lives[t]]]
  PROVE  Handed' /\ SameTriples
  <1>1. \A t \in 1..Newest : triples[t] \in Triple
    BY DEF Handed, Newest, Process!Newest
  <1>2. \A t \in 1..Newest : /\ triples'[t] \in Triple
                            /\ triples'[t].family = triples[t].family
                            /\ triples'[t].bare = triples[t].bare
    BY <1>1 DEF Triple
  <1>3. triples' \in Seq(Triple) /\ Len(triples') = Newest
    BY <1>2, IsASeq DEF Handed
  <1>4. QED
    BY <1>2, <1>3 DEF Handed, SameTriples, Newest, Process!Newest

\* A triple handed out comes last and leaves the others alone.
LEMMA Issued ==
  ASSUME ProcessTypes, NEW family \in 1..MaxPairings, Process!Issue(family)
  PROVE  Handed' /\ OneMore(family) /\ legacy' = legacy
  <1> DEFINE fresh == [life |-> "far", family |-> family, bare |-> legacy]
  <1>1. fresh \in Triple
    BY DEF Triple, Process!Lives, ProcessTypes, Places
  <1>2. /\ triples' = Append(triples, fresh) /\ Newest < MaxTriples
        /\ triples \in Seq(Triple) /\ legacy' = legacy
    BY DEF Process!Issue, ProcessTypes, Handed, Newest
  <1>3. /\ triples' \in Seq(Triple) /\ Len(triples') = Newest + 1
        /\ \A t \in 1..Newest : triples'[t] = triples[t]
        /\ triples'[Newest + 1] = fresh
    BY <1>1, <1>2, AppendProperties DEF Newest, Process!Newest
  <1>4. QED
    BY <1>2, <1>3, ProcessConstants
       DEF Handed, OneMore, Newest, Process!Newest, ProcessTypes

-----------------------------------------------------------------------------

\* What the server does by itself moves no file.
LEMMA AgesKeep ==
  ASSUME ProcessInv,
         (\E t \in DOMAIN triples : Process!Age(t)) \/ Process!Revoke \/ Process!Upgrade
  PROVE  ProcessInv'
  <1> USE DEF ProcessInv, ProcessTypes
  <1>0. DOMAIN triples = 1..Newest /\ \A t \in 1..Newest : triples[t] \in Triple
    BY DEF Handed, Newest, Process!Newest
  <1>1. Handed' /\ SameTriples
    <2>1. CASE \E t \in DOMAIN triples : Process!Age(t)
      <3>1. PICK t \in 1..Newest : Process!Age(t)
        BY <1>0, <2>1
      <3> DEFINE life == IF triples[t].life = "far" THEN "near" ELSE "over"
                 lives == [u \in 1..Newest |-> IF u = t THEN life ELSE triples[u].life]
      <3>2. lives \in [1..Newest -> Process!Lives]
        BY <1>0 DEF Triple, Process!Lives
      <3>3. triples' = [u \in 1..Newest |-> [triples[u] EXCEPT !.life = lives[u]]]
        BY <1>0, <3>1 DEF Process!Age, Handed, Triple
      <3>4. QED
        BY <3>2, <3>3, Reassigned
    <2>2. CASE Process!Revoke
      <3> DEFINE lives == [u \in 1..Newest |-> "over"]
      <3>1. lives \in [1..Newest -> Process!Lives]
        BY DEF Process!Lives
      <3>2. triples' = [u \in 1..Newest |-> [triples[u] EXCEPT !.life = lives[u]]]
        BY <1>0, <2>2 DEF Process!Revoke
      <3>3. QED
        BY <3>1, <3>2, Reassigned
    <2>3. CASE Process!Upgrade
      BY <2>3 DEF Process!Upgrade, Handed, SameTriples, Newest, Process!Newest
    <2>4. QED
      BY <2>1, <2>2, <2>3
  <1>2. /\ UNCHANGED <<disk, step, caller, token, answer, refreshed, mine, pairings, faults, cut>>
        /\ accepted' \subseteq accepted
        /\ legacy' \in BOOLEAN /\ revoked' \in BOOLEAN /\ (legacy' => legacy)
    <2>1. CASE \E t \in DOMAIN triples : Process!Age(t)
      BY <2>1 DEF Process!Age, Places
    <2>2. CASE Process!Revoke
      BY <2>2 DEF Process!Revoke, Places
    <2>3. CASE Process!Upgrade
      BY <2>3 DEF Process!Upgrade, Places
    <2>4. QED
      BY <2>1, <2>2, <2>3
  <1>3. Newest' = Newest /\ Known' /\ Places' /\ Numbers'
    <2>1. Newest' = Newest /\ Files' = Files
      BY <1>1 DEF SameTriples, Files, Process!Files
    <2>2. Known'
      BY <1>2, <2>1 DEF Known
    <2>3. Places'
      BY <1>2, <2>1 DEF Places
    <2>4. Numbers'
      BY <1>2 DEF Numbers
    <2>5. QED
      BY <2>1, <2>2, <2>3, <2>4
  <1>4. AnswerHeld'
    <2>1. step \in {"refresh", "expiry"} => answer \in 1..Newest
      BY DEF AnswerHeld, Handed, Files, Process!Files
    <2>2. step' \in {"refresh", "expiry"} => ~triples'[answer'].bare
      BY <1>1, <1>2, <2>1 DEF AnswerHeld, SameTriples
    <2>3. QED
      BY <1>2, <1>3, <2>2 DEF AnswerHeld, Files, Process!Files
  <1>5. BareUntilUpgrade'
    <2>1. legacy' => \A t \in 1..Newest' : triples'[t].bare
      BY <1>1, <1>2, <1>3 DEF BareUntilUpgrade, SameTriples
    <2>2. (Newest' > 0 /\ triples'[Newest'].bare) => disk'["refresh"] = 0
      BY <1>1, <1>2, <1>3 DEF BareUntilUpgrade, SameTriples, Handed
    <2>3. QED
      BY <2>1, <2>2 DEF BareUntilUpgrade
  <1>6. OnDisk => OnDisk'
    BY <1>1, <1>2, <1>3 DEF OnDisk, SameTriples, Files, Handed
  <1>7. InUse => InUse'
    BY <1>1, <1>2, <1>3 DEF InUse, SameTriples, Files, Handed, AnswerHeld
  <1>8. QED
    BY <1>1, <1>2, <1>3, <1>4, <1>5, <1>6, <1>7 DEF Whole

\* The steps that neither write a file nor are handed a triple.
Walks ==
    \/ Process!Start \/ Process!StartPairing \/ Process!PairingDenied
    \/ Process!ProactiveCheck \/ Process!Refused \/ Process!Connect
    \/ Process!ConnectFails \/ Process!GiveUp
    \/ Process!AnswerLost /\ UNCHANGED <<triples, accepted, legacy, cut>>
    \/ Process!Crash /\ step \notin Files

\* Those steps keep the files and choose the token from them.
LEMMA WalksKeep ==
  ASSUME ProcessInv, Walks
  PROVE  ProcessInv'
  <1> USE DEF ProcessInv, ProcessTypes
  <1>1. UNCHANGED <<triples, accepted, legacy, disk, answer, cut, revoked>>
    BY DEF Walks, Process!Start, Process!StartPairing, Process!PairingDenied,
       Process!ProactiveCheck, Process!Refused, Process!Connect, Process!ConnectFails,
       Process!GiveUp, Process!AnswerLost, Process!Crash, Process!server, Files
  <1>2. /\ step \notin Files
        /\ step' \in {"down", "pairing", "proactive", "asking", "connecting", "running"}
    <2>1. step \notin Files
      BY DEF Walks, Process!Start, Process!StartPairing, Process!PairingDenied,
         Process!ProactiveCheck, Process!Refused, Process!Connect, Process!ConnectFails,
         Process!GiveUp, Process!AnswerLost, Process!Crash, Files, Process!Files
    <2>2. step' \in {"down", "pairing", "proactive", "asking", "connecting", "running"}
      BY DEF Walks, Process!Start, Process!StartPairing, Process!PairingDenied,
         Process!ProactiveCheck, Process!Refused, Process!Connect, Process!ConnectFails,
         Process!GiveUp, Process!AnswerLost, Process!Crash, Process!Exit, Process!NoAnswer
    <2>3. QED
      BY <2>1, <2>2
  <1>3. /\ caller' = caller \/ caller' \in {"proactive", "reactive"}
        /\ refreshed' = refreshed \/ refreshed' = FALSE
        /\ faults' = faults \/ (faults < MaxFaults /\ faults' = faults + 1)
    BY DEF Walks, Process!Start, Process!StartPairing, Process!PairingDenied,
       Process!ProactiveCheck, Process!Refused, Process!Connect, Process!ConnectFails,
       Process!GiveUp, Process!AnswerLost, Process!Crash, Process!Fault
  <1>4. Newest' = Newest /\ Files' = Files /\ Handed'
    BY <1>1 DEF Newest, Process!Newest, Files, Process!Files, Handed
  <1>5. /\ token' \in 0..Newest /\ mine' \in 0..MaxPairings /\ pairings' \in 0..MaxPairings
        /\ step' = "pairing" => mine' > 0
        /\ cut \/ InUse'
    <2>1. CASE Process!Start
      <3>1. /\ disk["access"] \in 1..Newest /\ token' = disk["access"] /\ step' = "proactive"
            /\ mine' = triples[disk["access"]].family /\ pairings' = pairings
        BY <2>1 DEF Process!Start, Known, Handed, Files, Process!Files
      <3>2. mine' \in 1..MaxPairings
        <4>1. triples[disk["access"]] \in Triple
          BY <3>1 DEF Handed, Newest, Process!Newest
        <4>2. QED
          BY <3>1, <4>1 DEF Triple
      <3>3. Newest > 0
        BY <3>1 DEF Handed
      <3>4. cut \/ disk["access"] = Newest
        BY <1>2, <3>3 DEF Whole, OnDisk, Places
      <3>5. cut \/ InUse'
        BY <1>1, <1>4, <3>1, <3>3, <3>4 DEF InUse, Files, Process!Files
      <3>6. token' \in 0..Newest
        BY <3>1 DEF Handed
      <3>7. mine' \in 0..MaxPairings /\ pairings' \in 0..MaxPairings
        BY <3>1, <3>2, ProcessConstants DEF Numbers
      <3>8. QED
        BY <3>1, <3>5, <3>6, <3>7
    <2>2. CASE ~Process!Start
      <3>1. token' = token
        BY <2>2 DEF Walks, Process!StartPairing, Process!PairingDenied,
           Process!ProactiveCheck, Process!Refused, Process!Connect, Process!ConnectFails,
           Process!GiveUp, Process!AnswerLost, Process!Crash
      <3>2. \/ mine' = mine /\ pairings' = pairings
            \/ pairings < MaxPairings /\ pairings' = pairings + 1 /\ mine' = pairings'
        BY <2>2 DEF Walks, Process!StartPairing, Process!PairingDenied,
           Process!ProactiveCheck, Process!Refused, Process!Connect, Process!ConnectFails,
           Process!GiveUp, Process!AnswerLost, Process!Crash
      <3>3. step' \in {"down", "pairing"} \/ mine' = mine
        BY <2>2 DEF Walks, Process!StartPairing, Process!PairingDenied,
           Process!ProactiveCheck, Process!Refused, Process!Connect, Process!ConnectFails,
           Process!GiveUp, Process!AnswerLost, Process!Crash
      <3>4. step' = "pairing" => pairings' = pairings + 1 /\ mine' = pairings'
        BY <2>2 DEF Walks, Process!StartPairing, Process!PairingDenied,
           Process!ProactiveCheck, Process!Refused, Process!Connect, Process!ConnectFails,
           Process!GiveUp, Process!AnswerLost, Process!Crash, Process!Exit, Process!NoAnswer
      <3>5. \/ step' \in {"down", "pairing"}
            \/ step \in {"proactive", "asking", "connecting", "running"}
        BY <2>2 DEF Walks, Process!StartPairing, Process!PairingDenied,
           Process!ProactiveCheck, Process!Refused, Process!Connect, Process!ConnectFails,
           Process!GiveUp, Process!AnswerLost, Process!Crash, Process!Exit, Process!NoAnswer
      <3>6. mine' \in 0..MaxPairings /\ pairings' \in 0..MaxPairings
        BY <3>2, ProcessConstants DEF Numbers
      <3>7. step' = "pairing" => mine' > 0
        BY <3>4, ProcessConstants DEF Numbers
      <3>8. cut \/ InUse'
        BY <1>1, <1>2, <1>4, <3>1, <3>3, <3>5 DEF InUse, Whole, Files, Process!Files
      <3>9. QED
        BY <3>1, <3>6, <3>7, <3>8 DEF Known
    <2>3. QED
      BY <2>1, <2>2
  <1>6. Known'
    BY <1>1, <1>4, <1>5 DEF Known
  <1>7. Places'
    <2>1. step' \in Files \cup {"down", "pairing", "proactive", "asking", "connecting", "running"}
      BY <1>2
    <2>2. caller' \in {"pair", "proactive", "reactive"} /\ refreshed' \in BOOLEAN
      BY <1>3 DEF Places
    <2>3. QED
      BY <1>1, <1>4, <2>1, <2>2 DEF Places
  <1>8. Numbers'
    BY <1>3, <1>5, ProcessConstants DEF Numbers
  <1>9. AnswerHeld'
    BY <1>2, <1>5 DEF AnswerHeld, Files, Process!Files
  <1>10. BareUntilUpgrade'
    BY <1>1, <1>4 DEF BareUntilUpgrade
  <1>11. Whole'
    BY <1>1, <1>2, <1>4, <1>5 DEF Whole, OnDisk, Files, Process!Files
  <1>12. QED
    BY <1>4, <1>6, <1>7, <1>8, <1>9, <1>10, <1>11

\* The steps that touch a file.
Writes ==
    \/ Process!Write \/ Process!WriteFails
    \/ Process!Crash /\ step \in Files

\* A write either completes the newest triple or is remembered as cut.
LEMMA WritesKeep ==
  ASSUME ProcessInv, Writes
  PROVE  ProcessInv'
  <1> USE DEF ProcessInv, ProcessTypes
  <1>1. /\ UNCHANGED <<triples, accepted, legacy, caller, answer, mine, pairings, revoked>>
        /\ step \in Files
    BY DEF Writes, Process!Write, Process!WriteFails, Process!Crash, Process!server, Files
  <1>2. Newest' = Newest /\ Files' = Files /\ Handed'
    BY <1>1 DEF Newest, Process!Newest, Files, Process!Files, Handed
  <1>3. answer = Newest /\ Newest > 0
    BY <1>1 DEF AnswerHeld
  <1>4. PICK left \in {disk[step], 0, answer} : disk' = [disk EXCEPT ![step] = left]
    BY DEF Writes, Process!Write, Process!WriteFails, Process!Crash, Files
  <1>5. left \in 0..Newest
    BY <1>1, <1>3, <1>4 DEF Known, Handed
  <1>6. \/ /\ step = "access" /\ ~triples[answer].bare /\ step' = "refresh"
           /\ UNCHANGED <<token, refreshed>>
        \/ /\ step = "refresh" /\ step' = "expiry"
           /\ UNCHANGED <<token, refreshed>>
        \/ /\ step = "expiry" \/ (step = "access" /\ triples[answer].bare)
           /\ step' \in {"proactive", "connecting"} /\ token' = answer
           /\ refreshed' = (refreshed \/ caller = "reactive")
        \/ step' = "down" /\ UNCHANGED <<token, refreshed>>
    <2>1. CASE Process!AfterFile
      BY <1>1, <2>1 DEF Process!AfterFile, Process!Resume, Process!Bare, Files, Process!Files
    <2>2. CASE Process!Crash
      BY <2>2 DEF Process!Crash
    <2>3. QED
      BY <2>1, <2>2 DEF Writes, Process!Write, Process!WriteFails
  <1>7. Known'
    BY <1>1, <1>2, <1>4, <1>5, <1>6 DEF Known
  <1>8. Places' /\ Numbers'
    <2>1. step' \in {"refresh", "expiry", "proactive", "connecting", "down"}
      BY <1>6
    <2>2. cut' \in BOOLEAN /\ refreshed' \in BOOLEAN
      BY <1>6 DEF Writes, Process!Write, Process!WriteFails, Process!Crash, Files, Places
    <2>3. faults' = faults \/ (faults < MaxFaults /\ faults' = faults + 1)
      BY DEF Writes, Process!Write, Process!WriteFails, Process!Crash, Process!Fault
    <2>4. Places'
      BY <1>1, <1>2, <2>1, <2>2 DEF Places, Files, Process!Files
    <2>5. Numbers'
      BY <1>1, <2>3, ProcessConstants DEF Numbers
    <2>6. QED
      BY <2>4, <2>5
  <1>9. AnswerHeld'
    BY <1>1, <1>2, <1>3, <1>6 DEF AnswerHeld, Files, Process!Files
  <1>10. BareUntilUpgrade'
    <2>1. (Newest > 0 /\ triples[Newest].bare) => disk'["refresh"] = 0
      <3>1. CASE step = "refresh"
        BY <1>3, <3>1 DEF AnswerHeld
      <3>2. CASE step # "refresh"
        BY <1>4, <3>2 DEF BareUntilUpgrade, Known, Files, Process!Files
      <3>3. QED
        BY <3>1, <3>2
    <2>2. QED
      BY <1>1, <1>2, <2>1 DEF BareUntilUpgrade
  <1>11. Whole'
    <2>1. SUFFICES ASSUME ~cut' PROVE OnDisk' /\ InUse'
      BY DEF Whole
    <2>2. /\ Process!Write /\ ~cut /\ step' # "down"
          /\ disk' = [disk EXCEPT ![step] = Newest]
      <3>1. Process!Write
        BY <2>1 DEF Writes, Process!WriteFails, Process!Crash, Files
      <3>2. Process!AfterFile
        BY <3>1 DEF Process!Write
      <3>3. step' # "down"
        BY <3>2 DEF Process!AfterFile, Process!Resume
      <3>4. QED
        BY <1>3, <2>1, <3>1, <3>3 DEF Process!Write
    <2>3. OnDisk /\ InUse
      BY <2>2 DEF Whole
    <2>4. OnDisk'
      BY <1>1, <1>2, <1>3, <1>6, <2>2, <2>3 DEF OnDisk, Known, Files, Process!Files
    <2>5. InUse'
      BY <1>1, <1>2, <1>3, <1>6, <2>2, <2>3 DEF InUse, Files, Process!Files
    <2>6. QED
      BY <2>4, <2>5
  <1>12. QED
    BY <1>2, <1>7, <1>8, <1>9, <1>10, <1>11

\* A server that knows no rotation has handed out no refresh token.
LEMMA BareNotAccepted ==
  ASSUME ProcessInv, disk["refresh"] \in accepted
  PROVE  ~legacy /\ disk["refresh"] \in 1..Newest
  <1>1. Newest \in Nat /\ disk["refresh"] \in 1..Newest
    BY DEF ProcessInv, ProcessTypes, Handed, Known
  <1>2. triples[Newest].bare => disk["refresh"] = 0
    BY <1>1 DEF ProcessInv, BareUntilUpgrade
  <1>3. legacy => triples[Newest].bare
    BY <1>1 DEF ProcessInv, BareUntilUpgrade
  <1>4. QED
    BY <1>1, <1>2, <1>3

\* The steps in which the server hands out a triple.
Asks ==
    \/ Process!Refreshed
    \/ Process!AnswerLost /\ cut' = TRUE /\ Process!Rotate

\* A pairing starts over with a triple of its own.
LEMMA PairedKeeps ==
  ASSUME ProcessInv, Process!Paired
  PROVE  ProcessInv'
  <1> USE DEF ProcessInv, ProcessTypes
  <1>1. mine \in 1..MaxPairings /\ step = "pairing"
    BY ProcessConstants DEF Process!Paired, AnswerHeld, Numbers
  <1>2. Handed' /\ OneMore(mine) /\ legacy' = legacy
    BY <1>1, Issued DEF Process!Paired
  <1>3. /\ UNCHANGED <<disk, token, refreshed, mine, pairings, faults, cut, revoked>>
        /\ answer' = Newest' /\ caller' = "pair" /\ step' = "access"
        /\ accepted' \subseteq accepted \cup {Newest + 1}
    BY <1>2 DEF Process!Paired, OneMore, Newest
  <1>4. Newest' = Newest + 1 /\ Newest \in Nat /\ Files' = Files
    BY <1>2 DEF OneMore, Files, Process!Files, Handed
  <1>5. Known'
    BY <1>3, <1>4 DEF Known
  <1>6. Places' /\ Numbers'
    BY <1>2, <1>3, <1>4 DEF Places, Numbers, Files, Process!Files
  <1>7. AnswerHeld'
    BY <1>3, <1>4 DEF AnswerHeld
  <1>8. BareUntilUpgrade'
    <2>1. legacy => disk["refresh"] = 0
      <3>1. CASE Newest = 0
        BY <3>1 DEF Known, Files, Process!Files
      <3>2. CASE Newest > 0
        <4>1. legacy => triples[Newest].bare
          BY <1>4, <3>2 DEF BareUntilUpgrade
        <4>2. QED
          BY <3>2, <4>1 DEF BareUntilUpgrade
      <3>3. QED
        BY <1>4, <3>1, <3>2
    <2>2. legacy' => \A t \in 1..Newest' : triples'[t].bare
      <3>1. SUFFICES ASSUME legacy, NEW t \in 1..Newest + 1 PROVE triples'[t].bare
        BY <1>2, <1>4
      <3>2. CASE t \in 1..Newest
        BY <1>2, <3>1, <3>2 DEF BareUntilUpgrade, OneMore
      <3>3. CASE t = Newest + 1
        BY <1>2, <3>1, <3>3 DEF OneMore
      <3>4. QED
        BY <1>4, <3>2, <3>3
    <2>3. QED
      BY <1>2, <1>3, <1>4, <2>1, <2>2 DEF BareUntilUpgrade, OneMore
  <1>9. Whole'
    BY <1>2, <1>3, <1>4 DEF Whole, OnDisk, InUse, OneMore, Files, Process!Files
  <1>10. QED
    BY <1>2, <1>5, <1>6, <1>7, <1>8, <1>9

\* A rotation stays in the family of the refresh token it spends.
LEMMA AsksKeep ==
  ASSUME ProcessInv, Asks
  PROVE  ProcessInv'
  <1> USE DEF ProcessInv, ProcessTypes
  <1> DEFINE family == triples[disk["refresh"]].family
  <1>1. Process!Rotate /\ step = "asking"
    BY DEF Asks, Process!Refreshed, Process!AnswerLost
  <1>2. ~legacy /\ disk["refresh"] \in 1..Newest
    BY <1>1, BareNotAccepted DEF Process!Rotate
  <1>3. family \in 1..MaxPairings
    <2>1. triples[disk["refresh"]] \in Triple
      BY <1>2 DEF Handed, Newest, Process!Newest
    <2>2. QED
      BY <2>1 DEF Triple
  <1>4. Handed' /\ OneMore(family) /\ legacy' = legacy
    BY <1>1, <1>3, Issued DEF Process!Rotate
  <1>5. Newest' = Newest + 1 /\ Newest \in Nat /\ Files' = Files
    BY <1>4 DEF OneMore, Files, Process!Files, Handed
  <1>6. /\ UNCHANGED <<disk, caller, token, refreshed, mine, pairings, revoked>>
        /\ accepted' \subseteq accepted \cup {Newest + 1}
    BY DEF Asks, Process!Refreshed, Process!AnswerLost, Process!Rotate, Newest
  <1>7. \/ /\ step' = "access" /\ answer' = Newest' /\ cut' = cut /\ faults' = faults
        \/ /\ step' \in {"down", "connecting"} /\ answer' = answer /\ cut' = TRUE
           /\ faults < MaxFaults /\ faults' = faults + 1
    BY <1>5 DEF Asks, Process!Refreshed, Process!AnswerLost, Process!NoAnswer, Process!Fault,
       Newest
  <1>8. Known'
    BY <1>5, <1>6, <1>7 DEF Known
  <1>9. Places' /\ Numbers'
    <2>1. Places'
      BY <1>4, <1>5, <1>6, <1>7 DEF Places, Files, Process!Files
    <2>2. Numbers'
      BY <1>6, <1>7, ProcessConstants DEF Numbers
    <2>3. QED
      BY <2>1, <2>2
  <1>10. AnswerHeld'
    BY <1>5, <1>7 DEF AnswerHeld, Files, Process!Files
  <1>11. BareUntilUpgrade'
    BY <1>2, <1>4, <1>5 DEF BareUntilUpgrade, OneMore
  <1>12. Whole'
    <2>1. SUFFICES ASSUME ~cut' PROVE OnDisk' /\ InUse'
      BY DEF Whole
    <2>2. ~cut /\ step' = "access"
      BY <1>7, <2>1
    <2>3. triples[Newest].family = mine /\ Newest > 0 /\ step \notin Files
      BY <1>1, <2>2 DEF Whole, InUse, Files, Process!Files
    <2>4. disk["refresh"] = Newest
      BY <1>2, <2>2, <2>3 DEF Whole, OnDisk, BareUntilUpgrade
    <2>5. InUse'
      BY <1>4, <1>5, <1>6, <2>2, <2>3, <2>4 DEF InUse, OneMore, Files, Process!Files
    <2>6. OnDisk'
      BY <1>5, <2>2 DEF OnDisk, Files, Process!Files
    <2>7. QED
      BY <2>5, <2>6
  <1>13. QED
    BY <1>4, <1>8, <1>9, <1>10, <1>11, <1>12

\* Every step of the process keeps its invariant.
LEMMA ProcessStep == ProcessInv /\ Process!Next => ProcessInv'
  <1> SUFFICES ASSUME ProcessInv, Process!Next PROVE ProcessInv'
    OBVIOUS
  <1>1. \/ (\E t \in DOMAIN triples : Process!Age(t)) \/ Process!Revoke \/ Process!Upgrade
        \/ Walks \/ Writes \/ Process!Paired \/ Asks
    <2>1. CASE Process!AnswerLost
      BY <2>1 DEF Process!AnswerLost, Walks, Asks, Process!server
    <2>2. CASE Process!Crash
      BY <2>2 DEF Walks, Writes
    <2>3. CASE ~Process!AnswerLost /\ ~Process!Crash
      BY <2>3 DEF Process!Next, Process!Proceed, Walks, Writes, Asks
    <2>4. QED
      BY <2>1, <2>2, <2>3
  <1>2. QED
    BY <1>1, AgesKeep, WalksKeep, WritesKeep, PairedKeeps, AsksKeep

\* A step of the loop keeps the process's invariant.
LEMMA ProcessRests == ProcessInv /\ UNCHANGED process => ProcessInv'
  BY DEF process, ProcessInv, ProcessTypes, Handed, Known, Places, Numbers, AnswerHeld,
     BareUntilUpgrade, Whole, OnDisk, InUse, Newest, Process!Newest, Files, Process!Files, Triple,
     Process!Lives

-----------------------------------------------------------------------------
(* The agent.                                                               *)

Inv == following \in {"process", "loop"} /\ ProcessInv /\ LoopInv

(* The process's invariant and the loop's, each stable under the other.       *)
THEOREM Invariance == Spec => []Inv
  <1>1. Init => Inv
    BY ProcessInit, LoopInit DEF Init, Inv
  <1>2. Inv /\ [Next]_vars => Inv'
    <2> SUFFICES ASSUME Inv, [Next]_vars PROVE Inv'
      OBVIOUS
    <2>1. CASE Process!Next /\ UNCHANGED <<following, mainLoop>>
      BY <2>1, ProcessStep, LoopRests DEF Inv
    <2>2. CASE Loop!Next /\ UNCHANGED <<following, process>>
      BY <2>2, LoopStep, ProcessRests DEF Inv
    <2>3. CASE UNCHANGED vars
      BY <2>3, ProcessRests, LoopRests DEF vars, Inv
    <2>4. QED
      BY <2>1, <2>2, <2>3 DEF Next
  <1>3. QED
    BY <1>1, <1>2, PTL DEF Spec

(* Every variable of the agent keeps its type.                                *)
THEOREM Types == Spec => []TypeOK
  <1>1. Inv => TypeOK
    BY ProcessTyped, LoopTyped DEF Inv, ProcessInv, LoopInv, TypeOK
  <1>2. QED
    BY <1>1, Invariance, PTL

(* Only a rotation cut short parts the three credential files.                *)
THEOREM OneRotation == Spec => []FilesAgree
  <1>1. Inv => FilesAgree
    <2> SUFFICES ASSUME Inv, triples # <<>>, ~cut, step \notin Process!Files
                 PROVE  \A f \in IF Process!Bare(Process!Newest) THEN {"access"} ELSE Process!Files :
                            disk[f] = Process!Newest
      BY DEF FilesAgree, Process!FilesAgree
    <2>1. Newest > 0
      BY EmptySeq DEF Inv, ProcessInv, ProcessTypes, Handed, Newest, Process!Newest
    <2>2. OnDisk
      BY DEF Inv, ProcessInv, Whole
    <2>3. QED
      BY <2>1, <2>2 DEF OnDisk, Newest, Files, Process!Files, Process!Bare
  <1>2. QED
    BY <1>1, Invariance, PTL

(* --pair supersedes the credentials it finds on the disk.                    *)
THEOREM OnePairing == Spec => []PairingSupersedes
  <1>1. Inv => PairingSupersedes
    BY DEF Inv, ProcessInv, Whole, InUse, PairingSupersedes, Process!PairingSupersedes
  <1>2. QED
    BY <1>1, Invariance, PTL

(* A loop that is not stuck ends a dropped session in time, and none that was *)
(* well while the queue took its Pings.                                       *)
THEOREM Watching == Spec => []WatchdogIsRight
  <1>1. Inv => WatchdogIsRight
    BY LoopIsRight DEF Inv
  <1>2. QED
    BY <1>1, Invariance, PTL
=============================================================================
