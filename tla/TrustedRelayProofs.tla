------------------------- MODULE TrustedRelayProofs -------------------------
(***************************************************************************)
(* Proofs about TrustedRelay, for any ids, number of messages and answers  *)
(* of the gate: a connection carries one session of one id, and nothing    *)
(* follows the report of its end.                                          *)
(***************************************************************************)
EXTENDS TrustedRelay, SequenceTheorems, TLAPS

\* What the gate has read, is going to read, and may still be written to it.
Pipe(c) ==
    gateGot[c] \o toGate[c] \o (IF writer[c] = "running" THEN channel[c] ELSE <<>>)

Read == 1 .. Len(inbox)

\* Between two messages of a session the id had no other for it.
Follows(c, before, m) ==
    /\ before < m
    /\ IdOf(m) = IdOf(owner[c])
    /\ KindOf(m) \in {"frame", "close"}
    /\ KindOf(before) # "close"
    /\ \A between \in before + 1 .. m - 1 :
           IdOf(between) = IdOf(m) => KindOf(between) \in {"start", "mismatch"}

\* A sequence of messages that one session of the connection could have sent.
OneSession(c, s) ==
    \A k \in 1 .. Len(s) :
        /\ s[k] \in Read
        /\ k = 1 => s[k] = owner[c]
        /\ k > 1 => Follows(c, s[k - 1], s[k])

PipesHold == \A c \in Conns : OneSession(c, Pipe(c))

\* The next message of the id would follow the last one in the pipe.
Awaits(c, last) ==
    /\ KindOf(last) # "close"
    /\ \A between \in last + 1 .. Len(inbox) :
           IdOf(between) = IdOf(owner[c]) => KindOf(between) \in {"start", "mismatch"}

PipesAwait ==
    \A i \in Ids : sessions[i] # 0 /\ writer[sessions[i]] = "running" =>
        /\ Pipe(sessions[i]) # <<>>
        /\ Awaits(sessions[i], Pipe(sessions[i])[Len(Pipe(sessions[i]))])

\* A connection is its id's session until the id is closed.
ClosedAfter(c) ==
    \E m \in owner[c] + 1 .. Len(inbox) : IdOf(m) = IdOf(owner[c]) /\ KindOf(m) = "close"

SessionOrClosed ==
    /\ \A c \in 1 .. opened :
           /\ owner[c] \in Read
           /\ sessions[IdOf(owner[c])] = c \/ ClosedAfter(c)
    /\ \A i \in Ids : sessions[i] # 0 =>
           sessions[i] \in 1 .. opened /\ IdOf(owner[sessions[i]]) = i

\* Nothing has happened on a connection that is not open yet.
Unopened ==
    \A c \in Conns : c > opened =>
           /\ gateGot[c] = <<>> /\ toGate[c] = <<>> /\ channel[c] = <<>>
           /\ writer[c] = "none" /\ gate[c] = "none"
           /\ reader[c] = "none" /\ sent[c] = <<>>

\* A connection whose reader runs has not reported its end.
NotYetComplete ==
    \A c \in Conns : reader[c] = "running" => \A k \in 1 .. Len(sent[c]) : ~sent[c][k]

IInv ==
    /\ TypeOK /\ Len(inbox) <= MaxMessages /\ opened <= Len(inbox)
    /\ PipesHold /\ PipesAwait /\ SessionOrClosed /\ Unopened /\ NotYetComplete
    /\ OneConnectionPerId /\ CompleteIsLast

-----------------------------------------------------------------------------
(* Sequences.                                                               *)

(* Reading the head of t and adding it to s leaves their concatenation.     *)
LEMMA HeadMoves ==
    ASSUME NEW S, NEW s \in Seq(S), NEW t \in Seq(S), t # <<>>
    PROVE  Append(s, Head(t)) \o Tail(t) = s \o t
<1>1. /\ Head(t) \in S /\ Tail(t) \in Seq(S) /\ Len(Tail(t)) = Len(t) - 1
      /\ \A k \in 1 .. Len(Tail(t)) : Tail(t)[k] = t[k + 1]
      /\ Head(t) = t[1] /\ Len(t) \in Nat \ {0}
    BY HeadTailProperties, EmptySeq
<1>2. /\ Append(s, Head(t)) \in Seq(S) /\ Len(Append(s, Head(t))) = Len(s) + 1
      /\ \A k \in 1 .. Len(s) : Append(s, Head(t))[k] = s[k]
      /\ Append(s, Head(t))[Len(s) + 1] = t[1]
      /\ Len(s) \in Nat
    BY <1>1, AppendProperties
<1>3. /\ s \o t \in Seq(S) /\ Len(s \o t) = Len(s) + Len(t)
      /\ \A k \in 1 .. Len(s) + Len(t) :
             (s \o t)[k] = IF k <= Len(s) THEN s[k] ELSE t[k - Len(s)]
    BY ConcatProperties
<1> DEFINE u == Append(s, Head(t)) \o Tail(t)
<1>4. /\ u \in Seq(S) /\ Len(u) = Len(s) + 1 + (Len(t) - 1)
      /\ \A k \in 1 .. Len(s) + 1 + (Len(t) - 1) :
             u[k] = IF k <= Len(s) + 1 THEN Append(s, Head(t))[k]
                    ELSE Tail(t)[k - (Len(s) + 1)]
    BY <1>1, <1>2, ConcatProperties
<1>5. ASSUME NEW k \in 1 .. Len(s) + Len(t) PROVE u[k] = (s \o t)[k]
  <2>1. CASE k <= Len(s)
      BY <1>1, <1>2, <1>3, <1>4, <2>1
  <2>2. CASE k = Len(s) + 1
      BY <1>1, <1>2, <1>3, <1>4, <2>2
  <2>3. CASE k > Len(s) + 1
    <3>1. u[k] = Tail(t)[k - (Len(s) + 1)]
        BY <1>1, <1>2, <1>4, <2>3
    <3>2. k - (Len(s) + 1) \in 1 .. Len(Tail(t))
        BY <1>1, <1>2, <2>3
    <3>3. Tail(t)[k - (Len(s) + 1)] = t[k - (Len(s) + 1) + 1]
        BY <1>1, <3>2
    <3>4. k - (Len(s) + 1) + 1 = k - Len(s)
        BY <1>2
    <3> QED
        BY <1>2, <1>3, <2>3, <3>1, <3>3, <3>4
  <2> QED
      BY <1>2, <2>1, <2>2, <2>3
<1> HIDE DEF u
<1>6. u = s \o t
    BY <1>1, <1>2, <1>3, <1>4, <1>5, SeqEqual
<1> QED
    BY <1>6 DEF u

(* Concatenation is associative.                                            *)
LEMMA Associative ==
    \A s, t, u \in Seq(Positions) : (s \o t) \o u = s \o (t \o u)
BY ConcatAssociative

(* The same with what is before s.                                          *)
LEMMA HeadMovesAfter ==
    \A r, s, t \in Seq(Positions) :
        t # <<>> => (r \o Append(s, Head(t))) \o Tail(t) = (r \o s) \o t
<1> SUFFICES ASSUME NEW r \in Seq(Positions), NEW s \in Seq(Positions),
                    NEW t \in Seq(Positions), t # <<>>
             PROVE  (r \o Append(s, Head(t))) \o Tail(t) = (r \o s) \o t
    OBVIOUS
<1>1. Head(t) \in Positions /\ Tail(t) \in Seq(Positions)
    BY HeadTailProperties
<1>2. Append(s, Head(t)) \in Seq(Positions)
    BY <1>1, AppendProperties
<1>3. (r \o Append(s, Head(t))) \o Tail(t) = r \o (Append(s, Head(t)) \o Tail(t))
  <2>1. PICK u \in Seq(Positions) : u = Append(s, Head(t))
      BY <1>2
  <2>2. PICK v \in Seq(Positions) : v = Tail(t)
      BY <1>1
  <2>3. (r \o u) \o v = r \o (u \o v)
      BY Associative
  <2> QED
      BY <2>1, <2>2, <2>3, Zenon
<1>4. (r \o s) \o t = r \o (s \o t)
    BY Associative
<1>5. Append(s, Head(t)) \o Tail(t) = s \o t
    BY HeadMoves
<1> QED
    BY <1>3, <1>4, <1>5

(* Cutting off the end leaves the beginning.                                *)
LEMMA CutIsPrefix ==
    ASSUME NEW S, NEW s \in Seq(S), NEW t \in Seq(S)
    PROVE  Len(s) <= Len(s \o t) /\ \A k \in 1 .. Len(s) : (s \o t)[k] = s[k]
BY ConcatProperties

-----------------------------------------------------------------------------
(* The pipe of a connection.                                                *)

(* A pipe is a sequence of messages, before a step and after it.            *)
LEMMA PipeType ==
    ASSUME TypeOK, NEW c \in Conns
    PROVE  Pipe(c) \in Seq(Positions)
<1>1. /\ gateGot[c] \in Seq(Positions) /\ toGate[c] \in Seq(Positions)
      /\ channel[c] \in Seq(Positions) /\ <<>> \in Seq(Positions)
    BY DEF TypeOK
<1>2. (IF writer[c] = "running" THEN channel[c] ELSE <<>>) \in Seq(Positions)
    BY <1>1
<1>3. gateGot[c] \o toGate[c] \in Seq(Positions)
    BY <1>1, ConcatProperties
<1> QED
    BY <1>2, <1>3, ConcatProperties DEF Pipe

LEMMA PipeTypeNext ==
    ASSUME TypeOK', NEW c \in Conns
    PROVE  Pipe(c)' \in Seq(Positions)
<1>1. /\ gateGot'[c] \in Seq(Positions) /\ toGate'[c] \in Seq(Positions)
      /\ channel'[c] \in Seq(Positions) /\ <<>> \in Seq(Positions)
    BY DEF TypeOK
<1>2. (IF writer'[c] = "running" THEN channel'[c] ELSE <<>>) \in Seq(Positions)
    BY <1>1
<1>3. gateGot'[c] \o toGate'[c] \in Seq(Positions)
    BY <1>1, ConcatProperties
<1> QED
    BY <1>2, <1>3, ConcatProperties DEF Pipe

(* A task or the gate adds nothing to a pipe: its messages move on in it,   *)
(* or the write to a closed socket fails and the rest is lost.              *)
LEMMA SocketStep ==
    ASSUME TypeOK, NEW d \in Conns, Writer(d) \/ Gate(d) \/ Reader(d), NEW c \in Conns
    PROVE  /\ UNCHANGED loop
           /\ writer'[c] = "running" => writer[c] = "running" /\ Pipe(c)' = Pipe(c)
           /\ Len(Pipe(c)') <= Len(Pipe(c))
           /\ \A k \in 1 .. Len(Pipe(c)') : Pipe(c)'[k] = Pipe(c)[k]
<1>1. /\ gateGot[c] \in Seq(Positions) /\ toGate[c] \in Seq(Positions)
      /\ channel[c] \in Seq(Positions)
    BY DEF TypeOK
<1>2. UNCHANGED loop
    BY DEF Writer, Gate, Reader, WriteFrame, WriterEnds, GateReads, GateAnswers,
           GateTyped, GateCloses, ReadFrame, ReadEof
<1>3. Pipe(c) \in Seq(Positions) /\ Len(Pipe(c)) \in Nat
    BY PipeType, LenProperties
<1> USE DEF TypeOK
<1>4. CASE Pipe(c)' = Pipe(c) /\ writer'[c] = writer[c]
    BY <1>2, <1>3, <1>4
<1>5. CASE UNCHANGED <<gateGot, toGate, channel, writer>>
  <2>1. Pipe(c)' = Pipe(c)
      BY <1>5 DEF Pipe
  <2> QED
      BY <1>2, <1>3, <1>5, <2>1
<1>6. CASE GateReads(d)
  <2>1. CASE d # c
    <3>1. UNCHANGED <<gateGot[c], toGate[c], channel, writer>>
        BY <1>6, <2>1 DEF GateReads
    <3> QED
        BY <1>4, <3>1 DEF Pipe
  <2>2. CASE d = c
    <3>1. /\ gateGot'[c] = Append(gateGot[c], Head(toGate[c]))
          /\ toGate'[c] = Tail(toGate[c]) /\ toGate[c] # <<>>
          /\ channel' = channel /\ writer' = writer
        BY <1>6, <2>2 DEF GateReads
    <3>2. gateGot'[c] \o toGate'[c] = gateGot[c] \o toGate[c]
        BY <1>1, <3>1, HeadMoves
    <3> QED
        BY <1>4, <3>1, <3>2 DEF Pipe
  <2> QED
      BY <2>1, <2>2
<1>7. CASE WriteFrame(d) \/ WriterEnds(d)
  <2>1. CASE d # c
    <3>1. UNCHANGED <<gateGot, toGate[c], channel[c], writer[c]>>
        BY <1>7, <2>1 DEF WriteFrame, WriterEnds, gateSide
    <3> QED
        BY <1>4, <3>1 DEF Pipe
  <2>2. CASE d = c /\ writer'[c] = "running"
    <3>1. /\ writer[c] = "running" /\ gateGot' = gateGot /\ channel[c] # <<>>
          /\ toGate'[c] = Append(toGate[c], Head(channel[c]))
          /\ channel'[c] = Tail(channel[c])
        BY <1>7, <2>2 DEF WriteFrame, WriterEnds, gateSide
    <3> HIDE DEF TypeOK
    <3>2. (gateGot[c] \o Append(toGate[c], Head(channel[c]))) \o Tail(channel[c])
              = (gateGot[c] \o toGate[c]) \o channel[c]
      <4>1. PICK r \in Seq(Positions) : r = gateGot[c]
          BY <1>1
      <4>2. PICK s \in Seq(Positions) : s = toGate[c]
          BY <1>1
      <4>3. PICK t \in Seq(Positions) : t = channel[c] /\ t # <<>>
          BY <1>1, <3>1
      <4>4. t # <<>>
          BY <4>3
      <4>5. (r \o Append(s, Head(t))) \o Tail(t) = (r \o s) \o t
          BY <4>4, HeadMovesAfter
      <4> QED
          BY <4>1, <4>2, <4>3, <4>5, Zenon
    <3> QED
        BY <1>4, <2>2, <3>1, <3>2 DEF Pipe
  <2>3. CASE d = c /\ writer'[c] # "running"
    <3>1. writer[c] = "running" /\ gateGot' = gateGot /\ toGate' = toGate
        BY <1>7, <2>3 DEF WriteFrame, WriterEnds, gateSide
    <3>2. gateGot[c] \o toGate[c] \in Seq(Positions)
        BY <1>1, ConcatProperties
    <3>3. Pipe(c)' = gateGot[c] \o toGate[c]
        BY <2>3, <3>1, <3>2, ConcatEmptySeq DEF Pipe
    <3>4. Pipe(c) = (gateGot[c] \o toGate[c]) \o channel[c]
        BY <3>1 DEF Pipe
    <3> HIDE DEF TypeOK
    <3>5. /\ Len(gateGot[c] \o toGate[c]) <= Len((gateGot[c] \o toGate[c]) \o channel[c])
          /\ \A k \in 1 .. Len(gateGot[c] \o toGate[c]) :
                 ((gateGot[c] \o toGate[c]) \o channel[c])[k] = (gateGot[c] \o toGate[c])[k]
        BY <1>1, <3>2, CutIsPrefix
    <3> QED
        BY <1>2, <2>3, <3>3, <3>4, <3>5
  <2> QED
      BY <2>1, <2>2, <2>3
<1> QED
    BY <1>5, <1>6, <1>7
    DEF Writer, Gate, Reader, GateAnswers, GateTyped, GateCloses, ReadFrame, ReadEof,
        gateSide

-----------------------------------------------------------------------------
(* The initial states satisfy the invariant.                                *)
LEMMA InitIInv == Init => IInv
<1> SUFFICES ASSUME Init PROVE IInv
    OBVIOUS
<1>1. TypeOK
    BY BoundsAssumption DEF Init, TypeOK, Conns
<1>2. Len(inbox) <= MaxMessages /\ opened <= Len(inbox)
    BY BoundsAssumption DEF Init
<1>3. PipesHold
  <2> SUFFICES ASSUME NEW c \in Conns PROVE OneSession(c, Pipe(c))
      BY DEF PipesHold
  <2>1. Pipe(c) = <<>>
      BY DEF Init, Pipe
  <2> QED
      BY <2>1 DEF OneSession
<1>4. PipesAwait /\ OneConnectionPerId
    BY DEF Init, PipesAwait, OneConnectionPerId
<1>5. SessionOrClosed /\ Unopened
    BY DEF Init, SessionOrClosed, Unopened
<1>6. NotYetComplete /\ CompleteIsLast
    BY DEF Init, NotYetComplete, CompleteIsLast
<1> QED
    BY <1>1, <1>2, <1>3, <1>4, <1>5, <1>6 DEF IInv

-----------------------------------------------------------------------------
(* The tasks and the gate.                                                  *)

(* The tasks and the gate keep the types.                                   *)
LEMMA SocketTypes ==
    ASSUME TypeOK, NEW d \in Conns, Writer(d) \/ Gate(d) \/ Reader(d)
    PROVE  TypeOK'
<1> USE DEF TypeOK, loop, gateSide, told
<1>1. CASE WriteFrame(d)
  <2>1. Head(channel[d]) \in Positions /\ Tail(channel[d]) \in Seq(Positions)
      BY <1>1 DEF WriteFrame
  <2>2. channel' \in [Conns -> Seq(Positions)]
      BY <1>1, <2>1 DEF WriteFrame
  <2>3. Append(toGate[d], Head(channel[d])) \in Seq(Positions)
      BY <2>1
  <2>4. toGate' \in [Conns -> Seq(Positions)]
      BY <1>1, <2>3 DEF WriteFrame
  <2>5. writer' \in [Conns -> {"none", "running", "ended"}]
      BY <1>1 DEF WriteFrame
  <2> QED
      BY <1>1, <2>2, <2>4, <2>5 DEF WriteFrame
<1>2. CASE WriterEnds(d)
    BY <1>2 DEF WriterEnds
<1>3. CASE GateReads(d)
  <2>1. Head(toGate[d]) \in Positions /\ Tail(toGate[d]) \in Seq(Positions)
      BY <1>3 DEF GateReads
  <2>2. Append(gateGot[d], Head(toGate[d])) \in Seq(Positions)
      BY <2>1
  <2> QED
      BY <1>3, <2>1, <2>2 DEF GateReads
<1>3t. CASE GateTyped(d)
    BY <1>3t DEF GateTyped
<1>4. CASE GateAnswers(d)
  <2>1. Append(fromGate[d], "frame") \in Seq({"frame", "final"})
      OBVIOUS
  <2>2. answered' \in [Conns -> 0 .. MaxHostFrames]
      BY <1>4, BoundsAssumption DEF GateAnswers
  <2> QED
      BY <1>4, <2>1, <2>2 DEF GateAnswers
<1>5. CASE GateCloses(d)
  <2>1. PICK last \in {<<>>, <<"final">>} :
            fromGate' = [fromGate EXCEPT ![d] = @ \o last]
      BY <1>5 DEF GateCloses
  <2>2. fromGate[d] \o last \in Seq({"frame", "final"})
    <3>1. <<>> \in Seq({"frame", "final"}) /\ <<"final">> \in Seq({"frame", "final"})
        OBVIOUS
    <3>2. fromGate[d] \in Seq({"frame", "final"})
        OBVIOUS
    <3> QED
        BY <2>1, <3>1, <3>2, ConcatProperties
  <2>3. fromGate' \in [Conns -> Seq({"frame", "final"})]
      BY <2>1, <2>2
  <2> QED
      BY <1>5, <2>3 DEF GateCloses
<1>6. ASSUME NEW flag \in BOOLEAN, Offer(d, flag)
      PROVE  sent' \in [Conns -> Seq(BOOLEAN)] /\ missed' \subseteq Conns
  <2>1. Append(sent[d], flag) \in Seq(BOOLEAN)
      OBVIOUS
  <2> QED
      BY <1>6, <2>1 DEF Offer
<1>7. CASE ReadFrame(d)
  <2>1. sent' \in [Conns -> Seq(BOOLEAN)] /\ missed' \subseteq Conns
      BY <1>6, <1>7 DEF ReadFrame
  <2>2. Tail(fromGate[d]) \in Seq({"frame", "final"})
      BY <1>7 DEF ReadFrame
  <2> QED
      BY <1>7, <2>1, <2>2 DEF ReadFrame, Offer
<1>8. CASE ReadEof(d)
  <2>1. sent' \in [Conns -> Seq(BOOLEAN)] /\ missed' \subseteq Conns
      BY <1>6, <1>8 DEF ReadEof
  <2> QED
      BY <1>8, <2>1 DEF ReadEof, Offer
<1> QED
    BY <1>1, <1>2, <1>3, <1>3t, <1>4, <1>5, <1>7, <1>8 DEF Writer, Gate, Reader

(* The reader's reports: the task that offers TRUE ends.                    *)
LEMMA SocketReports ==
    ASSUME IInv, NEW d \in Conns, Writer(d) \/ Gate(d) \/ Reader(d)
    PROVE  (NotYetComplete /\ CompleteIsLast)'
<1> USE DEF IInv, TypeOK, told
<1>1. CASE sent' = sent /\ reader' = reader
    BY <1>1 DEF NotYetComplete, CompleteIsLast
<1>1r. CASE sent' = sent /\ \A c \in Conns : reader'[c] = "running" => reader[c] = "running"
    BY <1>1r DEF NotYetComplete, CompleteIsLast
<1>2. ASSUME NEW flag \in BOOLEAN, reader[d] = "running",
             sent' = [sent EXCEPT ![d] = Append(@, flag)],
             flag => reader' = [reader EXCEPT ![d] = "ended"],
             ~flag => reader' = reader
      PROVE  (NotYetComplete /\ CompleteIsLast)'
  <2>1. /\ sent'[d] = Append(sent[d], flag)
        /\ \A c \in Conns \ {d} : sent'[c] = sent[c] /\ reader'[c] = reader[c]
      BY <1>2
  <2>2. /\ Len(sent[d]) \in Nat /\ Len(sent'[d]) = Len(sent[d]) + 1
        /\ \A k \in 1 .. Len(sent[d]) : sent'[d][k] = sent[d][k]
        /\ sent'[d][Len(sent[d]) + 1] = flag
      BY <2>1
  <2>3. \A k \in 1 .. Len(sent[d]) : ~sent[d][k]
      BY <1>2 DEF NotYetComplete
  <2>4. NotYetComplete'
    <3> SUFFICES ASSUME NEW c \in Conns, reader'[c] = "running",
                        NEW k \in 1 .. Len(sent'[c])
                 PROVE  ~sent'[c][k]
        BY DEF NotYetComplete
    <3>1. CASE c # d
        BY <2>1, <3>1 DEF NotYetComplete
    <3>2. CASE c = d
      <4>1. flag = FALSE
          BY <1>2, <3>2
      <4>2. k \in 1 .. Len(sent[d]) \/ k = Len(sent[d]) + 1
          BY <2>2, <3>2
      <4>3. CASE k \in 1 .. Len(sent[d])
        <5>1. sent'[c][k] = sent[d][k]
            BY <2>2, <3>2, <4>3
        <5> QED
            BY <2>3, <4>3, <5>1, Zenon
      <4>4. CASE k = Len(sent[d]) + 1
          BY <2>2, <3>2, <4>1, <4>4, Zenon
      <4> QED
          BY <4>2, <4>3, <4>4
    <3> QED
        BY <3>1, <3>2
  <2>5. CompleteIsLast'
    <3> SUFFICES ASSUME NEW c \in Conns, NEW k \in 1 .. Len(sent'[c]) - 1
                 PROVE  ~sent'[c][k]
        BY DEF CompleteIsLast
    <3>1. CASE c # d
        BY <2>1, <3>1 DEF CompleteIsLast
    <3>2. CASE c = d
      <4>1. k \in 1 .. Len(sent[d])
          BY <2>2, <3>2
      <4>2. sent'[c][k] = sent[d][k]
          BY <2>2, <3>2, <4>1
      <4> QED
          BY <2>3, <4>1, <4>2, Zenon
    <3> QED
        BY <3>1, <3>2
  <2> QED
      BY <2>4, <2>5
<1>3. CASE ReadFrame(d)
  <2>1. CASE sent' = sent
      BY <1>1r, <1>3, <2>1 DEF ReadFrame
  <2>2. CASE sent' # sent /\ Head(fromGate[d]) = "final"
      BY <1>2, <1>3, <2>2 DEF ReadFrame, Offer
  <2>3. CASE sent' # sent /\ Head(fromGate[d]) # "final"
      BY <1>2, <1>3, <2>3 DEF ReadFrame, Offer
  <2> QED
      BY <2>1, <2>2, <2>3
<1>4. CASE ReadEof(d)
  <2>1. CASE sent' = sent
      BY <1>1r, <1>4, <2>1 DEF ReadEof
  <2>2. CASE sent' # sent
      BY <1>2, <1>4, <2>2 DEF ReadEof, Offer
  <2> QED
      BY <2>1, <2>2
<1> QED
    BY <1>1, <1>3, <1>4
    DEF Writer, Gate, Reader, WriteFrame, WriterEnds, GateReads, GateTyped,
        GateAnswers, GateCloses

(* The tasks and the gate keep the invariant.                               *)
LEMMA SocketKeeps ==
    ASSUME IInv, NEW d \in Conns, Writer(d) \/ Gate(d) \/ Reader(d)
    PROVE  IInv'
<1>1. TypeOK /\ UNCHANGED loop
    BY SocketStep DEF IInv
<1>2. UNCHANGED <<inbox, sessions, opened, owner>>
    BY <1>1 DEF loop
<1>3. PipesHold'
  <2> SUFFICES ASSUME NEW c \in Conns PROVE OneSession(c, Pipe(c))'
      BY DEF PipesHold
  <2>1. PICK s : s = Pipe(c)
      OBVIOUS
  <2>2. PICK t : t = Pipe(c)'
      OBVIOUS
  <2>3. OneSession(c, s)
      BY <2>1 DEF IInv, PipesHold
  <2>4. Len(t) <= Len(s) /\ \A k \in 1 .. Len(t) : t[k] = s[k]
      BY <1>1, <2>1, <2>2, SocketStep
  <2>5. Len(s) \in Nat /\ Len(t) \in Nat
    <3>1. s \in Seq(Positions)
        BY <1>1, <2>1, PipeType
    <3>2. TypeOK'
        BY <1>1, SocketTypes
    <3>3. t \in Seq(Positions)
        BY <2>2, <3>2, PipeTypeNext
    <3> QED
        BY <3>1, <3>3, LenProperties
  <2>6. OneSession(c, t)
      BY <2>3, <2>4, <2>5 DEF OneSession
  <2>7. OneSession(c, t)'
      BY <1>2, <2>6 DEF OneSession, Follows, IdOf, KindOf, Read
  <2> QED
      BY <2>2, <2>7 DEF OneSession
<1>4. PipesAwait'
  <2> SUFFICES ASSUME NEW i \in Ids, sessions[i] # 0, writer'[sessions[i]] = "running"
               PROVE  /\ Pipe(sessions[i])' # <<>>
                      /\ Awaits(sessions[i], Pipe(sessions[i])[Len(Pipe(sessions[i]))])'
      BY <1>2 DEF PipesAwait
  <2>1. PICK c \in Conns : c = sessions[i]
      BY DEF IInv, TypeOK, Conns
  <2>2. PICK s : s = Pipe(c)
      OBVIOUS
  <2>3. writer[c] = "running" /\ Pipe(c)' = s
      BY <1>1, <2>1, <2>2, SocketStep
  <2>4. s # <<>> /\ Awaits(c, s[Len(s)])
      BY <2>1, <2>2, <2>3 DEF IInv, PipesAwait
  <2>5. Awaits(c, s[Len(s)])'
      BY <1>2, <2>4 DEF Awaits, IdOf, KindOf
  <2> QED
      BY <1>2, <2>1, <2>3, <2>4, <2>5 DEF Awaits
<1>5. SessionOrClosed' /\ Unopened'
  <2>1. \A c \in Conns : c > opened =>
            UNCHANGED <<gateGot[c], toGate[c], channel[c], writer[c], gate[c],
                        reader[c], sent[c]>>
    <3>1. d <= opened
      <4>1. \/ writer[d] = "running" \/ reader[d] = "running"
                \/ gate[d] \in {"serving", "typing"}
          BY DEF Writer, Gate, Reader, WriteFrame, WriterEnds, GateReads, GateAnswers,
             GateTyped, GateCloses, ReadFrame, ReadEof
      <4>2. ~(d > opened)
          BY <4>1 DEF IInv, Unopened
      <4> QED
          BY <4>2 DEF IInv, TypeOK, Conns
    <3>2. \A c \in Conns : c > opened => c # d
        BY <3>1 DEF Conns, IInv, TypeOK
    <3> QED
        BY <3>2 DEF IInv, TypeOK, Writer, Gate, Reader, WriteFrame, WriterEnds, GateReads,
           GateTyped, GateAnswers, GateCloses, ReadFrame, ReadEof, Offer, gateSide, told
  <2> QED
      BY <1>2, <2>1 DEF IInv, SessionOrClosed, Unopened, ClosedAfter, IdOf, KindOf, Read
<1>6. OneConnectionPerId' /\ Len(inbox') <= MaxMessages /\ opened' <= Len(inbox')
    BY <1>2 DEF IInv, OneConnectionPerId, IdOf, KindOf
<1> QED
    BY <1>1, <1>3, <1>4, <1>5, <1>6, SocketTypes, SocketReports DEF IInv

-----------------------------------------------------------------------------
(* The main loop.                                                           *)

\* What every message does to the inbox.
Grown(i, what) ==
    /\ Len(inbox) < MaxMessages
    /\ inbox' \in Seq([id : Ids, kind : Kinds])
    /\ Len(inbox) \in Nat /\ Len(inbox') = Len(inbox) + 1
    /\ \A m \in Read : IdOf(m)' = IdOf(m) /\ KindOf(m)' = KindOf(m)
    /\ inbox'[n].id = i /\ inbox'[n].kind = what
    /\ n = Len(inbox) + 1 /\ n \in Positions

(* Reading a message leaves those read before it.                           *)
LEMMA InboxGrows ==
    ASSUME TypeOK, NEW i \in Ids, NEW what \in Kinds, Reads(i, what)
    PROVE  Grown(i, what)
<1> DEFINE msg == [id |-> i, kind |-> what]
<1>1. msg \in [id : Ids, kind : Kinds]
    OBVIOUS
<1>2. inbox \in Seq([id : Ids, kind : Kinds]) /\ inbox' = Append(inbox, msg)
    BY DEF TypeOK, Reads
<1> HIDE DEF msg
<1>3. /\ inbox' \in Seq([id : Ids, kind : Kinds])
      /\ Len(inbox') = Len(inbox) + 1
      /\ \A m \in 1 .. Len(inbox) : inbox'[m] = inbox[m]
      /\ inbox'[Len(inbox) + 1] = msg
      /\ Len(inbox) \in Nat
    BY <1>1, <1>2, AppendProperties, LenProperties
<1>4. msg.id = i /\ msg.kind = what
    BY DEF msg
<1> QED
    BY <1>3, <1>4, BoundsAssumption DEF Grown, Reads, n, IdOf, KindOf, Read, Positions

(* A message leaves what is in a pipe as good as it was ...                 *)
LEMMA OneSessionKept ==
    ASSUME NEW i \in Ids, NEW what \in Kinds, Grown(i, what),
           NEW c \in Conns, owner'[c] = owner[c], owner[c] \in Read,
           NEW s \in Seq(Positions), OneSession(c, s)
    PROVE  OneSession(c, s)'
<1> SUFFICES ASSUME NEW k \in 1 .. Len(s)
             PROVE  /\ s[k] \in Read'
                    /\ k = 1 => s[k] = owner'[c]
                    /\ k > 1 => Follows(c, s[k - 1], s[k])'
    BY DEF OneSession
<1>1. /\ s[k] \in Read /\ (k = 1 => s[k] = owner[c])
      /\ k > 1 => Follows(c, s[k - 1], s[k])
    BY DEF OneSession
<1>2. s[k] \in Read'
    BY <1>1 DEF Grown, Read
<1>3. ASSUME k > 1 PROVE Follows(c, s[k - 1], s[k])'
  <2>1. k - 1 \in 1 .. Len(s)
      BY <1>3, LenProperties
  <2>2. s[k - 1] \in Read /\ s[k] \in Read
      BY <1>1, <2>1 DEF OneSession
  <2>3. \A m \in s[k - 1] + 1 .. s[k] - 1 : m \in Read
      BY <2>2 DEF Read, Grown
  <2>4. Follows(c, s[k - 1], s[k])
      BY <1>1, <1>3
  <2>5. IdOf(owner[c])' = IdOf(owner[c])
      BY DEF Grown, IdOf
  <2> QED
      BY <2>2, <2>3, <2>4, <2>5 DEF Follows, Grown
<1> QED
    BY <1>1, <1>2, <1>3

(* ... and still lets its session go on, if the message is not part of it.  *)
LEMMA AwaitsKept ==
    ASSUME NEW i \in Ids, NEW what \in Kinds, Grown(i, what),
           NEW c \in Conns, owner'[c] = owner[c], owner[c] \in Read,
           NEW last \in Read, Awaits(c, last),
           what \in {"start", "mismatch"} \/ i # IdOf(owner[c])
    PROVE  Awaits(c, last)'
<1>1. IdOf(owner[c])' = IdOf(owner[c]) /\ KindOf(last)' = KindOf(last)
    BY DEF Grown, IdOf
<1>2. ASSUME NEW m \in last + 1 .. Len(inbox'), IdOf(m)' = IdOf(owner[c])'
      PROVE  KindOf(m)' \in {"start", "mismatch"}
  <2>1. CASE m = n
      BY <1>1, <1>2, <2>1 DEF Grown, IdOf, KindOf
  <2>2. CASE m # n
    <3>1. m \in last + 1 .. Len(inbox) /\ m \in Read
        BY <2>2 DEF Grown, Read
    <3> QED
        BY <1>1, <1>2, <3>1 DEF Awaits, Grown
  <2> QED
      BY <2>1, <2>2
<1> QED
    BY <1>1, <1>2 DEF Awaits

\* The loop answers the message itself.
Answers(i, what) ==
    /\ UNCHANGED <<opened, owner, channel, writer, toGate, gateSide, reader, told>>
    /\ \/ sessions' = sessions /\ what \in {"start", "mismatch"}
       \/ sessions' = sessions /\ sessions[i] = 0
       \/ /\ sessions[i] # 0 /\ writer[sessions[i]] # "running"
          /\ sessions' = IF what = "close" THEN [sessions EXCEPT ![i] = 0]
                         ELSE sessions

\* The loop hands the message to the writer of its session.
Passes(i, what) ==
    /\ UNCHANGED <<opened, owner, writer, toGate, gateSide, reader, told>>
    /\ what \in {"frame", "close"}
    /\ sessions[i] # 0 /\ writer[sessions[i]] = "running"
    /\ channel' = [channel EXCEPT ![sessions[i]] = Append(@, n)]
    /\ sessions' = IF what = "close" THEN [sessions EXCEPT ![i] = 0] ELSE sessions

(* The handler answers, passes the message on, or opens a connection.       *)
LEMMA LoopHandles ==
    ASSUME TypeOK, NEW i \in Ids, Handle(i)
    PROVE  \E what \in Kinds :
               /\ Grown(i, what)
               /\ Answers(i, what) \/ Passes(i, what) \/ (what = "start" /\ Start(i))
<1>1. CASE Mismatch(i)
    BY <1>1, InboxGrows DEF Mismatch, Answers, Refuse, Kinds
<1>2. CASE StartRefused(i)
    BY <1>2, InboxGrows DEF StartRefused, Answers, Refuse, Kinds
<1>3. CASE Start(i)
    BY <1>3, InboxGrows DEF Start, Kinds
<1>4. ASSUME NEW what \in {"frame", "close"}, NotActive(i, what)
      PROVE  Grown(i, what) /\ Answers(i, what)
    BY <1>4, InboxGrows DEF NotActive, Answers, Refuse, Kinds
<1>5. ASSUME NEW what \in {"frame", "close"}, Relay(i, what)
      PROVE  Grown(i, what) /\ (Answers(i, what) \/ Passes(i, what))
  <2>1. Grown(i, what)
      BY <1>5, InboxGrows DEF Relay, Kinds
  <2>2. CASE writer[sessions[i]] = "running"
      BY <1>5, <2>1, <2>2 DEF Relay, Passes
  <2>3. CASE writer[sessions[i]] # "running"
      BY <1>5, <2>1, <2>3 DEF Relay, Answers, Refuse
  <2> QED
      BY <2>1, <2>2, <2>3
<1> QED
    BY <1>1, <1>2, <1>3, <1>4, <1>5 DEF Handle, Kinds

(* The handler keeps the types and the bounds.                              *)
LEMMA LoopTypes ==
    ASSUME IInv, NEW i \in Ids, Handle(i)
    PROVE  TypeOK' /\ Len(inbox') <= MaxMessages /\ opened' <= Len(inbox')
<1>1. PICK what \in Kinds : Grown(i, what)
    BY LoopHandles DEF IInv
<1>2. /\ Len(inbox') <= MaxMessages /\ Len(inbox') = Len(inbox) + 1
      /\ Len(inbox) \in Nat /\ n \in Positions
    BY <1>1, BoundsAssumption DEF Grown
<1>3. /\ sessions \in [Ids -> 0 .. MaxMessages] /\ channel \in [Conns -> Seq(Positions)]
      /\ opened \in 0 .. MaxMessages /\ opened <= Len(inbox)
    BY DEF IInv, TypeOK
<1>4. refused' \subseteq Positions
    BY <1>2 DEF IInv, TypeOK, Handle, Mismatch, StartRefused, Start, NotActive, Relay, Refuse
<1>5. CASE ~Start(i)
  <2>1. UNCHANGED <<opened, owner, writer, toGate, gateSide, fromGate, reader, told>>
      BY <1>5 DEF Handle, Mismatch, StartRefused, NotActive, Relay, Refuse
  <2>2. channel' = channel \/ channel' = [channel EXCEPT ![sessions[i]] = Append(@, n)]
      BY <1>5 DEF Handle, Mismatch, StartRefused, NotActive, Relay, Refuse
  <2>3. channel' \in [Conns -> Seq(Positions)]
    <3>1. \A c \in Conns : Append(channel[c], n) \in Seq(Positions)
        BY <1>2, <1>3, AppendProperties
    <3> QED
        BY <1>3, <2>2, <3>1
  <2>4. sessions' = sessions \/ sessions' = [sessions EXCEPT ![i] = 0]
      BY <1>5 DEF Handle, Mismatch, StartRefused, NotActive, Relay, Refuse
  <2>5. sessions' \in [Ids -> 0 .. MaxMessages]
      BY <1>3, <2>4, BoundsAssumption
  <2> QED
      BY <1>1, <1>2, <1>4, <2>1, <2>3, <2>5 DEF IInv, TypeOK, Grown, gateSide, told
<1>6. CASE Start(i)
  <2> DEFINE c == opened + 1
  <2>1. c \in Conns /\ c <= Len(inbox')
      BY <1>2, <1>3, BoundsAssumption DEF Conns
  <2>2. opened' \in 0 .. MaxMessages /\ opened' <= Len(inbox')
      BY <1>6, <2>1 DEF Start, Conns, IInv, TypeOK
  <2>3. owner' \in [Conns -> 0 .. MaxMessages] /\ sessions' \in [Ids -> 0 .. MaxMessages]
      BY <1>2, <1>6, <2>1 DEF Start, IInv, TypeOK, Conns, Positions
  <2>4. <<n>> \in Seq(Positions)
      BY <1>2
  <2>5. channel' \in [Conns -> Seq(Positions)]
      BY <1>6, <2>4 DEF Start, IInv, TypeOK
  <2>6. /\ writer' \in [Conns -> {"none", "running", "ended"}]
        /\ reader' \in [Conns -> {"none", "running", "ended"}]
        /\ gate' \in [Conns -> {"none", "serving", "typing", "closed"}]
      BY <1>6 DEF Start, IInv, TypeOK
  <2>7. UNCHANGED <<toGate, gateGot, answered, fromGate, sent, missed>>
      BY <1>6 DEF Start, told
  <2> QED
      BY <1>1, <1>2, <1>4, <2>2, <2>3, <2>5, <2>6, <2>7 DEF IInv, TypeOK, Grown
<1> QED
    BY <1>5, <1>6

(* A message that the loop passes on comes at the end of the pipe.          *)
LEMMA AppendMoves ==
    \A r, s, t \in Seq(Positions) : \A x \in Positions :
        (r \o s) \o Append(t, x) = Append((r \o s) \o t, x)
<1> SUFFICES ASSUME NEW r \in Seq(Positions), NEW s \in Seq(Positions),
                    NEW t \in Seq(Positions), NEW x \in Positions
             PROVE  (r \o s) \o Append(t, x) = Append((r \o s) \o t, x)
    OBVIOUS
<1>1. PICK q \in Seq(Positions) : q = r \o s
    BY ConcatProperties
<1>2. PICK y \in Seq(Positions) : y = <<x>>
  <2>1. <<x>> \in Seq(Positions)
      OBVIOUS
  <2> QED
      BY <2>1, Zenon
<1>3. q \o t \in Seq(Positions)
    BY ConcatProperties
<1>4. Append(t, x) = t \o y /\ Append(q \o t, x) = (q \o t) \o y
    BY <1>2, <1>3, AppendIsConcat
<1>5. (q \o t) \o y = q \o (t \o y)
    BY Associative
<1> QED
    BY <1>1, <1>4, <1>5, Zenon

(* Only the pipe of the message's session changes, or a new one begins.     *)
LEMMA LoopPipe ==
    ASSUME IInv, NEW i \in Ids, NEW what \in Kinds, Grown(i, what),
           Answers(i, what) \/ Passes(i, what) \/ Start(i), NEW c \in Conns
    PROVE  \/ /\ Passes(i, what) => c # sessions[i]
              /\ Start(i) => c # opened + 1
              /\ Pipe(c)' = Pipe(c) /\ owner'[c] = owner[c] /\ writer'[c] = writer[c]
           \/ /\ Passes(i, what) /\ c = sessions[i]
              /\ Pipe(c)' = Append(Pipe(c), n)
           \/ /\ Start(i) /\ c = opened + 1
              /\ Pipe(c)' = <<n>> /\ owner'[c] = n
<1>1. /\ gateGot[c] \in Seq(Positions) /\ toGate[c] \in Seq(Positions)
      /\ channel \in [Conns -> Seq(Positions)]
      /\ writer \in [Conns -> {"none", "running", "ended"}]
      /\ owner \in [Conns -> 0 .. MaxMessages]
    BY DEF IInv, TypeOK
<1>2. Passes(i, what) => ~Start(i)
    BY DEF Passes, Start, IInv, TypeOK
<1>3. CASE Answers(i, what)
  <2>1. ~Passes(i, what)
      BY <1>3 DEF Answers, Passes
  <2>2. ~Start(i)
      BY <1>3 DEF Answers, Start, IInv, TypeOK
  <2> QED
      BY <1>3, <2>1, <2>2 DEF Answers, Pipe, gateSide
<1>4. CASE Passes(i, what)
  <2>1. UNCHANGED <<gateGot, toGate, writer, owner>>
      BY <1>4 DEF Passes, gateSide
  <2>2. CASE c # sessions[i]
    <3>1. channel'[c] = channel[c]
        BY <1>1, <1>4, <2>2 DEF Passes
    <3> QED
        BY <1>4, <1>2, <2>1, <2>2, <3>1 DEF Pipe
  <2>3. CASE c = sessions[i]
    <3>1. channel'[c] = Append(channel[c], n) /\ writer[c] = "running"
        BY <1>1, <1>4, <2>3 DEF Passes
    <3>2. n \in Positions
        BY DEF Grown
    <3>3. PICK r \in Seq(Positions) : r = gateGot[c]
        BY <1>1
    <3>4. PICK s \in Seq(Positions) : s = toGate[c]
        BY <1>1
    <3>5. PICK t \in Seq(Positions) : t = channel[c]
        BY <1>1
    <3>6. (r \o s) \o Append(t, n) = Append((r \o s) \o t, n)
        BY <3>2, AppendMoves
    <3>7. Pipe(c) = (r \o s) \o t
        BY <3>1, <3>3, <3>4, <3>5 DEF Pipe
    <3>8. Pipe(c)' = (r \o s) \o Append(t, n)
        BY <2>1, <3>1, <3>3, <3>4, <3>5 DEF Pipe
    <3> QED
        BY <1>4, <2>3, <3>6, <3>7, <3>8
  <2> QED
      BY <2>2, <2>3
<1>5. CASE Start(i)
  <2>1. UNCHANGED <<gateGot, toGate>>
      BY <1>5 DEF Start
  <2>2. CASE c # opened + 1
    <3>1. channel'[c] = channel[c] /\ writer'[c] = writer[c] /\ owner'[c] = owner[c]
        BY <1>1, <1>5, <2>2 DEF Start
    <3> QED
        BY <1>5, <1>2, <2>1, <2>2, <3>1 DEF Pipe
  <2>3. CASE c = opened + 1
    <3>1. channel'[c] = <<n>> /\ writer'[c] = "running" /\ owner'[c] = n
        BY <1>1, <1>5, <2>3 DEF Start
    <3>2. gateGot[c] = <<>> /\ toGate[c] = <<>>
        BY <2>3 DEF IInv, Unopened, TypeOK
    <3>3. Pipe(c)' = <<n>>
        BY <2>1, <3>1, <3>2 DEF Pipe
    <3> QED
        BY <1>5, <2>3, <3>1, <3>3
  <2> QED
      BY <2>2, <2>3
<1> QED
    BY <1>3, <1>4, <1>5

(* A pipe that is not empty has read messages in it, the first its owner.   *)
LEMMA PipeIsRead ==
    ASSUME NEW c \in Conns, NEW s \in Seq(Positions), s # <<>>, OneSession(c, s)
    PROVE  /\ Len(s) \in Nat /\ Len(s) \in 1 .. Len(s)
           /\ owner[c] \in Read /\ s[Len(s)] \in Read
<1>1. Len(s) \in Nat /\ Len(s) >= 1
    BY EmptySeq
<1>2. 1 \in 1 .. Len(s) /\ Len(s) \in 1 .. Len(s)
    BY <1>1
<1> QED
    BY <1>1, <1>2 DEF OneSession

(* A message that is passed on belongs to the session of its pipe.          *)
LEMMA LoopPipesHold ==
    ASSUME IInv, NEW i \in Ids, NEW what \in Kinds, Grown(i, what),
           Answers(i, what) \/ Passes(i, what) \/ Start(i)
    PROVE  PipesHold'
<1> SUFFICES ASSUME NEW c \in Conns PROVE OneSession(c, Pipe(c))'
    BY DEF PipesHold
<1>1. PICK s \in Seq(Positions) : s = Pipe(c)
    BY PipeType DEF IInv
<1>2. OneSession(c, s)
    BY <1>1 DEF IInv, PipesHold
<1>3. CASE Pipe(c)' = s /\ owner'[c] = owner[c]
  <2>1. CASE s = <<>>
      BY <1>3, <2>1 DEF OneSession
  <2>2. CASE s # <<>>
    <3>1. owner[c] \in Read
        BY <1>2, <2>2, PipeIsRead
    <3>2. OneSession(c, s)'
        BY <1>2, <1>3, <3>1, OneSessionKept
    <3> QED
        BY <1>3, <3>2 DEF OneSession
  <2> QED
      BY <2>1, <2>2
<1>4. PICK x \in Positions : x = n
    BY DEF Grown
<1>5. /\ x = Len(inbox) + 1 /\ Len(inbox') = Len(inbox) + 1 /\ Len(inbox) \in Nat
      /\ IdOf(x)' = i /\ KindOf(x)' = what
    BY <1>4 DEF Grown, IdOf, KindOf
<1>6. CASE Passes(i, what) /\ c = sessions[i] /\ Pipe(c)' = Append(s, x)
  <2>1. /\ owner' = owner /\ what \in {"frame", "close"}
        /\ sessions[i] # 0 /\ writer[c] = "running"
      BY <1>6 DEF Passes
  <2>2. s # <<>> /\ Awaits(c, s[Len(s)])
      BY <1>1, <1>6, <2>1 DEF IInv, PipesAwait
  <2>3. /\ Len(s) \in Nat /\ Len(s) \in 1 .. Len(s)
        /\ owner[c] \in Read /\ s[Len(s)] \in Read
      BY <1>2, <2>2, PipeIsRead
  <2>4. OneSession(c, s)'
      BY <1>2, <2>1, <2>3, OneSessionKept
  <2>5. IdOf(owner[c]) = i /\ IdOf(owner[c])' = i
      BY <1>6, <2>1, <2>3 DEF IInv, SessionOrClosed, Grown, IdOf
  <2>6. Follows(c, s[Len(s)], x)'
    <3>1. s[Len(s)] < x /\ KindOf(s[Len(s)])' # "close"
        BY <1>5, <2>2, <2>3 DEF Grown, Read, Awaits
    <3>2. ASSUME NEW m \in s[Len(s)] + 1 .. x - 1, IdOf(m)' = i
          PROVE  KindOf(m)' \in {"start", "mismatch"}
      <4>1. m \in s[Len(s)] + 1 .. Len(inbox) /\ m \in Read
          BY <1>5, <2>3 DEF Read
      <4> QED
          BY <2>2, <2>5, <3>2, <4>1 DEF Awaits, Grown
    <3> QED
        BY <1>5, <2>1, <2>5, <3>1, <3>2 DEF Follows
  <2>7. PICK u : u = Append(s, x)
      OBVIOUS
  <2>8. /\ Len(u) = Len(s) + 1 /\ u[Len(s) + 1] = x
        /\ \A k \in 1 .. Len(s) : u[k] = s[k]
      BY <2>7, AppendProperties
  <2>9. OneSession(c, u)'
    <3> SUFFICES ASSUME NEW k \in 1 .. Len(u)
                 PROVE  /\ u[k] \in Read'
                        /\ k = 1 => u[k] = owner'[c]
                        /\ k > 1 => Follows(c, u[k - 1], u[k])'
        BY DEF OneSession
    <3>1. CASE k <= Len(s)
      <4>1. k \in 1 .. Len(s) /\ u[k] = s[k] /\ (k > 1 => u[k - 1] = s[k - 1])
          BY <2>3, <2>8, <3>1
      <4> QED
          BY <2>4, <4>1 DEF OneSession
    <3>2. CASE k = Len(s) + 1
      <4>1. k > 1 /\ u[k] = x /\ u[k - 1] = s[Len(s)]
          BY <2>3, <2>8, <3>2
      <4>2. x \in Read'
          BY <1>5 DEF Read
      <4> QED
          BY <2>6, <4>1, <4>2
    <3> QED
        BY <2>3, <2>8, <3>1, <3>2
  <2> QED
      BY <1>6, <2>7, <2>9 DEF OneSession
<1>7. CASE Start(i) /\ Pipe(c)' = <<x>> /\ owner'[c] = x
  <2>1. x \in Read'
      BY <1>5 DEF Read
  <2> QED
      BY <1>7, <2>1 DEF OneSession
<1> QED
    BY <1>1, <1>3, <1>4, <1>6, <1>7, LoopPipe

(* The session of a pipe can go on from the message that came last.         *)
LEMMA LoopPipesAwait ==
    ASSUME IInv, NEW i \in Ids, NEW what \in Kinds, Grown(i, what), Handle(i),
           Answers(i, what) \/ Passes(i, what) \/ (what = "start" /\ Start(i))
    PROVE  PipesAwait'
<1> SUFFICES ASSUME NEW j \in Ids, sessions'[j] # 0, writer'[sessions'[j]] = "running"
             PROVE  /\ Pipe(sessions[j])' # <<>>
                    /\ Awaits(sessions[j], Pipe(sessions[j])[Len(Pipe(sessions[j]))])'
    BY DEF PipesAwait
<1>1. /\ sessions \in [Ids -> 0 .. MaxMessages] /\ opened \in 0 .. MaxMessages
      /\ writer \in [Conns -> {"none", "running", "ended"}]
    BY DEF IInv, TypeOK
<1>2. PICK c \in Conns : c = sessions'[j]
  <2>1. TypeOK'
      BY LoopTypes
  <2> QED
      BY <2>1 DEF TypeOK, Conns
<1>3. PICK s \in Seq(Positions) : s = Pipe(c)
    BY PipeType DEF IInv
<1>4. PICK x \in Positions : x = n
    BY DEF Grown
<1>5. /\ x = Len(inbox) + 1 /\ Len(inbox') = Len(inbox) + 1 /\ Len(inbox) \in Nat
      /\ IdOf(x)' = i /\ KindOf(x)' = what
    BY <1>4 DEF Grown, IdOf, KindOf
<1>6. ASSUME NEW t, t = Pipe(c)', t # <<>>, Awaits(c, t[Len(t)])'
      PROVE  /\ Pipe(sessions[j])' # <<>>
             /\ Awaits(sessions[j], Pipe(sessions[j])[Len(Pipe(sessions[j]))])'
    BY <1>2, <1>6 DEF Awaits
<1>7. sessions[j] = c => IdOf(owner[c]) = j
    BY <1>2 DEF IInv, SessionOrClosed
<1>8. CASE /\ Passes(i, what) => c # sessions[i]
           /\ Start(i) => c # opened + 1
           /\ Pipe(c)' = s /\ owner'[c] = owner[c] /\ writer'[c] = writer[c]
  <2>1. sessions[j] = c /\ (what \in {"start", "mismatch"} \/ i # j)
    <3>1. CASE Answers(i, what)
        BY <1>1, <1>2, <1>8, <3>1 DEF Answers
    <3>2. CASE Passes(i, what)
        BY <1>1, <1>2, <1>8, <3>2 DEF Passes
    <3>3. CASE what = "start" /\ Start(i)
        BY <1>1, <1>2, <1>8, <3>3 DEF Start
    <3> QED
        BY <3>1, <3>2, <3>3
  <2>2. s # <<>> /\ Awaits(c, s[Len(s)])
      BY <1>2, <1>3, <1>8, <2>1 DEF IInv, PipesAwait
  <2>3. OneSession(c, s)
      BY <1>3 DEF IInv, PipesHold
  <2>4. owner[c] \in Read /\ s[Len(s)] \in Read
      BY <2>2, <2>3, PipeIsRead
  <2>5. Awaits(c, s[Len(s)])'
      BY <1>7, <1>8, <2>1, <2>2, <2>4, AwaitsKept
  <2> QED
      BY <1>6, <1>8, <2>2, <2>5
<1>9. CASE Passes(i, what) /\ c = sessions[i] /\ Pipe(c)' = Append(s, x)
  <2>1. what = "frame"
    <3>1. sessions[j] = c
        BY <1>1, <1>2, <1>9 DEF Passes
    <3>2. i = j
        BY <1>2, <1>7, <1>9, <3>1 DEF IInv, SessionOrClosed
    <3> QED
        BY <1>1, <1>2, <1>9, <3>2 DEF Passes
  <2>2. PICK u : u = Append(s, x)
      OBVIOUS
  <2>3. u # <<>> /\ u[Len(u)] = x
      BY <2>2, AppendProperties
  <2>4. Awaits(c, x)'
      BY <1>5, <2>1 DEF Awaits
  <2>5. Awaits(c, u[Len(u)])'
      BY <2>3, <2>4
  <2> QED
      BY <1>6, <1>9, <2>2, <2>3, <2>5
<1>10. CASE Start(i) /\ Pipe(c)' = <<x>>
  <2>1. what = "start"
    <3>1. ~Answers(i, what) /\ ~Passes(i, what)
        BY <1>10 DEF Start, Answers, Passes, IInv, TypeOK
    <3> QED
        BY <3>1
  <2>2. PICK u : u = <<x>>
      OBVIOUS
  <2>3. u # <<>> /\ u[Len(u)] = x
      BY <2>2
  <2>4. Awaits(c, x)'
      BY <1>5, <2>1 DEF Awaits
  <2>5. Awaits(c, u[Len(u)])'
      BY <2>3, <2>4
  <2> QED
      BY <1>6, <1>10, <2>2, <2>3, <2>5
<1> QED
    BY <1>3, <1>4, <1>8, <1>9, <1>10, LoopPipe

(* What was closed stays closed, and a close of the message's id closes the  *)
(* connection that the id had.                                              *)
LEMMA ClosedKept ==
    ASSUME NEW i \in Ids, NEW what \in Kinds, Grown(i, what),
           NEW c \in Conns, owner'[c] = owner[c], owner[c] \in Read,
           \/ ClosedAfter(c)
           \/ what = "close" /\ IdOf(owner[c]) = i
    PROVE  ClosedAfter(c)'
<1>1. IdOf(owner[c])' = IdOf(owner[c]) /\ Len(inbox') = Len(inbox) + 1
    BY DEF Grown, IdOf
<1>2. CASE ClosedAfter(c)
  <2>1. PICK m \in owner[c] + 1 .. Len(inbox) : IdOf(m) = IdOf(owner[c]) /\ KindOf(m) = "close"
      BY <1>2 DEF ClosedAfter
  <2>2. m \in Read /\ m \in owner[c] + 1 .. Len(inbox')
      BY <1>1, <2>1 DEF Read, Grown
  <2>3. IdOf(m)' = IdOf(owner[c])' /\ KindOf(m)' = "close"
      BY <1>1, <2>1, <2>2 DEF Grown
  <2> QED
      BY <2>2, <2>3 DEF ClosedAfter
<1>3. CASE what = "close" /\ IdOf(owner[c]) = i
  <2>1. PICK x \in Positions : x = n
      BY DEF Grown
  <2>2. x \in owner[c] + 1 .. Len(inbox') /\ IdOf(x)' = i /\ KindOf(x)' = "close"
      BY <1>1, <1>3, <2>1 DEF Grown, Read, IdOf, KindOf
  <2> QED
      BY <1>1, <1>3, <2>2 DEF ClosedAfter
<1> QED
    BY <1>2, <1>3

(* A connection leaves the map when its id is closed, and not before.       *)
LEMMA LoopSessions ==
    ASSUME IInv, NEW i \in Ids, NEW what \in Kinds, Grown(i, what), Handle(i),
           Answers(i, what) \/ Passes(i, what) \/ (what = "start" /\ Start(i))
    PROVE  SessionOrClosed'
<1>1. /\ sessions \in [Ids -> 0 .. MaxMessages] /\ opened \in Nat
      /\ owner \in [Conns -> 0 .. MaxMessages] /\ 1 .. opened \subseteq Conns
      /\ opened < MaxMessages /\ Len(inbox') = Len(inbox) + 1 /\ Len(inbox) \in Nat
  <2>1. /\ sessions \in [Ids -> 0 .. MaxMessages] /\ opened \in Nat
        /\ owner \in [Conns -> 0 .. MaxMessages] /\ opened <= Len(inbox)
      BY DEF IInv, TypeOK
  <2>2. /\ Len(inbox) < MaxMessages /\ Len(inbox') = Len(inbox) + 1
        /\ Len(inbox) \in Nat
      BY DEF Grown
  <2> QED
      BY <2>1, <2>2, BoundsAssumption DEF Conns
<1>2. ASSUME NEW c \in 1 .. opened
      PROVE  /\ owner[c] \in Read /\ inbox'[owner[c]].id = IdOf(owner[c])
             /\ IdOf(owner[c]) \in Ids
             /\ sessions[IdOf(owner[c])] = c \/ ClosedAfter(c)
  <2>1. owner[c] \in Read /\ (sessions[IdOf(owner[c])] = c \/ ClosedAfter(c))
      BY DEF IInv, SessionOrClosed
  <2>2. inbox \in Seq([id : Ids, kind : Kinds])
      BY DEF IInv, TypeOK
  <2>3. inbox[owner[c]] \in [id : Ids, kind : Kinds]
      BY <2>1, <2>2, ElementOfSeq DEF Read
  <2>4. IdOf(owner[c]) \in Ids
      BY <2>3 DEF IdOf
  <2> QED
      BY <2>1, <2>4 DEF Grown, IdOf
<1>3. CASE Answers(i, what) \/ Passes(i, what)
  <2>1. owner' = owner /\ opened' = opened
      BY <1>3 DEF Answers, Passes
  <2>2. sessions' = sessions \/ (what = "close" /\ sessions' = [sessions EXCEPT ![i] = 0])
      BY <1>3 DEF Answers, Passes
  <2>3. ASSUME NEW c \in 1 .. opened
        PROVE  /\ owner[c] \in Read' /\ IdOf(owner[c])' = IdOf(owner[c])
               /\ sessions'[IdOf(owner[c])] = c \/ ClosedAfter(c)'
    <3>1. owner[c] \in Read' /\ IdOf(owner[c])' = IdOf(owner[c])
      <4>1. owner[c] \in Read'
          BY <1>1, <1>2 DEF Read
      <4>2. IdOf(owner[c])' = IdOf(owner[c])
          BY <1>2, <2>1 DEF IdOf
      <4> QED
          BY <4>1, <4>2
    <3>2. CASE ClosedAfter(c) \/ (what = "close" /\ IdOf(owner[c]) = i)
        BY <1>1, <1>2, <2>1, <3>1, <3>2, ClosedKept
    <3>3. CASE ~ClosedAfter(c) /\ ~(what = "close" /\ IdOf(owner[c]) = i)
        BY <1>1, <1>2, <2>2, <3>1, <3>3
    <3> QED
        BY <3>2, <3>3
  <2>4. ASSUME NEW j \in Ids, sessions'[j] # 0
        PROVE  \E c \in 1 .. opened : c = sessions'[j] /\ IdOf(owner[c])' = j
    <3>1. sessions'[j] = sessions[j]
        BY <1>1, <2>2, <2>4
    <3>2. sessions[j] \in 1 .. opened /\ IdOf(owner[sessions[j]]) = j
        BY <2>4, <3>1 DEF IInv, SessionOrClosed
    <3>3. PICK c \in 1 .. opened : c = sessions[j]
        BY <3>2
    <3> QED
        BY <2>3, <3>1, <3>2, <3>3
  <2>5. \A c \in 1 .. opened' :
            (owner[c] \in Read)' /\ (sessions[IdOf(owner[c])] = c \/ ClosedAfter(c))'
      BY <2>1, <2>3
  <2>6. \A j \in Ids : sessions'[j] # 0 =>
            sessions'[j] \in 1 .. opened' /\ IdOf(owner[sessions[j]])' = j
      BY <2>1, <2>4
  <2> QED
      BY <2>5, <2>6 DEF SessionOrClosed
<1>4. CASE what = "start" /\ Start(i)
  <2>1. PICK d \in Conns : d = opened + 1
      BY <1>1, BoundsAssumption DEF Conns
  <2>2. PICK x \in Positions : x = n
      BY DEF Grown
  <2>3. /\ opened' = d /\ owner' = [owner EXCEPT ![d] = x]
        /\ sessions' = [sessions EXCEPT ![i] = d] /\ sessions[i] = 0
      BY <1>4, <2>1, <2>2 DEF Start, Free
  <2>4. x \in Read' /\ IdOf(x)' = i
      BY <2>2 DEF Grown, Read, IdOf
  <2>5. ASSUME NEW c \in 1 .. opened
        PROVE  /\ owner'[c] \in Read' /\ IdOf(owner[c])' = IdOf(owner[c])
               /\ owner'[c] = owner[c]
               /\ sessions'[IdOf(owner[c])] = c \/ ClosedAfter(c)'
    <3>1. c # d /\ owner'[c] = owner[c]
        BY <1>1, <2>1, <2>3
    <3>2. owner[c] \in Read'
        BY <1>1, <1>2 DEF Read, Grown
    <3>3. IdOf(owner[c])' = IdOf(owner[c])
        BY <1>2, <3>1 DEF IdOf
    <3>4. CASE ClosedAfter(c)
        BY <1>1, <1>2, <3>1, <3>2, <3>3, <3>4, ClosedKept
    <3>5. CASE sessions[IdOf(owner[c])] = c
      <4>1. IdOf(owner[c]) # i
          BY <2>3, <3>5
      <4> QED
          BY <1>1, <1>2, <2>3, <3>1, <3>2, <3>3, <3>5, <4>1
    <3> QED
        BY <1>2, <3>4, <3>5
  <2>6. owner'[d] = x /\ sessions'[i] = d /\ IdOf(owner[d])' = i
      BY <1>1, <2>3, <2>4 DEF IdOf
  <2>7. \A c \in 1 .. opened' : c \in 1 .. opened \/ c = d
      BY <1>1, <2>1, <2>3
  <2>8. ASSUME NEW j \in Ids, sessions'[j] # 0
        PROVE  sessions'[j] \in 1 .. opened' /\ IdOf(owner[sessions[j]])' = j
    <3>1. CASE j = i
        BY <1>1, <2>1, <2>3, <2>4, <2>6, <3>1 DEF IdOf
    <3>2. CASE j # i
      <4>1. sessions'[j] = sessions[j]
          BY <1>1, <2>3, <3>2
      <4>2. PICK c \in 1 .. opened : c = sessions[j] /\ IdOf(owner[c]) = j
          BY <2>8, <4>1 DEF IInv, SessionOrClosed
      <4>3. IdOf(owner[c])' = j
          BY <2>5, <4>2
      <4> QED
          BY <1>1, <2>1, <2>3, <4>1, <4>2, <4>3 DEF IdOf
    <3> QED
        BY <3>1, <3>2
  <2>9. ASSUME NEW c \in 1 .. opened'
        PROVE  (owner[c] \in Read)' /\ (sessions[IdOf(owner[c])] = c \/ ClosedAfter(c))'
    <3>1. CASE c \in 1 .. opened
        BY <2>5, <3>1
    <3>2. CASE c = d
        BY <2>4, <2>6, <3>2
    <3> QED
        BY <2>7, <3>1, <3>2
  <2> QED
      BY <2>8, <2>9 DEF SessionOrClosed
<1> QED
    BY <1>3, <1>4

(* A start finds every earlier connection of its id closed.                 *)
LEMMA LoopOneConnection ==
    ASSUME IInv, NEW i \in Ids, NEW what \in Kinds, Grown(i, what),
           Answers(i, what) \/ Passes(i, what) \/ (what = "start" /\ Start(i))
    PROVE  OneConnectionPerId'
<1>1. /\ opened \in Nat /\ 1 .. opened \subseteq Conns
      /\ owner \in [Conns -> 0 .. MaxMessages]
      /\ opened < MaxMessages /\ Len(inbox) \in Nat
  <2>1. opened \in Nat /\ owner \in [Conns -> 0 .. MaxMessages] /\ opened <= Len(inbox)
      BY DEF IInv, TypeOK
  <2>2. Len(inbox) < MaxMessages /\ Len(inbox) \in Nat
      BY DEF Grown
  <2> QED
      BY <2>1, <2>2, BoundsAssumption DEF Conns
<1>2. \A c \in 1 .. opened : owner[c] \in Read
    BY DEF IInv, SessionOrClosed
<1>3. ASSUME NEW c \in 1 .. opened, NEW d \in 1 .. opened, c < d,
             owner'[c] = owner[c], owner'[d] = owner[d],
             IdOf(owner[c])' = IdOf(owner[d])'
      PROVE  \E m \in owner'[c] + 1 .. owner'[d] - 1 :
                 IdOf(m)' = IdOf(owner[c])' /\ KindOf(m)' = "close"
  <2>1. IdOf(owner[c])' = IdOf(owner[c]) /\ IdOf(owner[d])' = IdOf(owner[d])
      BY <1>2, <1>3 DEF Grown, IdOf
  <2>2. PICK m \in owner[c] + 1 .. owner[d] - 1 :
            IdOf(m) = IdOf(owner[c]) /\ KindOf(m) = "close"
      BY <1>3, <2>1 DEF IInv, OneConnectionPerId
  <2>3. m \in Read
      BY <1>1, <1>2, <2>2 DEF Read
  <2>4. IdOf(m)' = IdOf(m) /\ KindOf(m)' = KindOf(m)
      BY <2>3 DEF Grown
  <2> QED
      BY <1>3, <2>1, <2>2, <2>4
<1>4. CASE Answers(i, what) \/ Passes(i, what)
  <2>1. owner' = owner /\ opened' = opened
      BY <1>4 DEF Answers, Passes
  <2> QED
      BY <1>3, <2>1 DEF OneConnectionPerId
<1>5. CASE what = "start" /\ Start(i)
  <2>1. PICK e \in Conns : e = opened + 1
      BY <1>1, BoundsAssumption DEF Conns
  <2>2. PICK x \in Positions : x = n
      BY DEF Grown
  <2>3. /\ opened' = e /\ owner' = [owner EXCEPT ![e] = x] /\ sessions[i] = 0
      BY <1>5, <2>1, <2>2 DEF Start, Free
  <2>4. \A c \in 1 .. opened : c # e /\ owner'[c] = owner[c]
      BY <1>1, <2>1, <2>3
  <2>5. owner'[e] = x /\ IdOf(owner[e])' = i /\ x = Len(inbox) + 1
      BY <1>1, <2>2, <2>3 DEF Grown, IdOf
  <2>6. ASSUME NEW c \in 1 .. opened, IdOf(owner[c])' = i
        PROVE  \E m \in owner'[c] + 1 .. x - 1 :
                   IdOf(m)' = IdOf(owner[c])' /\ KindOf(m)' = "close"
    <3>1. IdOf(owner[c])' = IdOf(owner[c])
        BY <1>2, <2>4 DEF Grown, IdOf
    <3>2. ClosedAfter(c)
      <4>1. c # 0
          OBVIOUS
      <4> QED
          BY <2>3, <2>6, <3>1, <4>1 DEF IInv, SessionOrClosed
    <3>3. PICK m \in owner[c] + 1 .. Len(inbox) :
              IdOf(m) = IdOf(owner[c]) /\ KindOf(m) = "close"
        BY <3>2 DEF ClosedAfter
    <3>4. m \in Read
        BY <1>1, <1>2, <3>3 DEF Read
    <3>5. IdOf(m)' = IdOf(m) /\ KindOf(m)' = KindOf(m)
        BY <3>4 DEF Grown
    <3>6. m \in owner'[c] + 1 .. x - 1
        BY <1>1, <2>4, <2>5, <3>3
    <3> QED
        BY <3>1, <3>3, <3>5, <3>6
  <2>7. ASSUME NEW c \in 1 .. opened', NEW d \in 1 .. opened', c < d,
               IdOf(owner[c])' = IdOf(owner[d])'
        PROVE  \E m \in owner'[c] + 1 .. owner'[d] - 1 :
                   IdOf(m)' = IdOf(owner[c])' /\ KindOf(m)' = "close"
    <3>1. c \in 1 .. opened /\ (d \in 1 .. opened \/ d = e)
        BY <1>1, <2>1, <2>3, <2>7
    <3>2. CASE d \in 1 .. opened
        BY <1>3, <2>4, <2>7, <3>1, <3>2
    <3>3. CASE d = e
        BY <2>5, <2>6, <2>7, <3>1, <3>3
    <3> QED
        BY <3>1, <3>2, <3>3
  <2> QED
      BY <2>7 DEF OneConnectionPerId
<1> QED
    BY <1>4, <1>5

(* The handler touches no connection but the one it opens or writes to.     *)
LEMMA LoopConnections ==
    ASSUME IInv, NEW i \in Ids, NEW what \in Kinds, Grown(i, what),
           Answers(i, what) \/ Passes(i, what) \/ (what = "start" /\ Start(i))
    PROVE  (Unopened /\ NotYetComplete /\ CompleteIsLast)'
<1>1. sent' = sent
    BY DEF Answers, Passes, Start, told
<1>2. CompleteIsLast'
    BY <1>1 DEF IInv, CompleteIsLast
<1>3. CASE Answers(i, what)
    BY <1>1, <1>2, <1>3 DEF Answers, gateSide, IInv, Unopened, NotYetComplete
<1>4. CASE Passes(i, what)
  <2>1. sessions[i] \in 1 .. opened
      BY <1>4 DEF Passes, IInv, SessionOrClosed
  <2>2. \A c \in Conns : c > opened => c # sessions[i]
      BY <2>1 DEF IInv, TypeOK, Conns
  <2>3. \A c \in Conns : c > opened => channel'[c] = channel[c]
      BY <1>4, <2>2 DEF Passes, IInv, TypeOK
  <2>4. UNCHANGED <<opened, writer, toGate, gate, gateGot, reader>>
      BY <1>4 DEF Passes, gateSide
  <2> QED
      BY <1>1, <1>2, <2>3, <2>4 DEF IInv, Unopened, NotYetComplete
<1>5. CASE Start(i)
  <2>1. /\ channel \in [Conns -> Seq(Positions)] /\ opened \in Nat
        /\ writer \in [Conns -> {"none", "running", "ended"}]
        /\ reader \in [Conns -> {"none", "running", "ended"}]
        /\ gate \in [Conns -> {"none", "serving", "typing", "closed"}]
      BY DEF IInv, TypeOK
  <2>2. opened' = opened + 1 /\ UNCHANGED <<toGate, gateGot>>
      BY <1>5 DEF Start
  <2>3. \A c \in Conns : c # opened + 1 =>
            UNCHANGED <<channel[c], writer[c], reader[c], gate[c]>>
      BY <1>5, <2>1 DEF Start
  <2>4. \A c \in Conns : c > opened' => c > opened /\ c # opened + 1
      BY <2>1, <2>2 DEF Conns
  <2>5. Unopened'
      BY <1>1, <2>2, <2>3, <2>4 DEF IInv, Unopened
  <2>6. \A c \in Conns : c = opened + 1 => sent[c] = <<>>
      BY <2>1 DEF IInv, Unopened, Conns
  <2>7. NotYetComplete'
    <3> SUFFICES ASSUME NEW c \in Conns, reader'[c] = "running",
                        NEW k \in 1 .. Len(sent[c])
                 PROVE  ~sent[c][k]
        BY <1>1 DEF NotYetComplete
    <3>1. c # opened + 1
        BY <2>6
    <3>2. reader[c] = "running"
        BY <2>3, <3>1
    <3> QED
        BY <3>2, Zenon DEF IInv, NotYetComplete
  <2> QED
      BY <1>2, <2>5, <2>7
<1> QED
    BY <1>3, <1>4, <1>5

(* The main loop keeps the invariant.                                       *)
LEMMA LoopKeeps ==
    ASSUME IInv, NEW i \in Ids, Handle(i)
    PROVE  IInv'
<1>1. PICK what \in Kinds :
          /\ Grown(i, what)
          /\ Answers(i, what) \/ Passes(i, what) \/ (what = "start" /\ Start(i))
    BY LoopHandles DEF IInv
<1>2. PipesHold' /\ PipesAwait'
    BY <1>1, LoopPipesHold, LoopPipesAwait
<1>3. SessionOrClosed' /\ OneConnectionPerId'
    BY <1>1, LoopSessions, LoopOneConnection
<1>4. (Unopened /\ NotYetComplete /\ CompleteIsLast)'
    BY <1>1, LoopConnections
<1> QED
    BY <1>2, <1>3, <1>4, LoopTypes DEF IInv

-----------------------------------------------------------------------------
(* The theorems.                                                            *)

(* Every step keeps the invariant.                                          *)
LEMMA NextStep == IInv /\ [Next]_vars => IInv'
<1> SUFFICES ASSUME IInv, [Next]_vars PROVE IInv'
    OBVIOUS
<1>1. CASE \E i \in Ids : Handle(i)
    BY <1>1, LoopKeeps
<1>2. CASE \E c \in Conns : Writer(c) \/ Gate(c) \/ Reader(c)
    BY <1>2, SocketKeeps
<1>3. CASE UNCHANGED vars
  <2>1. /\ UNCHANGED <<inbox, sessions, opened, owner, channel, writer, toGate, gate>>
        /\ UNCHANGED <<gateGot, answered, fromGate, reader, refused, sent, missed>>
      BY <1>3 DEF vars, loop, gateSide, told
  <2>2. TypeOK' /\ Unopened' /\ NotYetComplete' /\ CompleteIsLast'
      BY <2>1 DEF IInv, TypeOK, Unopened, NotYetComplete, CompleteIsLast
  <2>3. PipesHold'
    <3> SUFFICES ASSUME NEW c \in Conns PROVE OneSession(c, Pipe(c))'
        BY DEF PipesHold
    <3>1. PICK s : s = Pipe(c)
        OBVIOUS
    <3>2. OneSession(c, s)
        BY <3>1 DEF IInv, PipesHold
    <3>3. OneSession(c, s)'
        BY <2>1, <3>2 DEF OneSession, Follows, Read, IdOf, KindOf
    <3>4. Pipe(c)' = s
        BY <2>1, <3>1 DEF Pipe
    <3> QED
        BY <3>3, <3>4 DEF OneSession
  <2>4. PipesAwait'
      BY <2>1 DEF IInv, PipesAwait, Awaits, Pipe, IdOf, KindOf
  <2>5. SessionOrClosed' /\ OneConnectionPerId'
      BY <2>1 DEF IInv, SessionOrClosed, OneConnectionPerId, ClosedAfter, Read, IdOf, KindOf
  <2> QED
      BY <2>1, <2>2, <2>3, <2>4, <2>5 DEF IInv
<1> QED
    BY <1>1, <1>2, <1>3 DEF Next

(* The relay's invariant holds of every behaviour.                          *)
THEOREM RelayInvariance == Spec => []IInv
<1>1. Init => IInv
    BY InitIInv
<1>2. IInv /\ [Next]_vars => IInv'
    BY NextStep
<1> QED
    BY <1>1, <1>2, PTL DEF Spec

(* The state keeps its types.                                               *)
THEOREM Types == Spec => []TypeOK
<1>1. IInv => TypeOK
    BY DEF IInv
<1> QED
    BY <1>1, RelayInvariance, PTL

(* What the gate has read is the beginning of the pipe.                     *)
LEMMA ReadIsPipe ==
    ASSUME IInv, NEW c \in Conns
    PROVE  /\ OneSession(c, Pipe(c)) /\ Len(gateGot[c]) <= Len(Pipe(c))
           /\ Len(gateGot[c]) \in Nat
           /\ \A k \in 1 .. Len(gateGot[c]) : Pipe(c)[k] = gateGot[c][k]
<1>1. OneSession(c, Pipe(c))
    BY DEF IInv, PipesHold
<1>2. PICK r \in Seq(Positions) : r = gateGot[c]
    BY DEF IInv, TypeOK
<1>3. PICK s \in Seq(Positions) : s = toGate[c]
    BY DEF IInv, TypeOK
<1>4. PICK t \in Seq(Positions) : t = IF writer[c] = "running" THEN channel[c] ELSE <<>>
  <2>1. channel[c] \in Seq(Positions) /\ <<>> \in Seq(Positions)
      BY DEF IInv, TypeOK
  <2> QED
      BY <2>1
<1>5. PICK q \in Seq(Positions) : q = r \o s
    BY ConcatProperties
<1>6. Len(r) <= Len(q) /\ \A k \in 1 .. Len(r) : q[k] = r[k]
    BY <1>5, CutIsPrefix
<1>7. Len(q) <= Len(q \o t) /\ \A k \in 1 .. Len(q) : (q \o t)[k] = q[k]
    BY CutIsPrefix
<1>8. Pipe(c) = q \o t
    BY <1>2, <1>3, <1>4, <1>5, Zenon DEF Pipe
<1>9. Len(r) \in Nat /\ Len(q) \in Nat /\ Len(q \o t) \in Nat
    BY LenProperties, ConcatProperties
<1> QED
    BY <1>1, <1>2, <1>6, <1>7, <1>8, <1>9

(* The handler of TrustedOperationClient and client.rs: a connection to the *)
(* gate carries the messages of one session of one id, in order, and an id  *)
(* has one live connection.                                                 *)
THEOREM OneSessionEach == Spec => []SessionsDoNotMix
<1>1. IInv => SessionsDoNotMix
  <2> SUFFICES ASSUME IInv PROVE SessionsDoNotMix
      OBVIOUS
  <2>1. ASSUME NEW c \in Conns, NEW k \in 1 .. Len(gateGot[c])
        PROVE  /\ k = 1 => gateGot[c][k] = owner[c]
               /\ k # 1 => Follows(c, gateGot[c][k - 1], gateGot[c][k])
    <3>1. /\ k \in 1 .. Len(Pipe(c)) /\ Pipe(c)[k] = gateGot[c][k]
          /\ k # 1 => k > 1 /\ Pipe(c)[k - 1] = gateGot[c][k - 1]
        BY ReadIsPipe
    <3> QED
        BY <3>1, ReadIsPipe DEF OneSession
  <2>2. GateSeesOneSession
      BY <2>1 DEF GateSeesOneSession, Follows
  <2> QED
      BY <2>2 DEF SessionsDoNotMix, IInv
<1> QED
    BY <1>1, RelayInvariance, PTL

(* The reader task of client.rs: nothing follows the message that says that *)
(* the operation is complete.                                               *)
THEOREM NothingAfterComplete == Spec => []CompleteIsLast
<1>1. IInv => CompleteIsLast
    BY DEF IInv
<1> QED
    BY <1>1, RelayInvariance, PTL

=============================================================================
