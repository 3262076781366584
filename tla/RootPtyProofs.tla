--------------------------- MODULE RootPtyProofs ---------------------------
(***************************************************************************)
(* Proofs about RootPty, for a relay that may do anything, any number of   *)
(* frames and output chunks, and any largest counter.                      *)
(***************************************************************************)
EXTENDS RootPty, TLAPS

-----------------------------------------------------------------------------
(* The strengthening of the safety properties.                              *)

Kinds == {"data", "resize", "close", "other"}

\* The receive counter counts the frames that were typed.
TypedInOrder ==
    /\ receiveCounter = Len(typed)
    /\ TypedIsPrefix

\* The send counter counts the frames that were encrypted, except the last
\* one of an exhausted counter, after which the session is over.
NoncesInOrder ==
    /\ \A i \in 1 .. Len(nonces) : nonces[i] = i - 1
    /\ loop \notin Over => sendCounter = Len(nonces)

\* Every chunk is in one place.
Underway == IF loop = "writing" THEN 1 ELSE 0

OutputKept ==
    /\ queued + Underway + sent <= printed
    /\ loop # "failed" => queued + Underway + sent = printed

\* The output branch ends the loop only after the last chunk of a dead shell.
EndedAfterOutput ==
    endedBy = "output" =>
        /\ loop \in {"ending"} \cup Over
        /\ shell = "exited" /\ queued = 0 /\ sent = printed

FramesBounded == forwardedData <= forwarded

IInv ==
    /\ TypeOK
    /\ TypedInOrder
    /\ NoncesInOrder
    /\ OutputKept
    /\ EndedAfterOutput
    /\ FramesBounded

-----------------------------------------------------------------------------
(* Facts about the parts of a step.                                         *)

LEMMA PartOfSum ==
    \A a, b, c, d \in Nat : a + b + c <= d => a <= d
  OBVIOUS

LEMMA InitIInv == Init => IInv
  <1> SUFFICES ASSUME Init PROVE IInv
    OBVIOUS
  <1>1. /\ wire \in Seq({"len", "body"} \X Frames) /\ typed \in Seq(0 .. MaxFrames)
        /\ nonces \in Seq(Nat)
    BY DEF Init
  <1>2. TypeOK
    <2>1. /\ clientSent \in 0 .. MaxFrames /\ forwarded \in 0 .. MaxFrames
          /\ forwardedData \in 0 .. MaxFrames
          /\ sendCounter \in 0 .. CounterMax /\ receiveCounter \in 0 .. CounterMax
          /\ printed \in 0 .. MaxOutput /\ queued \in 0 .. MaxOutput
          /\ sent \in 0 .. MaxOutput
      BY BoundsAssumption DEF Init
    <2>2. /\ writing \in Frames \cup {NoFrame}
          /\ loop \in {"select", "writing", "typing", "ending"} \cup Over
          /\ {eof, lengthRead, desync} \subseteq BOOLEAN
          /\ shell \in {"alive", "exited", "killed"}
          /\ endedBy \in {"none", "deadline", "output", "eof", "close", "garbage"}
      BY DEF Init
    <2>3. QED
      BY <1>1, <2>1, <2>2 DEF TypeOK
  <1>3. QED
    BY <1>2 DEF Init, IInv, TypedInOrder, TypedIsPrefix, NoncesInOrder, OutputKept,
       Underway, EndedAfterOutput, FramesBounded

\* One more nonce, which is its counter.
LEMMA EncryptStep ==
    ASSUME TypeOK, NoncesInOrder, loop \notin Over, Encrypt
    PROVE  /\ nonces' \in Seq(Nat)
           /\ \A i \in 1 .. Len(nonces') : nonces'[i] = i - 1
           /\ sendCounter' \in 0 .. CounterMax
           /\ ~Exhausted(sendCounter) => sendCounter' = Len(nonces')
           /\ UNCHANGED receiveCounter
  <1>1. /\ nonces' = Append(nonces, sendCounter) /\ nonces \in Seq(Nat)
        /\ sendCounter \in 0 .. CounterMax /\ sendCounter = Len(nonces)
        /\ \A i \in 1 .. Len(nonces) : nonces[i] = i - 1
    BY DEF Encrypt, TypeOK, NoncesInOrder
  <1>2. sendCounter \in Nat
    BY <1>1, BoundsAssumption
  <1>3. nonces' \in Seq(Nat) /\ Len(nonces') = Len(nonces) + 1
    BY <1>1, <1>2
  <1>4. \A i \in 1 .. Len(nonces') : nonces'[i] = i - 1
    BY <1>1, <1>2, <1>3
  <1>5. /\ sendCounter' \in 0 .. CounterMax
        /\ ~Exhausted(sendCounter) => sendCounter' = sendCounter + 1
        /\ UNCHANGED receiveCounter
    BY <1>1, BoundsAssumption DEF Encrypt, Exhausted, NextCounter
  <1>6. QED
    BY <1>1, <1>3, <1>4, <1>5

\* A frame in the socket is a frame.
LEMMA WireParts ==
    ASSUME TypeOK, NEW n \in 1 .. Len(wire)
    PROVE  /\ wire[n][2] \in Frames
           /\ wire[n][2].kind \in Kinds /\ wire[n][2].counter \in 0 .. MaxFrames
  <1> DEFINE Part == {"len", "body"} \X Frames
  <1>1. wire \in Seq(Part)
    BY DEF TypeOK
  <1> HIDE DEF Part
  <1>2. wire[n] \in Part
    BY <1>1
  <1>3. wire[n][2] \in Frames
    BY <1>2 DEF Part
  <1>4. QED
    BY <1>3, BoundsAssumption DEF Frames, Kinds

\* What a frame types is the counter that was expected.
LEMMA HandleStep ==
    ASSUME TypeOK, TypedInOrder, NEW f, f.counter \in 0 .. MaxFrames, HandleFrame(f)
    PROVE  /\ typed' \in Seq(0 .. MaxFrames)
           /\ receiveCounter' \in 0 .. CounterMax
           /\ TypedInOrder'
           /\ \/ loop' \in {loop, "typing", "failed"} /\ endedBy' = endedBy
              \/ loop' = "ending" /\ endedBy' = "close"
  <1>1. CASE typed' = Append(typed, f.counter) /\ InSequence(f.counter)
             /\ ~Exhausted(receiveCounter) /\ receiveCounter' = NextCounter(receiveCounter)
             /\ loop' = "typing" /\ UNCHANGED endedBy
    <2>1. /\ f.counter = Len(typed) /\ typed \in Seq(0 .. MaxFrames)
          /\ receiveCounter = Len(typed) /\ receiveCounter \in 0 .. CounterMax
      BY <1>1 DEF InSequence, TypedInOrder, TypeOK
    <2>2. /\ typed' \in Seq(0 .. MaxFrames) /\ Len(typed') = Len(typed) + 1
          /\ \A i \in 1 .. Len(typed') : typed'[i] = IF i = Len(typed) + 1 THEN f.counter
                                                     ELSE typed[i]
      BY <1>1, <2>1
    <2>3. receiveCounter' = Len(typed) + 1 /\ receiveCounter' \in 0 .. CounterMax
      BY <1>1, <2>1, BoundsAssumption DEF Exhausted, NextCounter
    <2>4. TypedIsPrefix'
      BY <2>1, <2>2 DEF TypedInOrder, TypedIsPrefix
    <2>5. QED
      BY <1>1, <2>2, <2>3, <2>4 DEF TypedInOrder
  <1>2. CASE UNCHANGED <<typed, receiveCounter>> /\ loop' \in {loop, "failed"}
             /\ endedBy' = endedBy
    BY <1>2 DEF TypeOK, TypedInOrder, TypedIsPrefix
  <1>3. CASE UNCHANGED <<typed, receiveCounter>> /\ Break("close")
    BY <1>3 DEF TypeOK, TypedInOrder, TypedIsPrefix, Break
  <1>4. QED
    BY <1>1, <1>2, <1>3 DEF HandleFrame

-----------------------------------------------------------------------------
(* The invariant is inductive.                                              *)

LEMMA PeerStep == IInv /\ Peer => IInv'
  <1> SUFFICES ASSUME IInv, Peer PROVE IInv'
    OBVIOUS
  <1> DEFINE Typed ==
               /\ UNCHANGED <<loop, lengthRead, counters, typed, tty, history>>
               /\ clientSent' \in 0 .. MaxFrames /\ eof' \in BOOLEAN
               /\ writing' \in Frames \cup {NoFrame}
               /\ wire' \in Seq({"len", "body"} \X Frames)
               /\ forwarded' \in 0 .. MaxFrames /\ forwardedData' \in 0 .. MaxFrames
               /\ forwardedData' <= forwarded'
  <1>1. Typed
    <2>1. CASE ClientEncrypts
      BY <2>1, BoundsAssumption DEF ClientEncrypts, IInv, TypeOK, FramesBounded
    <2>2. ASSUME NEW f \in Forwardable, WriteLength(f)
          PROVE  Typed
      <3>1. f \in Frames
        BY BoundsAssumption DEF Forwardable, Frames
      <3>2. wire' \in Seq({"len", "body"} \X Frames)
        BY <2>2, <3>1 DEF WriteLength, IInv, TypeOK
      <3>3. QED
        BY <2>2, <3>1, <3>2, BoundsAssumption DEF WriteLength, IInv, TypeOK, FramesBounded
    <2>3. CASE WriteBody
      <3>1. writing \in Frames
        BY <2>3 DEF WriteBody, IInv, TypeOK
      <3>2. wire' \in Seq({"len", "body"} \X Frames)
        BY <2>3, <3>1 DEF WriteBody, IInv, TypeOK
      <3>3. QED
        BY <2>3, <3>2 DEF WriteBody, IInv, TypeOK, FramesBounded
    <2>4. CASE CloseSocket
      BY <2>4 DEF CloseSocket, client, IInv, TypeOK, FramesBounded
    <2>5. QED
      BY <2>1, <2>2, <2>3, <2>4 DEF Peer
  <1>2. QED
    BY <1>1 DEF IInv, TypeOK, counters, tty, history, TypedInOrder, TypedIsPrefix,
       NoncesInOrder, OutputKept, Underway, EndedAfterOutput, FramesBounded

LEMMA ShellStep == IInv /\ (ShellPrints \/ ShellExits) => IInv'
  <1> SUFFICES ASSUME IInv, ShellPrints \/ ShellExits PROVE IInv'
    OBVIOUS
  <1>1. /\ UNCHANGED <<client, wire, eof, loop, lengthRead, counters, typed, sent, history>>
        /\ shell = "alive" /\ shell' \in {"alive", "exited"}
        /\ \/ UNCHANGED <<printed, queued>>
           \/ printed < MaxOutput /\ printed' = printed + 1 /\ queued' = queued + 1
    BY DEF ShellPrints, ShellExits
  <1>2. OutputKept' /\ printed' \in 0 .. MaxOutput /\ queued' \in 0 .. MaxOutput
    <2>1. /\ printed \in 0 .. MaxOutput /\ queued \in 0 .. MaxOutput
          /\ sent \in 0 .. MaxOutput /\ Underway \in {0, 1} /\ MaxOutput \in Nat
      BY BoundsAssumption DEF IInv, TypeOK, Underway
    <2>2. Underway' = Underway
      BY <1>1 DEF Underway
    <2>3. OutputKept'
      BY <1>1, <2>1, <2>2 DEF IInv, OutputKept
    <2>4. printed' \in 0 .. MaxOutput
      BY <1>1, <2>1
    <2>5. queued' + Underway' + sent' <= printed' /\ queued' \in Nat
      BY <1>1, <2>1, <2>3 DEF OutputKept
    <2>6. queued' \in 0 .. MaxOutput
      <3>1. Underway' \in Nat /\ sent' \in Nat /\ printed' \in Nat /\ printed' <= MaxOutput
        BY <1>1, <2>1, <2>2, <2>4
      <3>2. queued' <= printed'
        BY <2>5, <3>1, PartOfSum
      <3>3. QED
        BY <2>1, <2>5, <3>1, <3>2
    <2>7. QED
      BY <2>3, <2>4, <2>6
  <1>3. TypeOK'
    BY <1>1, <1>2 DEF IInv, TypeOK, client, counters, history
  <1>4. QED
    BY <1>1, <1>2, <1>3 DEF IInv, TypedInOrder, TypedIsPrefix, NoncesInOrder, EndedAfterOutput,
       FramesBounded, client, counters, history

\* A branch that reads the socket leaves the output and the send counter alone,
\* and so does the write to the PTY it may lead to.
LEMMA ReadBranch ==
    ASSUME IInv, loop \in {"select", "typing"},
           UNCHANGED <<client, eof, sendCounter, nonces, tty>>,
           wire' \in Seq({"len", "body"} \X Frames),
           lengthRead' \in BOOLEAN, desync' \in BOOLEAN,
           typed' \in Seq(0 .. MaxFrames), receiveCounter' \in 0 .. CounterMax,
           TypedInOrder',
           \/ loop' \in {"select", "typing", "failed"} /\ endedBy' = endedBy
           \/ loop' = "ending" /\ endedBy' \in {"close", "eof", "garbage", "deadline"}
    PROVE  IInv'
  <1>1. TypeOK'
    BY DEF IInv, TypeOK, client, tty, Over
  <1>2. NoncesInOrder' /\ FramesBounded'
    BY DEF IInv, NoncesInOrder, FramesBounded, client, Over
  <1>3. endedBy # "output"
    BY DEF IInv, EndedAfterOutput, Over
  <1>4. OutputKept' /\ EndedAfterOutput'
    BY <1>3, BoundsAssumption DEF IInv, TypeOK, OutputKept, Underway, EndedAfterOutput, tty
  <1>5. QED
    BY <1>1, <1>2, <1>4 DEF IInv

LEMMA TypedStays ==
    ASSUME IInv, UNCHANGED <<typed, receiveCounter>>
    PROVE  /\ typed' \in Seq(0 .. MaxFrames) /\ receiveCounter' \in 0 .. CounterMax
           /\ TypedInOrder'
  BY DEF IInv, TypeOK, TypedInOrder, TypedIsPrefix

LEMMA PollStep == IInv /\ (PollLength \/ PollFrame \/ PollGarbage \/ PollEof \/ Deadline) => IInv'
  <1> SUFFICES ASSUME IInv, PollLength \/ PollFrame \/ PollGarbage \/ PollEof \/ Deadline
               PROVE  IInv'
    OBVIOUS
  <1> DEFINE Part == {"len", "body"} \X Frames
  <1>1. wire \in Seq(Part) /\ lengthRead \in BOOLEAN /\ desync \in BOOLEAN
    BY DEF IInv, TypeOK
  <1>2. CASE PollLength
    <2>1. wire' \in Seq(Part)
      BY <1>2 DEF PollLength
    <2>2. QED
      BY <1>1, <1>2, <2>1, ReadBranch, TypedStays DEF PollLength, counters, history
  <1>3. CASE PollFrame
    <2>1. PICK parts \in {1, 2} : /\ Len(wire) >= parts /\ HandleFrame(wire[1][2])
                                  /\ wire' = SubSeq(wire, parts + 1, Len(wire))
      BY <1>3 DEF PollFrame
    <2>2. wire' \in Seq(Part)
      <3> HIDE DEF Part
      <3>1. QED
        BY <1>1, <2>1
    <2>3. 1 \in 1 .. Len(wire)
      <3> HIDE DEF Part
      <3>1. QED
        BY <1>1, <2>1
    <2>4. wire[1][2].counter \in 0 .. MaxFrames
      BY <2>3, WireParts DEF IInv
    <2>5. QED
      BY <1>1, <1>3, <2>1, <2>2, <2>4, HandleStep, ReadBranch DEF PollFrame, IInv
  <1>4. CASE PollGarbage
    <2>1. wire' \in Seq(Part)
      <3> HIDE DEF Part
      <3>1. wire # <<>> /\ wire' = Tail(wire)
        BY <1>4 DEF PollGarbage
      <3>2. QED
        BY <1>1, <3>1
    <2>2. QED
      BY <1>1, <1>4, <2>1, ReadBranch, TypedStays DEF PollGarbage, Break, counters
  <1>5. CASE PollEof \/ Deadline
    BY <1>1, <1>5, ReadBranch, TypedStays DEF PollEof, Deadline, Break, counters
  <1>6. QED
    BY <1>2, <1>3, <1>4, <1>5

LEMMA TypingStep == IInv /\ (TypingDone \/ TypingFails) => IInv'
  <1> SUFFICES ASSUME IInv, TypingDone \/ TypingFails
               PROVE  IInv'
    OBVIOUS
  <1>1. /\ loop = "typing" /\ loop' \in {"select", "failed"}
        /\ UNCHANGED <<client, wire, eof, lengthRead, counters, typed, tty, history>>
    BY DEF TypingDone, TypingFails
  <1>2. /\ wire' \in Seq({"len", "body"} \X Frames)
        /\ lengthRead' \in BOOLEAN /\ desync' \in BOOLEAN
    BY <1>1 DEF IInv, TypeOK, history
  <1>3. QED
    BY <1>1, <1>2, ReadBranch, TypedStays DEF counters, history

LEMMA OutputStep ==
    IInv /\ (TakeOutput \/ OutputWritten \/ WriteFails \/ OutputEnds \/ Finish) => IInv'
  <1> SUFFICES ASSUME IInv, TakeOutput \/ OutputWritten \/ WriteFails \/ OutputEnds \/ Finish
               PROVE  IInv'
    OBVIOUS
  <1>1. CASE TakeOutput
    <2>1. /\ loop = "select" /\ queued > 0 /\ queued' = queued - 1
          /\ loop' = IF Exhausted(sendCounter) THEN "failed" ELSE "writing"
          /\ lengthRead' = FALSE
          /\ UNCHANGED <<client, wire, eof, typed, shell, printed, sent, history>>
      BY <1>1 DEF TakeOutput
    <2>2. /\ nonces' \in Seq(Nat) /\ sendCounter' \in 0 .. CounterMax
          /\ \A i \in 1 .. Len(nonces') : nonces'[i] = i - 1
          /\ ~Exhausted(sendCounter) => sendCounter' = Len(nonces')
          /\ UNCHANGED receiveCounter
      BY <1>1, <2>1, EncryptStep DEF TakeOutput, IInv, Over
    <2>3. TypeOK'
      <3>1. queued' \in 0 .. MaxOutput
        BY <2>1, BoundsAssumption DEF IInv, TypeOK
      <3>2. QED
        BY <2>1, <2>2, <3>1 DEF IInv, TypeOK, client, history, Over
    <2>4. NoncesInOrder' /\ TypedInOrder' /\ FramesBounded'
      BY <2>1, <2>2 DEF IInv, NoncesInOrder, TypedInOrder, TypedIsPrefix, FramesBounded,
         client, Over
    <2>5. endedBy # "output"
      BY <2>1 DEF IInv, EndedAfterOutput, Over
    <2>6. OutputKept' /\ EndedAfterOutput'
      BY <2>1, <2>5, BoundsAssumption
         DEF IInv, TypeOK, OutputKept, Underway, EndedAfterOutput, history
    <2>7. QED
      BY <2>3, <2>4, <2>6 DEF IInv
  <1>2. CASE OutputWritten \/ WriteFails
    <2>1. /\ loop = "writing" /\ loop' \in {"select", "failed"}
          /\ sent' = (IF loop' = "select" THEN sent + 1 ELSE sent)
          /\ UNCHANGED <<client, wire, eof, lengthRead, counters, typed, shell, printed,
                         queued, history>>
      BY <1>2 DEF OutputWritten, WriteFails, tty
    <2>2. endedBy # "output"
      BY <2>1 DEF IInv, EndedAfterOutput, Over
    <2>3. OutputKept' /\ EndedAfterOutput'
      BY <2>1, <2>2, BoundsAssumption
         DEF IInv, TypeOK, OutputKept, Underway, EndedAfterOutput, history
    <2>4. sent' \in 0 .. MaxOutput
      BY <2>1, BoundsAssumption DEF IInv, TypeOK, OutputKept, Underway
    <2>5. TypeOK'
      BY <2>1, <2>4 DEF IInv, TypeOK, client, counters, history, Over
    <2>6. NoncesInOrder' /\ TypedInOrder' /\ FramesBounded'
      BY <2>1 DEF IInv, NoncesInOrder, TypedInOrder, TypedIsPrefix, FramesBounded,
         client, counters, Over
    <2>7. QED
      BY <2>3, <2>5, <2>6 DEF IInv
  <1>3. CASE OutputEnds
    <2>1. /\ loop = "select" /\ shell = "exited" /\ queued = 0
          /\ loop' = "ending" /\ endedBy' = "output"
          /\ UNCHANGED <<client, wire, eof, lengthRead, counters, typed, tty, desync>>
      BY <1>3 DEF OutputEnds, Break
    <2>2. TypeOK' /\ OutputKept' /\ EndedAfterOutput'
      BY <2>1, BoundsAssumption
         DEF IInv, TypeOK, OutputKept, Underway, EndedAfterOutput, client, counters, tty, Over
    <2>3. NoncesInOrder' /\ TypedInOrder' /\ FramesBounded'
      BY <2>1 DEF IInv, NoncesInOrder, TypedInOrder, TypedIsPrefix, FramesBounded,
         client, counters, Over
    <2>4. QED
      BY <2>2, <2>3 DEF IInv
  <1>4. CASE Finish
    <2>1. /\ loop = "ending" /\ loop' \in Over
          /\ shell' = IF shell = "alive" THEN "killed" ELSE shell
          /\ UNCHANGED <<client, wire, eof, lengthRead, typed, printed, queued, sent, history>>
      BY <1>4 DEF Finish, Over
    <2>2. /\ nonces' \in Seq(Nat) /\ sendCounter' \in 0 .. CounterMax
          /\ \A i \in 1 .. Len(nonces') : nonces'[i] = i - 1
          /\ UNCHANGED receiveCounter
      BY <1>4, <2>1, EncryptStep DEF Finish, IInv, Over
    <2>3. TypeOK'
      BY <2>1, <2>2 DEF IInv, TypeOK, client, history
    <2>4. NoncesInOrder' /\ TypedInOrder' /\ FramesBounded'
      BY <2>1, <2>2 DEF IInv, NoncesInOrder, TypedInOrder, TypedIsPrefix, FramesBounded, client
    <2>5. OutputKept' /\ EndedAfterOutput'
      BY <2>1, BoundsAssumption
         DEF IInv, TypeOK, OutputKept, Underway, EndedAfterOutput, history, Over
    <2>6. QED
      BY <2>3, <2>4, <2>5 DEF IInv
  <1>5. QED
    BY <1>1, <1>2, <1>3, <1>4

LEMMA NextIInv == IInv /\ [Next]_vars => IInv'
  <1>1. IInv /\ UNCHANGED vars => IInv'
    BY DEF IInv, TypeOK, TypedInOrder, TypedIsPrefix, NoncesInOrder, OutputKept, Underway,
       EndedAfterOutput, FramesBounded, vars, client, counters, tty, history
  <1>2. QED
    BY <1>1, PeerStep, ShellStep, PollStep, TypingStep, OutputStep DEF Next, Gate

THEOREM Invariance == Spec => []IInv
  BY InitIInv, NextIInv, PTL DEF Spec

-----------------------------------------------------------------------------
(* What it gives.                                                           *)

(* Neither the counters nor the queues of run_pty leave their ranges.        *)
THEOREM Types == Spec => []TypeOK
  BY Invariance, PTL DEF IInv

(* Whatever a relay repeats, drops or reorders, the shell is typed a prefix  *)
(* of what the client sent (crypto.rs, decrypt).                             *)
THEOREM Typing == Spec => []TypedIsPrefix
  BY Invariance, PTL DEF IInv, TypedInOrder

(* No counter encrypts two frames, not even at its last value (crypto.rs,    *)
(* encrypt and its checked_add).                                             *)
THEOREM FreshNonces == Spec => []NoncesDistinct
  <1>1. IInv => NoncesDistinct
    BY DEF IInv, NoncesInOrder, NoncesDistinct
  <1>2. QED
    BY <1>1, Invariance, PTL

(* The Exit frame of a shell that ended by itself follows all its output     *)
(* (run_pty's select loop and the channel of its reader thread).             *)
THEOREM ExitIsLast == Spec => []OutputBeforeExit
  <1>1. IInv => OutputBeforeExit
    BY DEF IInv, EndedAfterOutput, OutputBeforeExit
  <1>2. QED
    BY <1>1, Invariance, PTL
=============================================================================
