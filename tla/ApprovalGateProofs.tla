------------------------- MODULE ApprovalGateProofs -------------------------
(***************************************************************************)
(* Proofs about ApprovalGate, for every number of connections, request     *)
(* ids, operations, keys and policies and for an unbounded clock.          *)
(***************************************************************************)
EXTENDS ApprovalGate, TLAPS

-----------------------------------------------------------------------------
(* The strengthening of the safety properties.                              *)

\* A challenge belongs to the connection that drew its nonce, and it is the
\* manifest stored for its request id.
ChallengeStored ==
    \A c \in Conns : chal[c] # NoManifest =>
        /\ chal[c].nonce = c
        /\ rowManifest[chal[c].id] = chal[c]
        /\ rowStatus[chal[c].id] # "absent"

\* Only stored manifests get signatures.
SignaturesStored ==
    \A s \in signed :
        /\ rowManifest[s[2].id] = s[2]
        /\ rowStatus[s[2].id] # "absent"

\* A handler that works on an approval works on its own challenge.
GotOwnChallenge ==
    \A c \in Conns : phase[c] \in Approving \cup {"closed"} =>
        got[c] # NoManifest /\ got[c] = chal[c] /\ key[c] \in Keys

\* Verification is remembered.
VerifiedSigned ==
    \A c \in Conns : phase[c] \in {"verified", "selected"} \cup Spent =>
        <<key[c], got[c]>> \in signed /\ key[c] \in seen[c]

\* While an approval is verified, seen[c] contains the current keyring.
SeenCoversKeyring ==
    \A c \in Conns, a \in Approvers :
        phase[c] = "verifying" => keyring[a] \in seen[c]

SelectedInTime ==
    \A c \in Conns : phase[c] = "selected" => at[c] <= got[c].expires

\* A spent approval is a consumed row.
SpentConsumed ==
    \A c \in Conns : phase[c] \in Spent => rowStatus[got[c].id] = "consumed"

\* What is known of every start.
Begun == {"running", "sending", "typing", "reaped"} \cup Final

ExecsRecorded ==
    \A x \in execs :
        /\ x.m # NoManifest
        /\ x.m = chal[x.conn]
        /\ x.m = got[x.conn]
        /\ x.key = key[x.conn]
        /\ x.key \in Keys
        /\ phase[x.conn] \in Begun
        /\ rowStatus[x.m.id] = "consumed"
        /\ <<x.key, x.m>> \in signed
        /\ x.key \in seen[x.conn]

ChildPhases ==
    \A c \in Conns :
        /\ child[c] = "alive" =>
              phase[c] \in {"running", "sending", "typing", "failed"}
        /\ phase[c] \in {"reaped", "closed"} => child[c] = "reaped"
        /\ phase[c] \in {"sending", "typing"} => ~IsCommand(got[c].op)
        /\ phase[c] = "failed" /\ child[c] = "alive" => ~IsCommand(got[c].op)

\* A handler before its challenge has none, so a challenge is never replaced.
NoChallengeYet ==
    \A c \in Conns : phase[c] \in {"idle", "accepted"} => chal[c] = NoManifest

IInv ==
    /\ TypeOK
    /\ NoChallengeYet
    /\ ChallengeStored
    /\ SignaturesStored
    /\ GotOwnChallenge
    /\ VerifiedSigned
    /\ SeenCoversKeyring
    /\ SelectedInTime
    /\ SpentConsumed
    /\ ExecsRecorded
    /\ ChildPhases
    /\ RedeemedInTime

-----------------------------------------------------------------------------
(* Typing.                                                                  *)

LEMMA TtlType ==
    ASSUME NEW o \in Ops
    PROVE  Ttl(o) \in Nat
  <1>1. Limit[o] \in Nat /\ Margin \in Nat /\ TtlMin \in Nat /\ TtlMax \in Nat
    BY TimeAssumption
  <1>2. QED
    BY <1>1 DEF Ttl

LEMMA IssuedType ==
    ASSUME TypeOK, NEW m \in Issued
    PROVE  m \in Manifests
  BY DEF TypeOK, Issued

\* A failing handler changes its phase and its snapshot only.
LEMMA FailsAtType ==
    ASSUME TypeOK, NEW c \in Conns, NEW from, FailsAt(c, from)
    PROVE  TypeOK'
  BY DEF TypeOK, FailsAt, db, history, Phases, Final

LEMMA TypeStep == TypeOK /\ [Next]_vars => TypeOK'
  <1> SUFFICES ASSUME TypeOK, [Next]_vars
               PROVE  TypeOK'
    OBVIOUS
  <1>1. CASE UNCHANGED vars
    BY <1>1 DEF TypeOK, vars, db, conn, history
  <1>2. CASE Tick
    BY <1>2 DEF TypeOK, Tick, db, conn, history
  <1>3. ASSUME NEW a \in Approvers, NEW k \in Keys, enroll_approver(a, k)
        PROVE  TypeOK'
    BY <1>3 DEF TypeOK, enroll_approver, db, conn
  <1>4. ASSUME NEW k \in Keys, NEW m \in Issued, Sign(k, m)
        PROVE  TypeOK'
    BY <1>4, IssuedType DEF TypeOK, Sign, db, conn
  <1>5. CASE Crash
    BY <1>5 DEF TypeOK, Crash, db, history, Phases, Final
  <1>6. ASSUME NEW p \in Policies, Restart(p)
        PROVE  TypeOK'
    BY <1>6 DEF TypeOK, Restart, db, conn, history
  <1>7. ASSUME NEW c \in Conns, Handle(c)
        PROVE  TypeOK'
    <2>1. CASE Accept(c)
      BY <2>1 DEF TypeOK, Accept, db, history, Phases, Final
    <2>2. ASSUME NEW i \in Ids, NEW o \in Ops, challenge(c, i, o)
          PROVE  TypeOK'
      <3> DEFINE m == [id |-> i, op |-> o, nonce |-> c,
                       expires |-> clock + Ttl(o), policy |-> policy]
      <3>1. m \in Manifests
        BY TtlType DEF TypeOK, Manifests
      <3>2. /\ rowStatus' = [rowStatus EXCEPT ![i] = "pending"]
            /\ rowManifest' = [rowManifest EXCEPT ![i] = m]
            /\ chal' = [chal EXCEPT ![c] = m]
            /\ phase' = [phase EXCEPT ![c] = "challenged"]
            /\ fresh' = [d \in Conns |-> FALSE]
            /\ UNCHANGED <<up, policy, clock, keyring, consumedAt,
                            got, key, at, child, signed, execs, seen>>
        BY <2>2 DEF challenge, Committed, history
      <3> HIDE DEF m
      <3>3. QED
        BY <3>1, <3>2 DEF TypeOK, Phases
    <2>3. CASE RefuseStart(c)
      BY <2>3, FailsAtType DEF RefuseStart
    <2>4. ASSUME NEW m \in Presentable, NEW k \in Keys, ReadApprove(c, m, k)
          PROVE  TypeOK'
      <3>1. m \in Manifests
        BY <2>4, IssuedType DEF ReadApprove, Current
      <3>2. QED
        BY <2>4, <3>1 DEF TypeOK, ReadApprove, db, Phases
    <2>5. CASE RefuseApprove(c)
      BY <2>5, FailsAtType DEF RefuseApprove
    <2>6. CASE CheckApprover(c)
      BY <2>6 DEF TypeOK, CheckApprover, db, history, Phases
    <2>7. CASE RefuseApprover(c)
      BY <2>7, FailsAtType DEF RefuseApprover
    <2>8. CASE SelectRow(c)
      BY <2>8 DEF TypeOK, SelectRow, db, history, Phases
    <2>9. CASE RefuseRow(c)
      BY <2>9, FailsAtType DEF RefuseRow
    <2>10. CASE ConsumeRow(c)
      BY <2>10 DEF TypeOK, ConsumeRow, Committed, history, Phases
    <2>11. CASE RollBack(c)
      BY <2>11, FailsAtType DEF RollBack
    <2>12. CASE Run(c)
      <3>1. CASE Spawn(c)
        BY <3>1 DEF TypeOK, Spawn, db, Phases
      <3>2. CASE SpawnFails(c)
        BY <3>2, FailsAtType DEF SpawnFails
      <3>3. CASE CommandDone(c)
        BY <3>3 DEF TypeOK, CommandDone, EndsChild, db, history, Phases
      <3>4. CASE CommandTimeout(c)
        BY <3>4 DEF TypeOK, CommandTimeout, EndsChild, db, history, Phases, Final
      <3>5. CASE PtyOutput(c)
        BY <3>5 DEF TypeOK, PtyOutput, db, history, Phases
      <3>6. CASE PtyOutputWritten(c)
        BY <3>6 DEF TypeOK, PtyOutputWritten, db, history, Phases
      <3>6i. CASE PtyInput(c)
        BY <3>6i DEF TypeOK, PtyInput, db, history, Phases
      <3>6t. CASE PtyInputTaken(c)
        BY <3>6t DEF TypeOK, PtyInputTaken, db, history, Phases
      <3>7. CASE PtyBreak(c)
        BY <3>7 DEF TypeOK, PtyBreak, EndsChild, db, history, Phases
      <3>8. CASE PtyFails(c)
        BY <3>8, FailsAtType DEF PtyFails
      <3>9. CASE SendClosed(c)
        BY <3>9 DEF TypeOK, SendClosed, db, history, Phases, Final
      <3>10. CASE SendClosedFails(c)
        BY <3>10, FailsAtType DEF SendClosedFails
      <3>11. QED
        BY <2>12, <3>1, <3>2, <3>3, <3>4, <3>5, <3>6, <3>6i, <3>6t, <3>7,
           <3>8, <3>9, <3>10 DEF Run
    <2>13. QED
      BY <1>7, <2>1, <2>2, <2>3, <2>4, <2>5, <2>6, <2>7, <2>8, <2>9, <2>10,
         <2>11, <2>12 DEF Handle, Verify
  <1>8. ASSUME NEW c \in Conns, OrphanExits(c)
        PROVE  TypeOK'
    BY <1>8 DEF TypeOK, OrphanExits, EndsChild, db, history, Phases, Final
  <1>9. QED
    BY <1>1, <1>2, <1>3, <1>4, <1>5, <1>6, <1>7, <1>8 DEF Next

(* The type invariant of the gate: every handler, row and history variable  *)
(* keeps its type through all interleavings, crashes and restarts.          *)
THEOREM TypeCorrect == Spec => []TypeOK
  <1>1. Init => TypeOK
    BY DEF Init, TypeOK, Phases
  <1>2. QED
    BY <1>1, TypeStep, PTL DEF Spec

-----------------------------------------------------------------------------
(* The inductive invariant.                                                 *)

\* A step that changes at most `fresh`, the phases of handlers that fail, and
\* keeps the rest: handlers that returned Err.
LEMMA FailsAtStep ==
    ASSUME IInv, NEW c \in Conns, NEW from, FailsAt(c, from),
           phase[c] \in {"running", "sending", "typing"} => ~IsCommand(got[c].op)
    PROVE  IInv'
  <1> USE DEF FailsAt, db, history
  <1>0. TypeOK /\ TypeOK'
    BY FailsAtType DEF IInv
  <1>1. NoChallengeYet'
    BY <1>0 DEF IInv, TypeOK, NoChallengeYet, Approving, Spent, Begun, Final
  <1>2. ChallengeStored'
    BY <1>0 DEF IInv, TypeOK, ChallengeStored, Approving, Spent, Begun, Final
  <1>3. SignaturesStored'
    BY <1>0 DEF IInv, TypeOK, SignaturesStored, Approving, Spent, Begun, Final
  <1>4. GotOwnChallenge'
    BY <1>0 DEF IInv, TypeOK, GotOwnChallenge, Approving, Spent, Begun, Final
  <1>5. VerifiedSigned'
    BY <1>0 DEF IInv, TypeOK, VerifiedSigned, Approving, Spent, Begun, Final
  <1>6. SeenCoversKeyring'
    BY <1>0 DEF IInv, TypeOK, SeenCoversKeyring, Approving, Spent, Begun, Final
  <1>7. SelectedInTime'
    BY <1>0 DEF IInv, TypeOK, SelectedInTime, Approving, Spent, Begun, Final
  <1>8. SpentConsumed'
    BY <1>0 DEF IInv, TypeOK, SpentConsumed, Approving, Spent, Begun, Final
  <1>9. ExecsRecorded'
    BY <1>0 DEF IInv, TypeOK, ExecsRecorded, Approving, Spent, Begun, Final
  <1>10. ChildPhases'
    BY <1>0 DEF IInv, TypeOK, ChildPhases, Approving, Spent, Begun, Final
  <1>11. RedeemedInTime'
    BY <1>0 DEF IInv, TypeOK, RedeemedInTime, Approving, Spent, Begun, Final
  <1>12. QED
    BY <1>0, <1>1, <1>2, <1>3, <1>4, <1>5, <1>6, <1>7, <1>8, <1>9, <1>10, <1>11
       DEF IInv
\* What IInv says of one recorded start.
LEMMA ExecFacts ==
    ASSUME IInv, NEW x \in execs
    PROVE  /\ x.conn \in Conns
           /\ x.m \in Manifests
           /\ x.m.id \in Ids
           /\ x.m.nonce = x.conn
           /\ rowManifest[x.m.id] = x.m
           /\ rowStatus[x.m.id] = "consumed"
           /\ phase[x.conn] \in Begun
  <1>1. x.conn \in Conns /\ x.m \in Manifests
    BY DEF IInv, TypeOK, ExecsRecorded
  <1>2. x.m.id \in Ids
    BY <1>1 DEF Manifests
  <1>3. QED
    BY <1>1, <1>2 DEF IInv, ChallengeStored, ExecsRecorded

\* What IInv says of a handler that works on an approval.
LEMMA GotFacts ==
    ASSUME IInv, NEW c \in Conns, phase[c] \in Approving \cup {"closed"}
    PROVE  /\ got[c] \in Manifests
           /\ got[c].id \in Ids
           /\ got[c].nonce = c
           /\ rowManifest[got[c].id] = got[c]
           /\ key[c] \in Keys
  <1>1. got[c] \in Manifests /\ got[c] = chal[c] /\ key[c] \in Keys
    BY DEF IInv, TypeOK, GotOwnChallenge
  <1>2. got[c].id \in Ids
    BY <1>1 DEF Manifests
  <1>3. QED
    BY <1>1, <1>2 DEF IInv, ChallengeStored, GotOwnChallenge

\* Starts stay recorded in a step that keeps what they are recorded with and
\* takes no handler back before its start.
LEMMA ExecsKept ==
    ASSUME IInv,
           UNCHANGED <<execs, rowStatus, chal, got, key, signed, seen>>,
           \A d \in Conns : phase[d] \in Begun => phase'[d] \in Begun
    PROVE  ExecsRecorded'
  <1>1. \A x \in execs : phase'[x.conn] \in Begun
    BY ExecFacts
  <1>2. QED
    BY <1>1 DEF IInv, ExecsRecorded

\* The connection is accepted or refused.
LEMMA AcceptStep ==
    ASSUME IInv, TypeOK', NEW c \in Conns, Accept(c)
    PROVE  IInv'
  <1> USE DEF Accept, db, history
  <1>1. NoChallengeYet'
    BY DEF IInv, TypeOK, NoChallengeYet, Approving, Spent, Begun, Final
  <1>2. ChallengeStored'
    BY DEF IInv, TypeOK, ChallengeStored, Approving, Spent, Begun, Final
  <1>3. SignaturesStored'
    BY DEF IInv, TypeOK, SignaturesStored, Approving, Spent, Begun, Final
  <1>4. GotOwnChallenge'
    BY DEF IInv, TypeOK, GotOwnChallenge, Approving, Spent, Begun, Final
  <1>5. VerifiedSigned'
    BY DEF IInv, TypeOK, VerifiedSigned, Approving, Spent, Begun, Final
  <1>6. SeenCoversKeyring'
    BY DEF IInv, TypeOK, SeenCoversKeyring, Approving, Spent, Begun, Final
  <1>7. SelectedInTime'
    BY DEF IInv, TypeOK, SelectedInTime, Approving, Spent, Begun, Final
  <1>8. SpentConsumed'
    BY DEF IInv, TypeOK, SpentConsumed, Approving, Spent, Begun, Final
  <1>9. ExecsRecorded'
    BY ExecsKept DEF IInv, TypeOK, Begun, Final
  <1>10. ChildPhases'
    BY DEF IInv, TypeOK, ChildPhases, Approving, Spent, Begun, Final
  <1>11. RedeemedInTime'
    BY DEF IInv, TypeOK, RedeemedInTime, Approving, Spent, Begun, Final
  <1>12. QED
    BY <1>1, <1>2, <1>3, <1>4, <1>5, <1>6, <1>7, <1>8, <1>9, <1>10, <1>11
       DEF IInv

\* The unused id gets its row: no stored manifest is touched.
LEMMA ChallengeStep ==
    ASSUME IInv, TypeOK', NEW c \in Conns, NEW i \in Ids, NEW o \in Ops, challenge(c, i, o)
    PROVE  IInv'
  <1> USE DEF challenge, Committed, Insertable, history
  <1>1. NoChallengeYet'
    BY DEF IInv, TypeOK, NoChallengeYet, Approving, Spent, Begun, Final
  <1>2. ChallengeStored'
    BY DEF IInv, TypeOK, ChallengeStored, Approving, Spent, Begun, Final
  <1>3. SignaturesStored'
    BY DEF IInv, TypeOK, SignaturesStored, Approving, Spent, Begun, Final
  <1>4. GotOwnChallenge'
    BY DEF IInv, TypeOK, GotOwnChallenge, Approving, Spent, Begun, Final
  <1>5. VerifiedSigned'
    BY DEF IInv, TypeOK, VerifiedSigned, Approving, Spent, Begun, Final
  <1>6. SeenCoversKeyring'
    BY DEF IInv, TypeOK, SeenCoversKeyring, Approving, Spent, Begun, Final
  <1>7. SelectedInTime'
    BY DEF IInv, TypeOK, SelectedInTime, Approving, Spent, Begun, Final
  <1>8. SpentConsumed'
    BY DEF IInv, TypeOK, SpentConsumed, Approving, Spent, Begun, Final
  <1>9. ExecsRecorded'
    <2> SUFFICES ASSUME NEW x \in execs
                 PROVE  (/\ x.m # NoManifest
                         /\ x.m = chal[x.conn]
                         /\ x.m = got[x.conn]
                         /\ x.key = key[x.conn]
                         /\ x.key \in Keys
                         /\ phase[x.conn] \in Begun
                         /\ rowStatus[x.m.id] = "consumed"
                         /\ <<x.key, x.m>> \in signed
                         /\ x.key \in seen[x.conn])'
      BY DEF ExecsRecorded
    <2>1. x.conn # c /\ x.m.id # i
      BY ExecFacts DEF Begun, Final
    <2>2. QED
      BY <2>1, ExecFacts DEF IInv, TypeOK, ExecsRecorded
  <1>10. ChildPhases'
    BY DEF IInv, TypeOK, ChildPhases, Approving, Spent, Begun, Final
  <1>11. RedeemedInTime'
    BY DEF IInv, TypeOK, RedeemedInTime, Approving, Spent, Begun, Final
  <1>12. QED
    BY <1>1, <1>2, <1>3, <1>4, <1>5, <1>6, <1>7, <1>8, <1>9, <1>10, <1>11
       DEF IInv

\* The handler takes over its own challenge.
LEMMA ReadApproveStep ==
    ASSUME IInv, TypeOK', NEW c \in Conns, NEW m \in Presentable, NEW k \in Keys, ReadApprove(c, m, k)
    PROVE  IInv'
  <1> USE DEF ReadApprove, AnswersChallenge, Current, db, Issued
  <1>1. NoChallengeYet'
    BY DEF IInv, TypeOK, NoChallengeYet, Approving, Spent, Begun, Final
  <1>2. ChallengeStored'
    BY DEF IInv, TypeOK, ChallengeStored, Approving, Spent, Begun, Final
  <1>3. SignaturesStored'
    BY DEF IInv, TypeOK, SignaturesStored, Approving, Spent, Begun, Final
  <1>4. GotOwnChallenge'
    BY DEF IInv, TypeOK, GotOwnChallenge, Approving, Spent, Begun, Final
  <1>5. VerifiedSigned'
    BY DEF IInv, TypeOK, VerifiedSigned, Approving, Spent, Begun, Final
  <1>6. SeenCoversKeyring'
    BY DEF IInv, TypeOK, SeenCoversKeyring, Approving, Spent, Begun, Final
  <1>7. SelectedInTime'
    BY DEF IInv, TypeOK, SelectedInTime, Approving, Spent, Begun, Final
  <1>8. SpentConsumed'
    BY DEF IInv, TypeOK, SpentConsumed, Approving, Spent, Begun, Final
  <1>9. ExecsRecorded'
    <2>1. \A x \in execs : x.conn # c
      BY ExecFacts DEF Begun, Final
    <2>2. QED
      BY <2>1, ExecFacts DEF IInv, TypeOK, ExecsRecorded
  <1>10. ChildPhases'
    BY DEF IInv, TypeOK, ChildPhases, Approving, Spent, Begun, Final
  <1>11. RedeemedInTime'
    BY DEF IInv, TypeOK, RedeemedInTime, Approving, Spent, Begun, Final
  <1>12. QED
    BY <1>1, <1>2, <1>3, <1>4, <1>5, <1>6, <1>7, <1>8, <1>9, <1>10, <1>11
       DEF IInv

\* The key is in the keyring of this moment, hence in seen[c].
LEMMA CheckApproverStep ==
    ASSUME IInv, TypeOK', NEW c \in Conns, CheckApprover(c)
    PROVE  IInv'
  <1> USE DEF CheckApprover, Enrolled, SignatureVerifies, db, history
  <1>1. NoChallengeYet'
    BY DEF IInv, TypeOK, NoChallengeYet, Approving, Spent, Begun, Final
  <1>2. ChallengeStored'
    BY DEF IInv, TypeOK, ChallengeStored, Approving, Spent, Begun, Final
  <1>3. SignaturesStored'
    BY DEF IInv, TypeOK, SignaturesStored, Approving, Spent, Begun, Final
  <1>4. GotOwnChallenge'
    BY DEF IInv, TypeOK, GotOwnChallenge, Approving, Spent, Begun, Final
  <1>5. VerifiedSigned'
    <2>1. key[c] \in seen[c]
      BY DEF IInv, SeenCoversKeyring
    <2>2. QED
      BY <2>1 DEF IInv, TypeOK, VerifiedSigned, Spent
  <1>6. SeenCoversKeyring'
    BY DEF IInv, TypeOK, SeenCoversKeyring, Approving, Spent, Begun, Final
  <1>7. SelectedInTime'
    BY DEF IInv, TypeOK, SelectedInTime, Approving, Spent, Begun, Final
  <1>8. SpentConsumed'
    BY DEF IInv, TypeOK, SpentConsumed, Approving, Spent, Begun, Final
  <1>9. ExecsRecorded'
    BY ExecsKept DEF IInv, TypeOK, Begun, Final
  <1>10. ChildPhases'
    BY DEF IInv, TypeOK, ChildPhases, Approving, Spent, Begun, Final
  <1>11. RedeemedInTime'
    BY DEF IInv, TypeOK, RedeemedInTime, Approving, Spent, Begun, Final
  <1>12. QED
    BY <1>1, <1>2, <1>3, <1>4, <1>5, <1>6, <1>7, <1>8, <1>9, <1>10, <1>11
       DEF IInv

\* The row is pending and unexpired for the time of this approval.
LEMMA SelectRowStep ==
    ASSUME IInv, TypeOK', NEW c \in Conns, SelectRow(c)
    PROVE  IInv'
  <1> USE DEF SelectRow, Redeemable, Unexpired, db, history
  <1>1. NoChallengeYet'
    BY DEF IInv, TypeOK, NoChallengeYet, Approving, Spent, Begun, Final
  <1>2. ChallengeStored'
    BY DEF IInv, TypeOK, ChallengeStored, Approving, Spent, Begun, Final
  <1>3. SignaturesStored'
    BY DEF IInv, TypeOK, SignaturesStored, Approving, Spent, Begun, Final
  <1>4. GotOwnChallenge'
    BY DEF IInv, TypeOK, GotOwnChallenge, Approving, Spent, Begun, Final
  <1>5. VerifiedSigned'
    BY DEF IInv, TypeOK, VerifiedSigned, Approving, Spent, Begun, Final
  <1>6. SeenCoversKeyring'
    BY DEF IInv, TypeOK, SeenCoversKeyring, Approving, Spent, Begun, Final
  <1>7. SelectedInTime'
    BY DEF IInv, TypeOK, SelectedInTime, Approving, Spent, Begun, Final
  <1>8. SpentConsumed'
    BY DEF IInv, TypeOK, SpentConsumed, Approving, Spent, Begun, Final
  <1>9. ExecsRecorded'
    BY ExecsKept DEF IInv, TypeOK, Begun, Final
  <1>10. ChildPhases'
    BY DEF IInv, TypeOK, ChildPhases, Approving, Spent, Begun, Final
  <1>11. RedeemedInTime'
    BY DEF IInv, TypeOK, RedeemedInTime, Approving, Spent, Begun, Final
  <1>12. QED
    BY <1>1, <1>2, <1>3, <1>4, <1>5, <1>6, <1>7, <1>8, <1>9, <1>10, <1>11
       DEF IInv

\* The row is consumed by the handler that owns its manifest.
LEMMA ConsumeRowStep ==
    ASSUME IInv, TypeOK', NEW c \in Conns, ConsumeRow(c)
    PROVE  IInv'
  <1> USE DEF ConsumeRow, Committed, history
  <1>1. NoChallengeYet'
    BY DEF IInv, TypeOK, NoChallengeYet, Approving, Spent, Begun, Final
  <1>2. ChallengeStored'
    BY DEF IInv, TypeOK, ChallengeStored, Approving, Spent, Begun, Final
  <1>3. SignaturesStored'
    BY DEF IInv, TypeOK, SignaturesStored, Approving, Spent, Begun, Final
  <1>4. GotOwnChallenge'
    BY DEF IInv, TypeOK, GotOwnChallenge, Approving, Spent, Begun, Final
  <1>5. VerifiedSigned'
    BY DEF IInv, TypeOK, VerifiedSigned, Approving, Spent, Begun, Final
  <1>6. SeenCoversKeyring'
    BY DEF IInv, TypeOK, SeenCoversKeyring, Approving, Spent, Begun, Final
  <1>7. SelectedInTime'
    BY DEF IInv, TypeOK, SelectedInTime, Approving, Spent, Begun, Final
  <1>8. SpentConsumed'
    BY DEF IInv, TypeOK, SpentConsumed, Approving, Spent, Begun, Final
  <1>9. ExecsRecorded'
    <2>1. \A x \in execs : x.conn # c
      BY ExecFacts DEF Begun, Final
    <2>2. got[c].id \in Ids /\ \A x \in execs : x.m.id \in Ids
      BY ExecFacts, GotFacts DEF Approving
    <2>3. ASSUME NEW x \in execs
          PROVE  /\ phase'[x.conn] = phase[x.conn]
                 /\ rowStatus'[x.m.id] = "consumed"
      BY <2>1, <2>2, ExecFacts DEF IInv, TypeOK
    <2>4. QED
      BY <2>3 DEF IInv, ExecsRecorded
  <1>10. ChildPhases'
    BY DEF IInv, TypeOK, ChildPhases, Approving, Spent, Begun, Final
  <1>11. RedeemedInTime'
    <2>1. got[c].id \in Ids /\ rowManifest[got[c].id] = got[c]
      BY GotFacts DEF Approving
    <2>2. at[c] <= got[c].expires
      BY DEF IInv, SelectedInTime
    <2>3. QED
      BY <2>1, <2>2 DEF IInv, TypeOK, RedeemedInTime
  <1>12. QED
    BY <1>1, <1>2, <1>3, <1>4, <1>5, <1>6, <1>7, <1>8, <1>9, <1>10, <1>11
       DEF IInv

\* The only step that starts a process.
LEMMA SpawnStep ==
    ASSUME IInv, TypeOK', NEW c \in Conns, Spawn(c)
    PROVE  IInv'
  <1> USE DEF Spawn, db
  <1>1. NoChallengeYet'
    BY DEF IInv, TypeOK, NoChallengeYet, Approving, Spent, Begun, Final
  <1>2. ChallengeStored'
    BY DEF IInv, TypeOK, ChallengeStored, Approving, Spent, Begun, Final
  <1>3. SignaturesStored'
    BY DEF IInv, TypeOK, SignaturesStored, Approving, Spent, Begun, Final
  <1>4. GotOwnChallenge'
    BY DEF IInv, TypeOK, GotOwnChallenge, Approving, Spent, Begun, Final
  <1>5. VerifiedSigned'
    BY DEF IInv, TypeOK, VerifiedSigned, Approving, Spent, Begun, Final
  <1>6. SeenCoversKeyring'
    BY DEF IInv, TypeOK, SeenCoversKeyring, Approving, Spent, Begun, Final
  <1>7. SelectedInTime'
    BY DEF IInv, TypeOK, SelectedInTime, Approving, Spent, Begun, Final
  <1>8. SpentConsumed'
    BY DEF IInv, TypeOK, SpentConsumed, Approving, Spent, Begun, Final
  <1>9. ExecsRecorded'
    <2> DEFINE new == [conn |-> c, m |-> got[c], key |-> key[c]]
    <2>1. \A x \in execs : x.conn # c
      BY ExecFacts DEF Begun, Final
    <2>2. /\ got[c] # NoManifest /\ got[c] = chal[c]
          /\ key[c] \in Keys
          /\ rowStatus[got[c].id] = "consumed"
          /\ <<key[c], got[c]>> \in signed
          /\ key[c] \in seen[c]
      BY DEF IInv, GotOwnChallenge, SpentConsumed, VerifiedSigned, Spent, Approving
    <2>3. phase' = [phase EXCEPT ![c] = "running"] /\ execs' = execs \cup {new}
      OBVIOUS
    <2>4. ASSUME NEW x \in execs
          PROVE  phase'[x.conn] \in Begun
      BY <2>1, <2>3, ExecFacts DEF IInv, TypeOK
    <2>5. phase'[c] \in Begun
      BY <2>3 DEF IInv, TypeOK, Begun
    <2>6. /\ new.conn = c /\ new.m = got[c] /\ new.key = key[c]
          /\ UNCHANGED <<rowStatus, chal, got, key, signed, seen>>
      OBVIOUS
    <2> HIDE DEF new
    <2>7. ASSUME NEW x \in execs'
          PROVE  (/\ x.m # NoManifest
                  /\ x.m = chal[x.conn]
                  /\ x.m = got[x.conn]
                  /\ x.key = key[x.conn]
                  /\ x.key \in Keys
                  /\ phase[x.conn] \in Begun
                  /\ rowStatus[x.m.id] = "consumed"
                  /\ <<x.key, x.m>> \in signed
                  /\ x.key \in seen[x.conn])'
      <3>1. CASE x \in execs
        BY <2>4, <2>6, <3>1 DEF IInv, ExecsRecorded
      <3>2. CASE x = new
        BY <2>2, <2>5, <2>6, <3>2
      <3>3. QED
        BY <2>3, <2>7, <3>1, <3>2
    <2>8. QED
      BY <2>7 DEF ExecsRecorded
  <1>10. ChildPhases'
    BY DEF IInv, TypeOK, ChildPhases, Approving, Spent, Begun, Final
  <1>11. RedeemedInTime'
    BY DEF IInv, TypeOK, RedeemedInTime, Approving, Spent, Begun, Final
  <1>12. QED
    BY <1>1, <1>2, <1>3, <1>4, <1>5, <1>6, <1>7, <1>8, <1>9, <1>10, <1>11
       DEF IInv

\* A child ends under its handler, or after it.
LEMMA EndsChildStep ==
    ASSUME IInv, TypeOK', NEW c \in Conns, NEW from \in {"running", "failed"}, NEW next \in {"reaped", "failed"},
           phase[c] = from, from = "failed" => next = "failed", EndsChild(c, next)
    PROVE  IInv'
  <1> USE DEF EndsChild, db, history
  <1>1. NoChallengeYet'
    BY DEF IInv, TypeOK, NoChallengeYet, Approving, Spent, Begun, Final
  <1>2. ChallengeStored'
    BY DEF IInv, TypeOK, ChallengeStored, Approving, Spent, Begun, Final
  <1>3. SignaturesStored'
    BY DEF IInv, TypeOK, SignaturesStored, Approving, Spent, Begun, Final
  <1>4. GotOwnChallenge'
    BY DEF IInv, TypeOK, GotOwnChallenge, Approving, Spent, Begun, Final
  <1>5. VerifiedSigned'
    BY DEF IInv, TypeOK, VerifiedSigned, Approving, Spent, Begun, Final
  <1>6. SeenCoversKeyring'
    BY DEF IInv, TypeOK, SeenCoversKeyring, Approving, Spent, Begun, Final
  <1>7. SelectedInTime'
    BY DEF IInv, TypeOK, SelectedInTime, Approving, Spent, Begun, Final
  <1>8. SpentConsumed'
    BY DEF IInv, TypeOK, SpentConsumed, Approving, Spent, Begun, Final
  <1>9. ExecsRecorded'
    BY ExecsKept DEF IInv, TypeOK, Begun, Final
  <1>10. ChildPhases'
    BY DEF IInv, TypeOK, ChildPhases, Approving, Spent, Begun, Final
  <1>11. RedeemedInTime'
    BY DEF IInv, TypeOK, RedeemedInTime, Approving, Spent, Begun, Final
  <1>12. QED
    BY <1>1, <1>2, <1>3, <1>4, <1>5, <1>6, <1>7, <1>8, <1>9, <1>10, <1>11
       DEF IInv

\* PTY output moves the loop in and out of its write.
LEMMA PtyOutputStep ==
    ASSUME IInv, TypeOK', NEW c \in Conns, PtyOutput(c) \/ PtyOutputWritten(c)
    PROVE  IInv'
  <1> USE DEF PtyOutput, PtyOutputWritten, db, history
  <1>1. NoChallengeYet'
    BY DEF IInv, TypeOK, NoChallengeYet, Approving, Spent, Begun, Final
  <1>2. ChallengeStored'
    BY DEF IInv, TypeOK, ChallengeStored, Approving, Spent, Begun, Final
  <1>3. SignaturesStored'
    BY DEF IInv, TypeOK, SignaturesStored, Approving, Spent, Begun, Final
  <1>4. GotOwnChallenge'
    BY DEF IInv, TypeOK, GotOwnChallenge, Approving, Spent, Begun, Final
  <1>5. VerifiedSigned'
    BY DEF IInv, TypeOK, VerifiedSigned, Approving, Spent, Begun, Final
  <1>6. SeenCoversKeyring'
    BY DEF IInv, TypeOK, SeenCoversKeyring, Approving, Spent, Begun, Final
  <1>7. SelectedInTime'
    BY DEF IInv, TypeOK, SelectedInTime, Approving, Spent, Begun, Final
  <1>8. SpentConsumed'
    BY DEF IInv, TypeOK, SpentConsumed, Approving, Spent, Begun, Final
  <1>9. ExecsRecorded'
    BY ExecsKept DEF IInv, TypeOK, Begun, Final
  <1>10. ChildPhases'
    BY DEF IInv, TypeOK, ChildPhases, Approving, Spent, Begun, Final
  <1>11. RedeemedInTime'
    BY DEF IInv, TypeOK, RedeemedInTime, Approving, Spent, Begun, Final
  <1>12. QED
    BY <1>1, <1>2, <1>3, <1>4, <1>5, <1>6, <1>7, <1>8, <1>9, <1>10, <1>11
       DEF IInv

\* Writing to the PTY, however long it takes, spends and starts nothing.
LEMMA PtyInputStep ==
    ASSUME IInv, TypeOK', NEW c \in Conns, PtyInput(c) \/ PtyInputTaken(c)
    PROVE  IInv'
  <1> USE DEF PtyInput, PtyInputTaken, db, history
  <1>1. NoChallengeYet'
    BY DEF IInv, TypeOK, NoChallengeYet, Approving, Spent, Begun, Final
  <1>2. ChallengeStored'
    BY DEF IInv, TypeOK, ChallengeStored, Approving, Spent, Begun, Final
  <1>3. SignaturesStored'
    BY DEF IInv, TypeOK, SignaturesStored, Approving, Spent, Begun, Final
  <1>4. GotOwnChallenge'
    BY DEF IInv, TypeOK, GotOwnChallenge, Approving, Spent, Begun, Final
  <1>5. VerifiedSigned'
    BY DEF IInv, TypeOK, VerifiedSigned, Approving, Spent, Begun, Final
  <1>6. SeenCoversKeyring'
    BY DEF IInv, TypeOK, SeenCoversKeyring, Approving, Spent, Begun, Final
  <1>7. SelectedInTime'
    BY DEF IInv, TypeOK, SelectedInTime, Approving, Spent, Begun, Final
  <1>8. SpentConsumed'
    BY DEF IInv, TypeOK, SpentConsumed, Approving, Spent, Begun, Final
  <1>9. ExecsRecorded'
    BY ExecsKept DEF IInv, TypeOK, Begun, Final
  <1>10. ChildPhases'
    BY DEF IInv, TypeOK, ChildPhases, Approving, Spent, Begun, Final
  <1>11. RedeemedInTime'
    BY DEF IInv, TypeOK, RedeemedInTime, Approving, Spent, Begun, Final
  <1>12. QED
    BY <1>1, <1>2, <1>3, <1>4, <1>5, <1>6, <1>7, <1>8, <1>9, <1>10, <1>11
       DEF IInv

\* Closed is written after the child was reaped.
LEMMA SendClosedStep ==
    ASSUME IInv, TypeOK', NEW c \in Conns, SendClosed(c)
    PROVE  IInv'
  <1> USE DEF SendClosed, db, history
  <1>1. NoChallengeYet'
    BY DEF IInv, TypeOK, NoChallengeYet, Approving, Spent, Begun, Final
  <1>2. ChallengeStored'
    BY DEF IInv, TypeOK, ChallengeStored, Approving, Spent, Begun, Final
  <1>3. SignaturesStored'
    BY DEF IInv, TypeOK, SignaturesStored, Approving, Spent, Begun, Final
  <1>4. GotOwnChallenge'
    BY DEF IInv, TypeOK, GotOwnChallenge, Approving, Spent, Begun, Final
  <1>5. VerifiedSigned'
    BY DEF IInv, TypeOK, VerifiedSigned, Approving, Spent, Begun, Final
  <1>6. SeenCoversKeyring'
    BY DEF IInv, TypeOK, SeenCoversKeyring, Approving, Spent, Begun, Final
  <1>7. SelectedInTime'
    BY DEF IInv, TypeOK, SelectedInTime, Approving, Spent, Begun, Final
  <1>8. SpentConsumed'
    BY DEF IInv, TypeOK, SpentConsumed, Approving, Spent, Begun, Final
  <1>9. ExecsRecorded'
    BY ExecsKept DEF IInv, TypeOK, Begun, Final
  <1>10. ChildPhases'
    BY DEF IInv, TypeOK, ChildPhases, Approving, Spent, Begun, Final
  <1>11. RedeemedInTime'
    BY DEF IInv, TypeOK, RedeemedInTime, Approving, Spent, Begun, Final
  <1>12. QED
    BY <1>1, <1>2, <1>3, <1>4, <1>5, <1>6, <1>7, <1>8, <1>9, <1>10, <1>11
       DEF IInv

\* Enrolment adds to what verifying handlers have seen.
LEMMA EnrollStep ==
    ASSUME IInv, TypeOK', NEW a \in Approvers, NEW k \in Keys, enroll_approver(a, k)
    PROVE  IInv'
  <1> USE DEF enroll_approver, db, conn
  <1>1. NoChallengeYet'
    BY DEF IInv, TypeOK, NoChallengeYet, Approving, Spent, Begun, Final
  <1>2. ChallengeStored'
    BY DEF IInv, TypeOK, ChallengeStored, Approving, Spent, Begun, Final
  <1>3. SignaturesStored'
    BY DEF IInv, TypeOK, SignaturesStored, Approving, Spent, Begun, Final
  <1>4. GotOwnChallenge'
    BY DEF IInv, TypeOK, GotOwnChallenge, Approving, Spent, Begun, Final
  <1>5. VerifiedSigned'
    BY DEF IInv, TypeOK, VerifiedSigned, Approving, Spent, Begun, Final
  <1>6. SeenCoversKeyring'
    BY DEF IInv, TypeOK, SeenCoversKeyring, Approving, Spent, Begun, Final
  <1>7. SelectedInTime'
    BY DEF IInv, TypeOK, SelectedInTime, Approving, Spent, Begun, Final
  <1>8. SpentConsumed'
    BY DEF IInv, TypeOK, SpentConsumed, Approving, Spent, Begun, Final
  <1>9. ExecsRecorded'
    BY DEF IInv, TypeOK, ExecsRecorded, Approving, Spent, Begun, Final
  <1>10. ChildPhases'
    BY DEF IInv, TypeOK, ChildPhases, Approving, Spent, Begun, Final
  <1>11. RedeemedInTime'
    BY DEF IInv, TypeOK, RedeemedInTime, Approving, Spent, Begun, Final
  <1>12. QED
    BY <1>1, <1>2, <1>3, <1>4, <1>5, <1>6, <1>7, <1>8, <1>9, <1>10, <1>11
       DEF IInv

\* Only issued manifests are signed.
LEMMA SignStep ==
    ASSUME IInv, TypeOK', NEW k \in Keys, NEW m \in Issued, Sign(k, m)
    PROVE  IInv'
  <1> USE DEF Sign, db, conn, Issued
  <1>1. NoChallengeYet'
    BY DEF IInv, TypeOK, NoChallengeYet, Approving, Spent, Begun, Final
  <1>2. ChallengeStored'
    BY DEF IInv, TypeOK, ChallengeStored, Approving, Spent, Begun, Final
  <1>3. SignaturesStored'
    <2>1. rowManifest[m.id] = m /\ rowStatus[m.id] # "absent"
      BY DEF IInv, ChallengeStored
    <2>2. QED
      BY <2>1 DEF IInv, SignaturesStored
  <1>4. GotOwnChallenge'
    BY DEF IInv, TypeOK, GotOwnChallenge, Approving, Spent, Begun, Final
  <1>5. VerifiedSigned'
    BY DEF IInv, TypeOK, VerifiedSigned, Approving, Spent, Begun, Final
  <1>6. SeenCoversKeyring'
    BY DEF IInv, TypeOK, SeenCoversKeyring, Approving, Spent, Begun, Final
  <1>7. SelectedInTime'
    BY DEF IInv, TypeOK, SelectedInTime, Approving, Spent, Begun, Final
  <1>8. SpentConsumed'
    BY DEF IInv, TypeOK, SpentConsumed, Approving, Spent, Begun, Final
  <1>9. ExecsRecorded'
    BY DEF IInv, TypeOK, ExecsRecorded, Approving, Spent, Begun, Final
  <1>10. ChildPhases'
    BY DEF IInv, TypeOK, ChildPhases, Approving, Spent, Begun, Final
  <1>11. RedeemedInTime'
    BY DEF IInv, TypeOK, RedeemedInTime, Approving, Spent, Begun, Final
  <1>12. QED
    BY <1>1, <1>2, <1>3, <1>4, <1>5, <1>6, <1>7, <1>8, <1>9, <1>10, <1>11
       DEF IInv

\* A crash loses handlers, not rows.
LEMMA CrashStep ==
    ASSUME IInv, TypeOK', Crash
    PROVE  IInv'
  <1> USE DEF Crash, db, history
  <1>1. NoChallengeYet'
    BY DEF IInv, TypeOK, NoChallengeYet, Approving, Spent, Begun, Final
  <1>2. ChallengeStored'
    BY DEF IInv, TypeOK, ChallengeStored, Approving, Spent, Begun, Final
  <1>3. SignaturesStored'
    BY DEF IInv, TypeOK, SignaturesStored, Approving, Spent, Begun, Final
  <1>4. GotOwnChallenge'
    BY DEF IInv, TypeOK, GotOwnChallenge, Approving, Spent, Begun, Final
  <1>5. VerifiedSigned'
    BY DEF IInv, TypeOK, VerifiedSigned, Approving, Spent, Begun, Final
  <1>6. SeenCoversKeyring'
    BY DEF IInv, TypeOK, SeenCoversKeyring, Approving, Spent, Begun, Final
  <1>7. SelectedInTime'
    BY DEF IInv, TypeOK, SelectedInTime, Approving, Spent, Begun, Final
  <1>8. SpentConsumed'
    BY DEF IInv, TypeOK, SpentConsumed, Approving, Spent, Begun, Final
  <1>9. ExecsRecorded'
    BY ExecsKept DEF IInv, TypeOK, Begun, Final
  <1>10. ChildPhases'
    BY DEF IInv, TypeOK, ChildPhases, Approving, Spent, Begun, Final
  <1>11. RedeemedInTime'
    BY DEF IInv, TypeOK, RedeemedInTime, Approving, Spent, Begun, Final
  <1>12. QED
    BY <1>1, <1>2, <1>3, <1>4, <1>5, <1>6, <1>7, <1>8, <1>9, <1>10, <1>11
       DEF IInv

\* Time, a restart and stuttering disturb no conjunct.
LEMMA QuietStep ==
    ASSUME IInv, TypeOK', Tick \/ (\E p \in Policies : Restart(p)) \/ UNCHANGED vars
    PROVE  IInv'
  <1> USE DEF Tick, Restart, vars, db, conn, history
  <1>1. NoChallengeYet'
    BY DEF IInv, TypeOK, NoChallengeYet, Approving, Spent, Begun, Final
  <1>2. ChallengeStored'
    BY DEF IInv, TypeOK, ChallengeStored, Approving, Spent, Begun, Final
  <1>3. SignaturesStored'
    BY DEF IInv, TypeOK, SignaturesStored, Approving, Spent, Begun, Final
  <1>4. GotOwnChallenge'
    BY DEF IInv, TypeOK, GotOwnChallenge, Approving, Spent, Begun, Final
  <1>5. VerifiedSigned'
    BY DEF IInv, TypeOK, VerifiedSigned, Approving, Spent, Begun, Final
  <1>6. SeenCoversKeyring'
    BY DEF IInv, TypeOK, SeenCoversKeyring, Approving, Spent, Begun, Final
  <1>7. SelectedInTime'
    BY DEF IInv, TypeOK, SelectedInTime, Approving, Spent, Begun, Final
  <1>8. SpentConsumed'
    BY DEF IInv, TypeOK, SpentConsumed, Approving, Spent, Begun, Final
  <1>9. ExecsRecorded'
    BY DEF IInv, TypeOK, ExecsRecorded, Approving, Spent, Begun, Final
  <1>10. ChildPhases'
    BY DEF IInv, TypeOK, ChildPhases, Approving, Spent, Begun, Final
  <1>11. RedeemedInTime'
    BY DEF IInv, TypeOK, RedeemedInTime, Approving, Spent, Begun, Final
  <1>12. QED
    BY <1>1, <1>2, <1>3, <1>4, <1>5, <1>6, <1>7, <1>8, <1>9, <1>10, <1>11
       DEF IInv

LEMMA InvStep == IInv /\ [Next]_vars => IInv'
  <1> SUFFICES ASSUME IInv, [Next]_vars
               PROVE  IInv'
    OBVIOUS
  <1>0. TypeOK'
    BY TypeStep DEF IInv
  <1>1. CASE Tick \/ (\E p \in Policies : Restart(p)) \/ UNCHANGED vars
    BY <1>0, <1>1, QuietStep
  <1>2. ASSUME NEW a \in Approvers, NEW k \in Keys, enroll_approver(a, k)
        PROVE  IInv'
    BY <1>0, <1>2, EnrollStep
  <1>3. ASSUME NEW k \in Keys, NEW m \in Issued, Sign(k, m)
        PROVE  IInv'
    BY <1>0, <1>3, SignStep
  <1>4. CASE Crash
    BY <1>0, <1>4, CrashStep
  <1>5. ASSUME NEW c \in Conns, OrphanExits(c)
        PROVE  IInv'
    BY <1>0, <1>5, EndsChildStep DEF OrphanExits
  <1>6. ASSUME NEW c \in Conns, Handle(c)
        PROVE  IInv'
    <2>1. CASE Accept(c)
      BY <1>0, <2>1, AcceptStep
    <2>2. ASSUME NEW i \in Ids, NEW o \in Ops, challenge(c, i, o)
          PROVE  IInv'
      BY <1>0, <2>2, ChallengeStep
    <2>3. CASE RefuseStart(c)
      BY <2>3, FailsAtStep DEF RefuseStart, FailsAt
    <2>4. ASSUME NEW m \in Presentable, NEW k \in Keys, ReadApprove(c, m, k)
          PROVE  IInv'
      BY <1>0, <2>4, ReadApproveStep
    <2>5. CASE RefuseApprove(c)
      BY <2>5, FailsAtStep DEF RefuseApprove, FailsAt
    <2>6. CASE CheckApprover(c)
      BY <1>0, <2>6, CheckApproverStep
    <2>7. CASE RefuseApprover(c)
      BY <2>7, FailsAtStep DEF RefuseApprover, FailsAt
    <2>8. CASE SelectRow(c)
      BY <1>0, <2>8, SelectRowStep
    <2>9. CASE RefuseRow(c)
      BY <2>9, FailsAtStep DEF RefuseRow, FailsAt
    <2>10. CASE ConsumeRow(c)
      BY <1>0, <2>10, ConsumeRowStep
    <2>11. CASE RollBack(c)
      BY <2>11, FailsAtStep DEF RollBack, FailsAt
    <2>12. CASE Spawn(c)
      BY <1>0, <2>12, SpawnStep
    <2>13. CASE SpawnFails(c)
      BY <2>13, FailsAtStep DEF SpawnFails, FailsAt
    <2>14. CASE CommandDone(c)
      BY <1>0, <2>14, EndsChildStep DEF CommandDone
    <2>15. CASE CommandTimeout(c)
      BY <1>0, <2>15, EndsChildStep DEF CommandTimeout
    <2>16. CASE PtyOutput(c) \/ PtyOutputWritten(c)
      BY <1>0, <2>16, PtyOutputStep
    <2>16i. CASE PtyInput(c) \/ PtyInputTaken(c)
      BY <1>0, <2>16i, PtyInputStep
    <2>17. CASE PtyBreak(c)
      BY <1>0, <2>17, EndsChildStep DEF PtyBreak
    <2>18. CASE PtyFails(c)
      BY <2>18, FailsAtStep DEF PtyFails
    <2>19. CASE SendClosed(c)
      BY <1>0, <2>19, SendClosedStep
    <2>20. CASE SendClosedFails(c)
      BY <2>20, FailsAtStep DEF SendClosedFails, FailsAt
    <2>21. QED
      BY <1>6, <2>1, <2>2, <2>3, <2>4, <2>5, <2>6, <2>7, <2>8, <2>9, <2>10,
         <2>11, <2>12, <2>13, <2>14, <2>15, <2>16, <2>16i, <2>17, <2>18, <2>19,
         <2>20 DEF Handle, Verify, Run
  <1>7. QED
    BY <1>1, <1>2, <1>3, <1>4, <1>5, <1>6 DEF Next

(* IInv holds in every reachable state of the gate.                         *)
THEOREM Invariance == Spec => []IInv
  <1>1. Init => IInv
    <2> SUFFICES ASSUME Init PROVE IInv
      OBVIOUS
    <2>1. TypeOK
      BY DEF Init, TypeOK, Phases
    <2>2. QED
      BY <2>1 DEF Init, IInv, NoChallengeYet, ChallengeStored, SignaturesStored,
                  GotOwnChallenge, VerifiedSigned, SeenCoversKeyring,
                  SelectedInTime, SpentConsumed, ExecsRecorded, ChildPhases,
                  RedeemedInTime, Approving, Spent, Final
  <1>2. QED
    BY <1>1, InvStep, PTL DEF Spec

-----------------------------------------------------------------------------
(* The properties.                                                          *)

LEMMA InvImpliesAtMostOnce == IInv => AtMostOnce
  <1> SUFFICES ASSUME IInv, NEW x \in execs, NEW y \in execs, x.m.id = y.m.id
               PROVE  x = y
    BY DEF AtMostOnce
  <1>1. x.m = y.m
    BY ExecFacts
  <1>2. x.conn = y.conn
    BY <1>1, ExecFacts
  <1>3. x.key = y.key
    BY <1>2 DEF IInv, ExecsRecorded
  <1>4. QED
    BY <1>1, <1>2, <1>3 DEF IInv, TypeOK

(* A request id starts at most one root operation, over all connections,    *)
(* threads, crashes and restarts of handle() and approve(), and it is the    *)
(* one its own connection was challenged for.                                *)
THEOREM SingleUse == Spec => []OncePerChallenge
  <1>1. IInv => OncePerChallenge
    <2> SUFFICES ASSUME IInv
                 PROVE  AtMostOnce /\ ExecutedOwnChallenge
      BY DEF OncePerChallenge
    <2>1. ExecutedOwnChallenge
      BY ExecFacts DEF ExecutedOwnChallenge
    <2>2. QED
      BY <2>1, InvImpliesAtMostOnce
  <1>2. QED
    BY <1>1, Invariance, PTL

(* Every start was signed, as this manifest, by a key that was enrolled     *)
(* while the approval was verified, and its row was redeemed in time.       *)
THEOREM OnlyApproved == Spec => []ExecutedWasApproved
  <1>1. IInv => ExecutedWasApproved
    <2> SUFFICES ASSUME IInv
                 PROVE  /\ ExecutedWasSigned
                        /\ ExecutedKeyWasEnrolled
                        /\ RedeemedInTime
      BY DEF ExecutedWasApproved
    <2>1. ExecutedWasSigned
      BY DEF IInv, ExecsRecorded, ExecutedWasSigned
    <2>2. ExecutedKeyWasEnrolled
      BY SetsAssumption DEF IInv, ExecsRecorded, ExecutedKeyWasEnrolled
    <2>3. QED
      BY <2>1, <2>2 DEF IInv
  <1>2. QED
    BY <1>1, Invariance, PTL

(* A handler that reported Closed has reaped its process, and only a PTY's  *)
(* shell can outlive its handler (run_command's kill_on_drop, run_pty).     *)
THEOREM ChildrenReaped == Spec => []ChildrenAccountedFor
  <1>1. IInv => ChildrenAccountedFor
    BY DEF IInv, ChildPhases, ChildrenAccountedFor, Final
  <1>2. QED
    BY <1>1, Invariance, PTL

(* A row is written once, consumed at most once and never changed again.    *)
THEOREM RowHistory == Spec => RowsOnlyAdvance
  <1> DEFINE Advance ==
        \A i \in Ids :
          /\ rowStatus[i] # "absent" => rowManifest'[i] = rowManifest[i]
          /\ rowStatus[i] = "pending" => rowStatus'[i] # "absent"
          /\ rowStatus[i] = "consumed" => /\ rowStatus'[i] = "consumed"
                                          /\ consumedAt'[i] = consumedAt[i]
  <1>1. ASSUME TypeOK, Next
        PROVE  Advance
    <2>1. CASE UNCHANGED db
      BY <2>1 DEF db
    <2>2. ASSUME NEW c \in Conns, NEW j \in Ids, NEW o \in Ops, challenge(c, j, o)
          PROVE  Advance
      BY <1>1, <2>2 DEF challenge, Insertable, TypeOK
    <2>3. ASSUME NEW c \in Conns, ConsumeRow(c)
          PROVE  Advance
      BY <1>1, <2>3 DEF ConsumeRow, TypeOK
    <2>4. ASSUME NEW c \in Conns, Handle(c),
                 \A j \in Ids, o \in Ops : ~challenge(c, j, o),
                 ~ConsumeRow(c)
          PROVE  UNCHANGED db
      BY <2>4 DEF Handle, Verify, Run, Accept, RefuseStart, ReadApprove,
           RefuseApprove, CheckApprover, RefuseApprover, SelectRow, RefuseRow,
           RollBack, Spawn, SpawnFails, CommandDone, CommandTimeout, PtyOutput,
           PtyOutputWritten, PtyInput, PtyInputTaken, PtyBreak, PtyFails,
           SendClosed, SendClosedFails,
           FailsAt, EndsChild
    <2>5. ASSUME NEW c \in Conns, OrphanExits(c)
          PROVE  UNCHANGED db
      BY <2>5 DEF OrphanExits, EndsChild
    <2>6. ASSUME ~ \E c \in Conns : Handle(c) \/ OrphanExits(c)
          PROVE  UNCHANGED db
      BY <1>1, <2>6 DEF Next, Tick, enroll_approver, Sign, Crash, Restart
    <2>7. QED
      BY <2>1, <2>2, <2>3, <2>4, <2>5, <2>6
  <1>2. TypeOK /\ [Next]_vars => [Advance]_vars
    BY <1>1
  <1>3. QED
    BY <1>2, TypeCorrect, PTL DEF Spec, RowsOnlyAdvance

-----------------------------------------------------------------------------
(* The gate implements SingleUseApproval: every step of the handlers, the   *)
(* database and the crashes is a step of the single-use ledger or leaves it *)
(* unchanged.                                                               *)

Status == [i \in Ids |-> IF Started(i) THEN "executed" ELSE rowStatus[i]]
Op == [i \in Ids |-> IF rowStatus[i] = "absent" THEN NoManifest
                     ELSE rowManifest[i].op]
Vouched == {<<s[2].id, s[2].op>> : s \in signed}
Ran == {<<x.m.id, x.m.op>> : x \in execs}

\* A request whose operation started is consumed, so an unused or pending one
\* has not started.
LEMMA StartedConsumed ==
    ASSUME IInv, NEW i \in Ids, Started(i)
    PROVE  rowStatus[i] = "consumed"
  BY ExecFacts DEF Started

\* A step that leaves rows, signatures and starts alone is a stutter.
LEMMA Stutter ==
    UNCHANGED <<rowStatus, rowManifest, signed, execs>> => UNCHANGED Abstract!vars
  BY DEF Abstract!vars, Started

LEMMA RegisterStep ==
    ASSUME IInv, NEW c \in Conns, NEW i \in Ids, NEW o \in Ops, challenge(c, i, o)
    PROVE  Abstract!Register(i, o)
  <1>1. /\ rowStatus[i] = "absent"
        /\ rowStatus' = [rowStatus EXCEPT ![i] = "pending"]
        /\ rowManifest'[i].op = o
        /\ \A j \in Ids \ {i} : rowManifest'[j] = rowManifest[j]
        /\ UNCHANGED <<signed, execs>>
    BY DEF challenge, Insertable, IInv, TypeOK, history
  <1>2. ~Started(i)
    BY <1>1, StartedConsumed
  <1>3. \A j \in Ids : Started(j)' <=> Started(j)
    BY <1>1 DEF Started
  <1>4. Status[i] = "absent" /\ Status' = [Status EXCEPT ![i] = "pending"]
    BY <1>1, <1>2, <1>3 DEF IInv, TypeOK, Status
  <1>5. Op' = [Op EXCEPT ![i] = o]
    BY <1>1 DEF IInv, TypeOK, Op
  <1>6. UNCHANGED <<Vouched, Ran>>
    BY <1>1 DEF Vouched, Ran
  <1>7. QED
    BY <1>4, <1>5, <1>6 DEF Abstract!Register, Status, Op, Vouched, Ran

LEMMA VouchStep ==
    ASSUME IInv, NEW k \in Keys, NEW m \in Issued, Sign(k, m)
    PROVE  Abstract!Vouch(m.id)
  <1>1. /\ m.id \in Ids
        /\ rowStatus[m.id] # "absent"
        /\ rowManifest[m.id] = m
    BY IssuedType DEF IInv, ChallengeStored, Issued, Manifests
  <1>2. /\ UNCHANGED <<rowStatus, rowManifest, execs>>
        /\ signed' = signed \cup {<<k, m>>}
    BY DEF Sign, db
  <1>3. Status[m.id] # "absent" /\ UNCHANGED <<Status, Op, Ran>>
    BY <1>1, <1>2 DEF Status, Op, Ran, Started
  <1>4. Op[m.id] = m.op
    BY <1>1 DEF Op
  <1>5. Vouched' = Vouched \cup {<<m.id, m.op>>}
    <2> DEFINE s == <<k, m>>
               pair(t) == <<t[2].id, t[2].op>>
    <2>1. signed' = signed \cup {s} /\ pair(s) = <<m.id, m.op>>
      BY <1>2
    <2>2. Vouched = {pair(t) : t \in signed} /\ Vouched' = {pair(t) : t \in signed'}
      BY DEF Vouched
    <2> HIDE DEF s, pair
    <2>3. QED
      BY <2>1, <2>2
  <1>6. QED
    BY <1>3, <1>4, <1>5 DEF Abstract!Vouch, Status, Op, Vouched, Ran

LEMMA AuthorizeStep ==
    ASSUME IInv, NEW c \in Conns, NEW i, i = got[c].id, ConsumeRow(c)
    PROVE  i \in Ids /\ Abstract!Authorize(i)
  <1>1. /\ i \in Ids
        /\ rowManifest[i] = got[c]
        /\ <<key[c], got[c]>> \in signed
    BY GotFacts DEF ConsumeRow, IInv, VerifiedSigned, Approving
  <1>2. /\ rowStatus[i] = "pending"
        /\ rowStatus' = [rowStatus EXCEPT ![i] = "consumed"]
        /\ UNCHANGED <<rowManifest, signed, execs>>
    BY DEF ConsumeRow, history
  <1>3. ~Started(i) /\ \A j \in Ids : Started(j)' <=> Started(j)
    BY <1>1, <1>2, StartedConsumed DEF Started
  <1>4. Status[i] = "pending" /\ Status' = [Status EXCEPT ![i] = "consumed"]
    BY <1>1, <1>2, <1>3 DEF IInv, TypeOK, Status
  <1>5. UNCHANGED <<Op, Vouched, Ran>>
    BY <1>1, <1>2 DEF IInv, TypeOK, Op, Vouched, Ran
  <1>6. <<i, Op[i]>> \in Vouched
    <2> DEFINE s == <<key[c], got[c]>>
    <2>1. s \in signed /\ s[2].id = i /\ s[2].op = got[c].op
      BY <1>1
    <2> HIDE DEF s
    <2>2. <<i, got[c].op>> \in Vouched
      BY <2>1 DEF Vouched
    <2>3. QED
      BY <1>1, <1>2, <2>2 DEF Op
  <1>7. QED
    BY <1>1, <1>4, <1>5, <1>6 DEF Abstract!Authorize, Status, Op, Vouched, Ran

LEMMA ExecuteStep ==
    ASSUME IInv, NEW c \in Conns, NEW i, i = got[c].id, Spawn(c)
    PROVE  i \in Ids /\ Abstract!Execute(i)
  <1> DEFINE new == [conn |-> c, m |-> got[c], key |-> key[c]]
  <1>1. /\ i \in Ids
        /\ got[c].nonce = c
        /\ rowManifest[i] = got[c]
        /\ rowStatus[i] = "consumed"
        /\ phase[c] = "approved"
    BY GotFacts DEF Spawn, IInv, SpentConsumed, Approving, Spent
  <1>2. /\ execs' = execs \cup {new}
        /\ UNCHANGED <<rowStatus, rowManifest, signed>>
    BY DEF Spawn, db
  <1>3. ~Started(i)
    BY <1>1, ExecFacts DEF Started, Begun, Final
  <1>4. new.m = got[c]
    OBVIOUS
  <1> HIDE DEF new
  <1>5. Started(i)' /\ \A j \in Ids \ {i} : Started(j)' <=> Started(j)
    BY <1>2, <1>4 DEF Started
  <1>6. Status[i] = "consumed" /\ Status' = [Status EXCEPT ![i] = "executed"]
    BY <1>1, <1>2, <1>3, <1>5 DEF Status
  <1>7. Op[i] = got[c].op
    BY <1>1 DEF Op
  <1>8. Ran' = Ran \cup {<<i, got[c].op>>}
    BY <1>2, <1>4 DEF Ran
  <1>9. UNCHANGED <<Op, Vouched>>
    BY <1>2 DEF Op, Vouched
  <1>10. QED
    BY <1>1, <1>6, <1>7, <1>8, <1>9 DEF Abstract!Execute, Status, Op, Vouched, Ran

\* Every other step of a handler leaves rows, signatures and starts alone.
LEMMA OtherHandlerStep ==
    ASSUME NEW c \in Conns, Handle(c),
           \A i \in Ids, o \in Ops : ~challenge(c, i, o),
           ~ConsumeRow(c), ~Spawn(c)
    PROVE  UNCHANGED <<rowStatus, rowManifest, signed, execs>>
  BY DEF Handle, Verify, Run, Accept, RefuseStart, ReadApprove,
         RefuseApprove, CheckApprover, RefuseApprover, SelectRow, RefuseRow,
         RollBack, SpawnFails, CommandDone, CommandTimeout, PtyOutput,
         PtyOutputWritten, PtyInput, PtyInputTaken, PtyBreak, PtyFails,
           SendClosed, SendClosedFails,
         FailsAt, EndsChild, db, history

LEMMA AbstractStep == IInv /\ [Next]_vars => [Abstract!Next]_(Abstract!vars)
  <1> SUFFICES ASSUME IInv, [Next]_vars
               PROVE  Abstract!Next \/ UNCHANGED Abstract!vars
    OBVIOUS
  <1>1. CASE Tick \/ (\E a \in Approvers, k \in Keys : enroll_approver(a, k))
             \/ Crash \/ (\E p \in Policies : Restart(p)) \/ UNCHANGED vars
    BY <1>1, Stutter DEF Tick, enroll_approver, Crash, Restart, vars, db, history
  <1>2. ASSUME NEW k \in Keys, NEW m \in Issued, Sign(k, m)
        PROVE  Abstract!Next
    <2>1. m.id \in Ids
      BY IssuedType DEF IInv, Manifests
    <2>2. QED
      BY <1>2, <2>1, VouchStep DEF Abstract!Next
  <1>3. ASSUME NEW c \in Conns, OrphanExits(c)
        PROVE  UNCHANGED Abstract!vars
    BY <1>3, Stutter DEF OrphanExits, EndsChild, db, history
  <1>4. ASSUME NEW c \in Conns, Handle(c)
        PROVE  Abstract!Next \/ UNCHANGED Abstract!vars
    <2>1. ASSUME NEW i \in Ids, NEW o \in Ops, challenge(c, i, o)
          PROVE  Abstract!Next
      BY <2>1, RegisterStep DEF Abstract!Next
    <2>2. ASSUME ConsumeRow(c), NEW i, i = got[c].id
          PROVE  Abstract!Next
      <3>1. i \in Ids /\ Abstract!Authorize(i)
        BY <2>2, AuthorizeStep
      <3>2. QED
        BY <3>1 DEF Abstract!Next
    <2>3. ASSUME Spawn(c), NEW i, i = got[c].id
          PROVE  Abstract!Next
      <3>1. i \in Ids /\ Abstract!Execute(i)
        BY <2>3, ExecuteStep
      <3>2. QED
        BY <3>1 DEF Abstract!Next
    <2>4. QED
      BY <1>4, <2>1, <2>2, <2>3, OtherHandlerStep, Stutter
  <1>5. QED
    BY <1>1, <1>2, <1>3, <1>4 DEF Next

(* handle() and GateState, with all their interleavings, crashes and        *)
(* restarts, are the single-use ledger of SingleUseApproval.                *)
THEOREM Refinement == Spec => ImplementsSingleUse
  <1>1. Init => Abstract!Init
    BY DEF Init, Abstract!Init, Started
  <1>2. QED
    BY <1>1, AbstractStep, Invariance, PTL DEF Spec, ImplementsSingleUse, Abstract!Spec
=============================================================================
