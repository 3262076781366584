---------------------------- MODULE ApprovalGate ----------------------------
(***************************************************************************)
(* The approval gate: the root daemon that runs an operation only after an *)
(* enrolled approver signed the exact manifest the gate challenged with.   *)
(* One handler task per connection (handle in                              *)
(* bin/shellfleet-approval-gate.rs) works on the SQLite table              *)
(* trusted_requests through GateState (privileged/approval.rs).            *)
(*                                                                         *)
(* Handlers run in parallel on a multi-threaded runtime, so approve() is   *)
(* split at the points where another handler, an enrolment, the clock or a *)
(* crash may come in between: reading the Approve frame and the clock,     *)
(* reading the keyring, opening the transaction with its SELECT, the       *)
(* UPDATE with its COMMIT, and starting the operation.                     *)
(***************************************************************************)
EXTENDS Naturals, FiniteSets

CONSTANTS
    Conns,       \* connections to the gate's socket; each is accepted once
    Ids,         \* request ids the peer uses
    ValidIds,    \* the ones validate_request_id accepts
    Ops,         \* root operations the peer asks for
    Classified,  \* the ones policy::classify accepts
    Commands,    \* the operations that are RootCommand; the others are RootPty
    Limit,       \* Limit[o]: timeout_secs or ttl_secs of o, in clock ticks
    Margin,      \* the 60 s added to a command's timeout
    TtlMin,      \* lower clamp of an approval's life time (60 s)
    TtlMax,      \* upper clamp (3600 s)
    Approvers,   \* names in the approver keyring
    Keys,        \* approver public keys
    Policies,    \* values of the policy version the gate may be started with
    NoManifest,  \* "no challenge yet"
    NoKey,       \* a name that is not enrolled
    MaxTime      \* bound of the clock

ASSUME SetsAssumption ==
    /\ ValidIds \subseteq Ids
    /\ Classified \subseteq Ops
    /\ Commands \subseteq Ops
    /\ NoKey \notin Keys
ASSUME TimeAssumption ==
    /\ Margin \in Nat /\ TtlMin \in Nat /\ TtlMax \in Nat /\ MaxTime \in Nat
    /\ TtlMin <= TtlMax
    /\ Limit \in [Ops -> Nat]

VARIABLES
    up,          \* the gate process is running
    policy,      \* SHELLFLEET_PRIVILEGED_POLICY_VERSION of the running process
    clock,       \* now_unix()
    keyring,     \* approvers.json: keyring[a] is the key enrolled for a
    rowStatus,   \* trusted_requests.status, "absent" without a row
    rowManifest, \* trusted_requests.manifest
    consumedAt,  \* trusted_requests.consumed_at
    phase,       \* where the handler of a connection is
    chal,        \* the challenge the handler issued
    got,         \* the manifest of the Approve frame it read
    key,         \* approver_public of that frame
    at,          \* the `now` argument of its approve() call
    fresh,       \* no commit since its SELECT: the WAL snapshot is current
    child,       \* the root process the handler started
    signed,      \* <<k, m>>: the owner of key k has signed manifest m
    execs,       \* history: every start of a root operation
    seen         \* history: keys enrolled at some time since c's Approve frame

db == <<rowStatus, rowManifest, consumedAt>>
conn == <<phase, chal, got, key, at, fresh, child>>
history == <<signed, execs, seen>>
vars == <<up, policy, clock, keyring, db, conn, history>>

-----------------------------------------------------------------------------
(* Manifests.  The nonce is 32 random bytes: no two challenges share it, so *)
(* the connection that drew it stands for it.  host_id, version and the     *)
(* host's keys are persistent and the same for every manifest; the client's *)
(* ephemeral key belongs to the operation as far as the gate is concerned.  *)

Manifests ==
    [id : Ids, op : Ops, nonce : Conns, expires : Nat, policy : Policies]

IsCommand(o) == o \in Commands

\* requested_ttl.clamp(60, 3600)
Ttl(o) ==
    LET requested == IF IsCommand(o) THEN Limit[o] + Margin ELSE Limit[o]
    IN  IF requested < TtlMin THEN TtlMin
        ELSE IF requested > TtlMax THEN TtlMax
        ELSE requested

\* The manifests the gate has signed: a challenge is never forgotten here.
Issued == {chal[c] : c \in Conns} \ {NoManifest}

\* What a peer may put in an Approve frame: any issued manifest, or one with
\* another operation written into it.
Presentable == Issued \cup {[m EXCEPT !.op = o] : m \in Issued, o \in Ops}

\* Mutant: the life time is compared the wrong way round at the boundary and
\* an approval one tick too old is accepted.
Unexpired_grace(expires, now) == expires + 1 >= now

Unexpired(expires, now) == expires >= now

ASSUME ManifestAssumption == NoManifest \notin Manifests

Final == {"closed", "failed", "lost"}
Phases == Final \cup
    {"idle", "accepted", "challenged", "verifying", "verified", "selected",
     "approved", "running", "sending", "typing", "reaped"}

\* Phases of a handler that has an approval to work on.
Approving == {"verifying", "verified", "selected", "approved",
              "running", "sending", "typing", "reaped"}

\* Phases of a handler whose approval is spent.
Spent == {"approved", "running", "sending", "typing", "reaped", "closed"}

-----------------------------------------------------------------------------
Init ==
    /\ up = TRUE
    /\ policy \in Policies
    /\ clock = 0
    /\ keyring = [a \in Approvers |-> NoKey]
    /\ rowStatus = [i \in Ids |-> "absent"]
    /\ rowManifest = [i \in Ids |-> NoManifest]
    /\ consumedAt = [i \in Ids |-> 0]
    /\ phase = [c \in Conns |-> "idle"]
    /\ chal = [c \in Conns |-> NoManifest]
    /\ got = [c \in Conns |-> NoManifest]
    /\ key = [c \in Conns |-> NoKey]
    /\ at = [c \in Conns |-> 0]
    /\ fresh = [c \in Conns |-> FALSE]
    /\ child = [c \in Conns |-> "none"]
    /\ signed = {}
    /\ execs = {}
    /\ seen = [c \in Conns |-> {}]

-----------------------------------------------------------------------------
(* The environment: time, the operator enrolling keys, approvers signing.   *)

Tick ==
    /\ clock < MaxTime
    /\ clock' = clock + 1
    /\ UNCHANGED <<up, policy, keyring, db, conn, history>>

\* enroll_approver: read, insert, write to a temporary file, rename.  The
\* rename publishes the new keyring at once; enrolling a name again replaces
\* its key.
enroll_approver(a, k) ==
    /\ keyring' = [keyring EXCEPT ![a] = k]
    /\ seen' = [c \in Conns |->
                  IF phase[c] = "verifying" THEN seen[c] \cup {k} ELSE seen[c]]
    /\ UNCHANGED <<up, policy, clock, db, conn, signed, execs>>

\* The owner of key k signs a challenge that was shown to it.
Sign(k, m) ==
    /\ m \in Issued
    /\ signed' = signed \cup {<<k, m>>}
    /\ UNCHANGED <<up, policy, clock, keyring, db, conn, execs, seen>>

-----------------------------------------------------------------------------
(* The handler.                                                            *)

\* Handler c returns Err: its task ends, an open transaction is rolled back
\* and the socket is closed.
FailsAt(c, from) ==
    /\ up
    /\ phase[c] \in from
    /\ phase' = [phase EXCEPT ![c] = "failed"]
    /\ fresh' = [fresh EXCEPT ![c] = FALSE]
    /\ UNCHANGED <<up, policy, clock, keyring, db,
                   chal, got, key, at, child, history>>

\* A commit makes every open read snapshot stale (SQLITE_BUSY_SNAPSHOT on the
\* next write of that transaction).
Committed == fresh' = [c \in Conns |-> FALSE]

\* accept and the peer uid check
Accept(c) ==
    /\ up
    /\ phase[c] = "idle"
    /\ \E peer \in {"agent", "other"} :
           phase' = [phase EXCEPT ![c] =
                       IF peer = "agent" THEN "accepted" ELSE "failed"]
    /\ UNCHANGED <<up, policy, clock, keyring, db,
                   chal, got, key, at, fresh, child, history>>

\* Mutant: INSERT OR REPLACE, which takes over a used id.
Insertable_replace(i) == TRUE

\* INSERT fails when the primary key is taken.
Insertable(i) == rowStatus[i] = "absent"

\* challenge(): classify, build and sign the manifest, INSERT it as pending;
\* then the Challenge frame is sent.
challenge(c, i, o) ==
    LET m == [id |-> i, op |-> o, nonce |-> c,
              expires |-> clock + Ttl(o), policy |-> policy]
    IN  /\ up
        /\ phase[c] = "accepted"
        /\ i \in ValidIds
        /\ o \in Classified
        /\ Insertable(i)
        /\ rowStatus' = [rowStatus EXCEPT ![i] = "pending"]
        /\ rowManifest' = [rowManifest EXCEPT ![i] = m]
        /\ chal' = [chal EXCEPT ![c] = m]
        /\ phase' = [phase EXCEPT ![c] = "challenged"]
        /\ Committed
        /\ UNCHANGED <<up, policy, clock, keyring, consumedAt,
                       got, key, at, child, history>>

\* The first frame is not a Start, does not decode, names a bad id, an
\* operation outside the policy or a used id, or the database fails; or the
\* peer is gone.
RefuseStart(c) == FailsAt(c, {"accepted"})

\* Mutant: the handler trusts the database check alone.
AnswersChallenge_dropped(c, m) == TRUE

\* *signed_manifest == challenge
AnswersChallenge(c, m) == m = chal[c]

\* The first test of approve(): the manifest is current and the policy still
\* allows its operation; its host signature is the gate's own.
Current(m, now) ==
    /\ Unexpired(m.expires, now)
    /\ m.policy = policy
    /\ m.op \in Classified
    /\ m \in Issued

\* The Approve frame is read and approve() begins with the current time.
ReadApprove(c, m, k) ==
    /\ up
    /\ phase[c] = "challenged"
    /\ AnswersChallenge(c, m)
    /\ Current(m, clock)
    /\ phase' = [phase EXCEPT ![c] = "verifying"]
    /\ got' = [got EXCEPT ![c] = m]
    /\ key' = [key EXCEPT ![c] = k]
    /\ at' = [at EXCEPT ![c] = clock]
    /\ seen' = [seen EXCEPT ![c] = {keyring[a] : a \in Approvers}]
    /\ UNCHANGED <<up, policy, clock, keyring, db, chal, fresh, child,
                   signed, execs>>

\* Another frame than Approve, a manifest that differs from the challenge, a
\* stale one, or the peer is gone before or after the challenge reached it.
RefuseApprove(c) == FailsAt(c, {"challenged"})

\* Mutant: any well-formed key is accepted.
Enrolled_any(k) == TRUE

\* load_approvers and the search for approver_public in it.  An empty keyring
\* is an error, as is a key that is not in it.
Enrolled(k) == \E a \in Approvers : keyring[a] = k

\* Mutant: any signature of the key's owner is accepted, whatever it signed.
SignatureVerifies_byKey(k, m) == \E s \in signed : s[1] = k

\* Mutant: the signature is not checked.
SignatureVerifies_skipped(k, m) == TRUE

\* verifying.verify(&canonical, &signature)
SignatureVerifies(k, m) == <<k, m>> \in signed

CheckApprover(c) ==
    /\ up
    /\ phase[c] = "verifying"
    /\ Enrolled(key[c])
    /\ SignatureVerifies(key[c], got[c])
    /\ phase' = [phase EXCEPT ![c] = "verified"]
    /\ UNCHANGED <<up, policy, clock, keyring, db,
                   chal, got, key, at, fresh, child, history>>

RefuseApprover(c) ==
    /\ ~ (Enrolled(key[c]) /\ SignatureVerifies(key[c], got[c]))
    /\ FailsAt(c, {"verifying"})

\* stored_manifest == canonical, status == "pending", expires_at >= now
Redeemable(m, now) ==
    /\ rowManifest[m.id] = m
    /\ rowStatus[m.id] = "pending"
    /\ Unexpired(m.expires, now)

\* The transaction begins: its SELECT takes the read snapshot.
SelectRow(c) ==
    /\ up
    /\ phase[c] = "verified"
    /\ Redeemable(got[c], at[c])
    /\ phase' = [phase EXCEPT ![c] = "selected"]
    /\ fresh' = [fresh EXCEPT ![c] = TRUE]
    /\ UNCHANGED <<up, policy, clock, keyring, db,
                   chal, got, key, at, child, history>>

\* No such row, another manifest, consumed or expired; or the database fails.
RefuseRow(c) == FailsAt(c, {"verified"})

\* Mutant: the status column gets a value no reader knows.
ConsumeRow_untyped(c) ==
    /\ up
    /\ phase[c] = "selected"
    /\ rowStatus' = [rowStatus EXCEPT ![got[c].id] = "used"]
    /\ phase' = [phase EXCEPT ![c] = "approved"]
    /\ UNCHANGED <<up, policy, clock, keyring, rowManifest, consumedAt,
                   chal, got, key, at, fresh, child, history>>

\* UPDATE ... WHERE status = 'pending' and COMMIT.  The update is refused when
\* another transaction has committed since the SELECT.
ConsumeRow(c) ==
    LET i == got[c].id
    IN  /\ up
        /\ phase[c] = "selected"
        /\ fresh[c]
        /\ rowStatus[i] = "pending"
        /\ rowStatus' = [rowStatus EXCEPT ![i] = "consumed"]
        /\ consumedAt' = [consumedAt EXCEPT ![i] = at[c]]
        /\ Committed
        /\ phase' = [phase EXCEPT ![c] = "approved"]
        /\ UNCHANGED <<up, policy, clock, keyring, rowManifest,
                       chal, got, key, at, child, history>>

\* A stale snapshot or a database error: the transaction is rolled back.
RollBack(c) == FailsAt(c, {"selected"})

\* run_command / run_pty start the process.
Spawn(c) ==
    /\ up
    /\ phase[c] = "approved"
    /\ phase' = [phase EXCEPT ![c] = "running"]
    /\ child' = [child EXCEPT ![c] = "alive"]
    /\ execs' = execs \cup {[conn |-> c, m |-> got[c], key |-> key[c]]}
    /\ UNCHANGED <<up, policy, clock, keyring, db,
                   chal, got, key, at, fresh, signed, seen>>

\* The process cannot be started; the approval is spent all the same.
SpawnFails(c) == FailsAt(c, {"approved"})

EndsChild(c, next) ==
    /\ child' = [child EXCEPT ![c] = "reaped"]
    /\ phase' = [phase EXCEPT ![c] = next]
    /\ UNCHANGED <<up, policy, clock, keyring, db,
                   chal, got, key, at, fresh, history>>

\* command.output() returns in time.
CommandDone(c) ==
    /\ up
    /\ phase[c] = "running"
    /\ IsCommand(got[c].op)
    /\ EndsChild(c, "reaped")

\* Mutant: without kill_on_drop the process outlives the timeout.
CommandTimeout_leaks(c) ==
    /\ FailsAt(c, {"running"})
    /\ IsCommand(got[c].op)

\* The timeout drops the output future; kill_on_drop kills the process.
CommandTimeout(c) ==
    /\ up
    /\ phase[c] = "running"
    /\ IsCommand(got[c].op)
    /\ EndsChild(c, "failed")

\* The PTY loop takes output and starts to write it to the peer: until the
\* write is done neither the deadline nor the peer's frames are looked at.
PtyOutput(c) ==
    /\ up
    /\ phase[c] = "running"
    /\ ~IsCommand(got[c].op)
    /\ phase' = [phase EXCEPT ![c] = "sending"]
    /\ UNCHANGED <<up, policy, clock, keyring, db,
                   chal, got, key, at, fresh, child, history>>

PtyOutputWritten(c) ==
    /\ up
    /\ phase[c] = "sending"
    /\ phase' = [phase EXCEPT ![c] = "running"]
    /\ UNCHANGED <<up, policy, clock, keyring, db,
                   chal, got, key, at, fresh, child, history>>

\* Decrypted bytes are written to the PTY with a blocking write_all: until the
\* program reads its terminal or ends, the loop looks at nothing else.
PtyInput(c) ==
    /\ up
    /\ phase[c] = "running"
    /\ ~IsCommand(got[c].op)
    /\ phase' = [phase EXCEPT ![c] = "typing"]
    /\ UNCHANGED <<up, policy, clock, keyring, db,
                   chal, got, key, at, fresh, child, history>>

PtyInputTaken(c) ==
    /\ up
    /\ phase[c] = "typing"
    /\ phase' = [phase EXCEPT ![c] = "running"]
    /\ UNCHANGED <<up, policy, clock, keyring, db,
                   chal, got, key, at, fresh, child, history>>

\* Mutant: no deadline, and a peer that never closes.
PtyBreak_never(c) == phase[c] = "never" /\ UNCHANGED vars

\* The loop breaks (deadline, end of output, Close, or read error): kill, wait.
PtyBreak(c) ==
    /\ up
    /\ phase[c] = "running"
    /\ ~IsCommand(got[c].op)
    /\ EndsChild(c, "reaped")

\* `?` leaves the loop: a frame that does not decode or decrypt, an
\* unexpected one, a failed write to the peer or the PTY.  The child is neither killed nor waited for.
PtyFails(c) ==
    /\ FailsAt(c, {"running", "sending", "typing"})
    /\ ~IsCommand(got[c].op)

\* The child of a handler that is gone ends by itself (its terminal hangs up).
OrphanExits(c) ==
    /\ phase[c] = "failed"
    /\ child[c] = "alive"
    /\ EndsChild(c, "failed")

\* The output / Exit frames and Closed are written.
SendClosed(c) ==
    /\ up
    /\ phase[c] = "reaped"
    /\ phase' = [phase EXCEPT ![c] = "closed"]
    /\ UNCHANGED <<up, policy, clock, keyring, db,
                   chal, got, key, at, fresh, child, history>>

SendClosedFails(c) == FailsAt(c, {"reaped"})

-----------------------------------------------------------------------------
(* Crash and restart: systemd kills the control group with the gate, the    *)
(* committed rows and the keyring stay, an open transaction is rolled back.  *)

Crash ==
    /\ up
    /\ up' = FALSE
    /\ phase' = [c \in Conns |->
                   IF phase[c] = "idle" \/ phase[c] \in Final
                   THEN phase[c] ELSE "lost"]
    /\ child' = [c \in Conns |->
                   IF child[c] = "alive" THEN "reaped" ELSE child[c]]
    /\ fresh' = [c \in Conns |-> FALSE]
    /\ UNCHANGED <<policy, clock, keyring, db, chal, got, key, at, history>>

\* load_or_create: keys and table are reused; the environment may differ.
Restart(p) ==
    /\ ~up
    /\ up' = TRUE
    /\ policy' = p
    /\ UNCHANGED <<clock, keyring, db, conn, history>>

-----------------------------------------------------------------------------
Verify(c) ==
    \/ CheckApprover(c) \/ RefuseApprover(c)
    \/ SelectRow(c) \/ RefuseRow(c)
    \/ ConsumeRow(c) \/ RollBack(c)

Run(c) ==
    \/ Spawn(c) \/ SpawnFails(c)
    \/ CommandDone(c) \/ CommandTimeout(c)
    \/ PtyOutput(c) \/ PtyOutputWritten(c)
    \/ PtyInput(c) \/ PtyInputTaken(c)
    \/ PtyBreak(c) \/ PtyFails(c)
    \/ SendClosed(c) \/ SendClosedFails(c)

Handle(c) ==
    \/ Accept(c)
    \/ \E i \in Ids, o \in Ops : challenge(c, i, o)
    \/ RefuseStart(c)
    \/ \E m \in Presentable, k \in Keys : ReadApprove(c, m, k)
    \/ RefuseApprove(c)
    \/ Verify(c)
    \/ Run(c)

Next ==
    \/ \E c \in Conns : Handle(c) \/ OrphanExits(c)
    \/ Tick
    \/ \E a \in Approvers, k \in Keys : enroll_approver(a, k)
    \/ \E k \in Keys, m \in Issued : Sign(k, m)
    \/ Crash
    \/ \E p \in Policies : Restart(p)

Spec == Init /\ [][Next]_vars

(***************************************************************************)
(* Fairness.  A handler thread that can step does: approve() is            *)
(* synchronous code, a command ends or times out, a written frame is read  *)
(* by the agent's reader task, which never stops reading before Closed.    *)
(* The PTY deadline, once elapsed, is ready at every turn of the select    *)
(* loop and select! polls its branches in random order, so it is not       *)
(* passed over forever while the loop keeps coming back to the select      *)
(* (strong fairness of PtyBreak).  That it comes back is not assumed: the  *)
(* write to the PTY waits for a program that may never read.  Nothing is   *)
(* assumed of the peer before its Approve frame, of approvers, the clock   *)
(* or crash.                                                               *)
(***************************************************************************)
Fairness ==
    \A c \in Conns :
        /\ WF_vars(Verify(c))
        /\ WF_vars(Spawn(c) \/ SpawnFails(c))
        /\ WF_vars(CommandDone(c) \/ CommandTimeout(c))
        /\ WF_vars(PtyOutputWritten(c))
        /\ SF_vars(PtyBreak(c))
        /\ WF_vars(SendClosed(c) \/ SendClosedFails(c))

LiveSpec == Spec /\ Fairness

-----------------------------------------------------------------------------
(* Properties.                                                             *)

TypeOK ==
    /\ up \in BOOLEAN
    /\ policy \in Policies
    /\ clock \in Nat
    /\ keyring \in [Approvers -> Keys \cup {NoKey}]
    /\ rowStatus \in [Ids -> {"absent", "pending", "consumed"}]
    /\ rowManifest \in [Ids -> Manifests \cup {NoManifest}]
    /\ consumedAt \in [Ids -> Nat]
    /\ phase \in [Conns -> Phases]
    /\ chal \in [Conns -> Manifests \cup {NoManifest}]
    /\ got \in [Conns -> Manifests \cup {NoManifest}]
    /\ key \in [Conns -> Keys \cup {NoKey}]
    /\ at \in [Conns -> Nat]
    /\ fresh \in [Conns -> BOOLEAN]
    /\ child \in [Conns -> {"none", "alive", "reaped"}]
    /\ signed \subseteq Keys \X Manifests
    /\ execs \subseteq [conn : Conns, m : Manifests \cup {NoManifest},
                        key : Keys \cup {NoKey}]
    /\ seen \in [Conns -> SUBSET (Keys \cup {NoKey})]

(* A request id starts at most one root operation, whatever connections,    *)
(* threads, crashes and restarts come in between (the test                  *)
(* signed_approval_is_exact_single_use_and_persistent, for every schedule). *)
AtMostOnce ==
    \A x, y \in execs : x.m.id = y.m.id => x = y

(* What runs was signed: an approver signed exactly the manifest that the   *)
(* handler executes, operation, expiry and nonce included.                  *)
ExecutedWasSigned ==
    \A x \in execs : <<x.key, x.m>> \in signed

(* The key that authorised an operation was in approvers.json at some time  *)
(* between the arrival of the approval and its verification: a key replaced *)
(* before the approval arrived authorises nothing.                          *)
ExecutedKeyWasEnrolled ==
    \A x \in execs : x.key # NoKey /\ x.key \in seen[x.conn]

(* A handler runs the operation it challenged the peer with, never one that *)
(* another connection asked for.                                            *)
ExecutedOwnChallenge ==
    \A x \in execs : x.m.nonce = x.conn

(* An approval is redeemed within the life time written in its manifest.    *)
RedeemedInTime ==
    \A i \in Ids : rowStatus[i] = "consumed" =>
        consumedAt[i] <= rowManifest[i].expires

(* Every start was approved: signed as this very manifest, by a key enrolled *)
(* while the approval was verified, and redeemed before its expiry.          *)
ExecutedWasApproved == ExecutedWasSigned /\ ExecutedKeyWasEnrolled /\ RedeemedInTime

(* A request id starts at most one operation, and that one answers the       *)
(* challenge of its own connection.                                          *)
OncePerChallenge == AtMostOnce /\ ExecutedOwnChallenge

(* A handler that reported Closed has reaped its child, and a root process  *)
(* that outlives its handler is a PTY's shell (run_pty's error returns skip *)
(* child.kill), never a command: kill_on_drop covers run_command.           *)
ChildrenAccountedFor ==
    \A c \in Conns :
        /\ phase[c] = "closed" => child[c] = "reaped"
        /\ child[c] = "alive" /\ phase[c] \in Final =>
              phase[c] = "failed" /\ ~IsCommand(got[c].op)

(* A row is written once as pending, consumed at most once, and never       *)
(* changed again, by no handler and by no crash.                            *)
RowsOnlyAdvance ==
    [][\A i \in Ids :
          /\ rowStatus[i] # "absent" => rowManifest'[i] = rowManifest[i]
          /\ rowStatus[i] = "pending" => rowStatus'[i] # "absent"
          /\ rowStatus[i] = "consumed" => /\ rowStatus'[i] = "consumed"
                                          /\ consumedAt'[i] = consumedAt[i]
      ]_vars

(* A handler that has read its approval ends: it refuses, completes or is   *)
(* lost in a crash, and keeps a root shell beyond its deadline only by       *)
(* waiting for good in the write to a terminal that nobody reads (run_pty's  *)
(* blocking write_all inside its select loop).                               *)
StuckTyping(c) == phase[c] = "typing"

ApprovalEnds ==
    \A c \in Conns :
        phase[c] \in Approving ~> (phase[c] \in Final \/ []StuckTyping(c))

-----------------------------------------------------------------------------
(* The abstract gate.  A request is "executed" once its operation started.  *)

Started(i) == \E x \in execs : x.m.id = i

Abstract == INSTANCE SingleUseApproval WITH
    NoOp <- NoManifest,
    status <- [i \in Ids |-> IF Started(i) THEN "executed" ELSE rowStatus[i]],
    op <- [i \in Ids |-> IF rowStatus[i] = "absent" THEN NoManifest
                         ELSE rowManifest[i].op],
    vouched <- {<<s[2].id, s[2].op>> : s \in signed},
    ran <- {<<x.m.id, x.m.op>> : x \in execs}

(* The gate implements the single-use ledger: every step of the handlers,   *)
(* the database and the crashes is a step of SingleUseApproval or none.     *)
ImplementsSingleUse == Abstract!Spec
=============================================================================
