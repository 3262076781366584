---------------------------- MODULE Credentials ----------------------------
(***************************************************************************)
(* Pairing, token rotation and the connection attempt of the agent's       *)
(* process (main.rs), with systemd restarting it after every exit.  The    *)
(* server hands out triples (access token, refresh token, expiry) and      *)
(* accepts a refresh token once; the agent keeps the three parts in three  *)
(* files.                                                                   *)
(***************************************************************************)
EXTENDS Naturals, Sequences

CONSTANTS
    MaxTriples,   \* bound: triples the server hands out
    MaxPairings,  \* bound: starts with --pair
    MaxFaults     \* bound: crashes, lost answers, failed writes, lost connections

CredentialsAssumption ==
    MaxTriples \in Nat /\ MaxPairings \in Nat /\ MaxFaults \in Nat

VARIABLES
    triples,    \* what the server has handed out
    accepted,   \* indices of the refresh tokens it would take
    legacy,     \* it hands out access tokens alone
    disk,       \* the three files: index of the triple each is from, or 0
    step,       \* where the process is; "down" while systemd waits to restart
    caller,     \* who receives the triple being asked for
    token,      \* main's token
    answer,     \* the triple being persisted
    refreshed,  \* the one reactive refresh is used
    mine,       \* history: the pairing this process was started for
    pairings,
    faults,
    cut,        \* history: a rotation was not persisted whole
    revoked     \* history: the operator revoked the host's credentials

server == <<triples, accepted, legacy>>
credentials == <<server, disk, step, caller, token, answer, refreshed, mine, pairings,
                 faults, cut, revoked>>

Files == {"access", "refresh", "expiry"}
Lives == {"far", "near", "over"}  \* more or less than REFRESH_PROACTIVE_SECS, expired

Init ==
    /\ triples = <<>> /\ accepted = {} /\ legacy \in BOOLEAN
    /\ disk = [f \in Files |-> 0]
    /\ step = "down" /\ caller = "pair"
    /\ token = 0 /\ answer = 0 /\ refreshed = FALSE
    /\ mine = 0 /\ pairings = 0 /\ faults = 0
    /\ cut = FALSE /\ revoked = FALSE

Newest == Len(triples)
Bare(t) == triples[t].bare
Valid(t) == t # 0 /\ triples[t].life # "over"

\* An empty or unreadable expiry file counts as stale.
Stale == disk["expiry"] = 0 \/ triples[disk["expiry"]].life # "far"

Fault == faults < MaxFaults /\ faults' = faults + 1

-----------------------------------------------------------------------------
(* The server.                                                              *)

Issue(family) ==
    /\ Newest < MaxTriples
    /\ triples' = Append(triples, [life |-> "far", family |-> family, bare |-> legacy])
    /\ UNCHANGED legacy

Age(t) ==
    /\ triples[t].life # "over"
    /\ triples' = [triples EXCEPT ![t].life = IF @ = "far" THEN "near" ELSE "over"]
    /\ UNCHANGED <<accepted, legacy, disk, step, caller, token, answer, refreshed, mine,
                   pairings, faults, cut, revoked>>

Revoke ==
    /\ ~revoked /\ triples # <<>>
    /\ revoked' = TRUE
    /\ triples' = [t \in DOMAIN triples |-> [triples[t] EXCEPT !.life = "over"]]
    /\ accepted' = {}
    /\ UNCHANGED <<legacy, disk, step, caller, token, answer, refreshed, mine, pairings,
                   faults, cut>>

Upgrade ==
    /\ legacy /\ legacy' = FALSE
    /\ UNCHANGED <<triples, accepted, disk, step, caller, token, answer, refreshed, mine,
                   pairings, faults, cut, revoked>>

-----------------------------------------------------------------------------
(* The process.                                                             *)

\* Mutant: the process ends with status 0, and Restart=on-failure lets it rest.
Exit_clean == step' = "stopped"

\* exit(1): systemd starts the service again.
Exit == step' = "down"

\* Mutant: the unit lacks Restart=, and only the first start is its own.
Start_once ==
    /\ step = "down" /\ disk["access"] # 0 /\ mine = 0
    /\ step' = "proactive" /\ token' = disk["access"] /\ refreshed' = FALSE
    /\ mine' = triples[disk["access"]].family
    /\ UNCHANGED <<server, disk, caller, answer, pairings, faults, cut, revoked>>

\* systemd starts the service; without a token it exits at once.
Start ==
    /\ step = "down" /\ disk["access"] # 0
    /\ step' = "proactive" /\ token' = disk["access"] /\ refreshed' = FALSE
    /\ mine' = triples[disk["access"]].family
    /\ UNCHANGED <<server, disk, caller, answer, pairings, faults, cut, revoked>>

\* Mutant: a token on the disk is preferred to pairing.
StartPairing_disk ==
    /\ step = "down" /\ pairings < MaxPairings
    /\ step' = (IF disk["access"] # 0 THEN "proactive" ELSE "pairing")
    /\ token' = disk["access"]
    /\ pairings' = pairings + 1 /\ mine' = pairings'
    /\ refreshed' = FALSE
    /\ UNCHANGED <<server, disk, caller, answer, faults, cut, revoked>>

\* The operator starts it with --pair.
StartPairing ==
    /\ step = "down" /\ pairings < MaxPairings
    /\ step' = "pairing" /\ pairings' = pairings + 1 /\ mine' = pairings'
    /\ refreshed' = FALSE
    /\ UNCHANGED <<server, disk, caller, token, answer, faults, cut, revoked>>

\* pair: the poll that finds the code approved.
Paired ==
    /\ step = "pairing"
    /\ Issue(mine)
    /\ accepted' = IF legacy THEN accepted ELSE accepted \cup {Newest + 1}
    /\ answer' = Newest + 1 /\ caller' = "pair" /\ step' = "access"
    /\ UNCHANGED <<disk, token, refreshed, mine, pairings, faults, cut, revoked>>

PairingDenied ==
    /\ step = "pairing"
    /\ Exit
    /\ UNCHANGED <<server, disk, caller, token, answer, refreshed, mine, pairings, faults,
                   cut, revoked>>

\* What follows persist_token_triple in each of its callers.
Resume ==
    /\ token' = answer
    /\ step' = IF caller = "pair" THEN "proactive" ELSE "connecting"
    /\ refreshed' = (refreshed \/ caller = "reactive")

\* Mutant: only pairing stores the refresh token.
AfterFile_pairing ==
    CASE step = "access" /\ ~Bare(answer) ->
            /\ step' = (IF caller = "pair" THEN "refresh" ELSE "expiry")
            /\ UNCHANGED <<token, refreshed>>
      [] step = "refresh" -> step' = "expiry" /\ UNCHANGED <<token, refreshed>>
      [] OTHER -> Resume

\* persist_token_triple writes the parts the server sent.
AfterFile ==
    CASE step = "access" /\ ~Bare(answer) ->
            step' = "refresh" /\ UNCHANGED <<token, refreshed>>
      [] step = "refresh" -> step' = "expiry" /\ UNCHANGED <<token, refreshed>>
      [] OTHER -> Resume

Write ==
    /\ step \in Files
    /\ disk' = [disk EXCEPT ![step] = answer]
    /\ AfterFile
    /\ UNCHANGED <<server, caller, answer, mine, pairings, faults, cut, revoked>>

\* write_secret_file fails before or after it truncates; that is only logged.
WriteFails ==
    /\ step \in Files
    /\ \E left \in {disk[step], 0} : disk' = [disk EXCEPT ![step] = left]
    /\ Fault /\ cut' = TRUE
    /\ AfterFile
    /\ UNCHANGED <<server, caller, answer, mine, pairings, revoked>>

ProactiveCheck ==
    /\ step = "proactive"
    /\ step' = IF disk["refresh"] # 0 /\ Stale THEN "asking" ELSE "connecting"
    /\ caller' = "proactive"
    /\ UNCHANGED <<server, disk, token, answer, refreshed, mine, pairings, faults, cut,
                   revoked>>

\* refresh_token_pair returned None.
NoAnswer == step' = IF caller = "reactive" THEN "down" ELSE "connecting"

Rotate ==
    /\ disk["refresh"] \in accepted
    /\ Issue(triples[disk["refresh"]].family)
    /\ accepted' = (accepted \ {disk["refresh"]}) \cup {Newest + 1}

Refreshed ==
    /\ step = "asking"
    /\ Rotate
    /\ answer' = Newest + 1 /\ step' = "access"
    /\ UNCHANGED <<disk, caller, token, refreshed, mine, pairings, faults, cut, revoked>>

Refused ==
    /\ step = "asking" /\ disk["refresh"] \notin accepted
    /\ NoAnswer
    /\ UNCHANGED <<server, disk, caller, token, answer, refreshed, mine, pairings, faults,
                   cut, revoked>>

\* The request or its answer is lost, the latter after the server has rotated.
AnswerLost ==
    /\ step = "asking"
    /\ Fault /\ NoAnswer
    /\ \/ UNCHANGED <<server, cut>>
       \/ Rotate /\ cut' = TRUE
    /\ UNCHANGED <<disk, caller, token, answer, refreshed, mine, pairings, revoked>>

Connect ==
    /\ step = "connecting" /\ Valid(token)
    /\ step' = "running"
    /\ UNCHANGED <<server, disk, caller, token, answer, refreshed, mine, pairings, faults,
                   cut, revoked>>

\* Any error of the handshake, not only a 401, leads to the one refresh.
ConnectFails ==
    /\ step = "connecting"
    /\ IF Valid(token) THEN Fault ELSE UNCHANGED faults
    /\ IF ~refreshed /\ disk["refresh"] # 0
       THEN step' = "asking" /\ caller' = "reactive"
       ELSE Exit /\ UNCHANGED caller
    /\ UNCHANGED <<server, disk, token, answer, refreshed, mine, pairings, cut, revoked>>

\* The connect timeout, or the end of the main loop.
GiveUp ==
    /\ step \in {"connecting", "running"}
    /\ Fault /\ Exit
    /\ UNCHANGED <<server, disk, caller, token, answer, refreshed, mine, pairings, cut,
                   revoked>>

\* The process dies; a file being written stays as it was or empty.
Crash ==
    /\ step # "down"
    /\ Fault /\ step' = "down"
    /\ IF step \in Files
       THEN /\ cut' = TRUE
            /\ \E left \in {disk[step], 0} : disk' = [disk EXCEPT ![step] = left]
       ELSE UNCHANGED <<disk, cut>>
    /\ UNCHANGED <<server, caller, token, answer, refreshed, mine, pairings, revoked>>

Proceed ==
    \/ Start \/ Write \/ ProactiveCheck \/ Refreshed \/ Refused \/ Connect \/ ConnectFails

Next ==
    \/ \E t \in DOMAIN triples : Age(t)
    \/ Revoke \/ Upgrade
    \/ StartPairing \/ Paired \/ PairingDenied
    \/ Proceed
    \/ WriteFails \/ AnswerLost \/ GiveUp \/ Crash

-----------------------------------------------------------------------------

TypeOK ==
    /\ triples \in Seq([life : Lives, family : 1..MaxPairings, bare : BOOLEAN])
    /\ Newest <= MaxTriples
    /\ accepted \subseteq DOMAIN triples /\ legacy \in BOOLEAN
    /\ disk \in [Files -> 0..Newest]
    /\ step \in Files \cup {"down", "pairing", "proactive", "asking", "connecting", "running"}
    /\ caller \in {"pair", "proactive", "reactive"}
    /\ {token, answer} \subseteq 0..Newest
    /\ {refreshed, cut, revoked} \subseteq BOOLEAN
    /\ mine \in 0..MaxPairings /\ pairings \in 0..MaxPairings /\ faults \in 0..MaxFaults

(* Outside of a write, the files hold the three parts of the newest triple,  *)
(* unless a rotation was cut short: nothing else loses the refresh token.    *)
FilesAgree ==
    (triples # <<>> /\ ~cut /\ step \notin Files) =>
        \A f \in IF Bare(Newest) THEN {"access"} ELSE Files : disk[f] = Newest

(* The process connects with a token of the pairing it was started for, so   *)
(* --pair supersedes what was on the disk.                                   *)
PairingSupersedes ==
    (step \in {"connecting", "running"} /\ ~cut) => triples[token].family = mine

\* Only the operator can help: nothing on the disk opens a connection.
NeedsPairing ==
    \/ disk["access"] = 0
    \/ ~Valid(disk["access"]) /\ disk["refresh"] \notin accepted

\* A triple that has come to its end for a reason the agent cannot mend.
Explained == triples = <<>> \/ cut \/ revoked \/ Bare(Newest)

(* To hold in the end: connected, in the operator's hands, or asking for a   *)
(* triple beyond the bound.                                                  *)
Settled ==
    \/ step \in {"running", "pairing"}
    \/ NeedsPairing /\ Explained
    \/ step = "asking" /\ Newest = MaxTriples
=============================================================================
