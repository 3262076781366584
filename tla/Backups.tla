------------------------------ MODULE Backups ------------------------------
(***************************************************************************)
(* Backup requests (backup.rs, run_backup).  Each runs in a task of its    *)
(* own: tar writes an archive named after the backup and the second, into  *)
(* the destination directory or a temporary file, which is then put into a *)
(* bucket, in parts when it is large.  A request to the bucket may fail    *)
(* before or after it has taken effect.                                    *)
(***************************************************************************)
EXTENDS Outgoing, FiniteSets

CONSTANTS
    Backups,  \* the requests; they carry one name and one set of paths
    Parts,    \* parts of a large archive
    MaxSecond \* bound: seconds of the clock that names archives

BackupsAssumption == Parts \in Nat \ {0} /\ MaxSecond \in Nat

VARIABLES
    second,  \* the clock
    stage,   \* of each request
    dest,    \* "local" or "s3"
    named,   \* the second in its archive's name
    file,    \* local archives: the last to open each, and "partial", "whole" or "torn"
    object,  \* objects of the bucket, by name: the request that stored it, or None
    upload,  \* its multipart upload: "none", "open", "completed" or "aborted"
    stored,  \* parts of it the bucket has
    lost,    \* history: a request whose failure left the bucket unaware of the end
    success  \* what its response says

task == <<second, stage, dest, named, file, object, upload, stored, lost, success>>

None == "none"
Names == 0 .. MaxSecond

Init ==
    /\ second = 0
    /\ stage = [b \in Backups |-> "idle"]
    /\ dest = [b \in Backups |-> None]
    /\ named = [b \in Backups |-> 0]
    /\ file = [n \in Names |-> [by |-> None, is |-> "absent"]]
    /\ object = [n \in Names |-> None]
    /\ upload = [b \in Backups |-> "none"]
    /\ stored = [b \in Backups |-> 0]
    /\ lost = {}
    /\ success = [b \in Backups |-> FALSE]

Idle == \A b \in Backups : stage[b] = "idle"

To(b, next) == stage' = [stage EXCEPT ![b] = next]
At(b, now) == stage[b] = now

Respond(b, ok) == To(b, "responding") /\ success' = [success EXCEPT ![b] = ok]

Passes ==
    /\ ~Idle
    /\ second < MaxSecond
    /\ second' = second + 1
    /\ UNCHANGED <<stage, dest, named, file, object, upload, stored, lost, success,
                   outgoing>>

-----------------------------------------------------------------------------
(* The archive.                                                             *)

Request(b, d) ==
    /\ At(b, "idle")
    /\ To(b, "checking")
    /\ dest' = [dest EXCEPT ![b] = d]
    /\ UNCHANGED <<second, named, file, object, upload, stored, lost, success, outgoing>>

\* The mode, the destination, the paths, the directory or the temporary file.
CheckFails(b) ==
    /\ At(b, "checking")
    /\ Respond(b, FALSE)
    /\ UNCHANGED <<second, dest, named, file, object, upload, stored, lost, outgoing>>

Writing(n) ==
    {b \in Backups : At(b, "archiving") /\ dest[b] = "local" /\ named[b] = n}

\* tar truncates the archive of that name, whoever is writing it.
StartTar(b) ==
    /\ At(b, "checking")
    /\ To(b, "archiving")
    /\ named' = [named EXCEPT ![b] = second]
    /\ file' = IF dest[b] = "s3" THEN file
               ELSE [file EXCEPT ![second] =
                       [by |-> b, is |-> IF Writing(second) = {} THEN "partial" ELSE "torn"]]
    /\ UNCHANGED <<second, dest, object, upload, stored, lost, success, outgoing>>

Close(b, ok) ==
    file' = IF dest[b] = "local" /\ ok /\ file[named[b]] = [by |-> b, is |-> "partial"]
            THEN [file EXCEPT ![named[b]].is = "whole"]
            ELSE file

\* Mutant: the exit status of tar is not looked at.
TarExits_unchecked(b, ok) ==
    /\ At(b, "archiving")
    /\ Close(b, ok)
    /\ IF dest[b] = "local"
       THEN Respond(b, TRUE)
       ELSE To(b, "uploading") /\ UNCHANGED success
    /\ UNCHANGED <<second, dest, named, object, upload, stored, lost, outgoing>>

\* A partial archive stays where it is.
TarExits(b, ok) ==
    /\ At(b, "archiving")
    /\ Close(b, ok)
    /\ CASE ~ok -> Respond(b, FALSE)
         [] ok /\ dest[b] = "local" -> Respond(b, TRUE)
         [] ok /\ dest[b] = "s3" -> To(b, "uploading") /\ UNCHANGED success
    /\ UNCHANGED <<second, dest, named, object, upload, stored, lost, outgoing>>

-----------------------------------------------------------------------------
(* The bucket.  A request succeeds, or fails with or without its effect.    *)

\* s3_put_object, for a small archive.
Put(b, ok, applied) ==
    /\ At(b, "uploading")
    /\ ok => applied
    /\ object' = IF applied THEN [object EXCEPT ![named[b]] = b] ELSE object
    /\ Respond(b, ok)
    /\ UNCHANGED <<second, dest, named, file, upload, stored, lost, outgoing>>

Create(b, ok, applied) ==
    /\ At(b, "uploading")
    /\ ok => applied
    /\ upload' = IF applied THEN [upload EXCEPT ![b] = "open"] ELSE upload
    /\ IF ok THEN To(b, "parts") /\ UNCHANGED <<success, lost>>
       ELSE Respond(b, FALSE) /\ lost' = lost \cup {b}
    /\ UNCHANGED <<second, dest, named, file, object, stored, outgoing>>

\* Mutant: a part that fails is skipped.
UploadPart_skips(b, ok) ==
    /\ At(b, "parts")
    /\ stored[b] < Parts
    /\ IF ok THEN /\ stored' = [stored EXCEPT ![b] = @ + 1]
                  /\ UNCHANGED stage
       ELSE To(b, "completing") /\ UNCHANGED stored
    /\ UNCHANGED <<second, dest, named, file, object, upload, lost, success, outgoing>>

\* Mutant: a part that fails ends the task at once.
UploadPart_leaks(b, ok) ==
    /\ At(b, "parts")
    /\ stored[b] < Parts
    /\ IF ok THEN /\ stored' = [stored EXCEPT ![b] = @ + 1]
                  /\ UNCHANGED <<stage, success>>
       ELSE Respond(b, FALSE) /\ UNCHANGED stored
    /\ UNCHANGED <<second, dest, named, file, object, upload, lost, outgoing>>

\* A part, or the read of the temporary file before it, succeeds or fails.
UploadPart(b, ok) ==
    /\ At(b, "parts")
    /\ stored[b] < Parts
    /\ IF ok THEN /\ stored' = [stored EXCEPT ![b] = @ + 1]
                  /\ UNCHANGED stage
       ELSE To(b, "aborting") /\ UNCHANGED stored
    /\ UNCHANGED <<second, dest, named, file, object, upload, lost, success, outgoing>>

PartsEnd(b) ==
    /\ At(b, "parts")
    /\ stored[b] = Parts
    /\ To(b, "completing")
    /\ UNCHANGED <<second, dest, named, file, object, upload, stored, lost, success,
                   outgoing>>

Complete(b, ok, applied) ==
    /\ At(b, "completing")
    /\ ok => applied
    /\ upload' = IF applied THEN [upload EXCEPT ![b] = "completed"] ELSE upload
    /\ object' = IF applied THEN [object EXCEPT ![named[b]] = b] ELSE object
    /\ Respond(b, ok)
    /\ lost' = IF ok THEN lost ELSE lost \cup {b}
    /\ UNCHANGED <<second, dest, named, file, stored, outgoing>>

\* The error of the abort is ignored: the part's is reported.
AbortUpload(b, applied) ==
    /\ At(b, "aborting")
    /\ upload' = IF applied THEN [upload EXCEPT ![b] = "aborted"] ELSE upload
    /\ lost' = IF applied THEN lost ELSE lost \cup {b}
    /\ Respond(b, FALSE)
    /\ UNCHANGED <<second, dest, named, file, object, stored, outgoing>>

Response(b) ==
    /\ At(b, "responding")
    /\ To(b, "done")
    /\ Send([type |-> "backup", by |-> b])
    /\ UNCHANGED <<second, dest, named, file, object, upload, stored, lost, success>>

Step(b) ==
    \/ \E d \in {"local", "s3"} : Request(b, d)
    \/ CheckFails(b) \/ StartTar(b) \/ PartsEnd(b) \/ Response(b)
    \/ \E ok \in BOOLEAN : TarExits(b, ok) \/ UploadPart(b, ok) \/ AbortUpload(b, ok)
    \/ \E ok, applied \in BOOLEAN :
          Put(b, ok, applied) \/ Create(b, ok, applied) \/ Complete(b, ok, applied)

Next == Passes \/ \E b \in Backups : Step(b)

\* tar ends, and the client gives up on a request that is not answered.
Fairness == \A b \in Backups : WF_<<task, outgoing>>(~At(b, "idle") /\ Step(b))

-----------------------------------------------------------------------------
(* Properties.                                                              *)

TypeOK ==
    /\ second \in Names
    /\ stage \in [Backups -> {"idle", "checking", "archiving", "uploading", "parts",
                              "completing", "aborting", "responding", "done"}]
    /\ dest \in [Backups -> {None, "local", "s3"}]
    /\ named \in [Backups -> Names]
    /\ file \in [Names -> [by : Backups \cup {None}, is : {"absent", "partial", "whole",
                                                           "torn"}]]
    /\ object \in [Names -> Backups \cup {None}]
    /\ upload \in [Backups -> {"none", "open", "completed", "aborted"}]
    /\ stored \in [Backups -> 0 .. Parts]
    /\ lost \subseteq Backups
    /\ success \in [Backups -> BOOLEAN]

Finished(b) == stage[b] \in {"responding", "done"}
Alone(b) ==
    \A c \in Backups \ {b} : named[c] # named[b] \/ dest[c] # dest[b]
                    \/ stage[c] \in {"idle", "checking"}

(* A backup that says it succeeded has its whole archive at the destination, *)
(* and an object of the bucket is whole whoever stored it; only a backup of   *)
(* the same name in the same second can take a local archive away.           *)
SuccessIsStored ==
    \A b \in Backups :
        /\ (Finished(b) /\ success[b] /\ Alone(b)) =>
              IF dest[b] = "local" THEN file[named[b]] = [by |-> b, is |-> "whole"]
              ELSE object[named[b]] = b
        /\ upload[b] = "completed" => stored[b] = Parts

(* A finished backup leaves no open multipart upload behind, unless the       *)
(* request that was to create, complete or abort it is the one that failed.  *)
UploadIsClosed ==
    \A b \in Backups : (Finished(b) /\ upload[b] = "open") => b \in lost

(* To hold in the end: every backup that was asked for is answered, or the   *)
(* queue has refused the answer.                                             *)
BackupsEnded == \A b \in Backups : stage[b] \in {"idle", "done"}
=============================================================================
