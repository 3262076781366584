------------------------------ MODULE K8sApply ------------------------------
(***************************************************************************)
(* A server-side apply of several documents (k8s.rs, apply).  Each is      *)
(* checked against the policy and applied before the next is looked at;    *)
(* the first failure ends the request, and its text replaces the results.  *)
(***************************************************************************)
EXTENDS Outgoing, FiniteSets

CONSTANT MaxDocs  \* bound: documents of a manifest

DocsAssumption == MaxDocs \in Nat

VARIABLES
    apply,    \* "idle", "opening", "applying", "responding" or "done"
    manifest, \* its documents
    dryRun,
    force,
    doc,      \* the document being looked at
    changed,  \* documents the cluster has taken
    outcome   \* of the response: an error, or the number of documents listed

task == <<apply, manifest, dryRun, force, doc, changed, outcome>>

\* "denied" violates validate_apply_document, "broken" is not a known resource.
Docs == {"allowed", "denied", "broken", "blank"}

Init ==
    /\ apply = "idle"
    /\ manifest = <<>>
    /\ dryRun = FALSE /\ force = FALSE
    /\ doc = 1
    /\ changed = {}
    /\ outcome = [error |-> FALSE, listed |-> 0]

Idle == apply = "idle"

Request ==
    /\ Idle
    /\ apply' = "opening"
    /\ \E n \in 0 .. MaxDocs : manifest' \in [1 .. n -> Docs]
    /\ dryRun' \in BOOLEAN /\ force' \in BOOLEAN
    /\ UNCHANGED <<doc, changed, outcome, outgoing>>

Fail ==
    /\ apply' = "responding"
    /\ outcome' = [error |-> TRUE, listed |-> 0]
    /\ UNCHANGED <<manifest, dryRun, force, doc, outgoing>>

\* The namespace allow-list and the client.
Open ==
    /\ apply = "opening"
    /\ \/ /\ apply' = "applying"
          /\ UNCHANGED <<manifest, dryRun, force, doc, outcome, outgoing>>
       \/ Fail
    /\ UNCHANGED changed

More == apply = "applying" /\ doc <= Len(manifest)

Skip ==
    /\ More /\ manifest[doc] = "blank"
    /\ doc' = doc + 1
    /\ UNCHANGED <<apply, manifest, dryRun, force, changed, outcome, outgoing>>

\* Mutant: a forced apply is not refused.
Admitted_forced == manifest[doc] = "allowed"

Admitted == manifest[doc] = "allowed" /\ ~force

Reject ==
    /\ More /\ manifest[doc] # "blank" /\ ~Admitted
    /\ Fail
    /\ UNCHANGED changed

Taken == IF dryRun THEN changed ELSE changed \cup {doc}

\* Mutant: a document that fails is left out of the list.
Patch_continues ==
    /\ More /\ Admitted
    /\ doc' = doc + 1
    /\ \/ changed' = Taken /\ outcome' = [outcome EXCEPT !.listed = @ + 1]
       \/ UNCHANGED <<changed, outcome>>
    /\ UNCHANGED <<apply, manifest, dryRun, force, outgoing>>

\* A patch succeeds, or fails before or after the cluster has taken it.
Patch ==
    /\ More /\ Admitted
    /\ \/ /\ changed' = Taken
          /\ doc' = doc + 1
          /\ outcome' = [outcome EXCEPT !.listed = @ + 1]
          /\ UNCHANGED <<apply, manifest, dryRun, force, outgoing>>
       \/ Fail /\ changed' \in {changed, Taken}

AllApplied ==
    /\ apply = "applying" /\ doc > Len(manifest)
    /\ apply' = "responding"
    /\ UNCHANGED <<manifest, dryRun, force, doc, changed, outcome, outgoing>>

Respond ==
    /\ apply = "responding"
    /\ apply' = "done"
    /\ Send([type |-> "applied"])
    /\ UNCHANGED <<manifest, dryRun, force, doc, changed, outcome>>

Next == Request \/ Open \/ Skip \/ Reject \/ Patch \/ AllApplied \/ Respond

\* The client gives up on a cluster that does not answer.
Fairness == WF_<<task, outgoing>>(Open \/ Skip \/ Reject \/ Patch \/ AllApplied \/ Respond)

-----------------------------------------------------------------------------
(* Properties.                                                              *)

TypeOK ==
    /\ apply \in {"idle", "opening", "applying", "responding", "done"}
    /\ manifest \in Seq(Docs) /\ Len(manifest) <= MaxDocs
    /\ dryRun \in BOOLEAN /\ force \in BOOLEAN
    /\ doc \in 1 .. MaxDocs + 1
    /\ changed \subseteq 1 .. MaxDocs
    /\ outcome \in [error : BOOLEAN, listed : 0 .. MaxDocs]

Wanted == {d \in DOMAIN manifest : manifest[d] # "blank"}

(* The cluster takes a prefix of the manifest: nothing after the document     *)
(* that failed, nothing the policy denies, nothing in a dry or forced run;    *)
(* and an answer without an error means that it took all of it.              *)
AppliedIsPrefix ==
    /\ changed \subseteq {d \in Wanted : d <= doc /\ manifest[d] = "allowed"}
    /\ {d \in Wanted : d < doc} \subseteq changed \/ dryRun
    /\ dryRun \/ force => changed = {}
    /\ (apply \in {"responding", "done"} /\ ~outcome.error) =>
          /\ dryRun \/ changed = Wanted
          /\ outcome.listed = Cardinality(Wanted)
=============================================================================
