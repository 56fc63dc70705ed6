------------------------------- MODULE ChangeSets -------------------------------
(***************************************************************************)
(* The versions of one skill and the change sets that propose them         *)
(* (server/modules/authoring/collaboration_service.py, and                 *)
(* create_skill_version_snapshot in service.py).                           *)
(*                                                                         *)
(* Several agents propose contents against the latest version and accept   *)
(* each other's proposals.  A handler reads the change set and the latest  *)
(* version first; only the savepoint of create_skill_version_snapshot is   *)
(* one transaction, and what it compares again is the digest of the latest *)
(* version, not the version the change set names as its base.              *)
(***************************************************************************)
EXTENDS Naturals, Sequences

CONSTANTS Clients,   \* concurrent requests
          Contents,  \* uploaded contents (skill_contents.id)
          Bundles,   \* what was uploaded; a digest names a bundle
          Versions,  \* version strings
          Declared   \* the version the _meta.json of a bundle declares

ASSUME ChangeSetAssumption == Declared \in [Bundles -> Versions]

VARIABLES bundle,    \* the bundle of each content
          pending,   \* contents in state validated
          history,   \* skill_versions, as the contents sealed; a version's id is its place
          latest,    \* skills.latest_content_digest: a set of at most one bundle
          archived,  \* skills.status
          changes,   \* skill_change_sets; candidate_content_id is unique
          req        \* what each request has read

vars == <<bundle, pending, history, latest, archived, changes, req>>

ChangeSet == [state : {"absent", "open", "submitted", "accepted", "rejected", "superseded"},
              base : Nat]

\* Mutant: competitors get a state the other queries do not know.
ChangeClosed(state, base) ==
    [state |-> IF state = "superseded" THEN "closed" ELSE state, base |-> base]

ChangeOf(state, base) == [state |-> state, base |-> base]

NoContent == "none"

\* base and digest: the latest version as the request read it.
Request == [step : {"none", "create", "submit", "reject", "accept", "seal"},
            content : Contents \cup {NoContent}, base : Nat, digest : SUBSET Bundles]

Asks(step, content, base, digest) ==
    [step |-> step, content |-> content, base |-> base, digest |-> digest]

NoRequest == Asks("none", NoContent, 0, {})

ChangesTypeOK ==
    /\ bundle \in [Contents -> Bundles]
    /\ pending \subseteq Contents
    /\ history \in Seq(Contents)
    /\ latest \subseteq Bundles
    /\ archived \in BOOLEAN
    /\ changes \in [Contents -> ChangeSet]
    /\ req \in [Clients -> Request]

-------------------------------------------------------------------------------
(* Queries *)

\* content_digest of version n; version 0 stands for "no version yet".
DigestAt(n) == IF n = 0 THEN {} ELSE {bundle[history[n]]}

\* get_latest_skill_version
LatestDigest == DigestAt(Len(history))

\* content.declared_version: what the bundle itself says.
VersionOf(k) == Declared[bundle[k]]

\* Mutant: the version string is not looked up.
NewVersionAny(k) == TRUE

\* No row for (skill_id, version) yet: get_skill_version_by_version, and the
\* unique constraint of skill_versions.
NewVersion(k) == \A n \in 1 .. Len(history) : VersionOf(history[n]) # VersionOf(k)

-------------------------------------------------------------------------------
(* Requests *)

Done(c) == req' = [req EXCEPT ![c] = NoRequest]

Reads(c, step, k) ==
    /\ req[c].step = "none"
    /\ req' = [req EXCEPT ![c] = Asks(step, k, Len(history), LatestDigest)]
    /\ UNCHANGED <<bundle, pending, history, latest, archived, changes>>

\* The write of a handler that has read the change set: by id, whatever the
\* row has become.
Decides(c, step, state) ==
    /\ req[c].step = step
    /\ changes' = [changes EXCEPT ![req[c].content] = ChangeOf(state, @.base)]
    /\ Done(c)
    /\ UNCHANGED <<bundle, pending, history, latest, archived>>

\* create_change_set, with the latest version as base.
CreateReads(c, k) ==
    /\ k \in pending
    /\ NewVersion(k)
    /\ Reads(c, "create", k)

\* uq candidate_content_id: a second change set for a content is refused.
CreateWrites(c) ==
    LET k == req[c].content IN
    /\ req[c].step = "create"
    /\ changes' = IF changes[k].state = "absent"
                  THEN [changes EXCEPT ![k] = ChangeOf("open", req[c].base)]
                  ELSE changes
    /\ Done(c)
    /\ UNCHANGED <<bundle, pending, history, latest, archived>>

SubmitReads(c, k) == changes[k].state = "open" /\ Reads(c, "submit", k)

SubmitWrites(c) == Decides(c, "submit", "submitted")

RejectReads(c, k) == changes[k].state \in {"open", "submitted"} /\ Reads(c, "reject", k)

RejectWrites(c) == Decides(c, "reject", "rejected")

\* Mutant: the content is sealed without being consumed.
ConsumedNever(k) == pending

\* consume_skill_content
Consumed(k) == pending \ {k}

\* The savepoint of create_skill_version_snapshot: sync and claim the latest
\* marker, consume the content, insert the version.
Seals(k) ==
    /\ NewVersion(k)
    /\ k \in pending
    /\ pending' = Consumed(k)
    /\ history' = Append(history, k)
    /\ latest' = {bundle[k]}

\* Mutant: the digest is compared outside the transaction only.
ExpectedAny(c) == TRUE

\* _claim_latest_for_version: expected_latest_digest is still the latest.
ExpectedIsLatest(c) == req[c].digest = LatestDigest

\* accept_change_set: the state, the base and the expected digest (the caller
\* reviewed the latest version it read).
AcceptReads(c, k) ==
    /\ changes[k].state = "submitted"
    /\ changes[k].base = Len(history)
    /\ ~archived
    /\ Reads(c, "accept", k)

\* The change set is accepted and every other open one superseded.
AcceptWrites(c) ==
    LET k == req[c].content IN
    /\ req[c].step = "accept"
    /\ ExpectedIsLatest(c)
    /\ Seals(k)
    /\ changes' = [x \in Contents |->
         IF x = k THEN ChangeOf("accepted", changes[x].base)
         ELSE IF changes[x].state \in {"open", "submitted"} THEN ChangeOf("superseded", changes[x].base)
         ELSE changes[x]]
    /\ Done(c)
    /\ UNCHANGED <<bundle, archived>>

\* POST /skills/{id}/versions: a version without a change set.
SealReads(c, k) == k \in pending /\ NewVersion(k) /\ ~archived /\ Reads(c, "seal", k)

SealWrites(c) ==
    /\ req[c].step = "seal"
    /\ Seals(req[c].content)
    /\ Done(c)
    /\ UNCHANGED <<bundle, archived, changes>>

\* 409: the savepoint, or the lock it waits for, fails and rolls back.
Conflict(c) ==
    /\ req[c].step # "none"
    /\ Done(c)
    /\ UNCHANGED <<bundle, pending, history, latest, archived, changes>>

ArchiveSkill ==
    /\ ~archived
    /\ archived' = TRUE
    /\ UNCHANGED <<bundle, pending, history, latest, changes, req>>

Init ==
    /\ bundle \in [Contents -> Bundles]
    /\ pending = Contents
    /\ history = << >>
    /\ latest = {}
    /\ archived = FALSE
    /\ changes = [k \in Contents |-> ChangeOf("absent", 0)]
    /\ req = [c \in Clients |-> NoRequest]

Next ==
    \/ \E c \in Clients, k \in Contents :
         CreateReads(c, k) \/ SubmitReads(c, k) \/ RejectReads(c, k) \/ AcceptReads(c, k)
           \/ SealReads(c, k)
    \/ \E c \in Clients :
         CreateWrites(c) \/ SubmitWrites(c) \/ RejectWrites(c) \/ AcceptWrites(c)
           \/ SealWrites(c) \/ Conflict(c)
    \/ ArchiveSkill

Spec == Init /\ [][Next]_vars

-------------------------------------------------------------------------------
(* Properties *)

\* No lost update: the version of an accepted change set directly follows the
\* version the change set was based on, although accept_change_set compares
\* only digests in its transaction.
AcceptedFollowsBase ==
    \A k \in Contents : changes[k].state = "accepted" =>
        /\ changes[k].base < Len(history)
        /\ history[changes[k].base + 1] = k

\* The digest marker of the skill is that of its last version, and the version
\* strings of a skill are all different.
LatestIsLast ==
    /\ latest = LatestDigest
    /\ \A m, n \in 1 .. Len(history) :
         VersionOf(history[m]) = VersionOf(history[n]) => m = n

\* One-use contents: exactly the contents that are not pending are sealed.
SealedAreConsumed ==
    \A k \in Contents : k \in pending <=> \A n \in 1 .. Len(history) : history[n] # k

\* The history of a skill is what its change sets, contents and marker say it is.
HistoryIsSound == ChangesTypeOK /\ LatestIsLast /\ SealedAreConsumed
===============================================================================
