---------------------------- MODULE ExposureReview ----------------------------
(***************************************************************************)
(* Who may see a release: its exposures and their review cases             *)
(* (server/modules/exposure, server/modules/review).                       *)
(*                                                                         *)
(* A handler reads outside any transaction and writes later, the sessions  *)
(* do not autoflush, and the savepoints of create_exposure commit when     *)
(* nothing was written before them.  So every handler is its reads, kept   *)
(* in req, and the writes they lead to; only record_decision compares and  *)
(* swaps.  All exposures here belong to one release.  patch_exposure,      *)
(* which changes only listing and install modes, is left out.              *)
(***************************************************************************)
EXTENDS Naturals

CONSTANTS Clients,       \* concurrent requests
          MaxExposures,  \* bound on exposure rows
          MaxCases       \* bound on review cases

ASSUME ExposureAssumption == MaxExposures \in Nat \ {0} /\ MaxCases \in Nat \ {0}

VARIABLES ready,      \* releases.state = "ready"
          exposures,  \* the exposures table
          cases,      \* the review_cases table
          decisions,  \* verdicts in review_decisions, per case
          req         \* what each request has read

vars == <<ready, exposures, cases, decisions, req>>

Ids == 1 .. MaxExposures

CaseIds == 1 .. MaxCases

Audiences == {"public", "grant", "authenticated", "private"}

Modes == {"none", "advisory", "blocking"}

Exposure == [state : {"absent", "pending_policy", "review_open", "active", "revoked", "rejected"},
             audience : Audiences, need : Modes]

Case == [state : {"absent", "open", "approved", "rejected", "closed"}, of : Ids, mode : Modes]

\* What the request will do next; id is its exposure, found the open case
\* revoke_exposure read (0: none).
Request == [step : {"none", "insert", "openCase", "settle", "check", "setActive",
                    "findCase", "setRevoked"},
            id : Ids, audience : Audiences, need : Modes, found : CaseIds \cup {0}]

Asks(step, id, audience, need, found) ==
    [step |-> step, id |-> id, audience |-> audience, need |-> need, found |-> found]

NoRequest == Asks("none", 1, "private", "none", 0)

ReviewTypeOK ==
    /\ ready \in BOOLEAN
    /\ exposures \in [Ids -> Exposure]
    /\ cases \in [CaseIds -> Case]
    /\ decisions \in [CaseIds -> SUBSET {"approve", "reject"}]
    /\ req \in [Clients -> Request]

-------------------------------------------------------------------------------
(* The tables *)

Closed(e) == exposures[e].state \in {"revoked", "rejected"}

Open(e) == exposures[e].state \notin {"absent", "revoked", "rejected"}

\* uq_exposures_open_release_audience lets e be open.
MayBeOpen(e, audience) ==
    \A x \in Ids \ {e} : Open(x) => exposures[x].audience # audience

NextExposure(e) == /\ exposures[e].state = "absent"
                   /\ \A x \in Ids : x < e => exposures[x].state # "absent"

NextCase(k) == /\ cases[k].state = "absent"
               /\ \A x \in CaseIds : x < k => cases[x].state # "absent"

CasesOf(e) == {k \in CaseIds : cases[k].state # "absent" /\ cases[k].of = e}

OpenCasesOf(e) == {k \in CasesOf(e) : cases[k].state = "open"}

\* Mutant: any latest case will do.
LatestCaseDecided(e) == \E k \in CasesOf(e) : \A x \in CasesOf(e) : x <= k

LatestCaseApproved(e) ==
    \E k \in CasesOf(e) : cases[k].state = "approved" /\ \A x \in CasesOf(e) : x <= k

SetState(e, s) ==
    exposures' = [exposures EXCEPT ![e] =
        [state |-> s, audience |-> @.audience, need |-> @.need]]

SetCase(k, s) ==
    cases' = [cases EXCEPT ![k] = [state |-> s, of |-> @.of, mode |-> @.mode]]

\* Mutant: a requirement the table does not know.
RequirementUnknown(audience, requested) == "required"

\* evaluate_exposure_policy: public is always blocking, grant as requested.
Requirement(audience, requested) ==
    CASE audience = "public" -> "blocking"
      [] audience = "grant" -> requested
      [] OTHER -> "none"

\* open_review_case: an open case is reused (uq_review_cases_open_exposure).
OpenReviewCase(e, mode) ==
    IF OpenCasesOf(e) # {}
    THEN UNCHANGED cases
    ELSE \E k \in CaseIds :
           /\ NextCase(k)
           /\ cases' = [cases EXCEPT ![k] = [state |-> "open", of |-> e, mode |-> mode]]

-------------------------------------------------------------------------------
(* Requests *)

Goto(c, step) ==
    req' = [req EXCEPT ![c] = Asks(step, @.id, @.audience, @.need, @.found)]

Begin(c, step, e) ==
    /\ req[c].step = "none"
    /\ req' = [req EXCEPT ![c] = Asks(step, e, "private", "none", 0)]

Reply(c) == req' = [req EXCEPT ![c] = NoRequest]

CreateReads(c, audience, requested) ==
    /\ req[c].step = "none"
    /\ ready
    /\ MayBeOpen(0, audience)
    /\ req' = [req EXCEPT ![c] =
           Asks("insert", 1, audience, Requirement(audience, requested), 0)]
    /\ UNCHANGED <<ready, exposures, cases, decisions>>

\* _persist_new_exposure: the row is committed by its savepoint.
CreateInserts(c) ==
    /\ req[c].step = "insert"
    /\ \E e \in Ids :
         /\ NextExposure(e)
         /\ MayBeOpen(e, req[c].audience)
         /\ exposures' = [exposures EXCEPT ![e] = [state |-> "pending_policy",
                              audience |-> req[c].audience, need |-> req[c].need]]
         /\ req' = [req EXCEPT ![c] =
                Asks(IF @.need = "none" THEN "settle" ELSE "openCase", e, @.audience, @.need, 0)]
    /\ UNCHANGED <<ready, cases, decisions>>

\* ... and so is the review case.
CreateOpensCase(c) ==
    /\ req[c].step = "openCase"
    /\ OpenReviewCase(req[c].id, req[c].need)
    /\ Goto(c, "settle")
    /\ UNCHANGED <<ready, exposures, decisions>>

\* The state is written over whatever the row says by now.
CreateSettles(c) ==
    /\ req[c].step = "settle"
    /\ MayBeOpen(req[c].id, exposures[req[c].id].audience)
    /\ SetState(req[c].id, IF req[c].need = "blocking" THEN "review_open" ELSE "active")
    /\ Reply(c)
    /\ UNCHANGED <<ready, cases, decisions>>

ActivateReads(c, e) ==
    /\ exposures[e].state \in {"pending_policy", "review_open"}
    /\ Begin(c, "check", e)
    /\ UNCHANGED <<ready, exposures, cases, decisions>>

ActivateChecks(c) ==
    /\ req[c].step = "check"
    /\ exposures[req[c].id].need = "blocking" =>
          OpenCasesOf(req[c].id) = {} /\ LatestCaseApproved(req[c].id)
    /\ Goto(c, "setActive")
    /\ UNCHANGED <<ready, exposures, cases, decisions>>

ActivateWrites(c) ==
    /\ req[c].step = "setActive"
    /\ MayBeOpen(req[c].id, exposures[req[c].id].audience)
    /\ SetState(req[c].id, "active")
    /\ Reply(c)
    /\ UNCHANGED <<ready, cases, decisions>>

RevokeReads(c, e) ==
    /\ exposures[e].state \notin {"absent", "revoked"}
    /\ Begin(c, "findCase", e)
    /\ UNCHANGED <<ready, exposures, cases, decisions>>

RevokeFindsCase(c) ==
    /\ req[c].step = "findCase"
    /\ \E k \in CaseIds \cup {0} :
         /\ IF OpenCasesOf(req[c].id) = {} THEN k = 0 ELSE k \in OpenCasesOf(req[c].id)
         /\ req' = [req EXCEPT ![c] = Asks("setRevoked", @.id, @.audience, @.need, k)]
    /\ UNCHANGED <<ready, exposures, cases, decisions>>

RevokeWrites(c) ==
    /\ req[c].step = "setRevoked"
    /\ SetState(req[c].id, "revoked")
    /\ IF req[c].found = 0 THEN UNCHANGED cases ELSE SetCase(req[c].found, "closed")
    /\ Reply(c)
    /\ UNCHANGED <<ready, decisions>>

\* The request ends with a conflict, an integrity error or a lost connection.
RequestFails(c) ==
    /\ req[c].step # "none"
    /\ Reply(c)
    /\ UNCHANGED <<ready, exposures, cases, decisions>>

\* POST /exposures/{id}/review-cases, for an exposure in any state.
CreateReviewCase(e) ==
    /\ exposures[e].state # "absent"
    /\ OpenCasesOf(e) = {}
    /\ \E mode \in {"advisory", "blocking", exposures[e].need} : OpenReviewCase(e, mode)
    /\ UNCHANGED <<ready, exposures, decisions, req>>

\* Mutant: the case is read, but not compared and swapped.
RecordsDecisionUnchecked(k, verdict) ==
    /\ cases[k].state # "absent"
    /\ decisions' = [decisions EXCEPT ![k] = @ \cup {verdict}]
    /\ UNCHANGED <<ready, exposures, cases, req>>

\* record_decision; a comment leaves all of this as it is.
RecordDecision(k, verdict) ==
    /\ cases[k].state = "open"
    /\ SetCase(k, IF verdict = "approve" THEN "approved" ELSE "rejected")
    /\ decisions' = [decisions EXCEPT ![k] = @ \cup {verdict}]
    /\ \/ /\ cases[k].mode # "blocking"
          /\ UNCHANGED exposures
       \/ /\ cases[k].mode = "blocking" /\ verdict = "approve"
          /\ MayBeOpen(cases[k].of, exposures[cases[k].of].audience)
          /\ SetState(cases[k].of, "active")
       \/ /\ cases[k].mode = "blocking" /\ verdict = "reject"
          /\ SetState(cases[k].of, "rejected")
    /\ UNCHANGED <<ready, req>>

\* finalize_publish_intent makes the release public without a review.
AgentPublishes ==
    /\ ready
    /\ \E e \in Ids :
         /\ NextExposure(e)
         /\ MayBeOpen(e, "public")
         /\ exposures' = [exposures EXCEPT ![e] =
                [state |-> "active", audience |-> "public", need |-> "none"]]
    /\ UNCHANGED <<ready, cases, decisions, req>>

\* Materialization finishes, or a later one fails for good.
ReleaseChanges ==
    /\ ready' = ~ready
    /\ UNCHANGED <<exposures, cases, decisions, req>>

-------------------------------------------------------------------------------
Init ==
    /\ ready = FALSE
    /\ exposures = [e \in Ids |-> [state |-> "absent", audience |-> "private", need |-> "none"]]
    /\ cases = [k \in CaseIds |-> [state |-> "absent", of |-> 1, mode |-> "none"]]
    /\ decisions = [k \in CaseIds |-> {}]
    /\ req = [c \in Clients |-> NoRequest]

RequestStep(c) ==
    \/ \E a \in Audiences, m \in Modes : CreateReads(c, a, m)
    \/ CreateInserts(c) \/ CreateOpensCase(c) \/ CreateSettles(c)
    \/ \E e \in Ids : ActivateReads(c, e) \/ RevokeReads(c, e)
    \/ ActivateChecks(c) \/ ActivateWrites(c)
    \/ RevokeFindsCase(c) \/ RevokeWrites(c)
    \/ RequestFails(c)

Next ==
    \/ \E c \in Clients : RequestStep(c)
    \/ \E e \in Ids : CreateReviewCase(e)
    \/ \E k \in CaseIds, v \in {"approve", "reject"} : RecordDecision(k, v)
    \/ AgentPublishes
    \/ ReleaseChanges

Spec == Init /\ [][Next]_vars

-------------------------------------------------------------------------------
(* Properties *)

\* docs/guide/control-plane-business-flows.md: an exposure that requires a
\* blocking review is active only after a reviewer approved one of its cases,
\* whichever stale read or half-committed creation the write came from.  The
\* case row itself does not show this: a racing revoke may have closed it.
BlockingNeedsApproval ==
    \A e \in Ids :
        exposures[e].state = "active" /\ exposures[e].need = "blocking"
            => \E k \in CasesOf(e) : "approve" \in decisions[k]

\* Two reviewers never both decide a case (record_decision's conditional
\* UPDATE), even when a revoke rewrites its state in between.
OneDecisionPerCase ==
    \A k \in CaseIds : decisions[k] # {"approve", "reject"}

\* docs/reference/error-catalog.md: "closed exposure cannot be re-activated",
\* "Create a new exposure" - at least while no other request is under way.
ClosedStaysClosed ==
    [][\A e \in Ids :
          Closed(e) /\ (\A c \in Clients : req[c].step = "none")
              => exposures'[e].state \in {"revoked", "rejected"}]_vars

================================================================================
