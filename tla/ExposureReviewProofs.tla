------------------------- MODULE ExposureReviewProofs -------------------------
(***************************************************************************)
(* Proofs about exposures and reviews, for any number of concurrent        *)
(* requests, exposures and review cases.                                   *)
(***************************************************************************)
EXTENDS ExposureReview, TLAPS

\* Exposure e has a case some reviewer approved.
Approved(e) == \E k \in CasesOf(e) : "approve" \in decisions[k]

\* What a request relies on: its exposure exists once it has an id, its copy of
\* the review requirement is the row's, and a request about to activate a
\* blocking exposure has seen an approval, which no later step can take back.
RequestInv ==
    \A c \in Clients :
        /\ req[c].step \notin {"none", "insert"} => exposures[req[c].id].state # "absent"
        /\ req[c].step \in {"openCase", "settle"} => exposures[req[c].id].need = req[c].need
        /\ req[c].step = "setActive" /\ exposures[req[c].id].need = "blocking"
              => Approved(req[c].id)

\* A case's verdicts follow its state: none while it is open, and its state is
\* "approved" only by an approval.
VerdictInv ==
    \A k \in CaseIds :
        /\ cases[k].state = "approved" => "approve" \in decisions[k]
        /\ cases[k].state \in {"absent", "open"} => decisions[k] = {}

ApprovalInv ==
    /\ ReviewTypeOK
    /\ RequestInv
    /\ VerdictInv
    /\ BlockingNeedsApproval
    /\ OneDecisionPerCase

\* The initial state satisfies the inductive invariant.
LEMMA InitApproval == Init => ApprovalInv
  <1> SUFFICES ASSUME Init PROVE ApprovalInv
    OBVIOUS
  <1> USE DEF Init
  <1>1. 1 \in Ids
    BY ExposureAssumption DEF Ids
  <1>2. ReviewTypeOK
    <2>1. exposures \in [Ids -> Exposure]
      BY DEF Exposure, Audiences, Modes
    <2>2. cases \in [CaseIds -> Case]
      BY <1>1 DEF Case, Modes
    <2>3. NoRequest \in Request
      BY <1>1 DEF NoRequest, Asks, Request, Audiences, Modes
    <2>4. QED
      BY <2>1, <2>2, <2>3 DEF ReviewTypeOK
  <1>3. RequestInv
    BY DEF RequestInv, NoRequest, Asks
  <1>4. VerdictInv /\ BlockingNeedsApproval /\ OneDecisionPerCase
    BY DEF VerdictInv, BlockingNeedsApproval, OneDecisionPerCase
  <1>5. QED
    BY <1>2, <1>3, <1>4 DEF ApprovalInv

-------------------------------------------------------------------------------
(* Types *)

\* Every step of a request keeps the types.
LEMMA RequestType ==
    ASSUME ReviewTypeOK, NEW c \in Clients, RequestStep(c)
    PROVE  ReviewTypeOK'
  <1> USE ExposureAssumption
      DEF Ids, CaseIds, Audiences, Modes, Exposure, Case, Request, NoRequest, Asks,
          ReviewTypeOK
  <1>1. ASSUME NEW a \in Audiences, NEW m \in Modes, CreateReads(c, a, m) PROVE ReviewTypeOK'
    <2>1. Requirement(a, m) \in Modes
      BY DEF Requirement
    <2>2. QED
      BY <1>1, <2>1 DEF CreateReads
  <1>2. CASE CreateInserts(c)
    BY <1>2 DEF CreateInserts
  <1>3. CASE CreateOpensCase(c)
    BY <1>3 DEF CreateOpensCase, OpenReviewCase, Goto
  <1>4. CASE CreateSettles(c)
    BY <1>4 DEF CreateSettles, SetState, Reply
  <1>5. ASSUME NEW e \in Ids, ActivateReads(c, e) PROVE ReviewTypeOK'
    BY <1>5 DEF ActivateReads, Begin
  <1>6. ASSUME NEW e \in Ids, RevokeReads(c, e) PROVE ReviewTypeOK'
    BY <1>6 DEF RevokeReads, Begin
  <1>7. CASE ActivateChecks(c)
    BY <1>7 DEF ActivateChecks, Goto
  <1>8. CASE ActivateWrites(c)
    BY <1>8 DEF ActivateWrites, SetState, Reply
  <1>9. CASE RevokeFindsCase(c)
    BY <1>9 DEF RevokeFindsCase
  <1>10. CASE RevokeWrites(c)
    <2>1. exposures' \in [Ids -> Exposure]
      BY <1>10 DEF RevokeWrites, SetState
    <2>2. cases' \in [CaseIds -> Case]
      <3>1. CASE req[c].found = 0
        BY <1>10, <3>1 DEF RevokeWrites
      <3>2. CASE req[c].found # 0
        <4>1. PICK k \in CaseIds : k = req[c].found
          BY <3>2
        <4>2. [state |-> "closed", of |-> cases[k].of, mode |-> cases[k].mode] \in Case
          BY <4>1
        <4>3. cases' = [cases EXCEPT ![k] =
                          [state |-> "closed", of |-> cases[k].of, mode |-> cases[k].mode]]
          BY <1>10, <3>2, <4>1 DEF RevokeWrites, SetCase
        <4>4. QED
          BY <4>2, <4>3
      <3>3. QED
        BY <3>1, <3>2
    <2>3. QED
      BY <1>10, <2>1, <2>2 DEF RevokeWrites, Reply
  <1>11. CASE RequestFails(c)
    BY <1>11 DEF RequestFails, Reply
  <1>12. QED
    BY <1>1, <1>2, <1>3, <1>4, <1>5, <1>6, <1>7, <1>8, <1>9, <1>10, <1>11 DEF RequestStep

\* Every step keeps the types.
LEMMA StepType == ReviewTypeOK /\ [Next]_vars => ReviewTypeOK'
  <1> SUFFICES ASSUME ReviewTypeOK, [Next]_vars PROVE ReviewTypeOK'
    OBVIOUS
  <1> USE ExposureAssumption
  <1>1. CASE \E c \in Clients : RequestStep(c)
    BY <1>1, RequestType
  <1>2. ASSUME NEW e \in Ids, CreateReviewCase(e) PROVE ReviewTypeOK'
    <2>1. PICK mode \in Modes : OpenReviewCase(e, mode)
      BY <1>2 DEF CreateReviewCase, ReviewTypeOK, Exposure, Modes
    <2>2. cases' \in [CaseIds -> Case]
      BY <2>1 DEF OpenReviewCase, ReviewTypeOK, Case
    <2>3. QED
      BY <1>2, <2>2 DEF CreateReviewCase, ReviewTypeOK
  <1>3. ASSUME NEW k \in CaseIds, NEW v \in {"approve", "reject"}, RecordDecision(k, v)
        PROVE ReviewTypeOK'
    <2>1. cases' \in [CaseIds -> Case]
      BY <1>3 DEF RecordDecision, SetCase, ReviewTypeOK, Case
    <2>2. exposures' \in [Ids -> Exposure]
      BY <1>3 DEF RecordDecision, SetState, ReviewTypeOK, Exposure
    <2>3. decisions' \in [CaseIds -> SUBSET {"approve", "reject"}]
      BY <1>3 DEF RecordDecision, ReviewTypeOK
    <2>4. QED
      BY <1>3, <2>1, <2>2, <2>3 DEF RecordDecision, ReviewTypeOK
  <1>4. CASE AgentPublishes
    BY <1>4 DEF AgentPublishes, ReviewTypeOK, Ids, Exposure, Modes, Audiences
  <1>5. CASE ReleaseChanges
    BY <1>5 DEF ReleaseChanges, ReviewTypeOK
  <1>6. CASE UNCHANGED vars
    BY <1>6 DEF vars, ReviewTypeOK
  <1>7. QED
    BY <1>1, <1>2, <1>3, <1>4, <1>5, <1>6 DEF Next

\* Type correctness of the exposure and review tables and of every request.
THEOREM ReviewTypeCorrect == Spec => []ReviewTypeOK
  <1>1. Init => ReviewTypeOK
    BY InitApproval DEF ApprovalInv
  <1>2. QED
    BY <1>1, StepType, PTL DEF Spec

-------------------------------------------------------------------------------
(* Reviews *)

(* An approval is never taken back: cases keep their exposure, decisions are   *)
(* only added, and an exposure's requirement is fixed once its row exists.     *)
LEMMA ApprovalKept ==
    ASSUME ApprovalInv, ReviewTypeOK', [Next]_vars, NEW e \in Ids
    PROVE  /\ Approved(e) => Approved(e)'
           /\ exposures[e].state # "absent" =>
                 exposures'[e].state # "absent" /\ exposures'[e].need = exposures[e].need
  <1> USE DEF ApprovalInv, ReviewTypeOK, Approved, CasesOf, Exposure, Case
  <1>1. ASSUME NEW c \in Clients, RequestStep(c)
        PROVE  /\ \A k \in CasesOf(e) : k \in CasesOf(e)' /\ decisions'[k] = decisions[k]
               /\ exposures[e].state # "absent" =>
                     exposures'[e].state # "absent" /\ exposures'[e].need = exposures[e].need
    <2>1. CASE \E a \in Audiences, m \in Modes : CreateReads(c, a, m)
      BY <2>1 DEF CreateReads
    <2>2. CASE CreateInserts(c)
      BY <2>2 DEF CreateInserts, NextExposure
    <2>3. CASE CreateOpensCase(c)
      BY <2>3 DEF CreateOpensCase, OpenReviewCase, NextCase
    <2>4. CASE CreateSettles(c)
      BY <2>4 DEF CreateSettles, SetState
    <2>5. CASE \E x \in Ids : ActivateReads(c, x) \/ RevokeReads(c, x)
      BY <2>5 DEF ActivateReads, RevokeReads
    <2>6. CASE ActivateChecks(c) \/ RevokeFindsCase(c) \/ RequestFails(c)
      BY <2>6 DEF ActivateChecks, RevokeFindsCase, RequestFails
    <2>7. CASE ActivateWrites(c)
      BY <2>7 DEF ActivateWrites, SetState
    <2>8. CASE RevokeWrites(c)
      BY <2>8 DEF RevokeWrites, SetState, SetCase
    <2>9. QED
      BY <1>1, <2>1, <2>2, <2>3, <2>4, <2>5, <2>6, <2>7, <2>8 DEF RequestStep
  <1>2. CASE \E c \in Clients : RequestStep(c)
    BY <1>1, <1>2
  <1>3. ASSUME NEW x \in Ids, CreateReviewCase(x)
        PROVE  (Approved(e) => Approved(e)') /\ exposures'[e] = exposures[e]
    BY <1>3 DEF CreateReviewCase, OpenReviewCase, NextCase
  <1>4. ASSUME NEW k \in CaseIds, NEW v \in {"approve", "reject"}, RecordDecision(k, v)
        PROVE  /\ Approved(e) => Approved(e)'
               /\ exposures[e].state # "absent" =>
                     exposures'[e].state # "absent" /\ exposures'[e].need = exposures[e].need
    BY <1>4 DEF RecordDecision, SetCase, SetState
  <1>5. CASE AgentPublishes
    BY <1>5 DEF AgentPublishes, NextExposure
  <1>6. CASE ReleaseChanges \/ UNCHANGED vars
    BY <1>6 DEF ReleaseChanges, vars
  <1>7. QED
    BY <1>2, <1>3, <1>4, <1>5, <1>6 DEF Next

(* A row that is not written keeps what BlockingNeedsApproval says of it, and  *)
(* neither do the writes that leave it inactive disturb it.                    *)
LEMMA StillApproved ==
    ASSUME ApprovalInv, ReviewTypeOK', [Next]_vars, NEW e \in Ids,
           exposures'[e] = exposures[e] \/ exposures'[e].state # "active"
               \/ exposures'[e].need # "blocking" \/ Approved(e)
    PROVE  exposures'[e].state = "active" /\ exposures'[e].need = "blocking" => Approved(e)'
  BY ApprovalKept DEF ApprovalInv, BlockingNeedsApproval, Approved

(* What the other requests rely on survives a step that leaves them alone.     *)
LEMMA OthersKept ==
    ASSUME ApprovalInv, ReviewTypeOK', [Next]_vars, NEW c \in Clients, req'[c] = req[c]
    PROVE  /\ req'[c].step \notin {"none", "insert"} => exposures'[req'[c].id].state # "absent"
           /\ req'[c].step \in {"openCase", "settle"} =>
                 exposures'[req'[c].id].need = req'[c].need
           /\ req'[c].step = "setActive" /\ exposures'[req'[c].id].need = "blocking"
                 => Approved(req[c].id)'
  <1>1. req[c].id \in Ids
    BY DEF ApprovalInv, ReviewTypeOK, Request
  <1>2. PICK e \in Ids : e = req[c].id
    BY <1>1
  <1>3. /\ Approved(e) => Approved(e)'
        /\ exposures[e].state # "absent" =>
              exposures'[e].state # "absent" /\ exposures'[e].need = exposures[e].need
    BY ApprovalKept
  <1>4. /\ req[c].step \notin {"none", "insert"} => exposures[e].state # "absent"
        /\ req[c].step \in {"openCase", "settle"} => exposures[e].need = req[c].need
        /\ req[c].step = "setActive" /\ exposures[e].need = "blocking" => Approved(e)
    BY <1>2 DEF ApprovalInv, RequestInv, Approved
  <1>5. Approved(req[c].id)' <=> Approved(e)'
    BY <1>2 DEF Approved
  <1>6. QED
    BY <1>2, <1>3, <1>4, <1>5

\* Every step of a request keeps the blocking-review rule and what requests have read.
LEMMA RequestReview ==
    ASSUME ApprovalInv, ReviewTypeOK', NEW c \in Clients, RequestStep(c)
    PROVE  RequestInv' /\ BlockingNeedsApproval'
  <1>1. Next
    BY DEF Next
  <1>2. \A d \in Clients \ {c} : req'[d] = req[d]
    BY DEF ApprovalInv, ReviewTypeOK, RequestStep, CreateReads, CreateInserts, CreateOpensCase,
           CreateSettles, ActivateReads, RevokeReads, ActivateChecks, ActivateWrites,
           RevokeFindsCase, RevokeWrites, RequestFails, Begin, Goto, Reply
  <1>3. PICK e \in Ids : e = req[c].id
    BY DEF ApprovalInv, ReviewTypeOK, Request
  <1>4. /\ req[c].step \notin {"none", "insert"} => exposures[e].state # "absent"
        /\ req[c].step \in {"openCase", "settle"} => exposures[e].need = req[c].need
        /\ req[c].step = "setActive" /\ exposures[e].need = "blocking" => Approved(e)
    BY <1>3 DEF ApprovalInv, RequestInv
  <1> DEFINE Own ==
        /\ req'[c].step \notin {"none", "insert"} => exposures'[req'[c].id].state # "absent"
        /\ req'[c].step \in {"openCase", "settle"} =>
              exposures'[req'[c].id].need = req'[c].need
        /\ req'[c].step = "setActive" /\ exposures'[req'[c].id].need = "blocking"
              => Approved(req[c].id)'
        Rows == \A x \in Ids :
            exposures'[x] = exposures[x] \/ exposures'[x].state # "active"
               \/ exposures'[x].need # "blocking" \/ Approved(x)
  <1>5. SUFFICES Own /\ Rows
    BY <1>1, <1>2, OthersKept, StillApproved
       DEF RequestInv, BlockingNeedsApproval, Approved
  <1> USE DEF ApprovalInv, ReviewTypeOK, Exposure, Request, NoRequest, Asks
  <1>6. CASE \E a \in Audiences, m \in Modes : CreateReads(c, a, m)
    BY <1>6 DEF CreateReads
  <1>7. CASE CreateInserts(c)
    BY <1>7 DEF CreateInserts
  <1>8. CASE CreateOpensCase(c)
    BY <1>3, <1>4, <1>8 DEF CreateOpensCase, Goto
  <1>9. CASE CreateSettles(c)
    BY <1>3, <1>4, <1>9 DEF CreateSettles, SetState, Reply
  <1>10. CASE \E x \in Ids : ActivateReads(c, x) \/ RevokeReads(c, x)
    BY <1>10 DEF ActivateReads, RevokeReads, Begin
  <1>11. CASE ActivateChecks(c)
    <2>1. exposures[e].need = "blocking" => Approved(e)
      BY <1>3, <1>11 DEF ActivateChecks, LatestCaseApproved, VerdictInv, Approved, CasesOf
    <2>2. Approved(req[c].id)' <=> Approved(e)
      BY <1>3, <1>11 DEF ActivateChecks, Goto, Approved, CasesOf
    <2>3. QED
      BY <1>3, <1>4, <1>11, <2>1, <2>2 DEF ActivateChecks, Goto
  <1>12. CASE ActivateWrites(c)
    BY <1>3, <1>4, <1>12 DEF ActivateWrites, SetState, Reply
  <1>13. CASE RevokeFindsCase(c)
    BY <1>3, <1>4, <1>13 DEF RevokeFindsCase
  <1>14. CASE RevokeWrites(c)
    BY <1>3, <1>14 DEF RevokeWrites, SetState, Reply
  <1>15. CASE RequestFails(c)
    BY <1>15 DEF RequestFails, Reply
  <1>16. QED
    BY <1>6, <1>7, <1>8, <1>9, <1>10, <1>11, <1>12, <1>13, <1>14, <1>15 DEF RequestStep

\* Every step keeps a case's verdicts in line with its state.
LEMMA StepVerdict ==
    ASSUME ApprovalInv, ReviewTypeOK', [Next]_vars
    PROVE  VerdictInv' /\ OneDecisionPerCase'
  <1> USE DEF ApprovalInv, ReviewTypeOK, VerdictInv, OneDecisionPerCase, Case
  <1>1. CASE UNCHANGED <<cases, decisions>>
    BY <1>1
  <1>2. ASSUME UNCHANGED decisions, NEW e \in Ids, NEW mode \in Modes, OpenReviewCase(e, mode)
        PROVE  VerdictInv' /\ OneDecisionPerCase'
    BY <1>2 DEF OpenReviewCase, NextCase
  <1>3. ASSUME NEW c \in Clients, RevokeWrites(c)
        PROVE  VerdictInv' /\ OneDecisionPerCase'
    BY <1>3 DEF RevokeWrites, SetCase
  <1>4. ASSUME NEW k \in CaseIds, NEW v \in {"approve", "reject"}, RecordDecision(k, v)
        PROVE  VerdictInv' /\ OneDecisionPerCase'
    <2>1. decisions[k] = {}
      BY <1>4 DEF RecordDecision
    <2>2. decisions'[k] = {v}
      BY <1>4, <2>1 DEF RecordDecision
    <2>3. /\ cases'[k].state \in {"approved", "rejected"}
          /\ cases'[k].state = "approved" => v = "approve"
      BY <1>4 DEF RecordDecision, SetCase
    <2>4. \A x \in CaseIds \ {k} : cases'[x] = cases[x] /\ decisions'[x] = decisions[x]
      BY <1>4 DEF RecordDecision, SetCase
    <2>5. VerdictInv'
      BY <2>2, <2>3, <2>4
    <2>6. decisions'[k] # {"approve", "reject"}
      <3>1. ~("approve" \in {v} /\ "reject" \in {v})
        OBVIOUS
      <3>2. QED
        BY <2>2, <3>1, Zenon
    <2>7. QED
      BY <2>4, <2>5, <2>6
  <1>5. ASSUME NEW c \in Clients, RequestStep(c)
        PROVE  VerdictInv' /\ OneDecisionPerCase'
    <2>1. CASE CreateOpensCase(c)
      BY <2>1, <1>2 DEF CreateOpensCase, Request
    <2>2. CASE RevokeWrites(c)
      BY <2>2, <1>3
    <2>3. QED
      BY <1>1, <1>5, <2>1, <2>2
         DEF RequestStep, CreateReads, CreateInserts, CreateSettles, ActivateReads, RevokeReads,
             ActivateChecks, ActivateWrites, RevokeFindsCase, RequestFails
  <1>6. ASSUME NEW e \in Ids, CreateReviewCase(e)
        PROVE  VerdictInv' /\ OneDecisionPerCase'
    BY <1>2, <1>6 DEF CreateReviewCase, Exposure, Modes
  <1>7. QED
    BY <1>1, <1>4, <1>5, <1>6 DEF Next, vars, AgentPublishes, ReleaseChanges

\* The invariant is inductive.
LEMMA StepApproval == ApprovalInv /\ [Next]_vars => ApprovalInv'
  <1> SUFFICES ASSUME ApprovalInv, [Next]_vars PROVE ApprovalInv'
    OBVIOUS
  <1>1. ReviewTypeOK'
    BY StepType DEF ApprovalInv
  <1>2. VerdictInv' /\ OneDecisionPerCase'
    BY <1>1, StepVerdict
  <1>3. RequestInv' /\ BlockingNeedsApproval'
    <2>1. CASE \E c \in Clients : RequestStep(c)
      BY <1>1, <2>1, RequestReview
    <2>2. CASE UNCHANGED req /\ \A x \in Ids :
              exposures'[x] = exposures[x] \/ exposures'[x].state # "active"
               \/ exposures'[x].need # "blocking" \/ Approved(x)
      BY <1>1, <2>2, OthersKept, StillApproved DEF RequestInv, BlockingNeedsApproval, Approved
    <2>3. ASSUME NEW k \in CaseIds, NEW v \in {"approve", "reject"}, RecordDecision(k, v)
          PROVE  RequestInv' /\ BlockingNeedsApproval'
      <3>1. RequestInv'
        BY <1>1, <2>3, OthersKept DEF Next, RecordDecision, RequestInv
      <3>2. \A x \in Ids : x # cases[k].of => exposures'[x] = exposures[x]
        BY <2>3 DEF RecordDecision, SetState, ApprovalInv, ReviewTypeOK
      <3>3. exposures'[cases[k].of] = exposures[cases[k].of]
              \/ exposures'[cases[k].of].state # "active" \/ Approved(cases[k].of)'
        <4>1. CASE v = "approve"
          BY <2>3, <4>1 DEF RecordDecision, SetCase, ApprovalInv, ReviewTypeOK, Case, Approved, CasesOf
        <4>2. CASE v = "reject"
          BY <2>3, <4>2 DEF RecordDecision, SetState, ApprovalInv, ReviewTypeOK, Case
        <4>3. QED
          BY <4>1, <4>2
      <3>4. ASSUME NEW x \in Ids
            PROVE  exposures'[x].state = "active" /\ exposures'[x].need = "blocking" => Approved(x)'
        <4>1. CASE exposures'[x] = exposures[x] \/ exposures'[x].state # "active"
          BY <1>1, <4>1, StillApproved
        <4>2. CASE x = cases[k].of /\ Approved(cases[k].of)'
          <5>1. cases'[k].of = cases[k].of
            BY <2>3 DEF RecordDecision, SetCase, ApprovalInv, ReviewTypeOK
          <5>2. QED
            BY <4>2, <5>1 DEF Approved
        <4>3. QED
          BY <3>2, <3>3, <4>1, <4>2
      <3>5. QED
        BY <3>1, <3>4 DEF BlockingNeedsApproval, Approved
    <2>4. CASE AgentPublishes
      BY <2>2, <2>4 DEF AgentPublishes, ApprovalInv, ReviewTypeOK
    <2>5. CASE ReleaseChanges \/ UNCHANGED vars \/ \E e \in Ids : CreateReviewCase(e)
      BY <2>2, <2>5 DEF ReleaseChanges, vars, CreateReviewCase
    <2>6. QED
      BY <2>1, <2>3, <2>4, <2>5 DEF Next
  <1>4. QED
    BY <1>1, <1>2, <1>3 DEF ApprovalInv

\* No exposure that requires a blocking review is ever active without a recorded
\* approval, for any number of racing requests and reviewers.
THEOREM BlockingCorrect == Spec => []BlockingNeedsApproval
  <1>1. ApprovalInv => BlockingNeedsApproval
    BY DEF ApprovalInv
  <1>2. QED
    BY <1>1, InitApproval, StepApproval, PTL DEF Spec

\* No case is both approved and rejected.
THEOREM DecisionCorrect == Spec => []OneDecisionPerCase
  <1>1. ApprovalInv => OneDecisionPerCase
    BY DEF ApprovalInv
  <1>2. QED
    BY <1>1, InitApproval, StepApproval, PTL DEF Spec
================================================================================
