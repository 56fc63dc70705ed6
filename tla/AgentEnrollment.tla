---------------------------- MODULE AgentEnrollment ----------------------------
(***************************************************************************)
(* How an agent gets a name, an identity and a key: invitations, namespace  *)
(* reservations, enrollments, agent states, recovery and key rotation      *)
(* (server/modules/identity/agent_service.py and agent_lifecycle.py).      *)
(*                                                                         *)
(* Maintainers and agents send requests concurrently.  A handler reads     *)
(* rows outside any transaction; its first UPDATE or INSERT opens one, and *)
(* from there to the commit it is alone.  So each handler is a read step   *)
(* and a write step, and the write trusts what the read saw wherever the   *)
(* code does not compare again.  A handler that raises undoes its writes.  *)
(***************************************************************************)
EXTENDS Naturals, FiniteSets

CONSTANTS Clients,      \* concurrent requests
          Slugs,        \* agent names; a reservation and an agent per slug
          Invitations,  \* invitations, each with the nonce of the form that asked for it
          Keys,         \* API keys (their verifiers), never generated twice
          None          \* no such row

ASSUME EnrollmentAssumption == None \notin Slugs \cup Invitations \cup Keys

VARIABLES resv,  \* agent_namespace_reservations.state, by slug
          inv,   \* agent_invitations
          enr,   \* agent_enrollments, one per invitation
          agent, \* service_principals.state, by slug
          live,  \* unrevoked agent_token credentials of each agent
          spent, \* keys some client has generated
          req    \* what each request has read

enrollmentVars == <<resv, inv, enr, agent, live, spent, req>>

Invitation == [slug : Slugs \cup {None}, purpose : {"enroll", "recover"},
               state : {"absent", "open", "consumed", "revoked", "expired"},
               late : BOOLEAN]   \* expires_at has passed

InvitationRow(slug, purpose, state, late) ==
    [slug |-> slug, purpose |-> purpose, state |-> state, late |-> late]

Enrollment == [state : {"absent", "pending", "approved", "rejected"}, key : Keys \cup {None}]

EnrollmentRow(state, key) == [state |-> state, key |-> key]

Request == [step : {"none", "reserve", "invite", "late", "submit", "approve", "recover",
                    "reject", "release", "vacant", "rotate"},
            slug : Slugs \cup {None}, inv : Invitations \cup {None},
            purpose : {"enroll", "recover"},
            old : Keys \cup {None}, new : Keys \cup {None}]

Asks(step, slug, i, purpose, old, new) ==
    [step |-> step, slug |-> slug, inv |-> i, purpose |-> purpose, old |-> old, new |-> new]

NoRequest == Asks("none", None, None, "enroll", None, None)

\* Types of the rows and of the requests in flight.
EnrollmentTypeOK ==
    /\ resv \in [Slugs -> {"absent", "reserved", "claimed", "released"}]
    /\ inv \in [Invitations -> Invitation]
    /\ enr \in [Invitations -> Enrollment]
    /\ agent \in [Slugs -> {"absent", "active", "suspended", "revoked"}]
    /\ live \in [Slugs -> SUBSET Keys]
    /\ spent \subseteq Keys
    /\ req \in [Clients -> Request]

-------------------------------------------------------------------------------
(* Queries *)

\* A key nobody has generated; which one it is makes no difference.
Fresh(k) == k \notin spent /\ k = CHOOSE j \in Keys : j \notin spent

InvitationsOf(s) == {i \in Invitations : inv[i].slug = s}

\* active_invitation_for_reservation
Active(i) == inv[i].state = "open" /\ ~inv[i].late

\* Release asks for a decision on every enrollment of the reservation.
PendingOf(s) == {i \in InvitationsOf(s) : enr[i].state = "pending"}

Idle(c) == req[c].step = "none"

Done(c) == req' = [req EXCEPT ![c] = NoRequest]

AgentReads(c, r) ==
    /\ Idle(c)
    /\ req' = [req EXCEPT ![c] = r]

-------------------------------------------------------------------------------
(* Invitations *)

\* create_invitation up to its first write: the nonce is new and the slug is
\* free or reserved.
InviteReads(c, s, i) ==
    /\ inv[i].state = "absent"
    /\ resv[s] \in {"absent", "reserved"}
    /\ AgentReads(c, Asks(IF resv[s] = "absent" THEN "reserve" ELSE "invite", s, i, "enroll", None, None))
    /\ UNCHANGED <<resv, inv, enr, agent, live, spent>>

\* The reservation is inserted and committed by its savepoint; when another
\* request inserted it first, the code goes on without looking at its state.
InviteReserves(c) ==
    /\ req[c].step = "reserve"
    /\ resv' = [resv EXCEPT ![req[c].slug] = IF @ = "absent" THEN "reserved" ELSE @]
    /\ req' = [req EXCEPT ![c] = Asks("invite", req[c].slug, req[c].inv, "enroll", None, None)]
    /\ UNCHANGED <<inv, enr, agent, live, spent>>

\* create_recovery_invitation up to its first write.
RecoveryReads(c, s, i) ==
    /\ inv[i].state = "absent"
    /\ agent[s] \in {"active", "suspended"}
    /\ resv[s] = "claimed"
    /\ AgentReads(c, Asks("invite", s, i, "recover", None, None))
    /\ UNCHANGED <<resv, inv, enr, agent, live, spent>>

\* Mutant: neither the open invitation nor the unique index stops an insert.
MayInviteAlways(c) == inv[req[c].inv].state = "absent"

\* No unexpired open invitation, and the nonce is still new (unique index).
MayInvite(c) ==
    /\ inv[req[c].inv].state = "absent"
    /\ \A j \in InvitationsOf(req[c].slug) : ~Active(j)

\* The writing half of both: expire what is late, insert the new row.  A
\* conflict undoes both.
InviteWrites(c) ==
    /\ req[c].step = "invite"
    /\ inv' = IF MayInvite(c)
              THEN [j \in Invitations |->
                       CASE j = req[c].inv -> InvitationRow(req[c].slug, req[c].purpose, "open", FALSE)
                         [] j # req[c].inv /\ inv[j].slug = req[c].slug
                              /\ inv[j].state = "open" /\ inv[j].late
                              -> InvitationRow(inv[j].slug, inv[j].purpose, "expired", TRUE)
                         [] OTHER -> inv[j]]
              ELSE inv
    /\ Done(c)
    /\ UNCHANGED <<resv, enr, agent, live, spent>>

\* expires_at of an open invitation passes.
Lapses(i) ==
    /\ Active(i)
    /\ inv' = [inv EXCEPT ![i] = InvitationRow(@.slug, @.purpose, "open", TRUE)]
    /\ UNCHANGED <<resv, enr, agent, live, spent, req>>

\* revoke_invitation: one conditional UPDATE.
RevokeInvitation(i) ==
    /\ inv[i].state = "open"
    /\ inv' = [inv EXCEPT ![i] = InvitationRow(@.slug, @.purpose, "revoked", @.late)]
    /\ UNCHANGED <<resv, enr, agent, live, spent, req>>

-------------------------------------------------------------------------------
(* Enrollment *)

\* _find_invitation_by_token, for a client that has generated key k.  A late
\* invitation is marked, and the router's 410 answer commits the mark.
SubmitReads(c, i, k) ==
    /\ inv[i].state = "open"
    /\ Fresh(k)
    /\ spent' = spent \cup {k}
    /\ AgentReads(c, Asks(IF inv[i].late THEN "late" ELSE "submit", inv[i].slug, i, inv[i].purpose, None, k))
    /\ UNCHANGED <<resv, inv, enr, agent, live>>

\* The mark is written by id, over whatever the state has become.
SubmitMarksLate(c) ==
    /\ req[c].step = "late"
    /\ inv' = [inv EXCEPT ![req[c].inv] = InvitationRow(@.slug, @.purpose, "expired", TRUE)]
    /\ Done(c)
    /\ UNCHANGED <<resv, enr, agent, live, spent>>

\* submit_enrollment: the invitation is consumed if it is still active.
SubmitWrites(c) ==
    LET i == req[c].inv IN
    /\ req[c].step = "submit"
    /\ IF Active(i)
       THEN /\ inv' = [inv EXCEPT ![i] = InvitationRow(@.slug, @.purpose, "consumed", FALSE)]
            /\ enr' = [enr EXCEPT ![i] = EnrollmentRow("pending", req[c].new)]
       ELSE UNCHANGED <<inv, enr>>
    /\ Done(c)
    /\ UNCHANGED <<resv, agent, live, spent>>

\* decide_enrollment up to its first write: the enrollment is pending; to
\* approve, the reservation is free, or the agent to recover is not revoked.
DecideReads(c, i, step) ==
    /\ enr[i].state = "pending"
    /\ step = "approve" => inv[i].purpose = "enroll" /\ resv[inv[i].slug] = "reserved"
    /\ step = "recover" => inv[i].purpose = "recover" /\ agent[inv[i].slug] \in {"active", "suspended"}
    /\ AgentReads(c, Asks(step, inv[i].slug, i, inv[i].purpose, None, enr[i].key))
    /\ UNCHANGED <<resv, inv, enr, agent, live, spent>>

\* Mutant: the UPDATE forgets the state it expects.
UndecidedAny(c) == TRUE

\* The conditional UPDATE of all three decisions.
Undecided(c) == enr[req[c].inv].state = "pending"

Decide(c, state) == enr' = [enr EXCEPT ![req[c].inv] = EnrollmentRow(state, @.key)]

\* Mutant: the slug of service principals is not unique.
NameFreeAny(s) == TRUE

\* Unique (kind, slug) of principals.
NameFree(s) == agent[s] = "absent"

\* _approve_initial_enrollment: the agent, its key and the claim.
ApproveWrites(c) ==
    LET s == req[c].slug IN
    /\ req[c].step = "approve"
    /\ IF Undecided(c) /\ NameFree(s)
       THEN /\ Decide(c, "approved")
            /\ agent' = [agent EXCEPT ![s] = "active"]
            /\ live' = [live EXCEPT ![s] = @ \cup {req[c].new}]
            /\ resv' = [resv EXCEPT ![s] = "claimed"]
       ELSE UNCHANGED <<enr, agent, live, resv>>
    /\ Done(c)
    /\ UNCHANGED <<inv, spent>>

\* Mutant: the previous keys stay.
RecoveredKeepsOld(c) == live[req[c].slug] \cup {req[c].new}

\* revoke_principal_credentials, then the proposed key.
Recovered(c) == {req[c].new}

\* approve_recovery: the agent's state is not compared again.
RecoverWrites(c) ==
    /\ req[c].step = "recover"
    /\ IF Undecided(c)
       THEN /\ Decide(c, "approved")
            /\ live' = [live EXCEPT ![req[c].slug] = Recovered(c)]
       ELSE UNCHANGED <<enr, live>>
    /\ Done(c)
    /\ UNCHANGED <<resv, inv, agent, spent>>

\* _reject_enrollment
RejectWrites(c) ==
    /\ req[c].step = "reject"
    /\ IF Undecided(c) THEN Decide(c, "rejected") ELSE UNCHANGED enr
    /\ Done(c)
    /\ UNCHANGED <<resv, inv, agent, live, spent>>

-------------------------------------------------------------------------------
(* Reservations, agents and keys *)

\* release_reservation: three reads, then a write by id.
ReleaseReads(c, s) ==
    /\ resv[s] = "reserved"
    /\ AgentReads(c, Asks("release", s, None, "enroll", None, None))
    /\ UNCHANGED <<resv, inv, enr, agent, live, spent>>

\* No open invitation and no pending enrollment, or the request is refused.
ReleaseChecks(c) ==
    LET s == req[c].slug IN
    /\ req[c].step = "release"
    /\ req' = [req EXCEPT ![c] =
                  IF PendingOf(s) = {} /\ \A i \in InvitationsOf(s) : ~Active(i)
                  THEN Asks("vacant", s, None, "enroll", None, None) ELSE NoRequest]
    /\ UNCHANGED <<resv, inv, enr, agent, live, spent>>

ReleaseWrites(c) ==
    /\ req[c].step = "vacant"
    /\ resv' = [resv EXCEPT ![req[c].slug] = "released"]
    /\ Done(c)
    /\ UNCHANGED <<inv, enr, agent, live, spent>>

\* The transitions table of transition_agent.
Transition == [active |-> {"suspended", "revoked"}, suspended |-> {"active", "revoked"},
               revoked |-> {}, absent |-> {}]

\* Mutant: revoking an agent leaves its keys.
KeysAfterAlways(s, target) == live[s]

\* Mutant: the keys of a revoked agent are blanked, not revoked.
KeysAfterBlank(s, target) == IF target = "revoked" THEN {None} ELSE live[s]

\* revoke_principal_credentials, on revocation only.
KeysAfter(s, target) == IF target = "revoked" THEN {} ELSE live[s]

\* transition_agent: the UPDATE compares the state the handler read, so the
\* read and the write are one step.
TransitionAgent(s, target) ==
    /\ target \in Transition[agent[s]]
    /\ agent' = [agent EXCEPT ![s] = target]
    /\ live' = [live EXCEPT ![s] = KeysAfter(s, target)]
    /\ UNCHANGED <<resv, inv, enr, spent, req>>

\* rotate_agent_credential: a request authenticated with key old asks for new.
RotateReads(c, s, old, new) ==
    /\ agent[s] = "active"
    /\ old \in live[s]
    /\ Fresh(new)
    /\ spent' = spent \cup {new}
    /\ AgentReads(c, Asks("rotate", s, None, "enroll", old, new))
    /\ UNCHANGED <<resv, inv, enr, agent, live>>

\* Mutant: the old key is revoked whatever became of it.
StillPresentedAny(c) == TRUE

\* The compare-and-set on the presented credential; losing it undoes the insert.
StillPresented(c) == req[c].old \in live[req[c].slug]

RotateWrites(c) ==
    /\ req[c].step = "rotate"
    /\ live' = IF StillPresented(c)
               THEN [live EXCEPT ![req[c].slug] = (@ \ {req[c].old}) \cup {req[c].new}]
               ELSE live
    /\ Done(c)
    /\ UNCHANGED <<resv, inv, enr, agent, spent>>

-------------------------------------------------------------------------------
EnrollmentInit ==
    /\ resv = [s \in Slugs |-> "absent"]
    /\ inv = [i \in Invitations |-> InvitationRow(None, "enroll", "absent", FALSE)]
    /\ enr = [i \in Invitations |-> EnrollmentRow("absent", None)]
    /\ agent = [s \in Slugs |-> "absent"]
    /\ live = [s \in Slugs |-> {}]
    /\ spent = {}
    /\ req = [c \in Clients |-> NoRequest]

EnrollmentNext ==
    \/ \E c \in Clients :
          \/ \E s \in Slugs, i \in Invitations : InviteReads(c, s, i) \/ RecoveryReads(c, s, i)
          \/ InviteReserves(c) \/ InviteWrites(c)
          \/ \E i \in Invitations, k \in Keys : SubmitReads(c, i, k)
          \/ SubmitMarksLate(c) \/ SubmitWrites(c)
          \/ \E i \in Invitations, step \in {"approve", "recover", "reject"} : DecideReads(c, i, step)
          \/ ApproveWrites(c) \/ RecoverWrites(c) \/ RejectWrites(c)
          \/ \E s \in Slugs : ReleaseReads(c, s)
          \/ ReleaseChecks(c) \/ ReleaseWrites(c)
          \/ \E s \in Slugs, old, new \in Keys : RotateReads(c, s, old, new)
          \/ RotateWrites(c)
    \/ \E i \in Invitations : Lapses(i) \/ RevokeInvitation(i)
    \/ \E s \in Slugs, target \in {"active", "suspended", "revoked"} : TransitionAgent(s, target)

EnrollmentSpec == EnrollmentInit /\ [][EnrollmentNext]_enrollmentVars

-------------------------------------------------------------------------------
(* Properties *)

\* At most one key of an agent is live, whatever rotations, recoveries and
\* approvals race: rotate_agent_credential and approve_recovery replace the
\* key, they never add one.
OneLiveKey == \A s \in Slugs : \A k1, k2 \in live[s] : k1 = k2

\* A reservation has at most one open, unexpired invitation, although two
\* maintainers may both find none (create_invitation).
OneOpenInvitation ==
    \A i, j \in Invitations : Active(i) /\ Active(j) /\ inv[i].slug = inv[j].slug => i = j

\* The key proposed by an enrollment that was not approved never opens the
\* door: a rejection and an approval that race cannot both take effect.
UnapprovedKeyIsDead ==
    \A i \in Invitations, s \in Slugs : enr[i].key \in live[s] => enr[i].state = "approved"

\* Two enrollments of one reservation may both be pending and both be approved
\* by requests that found the reservation free: only one becomes the agent.
OneInitialApproval ==
    \A i, j \in Invitations :
        /\ enr[i].state = "approved" /\ enr[j].state = "approved"
        /\ inv[i].purpose = "enroll" /\ inv[j].purpose = "enroll"
        /\ inv[i].slug = inv[j].slug
        => i = j

\* Keys of an agent revoked by transition_agent are gone, except the one a
\* recovery read before the revocation may still install (approve_recovery
\* does not look at the state again); that one is the only one.
RevokedAgentKeys ==
    \A s \in Slugs : agent[s] = "revoked" =>
        \A k \in live[s] : \E i \in Invitations :
            enr[i] = EnrollmentRow("approved", k) /\ inv[i].purpose = "recover"

\* A decision is final: no later request changes an approved or rejected
\* enrollment, nor its key.
DecisionsAreFinal ==
    \A i \in Invitations : enr[i].state \in {"approved", "rejected"} => enr'[i] = enr[i]

\* What an agent's name and key are worth: one open invitation and one initial
\* approval per name, one live key per agent, none that was not approved, none
\* of a revoked agent except by a recovery that raced, and no decision changes.
EnrollmentIsSafe ==
    [][/\ (/\ EnrollmentTypeOK /\ OneLiveKey /\ OneOpenInvitation
           /\ UnapprovedKeyIsDead /\ OneInitialApproval /\ RevokedAgentKeys)'
       /\ DecisionsAreFinal]_enrollmentVars
===============================================================================
