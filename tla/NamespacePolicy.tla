---------------------------- MODULE NamespacePolicy ----------------------------
(***************************************************************************)
(* Who may publish under which name (src/infinitas_skill/policy:           *)
(* skill_identity.py, team_policy.py).                                     *)
(***************************************************************************)
EXTENDS Integers, FiniteSets

\* A publisher entry resolved against the teams: t maps a team to its members
\* and delegates (_resolve_publisher_entry, expand_team_refs).
TeamActors(t, teams) == UNION {t[x] : x \in teams \cap DOMAIN t}

ResolvedOwners(entry, t) == entry.owners \cup TeamActors(t, entry.ownerTeams)

ResolvedMaintainers(entry, t) ==
    ResolvedOwners(entry, t) \cup entry.maintainers \cup TeamActors(t, entry.maintainerTeams)

\* Actors named one by one replace the delegation to maintainers and teams.
Authorized(entry, t, actors, teams) ==
    IF actors # {} THEN actors ELSE ResolvedMaintainers(entry, t) \cup TeamActors(t, teams)

\* load_namespace_policy: the policy is refused when a team is unknown or a
\* publisher has no owner.
PolicyLoads(policy) ==
    \A pub \in DOMAIN policy.publishers :
        LET e == policy.publishers[pub]
        IN  /\ e.owners # {} \/ e.ownerTeams # {}
            /\ e.ownerTeams \cup e.maintainerTeams \cup e.signerTeams \subseteq DOMAIN policy.teams

\* transfer_is_authorized
Transferred(policy, name, from, to) == [name |-> name, from |-> from, to |-> to] \in policy.transfers

\* _publisher_authorization_errors is empty
PublisherAllows(policy, skill) ==
    /\ skill.pub \in DOMAIN policy.publishers
    /\ skill.owners \subseteq ResolvedOwners(policy.publishers[skill.pub], policy.teams)
    /\ skill.maintainers \subseteq ResolvedMaintainers(policy.publishers[skill.pub], policy.teams)

Rivals(skill, registry) == {o \in registry \ {skill} : o.name = skill.name /\ o.pub # skill.pub}

\* Mutant: a transfer is looked up in both directions.
ClaimAllowedBothWays(policy, skill, other) ==
    Transferred(policy, skill.name, other.pub, skill.pub)
        \/ Transferred(policy, skill.name, skill.pub, other.pub)

\* _competing_claims: one rival claim is settled by a transfer; towards or from
\* an archived skill the other direction will do.
ClaimAllowed(policy, skill, other) ==
    \/ Transferred(policy, skill.name, other.pub, skill.pub)
    \/ "archived" \in {skill.stage, other.stage}
         /\ Transferred(policy, skill.name, skill.pub, other.pub)

\* namespace_policy_report: authorized
NamespaceAuthorized(policy, skill, registry) ==
    PublisherAllows(policy, skill) /\ \A o \in Rivals(skill, registry) : ClaimAllowed(policy, skill, o)

\* Mutant: the roles fall back to the skill's own metadata.
AuthorizedSignersFallback(policy, skill) == skill.owners \cup skill.maintainers

\* _authorized_roles, for signers
AuthorizedSigners(policy, skill) ==
    IF skill.pub \in DOMAIN policy.publishers
    THEN LET e == policy.publishers[skill.pub] IN Authorized(e, policy.teams, e.signers, e.signerTeams)
    ELSE skill.owners \cup skill.maintainers

-------------------------------------------------------------------------------
(* Properties *)

\* Two publishers never hold one name at once: of two authorized skills with
\* the same name that are not archived, each was transferred to the other.
NameHasOneHolder(policy, registry) ==
    \A x, y \in registry :
        /\ x.pub # y.pub /\ x.name = y.name /\ "archived" \notin {x.stage, y.stage}
        /\ NamespaceAuthorized(policy, x, registry) /\ NamespaceAuthorized(policy, y, registry)
        => Transferred(policy, x.name, x.pub, y.pub) /\ Transferred(policy, x.name, y.pub, x.pub)

\* The policy after a person has left every team and every list of owners and
\* maintainers.
Without(policy, person) ==
    [publishers |->
        [pub \in DOMAIN policy.publishers |->
            LET e == policy.publishers[pub]
            IN  [owners |-> e.owners \ {person}, ownerTeams |-> e.ownerTeams,
                 maintainers |-> e.maintainers \ {person}, maintainerTeams |-> e.maintainerTeams,
                 signers |-> e.signers, signerTeams |-> e.signerTeams]],
     teams |-> [t \in DOMAIN policy.teams |-> policy.teams[t] \ {person}],
     transfers |-> policy.transfers]

\* Whoever leaves can no longer sign an authorized skill, whatever the skill's
\* metadata still says, unless the publisher names its signers one by one and
\* the person is among them: such a list outlives teams and maintainers.
LeaversCannotSign(policy, registry) ==
    PolicyLoads(policy) => \A x \in registry : NamespaceAuthorized(policy, x, registry) =>
        \A person \in AuthorizedSigners(policy, x) :
            person \in AuthorizedSigners(Without(policy, person), x) <=> person \in policy.publishers[x.pub].signers
===============================================================================
