-------------------------------- MODULE Discovery --------------------------------
(***************************************************************************)
(* Finding a skill by name (src/infinitas_skill/discovery, and             *)
(* install/resolve.py): the indexes built from what registries offer, the   *)
(* choice between the skills of one name, its installation, and the order   *)
(* in which skills are recommended.  All skills have one bare name; a       *)
(* version is its place in the order of semver_key.  A registry is that of  *)
(* SourceResolution with, in addition, its catalog entries, what its        *)
(* runtime supports and the condition its ai-index file is found in.        *)
(***************************************************************************)
EXTENDS SourceResolution, Versions, FiniteSetsExt

\* The characters of a part, a digit or a word each (numbers have two digits at most)
Characters(part) ==
    IF part.word THEN <<20 + part.rank>>
    ELSE IF part.rank < 10 THEN <<1 + part.rank>>
    ELSE <<1 + (part.rank \div 10), 1 + (part.rank % 10)>>

CompareCharacters(left, right) ==
    LET l == Characters(left)
        r == Characters(right)
    IN  IF FirstDifference(l, r, Sign) # 0 THEN FirstDifference(l, r, Sign) ELSE Sign(Len(l), Len(r))

\* Suffixes as text: the dot between two parts precedes all their characters, so
\* that the first part to differ decides, and what starts another precedes it.
CompareText(left, right) ==
    IF FirstDifference(left, right, CompareCharacters) # 0
    THEN FirstDifference(left, right, CompareCharacters) ELSE Sign(Len(left), Len(right))

\* Mutant: a missing suffix is the smallest of all.
CompareSemverKeysPlain(left, right) ==
    IF left.core # right.core THEN FirstDifference(left.core, right.core, Sign)
    ELSE CompareText(left.pre, right.pre)

\* semver_key: three numbers, whether there is a suffix, and its text
CompareSemverKeys(left, right) ==
    IF left.core # right.core THEN FirstDifference(left.core, right.core, Sign)
    ELSE IF left.pre = <<>> /\ right.pre # <<>> THEN 1
    ELSE IF left.pre # <<>> /\ right.pre = <<>> THEN -1
    ELSE CompareText(left.pre, right.pre)

-------------------------------------------------------------------------------
(* ai-index.json: what one registry offers of each publisher *)

\* collect_skill_entries: a skill directory with what its _meta.json declares,
\* the runtime features it needs and the support its evidence shows
CatalogEntry(dir, agents, needs, verified) ==
    [dir |-> dir, agents |-> agents, needs |-> needs, verified |-> verified]

\* The order in which the catalog lists the stages
ListedAt(stage) == CASE stage = "incubating" -> 0 [] stage = "active" -> 1 [] OTHER -> 2

\* _catalog_entry_by_key: the newest entry, whatever its stage; of equal ones the first
CatalogEntryOf(r, pub) ==
    LET key(e) == <<-e.dir.v, ListedAt(e.dir.stage), e.dir.dir>>
    IN FirstBy({e \in r.entries : e.dir.pub = pub}, key)

\* _distribution_version_map: every distribution is installable, archived ones too.
DistributedVersions(r, pub) == {x.v : x \in {x \in r.dists : x.pub = pub}}

\* _runtime_readiness, and _openclaw_runtime_payload on what is needed
RuntimeReadiness(r, e) == e.needs \subseteq r.supports

NoSupport == [state |-> "", fresh |-> ""]

\* Mutant: the default version is that of the catalog's entry.
AiSkillOfCatalog(r, pub) ==
    LET current == CatalogEntryOf(r, pub) IN
    [pub |-> pub, versions |-> DistributedVersions(r, pub),
     version |-> Max({e.dir.v : e \in current} \cup DistributedVersions(r, pub)),
     agents |-> UNION {e.agents : e \in current} \cup {"openclaw"},
     verified |-> IF current = {} THEN NoSupport ELSE (CHOOSE e \in current : TRUE).verified,
     ready |-> \A e \in current : RuntimeReadiness(r, e)]

\* _ai_skill_payload: the newest distribution under the description of the
\* newest catalog entry.  A server describes what it distributes and adds no agent.
AiSkill(r, pub) ==
    LET current == CatalogEntryOf(r, pub) IN
    [pub |-> pub, versions |-> DistributedVersions(r, pub), version |-> Max(DistributedVersions(r, pub)),
     agents |-> UNION {e.agents : e \in current} \cup (IF r.kind = "http" THEN {} ELSE {"openclaw"}),
     verified |-> IF current = {} THEN NoSupport ELSE (CHOOSE e \in current : TRUE).verified,
     ready |-> \A e \in current : RuntimeReadiness(r, e)]

BuildAiIndex(r) == {AiSkill(r, x.pub) : x \in r.dists}

-------------------------------------------------------------------------------
(* discovery-index.json: what all registries offer *)

\* A file is taken as it is if it can be read, a server's answer if it is valid.
IndexPayload(r) ==
    IF r.index = "unreadable" \/ (r.kind = "http" /\ r.index = "invalid") THEN {} ELSE BuildAiIndex(r)

\* normalize_discovery_skill; support is that for the agent asked about
DiscoverySkill(r, skill) ==
    [reg |-> r.name, priority |-> r.priority, pub |-> skill.pub, version |-> skill.version, versions |-> skill.versions,
     agents |-> skill.agents \cup (IF skill.ready THEN {"openclaw"} ELSE {}), verified |-> skill.verified,
     ready |-> skill.ready]

\* build_discovery_index: mirrors, publishers and stale caches are not looked at
\* here.  The index is valid if no file in it was not.
BuildDiscoveryIndex(config) ==
    LET used == {r \in config.regs : r.enabled}
    IN [default |-> config.default, skills |-> UNION {{DiscoverySkill(r, s) : s \in IndexPayload(r)} : r \in used},
        valid |-> \A r \in used : r.index = "invalid" => r.kind = "http" \/ r.dists = {}]

\* load_discovery_index: the file of the last catalog build, unless a server is
\* in use or there is no file
LoadDiscoveryIndex(config, file) ==
    IF file = {} \/ \E r \in config.regs : r.enabled /\ r.kind = "http"
    THEN BuildDiscoveryIndex(config) ELSE BuildDiscoveryIndex(CHOOSE f \in file : TRUE)

-------------------------------------------------------------------------------
(* Choosing one *)

Blocking == {"blocked", "broken", "unsupported"}

Supporting == {"native", "adapted", "degraded"}

RuntimeReady(x, agent) == agent = "openclaw" /\ x.ready

\* Mutant: a ready runtime is believed before the evidence.
SupportsTargetAgentReady(x, agent) ==
    \/ agent = "" \/ RuntimeReady(x, agent)
    \/ x.verified.state \notin Blocking /\ (x.verified.state \in Supporting \/ agent \in x.agents)

\* supports_target_agent
SupportsTargetAgent(x, agent) ==
    \/ agent = ""
    \/ /\ x.verified.state \notin Blocking
       /\ \/ RuntimeReady(x, agent)
          \/ x.verified.state \in Supporting \/ agent \in x.agents

FilterSkills(index, query) == {x \in index.skills : query = "" \/ x.pub = query}

Resolution(state, skills) == [state |-> state, skills |-> skills]

\* Mutant: one list of compatible candidates, wherever they come from.
ResolveSkillAnywhere(index, query, agent) ==
    LET fit == {x \in FilterSkills(index, query) : SupportsTargetAgent(x, agent)} IN
    IF Cardinality(fit) = 1
    THEN Resolution(IF \E x \in fit : x.reg = index.default THEN "private" ELSE "external", fit)
    ELSE Resolution(IF fit # {} THEN "ambiguous" ELSE "not-found", {})

\* resolve_skill: the default registry's compatible skills, else the others'
ResolveSkill(index, query, agent) ==
    LET all == FilterSkills(index, query)
        fit == {x \in all : SupportsTargetAgent(x, agent)}
        private == {x \in fit : x.reg = index.default}
    IN IF Cardinality(private) = 1 THEN Resolution("private", private)
       ELSE IF private = {} /\ Cardinality(fit) = 1 THEN Resolution("external", fit)
       ELSE IF fit # {} THEN Resolution("ambiguous", {})
       ELSE Resolution(IF all # {} THEN "incompatible" ELSE "not-found", {})

\* Mutant: without a version asked for, none is passed on.
PulledVersionAsked(x, ask) == ask.v

\* The version asked for, or the one resolved
PulledVersion(x, ask) == IF ask.v = 0 THEN x.version ELSE ask.v

\* run_install_by_name, and of run_pull_skill that confirming only plans.
\* The result is a state and what was installed.
InstallByName(config, file, ask) ==
    LET index == LoadDiscoveryIndex(config, file)
        found == ResolveSkill(index, ask.query, ask.agent)
        source(x) == Resolve(config.regs, [registry |-> x.reg, pub |-> x.pub, incubating |-> FALSE,
                                           v |-> PulledVersion(x, ask)])
        got == UNION {source(x) : x \in found.skills}
    IN IF ~index.valid \/ found.state \notin {"private", "external"} THEN Resolution("failed", {})
       ELSE IF found.state = "external" /\ ask.mode = "auto" THEN Resolution("confirmation-required", {})
       ELSE IF ask.mode = "confirm" THEN Resolution("planned", {})
       ELSE Resolution(IF got = {} THEN "failed" ELSE "installed", got)

-------------------------------------------------------------------------------
(* Recommending *)

\* compatibility_signal: the mode and its bonus
CompatibilitySignal(x, agent) ==
    LET mode(compatible, bonus) == [compatible |-> compatible, bonus |-> bonus] IN
    IF agent = "" THEN mode(TRUE, 500)
    ELSE IF x.verified.state \in Blocking THEN mode(FALSE, 0)
    ELSE IF RuntimeReady(x, agent) THEN mode(TRUE, 650)
    ELSE IF x.verified.state \in Supporting
    THEN mode(TRUE, CASE x.verified.fresh = "fresh" -> 650 [] x.verified.fresh = "stale" -> 450 [] OTHER -> 550)
    ELSE IF agent \in x.agents THEN mode(TRUE, 350) ELSE mode(FALSE, 0)

TrustScore(trust) == CASE trust = "verified" -> 3 [] trust = "attested" -> 2 [] trust = "installable" -> 1 [] OTHER -> 0

MaturityScore(maturity) == CASE maturity = "stable" -> 3 [] maturity = "beta" -> 2 [] maturity = "experimental" -> 1 [] OTHER -> 0

\* Mutant: trust weighs as much as a matched term.
ScoreItemTrusting(x, agent, default) ==
    (IF x.reg = default THEN 1000 ELSE 0) + CompatibilitySignal(x, agent).bonus + 100 * x.matched
      + 100 * TrustScore(x.trust) + 20 * MaturityScore(x.maturity) + x.quality + (IF x.checked THEN 10 ELSE 0)

\* score_item
ScoreItem(x, agent, default) ==
    (IF x.reg = default THEN 1000 ELSE 0) + CompatibilitySignal(x, agent).bonus + 100 * x.matched
      + 30 * TrustScore(x.trust) + 20 * MaturityScore(x.maturity) + x.quality + (IF x.checked THEN 10 ELSE 0)

-------------------------------------------------------------------------------
(* Properties *)

\* The default version of an index is the newest in the order the installer
\* compares versions by: the two orders differ only between pre-releases of
\* one version, and there only where a number has more than one digit.
KeysAgree(left, right) ==
    CompareSemverKeys(left, right) # CompareVersions(left, right) =>
        /\ left.core = right.core /\ left.pre # <<>> /\ right.pre # <<>>
        /\ \E p \in Range(left.pre) \cup Range(right.pre) : ~p.word /\ p.rank > 9

\* Whatever the index says, and however old it is: what is installed by name
\* is held now by the registry that the index calls the default one, which is
\* in use; it is of the publisher shown, if one is, in the version shown or asked
\* for, and not known to be broken for the agent.
InstalledIsDescribed(config, file, ask) ==
    LET index == LoadDiscoveryIndex(config, file) IN
    \A g \in InstallByName(config, file, ask).skills :
        /\ \E x \in index.skills :
               /\ x.reg = g.reg /\ g.reg = index.default /\ x.pub \in {"", g.pub}
               /\ ask.query \in {"", x.pub}
               /\ g.v = IF ask.v = 0 THEN x.version ELSE ask.v
               /\ ask.agent # "" => x.verified.state \notin Blocking
        /\ \E r \in config.regs : r.enabled /\ r.name = g.reg /\ g.v \in Holds(r, g.upstream)

\* What is installed by name does not depend on any other registry than the
\* default one: not on what others offer, and not on servers that fail.  Only
\* an invalid index in a directory, which fails every command, and an old index
\* file, which is read or not depending on the others, are exceptions.
OnlyDefaultMatters(config, ask) ==
    LET alone == [config EXCEPT !.regs = {r \in @ : r.name = config.default}]
    IN BuildDiscoveryIndex(config).valid =>
           InstallByName(config, {}, ask).skills = InstallByName(alone, {}, ask).skills

\* A skill that an up-to-date index offers from the default registry can be
\* installed, and from its signed distribution, never from a working directory;
\* but for a distribution still incubating, a cache too old to be used, skills without
\* a publisher, and publishers the registry renames or leaves out.
OfferedIsInstallable(config, ask) ==
    LET index == BuildDiscoveryIndex(config)
        found == ResolveSkill(index, ask.query, ask.agent)
        got == InstallByName(config, {}, ask)
    IN \A x \in found.skills, r \in config.regs :
           /\ index.valid /\ found.state = "private" /\ ask.mode = "auto" /\ ask.v = 0
           /\ r.name = x.reg /\ r.mode = "" /\ ~Blocked(r) /\ x.pub # ""
           /\ \A d \in r.dists : d.pub = x.pub /\ d.v = x.version => d.status # "incubating"
           => got.state = "installed" /\ \A g \in got.skills : \E d \in r.dists : g.manifest = {d} /\ d.v = x.version

\* The filter of resolve and search and the signal of recommend are two
\* readings of one rule.
ViewsAgree(x, agent) == SupportsTargetAgent(x, agent) = CompatibilitySignal(x, agent).compatible

\* Between skills that match the task equally, the default registry's come
\* first, and of one registry a compatible one precedes every incompatible one,
\* whatever their trust, maturity, quality and age.
RanksSensibly(x, y, agent, default) ==
    LET private(z) == z.reg = default
        fits(z) == CompatibilitySignal(z, agent).compatible
    IN x.matched = y.matched
           /\ \/ private(x) /\ ~private(y)
              \/ private(x) = private(y) /\ fits(x) /\ ~fits(y)
           => ScoreItem(x, agent, default) > ScoreItem(y, agent, default)
===============================================================================
