----------------------------- MODULE SourceResolution -----------------------------
(***************************************************************************)
(* Where a skill is installed from (src/infinitas_skill/install:           *)
(* source_resolver_cli.py, source_candidate_selection.py,                  *)
(* registry_sources.py; registry/refresh_state.py).  A configured registry *)
(* is a record; which version or publisher it holds is a number or a model *)
(* value.  Of a registry's text only what the rules compare is kept: a     *)
(* pinned ref is a name and the way it is written, a host a value.         *)
(***************************************************************************)
EXTENDS Integers, Sequences, FiniteSets

\* A directory under skills/<stage>: its _meta.json and, of a snapshot, its time
SkillDir(stage, pub, v, snap, at, dir) ==
    [stage |-> stage, pub |-> pub, v |-> v, snap |-> snap, at |-> at, dir |-> dir]

\* An entry of catalog/distributions.json, or a version in a hosted ai-index
Distribution(status, pub, v, at) == [status |-> status, pub |-> pub, v |-> v, at |-> at]

-------------------------------------------------------------------------------
(* What a registry is allowed to be *)

\* normalized_update_policy: what an unsaid mode means
UpdateMode(r) ==
    IF r.update # "" THEN r.update
    ELSE IF r.kind = "http" THEN "remote-only"
    ELSE IF r.kind = "local" \/ r.checkout # "" THEN "local-only" ELSE "track"

\* short_pin_value: the three ways a branch is written, the two of a tag
PinName(pin) ==
    IF (pin.mode = "branch" /\ pin.form \in {"heads", "origin"}) \/ (pin.mode = "tag" /\ pin.form = "tags")
    THEN <<"short", pin.value>> ELSE <<pin.form, pin.value>>

\* canonical_pin_ref
PinRef(pin) ==
    CASE pin.mode = "branch" -> {<<"refs/heads", PinName(pin)>>}
      [] pin.mode = "tag" -> {<<"refs/tags", PinName(pin)>>}
      [] OTHER -> {}

AllowedRefs(r) == IF r.refs # {} THEN r.refs ELSE PinRef(r.pin)

AllowedHosts(r) == IF r.hosts # {} THEN r.hosts ELSE {r.url} \ {""}

\* _validate_refresh_policy: all three fields or no policy
RefreshPolicyValid(p) == p.interval >= 1 /\ p.max >= p.interval /\ p.stale # ""

HasPolicy(p) == p.interval # 0 \/ p.max # 0 \/ p.stale # ""

\* validate_federation
FederationValid(r) ==
    /\ r.checkout # "root"
    /\ r.mode = "federated" => r.trust # "untrusted"
    /\ r.mode = "federated" /\ r.kind = "git" => UpdateMode(r) # "track"
    /\ r.allowed # {} => DOMAIN r.map \subseteq r.allowed

\* _validate_git_pin_and_branch, _validate_git_allowlists
GitPinValid(r) ==
    /\ r.pin.mode = "commit" => r.pin.form = "sha"
    /\ r.branch # "" /\ r.pin.mode = "branch" => PinName(r.pin) = <<"short", r.branch>>
    /\ r.url # "" => r.url \in AllowedHosts(r)
    /\ PinRef(r.pin) \subseteq AllowedRefs(r)

\* Mutant: a tracked registry may be pinned to anything.
GitUpdateValidUnpinned(r) ==
    /\ r.update # ""
    /\ r.update = "pinned" => r.pin.mode \in {"tag", "commit"}
    /\ (r.update = "local-only") = (r.checkout # "")
    /\ r.trust = "public" => r.update # "track"
    /\ r.trust = "untrusted" => r.update = "local-only"

\* _validate_git_update_policy
GitUpdateValid(r) ==
    /\ r.update # ""
    /\ r.update = "track" => r.pin.mode = "branch"
    /\ r.update = "pinned" => r.pin.mode \in {"tag", "commit"}
    /\ (r.update = "local-only") = (r.checkout # "")
    /\ r.trust = "public" => r.update # "track"
    /\ r.trust = "untrusted" => r.update = "local-only"

\* validate_registry_config, for one registry
RegistryValid(r) ==
    /\ HasPolicy(r.refresh) => RefreshPolicyValid(r.refresh)
    /\ r.mode # "" => FederationValid(r)
    /\ r.kind = "git" => GitPinValid(r) /\ GitUpdateValid(r)
    /\ r.kind = "local" => r.checkout # "" /\ UpdateMode(r) = "local-only"

\* What sync_registry_source leaves behind: nothing, the catalogs of a server,
\* a checkout of a branch's head, a tag or a commit; or it refuses.
SyncedTo(r) ==
    LET ref == PinRef(r.pin) IN
    IF ~r.enabled \/ ~RegistryValid(r) THEN <<"refused">>
    ELSE IF r.kind = "http" THEN <<"catalogs">>
    ELSE IF r.url # "" /\ r.url \notin AllowedHosts(r) THEN <<"refused">>
    ELSE IF r.kind = "local" \/ UpdateMode(r) = "local-only" THEN <<"nothing">>
    ELSE IF r.checkout = "root" \/ ~(ref \subseteq AllowedRefs(r)) THEN <<"refused">>
    ELSE IF UpdateMode(r) = "track" /\ ref # {} THEN <<"branch", PinName(r.pin)>>
    ELSE IF UpdateMode(r) = "pinned" /\ r.pin.mode \in {"tag", "commit"} THEN <<r.pin.mode, PinName(r.pin)>>
    ELSE <<"refused">>

\* Validation and sync are two readings of one policy: what is valid can be
\* synced (but for git registries with the mode of servers, and directories with
\* a foreign url), a registry that moves is trusted and not federated, and neither
\* an untrusted git registry nor the working repository is ever fetched.
SyncAgreesWithPolicy(r) ==
    LET got == SyncedTo(r)[1] IN
    r.enabled /\ RegistryValid(r) =>
        /\ got = "refused" => \/ r.kind = "git" /\ UpdateMode(r) = "remote-only"
                              \/ r.kind = "local" /\ r.url \notin AllowedHosts(r)
        /\ got = "branch" => r.trust \in {"private", "trusted"} /\ r.mode # "federated" /\ r.pin.mode = "branch"
        /\ r.kind = "git" /\ (r.trust = "untrusted" \/ r.checkout = "root") => got = "nothing"

-------------------------------------------------------------------------------
(* evaluate_refresh_status: how old the cache is; age -1 means no state *)

StaleState(p, otherwise) ==
    CASE p.stale = "fail" -> "stale-fail"
      [] p.stale = "warn" -> "stale-warning"
      [] p.stale = "ignore" -> "stale-ignored"
      [] OTHER -> otherwise

\* Mutant: the refresh interval is looked at before the maximum age.
FreshnessStateInterval(p, age) ==
    IF ~HasPolicy(p) THEN "not-configured"
    ELSE IF age < 0 THEN StaleState(p, "missing-state")
    ELSE IF p.interval # 0 /\ age > p.interval THEN "refresh-due"
    ELSE IF p.max # 0 /\ age > p.max THEN StaleState(p, "stale-ignored") ELSE "fresh"

FreshnessState(p, age) ==
    IF ~HasPolicy(p) THEN "not-configured"
    ELSE IF age < 0 THEN StaleState(p, "missing-state")
    ELSE IF p.max # 0 /\ age > p.max THEN StaleState(p, "stale-ignored")
    ELSE IF p.interval # 0 /\ age > p.interval THEN "refresh-due" ELSE "fresh"

UsesRefreshCache(r) == r.kind = "git" /\ UpdateMode(r) # "local-only" /\ HasPolicy(r.refresh)

Blocked(r) == UsesRefreshCache(r) /\ FreshnessState(r.refresh, r.age) = "stale-fail"

-------------------------------------------------------------------------------
(* What a registry offers *)

MapPublisher(r, pub) == IF pub \in DOMAIN r.map THEN r.map[pub] ELSE pub

\* Mutant: the allowlist is compared with the mapped publisher.
FederatedMapped(r, pub) ==
    IF r.mode = "" THEN {pub}
    ELSE IF r.allowed # {} /\ MapPublisher(r, pub) \notin r.allowed THEN {} ELSE {MapPublisher(r, pub)}

\* apply_registry_federation: the publisher a skill has here, if it is let in
Federated(r, pub) ==
    IF r.mode = "" THEN {pub}
    ELSE IF r.allowed # {} /\ pub \notin r.allowed THEN {} ELSE {MapPublisher(r, pub)}

\* manifest: the distribution the path names, none for a directory
SourceItem(r, upstream, pub, v, stage, manifest, snap, at, dir) ==
    [reg |-> r.name, priority |-> r.priority, upstream |-> upstream, pub |-> pub, v |-> v, stage |-> stage,
     manifest |-> manifest, snap |-> snap, at |-> at, dir |-> dir]

\* Mutant: the index of distributions is keyed by name alone.
DistributionOfName(r, d) == {x \in r.dists : x.pub = d.pub}

\* distribution_by_identity: of this qualified name and version
DistributionOf(r, d) == {x \in r.dists : x.pub = d.pub /\ x.v = d.v}

\* _skill_registry_item: a directory whose version is distributed is offered
\* as that distribution, in the stage the distribution has.
DirectoryItems(r) ==
    UNION {{SourceItem(r, d.pub, pub, d.v, x.status, {x}, d.snap, d.at, d.dir) :
                pub \in Federated(r, d.pub), x \in DistributionOf(r, d)}
           \cup {SourceItem(r, d.pub, pub, d.v, d.stage, {}, d.snap, d.at, d.dir) :
                pub \in {p \in Federated(r, d.pub) : DistributionOf(r, d) = {}}} : d \in r.dirs}

\* Mutant: only what has a directory is offered.
DistributionItemsNone(r) == {}

\* _distribution_registry_item: distributions no directory was matched with
DistributionItems(r) ==
    UNION {{SourceItem(r, x.pub, pub, x.v, x.status, {x}, <<>>, x.at, 0) : pub \in Federated(r, x.pub)} :
               x \in {x \in r.dists : \A d \in r.dirs : x \notin DistributionOf(r, d)}}

\* scan_http_registry: the default version is active, all others are archived.
HttpItems(r) ==
    UNION {{SourceItem(r, x.pub, pub, x.v, IF x.v = r.latest THEN "active" ELSE "archived", {x}, <<>>, x.at, 0) :
                pub \in Federated(r, x.pub)} : x \in r.dists}

ScanRegistry(r) == IF r.kind = "http" THEN HttpItems(r) ELSE DirectoryItems(r) \cup DistributionItems(r)

\* load_candidates: which registries are looked at
Consulted(regs, ask) ==
    {r \in regs : /\ r.enabled
                  /\ ask.registry \in {"", r.name}
                  /\ r.mode = "mirror" => ask.registry # ""
                  /\ ~Blocked(r)}

LoadCandidates(regs, ask) == UNION {ScanRegistry(r) : r \in Consulted(regs, ask)}

-------------------------------------------------------------------------------
(* Which of the candidates it is *)

Matching(items, ask) ==
    {x \in items : (ask.pub # "" => x.pub = ask.pub) /\ (~ask.incubating => x.stage # "incubating")}

StageOrder(stage) == CASE stage = "active" -> 0 [] stage = "incubating" -> 1 [] OTHER -> 2

ManifestFirst(x) == IF x.manifest # {} THEN 0 ELSE 1

\* Mutant: the priority of the registry does not count.
CandidateSortKeyAny(x) == <<ManifestFirst(x), StageOrder(x.stage), x.at, x.dir>>

CandidateSortKey(x) == <<-x.priority, ManifestFirst(x), StageOrder(x.stage), x.at, x.dir>>

\* The newest snapshot comes first.
ArchivedSnapshotSortKey(x) == <<-x.priority, ManifestFirst(x), -x.at, x.dir>>

SortsBefore(a, b) == \E n \in DOMAIN a : a[n] < b[n] /\ \A m \in 1 .. n - 1 : a[m] = b[m]

\* The first of a sorted list: one of those with the least key
FirstBy(items, Key(_)) == {x \in items : \A y \in items : ~SortsBefore(Key(y), Key(x))}

SnapshotRefs(ask) == {<<"", ask.v>>, <<ask.pub, ask.v>>}

SnapshotsOf(items, ask) == {x \in items : x.v = ask.v /\ x.stage = "archived" /\ x.snap \in SnapshotRefs(ask)}

SelectCandidate(items, ask) ==
    IF ask.v = 0 THEN FirstBy({x \in items : x.stage = "active"}, CandidateSortKey)
    ELSE IF SnapshotsOf(items, ask) # {} THEN FirstBy(SnapshotsOf(items, ask), ArchivedSnapshotSortKey)
    ELSE FirstBy({x \in items : x.v = ask.v}, CandidateSortKey)

\* resolve_source_candidate: empty when no source is found
Resolve(regs, ask) == SelectCandidate(Matching(LoadCandidates(regs, ask), ask), ask)

-------------------------------------------------------------------------------
(* Properties *)

\* A cache is refused exactly when its policy says so: what is installed never
\* comes from a cache older than a failing policy's maximum (or of unknown
\* age), and a cache within its maximum is never refused.
FreshEnough(regs, ask) ==
    LET remote(r) == r.kind = "git" /\ UpdateMode(r) # "local-only" /\ r.refresh.stale = "fail"
        within(r) == r.age >= 0 /\ r.age <= r.refresh.max
    IN \A r \in {r \in regs : RegistryValid(r)} :
           /\ (\E x \in Resolve(regs, ask) : x.reg = r.name) => (remote(r) => within(r))
           /\ Blocked(r) => remote(r) /\ ~within(r)

\* What a registry has of one publisher
Holds(r, pub) == {d.v : d \in {d \in r.dirs : d.pub = pub}} \cup {x.v : x \in {x \in r.dists : x.pub = pub}}

\* What is installed is what was asked for: the publisher asked for is the one
\* the registry's owner mapped an allowed upstream publisher to, the version is
\* one the registry holds, and without a version it is an active one.
AskedAndAllowed(regs, ask) ==
    \A x \in Resolve(regs, ask), r \in regs : x.reg = r.name =>
        /\ r.mode # "" /\ r.allowed # {} => x.upstream \in r.allowed
        /\ ask.pub # "" => ask.pub = (IF r.mode = "" THEN x.upstream ELSE MapPublisher(r, x.upstream))
        /\ x.v \in Holds(r, x.upstream)
        /\ IF ask.v = 0 THEN x.stage = "active" ELSE x.v = ask.v

\* The manifest a candidate is installed from is of its publisher and version.
ManifestIsThisVersion(regs, ask) ==
    \A x \in Resolve(regs, ask) : \A m \in x.manifest : x.manifest = {m} /\ m.pub = x.upstream /\ m.v = x.v

\* A registry serves what it can serve before any registry of lower priority;
\* only an archived snapshot of the very version asked for goes before.
HighestPriorityServes(regs, ask) ==
    \A x \in Resolve(regs, ask), r \in regs :
        Resolve({r}, ask) # {} /\ x.priority < r.priority =>
            x \in SnapshotsOf({x}, ask) /\ SnapshotsOf(Resolve({r}, ask), ask) = {}

\* A version that a registry in use holds of the asked publisher is found.
FoundWhenHeld(regs, ask) ==
    \A r \in Consulted(regs, ask) : \A pub \in {x.pub : x \in r.dirs} \cup {x.pub : x \in r.dists} :
        /\ ask.v \in Holds(r, pub) /\ Federated(r, pub) # {}
        /\ ask.pub # "" => ask.pub \in Federated(r, pub)
        /\ ask.incubating
        => Resolve(regs, ask) # {}
===============================================================================
