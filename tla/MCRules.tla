-------------------------------- MODULE MCRules --------------------------------
(* The rules for TLC, one bounded input after the other, and the exposures and *)
(* reviews of a release: a behaviour runs one of the two, which share no        *)
(* variable.                                                                    *)
EXTENDS ExposureReview, Rules, TLC

Picks(name, input) == rule' = name /\ given' = (name :> input)

-------------------------------------------------------------------------------
(* Versions *)

Parts == {<<>>, <<Number(1)>>, <<Number(2)>>, <<Number(12)>>, <<Word(1)>>, <<Number(1), Word(1)>>}

SmallVersions == {Version(a, b, c, pre) : a \in 0 .. 1, b \in 0 .. 1, c \in 0 .. 1, pre \in Parts}

PickVersions ==
    \E x, y \in SmallVersions, z \in {Version(0, 1, 0, <<>>), Version(1, 0, 0, <<Word(1)>>)} :
        Picks("versions", <<x, y, z>>)

-------------------------------------------------------------------------------
(* Reviews: o owns the skill and x and y review it, in one group or two. *)

Unsaid == [min |-> {}, groups |-> {}]

Layers(base) ==
    [defaults |-> base, stage |-> [active |-> Unsaid], risk |-> [low |-> Unsaid, high |-> [Unsaid EXCEPT !.min = {2}]],
     stageRisk |-> [active |-> [low |-> Unsaid, high |-> Unsaid]]]

ReviewGroups ==
    {[g1 |-> [members |-> {"o", "x"}, teams |-> {"y"}]],
     [g1 |-> [members |-> {"x"}, teams |-> {}], g2 |-> [members |-> {"o"}, teams |-> {"x"}]],
     [g1 |-> [members |-> {"o"}, teams |-> {}]]}

ReviewConfig(groups, min, required, flags) ==
    [groups |-> groups, layers |-> Layers([min |-> {min}, groups |-> {required}]), differ |-> "differ" \in flags,
     fallback |-> "fallback" \in flags, block |-> "block" \in flags, needFile |-> "file" \in flags,
     states |-> {"approved"}, needs |-> {"missing-changelog", "missing-owner"}, minMaintainers |-> 1]

ReviewConfigs ==
    {ReviewConfig(g, n, q, f) : g \in ReviewGroups, n \in 1 .. 2, q \in {{}, {"g1"}},
        f \in {{}, {"differ"}, {"differ", "fallback", "block"}}}

Decisions == {ReviewEntry(w, d, t) : w \in {"o", "x"}, d \in {"approved", "rejected"}, t \in 1 .. 2}
             \cup {ReviewEntry("y", "approved", 1), ReviewEntry("x", "odd", 2)}

Reviewed(reviews, evidence) ==
    [reviews |-> reviews, evidence |-> evidence, names |-> {"p/a", "a"}, owner |-> "o", requested |-> FALSE,
     file |-> reviews # <<>>, stage |-> "active", risk |-> "low", lacks |-> {}, maintainers |-> 1]

PickReview ==
    \E p \in ReviewConfigs, one, two \in Decisions, e \in Decisions :
        /\ EvidenceLoads(<<two>>)
        /\ e.decision # "odd" /\ e.at = 1
        /\ \E s \in {Reviewed(<<one>>, <<two>>), Reviewed(<<two, one>>, <<>>)} :
               Picks("review", [policy |-> p, skill |-> s, more |-> e, now |-> 9])

Exception(id, rules, skills, approved, expires, approvers) ==
    [id |-> id, scope |-> "promotion", rules |-> rules, skills |-> skills, approved |-> approved,
     expires |-> expires, approvers |-> approvers]

PickPromotion ==
    \E flags \in {{"block"}, {"block", "file"}}, min \in 0 .. 2, risk \in {"low", "high"}, lacks \in {{}, {"missing-changelog"}},
       reviews \in {<<>>, <<ReviewEntry("x", "rejected", 1)>>, <<ReviewEntry("x", "approved", 1)>>}, owner \in {"o", ""},
       now \in 1 .. 3, who \in {{}, {"boss"}}, until \in 2 .. 3, skills \in {{"a"}, {"b"}},
       rules \in {{"minimum-approvals"}, {"blocking-rejections", "effective-review-state"}},
       other \in {{}, {Exception("e2", {"minimum-approvals", "effective-review-state"}, {"p/a"}, 1, 3, {"boss"})}} :
        Picks("promotion",
              [policy |-> ReviewConfig([g1 |-> [members |-> {"o", "x"}, teams |-> {}]], min, {}, flags),
               skill |-> [Reviewed(reviews, <<>>) EXCEPT !.risk = risk, !.lacks = lacks, !.owner = owner],
               exceptions |-> {Exception("e1", rules, skills, 1, until, who)} \cup other, now |-> now])

-------------------------------------------------------------------------------
(* Names: publishers p and q claim one name, with a team t. *)

Publisher(owners, teams, signers) ==
    [owners |-> owners, ownerTeams |-> {}, maintainers |-> {}, maintainerTeams |-> teams,
     signers |-> signers, signerTeams |-> {}]

Claimant(pub, stage, owners) ==
    [pub |-> pub, name |-> "a", stage |-> stage, owners |-> owners, maintainers |-> {"m"}]

Transfer(from, to) == [name |-> "a", from |-> from, to |-> to]

PickNames ==
    \E transfers \in SUBSET {Transfer("p", "q"), Transfer("q", "p")}, x, y \in {"active", "incubating", "archived"},
       teams \in {{}, {"t"}, {"u"}}, signers \in {{}, {"s"}}, owners \in {{"o"}, {"e"}}, pubs \in {{"p"}, {"p", "q"}} :
        Picks("names",
              [policy |-> [publishers |-> [pub \in pubs |-> Publisher({"o"}, teams, signers)],
                           teams |-> [t |-> {"m"}], transfers |-> transfers],
               registry |-> {Claimant("p", x, {"o"}), Claimant("q", y, owners)}])

-------------------------------------------------------------------------------
(* Releases of one name: two versions of publisher 1, one of publisher 2.    *)
(* As text 9.0.0 comes after 10.0.0; 9.0.0-rc.1 and 9.0.0-rc1 have one key.  *)

Nine == Version(9, 0, 0, <<>>)

\* The versions of publisher 1, the second ready after the first.
VersionPairs ==
    {<<ReleaseRow(1, 1, 1, Nine, <<>>, 2, 1, TRUE, 2),
       ReleaseRow(2, 1, 1, Version(10, 0, 0, <<>>), <<>>, 1, 2, TRUE, 1)>>,
     <<ReleaseRow(1, 1, 1, Nine, <<>>, 2, 1, TRUE, 2),
       ReleaseRow(2, 1, 1, Version(9, 0, 0, <<Word(1)>>), <<Word(1)>>, 3, 2, TRUE, 1)>>,
     <<ReleaseRow(1, 1, 1, Version(9, 0, 0, <<Word(1), Number(1)>>), <<Word(1), Number(1)>>, 4, 1, TRUE, 2),
       ReleaseRow(2, 1, 1, Version(9, 0, 0, <<Word(2)>>), <<Word(1), Number(1)>>, 5, 2, TRUE, 1)>>}

Released(pair, whole) ==
    {pair[1], [pair[2] EXCEPT !.whole = whole], ReleaseRow(3, 2, 1, Nine, <<>>, 2, 1, TRUE, 1)}

\* What was committed before: nothing, a skill of publisher 1 that is also released, or two of one name.
Committed ==
    {{}, {FileItem(1, 1, 1, Nine, <<>>, 2, 0), FileItem(2, 1, 1, Version(8, 0, 0, <<>>), <<>>, 6, 0)},
     {FileItem(1, 1, 1, Nine, <<>>, 2, 1), FileItem(2, 3, 1, Nine, <<>>, 2, 1)}}

\* The exposures of a release: one or two audiences, each listed or not.
Exposing(release, one, two, listed, by) ==
    {ExposureRow(2 * release, release, one, listed, TRUE, by)}
        \cup {ExposureRow(2 * release + 1, release, two, ~listed, TRUE, by) : x \in {one} \ {two}}

PickVisible ==
    \E pair \in VersionPairs, whole \in BOOLEAN, files \in Committed,
       a1, a2 \in AllAudiences, b1, c1 \in {"public", "private", "grant"}, listed \in BOOLEAN, by, granted \in {"o", "x"},
       ctx \in {Context("anonymous", "", 0), Context("user", "x", 0), Context("agent", "x", 0), Context("grant", "", 1)},
       pub \in {0, 1, 3}, text \in {{}, {2}}, limit \in {1, 9} :
        /\ ~whole => limit = 9 /\ a1 = a2
        /\ AudienceRank(a1) <= AudienceRank(a2)
        /\ ~listed => a1 # a2 /\ whole
        /\ limit = 1 => listed /\ a1 # a2 /\ text = {} /\ pub = 1
        /\ text # {} => pub = 0 /\ \A r \in Range(pair) : r.version.pre = <<>>
        /\ ctx.kind \in {"anonymous", "agent"} => by = granted /\ c1 # "private"
        /\ ctx.kind # "anonymous" => files = {}
        /\ pub = 3 => files # {} /\ limit = 9
        /\ Picks("visible",
                 [db |-> [releases |-> Released(pair, whole),
                          exposures |-> Exposing(1, a1, a2, listed, by) \cup Exposing(2, b1, b1, TRUE, "x")
                                        \cup Exposing(3, c1, c1, TRUE, by),
                          grants |-> {[id |-> 1, exposure |-> 2, subject |-> granted, active |-> TRUE],
                                      [id |-> 2, exposure |-> 6, subject |-> "x", active |-> by = "x"]}],
                  files |-> files, ctx |-> ctx, ref |-> [pub |-> pub, name |-> 1, text |-> text],
                  limit |-> limit, most |-> 2])

-------------------------------------------------------------------------------
(* Registries: what one may be configured as, and what two of them offer of   *)
(* one skill of publishers p and q in versions 1 and 2.                        *)

Unlimited == [interval |-> 0, max |-> 0, stale |-> ""]

SourceRegistry(name, kind, priority) ==
    [name |-> name, kind |-> kind, priority |-> priority, enabled |-> TRUE, trust |-> "trusted",
     update |-> IF kind = "git" THEN "track" ELSE "", checkout |-> IF kind = "local" THEN "dir" ELSE "",
     url |-> "h", hosts |-> {}, refs |-> {}, pin |-> [mode |-> "branch", form |-> "short", value |-> "main"],
     branch |-> "", mode |-> "", allowed |-> {}, map |-> <<>>, refresh |-> Unlimited, age |-> -1,
     dirs |-> {}, dists |-> {}, latest |-> 2]

RegistryRefs == {{}, {<<"refs/heads", <<"short", "main">>>>}, {<<"refs/tags", <<"short", "main">>>>}}

PickRegistry ==
    \E kind \in {"git", "local", "http"}, trust \in {"private", "public", "untrusted"},
       update \in {"", "local-only", "track", "pinned", "remote-only"}, checkout \in {"", "dir", "root"},
       pin \in {[mode |-> a, form |-> b, value |-> "main"] :
                   a \in {"branch", "tag", "commit"}, b \in {"short", "heads", "tags", "origin", "sha"}},
       refs \in RegistryRefs, hosts \in {{}, {"h"}, {"other"}}, branch \in {"", "main"}, mode \in {"", "mirror", "federated"} :
        /\ kind # "git" => pin.form = "short" /\ pin.mode = "branch" /\ refs = {} /\ branch = ""
        /\ kind = "http" => hosts = {}
        /\ hosts # {} \/ branch # "" => trust = "private" /\ mode = "" /\ checkout = ""
        /\ pin.form \in {"heads", "origin"} => pin.mode = "branch"
        /\ pin.form = "tags" => pin.mode = "tag"
        /\ pin.form = "sha" => pin.mode = "commit"
        /\ Picks("registry",
                 [SourceRegistry("r1", kind, 1) EXCEPT !.trust = trust, !.update = update, !.checkout = checkout,
                    !.pin = pin, !.refs = refs, !.hosts = hosts, !.branch = branch, !.mode = mode])

\* A server has no directories to look into.
Offering(r, dirs, dists) == [r EXCEPT !.dirs = IF r.kind = "http" THEN {} ELSE dirs, !.dists = dists]

\* Versions 1 and 2 in directories, snapshots or distributions.
Offers(r) ==
    LET active == SkillDir("active", "p", 2, <<>>, 0, 1)
        old == SkillDir("archived", "p", 1, <<"p", 1>>, 1, 2)
        older == SkillDir("archived", "p", 1, <<"", 1>>, 2, 3)
    IN {Offering(r, {active}, {Distribution("active", "p", 1, 1), Distribution("active", "p", 2, 2)}),
        Offering(r, {active, old, older}, {}),
        Offering(r, {active, old}, {Distribution("archived", "p", 1, 1)}),
        Offering(r, {SkillDir("incubating", "q", 2, <<>>, 0, 1)}, {Distribution("active", "p", 1, 1), Distribution("archived", "q", 1, 2)}),
        Offering(r, {SkillDir("incubating", "p", 2, <<>>, 0, 1), SkillDir("active", "q", 1, <<>>, 0, 2)}, {Distribution("active", "p", 1, 1)})}

Federating(r, mode, allowed, map) == [r EXCEPT !.mode = mode, !.allowed = allowed, !.map = map]

Federations(r) ==
    {r, Federating(r, "mirror", {}, <<>>), Federating(r, "federated", {"p"}, "p" :> "q"),
     Federating(r, "federated", {"q"}, "p" :> "q"), Federating(r, "federated", {}, "q" :> "p"), [r EXCEPT !.enabled = FALSE]}

SourceAsks == [pub : {"", "p", "q"}, v : 0 .. 2, incubating : BOOLEAN, registry : {"", "r1"}]

PickSource ==
    \E ask \in SourceAsks, kind \in {"local", "http"}, priority \in {0, 2} :
    \E r1 \in UNION {Federations(r) : r \in Offers(SourceRegistry("r1", kind, priority))},
       r2 \in Offers(SourceRegistry("r2", "local", 1)) :
        Picks("source", [regs |-> {r1, r2}, ask |-> ask])

PickCache ==
    \E ask \in SourceAsks, priority \in {0, 2}, age \in -1 .. 5, update \in {"track", "local-only"},
       policy \in {Unlimited} \cup [interval : {0, 2}, max : {0, 4}, stale : {"", "ignore", "warn", "fail"}] :
    \E r1 \in Offers([SourceRegistry("r1", "git", priority) EXCEPT
                         !.refresh = policy, !.age = age, !.update = update,
                         !.checkout = IF update = "track" THEN "" ELSE "dir"]) :
        /\ ~ask.incubating /\ ask.v < 2
        /\ Picks("source", [regs |-> {r1, Offering(SourceRegistry("r2", "local", 1), {},
                                                   {Distribution("active", "p", 1, 1)})}, ask |-> ask])

-------------------------------------------------------------------------------
(* Compatibility of skill p/a in version 1, over three days *)

Checked == [name |-> "a", pub |-> "p", v |-> 1, declared |-> {"open-claw", "claude-code"}]

EvidenceFiles ==
    {Evidence(t, q, "a", v, s, at, path) : t \in {"openclaw", "open-claw", "claude"}, q \in {"", "p", "q"}, v \in {1},
        s \in {"native", "broken"}, at \in {0, 3}, path \in {1, 3}}
    \cup {Evidence("openclaw", "p", "a", 2, "native", 3, 4), Evidence("openclaw", "", "b", 1, "native", 3, 4)}

Compared == {Evidence("openclaw", q, "a", 1, s, at, 2) : q \in {"", "p"}, s \in {"native", "broken"}, at \in {1, 4}}

ContractDoc(day, sources) == [verified |-> day, sources |-> sources]

Profile(platform, day) == [platform |-> platform, verified |-> day, sources |-> {"url"}]

PickSupport ==
    \E e \in EvidenceFiles, f \in Compared, day, docDay \in -1 .. 2, platform \in {"openclaw", "claude"}, policy \in {"stale", "ignore"},
       now \in 3 .. 5, later \in {4, 6}, days \in 1 .. 2 :
        /\ platform = "claude" => day = 1 /\ docDay = 1
        /\ docDay # day => policy = "stale" /\ now = 4
        /\ now < later
        /\ days = 2 => docDay = day
        /\ Picks("support",
                 [skill |-> Checked, maxAge |-> 3, evidence |-> {e}, more |-> {f}, doc |-> ContractDoc(docDay, {"url"}), profile |-> Profile(platform, day),
                  policy |-> [days |-> days, contract |-> policy], now |-> now, later |-> later])

-------------------------------------------------------------------------------
(* Discovery: the default registry r1 and another, r2, offer one skill name; *)
(* the index is new, or a file from before one of them changed.              *)

DiscoveredRegistry(r, entries, dists, index) ==
    Offering(r, {e.dir : e \in entries}, dists) @@ [entries |-> entries, supports |-> {"plugins"}, index |-> index]

Shown(state, fresh) == [state |-> state, fresh |-> fresh]

\* Released; unreleased and newer; of two publishers; not distributed; of nobody; kept back.
Discovered(r, verified, needs, index) ==
    LET entry(stage, pub, v, dir) ==
            CatalogEntry(SkillDir(stage, pub, v, <<>>, 0, dir), {"claude"}, needs, verified)
    IN {DiscoveredRegistry(r, {entry("active", "p", 2, 1)},
                           {Distribution("active", "p", 1, 1), Distribution("active", "p", 2, 2)}, index),
        DiscoveredRegistry(r, {entry("incubating", "p", 3, 1), entry("active", "p", 2, 2)},
                           {Distribution("archived", "p", 1, 1), Distribution("active", "p", 2, 2)}, index),
        DiscoveredRegistry(r, {entry("active", "p", 2, 1)},
                           {Distribution("archived", "p", 2, 1), Distribution("active", "q", 2, 1)}, index),
        DiscoveredRegistry(r, {entry("active", "p", 1, 1)}, {}, index),
        DiscoveredRegistry(r, {entry("active", "", 2, 1)}, {Distribution("active", "", 1, 1), Distribution("active", "q", 2, 2)}, index),
        DiscoveredRegistry(r, {entry("incubating", "p", 2, 1)}, {Distribution("incubating", "p", 2, 1)}, index)}

Supports == {<<NoSupport, {}>>, <<NoSupport, {"subagents"}>>, <<Shown("broken", "stale"), {"plugins"}>>,
             <<Shown("native", "fresh"), {"subagents"}>>}

Queries == {[query |-> q, agent |-> a, v |-> v, mode |-> m] :
               q \in {"", "p", "q"}, a \in {"", "openclaw", "codex"}, v \in {0, 2}, m \in {"auto", "confirm"}}

DefaultRegistries ==
    LET r == SourceRegistry("r1", "local", 1)
        cached == SourceRegistry("r1", "git", 1)
    IN {r, Federating(r, "federated", {}, "q" :> "p"), Federating(r, "mirror", {"q"}, <<>>),
        [cached EXCEPT !.refresh = [interval |-> 2, max |-> 4, stale |-> "fail"], !.age = 5]}

PickNamed ==
    \E query \in {q \in Queries : q.mode = "auto" \/ q.v = 0}, s \in Supports, kind \in {"local", "http"},
       index \in {"ready", "invalid", "unreadable"} :
    \E r1 \in UNION {Discovered(r, s[1], s[2], "ready") : r \in DefaultRegistries},
       r2 \in Discovered(SourceRegistry("r2", kind, 2), NoSupport, {}, index) :
        /\ Cardinality(r2.entries) = 1 /\ r2.dists # {} /\ (kind = "local" => index # "unreadable")
        /\ Picks("named", [config |-> [regs |-> {r1, r2}, default |-> "r1"], file |-> {}, ask |-> query])

PickOldIndex ==
    \E query \in {q \in Queries : q.mode = "auto" /\ q.agent # "codex"}, was, now \in {"r1", "r2"}, used \in BOOLEAN,
       kind \in {"local", "http"} :
    \E old, new \in Discovered(SourceRegistry("r1", "local", 1), NoSupport, {}, "ready"),
       r2 \in {r \in Discovered(SourceRegistry("r2", kind, 2), NoSupport, {}, "ready") : Cardinality(r.dists) = 2} :
        Picks("named",
              [config |-> [regs |-> {[new EXCEPT !.enabled = used], r2}, default |-> now],
               file |-> {[regs |-> {old, r2}, default |-> was]}, ask |-> query])

Ranked(agents) ==
    {[reg |-> r, verified |-> v, ready |-> running, agents |-> a, matched |-> 1, trust |-> e[1], maturity |-> e[2],
      quality |-> e[3], checked |-> e[4]] :
        r \in {"r1", "r2"}, running \in BOOLEAN, a \in agents,
        v \in {NoSupport, Shown("broken", "fresh")} \cup {Shown("native", f) : f \in {"fresh", "stale", "unknown"}},
        e \in {<<"unknown", "unknown", 0, FALSE>>, <<"verified", "stable", 100, TRUE>>}}

PickRanked ==
    \E agent \in {"openclaw", "codex"}, x, y \in Ranked({{}, {"codex"}}) : Picks("ranked", [x |-> x, y |-> y, agent |-> agent])

-------------------------------------------------------------------------------
\* Which rule the next input is for.
Looks(at) == rule = "none" /\ given = ("none" :> at)

RuleNext ==
    \/ Looks("versions") /\ PickVersions
    \/ Looks("review") /\ PickReview
    \/ Looks("promotion") /\ PickPromotion
    \/ Looks("names") /\ PickNames
    \/ Looks("visible") /\ PickVisible
    \/ Looks("registry") /\ PickRegistry
    \/ Looks("source") /\ PickSource
    \/ Looks("cache") /\ PickCache
    \/ Looks("support") /\ PickSupport
    \/ Looks("named") /\ PickNamed
    \/ Looks("index") /\ PickOldIndex
    \/ Looks("ranked") /\ PickRanked
    \/ rule \notin {"none", "exposure"} /\ rule' = "none" /\ given' = ("none" :> rule)

MCInit ==
    /\ Init
    /\ \/ rule = "exposure" /\ given = ("none" :> "exposure")
       \/ rule = "none" /\ given \in {("none" :> at) : at \in {"versions", "review", "promotion", "names",
              "visible", "registry", "source", "cache", "support", "named", "index", "ranked"}}

MCNext ==
    \/ rule = "exposure" /\ Next /\ UNCHANGED <<rule, given>>
    \/ RuleNext /\ UNCHANGED vars

MCSpec == MCInit /\ [][MCNext]_<<rule, given, vars>>

\* Requests are interchangeable.
Symmetry == Permutations(Clients)
===============================================================================
