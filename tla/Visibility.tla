------------------------------- MODULE Visibility -------------------------------
(***************************************************************************)
(* Which releases a request sees (server/modules/access/authz.py,          *)
(* server/modules/discovery, server/modules/registry/service.py,           *)
(* server/modules/shared/version_sort.py).                                 *)
(*                                                                         *)
(* The discovery API and the registry API read the same rows and apply     *)
(* the same access rule, each along paths of its own.  db holds the        *)
(* releases, exposures and grants; files the skills of discovery-index.json *)
(* in the artifact directory, which the public paths answer from too; ctx  *)
(* is the request's access context.                                        *)
(***************************************************************************)
EXTENDS Versions, FiniteSets

\* A ready release.  text is its version as a string, by its place among
\* strings; version what the command line reads in it; runs the digits and
\* letters, in lower case, that follow its three numbers; ready when it became
\* ready; whole whether its artifacts are on disk and verify; score how well it
\* matches what is searched for.
ReleaseRow(id, pub, name, version, runs, text, ready, whole, score) ==
    [id |-> id, pub |-> pub, name |-> name, version |-> version, runs |-> runs, text |-> text, ready |-> ready,
     whole |-> whole, score |-> score]

\* A skill of the file, at its place in it, in its latest version.  Those
\* without a qualified name or a version are left out.
FileItem(at, pub, name, version, runs, text, score) ==
    [at |-> at, pub |-> pub, name |-> name, version |-> version, runs |-> runs, text |-> text, score |-> score]

\* live: the exposure is active and its install mode enabled.
ExposureRow(id, release, audience, listed, live, by) ==
    [id |-> id, release |-> release, audience |-> audience, listed |-> listed, live |-> live, by |-> by]

\* A request without credentials, of a user session, an agent or a grant token.
Context(kind, principal, grant) == [kind |-> kind, principal |-> principal, grant |-> grant]

-------------------------------------------------------------------------------
(* The access rule *)

GrantAllows(db, g, r) ==
    \E x \in db.grants, e \in db.exposures :
        /\ x.id = g /\ x.active
        /\ e.id = x.exposure /\ e.audience = "grant" /\ e.live
        /\ e.release = r

HasGrant(db, e, principal) ==
    \E x \in db.grants : x.exposure = e.id /\ x.active /\ x.subject = principal

\* _release_is_accessible, of one exposure.
Opens(db, ctx, e) ==
    \/ e.audience = "public"
    \/ e.audience = "authenticated" /\ ctx.kind \in {"user", "agent"}
    \/ e.audience = "private" /\ ctx.principal # "" /\ e.by = ctx.principal
    \/ e.audience = "grant" /\ ctx.principal # "" /\ HasGrant(db, e, ctx.principal)

CanAccess(db, ctx, r) ==
    IF ctx.kind = "grant" THEN GrantAllows(db, ctx.grant, r)
    ELSE \E e \in db.exposures : e.release = r /\ e.live /\ Opens(db, ctx, e)

-------------------------------------------------------------------------------
(* Entries: a release under one of its exposures *)

\* _projection_from_row
EntryOf(db, e) ==
    LET r == CHOOSE r \in db.releases : r.id = e.release
    IN  [exposure |-> e.id, release |-> r.id, audience |-> e.audience, listed |-> e.listed, pub |-> r.pub,
         name |-> r.name, version |-> r.version, runs |-> r.runs, text |-> r.text, ready |-> r.ready,
         whole |-> r.whole, score |-> r.score, at |-> 0]

\* _catalog_snapshot_projections: of no release, no exposure and no ready time,
\* and nobody looks whether its artifacts are on disk.
FileEntry(item) ==
    [exposure |-> 0, release |-> 0, audience |-> "public", listed |-> TRUE, pub |-> item.pub,
     name |-> item.name, version |-> item.version, runs |-> item.runs, text |-> item.text, ready |-> 0,
     whole |-> FALSE, score |-> item.score, at |-> item.at]

FileEntries(files) == {FileEntry(item) : item \in files}

\* The ORDER BY: publishers and names are numbers here; versions compare as text.
RowBefore(x, y) ==
    \/ x.pub < y.pub
    \/ x.pub = y.pub /\ x.name < y.name
    \/ x.pub = y.pub /\ x.name = y.name /\ x.text > y.text
    \/ x.pub = y.pub /\ x.name = y.name /\ x.text = y.text /\ x.exposure > y.exposure

\* The first n rows of a query in its order.
FirstRows(rows, n, Before(_, _)) == {x \in rows : Cardinality({y \in rows : Before(y, x)}) < n}

ProjectionQuery(db, audiences) ==
    {EntryOf(db, e) : e \in {x \in db.exposures : x.live /\ x.audience \in audiences}}

AllAudiences == {"public", "authenticated", "private", "grant"}

\* build_release_projections: the limit cuts the rows before anyone asks who
\* may see them.
BuildProjections(db, audiences, limit) == FirstRows(ProjectionQuery(db, audiences), limit, RowBefore)

\* projection_has_materialized_artifacts
Available(db, audiences, limit) == {e \in BuildProjections(db, audiences, limit) : e.whole}

AudienceRank(audience) == CHOOSE n \in 1 .. 4 : <<"public", "authenticated", "grant", "private">>[n] = audience

\* Mutant: one entry per skill and version text.
DedupeByName(entries) ==
    {e \in entries : \A f \in entries : f.name = e.name /\ f.pub = e.pub => AudienceRank(f.audience) <= AudienceRank(e.audience)}

\* Of the entries of a release the one of the most restricted audience is
\* kept; a release has one live exposure per audience.
Dedupe(entries) ==
    {e \in entries : \A f \in entries : f.release = e.release => AudienceRank(f.audience) <= AudienceRank(e.audience)}

Reachable(db, ctx, entries) == {e \in entries : CanAccess(db, ctx, e.release)}

-------------------------------------------------------------------------------
(* Latest versions *)

\* Mutant: versions compare as text.
VersionKeyLessText(x, y) == x.text < y.text

\* version_sort_key: the numbers and words of the version, in a row, so that a
\* pre-release follows its release.  What separates them is dropped: two versions
\* with the same numbers and words tie.
VersionKey(e) == [n \in 1 .. 3 |-> Number(e.version.core[n])] \o e.runs

VersionKeyLess(x, y) ==
    LET sign == FirstDifference(VersionKey(x), VersionKey(y), ComparePart)
    IN  sign = -1 \/ (sign = 0 /\ Len(VersionKey(x)) < Len(VersionKey(y)))

VersionKeysTie(x, y) == ~VersionKeyLess(x, y) /\ ~VersionKeyLess(y, x)

\* Where a list holds two entries: rows in the order of the query, file items in that of the file.
Earlier(x, y) == x.at < y.at \/ (x.at = y.at /\ RowBefore(x, y))

\* Of entries whose keys tie an install prefers the one that became ready last,
\* of the most restricted audience (sorted is stable, reversed or not).
InstalledRather(x, y) ==
    \/ x.ready > y.ready
    \/ x.ready = y.ready /\ AudienceRank(x.audience) > AudienceRank(y.audience)
    \/ x.ready = y.ready /\ AudienceRank(x.audience) = AudienceRank(y.audience) /\ Earlier(x, y)

LatestOf(entries) ==
    CHOOSE e \in entries :
        \A f \in entries : VersionKeyLess(f, e) \/ (~VersionKeyLess(e, f) /\ ~InstalledRather(f, e))

\* The index prefers the first in the order of dedupe_entries: the one of the
\* widest audience that became ready first.
IndexedRather(x, y) ==
    \/ AudienceRank(x.audience) < AudienceRank(y.audience)
    \/ AudienceRank(x.audience) = AudienceRank(y.audience) /\ x.ready < y.ready
    \/ AudienceRank(x.audience) = AudienceRank(y.audience) /\ x.ready = y.ready /\ x.text > y.text

IndexLatest(entries) ==
    CHOOSE e \in entries :
        \A f \in entries : VersionKeyLess(f, e) \/ (~VersionKeyLess(e, f) /\ ~IndexedRather(f, e))

-------------------------------------------------------------------------------
(* Discovery: /api/v1/catalog, search and install.  limit stands for the 500 *)
(* rows of a catalog or a user's install; a public or a grant's install and  *)
(* the registry read twice as many.                                          *)

\* A reference [pub, name, text]; pub 0 for a short name, text {} for the latest.
Matches(e, ref) == e.name = ref.name /\ ref.pub \in {0, e.pub} /\ ref.text \subseteq {e.text}

FilterCandidates(entries, ref) == {e \in entries : Matches(e, ref)}

Outcome(kind, entries) == [kind |-> kind, entry |-> entries]

\* _resolve_install_candidate.  The entries of one version string have one key
\* and one ready time, so its two orders of sorting agree on them.
ResolveCandidate(entries, ref) ==
    LET matches == FilterCandidates(entries, ref) IN
    IF matches = {} THEN Outcome("not found", {})
    ELSE IF ref.pub = 0 /\ Cardinality({e.pub : e \in matches}) > 1 THEN Outcome("ambiguous", {})
    ELSE Outcome("found", {LatestOf(matches)})

PublicCatalog(db, limit) == Dedupe({e \in Available(db, {"public"}, limit) : e.listed})

MeCatalog(db, ctx, limit) == Dedupe(Reachable(db, ctx, Available(db, AllAudiences, limit)))

GrantCatalog(db, ctx, limit) == Dedupe(Reachable(db, ctx, Available(db, {"grant"}, limit)))

\* _search_entries, and search_catalog_snapshot of the items of the file: the
\* best are cut at most.
Search(entries, most) ==
    LET before(x, y) ==
            \/ x.score > y.score
            \/ x.score = y.score /\ x.pub < y.pub
            \/ x.score = y.score /\ x.pub = y.pub /\ x.name < y.name
            \/ x.score = y.score /\ x.pub = y.pub /\ x.name = y.name /\ x.text < y.text
            \/ x.score = y.score /\ x.pub = y.pub /\ x.name = y.name /\ x.text = y.text /\ x.at < y.at
    IN  FirstRows({e \in entries : e.score > 0}, most, before)

\* search_registry of the public scope: the database is asked only if the file has no hit.
SearchPublic(db, files, limit, most) ==
    LET hits == Search(FileEntries(files), most)
    IN  IF hits # {} THEN hits ELSE Search(PublicCatalog(db, limit), most)

\* Mutant: the file is asked before the database.
ResolvePublicFromFile(db, files, ref, limit) ==
    LET found == ResolveCandidate(FileEntries(files), ref)
    IN  IF found.kind # "not found" THEN found ELSE ResolveCandidate(Available(db, {"public"}, 2 * limit), ref)

\* resolve_public_install: the file answers what no row matches.
ResolvePublic(db, files, ref, limit) ==
    LET found == ResolveCandidate(Available(db, {"public"}, 2 * limit), ref)
    IN  IF found.kind = "not found" THEN ResolveCandidate(FileEntries(files), ref) ELSE found

\* Mutant: the candidate is chosen first and its access checked afterwards.
ResolveReachableLate(db, ctx, entries, ref) ==
    LET chosen == ResolveCandidate(entries, ref)
    IN  IF chosen.kind = "found" /\ Reachable(db, ctx, chosen.entry) = {} THEN Outcome("forbidden", {}) ELSE chosen

\* resolve_me_install and resolve_grant_install
ResolveReachable(db, ctx, entries, ref) ==
    LET matches == FilterCandidates(entries, ref)
        rows == Reachable(db, ctx, matches)
    IN  IF matches = {} THEN Outcome("not found", {})
        ELSE IF rows = {} THEN Outcome("forbidden", {})
        ELSE ResolveCandidate(rows, ref)

ResolveMe(db, ctx, ref, limit) == ResolveReachable(db, ctx, Available(db, AllAudiences, limit), ref)

ResolveGrant(db, ctx, ref, limit) == ResolveReachable(db, ctx, Available(db, {"grant"}, 2 * limit), ref)

-------------------------------------------------------------------------------
(* The registry API *)

\* Mutant: a grant token sees every entry for grants.
RegistryEntriesOpen(db, ctx, limit) ==
    LET entries == Available(db, AllAudiences, 2 * limit)
    IN  CASE ctx.kind = "anonymous" -> Dedupe({e \in entries : e.audience = "public"})
          [] ctx.kind = "grant" -> Dedupe({e \in entries : e.audience = "grant"})
          [] OTHER -> Dedupe(Reachable(db, ctx, entries))

\* _all_accessible_entries
RegistryEntries(db, ctx, limit) ==
    LET entries == Available(db, AllAudiences, 2 * limit)
    IN  CASE ctx.kind = "anonymous" -> Dedupe({e \in entries : e.audience = "public"})
          [] ctx.kind = "grant" -> Dedupe(Reachable(db, ctx, {e \in entries : e.audience = "grant"}))
          [] OTHER -> Dedupe(Reachable(db, ctx, entries))

\* _listed_entries: asked of the one entry that is kept.
ListedEntries(db, ctx, limit) == {e \in RegistryEntries(db, ctx, limit) : e.listed}

Skills(entries) == {<<e.pub, e.name>> : e \in entries}

OfSkill(entries, skill) == {e \in entries : <<e.pub, e.name>> = skill}

\* _build_ai_index_from_entries: per skill its versions and the latest of them.
AiIndex(entries) ==
    [skill \in Skills(entries) |-> [latest |-> IndexLatest(OfSkill(entries, skill)),
                                    versions |-> {e.text : e \in OfSkill(entries, skill)}]]

\* Mutant: only listed entries may be fetched.
AllowedPathsListed(db, ctx, limit) ==
    {<<e.pub, e.name, e.text>> : e \in ListedEntries(db, ctx, limit)}

\* resolve_registry_artifact_relative_path: the releases whose files it serves.
AllowedPaths(db, ctx, limit) ==
    {<<e.pub, e.name, e.text>> : e \in RegistryEntries(db, ctx, limit)}

-------------------------------------------------------------------------------
(* Properties, of any database, file, context and reference *)

\* What this context is answered by an install; only users, grant tokens and
\* the public have one.
Resolved(db, files, ctx, ref, limit) ==
    CASE ctx.kind = "anonymous" -> ResolvePublic(db, files, ref, limit)
      [] ctx.kind = "grant" -> ResolveGrant(db, ctx, ref, limit)
      [] ctx.kind = "user" -> ResolveMe(db, ctx, ref, limit)
      [] OTHER -> Outcome("forbidden", {})

\* And by a search.
Found(db, files, ctx, limit, most) ==
    CASE ctx.kind = "anonymous" -> SearchPublic(db, files, limit, most)
      [] ctx.kind = "grant" -> Search(GrantCatalog(db, ctx, limit), most)
      [] ctx.kind = "user" -> Search(MeCatalog(db, ctx, limit), most)
      [] OTHER -> {}

\* No path shows a release that the context may not read, under whatever
\* exposure (can_access_releases after the audience filters).  What is not a
\* release comes from the file: only the public paths show it, an install only
\* if no row there is matches, and a search then shows nothing else.
OnlyReadableShown(db, files, ctx, ref, limit, most) ==
    LET MayRead(e) == e.release # 0 /\ e.whole /\ CanAccess(db, ctx, e.release)
        IsFiled(e) == ctx.kind = "anonymous" /\ e \in FileEntries(files)
        install == Resolved(db, files, ctx, ref, limit).entry
        hits == Found(db, files, ctx, limit, most)
    IN  /\ \A e \in RegistryEntries(db, ctx, limit) \cup ListedEntries(db, ctx, limit) : MayRead(e)
        /\ \A e \in install :
               \/ MayRead(e)
               \/ IsFiled(e) /\ FilterCandidates(Available(db, {"public"}, 2 * limit), ref) = {}
        /\ (\A e \in hits : MayRead(e)) \/ (\A e \in hits : IsFiled(e))

\* While the batch limit is not reached, a release the context may read is in
\* its catalog and in the registry, once.
ReadableIsShown(db, ctx, limit) ==
    Cardinality({e \in db.exposures : e.live}) <= limit =>
        \A r \in db.releases :
            r.whole /\ CanAccess(db, ctx, r.id) =>
                /\ Cardinality({e \in RegistryEntries(db, ctx, limit) : e.release = r.id}) = 1
                /\ ctx.kind = "user" => Cardinality({e \in MeCatalog(db, ctx, limit) : e.release = r.id}) = 1
                /\ ctx.kind = "grant" => Cardinality({e \in GrantCatalog(db, ctx, limit) : e.release = r.id}) = 1

\* Without the releases the context may not read, an install resolves to the
\* same release: they neither shadow a version nor make a short name ambiguous.
HiddenDoesNotMatter(db, ctx, ref, limit) ==
    LET known == {r \in db.releases : CanAccess(db, ctx, r.id)}
        seen == [db EXCEPT !.releases = known,
                           !.exposures = {e \in db.exposures : \E r \in known : r.id = e.release}]
        With(d) == IF ctx.kind = "grant" THEN ResolveGrant(d, ctx, ref, limit) ELSE ResolveMe(d, ctx, ref, limit)
    IN  ctx.kind \in {"user", "grant"} /\ Cardinality(db.exposures) <= limit /\ known # {} =>
            /\ With(db).entry = With(seen).entry
            /\ (With(db).kind = "ambiguous") = (With(seen).kind = "ambiguous")

\* The registry index and the install API agree: the index names no version
\* that cannot be fetched, and while the batch limit is not reached an install
\* resolves to its latest.  To another version it resolves only if the keys of
\* the two tie, as those of 1.0.0-rc.1 and 1.0.0-rc1 do: then the index has the
\* one that was ready first and the install takes the one that was ready last.
IndexIsInstallable(db, files, ctx, limit) ==
    LET index == AiIndex(RegistryEntries(db, ctx, limit))
    IN  \A skill \in DOMAIN index :
            /\ \A text \in index[skill].versions : <<skill[1], skill[2], text>> \in AllowedPaths(db, ctx, limit)
            /\ ctx.kind # "agent" /\ Cardinality({e \in db.exposures : e.live}) <= limit =>
                 LET found == Resolved(db, files, ctx, [pub |-> skill[1], name |-> skill[2], text |-> {}], limit)
                 IN  found.kind = "found" /\ \A e \in found.entry : e.release # 0 /\ VersionKeysTie(e, index[skill].latest)

\* Without pre-releases the server's latest is the one compare_versions of the
\* command line puts last (version_sort_key against version_constraints.py).
LatestIsNewest(db, ctx, limit) ==
    LET entries == {e \in RegistryEntries(db, ctx, limit) : e.version.pre = <<>>}
    IN  \A skill \in Skills(entries) :
            \A e \in OfSkill(entries, skill) :
                CompareVersions(e.version, IndexLatest(OfSkill(entries, skill)).version) <= 0
===============================================================================
