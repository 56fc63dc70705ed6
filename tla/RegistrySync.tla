------------------------------ MODULE RegistrySync ------------------------------
(***************************************************************************)
(* The local cache of one remote registry (src/infinitas_skill/registry:   *)
(* sync.py, refresh_state.py, snapshot.py).  A sync replaces the cache and *)
(* then the refresh state, which says what was fetched and when; resolution*)
(* trusts that state.  A snapshot copies the cache and then describes the  *)
(* copy.  Any step may fail and the command may be killed after it.  One   *)
(* command works on a registry at a time.                                  *)
(***************************************************************************)
EXTENDS Naturals, FiniteSets

CONSTANTS CatalogKeys,  \* catalogs of an http registry; parts of a git tree
          LastUpstream, \* bound: generations of the upstream registry
          LastSnapshot  \* bound: snapshots made

VARIABLES how,       \* "http", or the update policy of a git registry
          upstream,  \* generation published upstream
          cache,     \* generation of each part in the cache
          head,      \* HEAD of a git cache, 0 without a clone
          previous,  \* the cache set aside by a running http sync
          fetched,   \* what the running command has downloaded or copied
          said,      \* source_commit of the refresh state
          snapshots, \* snapshot directories: [tree, listed, commit, clean]
          doing,     \* step of the running command
          before,    \* history variable: the cache when the command began
          broke      \* history variable: the last command failed, not killed

syncVars == <<how, upstream, cache, head, previous, fetched, said, snapshots, doing, before, broke>>

All(g) == [k \in CatalogKeys |-> g]
Nothing == All(0)

\* The commit a pinned registry names is the first one.
Pin == 1

Rests == doing = "idle"

SyncInit ==
    /\ how \in {"http", "track", "pinned"}
    /\ upstream = 1 /\ cache = Nothing /\ head = 0 /\ previous = Nothing /\ fetched = Nothing /\ said = Nothing
    /\ snapshots = {} /\ doing = "idle" /\ before = Nothing /\ broke = FALSE

Publishes ==
    /\ upstream < LastUpstream /\ upstream' = upstream + 1
    /\ UNCHANGED <<how, cache, previous, fetched, said, snapshots, doing, before, broke, head>>

Begin(first) == Rests /\ doing' = first /\ before' = cache /\ broke' = FALSE /\ fetched' = Nothing

\* The command raises.
Fails == doing' = "idle" /\ broke' = TRUE

-------------------------------------------------------------------------------
(* _sync_http_registry *)

HttpStarts ==
    /\ how = "http" /\ Begin("fetch")
    /\ UNCHANGED <<how, upstream, cache, previous, said, snapshots, head>>

\* One request per catalog; upstream may change between two of them.
Fetches(k) ==
    /\ doing = "fetch" /\ fetched[k] = 0
    /\ fetched' = [fetched EXCEPT ![k] = upstream]
    /\ doing' = IF \E o \in CatalogKeys : fetched'[o] = 0 THEN "fetch" ELSE "aside"
    /\ UNCHANGED <<how, upstream, cache, previous, said, snapshots, before, broke, head>>

\* A request fails, or the staging directory cannot be filled.
FetchFails ==
    /\ doing \in {"fetch", "aside"} /\ Fails
    /\ UNCHANGED <<how, upstream, cache, previous, fetched, said, snapshots, before, head>>

\* _replace_http_cache, first rename: only when there is a cache
SetsAside ==
    /\ doing = "aside"
    /\ previous' = cache /\ cache' = Nothing /\ doing' = "in"
    /\ UNCHANGED <<how, upstream, fetched, said, snapshots, before, broke, head>>

\* ... second rename; when it fails the cache set aside returns.
MovesCacheIn ==
    /\ doing = "in" /\ cache' = fetched /\ doing' = "state"
    /\ UNCHANGED <<how, upstream, previous, fetched, said, snapshots, before, broke, head>>

MoveInFails ==
    /\ doing = "in" /\ Fails
    /\ cache' = previous /\ previous' = Nothing
    /\ UNCHANGED <<how, upstream, fetched, said, snapshots, before, head>>

\* write_refresh_state: a temporary file and one rename
WritesState ==
    /\ doing = "state" /\ said' = fetched
    /\ doing' = IF how = "http" THEN "drop" ELSE "idle"
    /\ UNCHANGED <<how, upstream, cache, previous, fetched, snapshots, before, broke, head>>

\* Mutant: the new cache stays when the state could not be written.
AfterStateFailsKept == "idle"

\* The new cache is removed and the old one put back; a git cache stays.
AfterStateFails == IF how = "http" THEN "remove" ELSE "idle"

\* Mutant: the state file is replaced before it is known to be on disk.
SaidAfterFailureNew == fetched

\* os.replace was not reached.
SaidAfterFailure == said

StateFails ==
    /\ doing = "state" /\ doing' = AfterStateFails /\ broke' = TRUE
    /\ said' = SaidAfterFailure
    /\ UNCHANGED <<how, upstream, cache, previous, fetched, snapshots, before, head>>

RemovesCache ==
    /\ doing = "remove" /\ cache' = Nothing /\ doing' = "restore"
    /\ UNCHANGED <<how, upstream, previous, fetched, said, snapshots, before, broke, head>>

RestoresCache ==
    /\ doing = "restore" /\ cache' = previous /\ previous' = Nothing /\ doing' = "idle"
    /\ UNCHANGED <<how, upstream, fetched, said, snapshots, before, broke, head>>

DropsPrevious ==
    /\ doing = "drop" /\ previous' = Nothing /\ doing' = "idle"
    /\ UNCHANGED <<how, upstream, cache, fetched, said, snapshots, before, broke, head>>

-------------------------------------------------------------------------------
(* sync_registry_source of a git registry *)

\* _prepare_git_cache: --force removes the clone first.
GitStarts(force) ==
    /\ how # "http" /\ Begin("clone")
    /\ cache' = IF force THEN Nothing ELSE cache
    /\ head' = IF force THEN 0 ELSE head
    /\ UNCHANGED <<how, upstream, previous, said, snapshots>>

\* git clone --no-checkout if there is none: HEAD without files
Clones ==
    /\ doing = "clone" /\ head = 0
    /\ head' = upstream
    /\ UNCHANGED <<how, upstream, cache, previous, fetched, said, snapshots, doing, before, broke>>

\* check the origin, fetch, resolve the commit
GitFetches ==
    /\ doing = "clone" /\ head # 0
    /\ fetched' = All(IF how = "pinned" THEN Pin ELSE upstream) /\ doing' = "checkout"
    /\ UNCHANGED <<how, upstream, cache, previous, said, snapshots, before, broke, head>>

\* checkout and reset write the files one by one, and HEAD at the end.
ChecksOut(parts) ==
    /\ doing = "checkout"
    /\ cache' = [k \in CatalogKeys |-> IF k \in parts THEN fetched[k] ELSE cache[k]]
    /\ IF cache' = fetched
       THEN doing' = "state" /\ head' \in {fetched[k] : k \in CatalogKeys}
       ELSE UNCHANGED <<doing, head>>
    /\ UNCHANGED <<how, upstream, previous, fetched, said, snapshots, before, broke>>

GitFails ==
    /\ doing \in {"clone", "checkout"} /\ Fails
    /\ UNCHANGED <<how, upstream, cache, previous, fetched, said, snapshots, before, head>>

-------------------------------------------------------------------------------
(* create_snapshot *)

\* Only of a git registry with a clone, although the sync may have stopped in
\* the middle of the checkout (without a refresh policy no state is asked for).
SnapshotStarts ==
    /\ how # "http" /\ head # 0 /\ Cardinality(snapshots) < LastSnapshot
    /\ Begin("copy")
    /\ UNCHANGED <<how, upstream, cache, previous, said, snapshots, head>>

\* Mutant: the description is written while the copy is incomplete.
DescribedEarly == TRUE

\* snapshot.json follows shutil.copytree.
Described == fetched = cache

CopiesPart(k) ==
    /\ doing = "copy" /\ fetched[k] # cache[k]
    /\ fetched' = [fetched EXCEPT ![k] = cache[k]]
    /\ UNCHANGED <<how, upstream, cache, previous, said, snapshots, doing, before, broke, head>>

Describes ==
    /\ doing = "copy" /\ Described
    /\ snapshots' = snapshots \cup {[tree |-> fetched, listed |-> TRUE, commit |-> head, clean |-> cache = All(head)]}
    /\ doing' = "idle"
    /\ UNCHANGED <<how, upstream, cache, previous, fetched, said, before, broke, head>>

-------------------------------------------------------------------------------
\* The command is killed; a snapshot without snapshot.json is not listed.
SyncKilled ==
    /\ ~Rests /\ doing' = "idle" /\ broke' = FALSE
    /\ previous' = Nothing
    /\ snapshots' = IF doing = "copy" THEN snapshots \cup {[tree |-> fetched, listed |-> FALSE, commit |-> 0, clean |-> FALSE]}
                    ELSE snapshots
    /\ UNCHANGED <<how, upstream, cache, fetched, said, before, head>>

SyncNext ==
    \/ Publishes \/ HttpStarts \/ FetchFails \/ SetsAside \/ MovesCacheIn \/ MoveInFails
    \/ WritesState \/ StateFails \/ RemovesCache \/ RestoresCache \/ DropsPrevious
    \/ \E force \in BOOLEAN : GitStarts(force)
    \/ Clones \/ GitFetches \/ GitFails \/ SnapshotStarts \/ Describes \/ SyncKilled
    \/ \E parts \in SUBSET CatalogKeys \ {{}} : ChecksOut(parts)
    \/ \E k \in CatalogKeys : Fetches(k) \/ CopiesPart(k)

SyncSpec == SyncInit /\ [][SyncNext]_syncVars

-------------------------------------------------------------------------------
\* The refresh state never promises more than the cache holds: what is cached
\* is at least as new as what the state says was fetched, after every failure
\* and every crash; otherwise a stale registry would pass for a fresh one
\* (_sync_http_registry and sync_registry_source write the state last).
NeverOlderThanSaid ==
    \A k \in CatalogKeys : cache[k] # 0 => cache[k] >= said[k]

\* A sync of an http registry that fails changes nothing: the cache it found
\* is back in its place (_replace_http_cache, _sync_http_registry).
FailedSyncChangesNothing ==
    how = "http" /\ Rests /\ broke => cache = before

\* A listed snapshot is the whole tree of the commit it names (create_snapshot
\* describes the copy only when it is complete), unless a sync had stopped in
\* the middle of the checkout: HEAD then names a tree that is not there.
ListedSnapshotsAreWhole ==
    \A s \in snapshots : s.listed /\ s.clean => s.tree = All(s.commit)

\* A cache is never older than its refresh state says, a sync that fails
\* leaves both as they were, and a listed snapshot is a whole copy.
SyncIsSafe == NeverOlderThanSaid /\ FailedSyncChangesNothing /\ ListedSnapshotsAreWhole
===============================================================================
