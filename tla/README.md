# A formal model of infinitas-skill

infinitas-skill is a private registry for agent skills. A *hosted control plane* (`server/`: FastAPI,
one SQLite database, an artifact directory and one worker process) stores skills, seals versions,
builds signed releases, lets agents in and decides who may see what. A *command line*
(`src/infinitas_skill/`) installs, publishes, releases and administers skills. This directory holds TLA+
specifications of both, TLC configurations that check them, and TLAPS proofs for every value of the
constants. `PROJECT.json` maps each definition to the source lines it models and lists runs, theorems and the
most consequential hazards; section 3 ends with further behaviours the models show.

## 1. Inventory

### The hosted control plane

| Component | State | Operations | What is hard | What makes it correct |
|---|---|---|---|---|
| Job queue, worker | `jobs` rows, `repo.lock`, a worker's ORM copy of its row | enqueue, claim, reclaim, heartbeat, complete, retry, fail | crashes, lease expiry, lock timeouts, several workers, stale ORM copies | a settled job stays settled, claims are bounded, one job at a time under the lock, no queued job is forgotten |
| Releases, agent publishing | `releases`, `artifacts`, `agent_publish_intents`, files | request a release, publish as agent, materialize, decide the intent | files outside the transaction, partial work committed by the failure handler, duplicate jobs, policy changes | a published release has its artifacts, a preparing release has a job, an intent is decided once and under the policy |
| Exposures, reviews | `exposures`, `review_cases`, `review_decisions` | create, activate, revoke; open and decide a case | reads separated from writes, row-by-row commits | a blocking review is never bypassed, a case is decided once, a closed exposure stays closed |
| Content, versions, artifact store | `skill_contents`, `skill_versions`, content-addressed objects | upload, prune, seal; rollback cleanups | objects shared by digest, files outside the transaction, savepoints that commit | sealing is final, a referenced object stays, the quota holds |
| Change sets | `skill_change_sets`, the latest-digest marker | propose, submit, reject, accept, archive | several agents against one latest version | no lost update, a content is used once, the marker is right |
| Agent enrollment | invitations, reservations, enrollments, agents, credentials | invite, submit, approve, reject, suspend, revoke, recover, rotate | check-then-write handlers racing on several tables | a namespace has one owner and one open invitation, a live agent one key, a revoked agent none |
| Access | exposures, access grants, credentials | create, resolve and revoke share links; issue and revoke tokens | limits, expiry and revocation under concurrent use | at most *limit* uses, nothing after revocation, no token outlives its link |
| Rate limits, quotas | `rate_limit_entries` | consume, check, record, reset | the reset of the window in the same statement as the limit | no burst above the limit, no refusal below it |
| Users, sessions | `users`, session credentials, cookies, the configured users | log in, log out, restart with another configuration | overlapping logins, passwords that change | a session proves a password that still counts |
| Read models | derived rows and indexes | list, search, resolve, download, serve the registry index | six paths with their own filters around one access rule | a path shows what the rule allows, the newest first |
| Audit, UI, shell, data snapshots | append-only or none | query, render, seed | little of their own | |

### The command line

| Component | State | Operations | What is hard | What makes it correct |
|---|---|---|---|---|
| Installation | a tree per skill, the manifest with its history and events, a snapshot file | install, switch, upgrade, sync, rollback, repair, refresh | two renames and a subprocess, any of which may fail or be the last step of a killed command | manifest and tree agree, no tree is lost, no local edit is overwritten unasked |
| Dependency planning | none (a plan) | resolve, validate, order | backtracking over constraints met late | plans satisfy every constraint, and one is found if there is one |
| Choice of a source | configured registries, caches | validate, scan, federate, select | many cases: pins, update modes, snapshots, trust, priorities | the source asked is allowed, fresh enough and of the highest priority |
| Registry sync, snapshots | a cache, its refresh state, snapshots | sync (git, http), snapshot | cache and state are written one after the other | a state never claims a newer cache than there is |
| Hosted publishing | the receipt beside the directory; the server's rows | `registry publish`, with `--wait`, `--resume` | lost and late answers, kills, two commands, expiry | what is reported is true; repeating publishes |
| Release of a version | Git checkout, tags, bundle, manifest, provenance, signature, transparency log | tag, publish, verify | twenty steps, any of which may fail; operator, CI and others act between them | what verifies was attested, logged if required, and is what the tag names |
| Policy | policy files, packs, reviews, exceptions | evaluate, merge, authorize | layers, overrides, teams, dates | the gate is backed by the right people |
| Compatibility | evidence files, contracts | merge, judge freshness, gate | evidence that ages, two functions picking it | newer evidence decides, and only one's own |
| Discovery | ai-index, discovery index | build, load, resolve, install by name, rank | indexes older than what they describe | what is offered can be installed, and is the same skill |
| OpenClaw snapshots | the agent's files, archives | create, restore several targets | files that change under the archiver; partly undone restores | one instant; all targets or none |
| Server backups | archives, remote copies, receipts | back up, export, prune, rehearse | the web process writes meanwhile | every row's artifact is in the backup; the only copy is never pruned |
| Agent profile | the profile and the pending rotation beside it | join, rotate-key | the key is replaced on two machines | the only key is never lost |

**Interaction.** Web handlers and the worker share the database and the artifact directory. A handler
enqueues a job row in the transaction of its own change; the worker polls the table. A job is processed
under `repo.lock`, a file lock also taken by backups and by the setup of the runtime repository.
Publishing as an agent goes through authoring (a sealed version), release (the intent and the job) and
exposure (the activation in the job). The command line is an HTTP client of the server (publishing,
the agent's keys, hosted registries) and otherwise works on files: sync fills the caches that
the choice of a source reads, discovery indexes what the sources offer, installation takes what was chosen,
and a release is gated by policy and compatibility.

### How transactions really behave here

The models rest on these facts about the build, read from `server/db.py`, `uv.lock` and the
documented semantics of SQLAlchemy and SQLite:

- a session does not autoflush and does not expire objects on commit, so a handler works on the rows
  it read first; with the `sqlite3` driver a SELECT opens no transaction and `with_for_update` is a
  no-op. Reads are therefore steps of their own;
- the first INSERT/UPDATE/DELETE takes SQLite's only write lock until the commit, so from there to
  the end of a transaction no other session writes;
- a SAVEPOINT issued with no transaction open *is* the transaction: releasing it commits. Whether one
  is open depends on earlier writes of the request, for instance on `credential.last_used_at`, which
  is touched at most every five minutes;
- the ORM updates a row by primary key and only in the columns whose value changed;
- FastAPI leaves `get_db` (commit or rollback) after the response is sent;
- uploads are coroutines on one event loop; the other handlers run in threads; the worker is a process;
- the worker records a job's failure in the session of the job, so what the job had flushed is
  committed with the failure.

Files are simpler: a rename is atomic, a directory tree or a JSON file written in place is not, and a
killed command runs no `finally` clause.

## 2. The modules

`X` is the specification, `MCX` its instances for TLC, `XProofs` its theorems. `AccessProofs` also holds those of
`RateLimit`, `Sessions` and `AgentEnrollment`, `ReleasePipelineProofs` those of `JobQueue`, `CliFilesProofs`
those of all commands that rewrite files, and `RulesProofs` those of the rules.

### JobContract and JobQueue

`JobContract` is what the table promises whoever enqueues a job: submit, start, restart, requeue,
settle. `JobQueue` is the code. `jobs[j]` is the row (status, attempts, lease as NULL, future or past),
`lock` the file lock, `pc` the place of each worker in `run_worker_loop`, `claim` the id it claimed,
`obj` its ORM copy.

| Action | Code |
|---|---|
| `Enqueue` | `jobs.enqueue_job` |
| `Claim` | `claim_next_job`: oldest queued, else oldest stale under `MAX_JOB_ATTEMPTS`, in its own transaction |
| `LockRepo`, `LockTimeout` | `repo_ops.locked_repo`, then reading the row |
| `RenewJobLease`, `Checkpoint`, `RenewalRefused` | `_renew_job_lease` at the start (with a refresh) and at each phase (without) |
| `JobSucceeds`, `JobRaises` | `complete_job`, `fail_job` with its retry limit, written from the ORM copy |
| `SessionRollsBack`, `Crash`, `Restarted` | `session_scope`'s rollback, process death, the supervisor |
| `LeaseExpires`, `OutsiderLocks`, `OutsiderUnlocks` | the clock, backups and repository setup |

### ReleasePipeline (composes JobQueue)

Extends the queue with releases, artifact rows (none, describing the files, or outdated), publish
intents, the agent's policy and the requests. A request is its reads (`CreateReleaseReads`,
`PublishReads`) and its writes (`CreateReleaseWrites`, `PublishNewWrites`, `PublishExistingWrites`,
`PublishEnqueues`); `RequestFails` is any error before the commit. The worker's steps inside a job are
`FindsCurrent`, `BuildsFiles` (files first), `DecidesIntent` (the policy is read) and the outcome,
`MaterializationSucceeds` or `MaterializationRaises`, which commits the job together with whatever part
of release, rows and intent had been flushed; a failure for good marks the release *failed*, even a ready one.
`TransactionLost` is a crash or rollback: the files stay,
the rows do not. `AgentChanges` and `FilesDamaged` are the environment. `SwitchedOff` says that the agent may not
publish and that no
worker is at a job of the release, so that no verdict read earlier is still to be acted on. Bundle, manifest, provenance and
signature are data: the model only knows whether the artifact rows describe the files.

### ExposureReview

One release, its exposures, cases and verdicts. `create_exposure` is up to four steps (read, insert, open
the case, settle) because its savepoints commit one by one; `activate_exposure` and `revoke_exposure` are
read, look up, write. `RecordDecision` is one step: it is a conditional UPDATE. The two partial unique
indexes are guards. `AgentPublishes` is the activation made by a publish intent.

### ContentStore

Rows, objects by digest, versions, SQLite's write lock and what each session has not committed.
An upload prunes expired contents (`PruneMarks`, `PruneSweeps`), checks quota and references
(`UploadChecks`), stores the object (`UploadPuts`), inserts the row in a savepoint (`UploadInserts`),
audits, and commits later. Failures lead to `RollsBack` and `CleansUp` (the registered file deletions).
`SealReads`/`SealWrites` create a version. `Faults` switches failing writes, lock timeouts and crashes,
so that a run can show what happens without any.

### ChangeSets

One skill: `history` is the sequence of sealed contents (a version's id is its place), `latest` the
digest marker, `changes` the change set of each content. A handler is its reads, kept in `req`, and its
write. `AcceptWrites` is the savepoint of `create_skill_version_snapshot`, which compares the digest of
the latest version again, seals, and supersedes the competitors.

### AgentEnrollment

Reservations, invitations, enrollments, agents, the live keys of each and the requests in progress. Each
handler is a read and a write (`InviteReads`/`InviteWrites`, `SubmitReads`/`SubmitWrites`, `DecideReads` and
`ApproveWrites`, `RecoverWrites` or `RejectWrites`, `ReleaseReads`/`ReleaseChecks`/`ReleaseWrites`,
`RotateReads`/`RotateWrites`): the write compares again only what the code's conditional UPDATE compares.
`InviteReserves` is the nested insert of a reservation, which may lose to another request and goes on with
the winner's. `TransitionAgent` and `RevokeInvitation` are single statements, `Lapses` the clock.

### Access, RateLimit, Sessions

`Access` has exposures, links (grants with expiry, limit and count) and the tokens issued for them;
`ResolveReads`/`ResolveWrites` exchange a link for a token, `RevokeReads`/`RevokeWrites` revoke a link and
the tokens a query found. What a token opens (`Opens`) is a predicate on the rows, as in `authz.py`.
`RateLimit` is one row under `Consume`, `Refuse`, `Reset` and the clock. `Sessions` has logins as read
and write, the age of cookies and `Restart`, which applies a new configuration of users. They share no
state with each other or with `AgentEnrollment`, so `MCAccess` runs one of the four in each behaviour.

### AgentProfile

The profile file and the pending rotation beside it against the server's accepted keys. `CommandStops`
kills the command anywhere, `RotatePosts` may lose the answer; the next command resumes the pending
rotation and probes which key the server knows.

### Install

`tree`, what is aside in the transaction directory, the manifest with history and inline events, the
snapshot file of older events. A command is its checks (`StartInstall`, `StartSwitch`, ...), the staging,
two renames (`MovesAway`, `MovesIn`), the manifest (`ManifestWrites`), the snapshot (`SnapshotWrites`) and the
undoing (`Undoes`, `PutsBack`), each of which may fail, the renames back included (`MoveBackFails`, `PutBackFails`);
`Killed` and `KilledWriting` stop it anywhere. `proof` says what an installed tree can be verified with: a signed list of
files, nothing (a working tree, recorded as *unknown*), or something that no longer verifies (`LosesProof`). Only the
first shows local edits (`Drifted`); of the others the recorded state is believed. A snapshot is written in place, and
half of one reads as no events of any skill (`SnapshotStops`).

### RegistrySync, OpenClawSnapshot, Backup

`RegistrySync`: an http sync fetches catalog by catalog, sets the old cache aside, moves the new one in,
writes the state; a git sync clones, fetches and checks out; a snapshot copies part by part and is then
described. The upstream registry publishes at any time. `OpenClawSnapshot`: creating lists, digests and adds
file by file while the agent writes; restoring swaps target after target and undoes, and any rename back may fail. `Backup`:
database, artifacts, rename; export with verification and receipt; prune, also with damaged archives. The web process
goes on meanwhile: uploads store, commit or clean up (`WebStores`, `WebCommits`, `WebCleansUp`), and an upload's prune
deletes the objects of expired rows before it commits their expiry (`WebPrunes`, `WebExpires`).

### SkillRelease

The checkout (worktree, index of commits, upstream branch), tags, the bundle, manifest, provenance,
signature and log entry on disk, and the command with its step. `Steps` walks through `release tag` and
`release publish`: readiness, tag, push, bundle, manifest, CI companion, provenance, signature, log,
verification. Any step that calls git, ssh-keygen or the network may fail, the log's answer may be lost, and
`KillRelease` stops the command; the developer, other people and the CI act between commands.

### HostedPublish

The receipt of each directory, each command with its copy of the receipt in memory, the server's contents,
version, release, intent and exposure, and requests that arrive after the client gave up (`late`,
`Deliver`). `Step` is one HTTP exchange and the rewriting of the receipt. The server's side is that of
ReleasePipeline and ContentStore as the client can observe it: `jobs` counts the materializations queued or running, of
which a user's requests may add a second, also for a ready release. A job completes (`Materialize`), fails for good
and marks the release *failed* whatever it was (`MaterializeFails`), is queued again (`MaterializeRetried`), or is
never claimed again (`JobAbandoned`). `shown` remembers which user's commands had their bundle ready and exposed
at some moment since they learnt that the release was ready.

### Planner

The dependency resolution of an install (`install/service.py` with its helpers) as a state machine. `selected` is
the candidate chosen for each identity, `required` the requirements not yet looked at, `choices` the calls of
`_resolve_candidates` in progress, each with the candidates it has left, the selection it goes back to and the
requirements behind it; `visits`, `visited` and `applyOrder` belong to the ordering. `problem` (the root, the catalog,
what is installed, the mode) never changes.

| Action | Code |
|---|---|
| `Finds`, `Disagrees`, `Reuses`, `OpensChoice` | `_resolve_recursive`: nothing left; the next group of requirements excludes each other or the selected version; the selected version will do; candidates are needed |
| `RejectsCandidate`, `TriesCandidate`, `GivesUp` | the loop of `_resolve_candidates`, its copy of the state, and the error after the last candidate |
| `Validates` | `validate_final_state` |
| `VisitsDependency`, `Applies` | `visit` of `plan_builder.py` |

An error goes to the innermost call that still tries candidates (`Raises`). The order of candidates is
`CandidateComparator`, as a key. `MaxDepth` is the interpreter's recursion limit. The references are `Consistent`, what a
set of candidates must be whoever found it, and `Needed`, what belongs to every closed set with the dependencies of a skill.

### PolicySources

`load_policy_domain_resolution`: the selection, each active pack and the local file are read and merged in turn, first
the fields (`MergesFields`), then the exceptions one by one (`MergesItem`); a bad selection or pack refuses
everything. An object is a function from paths to values, so that `_merge_values` is one expression (`MergeValues`) and
typing says that no field lies below a value. The reference knows no merging: `Layered` says which entry of all
sources decides a field, `Represents` that there is one record for each exception id, in the order of first appearance.

### Rules: Versions, SourceResolution, Discovery, Visibility, ReviewPolicy, NamespacePolicy, Compatibility

Pure functions of the code, written as operators and checked against reference definitions that are stated
differently: `Versions` translates the parsing of ranges, its reference the ranges' meaning; `SourceResolution`,
`Discovery` and `Visibility` are pipelines of filters and sorts, their references quantified statements
about the input; `ReviewPolicy`, `NamespacePolicy` and `Compatibility` are gates, their references say who and
what must stand behind an open one. `Discovery` extends `SourceResolution`: the skill it finds is the one the other
resolves. `Visibility` has two sources: the rows of the database, and the items of the `discovery-index.json` in the
artifact directory (`FileEntry`), from which the public search answers first and the public install last
(`SearchPublic`, `ResolvePublic`). Its version key ties where that of the code does, and index and install each have
their own order among equals (`IndexedRather`, `InstalledRather`). `Rules` states the properties over one variable,
the input `given` to the `rule` that is looked at; `MCRules`
picks one rule and gives it one input after the other, or runs `ExposureReview`, which shares no variable with the
rules. `MCPlanning` runs `Planner`, `PolicySources` or `AgentProfile` in each behaviour. No module of the project is
recursive.

## 3. Runs

All bounds are CONSTANTS of the cfg. "States" are distinct states, rounded, after symmetry.

| Run | Bounds | States | Shows |
|---|---|---|---|
| `jobs_one_worker` | 1 worker, 2 jobs, the code's limits 10 and 3 | 17k | types, claims bounded, the contract is implemented, queued jobs settle |
| `jobs_many_workers` | 3 workers, 2 jobs, limits 3 and 2 | 64k | the lock serialises, the lease follows the status, one claim over the limit at most |
| `release_safety` | 2 requests, 1 worker, 2 jobs, 1 release | 758k | the safety of publishing: types, artifacts, jobs, intents decided once |
| `release_settles` | 1 request, 1 worker, 2 jobs | 178k | every release leaves *preparing* or its job is abandoned; an agent switched off between jobs publishes nothing more |
| `content_store` | 2 web sessions and the worker, 3 contents, 1 digest, quota 1, faults | 820k | final sealing, quota plus one, how an object can be lost |
| `change_sets` | 2 clients, 3 contents, 3 bundles, 2 version strings | 785k | no lost update, marker, one-use contents |
| `access` | 2 requests; 1 name, 3 invitations, 4 keys; 2 links, 3 tokens; 2 attempts in 3 of 9 seconds; 3 sessions, 2 passwords | 450k | enrollment, links and tokens, rate limits, sessions under races, expiry and restarts |
| `cli_files` | 2 skills, 3 releases of which one has signed files, 2 commands; 3 upstream generations; 2 files with 2 edits; 1 artifact, 3 backups; 2 commits, 2 tags, 1 fault, 2 signing policies, the second without faults | 1.4M | what file-rewriting commands leave after any failure or kill |
| `hosted_publish` | 1 command with 3 troubles and 2 jobs at once; 2 of a user on one directory with 1, other pairs with none, 1 job, the second always with `--wait`; 2 bundles, 4 uploads | 658k | true reports and receipts; repeating publishes |
| `planning` | 2 skills of 2 versions that need or exclude each other, another publisher's skill of the same name, one installed with or without lock and conflict, 4 open choices; 2 packs and the local file, 3 paths, 2 exception ids, up to 3 exceptions of one file; 3 keys | 57k | plans are consistent, ordered and found if there are any, locks and conflicts of what is installed are kept, every planning ends; the last policy source decides and the result stays an object; a key rotation keeps the accepted key and completes |
| `reviews_and_rules` | 2 requests, 1 exposure, 2 cases; tables of inputs in `MCRules`: two to four of everything a rule compares | 671k | blocking reviews and unique decisions; each rule against its reference |
| `exposure_reopened` | 1 request, 1 exposure, 2 cases | | see below |

**Why the bounds are enough.** The races need two actors on one row, so two requests (or a request and the
worker) on one release, exposure, digest, skill, link or name reach them; three workers let one claim while
another holds the lock and a third's copy is stale. Two jobs give a duplicate job and an order in the queue.
One digest makes every content share its object, the hardest case. Three contents give an accepted, a
superseded and a rebased change set; three invitations one that is used, one that recovers and one that
competes; three seconds of window in nine let it start over twice. For files, two targets are the fewest
a partly undone replacement can tell apart, and one fault followed by a second command shows what a failure
leaves behind for its successor. Two skills of two versions let a candidate fail only after a later choice, of itself
or of another; three sources
let one override what another has merged. Rules compare at most two things at a time with a third as bystander. Smaller
attempt limits keep both limits distinct and reachable; one run uses the code's own numbers. The theorems
below remove the bounds where they apply. The number of jobs, cases, exposures and contents is capped
because the tables only grow; the models with such a cap, or with a bound on commands or troubles, stop when it is
used up, as a planning and a merge of policies do when they are done, and the cfg says so (`CHECK_DEADLOCK FALSE`)
where no other step remains.

**What the properties are made of.** Many properties are conjunctions of named parts, each with
its own comment in the module, so that a counterexample names the promise and the part that fails is one step
away. Each part has at least one mutant of the code's definitions that breaks it (`mutants` in PROJECT.json):

| Property | Parts |
|---|---|
| `EnrollmentIsSafe` | `EnrollmentTypeOK`, `OneLiveKey`, `OneOpenInvitation`, `UnapprovedKeyIsDead`, `OneInitialApproval`, `RevokedAgentKeys`, `DecisionsAreFinal` |
| `LinksKeepTheirLimits` | `AccessTypeOK`, `UsesAreCounted`, `RevokedOpensNothing`, `TokenDiesWithLink`, `OpenIsRevocable`, `LostAccessIsLost` |
| `LoginsAreGuarded` | `RateIsExact` (`RateTypeOK`, `BoundedBurst`, `RefusedOnlyWhenFull`) and `SessionsAreSound` (`SessionTypeOK`, `SessionProvesPassword`, `FewLiveSessions`) |
| `InstallIsSafe` | `InstallTypeOK`, `ManifestMatchesTree`, `NothingLost`, `HistoryIsRecent`, `EventsKept`, `LocalEditsKept` |
| `SyncIsSafe` | `NeverOlderThanSaid`, `FailedSyncChangesNothing`, `ListedSnapshotsAreWhole` |
| `SnapshotsAreSafe` | `SnapshotIsOneInstant`, `RestoreAllOrNothing`, `OldContentNotLost` |
| `BackupsAreSafe` | `BackupIsConsistent`, `NoBackupIsLost`, `UploadsAreKept` |
| `ReleasesAreAttested` | `StableIsSnapshot`, `VerifiedIsLogged`, `BundleWasAttested` |
| `FlowIsConsistent` | `FlowTypeOK`, `PublishedHasArtifacts` |
| `HistoryIsSound` | `ChangesTypeOK`, `LatestIsLast`, `SealedAreConsumed` |
| `PlansAreRight` | `PlanTypeOK`, `PlanIsSound`, `PlanIsComplete`, `PlanRespectsInstalled`, `PlanFits` |
| `LayersAreRight` | `PolicyTypeOK`, `LastSourceDecides` |
| `ReportsAreTrue` | `PublishTypeOK`, `PublishedIsThisBundle`, `ReceiptIsTrue`, `UploadedOnce` |
| `SourcesAreRight` | `VersionsAreOrdered`, `RangesAreSafe`, `KeysOrderVersions`, `SyncFollowsPolicy`, `CachesAreFreshEnough`, `SourcesAreAsked`, `ManifestsMatch`, `PriorityDecides`, `HeldVersionsAreFound`, `DescribedInstalled`, `OthersDoNotMatter`, `OfferedInstalls`, `AgentViewsAgree`, `RankingIsSensible` |
| `VisibilityIsRight` | `NothingLeaks`, `ReadableShown`, `HiddenIsIrrelevant`, `IndexInstallable`, `ServerLatestIsNewest` |
| `GatesAreRight` | `OpenGatesAreBacked`, `LateEvidenceIgnored`, `DecisionsOneWay`, `RecommendationsHelp`, `PromotionsAreEarned`, `NamesHaveOneHolder`, `SignersLeave`, `OnlyNewerEvidence`, `OwnEvidenceOnly`, `CatalogMatchesGate`, `ContractsReachGate` |

**Fairness.** Weak fairness of the worker's loop: it polls forever, `locked_repo` returns or times out after
120 seconds, a job body terminates, the supervisor restarts the process (`restart: unless-stopped`), and
the clock reaches a lease's expiry. Nothing is assumed of requests, crashes, checkpoints, rollbacks or
other holders of the lock. Under it a crash before every outcome is possible, and the properties hold
because each claim counts against the limit. `hosted_publish` assumes that somebody repeats `publish --wait` and that a
job which neither fails for good nor is abandoned completes: this is what `QueuedJobsSettle` says of the queue. Failed,
repeated and abandoned jobs are troubles like crashes and lost requests, bounded in number, not in time. The rotation
of an agent's key
assumes strong fairness of the command's steps: it is repeated until it is not killed before its next step. A
planning is assumed to run until it is done.

**A disagreement with the documentation.** `exposure_reopened` is expected to fail:
`docs/reference/error-catalog.md:89` says a closed exposure cannot be re-activated; a review case opened
after the revocation and approved does it.

### Further behaviours the models show

They are properties of the code a maintainer may want to know, not violations of a stated promise
unless a document is named.

*Jobs and releases.* A lock timeout leaves the claimed job *running* until its lease expires; with two
workers a failed job can keep a lease. A retryable failure after registration commits the release as ready
while its job is queued again (`tests/integration/test_private_registry_release_materialization.py:545`
expects *preparing*, for an earlier failure); two requests may both enqueue a job for one release
(`docs/ops/server-deployment.md:271` excludes duplicates); if the second of them fails for good it marks the ready
release *failed*. A publish intent whose enqueue failed stays pending, though
`docs/plans/2026-08-20-agent-enrollment-public-skill-backup-plan.md:305` promises release, intent, quota and job in one
transaction: `CompletedJobDecidesIntent` is about intents a job carries and says nothing of these. A worker in the middle
of a job activates an intent on the policy it read before a suspension (line 307 of that plan asks for the *current*
policy).

*Content and reviews.* A failed upload's savepoint leaves its row (`README.md:140`: services do not
commit). A prune can delete the object of a concurrent upload of the same bytes
(`docs/reference/configuration.md:85`), and expire a content sealed since it was listed, with its object;
`SealedNotPending` and `ConsumedKeepsObject` leave room for just this. The quota of pending contents is exceeded by
one, where `docs/reference/configuration.md:86` names a maximum. A revocation may overwrite the state of a case a
reviewer has decided (the verdict row stays), and an activation that read its exposure before a revocation undoes it:
the properties of the run are about recorded decisions and about exposures no request is at work on, and see neither.

*Enrollment.* A recovery approved over a revocation of the same agent leaves a live credential of a revoked agent
(`RevokedAgentKeys` excuses it); every authenticated operation refuses it by the agent's state, but
`docs/plans/2026-08-20-agent-enrollment-public-skill-backup-plan.md:188` says a revocation revokes every
credential, and line 248 that a recovery never revives a revoked agent.

*Read models.* The limits of 500 and 1000 rows are applied before access is checked; the registry
listing drops a release whose most restricted exposure is unlisted although another is listed; on the server a
pre-release sorts after its release. Version keys may tie (1.0.0-rc.1, 1.0.0-rc1, 1.0.0-RC1): the index then names the
release that was ready first, an install takes the one that was ready last. The public install falls back to
`discovery-index.json` (`server/modules/discovery/service.py:371`), and the public search asks it first
(`search_router.py:211`): the file is the catalog committed to the repository, copied when the server is set up
(`server/artifact_ops.py:50`, `docker/bootstrap-runtime-repo.py:49`). It knows nothing of revocations and artifacts, and
one hit in it hides the hits of the database.

*Publishing from the command line.* A receipt whose uploaded content has expired is presented again by every
repetition, with `--resume` or without. Repeating a publication whose release failed queues the job and
reports the failure at once; an agent's failed release, or one whose job was abandoned, is never queued again. Two
commands on one directory overwrite each other's receipts. *Published* is true of one moment: a duplicate job may
fail the release and somebody may revoke the exposure before the command says so, and an agent's command looks at the
intent, not at the exposure.

*Releasing.* In local-tag mode the attested commit need not be the bundled worktree. `publish --push-tag` cannot be
repeated once its tag exists, and in trust modes that need a CI companion the companion cannot exist before the
tag is pushed. `tag --force` deletes the tag before it looks for a key. A stale log entry fails the
verification even when the log is advisory. A publication overwrites provenance and signature in place, and
a torn file blocks every later command.

*Installing.* Switch, upgrade, sync, rollback and repair do not undo the tree when the manifest cannot be
written (`docs/plans/2026-03-12-discovery-distribution-design.md:437` asks for it); install does. A failing
snapshot after the manifest undoes the tree only. A torn manifest blocks every command; a torn snapshot loses the
archived events of all skills (`installed_integrity.py:427`, read at 80-85). Dependencies are
replaced without the drift check. Edits of a skill without signed files, or whose signed files no longer verify, are
replaced without `--force` and without a question (`common.py:442-449`, `installed_integrity.py:455-458`).
`--force` skips the drift check with the others, although its help says *after drift checks* (`switch.py:40`,
`upgrade.py:40`, `sync.py:27`, `rollback.py:29`, `docs/reference/cli-reference.md:324`);
`docs/reference/distribution-manifests.md:160` and `docs/reference/installed-skill-integrity.md:160` describe what it
does. Two commands on one target are not excluded.

*Backups.* The web process is not excluded from a backup: an object deleted between the copy of the database and that of
the artifacts, by an upload's prune (`server/modules/authoring/service.py:129`) or by the clean-up of a failed upload of
the same bytes, is missing although rows of the copy name it. `docs/ops/server-backup-and-restore.md:247` asks for a
point-in-time consistent restore; the rehearsal does not look for the objects rows name.

*Planning.* A dependency that names no publisher is selected under its bare name, and the skill it found under the
publisher's: two skills that need each other this way are never recognised as selected, and the search nests until the
interpreter's recursion limit (`overflow`; the properties are about problems without such names, `Exact`). A
dependency that does name a publisher falls back to any publisher's skill of that name when its own has none. A conflict
with a registry hint never matches an installed skill, because the manifest's entries have no `registry_name`.

*Sources and discovery.* The resolver does not validate the configuration; sync does. A git
registry with update mode *remote-only* is valid and cannot be synced, and so is a local registry whose URL is not
among its hosts. Among active directories of one
registry the oldest is preferred when no version is named. A registry that is not fresh enough is passed over
silently. A forced git sync whose clone fails leaves a fresh state without a cache. The discovery index is
built without allowlist, publisher mapping, mirror mode and freshness, so it may offer what installation
refuses; it is read as it was built unless an http registry is enabled.

*Policy and compatibility.* Exceptions of one id are merged also when they stand in the same file, so the check for duplicate
ids never sees them. Naming signers replaces the delegation to teams. Evidence dated in the future
stays fresh; evidence that names no publisher counts for every skill of the name.

## 4. Proofs

| Module | Theorems | Inductive invariants |
|---|---|---|
| `ReleasePipelineProofs` | of the queue: `TypeCorrect`, `LockCorrect`, `LeaseCorrect`, `AttemptsNearlyCorrect`, `AttemptsCorrect`, `ContractCorrect` | `LeaseInv`, `AttemptsInv`, `OneInv` |
| | of releases: `FlowCorrect`, `PreparingCorrect`, `CompletedCorrect`, `DecisionStands`, `SwitchedOffCorrect` | `FlowInv` |
| `ExposureReviewProofs` | `ReviewTypeCorrect`, `BlockingCorrect`, `DecisionCorrect` | `ApprovalInv` |
| `ContentStoreProofs` | `StoreTypeCorrect`, `SealedCorrect`, `ConsumedObjectCorrect`, `PendingCorrect` | `StoreInv`, `QuotaInv` |
| `ChangeSetsProofs` | `ChangesTypeCorrect`, `AcceptCorrect`, `LatestCorrect`, `OneUseCorrect`, and `HistoryCorrect` | `ChangesInv` |
| `AccessProofs` | `RateCorrect`, `SessionsCorrect`, `AccessCorrect`, `EnrollmentCorrect`, `GuardsCorrect` | `RateInv`, `SessionInv`, `AccessInv`, `EnrollmentInv` |
| `CliFilesProofs` | `InstallCorrect`, `SyncCorrect`, `BackupCorrect`, `SnapshotCorrect`, `ReleasesCorrect`, `FilesCorrect`, `RotationCorrect` | `InstallInv`, `SyncInv`, `BackupInv`, `SnapshotInv`, `ReleaseInv`, `ProfileInv` |
| `HostedPublishProofs` | `PublishCorrect` | `PublishInv`, `ShownInv` |
| `RulesProofs` | of the rules: `SourcesCorrect`, `GatesCorrect`, `VisibilityCorrect` and one theorem for each of their parts | (no behaviour: of every input) |
| | of planning: `PlanTypeCorrect`, `PlanSoundCorrect`, `PlanCompleteCorrect`, `PlanInstalledCorrect`, `PlanFitsCorrect`, and `PlansCorrect` of all five | `SearchInv`, `CompleteInv`, `OrderedInv` |
| | of policy layers: `PolicyTypeCorrect`, `LastSourceCorrect`, and `LayersCorrect` | `MergeInv` |

**Assumptions.** Those of the modules, named where the constants are declared and evaluated by the runs: positive
bounds, `MaxRetryAttempts <= MaxJobAttempts`, lock tokens that differ from the workers, "none" values that are no
member of the set they stand beside, every bundle declares a version, at least one release and one content; skills,
browsers and publishers are finite, a registry that offers a release has a latest one, and signed releases are releases.
`AttemptsCorrect` and `ContractCorrect` also assume one worker, the deployment
`docs/ops/coolify-deployment.md` prescribes; the others hold for any number of actors. `ReleasesCorrect` has the
hypothesis `StrictRules`: no release exception waives a dirty worktree or unpushed commits. Without it the statement is
false, because such an exception lets the working tree be released; the run waives nothing.
The theorems about rules are about inputs the program can be in: `GateInput` (a policy whose quorum refers to
configured groups, decisions, exceptions and evidence with dates) and `VisibleInput` (rows with the ids and the
uniqueness the tables enforce; only users and agents have a principal; a file of
finitely many skills, each with a publisher and a version) and `SourceInput` (versions, registries and
indexes that their loaders accept: a name stands for one registry, numbers are numbers, a server has no working
directories). TLC found all three true of every input of the run `reviews_and_rules`. Of a planning problem nothing is
assumed, but soundness, completeness and depth are stated where every dependency finds only skills of the identity it
names (`Exact`), and depth for a catalog of at most `MaxDepth` identities. Of policy files `FilesOK` is assumed, the
schema of what loads: objects, and at most one selection and one local file.

- **Lease.** `LeaseFollowsStatus` is not inductive: a write from a stale copy could clear one column and
  not the other. `CopiesInv` says what a copy may look like: a worker at work read a running row with a
  lease, and a worker that read *failed* still finds it failed, because only the holder of the lock
  writes outcomes.
- **Attempts.** A job is *spent* when its count has passed the limit; then any session still working on it
  read a count that allows no further retry. So a stale re-queue can happen once past the limit.
- **Contract.** With one worker the job it works on stays its own (`OwnInv`), so its copy is right where
  `fail_job` looks, and each step is a contract step or a stutter under the mapping
  `state <- status, tries <- attempts`.
- **Blocking reviews.** `RequestInv` ties what a request has read to the tables: one about to write *active*
  over an exposure that needs a blocking review has seen an approval, and approvals are never deleted.
  `VerdictInv` ties a case's state to its verdicts.
- **Content.** `OwnRowInv` says an uncommitted row belongs to one session, so rolling it back or committing it
  cannot touch a sealed content; `MarkedInv` says a prune marks existing rows only. The action property
  follows from the invariant for every action that deletes an object.
- **Change sets.** The crux is that comparing digests is as good as comparing versions:
  `DigestInjective` derives from the uniqueness of version strings (`LatestIsLast`) that two places of the
  history have different digests. `ReadInv` says a request's digest is that of the version it read, so an
  equal digest at the write means an equal base.

- **Quota.** The bound counts a set that grows with every upload. Bodies of requests run one at a time on the event loop
  (`OneBody`), and a row that waits for its commit belongs to the session that holds the lock (`HoldsInv`,
  `OpenInv`). So an upload past its check has counted everything but that one row (`BodyInv`).
- **Releases.** `StageInv` says what a worker inside a job has found, and that this still holds; `StoredInv` that
  a row was stored before a later write relies on it (a release before its intent, an intent before its job). The
  action property (`IntentDecisionFinal`) follows from the same invariant. That an agent switched off publishes no more
  (`OffMeansUnpublished`) is an invariant of the time after: no worker at a job of the release has read a
  verdict that allows it (`NoOldVerdict`), none reads one while the policy forbids it, and so the intent stays as it is.
- **Enrollment.** A fresh key that a request carries is nowhere else (`CarriedInv`); with it rows and keys stay in
  step (`RowsInv`, `KeysInv`) whatever a racing decision has read (`ReadsInv`).
- **Links, limits and sessions.** A link's counter is the number of its tokens (`GrantsInv`), and a token has its link's
  expiry (`TokensInv`). `RateInv` says which of the attempts ever admitted the limiter's one row stands for, and
  that two full limits back lies a whole window back. In `SessionInv` each live session of a user was made by a
  browser of its own, and a browser that logs in again has found its own.
- **Files.** `InstallInv` says for each step of an install what tree, manifest entry and the transaction's memory
  say of each other (`StandsInv`, `PlanInv`, `PlaceInv`), so that each failure path has something to put back;
  `EventsInv` that the manifest has the latest integrity events and the file earlier ones in their order, all of them
  unless a snapshot was cut short. `SyncInv` says what a
  sync may hold at each step that is no older than the refresh state says (`SaidInv`) and which tree it can
  return to (`AsideInv`); `BackupInv` ties receipts to whole copies, and the rows a
  backup has copied to files that are stored or have been deleted since; `SnapshotInv` says that the collected files
  show one moment of the directory (`PackInv`) and which targets a restore has swapped (`SwapInv`); `ReleaseInv`
  ties tag, push, bundle and log entry to the commit they were made of.
- **Key rotation.** No key both awaits a decision and counts (`KeysApart`). The staged key was proposed to nobody, and
  once the server has it, the one it replaces will not count again (`StagedInv`); so the profile is only replaced
  when its key is dead (`CommandInv`).
- **Publishing.** What a command or a receipt relies on stays true, because the server only grows in it
  (`CommandsInv`). Release and exposure do not grow: what is invariant is that a user's command past its look at the
  release was shown the bundle, or is about to show it (`ShownInv`). For a directory of one command, the uploads made
  and those still late are at most the answers
  lost and the one that is known (`UploadsInv`).
- **Versions and ranges.** `compare_versions` looks for the first difference. Sets of numbers have a least
  (`LeastNumber`), so the comparison is the order `VersionBefore`, of which transitivity is a case analysis.
  `version_sort_key` is the same order on one list (`KeyOrder`, `KeysOrder`). A caret or tilde range is an
  interval, and an interval is the versions that agree on what it pins (`RangesNeverBreakAnything`).
- **Sources.** What is consulted is finite and sorted by a key, so a first candidate exists (`FirstCandidate`), and no
  candidate before it can come from a registry of lower priority. The scan offers each version a registry
  holds, as a directory or as a distribution (`HeldIsOffered`), so a held version is found (`HeldIsFound`).
- **Discovery.** What an index says of the default registry is what a scan of it shows when nothing changed since
  (`DescribedIsInstalled`, `OfferedIsInstalled`), and the other registries take no part in an install by name
  (`DefaultDecides`). Besides registry and compatibility all merits of a skill are worth less than the least bonus
  (`MeritsCount`).
- **Planning.** Completeness is no induction over the calls but an invariant of the stack: as long as a consistent
  selection exists, the present one is part of it, or some open call still has a member of it to try, from a selection
  that is part of it (`CompleteInv`). `SearchInv` says that each open call would go back to a sound state whose
  unmet requirements are known, and that the depth is the number of identities chosen. `OrderedInv` says that the
  visits form a chain of needs and that whatever is applied was visited once, after what it needs or inside of it.
- **Policy layers.** `MergeInv` relates fields and exceptions to the entries seen so far; going once more through what was
  merged before copies it, because its ids differ. That a decision per field survives one more layer is a lemma about
  `MergeValues`, and that a record stays where its id appeared first one about `MergeRecord`.
- **Gates.** The last decision of a reviewer is the last element of a finite strict order (`LastExists`); a later
  decision by another replaces nobody's. The quorum of a validated policy is a number of configured reviewers.
- **Visibility.** Filtering before or after building gives the same rows while the limit is not reached
  (`ProjectionsAreRows`); of a release's entries deduplication keeps exactly one (`OneIsKept`), because a release has
  one live exposure of an audience; an install depends only on the entries that may be read (`RowsDecide`), and
  those are the same in the database without the hidden releases (`SeenIsDatabase`). What index and install take for
  the latest has no greater key in the same set of entries, so the keys of the two are equal or tie (`IndexAgrees`).

**Only model-checked.** Liveness under fairness (`QueuedJobsSettle`, `ReleaseSettles`, `RepeatingPublishes`,
`RotationCompletes`, `PlanningEnds`) is outside the prover's reach. Every other invariant and action property of the
passing runs has a theorem.

## 5. Not modelled

PROJECT.json lists every component with what is left out. In short:

- *No state or decision of its own*: page rendering, wiring, logging, health checks, argument parsing, rendering of
  skills, the wording of explanations and reports, dashboards and counters.
- *One insert and no later transition*: skill data snapshots and the audit trail (an audit row appears as a
  write that may fail).
- *External*: hashing, signing, git, ssh-keygen, HTTP, WebDAV and archive formats appear as steps that succeed or fail;
  the migration runs once on an empty database, and the unique indexes it creates are guards.
- *Left out of modelled components*: authorization checks that only filter who may call a handler, `patch_exposure`,
  review comments, tokens with the scope of a skill, profiles, the signing doctor and the readiness reports, restore rehearsals,
  bootstrapping and editing of local registries, the ranking of recommended reviewers.
- *Assumed away*: two commands on one install target, one registry cache, one backup directory or one checkout at the
  same time. Nothing in the code excludes them, and the models say so in their headers.

## 6. Plan

1. An abstract atomic replacement that `Install` refines, of which `NothingLost` is a consequence.
2. Two commands at once on one install target and on one backup directory.
3. The signing doctor's classification, the bootstrap of registries, provenance records.
