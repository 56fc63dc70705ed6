------------------------------ MODULE HostedPublish ------------------------------
(***************************************************************************)
(* "infinitas registry publish": the steps that take one source directory  *)
(* and one version to a release that others see, the receipt that lets an  *)
(* interrupted command be repeated, and the server as the command meets it *)
(* (registry/publish.py, publish_receipts.py).  One slug, one version.     *)
(*                                                                         *)
(* A request the client gave up on may still be carried out later.  A      *)
(* command keeps its receipt in memory and writes all of it after every    *)
(* answer, so two commands on one directory overwrite each other's.        *)
(***************************************************************************)
EXTENDS Naturals, Sequences, FiniteSets

CONSTANTS Publishers,   \* places the command runs at
          Dirs,         \* source directories, each with the receipt kept for it
          Bundles,      \* digests of bundles a directory may yield
          MaxPending,   \* content_max_pending_per_skill
          MaxContents,  \* bound on uploads
          MaxJobs,      \* bound on materializations under way
          LastTrouble,  \* bound on crashes, lost requests, failed jobs, edits...
          None          \* no receipt, no version

VARIABLES kind,     \* "user" or "agent": which credential publishes
          dir,      \* the directory of each publisher at work
          source,   \* the bundle each directory yields now
          receipt,  \* the receipt file of each directory
          client,   \* the command at each publisher
          late,     \* requests their client no longer waits for
          server,
          lost,     \* uploads of each directory whose answer was never saved
          trouble,  \* how often something went wrong, counted up to LastTrouble
          shown     \* history variable: commands that are publishing, or have
                    \* published, what others could see in the meantime

publishVars == <<kind, dir, source, receipt, client, late, server, lost, trouble, shown>>

\* What a receipt says: the bundle, the content id (0: none) and which of the
\* version and exposure it names.  (Skills and releases are never deleted.)
Receipt == [bundle : Bundles, content : 0 .. MaxContents,
            named : SUBSET {"version", "exposure"}]

ASSUME PublishAssumption ==
    /\ IsFiniteSet(Publishers)
    /\ None \notin Bundles /\ None \notin Receipt
    /\ MaxPending \in Nat /\ MaxContents \in Nat /\ MaxJobs \in Nat \ {0} /\ LastTrouble \in Nat

Content == [bundle : Bundles, by : Dirs, state : {"validated", "consumed", "expired"}]

\* jobs: materializations queued or running; exposure: the latest one, "open"
\* unless it is revoked or rejected.
Server == [skill : BOOLEAN, archived : BOOLEAN, version : Bundles \cup {None},
           release : {"none", "preparing", "ready", "failed"}, jobs : 0 .. MaxJobs,
           intent : {"none", "pending", "activated", "suppressed"},
           exposure : {"none", "open", "closed"},
           contents : UNION {[1 .. n -> Content] : n \in 0 .. MaxContents}]

Steps == {"idle", "prepare", "skill", "create_skill", "skill_again", "versions", "upload",
          "create_version", "version_again", "release", "wait", "status", "exposures", "expose"}

\* seen: the release's state in the last answer; dirty: mem is not saved yet.
Client == [step : Steps, mem : Receipt, wait : BOOLEAN, dirty : BOOLEAN,
           seen : {"none", "preparing", "ready", "failed"},
           report : {"none", "failed", "release-created", "published"}]

Working == UNION {[ps -> Dirs] : ps \in SUBSET Publishers}

NewReceipt(b) == [bundle |-> b, content |-> 0, named |-> {}]

(* The server's side of a request.  Each is one transaction. *)

Request == [op : {"create_skill", "upload", "create_version", "release", "expose"},
            bundle : Bundles, content : 0 .. MaxContents, by : Dirs]

Pending(s) == {i \in DOMAIN s.contents : s.contents[i].state = "validated"}

\* The status of the answer: 0 stands for success.
Status(r, s) ==
    CASE r.op = "create_skill" -> IF s.skill THEN 409 ELSE 0
      [] r.op = "upload" ->
            IF s.archived THEN 403 ELSE IF Cardinality(Pending(s)) >= MaxPending THEN 429 ELSE 0
      [] r.op = "create_version" ->
            IF s.archived THEN 403
            ELSE IF s.version # None \/ r.content \notin Pending(s) THEN 409 ELSE 0
      [] r.op = "release" -> 0
      [] r.op = "expose" -> IF s.release = "ready" /\ s.exposure # "open" THEN 0 ELSE 409

\* create_or_get_release: what a release request makes of the release.
Answered(s) == IF s.release = "none" THEN "preparing" ELSE s.release

\* Mutant: an agent's request leaves the intent in a state nobody settles.
ReleasedQueued(s) == {[s EXCEPT !.release = "preparing", !.intent = "queued", !.jobs = 1]}

\* Mutant: a request that finds a release queues nothing.
ReleasedOnce(s) ==
    {IF s.release # "none" THEN s
     ELSE [s EXCEPT !.release = "preparing", !.jobs = 1,
                    !.intent = IF kind = "agent" THEN "pending" ELSE @]}

\* A repeated request of a user queues a job for a release that is not ready
\* and has none; it queues one for a ready release whose files need rebuilding,
\* or beside another that it does not see: it looked before that was queued.
\* An agent's request queues one only when it creates the intent.
Released(s) ==
    LET known == [s EXCEPT !.release = Answered(s)] IN
    IF kind = "agent"
    THEN {IF s.intent # "none" THEN s ELSE [known EXCEPT !.intent = "pending", !.jobs = 1]}
    ELSE {[known EXCEPT !.jobs = n] :
             n \in {m \in {s.jobs, s.jobs + 1} : m <= MaxJobs /\ (m = 0 => s.release = "ready")}}

Effects(r, s) ==
    CASE r.op = "create_skill" -> {[s EXCEPT !.skill = TRUE]}
      [] r.op = "upload" ->
            {[s EXCEPT !.contents =
                Append(@, [bundle |-> r.bundle, by |-> r.by, state |-> "validated"])]}
      [] r.op = "create_version" ->
            {[s EXCEPT !.version = s.contents[r.content].bundle,
                       !.contents[r.content].state = "consumed"]}
      [] r.op = "release" -> Released(s)
      [] r.op = "expose" -> {[s EXCEPT !.exposure = "open"]}

After(r, s) == IF Status(r, s) = 0 THEN Effects(r, s) ELSE {s}

Fits(r) == r.op = "upload" => Len(server.contents) < MaxContents

(* The command. *)

RequestOf(p) ==
    LET c == client[p] IN
    [op |-> c.step, bundle |-> c.mem.bundle, content |-> c.mem.content, by |-> dir[p]]

Go(p, step) == [client EXCEPT ![p].step = step]

\* An answer the receipt records before the command goes on.
Learn(p, step, mem) == [client EXCEPT ![p].step = step, ![p].mem = mem, ![p].dirty = TRUE]

\* The command ends; of its state only the bundle it was about matters.
Ended(p, report) ==
    [client EXCEPT ![p] = [step |-> "idle", mem |-> NewReceipt(client[p].mem.bundle),
                           wait |-> FALSE, dirty |-> FALSE, seen |-> "none", report |-> report]]

Fail(p) == Ended(p, "failed")

Knows(p, what) == [client[p].mem EXCEPT !.named = @ \cup {what}]

At(p, step) == client[p].step = step /\ ~client[p].dirty

\* What happens at most LastTrouble times.
Trouble == trouble < LastTrouble /\ trouble' = trouble + 1

Local == UNCHANGED <<kind, dir, source, receipt, late, server, lost, trouble>>

\* Mutant: a receipt of another bundle is taken over for this one.
PreparedAnyway(d) ==
    IF receipt[d] = None THEN NewReceipt(source[d]) ELSE [receipt[d] EXCEPT !.bundle = source[d]]

\* prepare_receipt; None where it refuses.
Prepared(d) ==
    IF receipt[d] = None THEN NewReceipt(source[d])
    ELSE IF receipt[d].bundle = source[d] THEN receipt[d] ELSE None

\* The bundle is built and the receipt read, then written back.  Publishing
\* again what is published counts as trouble.
Start(p, resume, wait) ==
    LET mem == Prepared(dir[p]) IN
    /\ At(p, "idle")
    /\ IF client[p].report = "published" THEN Trouble ELSE UNCHANGED trouble
    /\ client' =
         IF mem = None \/ (resume /\ receipt[dir[p]] = None)
         THEN Fail(p)
         ELSE [client EXCEPT ![p] = [step |-> "skill", mem |-> mem, wait |-> wait, dirty |-> TRUE,
                                     seen |-> "none", report |-> "none"]]
    /\ UNCHANGED <<kind, dir, source, receipt, late, server, lost>>

\* Mutant: the content id is kept in memory only.
SavedWithoutContent(p) == [client[p].mem EXCEPT !.content = 0]

Saved(p) == client[p].mem

\* update_receipt replaces the file; the last one ends a publication.
Save(p) ==
    /\ client[p].dirty
    /\ receipt' = [receipt EXCEPT ![dir[p]] = Saved(p)]
    /\ client' = IF client[p].step = "idle" THEN Ended(p, "published")
                 ELSE [client EXCEPT ![p].dirty = FALSE]
    /\ UNCHANGED <<kind, dir, source, late, server, lost, trouble>>

ListSkills(p) ==
    \/ /\ At(p, "skill")
       /\ client' = IF server.skill THEN Learn(p, "versions", client[p].mem)
                                    ELSE Go(p, "create_skill")
       /\ Local
    \/ /\ At(p, "skill_again")
       /\ client' = IF server.skill THEN Learn(p, "versions", client[p].mem) ELSE Fail(p)
       /\ Local

\* A request that changes the server, and what the command makes of the answer.
Send(p, then(_)) ==
    LET r == RequestOf(p) IN
    /\ At(p, r.op) /\ Fits(r)
    /\ server' \in After(r, server)
    /\ client' = then(Status(r, server))
    /\ UNCHANGED <<kind, dir, source, receipt, late, lost, trouble>>

CreateSkill(p) ==
    LET Then(status) == IF status = 0 THEN Learn(p, "versions", client[p].mem)
                                      ELSE Go(p, "skill_again")
    IN  client[p].step = "create_skill" /\ Send(p, Then)

\* Mutant: a version of this name is taken for this bundle's.
SameAny(p, found) == found # None

Same(p, found) == found = client[p].mem.bundle

ListVersions(p) ==
    LET c == client[p] IN
    /\ At(p, "versions")
    /\ client' =
         IF server.version = None
         THEN Go(p, IF c.mem.content = 0 THEN "upload" ELSE "create_version")
         ELSE IF Same(p, server.version) THEN Learn(p, "release", Knows(p, "version"))
         ELSE Fail(p)
    /\ Local

UploadContent(p) ==
    LET id == Len(server.contents) + 1
        Then(status) == IF status = 0
                        THEN Learn(p, "create_version", [client[p].mem EXCEPT !.content = id])
                        ELSE Fail(p)
    IN  client[p].step = "upload" /\ Send(p, Then)

CreateVersion(p) ==
    LET Then(status) == CASE status = 0 -> Learn(p, "release", Knows(p, "version"))
                          [] status = 409 -> Go(p, "version_again")
                          [] OTHER -> Fail(p)
    IN  client[p].step = "create_version" /\ Send(p, Then)

\* After a 409: the version another command, or an earlier request, created.
GetVersion(p) ==
    /\ At(p, "version_again")
    /\ client' = IF Same(p, server.version) THEN Learn(p, "release", Knows(p, "version"))
                                            ELSE Fail(p)
    /\ Local

CreateRelease(p) ==
    LET Then(status) ==
            [Learn(p, IF client[p].wait THEN "wait" ELSE IF kind = "agent" THEN "status"
                      ELSE "exposures", client[p].mem)
             EXCEPT ![p].seen = Answered(server)]
    IN  client[p].step = "release" /\ Send(p, Then)

\* Mutant: a release that has failed has been waited for as well.
WaitForReleaseEnded(p) ==
    /\ At(p, "wait") /\ kind = "user"
    /\ client' = IF server.release = "preparing" THEN Fail(p)
                 ELSE [client EXCEPT ![p].step = "exposures", ![p].seen = "ready"]
    /\ Local

\* _wait_for_release: polled until it is ready, has failed, or time is up.
WaitForRelease(p) ==
    /\ At(p, "wait") /\ kind = "user"
    /\ client' = IF server.release = "ready"
                 THEN [client EXCEPT ![p].step = "exposures", ![p].seen = "ready"]
                 ELSE Fail(p)
    /\ Local

\* An agent looks at the release and then, in a second request, at its intent.
WaitForAgent(p) ==
    /\ At(p, "wait") /\ kind = "agent"
    /\ client' = [client EXCEPT ![p].step = "status", ![p].seen = server.release]
    /\ Local

AgentStatus(p) ==
    LET c == client[p]
        complete == server.intent = "activated" /\ c.seen = "ready"
    IN  /\ At(p, "status")
        /\ client' \in
             IF complete THEN {Learn(p, "idle", c.mem)}
             ELSE IF server.intent = "suppressed" \/ (c.wait /\ c.seen = "failed") THEN {Fail(p)}
             ELSE IF c.wait THEN {Go(p, "wait"), Fail(p)}
             ELSE {Ended(p, "release-created")}
        /\ Local

\* Mutant: the exposures there are do not matter.
ReusableNone(s) == FALSE

Reusable(s) == s.exposure = "open"

ListExposures(p) ==
    /\ At(p, "exposures")
    /\ client' =
         IF client[p].seen # "ready"
         THEN Ended(p, "release-created")
         ELSE IF Reusable(server) THEN Learn(p, "idle", Knows(p, "exposure"))
         ELSE Go(p, "expose")
    /\ Local

CreateExposure(p) ==
    LET Then(status) == IF status = 0 THEN Learn(p, "idle", Knows(p, "exposure")) ELSE Fail(p)
    IN  client[p].step = "expose" /\ Send(p, Then)

\* What a command does by itself.
Step(p) ==
    \/ Save(p) \/ ListSkills(p) \/ CreateSkill(p) \/ ListVersions(p) \/ UploadContent(p)
    \/ CreateVersion(p) \/ GetVersion(p) \/ CreateRelease(p) \/ WaitForRelease(p)
    \/ WaitForAgent(p) \/ AgentStatus(p) \/ ListExposures(p) \/ CreateExposure(p)

(* The worker, the clock, other people and faults. *)

\* finalize_publish_intent on a ready release: a pending intent is decided, and
\* an activated one has an exposure.
Settled(s) ==
    {[s EXCEPT !.release = "ready", !.intent = intent,
               !.exposure = IF intent = s.intent \/ intent = "suppressed" THEN @ ELSE "open"] :
        intent \in IF s.intent = "pending" THEN {"activated", "suppressed"} ELSE {s.intent}}

\* The job of a release completes.
Materialize ==
    /\ server.jobs > 0
    /\ \E s \in Settled(server) : server' = [s EXCEPT !.jobs = @ - 1]
    /\ UNCHANGED <<kind, dir, source, receipt, client, late, lost, trouble>>

\* What a job that raises has flushed, and commits all the same: nothing, the
\* ready release, or the decision on its intent as well.
Flushed(s) == {s, [s EXCEPT !.release = "ready"]} \cup Settled(s)

\* The job fails for good: mark_release_materialization_failed, be the release ready.
MaterializeFails ==
    /\ Trouble
    /\ server.jobs > 0
    /\ \E s \in Flushed(server) : server' = [s EXCEPT !.jobs = @ - 1, !.release = "failed"]
    /\ UNCHANGED <<kind, dir, source, receipt, client, late, lost>>

\* The job fails and is queued again.
MaterializeRetried ==
    /\ Trouble
    /\ server.jobs > 0 /\ server' \in Flushed(server)
    /\ UNCHANGED <<kind, dir, source, receipt, client, late, lost>>

\* The worker dies in its MAX_JOB_ATTEMPTS-th claim: nobody takes the job up again.
JobAbandoned ==
    /\ Trouble
    /\ server.jobs > 0 /\ server' = [server EXCEPT !.jobs = @ - 1]
    /\ UNCHANGED <<kind, dir, source, receipt, client, late, lost>>

\* content_pending_ttl_hours have passed.
Expire ==
    /\ Trouble
    /\ \E i \in Pending(server) : server' = [server EXCEPT !.contents[i].state = "expired"]
    /\ UNCHANGED <<kind, dir, source, receipt, client, late, lost>>

Archive ==
    /\ Trouble
    /\ server.skill /\ ~server.archived
    /\ server' = [server EXCEPT !.archived = TRUE]
    /\ UNCHANGED <<kind, dir, source, receipt, client, late, lost>>

Revoke ==
    /\ Trouble
    /\ server.exposure = "open"
    /\ server' = [server EXCEPT !.exposure = "closed"]
    /\ UNCHANGED <<kind, dir, source, receipt, client, late, lost>>

Edit ==
    /\ Trouble
    /\ \E p \in DOMAIN dir, b \in Bundles :
         source[dir[p]] # b /\ source' = [source EXCEPT ![dir[p]] = b]
    /\ UNCHANGED <<kind, dir, receipt, client, late, server, lost>>

\* The process dies: what it has not saved is gone.
Crash(p) ==
    /\ Trouble
    /\ client[p].step # "idle" \/ client[p].dirty
    /\ client' = Fail(p)
    /\ lost' = IF client[p].step = "create_version" /\ client[p].dirty
               THEN [lost EXCEPT ![dir[p]] = @ + 1] ELSE lost
    /\ UNCHANGED <<kind, dir, source, receipt, late, server>>

\* The request times out at the client, which ends, and may reach the server.
GiveUp(p) ==
    /\ Trouble
    /\ At(p, RequestOf(p).op) /\ RequestOf(p) \in Request
    /\ late' = late \cup {RequestOf(p)}
    /\ lost' = IF RequestOf(p).op = "upload" THEN [lost EXCEPT ![dir[p]] = @ + 1] ELSE lost
    /\ client' = Fail(p)
    /\ UNCHANGED <<kind, dir, source, receipt, server>>

Deliver ==
    \E r \in late :
        /\ Fits(r)
        /\ late' = late \ {r}
        /\ server' \in After(r, server)
        /\ UNCHANGED <<kind, dir, source, receipt, client, lost, trouble>>

EmptyServer ==
    [skill |-> FALSE, archived |-> FALSE, version |-> None, release |-> "none", jobs |-> 0,
     intent |-> "none", exposure |-> "none", contents |-> <<>>]

PublishInit ==
    /\ kind \in {"user", "agent"}
    /\ dir \in Working
    /\ source \in [Dirs -> Bundles]
    /\ receipt = [d \in Dirs |-> None]
    /\ client = [p \in DOMAIN dir |->
                   [step |-> "idle", mem |-> NewReceipt(source[dir[p]]), wait |-> FALSE,
                    dirty |-> FALSE, seen |-> "none", report |-> "none"]]
    /\ late = {}
    /\ server = EmptyServer
    /\ lost = [d \in Dirs |-> 0]
    /\ trouble \in 0 .. LastTrouble
    /\ shown = {}

\* A public, private or other exposure of the ready release is there.
Visible(s) == s.release = "ready" /\ s.exposure = "open"

\* A user's command that knows of a ready release, until its next run.
Watches(c) == c.step \in {"exposures", "expose"} \/ (c.step = "idle" /\ c.dirty) \/ c.report = "published"

Watch ==
    shown' = {p \in DOMAIN dir : kind = "user" /\ Watches(client'[p]) /\ (p \in shown \/ Visible(server'))}

PublishStep ==
    \/ \E p \in DOMAIN dir :
          Step(p) \/ Crash(p) \/ GiveUp(p) \/ \E resume, wait \in BOOLEAN : Start(p, resume, wait)
    \/ Materialize \/ MaterializeFails \/ MaterializeRetried \/ JobAbandoned
    \/ Expire \/ Archive \/ Revoke \/ Edit \/ Deliver

PublishNext == PublishStep /\ Watch

\* A command runs to its end, somebody repeats it, and the worker works: a job
\* that is neither abandoned nor failed completes (module JobQueue).
Fairness ==
    /\ \A p \in Publishers :
         /\ WF_publishVars(p \in DOMAIN dir /\ Step(p) /\ Watch)
         /\ WF_publishVars(p \in DOMAIN dir /\ Start(p, FALSE, TRUE) /\ Watch)
    /\ WF_publishVars(Materialize /\ Watch)

PublishSpec == PublishInit /\ [][PublishNext]_publishVars /\ Fairness

(* Properties. *)

\* The types of the state.
PublishTypeOK ==
    /\ kind \in {"user", "agent"} /\ dir \in Working /\ source \in [Dirs -> Bundles]
    /\ receipt \in [Dirs -> Receipt \cup {None}]
    /\ client \in [DOMAIN dir -> Client]
    /\ late \subseteq Request
    /\ server \in Server
    /\ lost \in [Dirs -> Nat] /\ trouble \in 0 .. LastTrouble
    /\ shown \subseteq DOMAIN dir

\* A command that says "published" says it of the bundle it built: the server's
\* version has that digest.  A user's bundle was visible - the release ready and
\* exposed - at one moment at least while that command ran; an agent's intent is
\* activated.  Neither stays so: another job may mark the release failed and
\* somebody may revoke the exposure, before the command reports it or after.
PublishedIsThisBundle ==
    \A p \in DOMAIN dir :
        client[p].report = "published" =>
            /\ server.version = client[p].mem.bundle
            /\ IF kind = "user" THEN p \in shown ELSE server.intent = "activated"

\* A receipt, which later attempts and people trust, names nothing the server
\* does not have, and a version or content of no other bundle than its own.
ReceiptIsTrue ==
    \A d \in {e \in Dirs : receipt[e] # None} :
        LET r == receipt[d] IN
        /\ r.content # 0 =>
             /\ r.content \in DOMAIN server.contents
             /\ server.contents[r.content].bundle = r.bundle
        /\ "version" \in r.named => server.version = r.bundle
        /\ "exposure" \in r.named => server.exposure # "none"

\* A directory only one publisher works on is uploaded once, and once more for
\* each upload whose answer never reached the receipt.
UploadedOnce ==
    \A d \in Dirs :
        Cardinality({p \in DOMAIN dir : dir[p] = d}) = 1 =>
            Cardinality({i \in DOMAIN server.contents : server.contents[i].by = d}) <= 1 + lost[d]

\* What no repetition resolves: another bundle under this version or in the
\* receipt, an archived skill, an agent's intent that is suppressed or whose job
\* failed or was abandoned (only the first request of an agent queues one), too
\* many pending uploads, and a receipt whose uploaded content has expired, which
\* every repetition presents again.
Blocked(p) ==
    LET r == receipt[dir[p]] IN
    \/ r # None /\ r.bundle # source[dir[p]]
    \/ server.version \notin {None, source[dir[p]]}
    \/ server.archived
    \/ /\ kind = "agent"
       /\ \/ server.intent = "suppressed" \/ server.release = "failed"
          \/ server.intent = "pending" /\ server.jobs = 0
    \/ Cardinality(Pending(server)) >= MaxPending
    \/ /\ r # None /\ server.version = None
       /\ r.content # 0 /\ r.content \notin Pending(server)

\* Repeating the command publishes in the end, after any bounded number of
\* crashes, lost and late requests, failed or abandoned jobs and revoked
\* exposures, unless something blocks it that no repetition removes.
RepeatingPublishes ==
    \A p \in Publishers :
        []<>(p \in DOMAIN dir => client[p].report = "published" \/ Blocked(p))

\* What the command reports and records is true of the server, and nothing is
\* uploaded twice but what was lost.
ReportsAreTrue == PublishTypeOK /\ PublishedIsThisBundle /\ ReceiptIsTrue /\ UploadedOnce
===============================================================================
