------------------------------ MODULE ContentStore ------------------------------
(***************************************************************************)
(* Uploaded skill content: its rows (skill_contents), the objects they     *)
(* share in the artifact store, and the versions sealed from them          *)
(* (server/modules/authoring/service.py, repository.py, server/db.py,      *)
(* server/modules/release/storage.py).                                     *)
(*                                                                         *)
(* Objects are named by their digest and live outside the database.  An    *)
(* upload is a coroutine: its body runs on the one event loop without      *)
(* interruption by another upload, but the commit or rollback of its       *)
(* session runs in a thread afterwards.  Version requests run in threads,  *)
(* pruning also in the worker process.  SQLite has one writer; what it has *)
(* not committed is in its req and is seen by itself only.  The savepoint  *)
(* around the insert commits when its session has written nothing before.  *)
(***************************************************************************)
EXTENDS Naturals, FiniteSets

CONSTANTS Web,          \* concurrent requests of the web process
          Worker,       \* the worker process, running a prune job
          Digests,      \* contents of bundles
          MaxContents,  \* bound on rows
          MaxPending,   \* content_max_pending_per_skill
          Faults        \* whether locks time out, writes fail and processes die

Clients == Web \cup {Worker}

Free == "free"

ASSUME StoreAssumption ==
    /\ Worker \notin Web
    /\ Free \notin Clients
    /\ Digests # {}
    /\ MaxContents \in Nat
    /\ MaxPending \in Nat \ {0}
    /\ Faults \in BOOLEAN

VARIABLES rows,     \* skill_contents, as committed
          objects,  \* digests with a file under objects/sha256
          acked,    \* contents whose id a client was told
          sealed,   \* contents that skill_versions refer to
          lock,     \* the session that holds SQLite's write lock
          req       \* what each session is doing

vars == <<rows, objects, acked, sealed, lock, req>>

Ids == 1 .. MaxContents

Row == [state : {"absent", "validated", "consumed", "expired"},
        digest : Digests, old : BOOLEAN]

RowOf(state, digest, old) == [state |-> state, digest |-> digest, old |-> old]

\* marked: rows this session sets to expired; id: the row it inserts (0: none
\* yet) or seals; fresh: no row referred to its object when it looked.
Request == [step : {"none", "mark", "sweep", "check", "put", "insert", "audit",
                    "commit", "rollback", "cleanup", "seal"},
            marked : SUBSET Ids, id : Ids \cup {0}, digest : Digests,
            fresh : BOOLEAN, open : BOOLEAN]

AnyDigest == CHOOSE d \in Digests : TRUE

Asks(step, marked, id, digest, fresh, open) ==
    [step |-> step, marked |-> marked, id |-> id, digest |-> digest,
     fresh |-> fresh, open |-> open]

NoRequest == Asks("none", {}, 0, AnyDigest, FALSE, FALSE)

StoreTypeOK ==
    /\ rows \in [Ids -> Row]
    /\ objects \subseteq Digests
    /\ acked \subseteq Ids
    /\ sealed \subseteq Ids
    /\ lock \in Clients \cup {Free}
    /\ req \in [Clients -> Request]

-------------------------------------------------------------------------------
(* Queries *)

Pending == {i \in Ids : rows[i].state = "validated"}

\* list_expired_skill_contents
Expired == {i \in Pending : rows[i].old}

\* Session c's own view: committed rows and what it marked itself.
PendingFor(c) == Pending \ (IF lock = c THEN req[c].marked ELSE {})

\* active_storage_uri_is_referenced
ReferencedFor(c, d) ==
    \E i \in Ids \ (IF lock = c THEN req[c].marked ELSE {}) :
        rows[i].state \in {"validated", "consumed"} /\ rows[i].digest = d

Used(i) == \/ rows[i].state # "absent"
           \/ i \in acked
           \/ \E c \in Clients : req[c].id = i

\* secrets.token_urlsafe: an id nobody has used.
NextId(i) == ~Used(i) /\ \A x \in Ids : x < i => Used(x)

-------------------------------------------------------------------------------
(* Sessions *)

Goto(c, step) ==
    req' = [req EXCEPT ![c] = Asks(step, @.marked, @.id, @.digest, @.fresh, @.open)]

Done(c) == req' = [req EXCEPT ![c] = NoRequest]

\* The body of an upload occupies the event loop.
InBody(c) == req[c].step \in {"mark", "sweep", "check", "put", "insert", "audit"}

LoopIsFree == \A c \in Web : ~InBody(c)

CanWrite(c) == lock \in {Free, c}

Unlocked(c) == IF lock = c THEN Free ELSE lock

-------------------------------------------------------------------------------
(* Uploads and prunes *)

\* upload_skill_content begins: it lists expired contents of its principal, at
\* most content_max_pending_per_skill of them.
UploadStarts(c, d, listed) ==
    /\ c \in Web
    /\ req[c].step = "none"
    /\ LoopIsFree
    /\ listed \subseteq Expired
    /\ Cardinality(listed) <= MaxPending
    /\ req' = [req EXCEPT ![c] =
         Asks(IF listed = {} THEN "check" ELSE "mark", listed, 0, d, FALSE, FALSE)]
    /\ UNCHANGED <<rows, objects, acked, sealed, lock>>

\* The prune job of the worker (_process_prune_skill_contents_job).
PruneStarts ==
    /\ req[Worker].step = "none"
    /\ Expired # {}
    /\ req' = [req EXCEPT ![Worker] = Asks("mark", Expired, 0, AnyDigest, FALSE, FALSE)]
    /\ UNCHANGED <<rows, objects, acked, sealed, lock>>

\* The flush of the expired states: from here on the session holds the lock.
PruneMarks(c) ==
    /\ req[c].step = "mark"
    /\ CanWrite(c)
    /\ lock' = c
    /\ Goto(c, "sweep")
    /\ UNCHANGED <<rows, objects, acked, sealed>>

\* Mutant: objects are deleted without asking who else refers to them.
SweepableAll(c) == {rows[i].digest : i \in req[c].marked}

\* The objects of marked rows that no other row refers to.
Sweepable(c) == {d \in {rows[i].digest : i \in req[c].marked} : ~ReferencedFor(c, d)}

\* They are deleted before the commit.
PruneSweeps(c) ==
    /\ req[c].step = "sweep"
    /\ objects' = objects \ Sweepable(c)
    /\ Goto(c, IF c = Worker THEN "commit" ELSE "check")
    /\ UNCHANGED <<rows, acked, sealed, lock>>

\* A deletion raises: the worker records the failed job in the same session and
\* commits it, marks included; an upload is rolled back.
SweepFails(c, swept) ==
    /\ Faults
    /\ req[c].step = "sweep"
    /\ swept \subseteq Sweepable(c)
    /\ objects' = objects \ swept
    /\ Goto(c, IF c = Worker THEN "commit" ELSE "rollback")
    /\ UNCHANGED <<rows, acked, sealed, lock>>

\* Mutant: an off-by-one in the quota.
UnderQuotaOffByOne(c) == Cardinality(PendingFor(c)) <= MaxPending

\* _assert_pending_content_quota
UnderQuota(c) == Cardinality(PendingFor(c)) < MaxPending

UploadChecks(c) ==
    /\ req[c].step = "check"
    /\ UnderQuota(c)
    /\ req' = [req EXCEPT ![c] =
         Asks("put", @.marked, 0, @.digest, ~ReferencedFor(c, @.digest), FALSE)]
    /\ UNCHANGED <<rows, objects, acked, sealed, lock>>

\* An invalid bundle or a full quota: the session is rolled back, and with it
\* the expired states of its prune.
UploadRejects(c) ==
    /\ req[c].step = "check"
    /\ req' = [req EXCEPT ![c] =
         Asks("rollback", @.marked, 0, @.digest, FALSE, FALSE)]
    /\ UNCHANGED <<rows, objects, acked, sealed, lock>>

\* put_bytes: atomic, and a no-op when the object is there.
UploadPuts(c) ==
    /\ req[c].step = "put"
    /\ objects' = objects \cup {req[c].digest}
    /\ Goto(c, "insert")
    /\ UNCHANGED <<rows, acked, sealed, lock>>

\* The savepoint.  touched: the credential's last_used_at is flushed with it,
\* so that a transaction is open and RELEASE does not commit.
UploadInserts(c, i, touched) ==
    LET open == lock = c \/ touched IN
    /\ req[c].step = "insert"
    /\ CanWrite(c)
    /\ NextId(i)
    /\ req' = [req EXCEPT ![c] = Asks("audit", @.marked, i, @.digest, @.fresh, open)]
    /\ IF open
       THEN lock' = c /\ UNCHANGED rows
       ELSE /\ rows' = [rows EXCEPT ![i] = RowOf("validated", req[c].digest, FALSE)]
            /\ UNCHANGED lock
    /\ UNCHANGED <<objects, acked, sealed>>

\* append_content_uploaded: the audit row needs the lock.  Then the response
\* is sent: FastAPI leaves a dependency with yield (get_db) after that.
UploadAudits(c) ==
    /\ req[c].step = "audit"
    /\ CanWrite(c)
    /\ lock' = c
    /\ acked' = acked \cup {req[c].id}
    /\ Goto(c, "commit")
    /\ UNCHANGED <<rows, objects, sealed>>

\* get_db / session_scope commit the session.
Commits(c) ==
    /\ req[c].step = "commit"
    /\ rows' = [i \in Ids |->
         IF i \in req[c].marked THEN RowOf("expired", rows[i].digest, rows[i].old)
         ELSE IF i = req[c].id /\ req[c].open THEN RowOf("validated", req[c].digest, FALSE)
         ELSE rows[i]]
    /\ lock' = Free
    /\ Done(c)
    /\ UNCHANGED <<objects, acked, sealed>>

\* The insert fails (the lock's timeout): the handler removes a fresh object.
InsertFails(c) ==
    /\ Faults
    /\ req[c].step = "insert"
    /\ objects' = IF req[c].fresh THEN objects \ {req[c].digest} ELSE objects
    /\ req' = [req EXCEPT ![c] = Asks("rollback", @.marked, 0, @.digest, FALSE, FALSE)]
    /\ UNCHANGED <<rows, acked, sealed, lock>>

\* Any other step raises: a lock timeout or a failing write.  Cleanups are
\* registered only after the insert.
StepFails(c) ==
    /\ Faults
    /\ req[c].step \in {"mark", "put", "audit", "commit"}
    /\ req' = [req EXCEPT ![c] =
         Asks("rollback", @.marked, @.id, @.digest, @.id # 0 /\ @.fresh, @.open)]
    /\ UNCHANGED <<rows, objects, acked, sealed, lock>>

\* session.rollback(): uncommitted rows are forgotten, files are not.
RollsBack(c) ==
    /\ req[c].step = "rollback"
    /\ lock' = Unlocked(c)
    /\ IF req[c].fresh THEN Goto(c, "cleanup") ELSE Done(c)
    /\ UNCHANGED <<rows, objects, acked, sealed>>

\* _run_rollback_artifact_cleanups
CleansUp(c) ==
    /\ req[c].step = "cleanup"
    /\ objects' = objects \ {req[c].digest}
    /\ Done(c)
    /\ UNCHANGED <<rows, acked, sealed, lock>>

-------------------------------------------------------------------------------
(* Versions *)

\* get_skill_content_for_version
SealReads(c, i) ==
    /\ c \in Web
    /\ req[c].step = "none"
    /\ i \in Pending \cap acked
    /\ ~rows[i].old
    /\ req' = [req EXCEPT ![c] = Asks("seal", {}, i, rows[i].digest, FALSE, FALSE)]
    /\ UNCHANGED <<rows, objects, acked, sealed, lock>>

\* Mutant: the content is consumed and remains pending.
ConsumedForgets(i) == rows[i]

\* Mutant: a state the other queries do not know.
ConsumedUnknown(i) == RowOf("sealed", rows[i].digest, rows[i].old)

\* consume_skill_content
Consumed(i) == RowOf("consumed", rows[i].digest, rows[i].old)

\* The savepoint of create_skill_version_snapshot, all or nothing.
SealWrites(c) ==
    /\ req[c].step = "seal"
    /\ lock = Free
    /\ Done(c)
    /\ IF req[c].id \in Pending
       THEN /\ rows' = [rows EXCEPT ![req[c].id] = Consumed(req[c].id)]
            /\ sealed' = sealed \cup {req[c].id}
       ELSE UNCHANGED <<rows, sealed>>
    /\ UNCHANGED <<objects, acked, lock>>

-------------------------------------------------------------------------------
(* The environment *)

\* created_at falls behind the cutoff (content_pending_ttl_hours).
Ages(i) ==
    /\ i \in Pending
    /\ ~rows[i].old
    /\ rows' = [rows EXCEPT ![i] = RowOf("validated", rows[i].digest, TRUE)]
    /\ UNCHANGED <<objects, acked, sealed, lock, req>>

\* A process dies: its sessions are rolled back and nothing cleans up.
Crashes(process) ==
    /\ Faults
    /\ \E c \in process : req[c].step # "none"
    /\ req' = [c \in Clients |-> IF c \in process THEN NoRequest ELSE req[c]]
    /\ lock' = IF lock \in process THEN Free ELSE lock
    /\ UNCHANGED <<rows, objects, acked, sealed>>

Init ==
    /\ rows = [i \in Ids |-> RowOf("absent", AnyDigest, FALSE)]
    /\ objects = {}
    /\ acked = {}
    /\ sealed = {}
    /\ lock = Free
    /\ req = [c \in Clients |-> NoRequest]

Uploads(c) ==
    \/ \E d \in Digests, listed \in SUBSET Ids : UploadStarts(c, d, listed)
    \/ UploadChecks(c)
    \/ UploadRejects(c)
    \/ UploadPuts(c)
    \/ \E i \in Ids, touched \in BOOLEAN : UploadInserts(c, i, touched)
    \/ InsertFails(c)
    \/ UploadAudits(c)

Sessions(c) ==
    \/ PruneMarks(c)
    \/ PruneSweeps(c)
    \/ \E swept \in SUBSET Digests : SweepFails(c, swept)
    \/ Commits(c)
    \/ StepFails(c)
    \/ RollsBack(c)
    \/ CleansUp(c)
    \/ \E i \in Ids : SealReads(c, i)
    \/ SealWrites(c)

Next ==
    \/ \E c \in Clients : Uploads(c) \/ Sessions(c)
    \/ PruneStarts
    \/ \E i \in Ids : Ages(i)
    \/ Crashes(Web)
    \/ Crashes({Worker})

Spec == Init /\ [][Next]_vars

-------------------------------------------------------------------------------
(* Properties *)

\* Quota, what holds: an upload whose row waits for its commit is not seen by
\* the next upload, so the pending contents exceed the limit by one, never by
\* more, since every other upload waits for the lock on the event loop.
PendingAtMostOneOver == Cardinality(Pending) <= MaxPending + 1

\* Sealing is final: a content a version refers to is never offered again, in
\* whatever order seals, prunes, rollbacks and crashes follow.
SealedNotPending == \A i \in sealed : rows[i].state \in {"consumed", "expired"}

LosesTo(c, i) == \/ i \in req[c].marked
                 \/ req[c].fresh /\ req[c].digest = rows[i].digest

\* Sharing of objects: while a content is consumed its object disappears only
\* to a prune that had listed the content before it was sealed, or to a failed
\* upload of the same bytes that had found nobody referring to them.
ConsumedKeepsObject ==
    [][\A i \in Ids :
         (rows[i].state = "consumed" /\ rows[i].digest \in objects) =>
            \/ rows[i].digest \in objects'
            \/ \E c \in Clients : LosesTo(c, i)]_vars
===============================================================================
