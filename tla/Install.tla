-------------------------------- MODULE Install --------------------------------
(***************************************************************************)
(* Installed skills on disk: the install, switch, upgrade, sync, rollback, *)
(* repair and refresh commands of src/infinitas_skill/install.             *)
(*                                                                         *)
(* A target directory holds one tree per skill and a manifest that records *)
(* what is installed, its history and its integrity events; older events   *)
(* move to a snapshot file.  A command replaces a tree by two renames and  *)
(* then has a subprocess rewrite the manifest and the snapshot, both in    *)
(* place.  Any of these may fail, and the command may be killed in between *)
(* or while it writes.  A tree can be compared with what was released only *)
(* when its source came with a signed list of files.                       *)
(* One command works on a target directory at a time, and nobody edits a   *)
(* tree while it runs.                                                     *)
(***************************************************************************)
EXTENDS Naturals, Sequences, FiniteSets, SequencesExt

CONSTANTS Skills, Root,  \* Root is the one named on the command line; it needs the others
          Releases,      \* what the registries offer: [v, reg]
          Signed,        \* those that come with a signed file manifest
          HistoryMax,    \* 25 in the code
          InlineMax,     \* max_inline_events
          StalePolicy,   \* "ignore", "warn" or "fail"
          MaxCommands    \* bound on the commands run

ASSUME InstallAssumption ==
    /\ Root \in Skills /\ IsFiniteSet(Skills)
    /\ Releases \subseteq [v : Nat \ {0}, reg : STRING] /\ Signed \subseteq Releases
    /\ \A r \in Releases : \E latest \in {o \in Releases : o.reg = r.reg} :  \* a registry lists finitely many
          \A o \in Releases : o.reg = r.reg => o.v <= latest.v
    /\ HistoryMax \in Nat \ {0} /\ InlineMax \in Nat \ {0}

VARIABLES tree,     \* the directory of each skill
          aside,    \* skills with a tree left in a hidden transaction directory
          entry,    \* the manifest's entry of each skill
          history,  \* its earlier entries, oldest first
          inline, archived,  \* integrity events in the manifest and in the snapshot
          torn,     \* the manifest is no longer JSON
          cmd, forced, queue, at, prev, over, commands,  \* the running command
          written, happened, \* history variables: entries written, events so far
          excused,  \* why manifest and tree of a skill may disagree
          gap       \* skills whose snapshot may lack events

installVars == <<tree, aside, entry, history, inline, archived, torn,
                 cmd, forced, queue, at, prev, over, commands, written, happened, excused, gap>>

files == <<tree, aside, entry, history, inline, archived, torn>>

Tree(v, drift) == [v |-> v, drift |-> drift]
NoTree == Tree(0, FALSE)

\* What an installed release can be verified with; "lost": it no longer verifies.
Proof(rel) == IF rel \in Signed THEN "signed" ELSE "none"

Entry(rel, proof, state, checked) ==
    [v |-> rel.v, reg |-> rel.reg, proof |-> proof, state |-> state, checked |-> checked]
NoEntry == Entry([v |-> 0, reg |-> "none"], "none", "unknown", "fresh")

\* build_install_integrity_snapshot of a tree just installed
NewEntry(rel) == Entry(rel, Proof(rel), IF rel \in Signed THEN "verified" ELSE "unknown", "fresh")

Step(s, rel) == [skill |-> s, rel |-> rel]
Current == Head(queue).skill
Target == Head(queue).rel

LastOf(seq, n) == SubSeq(seq, 1 + (IF Len(seq) > n THEN Len(seq) - n ELSE 0), Len(seq))
BeforeLast(seq, n) == SubSeq(seq, 1, IF Len(seq) > n THEN Len(seq) - n ELSE 0)

\* Ascending numbers from 1 to max.
Ascending(seq, max) ==
    \A i \in 1 .. Len(seq) : seq[i] \in 1 .. max /\ \A j \in 1 .. i - 1 : seq[j] < seq[i]

\* Types of the files and of the command.
InstallTypeOK ==
    /\ tree \in [Skills -> [v : {0} \cup {r.v : r \in Releases}, drift : BOOLEAN]]
    /\ \A s \in Skills :
          /\ entry[s] = NoEntry \/ [v |-> entry[s].v, reg |-> entry[s].reg] \in Releases
          /\ Len(history[s]) <= HistoryMax /\ Len(inline[s]) <= InlineMax
    /\ cmd \in {"none", "install", "switch", "refresh"}
    /\ at \in {"idle", "stage", "swap", "drop", "manifest", "snapshot", "done", "undo", "unaside"}
    /\ at = "idle" <=> cmd = "none"
    /\ excused \in [Skills -> {"no", "cut", "switch", "undone"}]
    /\ queue \in Seq([skill : Skills, rel : Releases])

-------------------------------------------------------------------------------
(* What a command finds installed *)

Installed(s) == tree[s] # NoTree \/ entry[s] # NoEntry

\* load_installed_state: the tree's own version first; an entry without a tree counts.
VersionOf(s) == IF tree[s] # NoTree THEN tree[s].v ELSE entry[s].v
Locked(s) == IF entry[s] # NoEntry THEN entry[s].v ELSE tree[s].v

\* plan_action returns "keep"
Keep(s, rel) ==
    /\ Installed(s)
    /\ rel.v \in {VersionOf(s), Locked(s)}
    /\ entry[s] = NoEntry \/ entry[s].reg = rel.reg

\* The tree is not the one its entry was written for.
Differs(s) == tree[s].drift \/ tree[s].v # entry[s].v

\* Mutant: only the recorded state counts.
DriftedRecorded(s) == entry[s].state = "drifted"

\* verify_installed_skill; when it raises - there is no tree, no signed file manifest, or
\* it no longer verifies - the recorded state stands.
Drifted(s) == IF tree[s] # NoTree /\ entry[s].proof = "signed" THEN Differs(s) ELSE entry[s].state = "drifted"

Readiness(s) ==
    IF Drifted(s) THEN "blocked"
    ELSE IF entry[s].checked = "fresh" \/ StalePolicy = "ignore" THEN "ready"
    ELSE IF StalePolicy = "warn" THEN "warning" ELSE "blocked"

\* Mutant: a drifted skill passes the gate.
PassesDrifted(s, force) == TRUE

\* The gate of switch, upgrade, rollback and sync; --force skips it, drift included.
Passes(s, force) == force \/ Readiness(s) # "blocked"

Idle == at = "idle" /\ ~torn /\ commands < MaxCommands

Begins(c, force, steps) ==
    /\ cmd' = c /\ forced' = force /\ queue' = steps
    /\ at' = IF steps = <<>> THEN "manifest" ELSE "stage"
    /\ commands' = commands + 1
    /\ UNCHANGED <<files, prev, over, written, happened, excused, gap>>

\* The plan's steps that need applying, dependencies first.
Plan(pick) ==
    LET due == {d \in Skills \ {Root} : ~Keep(d, pick[d])}
        order == SetToSeq(due) \o (IF Keep(Root, pick[Root]) THEN <<>> ELSE <<Root>>)
    IN  [i \in 1 .. Len(order) |-> Step(order[i], pick[order[i]])]

\* install exact
StartInstall(pick, force) ==
    /\ Idle
    /\ \A d \in Skills \ {Root} : Installed(d) => pick[d].v = Locked(d)
    /\ tree[Root] = NoTree \/ Keep(Root, pick[Root]) \/ force
    /\ Plan(pick) # <<>>
    /\ Begins("install", force, Plan(pick))

\* switch, to a version or to the active source of a registry
StartSwitch(s, rel, force) ==
    /\ Idle /\ entry[s] # NoEntry /\ Passes(s, force)
    /\ Begins("switch", force, <<Step(s, rel)>>)

\* upgrade: the same registry, another version
StartUpgrade(s, rel, force) ==
    /\ Idle /\ entry[s] # NoEntry /\ Passes(s, force)
    /\ rel.reg = entry[s].reg /\ rel.v # entry[s].v
    /\ Begins("switch", force, <<Step(s, rel)>>)

Latest(reg) == CHOOSE r \in Releases : r.reg = reg /\ \A o \in Releases : o.reg = reg => o.v <= r.v

\* sync: to the latest of its registry; a warning is answered "up-to-date".
StartSync(s, force) ==
    /\ Idle /\ entry[s] # NoEntry /\ Passes(s, force)
    /\ force \/ Readiness(s) = "ready"
    /\ Latest(entry[s].reg).v # entry[s].v
    /\ Begins("switch", force, <<Step(s, Latest(entry[s].reg))>>)

\* rollback: history[-steps]
StartRollback(s, steps, force) ==
    /\ Idle /\ entry[s] # NoEntry /\ steps \in 1 .. Len(history[s]) /\ Passes(s, force)
    /\ Begins("switch", force, <<Step(s, history[s][Len(history[s]) - steps + 1])>>)

\* repair: the recorded version again, always forced
StartRepair(s) ==
    /\ Idle /\ entry[s] # NoEntry
    /\ Begins("switch", TRUE, <<Step(s, [v |-> entry[s].v, reg |-> entry[s].reg])>>)

\* report --refresh
StartRefresh == Idle /\ Begins("refresh", FALSE, <<>>)

-------------------------------------------------------------------------------
(* The swap of one tree *)

Ends ==
    /\ cmd' = "none" /\ forced' = FALSE /\ queue' = <<>> /\ at' = "idle" /\ prev' = NoTree
    /\ over' = [s \in Skills |-> <<>>]

\* Manifest and tree of s may disagree from now on; without any tree, until it is replaced.
Excuse(s, why) == [excused EXCEPT ![s] = IF @ = "undone" THEN @ ELSE why]

\* The source cannot be resolved, materialized, validated or copied.
StageFails ==
    /\ at = "stage" /\ Ends
    /\ UNCHANGED <<files, written, happened, excused, gap, commands>>

\* Mutant: the old tree is deleted, not moved.
SetAsideGone(old) == NoTree

SetAside(old) == old

\* _begin_skill_tree_replace: os.replace(destination, backup)
MovesAway ==
    /\ at = "stage"
    /\ prev' = SetAside(tree[Current])
    /\ tree' = [tree EXCEPT ![Current] = NoTree]
    /\ at' = "swap"
    /\ UNCHANGED <<aside, entry, history, inline, archived, torn, cmd, forced, queue, over,
                   written, happened, excused, gap, commands>>

\* os.replace(staged, destination); only install keeps the backup for later.
MovesIn ==
    /\ at = "swap"
    /\ tree' = [tree EXCEPT ![Current] = Tree(Target.v, FALSE)]
    /\ at' = IF cmd = "install" THEN "manifest" ELSE "drop"
    /\ UNCHANGED <<aside, entry, history, inline, archived, torn, cmd, forced, queue, prev, over,
                   written, happened, excused, gap, commands>>

\* The second rename fails: the backup goes back.
MoveFails ==
    /\ at = "swap" /\ Ends
    /\ tree' = [tree EXCEPT ![Current] = prev]
    /\ UNCHANGED <<aside, entry, history, inline, archived, torn, written, happened,
                   excused, gap, commands>>

\* So does the rename back: the transaction directory stays, with the backup.
MoveBackFails ==
    /\ at = "swap" /\ prev # NoTree /\ Ends
    /\ aside' = aside \cup {Current}
    /\ excused' = Excuse(Current, "cut")
    /\ UNCHANGED <<tree, entry, history, inline, archived, torn, written, happened, gap, commands>>

\* _copy_skill_tree drops the backup before the manifest is written.
DropsBackup ==
    /\ at = "drop"
    /\ prev' = NoTree /\ at' = "manifest"
    /\ UNCHANGED <<files, cmd, forced, queue, over, written, happened, excused, gap, commands>>

-------------------------------------------------------------------------------
(* manifest_update_cli *)

\* Mutant: the history is never cut.
RememberedAll(s) == Append(history[s], [v |-> entry[s].v, reg |-> entry[s].reg])

\* Mutant: the history keeps its oldest entries.
RememberedOldest(s) == SubSeq(Append(history[s], [v |-> entry[s].v, reg |-> entry[s].reg]), 1, HistoryMax)

\* hist.append(previous); hist[-25:]
Remembered(s) == LastOf(Append(history[s], [v |-> entry[s].v, reg |-> entry[s].reg]), HistoryMax)

\* Mutant: overflowing events are not archived.
OverflowDropped(s) == archived[s]

\* compact_integrity_history: what the snapshot has to hold afterwards
Overflow(s) == archived[s] \o BeforeLast(Append(inline[s], happened[s] + 1), InlineMax)

\* New entry, previous one to the history, one event more.
ManifestWrites ==
    /\ at = "manifest" /\ cmd # "refresh"
    /\ entry' = [entry EXCEPT ![Current] = NewEntry(Target)]
    /\ history' = [history EXCEPT ![Current] = IF entry[Current] = NoEntry THEN @ ELSE Remembered(Current)]
    /\ inline' = [inline EXCEPT ![Current] = LastOf(Append(@, happened[Current] + 1), InlineMax)]
    /\ over' = [archived EXCEPT ![Current] = Overflow(Current)]
    /\ happened' = [happened EXCEPT ![Current] = @ + 1]
    /\ written' = [written EXCEPT ![Current] = Append(@, Target)]
    /\ at' = "snapshot"
    /\ UNCHANGED <<tree, aside, archived, torn, cmd, forced, queue, prev, excused, gap, commands>>

\* _refresh_entry: a tree that is gone has drifted; without signed files nothing is known.
Checked(s) ==
    Entry(entry[s], entry[s].proof, IF entry[s].proof = "none" THEN "unknown"
                                    ELSE IF Differs(s) THEN "drifted" ELSE "verified", "fresh")

\* _refresh_manifest: every entry is verified again; one that cannot be fails the command.
RefreshWrites ==
    LET known == {s \in Skills : entry[s] # NoEntry}
    IN  /\ at = "manifest" /\ cmd = "refresh"
        /\ \A s \in known : entry[s].proof # "lost"
        /\ entry' = [s \in Skills |-> IF s \in known THEN Checked(s) ELSE entry[s]]
        /\ inline' = [s \in Skills |-> IF s \notin known THEN inline[s]
                        ELSE LastOf(Append(inline[s], happened[s] + 1), InlineMax)]
        /\ over' = [s \in Skills |-> IF s \notin known THEN archived[s] ELSE Overflow(s)]
        /\ happened' = [s \in Skills |-> happened[s] + (IF s \in known THEN 1 ELSE 0)]
        /\ at' = "snapshot"
        /\ UNCHANGED <<tree, aside, history, archived, torn, cmd, forced, queue, prev, written,
                       excused, gap, commands>>

\* Mutant: a failed install keeps its new tree.
AfterFailureKept == "idle"

\* _apply_plan undoes the swap; _run_switch_operation returns.
AfterFailure == IF cmd = "install" THEN "undo" ELSE "idle"

GivesUp ==
    IF AfterFailure = "undo" THEN at' = "undo" /\ UNCHANGED <<cmd, forced, queue, prev, over>> ELSE Ends

\* The subprocess fails before it has written the manifest.
ManifestFails ==
    /\ at = "manifest" /\ GivesUp
    /\ excused' = IF cmd = "switch" THEN Excuse(Current, "switch") ELSE excused
    /\ UNCHANGED <<files, written, happened, gap, commands>>

\* write_text stops half way: later commands find no JSON.
ManifestBreaks ==
    /\ at = "manifest" /\ GivesUp
    /\ torn' = TRUE /\ excused' = [s \in Skills |-> "undone"] /\ gap' = Skills
    /\ UNCHANGED <<tree, aside, entry, history, inline, archived, written, happened, commands>>

\* write_installed_integrity_snapshot
SnapshotWrites ==
    /\ at = "snapshot"
    /\ archived' = over
    /\ at' = "done"
    /\ UNCHANGED <<tree, aside, entry, history, inline, torn, cmd, forced, queue, prev, over,
                   written, happened, excused, gap, commands>>

\* What _load_snapshot_archived_events makes of half a snapshot: no skill has any event.
BrokenSnapshot == [s \in Skills |-> <<>>]

\* The snapshot is not written, or stops half way.
SnapshotStops ==
    /\ archived' \in {archived, BrokenSnapshot}
    /\ gap' = gap \cup {s \in Skills : over[s] # archived'[s]}

\* The manifest is written, the snapshot is not: an install is undone all the same.
SnapshotFails ==
    /\ at = "snapshot" /\ GivesUp
    /\ SnapshotStops
    /\ excused' = IF cmd = "install" THEN Excuse(Current, "undone") ELSE excused
    /\ UNCHANGED <<tree, aside, entry, history, inline, torn, written, happened, commands>>

\* _finish_skill_tree_replace(rollback=True): the new tree goes ...
Undoes ==
    /\ at = "undo"
    /\ tree' = [tree EXCEPT ![Current] = NoTree]
    /\ at' = "unaside"
    /\ UNCHANGED <<aside, entry, history, inline, archived, torn, cmd, forced, queue, prev, over,
                   written, happened, excused, gap, commands>>

\* ... and the old one returns; the command fails, earlier steps stay.
PutsBack ==
    /\ at = "unaside" /\ Ends
    /\ tree' = [tree EXCEPT ![Current] = prev]
    /\ UNCHANGED <<aside, entry, history, inline, archived, torn, written, happened,
                   excused, gap, commands>>

\* A removal or the rename back fails: the finally clause deletes the old tree.
PutBackFails ==
    /\ at = "unaside" /\ Ends
    /\ excused' = [excused EXCEPT ![Current] = "undone"]
    /\ UNCHANGED <<files, written, happened, gap, commands>>

\* The step is applied; the next one, or the end.
StepDone ==
    /\ at = "done"
    /\ IF Len(queue) > 1
       THEN queue' = Tail(queue) /\ at' = "stage" /\ prev' = NoTree /\ UNCHANGED <<cmd, forced, over>>
       ELSE Ends
    /\ excused' = IF queue = <<>> THEN excused ELSE [excused EXCEPT ![Current] = "no"]
    /\ UNCHANGED <<files, written, happened, gap, commands>>

-------------------------------------------------------------------------------
(* The surroundings *)

\* The command is killed; what it had moved away stays hidden.
Killed ==
    /\ at # "idle" /\ Ends
    /\ aside' = IF prev = NoTree THEN aside ELSE aside \cup {Current}
    /\ excused' = IF queue = <<>> THEN excused ELSE Excuse(Current, "cut")
    /\ IF at = "snapshot" THEN SnapshotStops ELSE UNCHANGED <<archived, gap>>
    /\ UNCHANGED <<tree, entry, history, inline, torn, written, happened, commands>>

\* It is killed inside write_text.
KilledWriting ==
    /\ at = "manifest" /\ Ends
    /\ torn' = TRUE
    /\ aside' = IF prev = NoTree THEN aside ELSE aside \cup {Current}
    /\ excused' = [s \in Skills |-> "undone"] /\ gap' = Skills
    /\ UNCHANGED <<tree, entry, history, inline, archived, written, happened, commands>>

\* The user edits an installed skill.
Edits(s) ==
    /\ Idle /\ tree[s] # NoTree /\ ~tree[s].drift
    /\ tree' = [tree EXCEPT ![s].drift = TRUE]
    /\ UNCHANGED <<aside, entry, history, inline, archived, torn, cmd, forced, queue, at, prev, over,
                   written, happened, excused, gap, commands>>

\* The distribution manifest or the attestation of an installed skill is deleted, or its
\* signer is no longer trusted.
LosesProof(s) ==
    /\ Idle /\ entry[s].proof = "signed"
    /\ entry' = [entry EXCEPT ![s].proof = "lost"]
    /\ UNCHANGED <<tree, aside, history, inline, archived, torn, cmd, forced, queue, at, prev, over,
                   commands, written, happened, excused, gap>>

\* stale_after_hours pass.
Ages(s) ==
    /\ Idle /\ entry[s] # NoEntry /\ entry[s].checked = "fresh"
    /\ entry' = [entry EXCEPT ![s].checked = "stale"]
    /\ UNCHANGED <<tree, aside, history, inline, archived, torn, cmd, forced, queue, at, prev, over,
                   written, happened, excused, gap, commands>>

\* Any skills that were installed before, without trouble.
InstallInit ==
    /\ written \in [Skills -> {<<>>} \cup {<<rel>> : rel \in Releases}]
    /\ tree = [s \in Skills |-> IF written[s] = <<>> THEN NoTree ELSE Tree(written[s][1].v, FALSE)]
    /\ entry = [s \in Skills |-> IF written[s] = <<>> THEN NoEntry
                                 ELSE NewEntry(written[s][1])]
    /\ happened = [s \in Skills |-> Len(written[s])]
    /\ inline = [s \in Skills |-> [n \in 1 .. Len(written[s]) |-> n]]
    /\ history = [s \in Skills |-> <<>>] /\ archived = [s \in Skills |-> <<>>]
    /\ aside = {} /\ torn = FALSE /\ commands = 0
    /\ cmd = "none" /\ forced = FALSE /\ queue = <<>> /\ at = "idle" /\ prev = NoTree
    /\ over = [s \in Skills |-> <<>>]
    /\ excused = [s \in Skills |-> "no"] /\ gap = {}

InstallNext ==
    \/ \E pick \in [Skills -> Releases], force \in BOOLEAN : StartInstall(pick, force)
    \/ \E s \in Skills, force \in BOOLEAN :
          \/ \E rel \in Releases : StartSwitch(s, rel, force) \/ StartUpgrade(s, rel, force)
          \/ StartSync(s, force)
          \/ \E steps \in 1 .. HistoryMax : StartRollback(s, steps, force)
    \/ \E s \in Skills : StartRepair(s) \/ Edits(s) \/ LosesProof(s) \/ Ages(s)
    \/ StartRefresh \/ StageFails \/ MovesAway \/ MovesIn \/ MoveFails \/ MoveBackFails \/ DropsBackup
    \/ ManifestWrites \/ RefreshWrites \/ ManifestFails \/ ManifestBreaks \/ SnapshotWrites \/ SnapshotFails
    \/ Undoes \/ PutsBack \/ PutBackFails \/ StepDone \/ Killed \/ KilledWriting

InstallSpec == InstallInit /\ [][InstallNext]_installVars

-------------------------------------------------------------------------------
(* Properties *)

\* Between commands the manifest names the tree that is installed, whatever
\* failed on the way.  The exceptions are the skills a killed command was
\* working on, those whose switch failed at the manifest (nothing is undone
\* there), and those whose install was undone too late or only half.
ManifestMatchesTree ==
    at = "idle" => \A s \in Skills : excused[s] = "no" => tree[s].v = entry[s].v

\* A tree the manifest names is never lost to a crash: it is in its place, or
\* a hidden directory still has it.  Only an install that is undone, after its
\* manifest was written or with a failing rename, leaves an entry without any tree.
NothingLost ==
    \A s \in Skills : entry[s] # NoEntry /\ tree[s] = NoTree =>
        \/ queue # <<>> /\ s = Current /\ prev # NoTree
        \/ s \in aside
        \/ excused[s] = "undone"

\* A skill the user has edited, and that can be verified, is replaced only when
\* --force or repair asked for it, or when an install moves it, as a dependency,
\* to another registry.  One without signed files, or whose signed files no longer
\* verify, is replaced without a question: its edits are not seen.
LocalEditsKept ==
    \A s \in Skills : at = "stage" /\ tree[s].drift /\ tree'[s] # tree[s] =>
      \/ forced
      \/ cmd = "install" /\ s # Root /\ Target.reg # entry[s].reg
      \/ entry[s].proof # "signed"

\* rollback reaches what was really installed before: the history is the most
\* recent part of the entries ever written, and the entry is the last of them.
HistoryIsRecent ==
    ~torn => \A s \in Skills :
        IF written[s] = <<>> THEN entry[s] = NoEntry /\ history[s] = <<>>
        ELSE /\ [v |-> entry[s].v, reg |-> entry[s].reg] = Last(written[s])
             /\ history[s] = LastOf(Front(written[s]), HistoryMax)

\* Integrity events are compacted without loss: the manifest always has the latest
\* of each skill, the snapshot only events that came before them, in order.
\* Together they are all of them, unless the writing of a snapshot was cut short:
\* then the snapshot may lack events of any skill, but shows none twice.
EventsKept ==
    at = "idle" /\ ~torn => \A s \in Skills :
        /\ inline[s] = LastOf([n \in 1 .. happened[s] |-> n], InlineMax)
        /\ Ascending(archived[s], happened[s] - Len(inline[s]))
        /\ s \in gap \/ archived[s] \o inline[s] = [n \in 1 .. happened[s] |-> n]

\* After any failure and any kill: manifest and tree agree or the exception is a
\* known one, no tree and no part of the history is lost, events only with a
\* snapshot cut short, and edits that can be seen are replaced only when asked.
InstallIsSafe ==
    [][/\ (InstallTypeOK /\ ManifestMatchesTree /\ NothingLost /\ HistoryIsRecent /\ EventsKept)'
       /\ LocalEditsKept]_installVars
===============================================================================
