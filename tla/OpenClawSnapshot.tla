---------------------------- MODULE OpenClawSnapshot ----------------------------
(***************************************************************************)
(* Snapshots of an OpenClaw skill and its data                             *)
(* (src/infinitas_skill/openclaw/snapshot.py).                             *)
(*                                                                         *)
(* Creating one lists the files, digests them, reads each one again into   *)
(* the archive and publishes the archive by a rename; the agent may write  *)
(* its files all the while.  Restoring swaps the skill directory and then  *)
(* the data directory; a rename may fail, the undoing may fail, and the    *)
(* command may be killed.  Nobody else touches the targets of a restore.   *)
(***************************************************************************)
EXTENDS Naturals, Sequences

CONSTANTS DataFiles,  \* files of the directories being archived
          LastEdit    \* bound: edits of a file, its mtime

ASSUME SnapshotAssumption == LastEdit \in Nat

VARIABLES file,      \* [text, mtime] of each file; text 0: there is none
          phase,     \* of create_openclaw_snapshot
          noted,     \* SnapshotFile: text and mtime when it was collected
          packed,    \* files already in the archive
          archive,   \* the archive at the output path: text of each file, 0 when left out
          seen,      \* history variable: what the directory held since the command began
          target,    \* content of each restore target: "old", "new", "none"
          asideOld,  \* targets whose old content is in .restore-old-*
          move,      \* next step of the restore: [do, at]
          outcome    \* of the restore: "running", "ok", "failed", "damaged", "killed"

createVars == <<file, phase, noted, packed, archive, seen>>
restoreVars == <<target, asideOld, move, outcome>>
snapshotVars == <<createVars, restoreVars>>

Texts == 0 .. 2
FileAt(text, mtime) == [text |-> text, mtime |-> mtime]
Unlisted == FileAt(0, LastEdit + 1)
ToCollect == FileAt(0, LastEdit + 2)
Holds == [f \in DataFiles |-> file[f].text]

Areas == <<"skill", "data">>
Move(do, at) == [do |-> do, at |-> at]

CreateInit ==
    /\ file \in [DataFiles -> {FileAt(0, 0), FileAt(1, 0)}]
    /\ phase = "idle" /\ noted = [f \in DataFiles |-> Unlisted] /\ packed = {}
    /\ archive = [f \in DataFiles |-> 0] /\ seen = {}

RestoreInit ==
    /\ target \in [{"skill", "data"} -> {"old", "none"}]
    /\ asideOld = {} /\ move = Move("away", 1) /\ outcome = "running"

\* One of the two commands runs; the other one's files do not matter.
SnapshotInit ==
    /\ CreateInit /\ RestoreInit
    /\ (\A f \in DataFiles : file[f].text = 1) \/ (\A a \in DOMAIN target : target[a] = "old")

Creating == move = Move("away", 1) /\ outcome = "running"
Restoring == phase = "idle"

-------------------------------------------------------------------------------
(* create_openclaw_snapshot *)

\* The agent writes a file, creates or deletes it.
Writes(f, text) ==
    /\ phase # "idle" /\ phase # "done" /\ file[f].mtime < LastEdit /\ text # file[f].text
    /\ file' = [file EXCEPT ![f] = FileAt(text, file[f].mtime + 1)]
    /\ seen' = seen \cup {[Holds EXCEPT ![f] = text]}
    /\ UNCHANGED <<phase, noted, packed, archive, restoreVars>>

\* rglob: which files there are
Lists ==
    /\ phase = "idle" /\ Creating
    /\ phase' = "stat"
    /\ noted' = [f \in DataFiles |-> IF file[f].text = 0 THEN Unlisted ELSE ToCollect]
    /\ seen' = {Holds}
    /\ UNCHANGED <<file, packed, archive, restoreVars>>

\* stat, and then the digest, of a file; one that is gone ends the command.
Stats(f) ==
    /\ phase = "stat" /\ noted[f] = ToCollect /\ file[f].text # 0
    /\ noted' = [noted EXCEPT ![f] = FileAt(0, file[f].mtime)]
    /\ UNCHANGED <<file, phase, packed, archive, seen, restoreVars>>

Digests(f) ==
    /\ phase = "stat" /\ noted[f].text = 0 /\ noted[f].mtime <= LastEdit /\ file[f].text # 0
    /\ noted' = [noted EXCEPT ![f] = FileAt(file[f].text, noted[f].mtime)]
    /\ UNCHANGED <<file, phase, packed, archive, seen, restoreVars>>

Packs ==
    /\ phase = "stat" /\ \A f \in DataFiles : noted[f] = Unlisted \/ noted[f].text # 0
    /\ \E f \in DataFiles : noted[f] # Unlisted
    /\ phase' = "pack"
    /\ UNCHANGED <<file, noted, packed, archive, seen, restoreVars>>

\* Mutant: only size and digest are compared, not the time.
UnchangedByText(f) == file[f].text = noted[f].text

\* _add_snapshot_file: same size, digest and mtime as when it was collected
Unmodified(f) == file[f] = noted[f]

Adds(f) ==
    /\ phase = "pack" /\ f \notin packed /\ noted[f] # Unlisted /\ Unmodified(f)
    /\ packed' = packed \cup {f}
    /\ UNCHANGED <<file, phase, noted, archive, seen, restoreVars>>

\* The archive is verified, encrypted and moved to its name.
PublishesArchive ==
    /\ phase = "pack" /\ packed = {f \in DataFiles : noted[f] # Unlisted}
    /\ phase' = "done"
    /\ archive' = [f \in DataFiles |-> IF f \in packed THEN noted[f].text ELSE 0]
    /\ UNCHANGED <<file, noted, packed, seen, restoreVars>>

\* A file changed, age failed, or the command was killed: no output.
CreateStops ==
    /\ phase \in {"stat", "pack"} /\ phase' = "done"
    /\ UNCHANGED <<file, noted, packed, archive, seen, restoreVars>>

-------------------------------------------------------------------------------
(* _swap_staged_targets, after every replacement has been staged *)

Area == Areas[move.at]

\* target.rename(old_candidate), if there is a target
MovesOld ==
    /\ move.do = "away" /\ Restoring
    /\ target' = [target EXCEPT ![Area] = "none"]
    /\ asideOld' = IF target[Area] = "old" THEN asideOld \cup {Area} ELSE asideOld
    /\ move' = Move("in", move.at)
    /\ UNCHANGED <<outcome, createVars>>

\* prepared.rename(target)
MovesNew ==
    /\ move.do = "in"
    /\ target' = [target EXCEPT ![Area] = "new"]
    /\ move' = IF move.at < Len(Areas) THEN Move("away", move.at + 1) ELSE Move("drop", 1)
    /\ UNCHANGED <<asideOld, outcome, createVars>>

\* Mutant: the directories swapped before are left as they are.
UndoFromNone == 0

\* reversed(swapped)
UndoFrom == move.at - 1

\* The end of a restore that was undone; it reports the same error when content stayed aside.
Ended(left) == IF left = {} THEN "failed" ELSE "damaged"

UndoesEarlier ==
    /\ move' = IF UndoFrom > 0 THEN Move("remove", UndoFrom) ELSE Move("none", 1)
    /\ outcome' = IF UndoFrom > 0 THEN "running" ELSE Ended(asideOld')
    /\ UNCHANGED createVars

\* A rename fails: this target's old content returns, then the earlier ones.
RenameFails ==
    /\ move.do \in {"away", "in"} /\ Restoring
    /\ target' = [target EXCEPT ![Area] = IF Area \in asideOld THEN "old" ELSE @]
    /\ asideOld' = asideOld \ {Area}
    /\ UndoesEarlier

\* Its old content cannot be renamed back either; the earlier ones return all the same.
RenameBackFails ==
    /\ move.do = "in" /\ Area \in asideOld
    /\ UNCHANGED <<target, asideOld>>
    /\ UndoesEarlier

\* shutil.rmtree(target), then previous.rename(target)
Removes ==
    /\ move.do = "remove"
    /\ target' = [target EXCEPT ![Area] = "none"]
    /\ move' = Move("return", move.at)
    /\ UNCHANGED <<asideOld, outcome, createVars>>

Returns ==
    /\ move.do = "return"
    /\ target' = [target EXCEPT ![Area] = IF Area \in asideOld THEN "old" ELSE @]
    /\ asideOld' = asideOld \ {Area}
    /\ move' = IF move.at > 1 THEN Move("remove", move.at - 1) ELSE Move("none", 1)
    /\ outcome' = IF move.at > 1 THEN outcome ELSE Ended(asideOld')
    /\ UNCHANGED createVars

\* The undoing itself fails: the old content stays aside.
UndoFails ==
    /\ move.do \in {"remove", "return"} /\ move' = Move("none", 1) /\ outcome' = "damaged"
    /\ UNCHANGED <<target, asideOld, createVars>>

\* Mutant: the old content is deleted as soon as its directory is replaced.
DropsFromFirst == move.do \in {"drop", "away"}

\* _replace_targets deletes the old ones when all are replaced.
DropsNow == move.do = "drop"

DropsOld ==
    /\ DropsNow /\ \E a \in asideOld : asideOld' = asideOld \ {a}
    /\ UNCHANGED <<target, move, outcome, createVars>>

RestoreDone ==
    /\ move.do = "drop" /\ asideOld = {} /\ move' = Move("none", 1) /\ outcome' = "ok"
    /\ UNCHANGED <<target, asideOld, createVars>>

RestoreKilled ==
    /\ move.do # "none" /\ Restoring /\ move' = Move("none", 1) /\ outcome' = "killed"
    /\ UNCHANGED <<target, asideOld, createVars>>

SnapshotNext ==
    \/ \E f \in DataFiles : Stats(f) \/ Digests(f) \/ Adds(f) \/ (\E text \in Texts : Writes(f, text))
    \/ Lists \/ Packs \/ PublishesArchive \/ CreateStops
    \/ MovesOld \/ MovesNew \/ RenameFails \/ RenameBackFails \/ Removes \/ Returns \/ UndoFails
    \/ DropsOld \/ RestoreDone \/ RestoreKilled

SnapshotSpec == SnapshotInit /\ [][SnapshotNext]_snapshotVars

-------------------------------------------------------------------------------
\* A snapshot is the state of the directory at one instant: some moment after
\* the command began, every archived file had exactly the archived text, even
\* though the agent kept writing (_collect_files, _add_snapshot_file).  Files
\* created after the listing are left out.
SnapshotIsOneInstant ==
    LET archived == {f \in DataFiles : archive[f] # 0}
    IN  archived # {} => \E moment \in seen : \A f \in archived : moment[f] = archive[f]

\* A restore is all or nothing: a successful one replaces both targets, a failed one
\* none and leaves nothing aside, unless a rename back failed too (_swap_staged_targets).
RestoreAllOrNothing ==
    /\ outcome = "ok" => \A a \in DOMAIN target : target[a] = "new"
    /\ outcome = "failed" => asideOld = {} /\ \A a \in DOMAIN target : target[a] # "new"

\* Old content is deleted only when both targets have the new one: at every
\* moment, and after a kill or a failed undo, each replaced directory can be
\* found beside its target (.restore-old-*).
OldContentNotLost ==
    \A a \in asideOld \ asideOld' :
      target'[a] = "old" \/ \A b \in DOMAIN target : target[b] = "new"

\* A snapshot is of one instant; a restore that ends replaces all targets or
\* none, and no earlier one disappears that is not back or wholly replaced.
SnapshotsAreSafe == [][(SnapshotIsOneInstant /\ RestoreAllOrNothing)' /\ OldContentNotLost]_snapshotVars
===============================================================================
