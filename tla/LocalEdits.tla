----------------------------- MODULE LocalEdits -----------------------------
(* The edit of a local worker (hub_runtime::local_worker). A small model       *)
(* proposes replacements in one or two files whose content it was shown; they  *)
(* are applied one after the other, and what was written is put back when one  *)
(* of them fails. Other programs write the same files at any time.             *)
EXTENDS Naturals

CONSTANTS
  Paths,       \* the files that the model was shown
  MaxForeign   \* bound: writes of other programs

ASSUME PathsAssumption == Paths # {}
ASSUME ForeignAssumption == MaxForeign \in Nat

VARIABLES
  file,        \* before: what the model was shown; after: its edit; other: neither
  foreign,     \* files whose content another program wrote
  foreignWrites,
  point,       \* where the edit is
  edits,       \* files of the proposal
  checked,     \* files whose preimage was checked in this pass
  now,         \* file that is being written
  written,     \* files that are edited and verified, and not put back
  unread,      \* files that could not be read when their write had failed
  rollbackFailed

editVars == <<file, foreign, foreignWrites, point, edits, checked, now, written, unread, rollbackFailed>>

-----------------------------------------------------------------------------
EditType ==
  /\ file \in [Paths -> {"before", "after", "other"}]
  /\ foreign \subseteq Paths /\ foreignWrites \in 0..MaxForeign
  /\ point \in {"generate", "prepare", "check", "write", "rename", "verify", "include", "rollback",
                "restore", "done", "refused", "failed"}
  /\ edits \subseteq Paths /\ checked \subseteq edits /\ written \subseteq edits
  /\ now \in Paths
  /\ unread \subseteq edits
  /\ rollbackFailed \in BOOLEAN

\* collect_files: the worker has read its files.
EditInit ==
  /\ file = [p \in Paths |-> "before"]
  /\ foreign = {} /\ foreignWrites = 0
  /\ point = "generate"
  /\ edits = {} /\ checked = {} /\ written = {} /\ unread = {}
  /\ now = CHOOSE p \in Paths : TRUE
  /\ rollbackFailed = FALSE

-----------------------------------------------------------------------------
\* An edit, or a provider that fails.
Proposes ==
  /\ point = "generate"
  /\ \/ point' = "refused" /\ UNCHANGED edits
     \/ point' = "prepare" /\ edits' \in SUBSET Paths \ {{}}
  /\ UNCHANGED <<file, foreign, checked, now, written, unread, rollbackFailed>>

\* prepare, and once more apply before the first write: the file is as it was shown. A
\* replacement that does not match once, or is too large, refuses the edit as well.
Checks(p) ==
  /\ point \in {"prepare", "check"}
  /\ p \in edits \ checked
  /\ \/ file[p] = "before" /\ checked' = checked \cup {p} /\ UNCHANGED point
     \/ point' = "refused" /\ UNCHANGED checked
  /\ UNCHANGED <<file, foreign, edits, now, written, unread, rollbackFailed>>

HasChecked ==
  /\ point \in {"prepare", "check"} /\ checked = edits
  /\ point' = IF point = "prepare" THEN "check" ELSE "write"
  /\ checked' = {}
  /\ UNCHANGED <<file, foreign, edits, now, written, unread, rollbackFailed>>

\* atomic_write: a temporary file with the permissions of the file, or an error.
OpensTemp(p) ==
  /\ point = "write"
  /\ p \in edits \ written
  /\ now' = p
  /\ point' \in {"rename", "include"}
  /\ UNCHANGED <<file, foreign, edits, checked, written, unread, rollbackFailed>>

\* The rename is the last step of the write.
Replaces(content) ==
  /\ file' = [file EXCEPT ![now] = content]
  /\ foreign' = foreign \ {now}

Renames ==
  /\ point = "rename"
  /\ \/ Replaces("after") /\ point' = "verify"
     \/ UNCHANGED <<file, foreign>> /\ point' = "include"
  /\ UNCHANGED <<edits, checked, now, written, unread, rollbackFailed>>

\* The edit is read back: it is there, or it is not, or it cannot be read.
Verifies ==
  /\ point = "verify"
  /\ \/ /\ file[now] = "after"
        /\ written' = written \cup {now}
        /\ point' = IF written' = edits THEN "done" ELSE "write"
     \/ point' = "include" /\ UNCHANGED written
  /\ UNCHANGED <<file, foreign, edits, checked, now, unread, rollbackFailed>>

\* Mutant: only what was verified is put back.
IncludedVerified == {}

\* The file of the failed step is put back too, when it holds the edit.
Included == IF file[now] = "after" THEN {now} ELSE {}

Includes ==
  /\ point = "include"
  /\ point' = "rollback"
  /\ \/ written' = written \cup Included /\ UNCHANGED unread
     \/ unread' = unread \cup {now} /\ UNCHANGED written
  /\ UNCHANGED <<file, foreign, edits, checked, now, rollbackFailed>>

\* Only what still holds the edit is put back.
RollsBack(p) ==
  /\ point = "rollback"
  /\ p \in written
  /\ written' = written \ {p}
  /\ \/ file[p] = "after" /\ now' = p /\ point' = "restore" /\ UNCHANGED rollbackFailed
     \/ rollbackFailed' = TRUE /\ UNCHANGED <<now, point>>
  /\ UNCHANGED <<file, foreign, edits, checked, unread>>

Restores ==
  /\ point = "restore"
  /\ \/ Replaces("before") /\ UNCHANGED rollbackFailed
     \/ UNCHANGED <<file, foreign>> /\ rollbackFailed' = TRUE
  /\ point' = "rollback"
  /\ UNCHANGED <<edits, checked, now, written, unread>>

EndsRollback ==
  /\ point = "rollback" /\ written = {}
  /\ point' = "failed"
  /\ UNCHANGED <<file, foreign, edits, checked, now, written, unread, rollbackFailed>>

\* Another program writes a file, or writes it back.
ForeignWrites(p) ==
  /\ foreignWrites < MaxForeign
  /\ \E content \in {"before", "other"} : file' = [file EXCEPT ![p] = content]
  /\ foreign' = foreign \cup {p}
  /\ foreignWrites' = foreignWrites + 1
  /\ UNCHANGED <<point, edits, checked, now, written, unread, rollbackFailed>>

EditNext ==
  \/ /\ \/ Proposes \/ HasChecked \/ Renames \/ Verifies \/ Includes \/ Restores \/ EndsRollback
        \/ \E p \in Paths : Checks(p) \/ OpensTemp(p) \/ RollsBack(p)
     /\ UNCHANGED foreignWrites
  \/ \E p \in Paths : ForeignWrites(p)

-----------------------------------------------------------------------------
(* Properties *)

\* An edit is whole or undone: what a worker reports as applied is in every file of the
\* proposal unless another program has written it since; an edit that was refused is in no
\* file; and one that failed, with a rollback that did not, is left in none but a file
\* that could not be read.
EditsAreWhole ==
  /\ point = "done" => \A p \in edits : file[p] = "after" \/ p \in foreign
  /\ point = "refused" => \A p \in Paths : file[p] # "after"
  /\ point = "failed" /\ ~rollbackFailed => \A p \in Paths : file[p] = "after" => p \in unread
=============================================================================
