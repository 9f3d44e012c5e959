------------------------------ MODULE Workspace ------------------------------
(***************************************************************************)
(* The text files of one workspace and everyone who changes them: the      *)
(* agents' read_file, edit_file and write_file (cli/src/file-tools.ts),    *)
(* the Files editor (ExplorerPanel.tsx, PUT /api/workspace/:owner/file),   *)
(* the staged write both go through (cli/src/workspace-write.ts), and the  *)
(* checkpoints and rollbacks of the supervisor (checkpoints.ts).           *)
(*                                                                         *)
(* A text is the set of marks it carries (each edit leaves one of its own) *)
(* and the parts of it that are there: a large file is sent in two chunks. *)
(* A write is several commands in the container, and nothing keeps another *)
(* write, a checkpoint or a rollback out of the time between them.         *)
(***************************************************************************)
EXTENDS Naturals, FiniteSets, Sequences

CONSTANTS Files,      \* paths inside /workspace
          Ignored,    \* those a .gitignore of the workspace covers
          Tools,      \* agents that may be in a file tool
          Puts,       \* saves the editor may have under way
          MaxEdits,   \* bound: the marks that may be written
          MaxPoints,  \* bound: checkpoints
          MaxFaults,  \* bound: commands and checkpoints that fail
          MaxRollbacks, \* bound: rollbacks
          MaxClicks  \* bound: files opened, pinned, unpinned and removed

VARIABLES disk,      \* the file at each path
          staged,    \* the parts in each write's temporary file
          calls,     \* each writer: the write it is in
          points,    \* the checkpoints, oldest first
          preview,   \* the panel: the file shown, with the text it had when fetched
          draft,     \* the panel: the text being edited, if any
          opening,   \* the panel: files asked for and not answered
          pins,      \* the rows of workspace_pins
          used,      \* marks written so far
          swept,     \* ghost: writes whose temporary file a rollback touched
          faults, rollbacks, clicks

panel == <<preview, draft, opening>>
bounds == <<faults, rollbacks, clicks>>
vars == <<disk, staged, calls, points, panel, pins, used, swept, bounds>>

Writers == Tools \cup Puts
Old == 0
Edits == 1 .. MaxEdits
Marks == Edits \cup {Old}
Parts == {"head", "tail"}
Text == [marks : SUBSET Marks, parts : SUBSET Parts]
NoFile == [marks |-> {}, parts |-> {}]
Whole(marks) == [marks |-> marks, parts |-> Parts]
Exists(f) == disk[f] # NoFile
Fetched(f) == disk[f].marks
Half(text) == text.parts # {} /\ text.parts # Parts

None == "none"
Idle == [at |-> "idle", file |-> None, marks |-> {}, typedIn |-> None]
NoDraft == [marks |-> {}, of |-> None]
NoPreview == [file |-> None, marks |-> {}]

Tracked == Files \ Ignored
Kept(w) == calls[w].file \in Tracked
Image == [tree : [Tracked -> Text], temps : [Writers -> SUBSET Parts]]

TypeOK ==
    /\ disk \in [Files -> Text]
    /\ staged \in [Writers -> SUBSET Parts]
    /\ calls \in [Writers -> [at : {"idle", "checkpoint", "first", "second", "move", "answer"},
                              file : Files \cup {None}, marks : SUBSET Marks,
                              typedIn : Files \cup {None}]]
    /\ points \in Seq(Image) /\ Len(points) <= MaxPoints
    /\ preview \in [file : Files \cup {None}, marks : SUBSET Marks]
    /\ draft \in [marks : SUBSET Marks, of : Files \cup {None}]
    /\ opening \subseteq Files
    /\ pins \subseteq Files /\ used \subseteq Edits
    /\ swept \subseteq Writers
    /\ faults \in 0 .. MaxFaults /\ rollbacks \in 0 .. MaxRollbacks
    /\ clicks \in 0 .. MaxClicks

Init ==
    /\ disk = [f \in Files |-> Whole({Old})]
    /\ staged = [w \in Writers |-> {}]
    /\ calls = [w \in Writers |-> Idle]
    /\ points = <<>>
    /\ preview = NoPreview /\ draft = NoDraft /\ opening = {}
    /\ pins = {} /\ used = {} /\ swept = {}
    /\ faults = 0 /\ rollbacks = 0 /\ clicks = 0

----------------------------------------------------------------------------
(* Checkpoints and rollback: git in the container over everything that is  *)
(* not ignored, temporary files of a write under way included.             *)

Snapshot == [tree |-> [f \in Tracked |-> disk[f]],
             temps |-> [w \in Writers |-> IF Kept(w) THEN staged[w] ELSE {}]]
Checkpoint == Len(points) < MaxPoints /\ points' = Append(points, Snapshot)

\* Before a turn; best effort, so a failed one leaves nothing.
TurnCheckpoint ==
    /\ Checkpoint
    /\ UNCHANGED <<disk, staged, calls, panel, pins, used, swept, bounds>>

\* `git reset --hard`, then `git clean -fd`: tracked paths as they were, anything else that is not ignored gone.
\* (RestoredOnly: a plausible bug, the files written since are not cleaned.)
RestoredOnly(image) == [f \in Files |-> IF f \in Tracked /\ image.tree[f] # NoFile THEN image.tree[f] ELSE disk[f]]
Restored(image) == [f \in Files |-> IF f \in Tracked THEN image.tree[f] ELSE disk[f]]
Cleaned(image) == [w \in Writers |-> IF Kept(w) THEN image.temps[w] ELSE staged[w]]
rollback(image) ==
    /\ disk' = Restored(image)
    /\ staged' = Cleaned(image)
    /\ swept' = swept \cup {w \in Writers : Kept(w) /\ staged[w] # image.temps[w]}
\* The clean fails or the container goes away before it: the files the checkpoint holds are back, others that the
\* reset does not know of are still there.
HalfRestored(image, left) ==
    [f \in Files |-> IF f \in Tracked /\ (image.tree[f] # NoFile \/ f \notin left) THEN image.tree[f] ELSE disk[f]]
HalfCleaned(image, left) ==
    [w \in Writers |-> IF Kept(w) /\ (image.temps[w] # {} \/ w \notin left) THEN image.temps[w] ELSE staged[w]]
rollbackFails(image) ==
    /\ faults < MaxFaults /\ faults' = faults + 1
    /\ \E left \in SUBSET (Files \cup Writers) :
          /\ disk' = HalfRestored(image, left)
          /\ staged' = HalfCleaned(image, left)
    /\ swept' = swept \cup {w \in Writers : staged'[w] # staged[w]}
Listed == {points[k] : k \in DOMAIN points}
Rollback ==
    /\ rollbacks < MaxRollbacks /\ rollbacks' = rollbacks + 1
    /\ \E image \in Listed : (rollback(image) /\ faults' = faults) \/ rollbackFails(image)
    /\ UNCHANGED <<calls, points, panel, pins, used, clicks>>

----------------------------------------------------------------------------
(* A write: two chunks appended to a temporary file, then decoded and      *)
(* moved into place by one command.                                        *)

Begin(w, at, f, marks, typedIn) ==
    calls' = [calls EXCEPT ![w] = [at |-> at, file |-> f, marks |-> marks,
                                   typedIn |-> typedIn]]
\* Marks are numbered in the order they are written.
Fresh(e) == e = Cardinality(used) + 1 /\ used' = used \cup {e}

write_file(w, f, e) ==
    /\ calls[w] = Idle /\ Fresh(e)
    /\ Begin(w, "first", f, {e}, f)
    /\ UNCHANGED <<disk, staged, points, panel, pins, swept, bounds>>

\* The new text is the one read with the old string replaced; the file is not looked at again.
edit_file(w, f, e) ==
    /\ calls[w] = Idle /\ Exists(f) /\ Fresh(e)
    /\ Begin(w, "first", f, Fetched(f) \cup {e}, f)
    /\ UNCHANGED <<disk, staged, points, panel, pins, swept, bounds>>

\* `>` for the first chunk, `>>` for the others, which creates the file when it is gone.
Chunk(w) ==
    \/ /\ calls[w].at = "first"
       /\ staged' = [staged EXCEPT ![w] = {"head"}]
       /\ calls' = [calls EXCEPT ![w].at = "second"]
    \/ /\ calls[w].at = "second"
       /\ staged' = [staged EXCEPT ![w] = @ \cup {"tail"}]
       /\ calls' = [calls EXCEPT ![w].at = "move"]
\* A plausible bug: no temporary file, the chunks go to the file itself.
StageInPlace(w) ==
    /\ Chunk(w)
    /\ disk' = [disk EXCEPT ![calls[w].file] = [marks |-> calls[w].marks, parts |-> staged'[w]]]
    /\ UNCHANGED <<points, panel, pins, used, swept, bounds>>

Stage(w) ==
    /\ Chunk(w)
    /\ UNCHANGED <<disk, points, panel, pins, used, swept, bounds>>

\* A temporary name is random: once its write is over, no checkpoint's copy of it matters.
Forget(w) ==
    /\ points' = [k \in DOMAIN points |-> [points[k] EXCEPT !.temps[w] = {}]]
    /\ swept' = swept \ {w}
    /\ staged' = [staged EXCEPT ![w] = {}]
After(w, ok) ==
    IF w \in Puts THEN [calls EXCEPT ![w].at = "answer", ![w].typedIn = IF ok THEN @ ELSE None]
                  ELSE [calls EXCEPT ![w] = Idle]

\* base64 -d fails only when the staged file is gone: whole quads decode without complaint.
Move(w) ==
    /\ calls[w].at = "move"
    /\ disk' = IF staged[w] = {} THEN disk
               ELSE [disk EXCEPT ![calls[w].file] = [marks |-> calls[w].marks, parts |-> staged[w]]]
    /\ calls' = After(w, staged[w] # {})
    /\ Forget(w)
    /\ UNCHANGED <<panel, pins, used, bounds>>

\* A command fails or its answer never comes: the call ends with an error, before or after the move.
Fail(w) ==
    /\ calls[w].at \in {"first", "second", "move"}
    /\ faults < MaxFaults /\ faults' = faults + 1
    /\ \/ disk' = disk
       \/ /\ calls[w].at = "move" /\ staged[w] # {}
          /\ disk' = [disk EXCEPT ![calls[w].file] = [marks |-> calls[w].marks, parts |-> staged[w]]]
    /\ calls' = After(w, FALSE)
    /\ Forget(w)
    /\ UNCHANGED <<panel, pins, used, rollbacks, clicks>>

----------------------------------------------------------------------------
(* The Files panel.                                                        *)

Click == clicks < MaxClicks /\ clicks' = clicks + 1 /\ UNCHANGED <<faults, rollbacks>>

\* From the list or the pins while no file is shown, from a report's "current" button at any time.
openFile(f, fromReport) ==
    /\ fromReport \/ preview = NoPreview
    /\ Click
    /\ opening' = opening \cup {f}
    /\ UNCHANGED <<disk, staged, calls, points, preview, draft, pins, used, swept>>

\* The answer becomes the file shown; what is being edited stays.
Opened(f) ==
    /\ f \in opening /\ opening' = opening \ {f}
    /\ preview' = IF Exists(f) THEN [file |-> f, marks |-> Fetched(f)] ELSE preview
    /\ UNCHANGED <<disk, staged, calls, points, draft, pins, used, swept, bounds>>

Back ==
    /\ preview # NoPreview
    /\ preview' = NoPreview /\ draft' = NoDraft
    /\ UNCHANGED <<disk, staged, calls, points, opening, pins, used, swept, bounds>>

StartEditing ==
    /\ preview # NoPreview /\ draft = NoDraft
    /\ draft' = [marks |-> preview.marks, of |-> preview.file]
    /\ UNCHANGED <<disk, staged, calls, points, preview, opening, pins, used, swept, bounds>>

Typed(e) ==
    /\ preview # NoPreview /\ draft # NoDraft
    /\ Fresh(e)
    /\ draft' = [draft EXCEPT !.marks = @ \cup {e}]
    /\ UNCHANGED <<disk, staged, calls, points, preview, opening, pins, swept, bounds>>

Cancel ==
    /\ preview # NoPreview /\ draft # NoDraft
    /\ draft' = NoDraft
    /\ UNCHANGED <<disk, staged, calls, points, preview, opening, pins, used, swept, bounds>>

\* The button is disabled while a save runs, Ctrl+S is not.
save(p) ==
    /\ calls[p] = Idle
    /\ preview # NoPreview /\ draft # NoDraft
    /\ Begin(p, "checkpoint", preview.file, draft.marks, draft.of)
    /\ UNCHANGED <<disk, staged, points, panel, pins, used, swept, bounds>>

\* The server takes a checkpoint first and goes on without one when that fails.
SaveCheckpoint(p) ==
    /\ calls[p].at = "checkpoint"
    /\ \/ Checkpoint /\ faults' = faults
       \/ faults < MaxFaults /\ faults' = faults + 1 /\ points' = points
    /\ calls' = [calls EXCEPT ![p].at = "first"]
    /\ UNCHANGED <<disk, staged, panel, pins, used, swept, rollbacks, clicks>>

\* The answer: the panel shows the file and the text of the moment of the save, and stops editing.
Saved(p) ==
    /\ calls[p].at = "answer"
    /\ IF calls[p].typedIn = None THEN UNCHANGED <<preview, draft>>
       ELSE /\ preview' = [file |-> calls[p].file, marks |-> calls[p].marks]
            /\ draft' = NoDraft
    /\ calls' = [calls EXCEPT ![p] = Idle]
    /\ UNCHANGED <<disk, staged, points, opening, pins, used, swept, bounds>>

----------------------------------------------------------------------------
(* Pins: a row that names a file which was there when it was pinned.       *)

Pin(f) ==
    /\ Exists(f) /\ f \notin pins
    /\ Click
    /\ pins' = pins \cup {f}
    /\ UNCHANGED <<disk, staged, calls, points, panel, used, swept>>
Unpin(f) ==
    /\ f \in pins /\ pins' = pins \ {f}
    /\ Click
    /\ UNCHANGED <<disk, staged, calls, points, panel, used, swept>>
\* A shell command or a file operation of the person removes a file; its pin stays.
Removed(f) ==
    /\ Exists(f)
    /\ Click
    /\ disk' = [disk EXCEPT ![f] = NoFile]
    /\ UNCHANGED <<staged, calls, points, panel, pins, used, swept>>

Writing(w) == Stage(w) \/ Move(w) \/ Fail(w)
Editing(p) == save(p) \/ SaveCheckpoint(p) \/ Saved(p)
Next ==
    \/ TurnCheckpoint \/ Rollback \/ Back \/ StartEditing \/ Cancel
    \/ \E w \in Writers : Writing(w)
    \/ \E p \in Puts : Editing(p)
    \/ \E e \in Edits : Typed(e)
    \/ \E f \in Files : Opened(f) \/ Pin(f) \/ Unpin(f) \/ Removed(f)
    \/ \E f \in Files, r \in BOOLEAN : openFile(f, r)
    \/ \E t \in Tools, f \in Files, e \in Edits : write_file(t, f, e) \/ edit_file(t, f, e)

----------------------------------------------------------------------------
(* Properties                                                              *)

\* A file on disk becomes half a text only through a rollback that touched the temporary file of the write
\* that made it, or by restoring a checkpoint of such a file: no crash, failed command or other write of a
\* file does it (a `git stash -u` or a shell command that takes a temporary file away is not modelled).
HalfFileWasSwept ==
    \A f \in Files : Half(disk'[f]) /\ disk'[f] # disk[f] =>
       \/ \E w \in swept : calls[w].file = f /\ calls[w].at = "move"
       \/ \E k \in 1 .. Len(points) : f \in Tracked /\ points[k].tree[f] = disk'[f]

\* The server's comment on the staged write: an interrupted write never leaves a half-written file.
FilesAreWhole == \A f \in Files : ~Half(disk[f])

\* A rollback gives back every file the checkpoint holds and leaves what .gitignore covers alone, even one that
\* fails between its two commands; the files written since are gone, unless it failed.
RollbackIsExact ==
    rollbacks' # rollbacks =>
       \E k \in 1 .. Len(points) : \A f \in Files :
           \/ disk'[f] = IF f \in Tracked THEN points[k].tree[f] ELSE disk[f]
           \/ faults' # faults /\ f \in Tracked /\ points[k].tree[f] = NoFile /\ disk'[f] = disk[f]

\* The editor saves into the file its text was typed in.
SavedWhereTyped == \A p \in Puts : calls[p].typedIn \in {None, calls[p].file}

\* Two comments on the editor: no text is being edited while a file is only viewed, so the text being edited is
\* of the file shown.
DraftIsOfShown == draft # NoDraft => draft.of = preview.file

Spec == Init /\ [][Next]_vars
=============================================================================
