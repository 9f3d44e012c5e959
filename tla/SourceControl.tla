---------------------------- MODULE SourceControl ----------------------------
(***************************************************************************)
(* The Changes and Branches tabs of the Git panel                          *)
(* (web/src/components/scm/SourceControlPanel.tsx) and the handlers behind *)
(* them (the scm router of cli/src/github-routes.ts): each click is one    *)
(* git command in the sandbox, with paths and patches taken from what the  *)
(* panel read last, while an agent works in the same checkout through the  *)
(* shell.  What git does with a command is as the code relies on it.       *)
(*                                                                         *)
(* A file is two hunks, each at some version; a merge leaves markers.      *)
(* Pushing is GitPush's.                                                   *)
(***************************************************************************)
EXTENDS Naturals, FiniteSets, Sequences

CONSTANTS Files,      \* paths of the repository
          Committed,  \* those of the first commit
          Branches,   \* names a branch may have
          Main,       \* the one checked out at first
          MaxEdits,   \* bound: versions the agent and the person write
          MaxAgent,   \* bound: other commands of the agent
          MaxClicks   \* bound: commands of the panel

ASSUME MainIsABranch == Main \in Branches
ASSUME CommittedAreFiles == Committed \subseteq Files /\ "none" \notin Files

VARIABLES work, index,  \* the work tree and the index: a text per file
          tips,         \* the commit each branch points at, as its tree
          branch,       \* the branch checked out
          conflicted,   \* files with unmerged entries
          stash,        \* the stash: the work tree and the commit it was taken from
          seen,         \* the panel: the status it shows
          diff,         \* the panel: the diff it shows
          unread,       \* the panel: what it has yet to read again after a hunk was applied
          editor,       \* the panel: the conflict being resolved
          marked,       \* ghost: files whose markers a stale list or the agent let through
          edits, moves, clicks

repo == <<work, index, tips, branch, conflicted, stash>>
ui == <<seen, diff, unread, editor>>
bounds == <<edits, moves, clicks>>
vars == <<repo, ui, marked, bounds>>

Hunks == {"top", "end"}
Marker == MaxEdits + 1
Text == [Hunks -> 0 .. Marker]
Absent == [h \in Hunks |-> MaxEdits + 2]
Tree == [Files -> Text \cup {Absent}]
Stashed == [tree : Tree, base : Tree, added : SUBSET Files]
First == [f \in Files |-> IF f \in Committed THEN [h \in Hunks |-> 0] ELSE Absent]
NoBranch == [f \in Files |-> Absent]
HasMarkers(text) == \E h \in Hunks : text[h] = Marker
head == tips[branch]

Letters == {"clean", "untracked", "staged", "changed", "both", "conflicted"}
\* `git status --porcelain`, as parseStatus and the panel's three lists sort it.
Letter(f) ==
    IF f \in conflicted THEN "conflicted"
    ELSE IF index[f] = Absent /\ head[f] = Absent THEN (IF work[f] = Absent THEN "clean" ELSE "untracked")
    ELSE IF index[f] # head[f] THEN (IF work[f] # index[f] THEN "both" ELSE "staged")
    ELSE IF work[f] # index[f] THEN "changed" ELSE "clean"
staged == {f \in Files : seen[f] \in {"staged", "both"}}
\* (ChangedAll: a plausible bug, the list does not leave out conflicted files.)
ChangedAll == {f \in Files : seen[f] \in {"changed", "both", "untracked", "conflicted"}}
changed == {f \in Files : seen[f] \in {"changed", "both", "untracked"}}

NoDiff == [file |-> "none", staged |-> FALSE, old |-> Absent, new |-> Absent]
NoEditor == [file |-> "none", text |-> Absent]

TypeOK ==
    /\ work \in Tree /\ index \in Tree
    /\ tips \in [Branches -> Tree] /\ branch \in Branches
    /\ conflicted \subseteq Files /\ marked \subseteq Files
    /\ stash \in Seq(Stashed)
    /\ seen \in [Files -> Letters]
    /\ diff \in [file : Files \cup {"none"}, staged : BOOLEAN, old : Text \cup {Absent}, new : Text \cup {Absent}]
    /\ unread \subseteq {"status", "diff"}
    /\ editor \in [file : Files \cup {"none"}, text : Text \cup {Absent}]
    /\ edits \in 0 .. MaxEdits /\ moves \in 0 .. MaxAgent /\ clicks \in 0 .. MaxClicks

Init ==
    /\ work = First /\ index = First
    /\ tips = [b \in Branches |-> IF b = Main THEN First ELSE NoBranch]
    /\ branch = Main /\ conflicted = {} /\ stash = <<>>
    /\ seen = [f \in Files |-> "clean"]
    /\ diff = NoDiff /\ unread = {} /\ editor = NoEditor /\ marked = {}
    /\ edits = 0 /\ moves = 0 /\ clicks = 0

----------------------------------------------------------------------------
(* The agent, in the shell and with the file tools.                        *)

Moved == moves < MaxAgent /\ moves' = moves + 1 /\ UNCHANGED <<edits, clicks>>
AgentEdits(f) ==
    /\ edits < MaxEdits /\ edits' = edits + 1
    /\ \E h \in Hunks :
          work' = [work EXCEPT ![f] = IF @ = Absent THEN [g \in Hunks |-> edits'] ELSE [@ EXCEPT ![h] = edits']]
    /\ UNCHANGED <<index, tips, branch, conflicted, stash, ui, marked, moves, clicks>>
AgentStages(f) ==
    /\ work[f] # Absent /\ Moved
    /\ index' = [index EXCEPT ![f] = work[f]]
    /\ conflicted' = conflicted \ {f}
    /\ marked' = IF HasMarkers(work[f]) THEN marked \cup {f} ELSE marked
    /\ UNCHANGED <<work, tips, branch, stash, ui>>
AgentMerges(f) ==
    /\ head[f] # Absent /\ index[f] = head[f] /\ work[f] = head[f] /\ Moved
    /\ \E h \in Hunks : work' = [work EXCEPT ![f][h] = Marker]
    /\ conflicted' = conflicted \cup {f}
    /\ UNCHANGED <<index, tips, branch, stash, ui, marked>>

----------------------------------------------------------------------------
(* The panel reads.                                                        *)

refresh == seen' = [f \in Files |-> Letter(f)]
Refresh ==
    /\ refresh
    /\ UNCHANGED <<repo, diff, unread, editor, marked, bounds>>

\* The diff of the work tree against the index, or of the index against HEAD.
DiffOf(f, s) == [file |-> f, staged |-> s, old |-> IF s THEN head[f] ELSE index[f],
                 new |-> IF s THEN index[f] ELSE work[f]]
OpenDiff(f) ==
    /\ diff = NoDiff /\ editor = NoEditor
    /\ \E s \in BOOLEAN : f \in (IF s THEN staged ELSE changed) /\ diff' = DiffOf(f, s)
    /\ UNCHANGED <<repo, seen, unread, editor, marked, bounds>>
CloseDiff ==
    /\ diff # NoDiff /\ diff' = NoDiff /\ unread' = {}
    /\ UNCHANGED <<repo, seen, editor, marked, bounds>>
\* After a hunk was applied: the status, then the diff, while the old diff is still on screen.
StatusAgain ==
    /\ "status" \in unread /\ unread' = {"diff"}
    /\ refresh
    /\ UNCHANGED <<repo, diff, editor, marked, bounds>>
DiffAgain ==
    /\ "diff" \in unread /\ unread' = unread \ {"diff"}
    /\ diff' = DiffOf(diff.file, diff.staged)
    /\ UNCHANGED <<repo, seen, editor, marked, bounds>>
OpenConflict(f) ==
    /\ diff = NoDiff /\ editor = NoEditor
    /\ seen[f] = "conflicted" /\ work[f] # Absent
    /\ editor' = [file |-> f, text |-> work[f]]
    /\ UNCHANGED <<repo, seen, diff, unread, marked, bounds>>
CloseConflict ==
    /\ editor # NoEditor /\ editor' = NoEditor
    /\ refresh
    /\ UNCHANGED <<repo, diff, unread, marked, bounds>>

----------------------------------------------------------------------------
(* The panel acts: one command, then the status again.                     *)

Command == clicks < MaxClicks /\ clicks' = clicks + 1 /\ UNCHANGED <<edits, moves>>
\* The lists, the commit box, the stash bar and the branches are there while no diff or conflict is.
act == Command /\ diff = NoDiff /\ editor = NoEditor /\ unread' = unread
Shown == seen' = [f \in Files |-> Letter(f)']
Matched(fs) == \A f \in fs : work[f] # Absent \/ index[f] # Absent

\* `git add -A`: marks a conflicted file resolved with whatever it holds.
stage(fs) ==
    /\ fs # {} /\ fs \subseteq changed /\ Matched(fs) /\ act
    /\ index' = [f \in Files |-> IF f \in fs THEN work[f] ELSE index[f]]
    /\ conflicted' = conflicted \ fs
    /\ marked' = marked \cup {f \in fs : HasMarkers(work[f]) /\ seen[f] # "conflicted"}
    /\ UNCHANGED <<work, tips, branch, stash, diff, editor>>
    /\ Shown

\* `git restore --staged`.
unstage(fs) ==
    /\ fs # {} /\ fs \subseteq staged /\ act
    /\ \A f \in fs : index[f] # Absent \/ head[f] # Absent
    /\ index' = [f \in Files |-> IF f \in fs THEN head[f] ELSE index[f]]
    /\ conflicted' = conflicted \ fs
    /\ marked' = marked \cup {f \in fs : HasMarkers(work[f])}
    /\ UNCHANGED <<work, tips, branch, stash, diff, editor>>
    /\ Shown

\* A hunk of the diff on screen, applied to the index: git checks that the index still has the old side.
Base(h) == IF diff.staged THEN diff.new[h] ELSE diff.old[h]
\* (TargetNow: a plausible bug, the hunk of the file as it is now.)
TargetNow(h) == IF diff.staged THEN diff.old[h] ELSE work[diff.file][h]
Target(h) == IF diff.staged THEN diff.old[h] ELSE diff.new[h]
applyHunk(h) ==
    /\ diff # NoDiff /\ diff.old # Absent /\ diff.new # Absent
    /\ diff.file \notin conflicted /\ index[diff.file] # Absent
    /\ Base(h) # Target(h) /\ index[diff.file][h] = Base(h) /\ Command
    /\ index' = [index EXCEPT ![diff.file][h] = Target(h)]
    /\ unread' = unread \cup {"status"}
    /\ UNCHANGED <<work, tips, branch, conflicted, stash, seen, diff, editor, marked>>

\* `git checkout -- f || git clean -f -- f`.
\* (DiscardedToHead: a plausible bug, the file goes back to the last commit, index and all.)
DiscardedToHead(f) == head[f]
Discarded(f) == index[f]
discard(f) ==
    /\ f \in changed /\ f \notin conflicted /\ act
    /\ work' = [work EXCEPT ![f] = Discarded(f)]
    /\ UNCHANGED <<index, tips, branch, conflicted, stash, diff, editor, marked>>
    /\ Shown

\* The button needs something staged or the amend box; Ctrl+Enter only a message.  git refuses an empty commit.
commit(amend) ==
    /\ conflicted = {} /\ (amend \/ index # head) /\ act
    /\ tips' = [tips EXCEPT ![branch] = index]
    /\ UNCHANGED <<work, index, branch, conflicted, stash, diff, editor, marked>>
    /\ Shown

\* `git stash push -u` takes every change and the untracked files; `git stash pop` the last stash there is.
stashPush ==
    /\ stash = <<>> /\ conflicted = {} /\ work # head /\ act
    /\ stash' = <<[tree |-> work, base |-> head,
                   added |-> {f \in Files : head[f] = Absent /\ index[f] # Absent /\ work[f] # Absent}]>>
    /\ work' = head /\ index' = head
    /\ UNCHANGED <<tips, branch, conflicted, diff, editor, marked>>
    /\ Shown
\* A pop merges the stash, from the commit it was taken from, into the index: hunk by hunk, with markers where
\* both sides changed one.
top == Head(stash)
Untracked(f) == top.base[f] = Absent /\ f \notin top.added
Both(f) == index[f] \notin {top.base[f], top.tree[f]} /\ top.tree[f] # top.base[f]
Clashes(f, h) == Cardinality({top.base[f][h], index[f][h], top.tree[f][h]}) = 3
Conflicts == {f \in Files : ~Untracked(f) /\ Both(f) /\ (Absent \in {index[f], top.tree[f]} \/ \E h \in Hunks : Clashes(f, h))}
Combined(f) ==
    [h \in Hunks |-> IF Clashes(f, h) THEN Marker
                     ELSE IF index[f][h] = top.base[f][h] THEN top.tree[f][h] ELSE index[f][h]]
Merged(f) ==
    IF Untracked(f) THEN (IF work[f] = Absent THEN top.tree[f] ELSE work[f])
    ELSE IF top.tree[f] = top.base[f] THEN index[f]
    ELSE IF ~Both(f) THEN top.tree[f]
    ELSE IF index[f] = Absent THEN top.tree[f]
    ELSE IF top.tree[f] = Absent THEN index[f] ELSE Combined(f)
\* It writes over no unstaged change; a file that is there keeps it from restoring an untracked one; the stash stays
\* when anything was not restored, and the panel then shows the error and reads nothing.
Popped == Conflicts = {} /\ \A f \in Files : Untracked(f) => work[f] = Absent \/ top.tree[f] = Absent
stashPop ==
    /\ stash # <<>> /\ conflicted = {} /\ act
    /\ \A f \in Files : ~Untracked(f) /\ Merged(f) # index[f] => work[f] = index[f]
    /\ work' = [f \in Files |-> IF ~Untracked(f) /\ Merged(f) = index[f] THEN work[f] ELSE Merged(f)]
    /\ index' = [f \in Files |-> IF Untracked(f) \/ f \in Conflicts \/ (Conflicts = {} /\ f \notin top.added)
                                THEN index[f] ELSE Merged(f)]
    /\ conflicted' = Conflicts
    /\ stash' = IF Popped THEN Tail(stash) ELSE stash
    /\ UNCHANGED <<tips, branch, diff, editor, marked>>
    /\ IF Popped THEN Shown ELSE UNCHANGED seen

\* git refuses when a file that differs between the branches has changes.
checkout(b) ==
    /\ b # branch /\ tips[b] # NoBranch /\ conflicted = {} /\ act
    /\ \A f \in Files : tips[b][f] # head[f] => work[f] = head[f] /\ index[f] = head[f]
    /\ branch' = b
    /\ work' = [f \in Files |-> IF tips[b][f] # head[f] THEN tips[b][f] ELSE work[f]]
    /\ index' = [f \in Files |-> IF tips[b][f] # head[f] THEN tips[b][f] ELSE index[f]]
    /\ UNCHANGED <<tips, conflicted, stash, diff, editor, marked>>
    /\ Shown
create(b) ==
    /\ tips[b] = NoBranch /\ conflicted = {} /\ act
    /\ tips' = [tips EXCEPT ![b] = head] /\ branch' = b
    /\ UNCHANGED <<work, index, conflicted, stash, diff, editor, marked>>
    /\ Shown

\* One conflict block at a time: ours, theirs, or both.
take(h) ==
    /\ editor # NoEditor /\ editor.text[h] = Marker
    /\ edits < MaxEdits /\ edits' = edits + 1
    /\ editor' = [editor EXCEPT !.text[h] = edits']
    /\ UNCHANGED <<repo, seen, diff, unread, marked, moves, clicks>>
\* The whole text on screen is written over the file and added; offered once no marker is left.
\* (ResolvableEarly: a plausible bug, offered at once.)
ResolvableEarly == editor # NoEditor
Resolvable == editor # NoEditor /\ ~HasMarkers(editor.text)
resolve ==
    /\ Resolvable /\ Command
    /\ work' = [work EXCEPT ![editor.file] = editor.text]
    /\ index' = [index EXCEPT ![editor.file] = editor.text]
    /\ conflicted' = conflicted \ {editor.file}
    /\ UNCHANGED <<tips, branch, stash, diff, unread, marked>>
    /\ Shown /\ editor' = NoEditor

Agent == \E f \in Files : AgentEdits(f) \/ AgentStages(f) \/ AgentMerges(f)
Reads == Refresh \/ CloseDiff \/ StatusAgain \/ DiffAgain \/ CloseConflict \/ \E f \in Files : OpenDiff(f) \/ OpenConflict(f)
Clicks ==
    \/ stage(changed) \/ unstage(staged)
    \/ \E f \in Files : stage({f}) \/ unstage({f}) \/ discard(f)
    \/ \E h \in Hunks : applyHunk(h) \/ take(h)
    \/ \E amend \in BOOLEAN : commit(amend)
    \/ \E b \in Branches : checkout(b) \/ create(b)
    \/ stashPush \/ stashPop \/ resolve
Next == Agent \/ Reads \/ Clicks

----------------------------------------------------------------------------
(* Properties                                                              *)

\* Conflict markers reach the index, and with it a commit, only through the agent or through a list the panel
\* read before the merge: never through the conflict editor or the lists it has just read.
MarkersAreStale == \A f \in Files : HasMarkers(index[f]) => f \in marked

\* Staging or unstaging a hunk changes that hunk of the index into the side shown on screen, and nothing else,
\* whatever the agent has done to the file since the diff was read, and while the diff is not read again yet.
HunkIsTheShownOne ==
    \A f \in Files, h \in Hunks :
       index'[f][h] # index[f][h] /\ diff.file = f /\ diff' # NoDiff /\ clicks' # clicks =>
           index'[f][h] = IF diff.staged THEN diff.old[h] ELSE diff.new[h]

\* A click that keeps the index, the commits and the stash as they are throws an unstaged text away only for what is
\* staged of the same file: discarding does, and a pop that fails, on conflicts or on files in its way, does not.
DiscardKeepsStaged ==
    clicks' # clicks /\ index' = index /\ tips' = tips /\ stash' = stash /\ branch' = branch =>
       \A f \in Files : work'[f] # work[f] /\ work[f] \notin {index[f], Absent} => work'[f] = index[f]

Spec == Init /\ [][Next]_vars
=============================================================================
