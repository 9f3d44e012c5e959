---------------------------- MODULE WorkbenchProofs ----------------------------
(***************************************************************************)
(* What the components of Workbench owe, for any number of files, pages,   *)
(* conversations, hosts and connections, by an inductive invariant for     *)
(* each of source control, the workspace, the fetched pages, the browser   *)
(* and the connectors, and what the sum of them owes.                      *)
(***************************************************************************)
EXTENDS Workbench, SequenceTheorems, FiniteSetTheorems, TLAPS

-----------------------------------------------------------------------------
(* Source control                                                          *)

DiffType == [file : Files \cup {"none"}, staged : BOOLEAN, old : Text \cup {Absent}, new : Text \cup {Absent}]
EditorType == [file : Files \cup {"none"}, text : Text \cup {Absent}]

\* The versions yet to be written stand in no text.
Known(t) == \A h \in Hunks : t[h] \notin edits + 1 .. MaxEdits

\* The panel shows one thing at a time, and what it shows is a file.
ShownInv ==
  /\ diff = NoDiff \/ (diff.file \in Files /\ editor = NoEditor)
  /\ editor = NoEditor \/ editor.file \in Files
  /\ Known(editor.text)
  /\ unread # {} => diff # NoDiff

\* Markers are in the work tree while git knows of the conflict; what has left it, in the index, in a commit, in the
\* stash or in the diff on screen, left it through the agent or a stale list.
MarksInv ==
  /\ \A f \in Files : HasMarkers(work[f]) => f \in conflicted \cup marked
  /\ \A f \in Files : HasMarkers(index[f]) => f \in marked
  /\ \A b \in Branches, f \in Files : HasMarkers(tips[b][f]) => f \in marked
  /\ \A i \in DOMAIN stash, f \in Files : HasMarkers(stash[i].tree[f]) => f \in marked
\* No text git keeps has a version yet to be written.
VersionsInv ==
  /\ \A f \in Files : Known(work[f]) /\ Known(index[f])
  /\ \A b \in Branches, f \in Files : Known(tips[b][f])
  /\ \A i \in DOMAIN stash, f \in Files : Known(stash[i].tree[f])

\* A marker the diff shows of the work tree is there, or was written over: either way the index has moved on from
\* what the diff shows of it by the time it is no longer a conflict.
DiffInv ==
  /\ Known(diff.old) /\ Known(diff.new)
  /\ HasMarkers(diff.old) => diff.file \in marked
  /\ diff.staged /\ HasMarkers(diff.new) => diff.file \in marked
  /\ ~diff.staged /\ diff # NoDiff /\ diff.file \notin marked =>
       \A h \in Hunks : diff.new[h] = Marker =>
         /\ work[diff.file][h] # diff.old[h]
         /\ diff.file \notin conflicted => index[diff.file][h] # diff.old[h]

ScmInv == TypeOK /\ ShownInv /\ MarksInv /\ VersionsInv /\ DiffInv

\* A file that is not there is none of the texts, and has no markers.
LEMMA AbsentIsNoText == ~HasMarkers(Absent) /\ Absent \notin Text
BY EditsAssumption DEF HasMarkers, Absent, Marker, Text, Hunks

LEMMA ScmStart == Init => ScmInv
<1> SUFFICES ASSUME Init  PROVE ScmInv  OBVIOUS
<1>1. First \in Tree /\ \A f \in Files : ~HasMarkers(First[f])
  <2>1. [h \in Hunks |-> 0] \in Text /\ ~HasMarkers([h \in Hunks |-> 0])
    BY EditsAssumption DEF Text, Marker, HasMarkers
  <2> QED  BY <2>1, AbsentIsNoText DEF First, Tree
<1>2. NoBranch \in Tree /\ \A f \in Files : ~HasMarkers(NoBranch[f])  BY AbsentIsNoText DEF NoBranch, Tree
<1>3. TypeOK
  <2>1. tips \in [Branches -> Tree]  BY <1>1, <1>2 DEF Init
  <2>2. stash \in Seq(Stashed)  BY DEF Init
  <2>3. diff \in DiffType /\ editor \in EditorType  BY DEF Init, NoDiff, NoEditor, DiffType, EditorType
  <2> QED  BY <1>1, <2>1, <2>2, <2>3, EditsAssumption, MainIsABranch DEF Init, TypeOK, DiffType, EditorType, Letters
<1>4. MarksInv  BY <1>1, <1>2 DEF Init, MarksInv
<1>5. DiffInv  BY AbsentIsNoText, EditsAssumption DEF Init, DiffInv, NoDiff, Known, Absent
<1>6. VersionsInv
  <2>1. Known(Absent) /\ Known([h \in Hunks |-> 0])  BY EditsAssumption DEF Known, Absent, Init
  <2> QED  BY <2>1 DEF Init, VersionsInv, First, NoBranch
<1> QED  BY <1>3, <1>4, <1>5, <1>6, EditsAssumption DEF ScmInv, ShownInv, Init, Known, NoEditor, Absent

-----------------------------------------------------------------------------
\* The status the panel reads, whatever it is of.
LEMMA ListsAreTyped ==
  ASSUME TypeOK
  PROVE  /\ \A f \in Files : Letter(f) \in Letters
         /\ head \in Tree
<1>1. head \in Tree  BY DEF TypeOK, head
<1>2. \A f \in Files : Letter(f) \in Letters  BY DEF Letter, Letters
<1> QED  BY <1>1, <1>2

\* A diff that was just read.
LEMMA FreshDiff ==
  ASSUME work' \in Tree, index' \in Tree, (head \in Tree)', MarksInv', VersionsInv', (branch \in Branches)',
         NEW f \in Files, NEW s \in BOOLEAN, diff' = DiffOf(f, s)'
  PROVE  DiffInv' /\ diff' \in DiffType /\ diff'.file = f
<1>1. /\ head'[f] \in Text \cup {Absent} /\ index'[f] \in Text \cup {Absent} /\ work'[f] \in Text \cup {Absent}
      /\ (HasMarkers(head[f]))' => f \in marked'
      /\ Known(head[f])' /\ Known(index[f])' /\ Known(work[f])'
  BY DEF Tree, MarksInv, VersionsInv, head
<1>2. diff' = [file |-> f, staged |-> s, old |-> IF s THEN head'[f] ELSE index'[f], new |-> IF s THEN index'[f] ELSE work'[f]]
  BY DEF DiffOf
<1>3. CASE s
  <2>1. diff' = [file |-> f, staged |-> s, old |-> head'[f], new |-> index'[f]]  BY <1>2, <1>3
  <2>2. diff'.old = head'[f] /\ diff'.new = index'[f] /\ diff'.file = f /\ diff'.staged = s  BY <2>1
  <2>3. (HasMarkers(diff.old))' => f \in marked'  BY <1>1, <2>2
  <2>4. (HasMarkers(diff.new))' => f \in marked'  BY <2>2 DEF MarksInv
  <2>5. diff' \in DiffType  BY <1>1, <2>1 DEF DiffType
  <2> QED  BY <1>1, <1>3, <2>2, <2>3, <2>4, <2>5 DEF DiffInv
<1>4. CASE ~s
  <2>1. diff' = [file |-> f, staged |-> s, old |-> index'[f], new |-> work'[f]]  BY <1>2, <1>4
  <2>2. ASSUME f \notin marked', NEW h \in Hunks, work'[f][h] = Marker
        PROVE  work'[f][h] # index'[f][h] /\ f \in conflicted'
    BY <2>2 DEF HasMarkers, MarksInv
  <2>3. (HasMarkers(diff.old))' => f \in marked'  BY <2>1 DEF MarksInv
  <2> QED  BY <1>1, <1>4, <2>1, <2>2, <2>3 DEF DiffType, DiffInv
<1> QED  BY <1>3, <1>4

LEMMA AgentKeeps == ASSUME ScmInv, Agent  PROVE ScmInv'
<1>0. PICK f \in Files : AgentEdits(f) \/ AgentStages(f) \/ AgentMerges(f)  BY DEF Agent
<1> USE DEF ScmInv
<1>1. UNCHANGED <<tips, branch, stash, ui>> /\ ShownInv'
  <2>1. edits' = edits \/ edits' = edits + 1  BY <1>0 DEF AgentEdits, AgentStages, AgentMerges, Moved
  <2>2. (Known(editor.text))'
    <3>1. UNCHANGED editor  BY <1>0 DEF AgentEdits, AgentStages, AgentMerges, ui
    <3> QED  BY <2>1, <3>1, EditsAssumption DEF ShownInv, Known, TypeOK
  <2> QED  BY <1>0, <2>2 DEF AgentEdits, AgentStages, AgentMerges, ShownInv, ui, Moved
<1>2. CASE AgentEdits(f)
  <2>1. PICK h \in Hunks : work' = [work EXCEPT ![f] = IF @ = Absent THEN [g \in Hunks |-> edits'] ELSE [@ EXCEPT ![h] = edits']]
    BY <1>2 DEF AgentEdits
  <2>2. edits' \in 1 .. MaxEdits /\ edits' = edits + 1 /\ edits \in 0 .. MaxEdits  BY <1>2, EditsAssumption DEF AgentEdits, TypeOK
  <2>3. work[f] \in Text \cup {Absent}  BY DEF TypeOK, Tree
  <2> DEFINE t == IF work[f] = Absent THEN [g \in Hunks |-> edits'] ELSE [work[f] EXCEPT ![h] = edits']
  <2>4. t \in Text /\ (HasMarkers(t) => HasMarkers(work[f]))
    BY <2>2, <2>3, EditsAssumption DEF Text, Marker, HasMarkers
  <2>5. \A g \in Hunks : t[g] = edits' \/ (t[g] = work[f][g] /\ work[f] # Absent)  BY <2>3 DEF Text
  <2>6. work' = [work EXCEPT ![f] = t]  BY <2>1
  <2> HIDE DEF t
  <2>7. work' \in Tree  BY <2>4, <2>6 DEF TypeOK, Tree
  <2>8. TypeOK'  BY <1>1, <1>2, <2>2, <2>7, EditsAssumption DEF AgentEdits, TypeOK, ui
  <2>9. \A g \in Files : work'[g] = IF g = f THEN t ELSE work[g]  BY <2>6 DEF TypeOK, Tree
  <2>10. MarksInv'  BY <1>1, <1>2, <2>4, <2>9 DEF AgentEdits, MarksInv
  <2>11. \A x : Known(x) => \A g \in Hunks : x[g] \notin edits' + 1 .. MaxEdits  BY <2>2, EditsAssumption DEF Known
  <2>12. \A g \in Hunks : t[g] \notin edits' + 1 .. MaxEdits
    <3>1. \A g \in Hunks : work[f][g] \notin edits' + 1 .. MaxEdits  BY <2>11 DEF VersionsInv
    <3> QED  BY <2>2, <2>5, <3>1, EditsAssumption
  <2>13. VersionsInv'
    <3>1. \A g \in Files : \A i \in Hunks : work'[g][i] \notin edits' + 1 .. MaxEdits
      BY <2>9, <2>11, <2>12 DEF VersionsInv
    <3> QED  BY <1>1, <1>2, <2>11, <3>1 DEF AgentEdits, VersionsInv, Known, ui
  <2>14. \A g \in Hunks : edits' # diff.old[g]  BY <2>2 DEF Known, DiffInv
  <2>15. DiffInv'
    <3>1. index' = index /\ conflicted' = conflicted /\ marked' = marked /\ diff' = diff  BY <1>1, <1>2 DEF AgentEdits, ui
    <3>2. \A g \in Hunks : work[diff.file][g] # diff.old[g] => work'[diff.file][g] # diff.old[g] \/ diff = NoDiff
      BY <2>5, <2>9, <2>14 DEF ShownInv
    <3>3. (Known(diff.old) /\ Known(diff.new))'  BY <2>11, <3>1 DEF DiffInv, Known
    <3> QED  BY <3>1, <3>2, <3>3 DEF DiffInv
  <2> QED  BY <1>1, <2>8, <2>10, <2>13, <2>15
<1>3. CASE AgentStages(f)
  <2>1. work[f] \in Text \cup {Absent}  BY DEF TypeOK, Tree
  <2>2. moves' \in 0 .. MaxAgent  BY <1>3, EditsAssumption DEF AgentStages, Moved, TypeOK
  <2>3. index' \in Tree /\ marked' \subseteq Files /\ marked \subseteq marked' /\ (HasMarkers(work[f]) => f \in marked')
        /\ conflicted' = conflicted \ {f} /\ work' = work /\ edits' = edits
    BY <1>3, <2>1 DEF AgentStages, TypeOK, Tree, Moved
  <2>4. TypeOK'  BY <1>1, <1>3, <2>2, <2>3 DEF AgentStages, Moved, TypeOK, ui
  <2>5. \A g \in Files : index'[g] = IF g = f THEN work[f] ELSE index[g]  BY <1>3 DEF AgentStages, TypeOK, Tree
  <2>6. MarksInv'  BY <1>1, <2>3, <2>5 DEF MarksInv
  <2>7. VersionsInv'  BY <1>1, <2>3, <2>5 DEF VersionsInv, Known, ui
  <2>8. DiffInv'  BY <1>1, <2>3, <2>5 DEF DiffInv, ui, ShownInv, Known
  <2> QED  BY <1>1, <2>4, <2>6, <2>7, <2>8
<1>4. CASE AgentMerges(f)
  <2>1. PICK h \in Hunks : work' = [work EXCEPT ![f][h] = Marker]  BY <1>4 DEF AgentMerges
  <2>2. work[f] \in Text
    BY <1>4, AbsentIsNoText DEF AgentMerges, TypeOK, Tree
  <2>3. [work[f] EXCEPT ![h] = Marker] \in Text  BY <2>2, EditsAssumption DEF Text, Marker
  <2>4. work' \in Tree  BY <2>1, <2>3 DEF TypeOK, Tree
  <2>5. moves' \in 0 .. MaxAgent /\ edits' = edits  BY <1>4, EditsAssumption DEF AgentMerges, Moved, TypeOK
  <2>6. TypeOK'  BY <1>1, <1>4, <2>4, <2>5 DEF AgentMerges, Moved, TypeOK, ui
  <2>7. /\ \A g \in Files : g # f => work'[g] = work[g]
        /\ \A g \in Hunks : work'[f][g] = IF g = h THEN Marker ELSE work[f][g]
    BY <2>1, <2>2 DEF TypeOK, Tree, Text
  <2>8. MarksInv'  BY <1>1, <1>4, <2>7 DEF AgentMerges, MarksInv
  <2>9. Known(work'[f])  BY <2>7, EditsAssumption DEF Known, Marker, VersionsInv
  <2>10. VersionsInv'  BY <1>1, <1>4, <2>5, <2>7, <2>9 DEF AgentMerges, VersionsInv, Known, ui
  <2>11. DiffInv'
    <3>1. index' = index /\ conflicted' = conflicted \cup {f} /\ marked' = marked /\ diff' = diff
      BY <1>1, <1>4 DEF AgentMerges, ui
    <3>2. diff.file \notin marked => \A g \in Hunks : diff.old[g] # Marker  BY DEF DiffInv, HasMarkers
    <3>3. (Known(diff.old) /\ Known(diff.new))'  BY <2>5, <3>1 DEF DiffInv, Known
    <3> QED  BY <2>7, <3>1, <3>2, <3>3 DEF DiffInv, ShownInv
  <2> QED  BY <1>1, <2>6, <2>8, <2>10, <2>11
<1> QED  BY <1>0, <1>2, <1>3, <1>4

-----------------------------------------------------------------------------
\* Texts of a file that git keeps, or that the conflict editor has made of it.
Held(f, t) ==
  \/ t = index[f]
  \/ \E b \in Branches : t = tips[b][f]
  \/ \E i \in DOMAIN stash : t = stash[i].tree[f]
  \/ t = editor.text /\ ~HasMarkers(t)

LEMMA HeldIsMarked ==
  ASSUME TypeOK, ShownInv, MarksInv, VersionsInv, NEW f \in Files, NEW t, Held(f, t)
  PROVE  t \in Text \cup {Absent} /\ (HasMarkers(t) => f \in marked) /\ Known(t)
<1>1. CASE t = index[f]  BY <1>1 DEF TypeOK, Tree, MarksInv, VersionsInv
<1>2. CASE \E b \in Branches : t = tips[b][f]  BY <1>2 DEF TypeOK, Tree, MarksInv, VersionsInv
<1>3. CASE \E i \in DOMAIN stash : t = stash[i].tree[f]
  <2>1. PICK i \in DOMAIN stash : t = stash[i].tree[f]  BY <1>3
  <2>2. stash \in Seq(Stashed)  BY DEF TypeOK
  <2>3. stash[i] \in Stashed  BY <2>1, <2>2, ElementOfSeq
  <2>4. stash[i].tree \in Tree  BY <2>3 DEF Stashed
  <2> QED  BY <2>1, <2>4 DEF Tree, MarksInv, VersionsInv
<1>4. CASE t = editor.text /\ ~HasMarkers(t)  BY <1>4 DEF TypeOK, ShownInv
<1> QED  BY <1>1, <1>2, <1>3, <1>4 DEF Held

\* A command of the panel moves texts about: what goes into the index, a commit or the stash was kept already, or is
\* of the work tree and noted if it has markers.
Noted(f) == HasMarkers(work[f]) => f \in marked'
Safe(f, t) == t \in Text \cup {Absent} /\ Known(t) /\ (HasMarkers(t) => f \in marked')
PanelMoves ==
  /\ work' = [f \in Files |-> work'[f]] /\ index' = [f \in Files |-> index'[f]]
  /\ tips' \in [Branches -> Tree] /\ stash' \in Seq(Stashed) /\ branch' \in Branches
  /\ conflicted' \subseteq Files /\ marked \subseteq marked' /\ marked' \subseteq Files
  /\ \A f \in Files :
       /\ \/ Held(f, work'[f]) \/ Safe(f, work'[f])
          \/ work'[f] = work[f] /\ (Noted(f) \/ f \in conflicted')
          \/ f \in conflicted' /\ work'[f] \in Text /\ Known(work'[f])
       /\ Held(f, index'[f]) \/ Safe(f, index'[f]) \/ (index'[f] = work[f] /\ Noted(f))
       /\ \A b \in Branches : Held(f, tips'[b][f])
       /\ \A i \in DOMAIN stash' : Held(f, stash'[i].tree[f]) \/ (stash'[i].tree[f] = work[f] /\ Noted(f))

LEMMA PanelTexts ==
  ASSUME ScmInv, PanelMoves, edits' = edits
  PROVE  /\ work' \in Tree /\ index' \in Tree /\ MarksInv' /\ VersionsInv'
<1> USE DEF ScmInv
<1>1. \A f \in Files : \A t : Held(f, t) => t \in Text \cup {Absent} /\ (HasMarkers(t) => f \in marked') /\ Known(t)
  BY HeldIsMarked DEF PanelMoves
<1>2. \A f \in Files : work[f] \in Text \cup {Absent} /\ Known(work[f])  BY DEF TypeOK, Tree, VersionsInv
<1>3. \A f \in Files : /\ work'[f] \in Text \cup {Absent} /\ Known(work'[f])
                       /\ HasMarkers(work'[f]) => f \in conflicted' \cup marked'
  BY <1>1, <1>2 DEF PanelMoves, Noted, Safe
<1>4. \A f \in Files : index'[f] \in Text \cup {Absent} /\ Known(index'[f]) /\ (HasMarkers(index'[f]) => f \in marked')
  BY <1>1, <1>2 DEF PanelMoves, Noted, Safe
<1>5. \A f \in Files, b \in Branches : Known(tips'[b][f]) /\ (HasMarkers(tips'[b][f]) => f \in marked')
  BY <1>1 DEF PanelMoves
<1>6. \A f \in Files, i \in DOMAIN stash' : Known(stash'[i].tree[f]) /\ (HasMarkers(stash'[i].tree[f]) => f \in marked')
  BY <1>1, <1>2 DEF PanelMoves, Noted
<1>7. \A x : Known(x) = (\A h \in Hunks : x[h] \notin edits' + 1 .. MaxEdits)  BY DEF Known
<1>8. work' \in Tree /\ index' \in Tree  BY <1>3, <1>4 DEF PanelMoves, Tree
<1>9. MarksInv'  BY <1>3, <1>4, <1>5, <1>6 DEF MarksInv
<1>10. VersionsInv'
  <2> QED  BY <1>3, <1>4, <1>5, <1>6, <1>7 DEF VersionsInv, Known
<1> QED  BY <1>8, <1>9, <1>10

\* A command while no diff and no conflict is open.
LEMMA PanelKeeps ==
  ASSUME ScmInv, PanelMoves, Command, diff = NoDiff, UNCHANGED <<diff, unread, editor>>, Shown \/ UNCHANGED seen
  PROVE  ScmInv'
<1> USE DEF ScmInv
<1>1. work' \in Tree /\ index' \in Tree /\ MarksInv' /\ VersionsInv'  BY PanelTexts DEF Command
<1>2. clicks' \in 0 .. MaxClicks  BY EditsAssumption DEF Command, TypeOK
<1>3. tips' \in [Branches -> Tree] /\ stash' \in Seq(Stashed) /\ branch' \in Branches /\ conflicted' \subseteq Files /\ marked' \subseteq Files
  BY DEF PanelMoves
<1>4. seen' \in [Files -> Letters]
  <2>1. CASE Shown  BY <2>1 DEF Shown, Letter, Letters
  <2>2. CASE UNCHANGED seen  BY <2>2 DEF TypeOK
  <2> QED  BY <2>1, <2>2
<1>5. TypeOK'  BY <1>1, <1>2, <1>3, <1>4 DEF TypeOK, Command
<1>6. DiffInv'  BY AbsentIsNoText DEF DiffInv, NoDiff, Known, Command
<1> QED  BY <1>1, <1>5, <1>6 DEF ShownInv, Known, Command

LEMMA StageKeeps == ASSUME ScmInv, NEW fs, stage(fs)  PROVE ScmInv'
<1>1. fs \subseteq Files /\ \A f \in fs : seen[f] # "conflicted"  BY DEF stage, changed
<1>2. marked' = marked \cup {f \in fs : HasMarkers(work[f])}  BY <1>1 DEF stage
<1>3. index' = [f \in Files |-> IF f \in fs THEN work[f] ELSE index[f]] /\ conflicted' = conflicted \ fs
      /\ UNCHANGED <<work, tips, branch, stash, diff, editor>>
  BY DEF stage
<1>4. PanelMoves
  <2>1. \A f \in Files : HasMarkers(work[f]) => f \in conflicted' \cup marked'  BY <1>1, <1>2, <1>3 DEF ScmInv, MarksInv
  <2>2. \A f \in Files : f \in fs => Noted(f)  BY <1>2 DEF Noted
  <2>3. \A f \in Files : Noted(f) \/ f \in conflicted'  BY <2>1 DEF Noted
  <2>4. /\ work' = [f \in Files |-> work'[f]] /\ index' = [f \in Files |-> index'[f]]
        /\ tips' \in [Branches -> Tree] /\ stash' \in Seq(Stashed) /\ branch' \in Branches
        /\ conflicted' \subseteq Files /\ marked \subseteq marked' /\ marked' \subseteq Files
    BY <1>1, <1>2, <1>3 DEF ScmInv, TypeOK, Tree
  <2>5. \A f \in Files : (index'[f] = IF f \in fs THEN work[f] ELSE index[f])  BY <1>3
  <2> QED  BY <1>3, <2>2, <2>3, <2>4, <2>5 DEF PanelMoves, Held
<1> QED  BY <1>3, <1>4, PanelKeeps DEF stage, act

LEMMA UnstageKeeps == ASSUME ScmInv, NEW fs, unstage(fs)  PROVE ScmInv'
<1>1. fs \subseteq Files  BY DEF unstage, staged
<1>2. index' = [f \in Files |-> IF f \in fs THEN head[f] ELSE index[f]] /\ conflicted' = conflicted \ fs
      /\ marked' = marked \cup {f \in fs : HasMarkers(work[f])} /\ UNCHANGED <<work, tips, branch, stash, diff, editor>>
  BY DEF unstage
<1>3. PanelMoves
  <2>1. \A f \in Files : Noted(f) \/ f \in conflicted'  BY <1>1, <1>2 DEF ScmInv, MarksInv, Noted
  <2>2. /\ work' = [f \in Files |-> work'[f]] /\ index' = [f \in Files |-> index'[f]]
        /\ tips' \in [Branches -> Tree] /\ stash' \in Seq(Stashed) /\ branch' \in Branches
        /\ conflicted' \subseteq Files /\ marked \subseteq marked' /\ marked' \subseteq Files
    BY <1>1, <1>2 DEF ScmInv, TypeOK, Tree
  <2>3. \A f \in Files : (index'[f] = IF f \in fs THEN head[f] ELSE index[f])  BY <1>2
  <2> QED  BY <1>2, <2>1, <2>2, <2>3 DEF PanelMoves, Held, head
<1> QED  BY <1>2, <1>3, PanelKeeps DEF unstage, act

LEMMA DiscardKeeps == ASSUME ScmInv, NEW f \in Files, discard(f)  PROVE ScmInv'
<1>1. work' = [work EXCEPT ![f] = index[f]] /\ UNCHANGED <<index, tips, branch, conflicted, stash, diff, editor, marked>>
  BY DEF discard, Discarded
<1>2. PanelMoves
  <2>1. \A g \in Files : Noted(g) \/ g \in conflicted'  BY <1>1 DEF ScmInv, MarksInv, Noted
  <2>2. /\ work' = [g \in Files |-> work'[g]] /\ index' = [g \in Files |-> index'[g]]
        /\ tips' \in [Branches -> Tree] /\ stash' \in Seq(Stashed) /\ branch' \in Branches
        /\ conflicted' \subseteq Files /\ marked \subseteq marked' /\ marked' \subseteq Files
    BY <1>1 DEF ScmInv, TypeOK, Tree
  <2>3. \A g \in Files : (work'[g] = IF g = f THEN index[g] ELSE work[g])  BY <1>1 DEF ScmInv, TypeOK, Tree
  <2> QED  BY <1>1, <2>1, <2>2, <2>3 DEF PanelMoves, Held
<1> QED  BY <1>1, <1>2, PanelKeeps DEF discard, act

LEMMA CommitKeeps == ASSUME ScmInv, NEW amend, commit(amend)  PROVE ScmInv'
<1>1. tips' = [tips EXCEPT ![branch] = index] /\ UNCHANGED <<work, index, branch, conflicted, stash, diff, editor, marked>>
  BY DEF commit
<1>2. PanelMoves
  <2>1. \A f \in Files : Noted(f) \/ f \in conflicted'  BY <1>1 DEF ScmInv, MarksInv, Noted
  <2>2. /\ work' = [f \in Files |-> work'[f]] /\ index' = [f \in Files |-> index'[f]]
        /\ tips' \in [Branches -> Tree] /\ stash' \in Seq(Stashed) /\ branch' \in Branches
        /\ conflicted' \subseteq Files /\ marked \subseteq marked' /\ marked' \subseteq Files
    BY <1>1 DEF ScmInv, TypeOK, Tree
  <2>3. \A b \in Branches : (tips'[b] = IF b = branch THEN index ELSE tips[b])  BY <1>1 DEF ScmInv, TypeOK
  <2> QED  BY <1>1, <2>1, <2>2, <2>3 DEF PanelMoves, Held
<1> QED  BY <1>1, <1>2, PanelKeeps DEF commit, act

LEMMA StashPushKeeps == ASSUME ScmInv, stashPush  PROVE ScmInv'
<1> DEFINE t == [tree |-> work, base |-> head,
                 added |-> {f \in Files : head[f] = Absent /\ index[f] # Absent /\ work[f] # Absent}]
<1>1. stash' = <<t>> /\ work' = head /\ index' = head /\ conflicted = {}
      /\ UNCHANGED <<tips, branch, conflicted, diff, editor, marked>>
  BY DEF stashPush
<1>2. PanelMoves
  <2>1. \A f \in Files : Noted(f)  BY <1>1 DEF ScmInv, MarksInv, Noted
  <2>2. stash' \in Seq(Stashed) /\ DOMAIN stash' = 1 .. 1 /\ \A i \in DOMAIN stash' : stash'[i].tree = work
    <3>1. t \in Stashed /\ t.tree = work  BY ListsAreTyped DEF ScmInv, TypeOK, Stashed
    <3> HIDE DEF t
    <3> QED  BY <1>1, <3>1
  <2>3. /\ work' = [f \in Files |-> work'[f]] /\ index' = [f \in Files |-> index'[f]]
        /\ tips' \in [Branches -> Tree] /\ branch' \in Branches
        /\ conflicted' \subseteq Files /\ marked \subseteq marked' /\ marked' \subseteq Files
    BY <1>1, ListsAreTyped DEF ScmInv, TypeOK, Tree
  <2>4. \A f \in Files : Held(f, head[f])  BY DEF Held, head, ScmInv, TypeOK
  <2>5. \A f \in Files, b \in Branches : Held(f, tips'[b][f])  BY <1>1 DEF Held
  <2> QED  BY <1>1, <2>1, <2>2, <2>3, <2>4, <2>5 DEF PanelMoves
<1> QED  BY <1>1, <1>2, PanelKeeps DEF stashPush, act

\* What a pop puts into the work tree or the index of a file.
LEMMA MergedIsSafe ==
  ASSUME ScmInv, stash # <<>>, conflicted = {}, marked' = marked, NEW f \in Files
  PROVE  /\ Held(f, Merged(f)) \/ Merged(f) = work[f] \/ Safe(f, Merged(f))
            \/ (f \in Conflicts /\ Merged(f) \in Text /\ Known(Merged(f)))
         /\ ~Untracked(f) /\ f \notin Conflicts => Held(f, Merged(f)) \/ Safe(f, Merged(f))
<1> USE DEF ScmInv
<1>1. 1 \in DOMAIN stash /\ top = stash[1] /\ stash[1] \in Stashed
  <2>1. stash \in Seq(Stashed)  BY DEF TypeOK
  <2> QED  BY <2>1, EmptySeq, HeadTailProperties DEF top
<1> DEFINE o == index[f]
           t == top.tree[f]
           b == top.base[f]
<1>2. o = index[f] /\ t = top.tree[f] /\ b = top.base[f]  OBVIOUS
<1> HIDE DEF o, t, b
<1>3. Held(f, o) /\ Held(f, t)  BY <1>1, <1>2 DEF Held
<1>4. /\ o \in Text \cup {Absent} /\ (HasMarkers(o) => f \in marked) /\ Known(o)
      /\ t \in Text \cup {Absent} /\ (HasMarkers(t) => f \in marked) /\ Known(t)
  BY <1>3, HeldIsMarked
<1>5. CASE ~Untracked(f) /\ t # b /\ Both(f) /\ o # Absent /\ t # Absent
  <2>1. PICK m : m = Combined(f)  OBVIOUS
  <2>2. Merged(f) = m  BY <1>2, <1>5, <2>1 DEF Merged
  <2>3. m = [h \in Hunks |-> IF Clashes(f, h) THEN Marker ELSE IF o[h] = b[h] THEN t[h] ELSE o[h]]
    BY <1>2, <2>1 DEF Combined
  <2>4. o \in Text /\ t \in Text  BY <1>4, <1>5
  <2>5. m \in Text
    <3>1. \A h \in Hunks : o[h] \in 0 .. Marker /\ t[h] \in 0 .. Marker  BY <2>4 DEF Text
    <3>2. Marker \in 0 .. Marker  BY EditsAssumption DEF Marker
    <3> QED  BY <2>3, <3>1, <3>2 DEF Text
  <2>6. Known(m)
    <3>1. Marker \notin edits + 1 .. MaxEdits  BY EditsAssumption DEF Marker
    <3> QED  BY <1>4, <2>3, <3>1 DEF Known
  <2>7. f \notin Conflicts => (HasMarkers(m) => f \in marked)
    <3>1. f \notin Conflicts => \A h \in Hunks : ~Clashes(f, h)  BY <1>5 DEF Conflicts
    <3>2. f \notin Conflicts /\ HasMarkers(m) => HasMarkers(o) \/ HasMarkers(t)  BY <2>3, <3>1 DEF HasMarkers
    <3> QED  BY <1>4, <3>2
  <2> QED  BY <2>2, <2>5, <2>6, <2>7 DEF Safe
<1>6. CASE ~(~Untracked(f) /\ t # b /\ Both(f) /\ o # Absent /\ t # Absent)
  <2>1. Merged(f) \in {o, t} \/ (Untracked(f) /\ Merged(f) = work[f])  BY <1>2, <1>6 DEF Merged
  <2> QED  BY <1>3, <2>1
<1> QED  BY <1>5, <1>6

LEMMA StashPopKeeps == ASSUME ScmInv, stashPop  PROVE ScmInv'
<1>1. /\ stash # <<>> /\ conflicted = {} /\ conflicted' = Conflicts /\ UNCHANGED <<tips, branch, diff, editor, marked>>
      /\ stash' = Tail(stash) \/ stash' = stash
      /\ work' = [f \in Files |-> IF ~Untracked(f) /\ Merged(f) = index[f] THEN work[f] ELSE Merged(f)]
      /\ index' = [f \in Files |-> IF Untracked(f) \/ f \in Conflicts \/ (Conflicts = {} /\ f \notin top.added)
                                  THEN index[f] ELSE Merged(f)]
  BY DEF stashPop
<1>2. stash \in Seq(Stashed)  BY DEF ScmInv, TypeOK
<1>3. stash' \in Seq(Stashed) /\ \A i \in DOMAIN stash' : \E j \in DOMAIN stash : stash'[i] = stash[j]
  <2>1. CASE stash' = Tail(stash)
    <3>1. stash' \in Seq(Stashed) /\ \A i \in DOMAIN stash' : i + 1 \in DOMAIN stash /\ stash'[i] = stash[i + 1]
      BY <1>1, <1>2, <2>1, EmptySeq, HeadTailProperties
    <3> QED  BY <3>1
  <2>2. CASE stash' = stash  BY <1>2, <2>2
  <2> QED  BY <1>1, <2>1, <2>2
<1>4. PanelMoves
  <2>1. \A f \in Files : Noted(f)  BY <1>1 DEF ScmInv, MarksInv, Noted
  <2>2. /\ work' = [f \in Files |-> work'[f]] /\ index' = [f \in Files |-> index'[f]]
        /\ tips' \in [Branches -> Tree] /\ branch' \in Branches
        /\ conflicted' \subseteq Files /\ marked \subseteq marked' /\ marked' \subseteq Files
    BY <1>1 DEF ScmInv, TypeOK, Conflicts
  <2>3. ASSUME NEW f \in Files
        PROVE  /\ \/ Held(f, work'[f]) \/ Safe(f, work'[f]) \/ work'[f] = work[f]
                  \/ f \in conflicted' /\ work'[f] \in Text /\ Known(work'[f])
               /\ Held(f, index'[f]) \/ Safe(f, index'[f])
    <3>1. /\ Held(f, Merged(f)) \/ Merged(f) = work[f] \/ Safe(f, Merged(f))
             \/ (f \in Conflicts /\ Merged(f) \in Text /\ Known(Merged(f)))
          /\ ~Untracked(f) /\ f \notin Conflicts => Held(f, Merged(f)) \/ Safe(f, Merged(f))
      BY <1>1, MergedIsSafe
    <3>2. work'[f] \in {work[f], Merged(f)}  BY <1>1
    <3>3. index'[f] = index[f] \/ (~Untracked(f) /\ f \notin Conflicts /\ index'[f] = Merged(f))  BY <1>1
    <3>4. Held(f, index[f])  BY DEF Held
    <3> QED  BY <1>1, <3>1, <3>2, <3>3, <3>4
  <2>4. \A f \in Files : /\ \A b \in Branches : Held(f, tips'[b][f])
                         /\ \A i \in DOMAIN stash' : Held(f, stash'[i].tree[f])
    BY <1>1, <1>3 DEF Held
  <2> QED  BY <1>3, <2>1, <2>2, <2>3, <2>4 DEF PanelMoves
<1> QED  BY <1>1, <1>4, PanelKeeps DEF stashPop, act

LEMMA CheckoutKeeps == ASSUME ScmInv, NEW b \in Branches, checkout(b)  PROVE ScmInv'
<1>1. /\ branch' = b /\ UNCHANGED <<tips, conflicted, stash, diff, editor, marked>>
      /\ work' = [f \in Files |-> IF tips[b][f] # head[f] THEN tips[b][f] ELSE work[f]]
      /\ index' = [f \in Files |-> IF tips[b][f] # head[f] THEN tips[b][f] ELSE index[f]]
  BY DEF checkout
<1>2. PanelMoves
  <2>1. \A f \in Files : Noted(f) \/ f \in conflicted'  BY <1>1 DEF ScmInv, MarksInv, Noted
  <2>2. /\ work' = [f \in Files |-> work'[f]] /\ index' = [f \in Files |-> index'[f]]
        /\ tips' \in [Branches -> Tree] /\ stash' \in Seq(Stashed) /\ branch' \in Branches
        /\ conflicted' \subseteq Files /\ marked \subseteq marked' /\ marked' \subseteq Files
    BY <1>1 DEF ScmInv, TypeOK
  <2>3. \A f \in Files : Held(f, work'[f]) \/ work'[f] = work[f]  BY <1>1 DEF Held
  <2>4. \A f \in Files : Held(f, index'[f])  BY <1>1 DEF Held
  <2>5. \A f \in Files : /\ \A a \in Branches : Held(f, tips'[a][f])
                         /\ \A i \in DOMAIN stash' : Held(f, stash'[i].tree[f])
    BY <1>1 DEF Held
  <2> QED  BY <2>1, <2>2, <2>3, <2>4, <2>5 DEF PanelMoves
<1> QED  BY <1>1, <1>2, PanelKeeps DEF checkout, act

LEMMA CreateKeeps == ASSUME ScmInv, NEW b \in Branches, create(b)  PROVE ScmInv'
<1>1. /\ branch' = b /\ tips' = [tips EXCEPT ![b] = head] /\ UNCHANGED <<work, index, conflicted, stash, diff, editor, marked>>
  BY DEF create
<1>2. PanelMoves
  <2>1. \A f \in Files : Noted(f) \/ f \in conflicted'  BY <1>1 DEF ScmInv, MarksInv, Noted
  <2>2. /\ work' = [f \in Files |-> work'[f]] /\ index' = [f \in Files |-> index'[f]]
        /\ tips' \in [Branches -> Tree] /\ stash' \in Seq(Stashed) /\ branch' \in Branches
        /\ conflicted' \subseteq Files /\ marked \subseteq marked' /\ marked' \subseteq Files
    BY <1>1, ListsAreTyped DEF ScmInv, TypeOK, Tree
  <2>3. \A a \in Branches : tips'[a] = head \/ tips'[a] = tips[a]  BY <1>1 DEF ScmInv, TypeOK
  <2>4. \A f \in Files, a \in Branches : Held(f, tips'[a][f])  BY <2>3 DEF Held, head, ScmInv, TypeOK
  <2>5. \A f \in Files : Held(f, index'[f]) /\ \A i \in DOMAIN stash' : Held(f, stash'[i].tree[f])  BY <1>1 DEF Held
  <2> QED  BY <1>1, <2>1, <2>2, <2>4, <2>5 DEF PanelMoves
<1> QED  BY <1>1, <1>2, PanelKeeps DEF create, act

\* A hunk is applied to the text it was read from: git sees the old side in the index.
LEMMA HunkKeeps ==
  ASSUME ScmInv, NEW h \in Hunks, applyHunk(h)
  PROVE  ScmInv' /\ \A g \in Hunks : index'[diff.file][g] # index[diff.file][g] => g = h /\ index'[diff.file][g] = Target(h)
<1> DEFINE f == diff.file
<1> USE DEF ScmInv
<1>1. f \in Files /\ editor = NoEditor /\ diff \in DiffType  BY DEF applyHunk, ShownInv, TypeOK, DiffType
<1>2. diff.old \in Text /\ diff.new \in Text /\ index[f] \in Text /\ diff.staged \in BOOLEAN
  BY <1>1 DEF applyHunk, DiffType, TypeOK, Tree
<1>3. index' = [index EXCEPT ![f][h] = Target(h)] /\ UNCHANGED <<work, tips, branch, conflicted, stash, editor, marked>>
      /\ f \notin conflicted /\ Base(h) # Target(h) /\ index[f][h] = Base(h) /\ Command
      /\ UNCHANGED <<seen, diff>> /\ unread' = unread \cup {"status"} /\ diff # NoDiff
  BY DEF applyHunk
<1>4. Target(h) \in 0 .. Marker  BY <1>2 DEF Target, Text
<1>5. index' \in Tree
  <2>1. [index[f] EXCEPT ![h] = Target(h)] \in Text  BY <1>2, <1>4 DEF Text
  <2> QED  BY <1>3, <2>1 DEF TypeOK, Tree
<1>6. /\ \A g \in Files : g # f => index'[g] = index[g]
      /\ \A g \in Hunks : index'[f][g] = IF g = h THEN Target(h) ELSE index[f][g]
  BY <1>1, <1>2, <1>3 DEF TypeOK, Tree, Text
<1>7. Target(h) = Marker => f \in marked
  <2>1. CASE diff.staged  BY <2>1 DEF Target, DiffInv, HasMarkers
  <2>2. CASE ~diff.staged  BY <1>1, <1>3, <2>2 DEF Target, Base, DiffInv, applyHunk
  <2> QED  BY <1>2, <2>1, <2>2
<1>8. MarksInv'  BY <1>3, <1>6, <1>7 DEF MarksInv, HasMarkers
<1>9. Target(h) \notin edits + 1 .. MaxEdits
  <2>1. CASE diff.staged  BY <2>1 DEF Target, DiffInv, Known
  <2>2. CASE ~diff.staged  BY <2>2 DEF Target, DiffInv, Known
  <2> QED  BY <1>2, <2>1, <2>2
<1>11. VersionsInv'  BY <1>3, <1>6, <1>9 DEF VersionsInv, Known, Command
<1>12. DiffInv'
  <2>1. (Known(diff.old) /\ Known(diff.new))'  BY <1>3 DEF DiffInv, Known, Command
  <2>2. ASSUME ~diff.staged, NEW g \in Hunks, index[f][g] # diff.old[g]  PROVE index'[f][g] # diff.old[g]
    BY <1>3, <1>6, <2>2 DEF Base, Target
  <2> QED  BY <1>3, <2>1, <2>2 DEF DiffInv
<1>13. TypeOK'
  <2>1. clicks' \in 0 .. MaxClicks  BY <1>3, EditsAssumption DEF Command, TypeOK
  <2> QED  BY <1>3, <1>5, <2>1 DEF TypeOK, Command
<1>14. ShownInv'  BY <1>1, <1>3 DEF ShownInv, Known, Command
<1> QED  BY <1>6, <1>8, <1>11, <1>12, <1>13, <1>14

LEMMA TakeKeeps == ASSUME ScmInv, NEW h \in Hunks, take(h)  PROVE ScmInv'
<1> USE DEF ScmInv
<1>1. editor.file \in Files /\ diff = NoDiff /\ editor \in EditorType  BY DEF take, ShownInv, TypeOK, EditorType
<1>2. editor.text \in Text  BY <1>1, AbsentIsNoText DEF take, EditorType, HasMarkers
<1>3. edits' \in 1 .. MaxEdits /\ edits' = edits + 1 /\ edits \in 0 .. MaxEdits  BY EditsAssumption DEF take, TypeOK
<1>4. editor' = [editor EXCEPT !.text[h] = edits']  BY DEF take
<1>5. editor' \in EditorType /\ editor'.file = editor.file
  <2>1. [editor.text EXCEPT ![h] = edits'] \in Text  BY <1>2, <1>3, EditsAssumption DEF Text, Marker
  <2> QED  BY <1>1, <1>4, <2>1 DEF EditorType
<1>6. TypeOK'  BY <1>3, <1>5 DEF take, TypeOK, repo, EditorType
<1>7. \A x : Known(x) => (\A g \in Hunks : x[g] \notin edits' + 1 .. MaxEdits)  BY <1>3 DEF Known
<1>8. VersionsInv' /\ MarksInv'  BY <1>7 DEF take, repo, VersionsInv, MarksInv, Known
<1>9. DiffInv'
  <2>1. (Known(diff.old) /\ Known(diff.new))'  BY <1>7 DEF take, DiffInv, Known
  <2> QED  BY <2>1, <1>1 DEF take, DiffInv
<1>10. ShownInv'
  <2>1. editor'.text = [editor.text EXCEPT ![h] = edits']  BY <1>1, <1>4 DEF EditorType
  <2>2. \A g \in Hunks : editor'.text[g] \in {editor.text[g], edits'}  BY <1>2, <2>1 DEF Text
  <2>3. (Known(editor.text))'  BY <1>3, <1>7, <2>2 DEF ShownInv, Known
  <2> QED  BY <1>1, <1>5, <2>3 DEF ShownInv, take
<1> QED  BY <1>6, <1>8, <1>9, <1>10

LEMMA ResolveKeeps == ASSUME ScmInv, resolve  PROVE ScmInv'
<1> DEFINE f == editor.file
           t == editor.text
<1> USE DEF ScmInv
<1>1. f \in Files /\ diff = NoDiff /\ ~HasMarkers(t)
  BY DEF resolve, Resolvable, ShownInv, TypeOK
<1>2. /\ work' = [work EXCEPT ![f] = t] /\ index' = [index EXCEPT ![f] = t] /\ conflicted' = conflicted \ {f}
      /\ UNCHANGED <<tips, branch, stash, diff, unread, marked>> /\ Command /\ Shown /\ editor' = NoEditor
  BY DEF resolve
<1>3. PanelMoves
  <2>1. \A g \in Files : g # f => Noted(g) \/ g \in conflicted'  BY <1>2 DEF MarksInv, Noted
  <2>2. /\ work' = [g \in Files |-> work'[g]] /\ index' = [g \in Files |-> index'[g]]
        /\ tips' \in [Branches -> Tree] /\ stash' \in Seq(Stashed) /\ branch' \in Branches
        /\ conflicted' \subseteq Files /\ marked \subseteq marked' /\ marked' \subseteq Files
    BY <1>2 DEF TypeOK, Tree
  <2>3. \A g \in Files : (work'[g] = IF g = f THEN t ELSE work[g]) /\ (index'[g] = IF g = f THEN t ELSE index[g])
    BY <1>1, <1>2 DEF TypeOK, Tree
  <2>4. \A g \in Files : Held(g, work'[g]) \/ (g # f /\ work'[g] = work[g])  BY <1>1, <2>3 DEF Held
  <2>5. \A g \in Files : Held(g, index'[g])  BY <1>1, <2>3 DEF Held
  <2>6. \A g \in Files : /\ \A b \in Branches : Held(g, tips'[b][g])
                         /\ \A i \in DOMAIN stash' : Held(g, stash'[i].tree[g])
    BY <1>2 DEF Held
  <2> QED  BY <2>1, <2>2, <2>4, <2>5, <2>6 DEF PanelMoves
<1>4. work' \in Tree /\ index' \in Tree /\ MarksInv' /\ VersionsInv'  BY <1>2, <1>3, PanelTexts DEF Command
<1>5. TypeOK'
  <2>1. seen' \in [Files -> Letters] /\ clicks' \in 0 .. MaxClicks
    BY <1>2, EditsAssumption DEF Shown, Letter, Letters, Command, TypeOK
  <2>2. editor' \in EditorType  BY <1>2 DEF EditorType, NoEditor
  <2> QED  BY <1>2, <1>4, <2>1, <2>2 DEF TypeOK, EditorType, Command
<1>6. DiffInv'  BY <1>1, <1>2, AbsentIsNoText DEF DiffInv, NoDiff, Known, Command
<1>7. ShownInv'
  <2>1. (Known(editor.text))'  BY <1>2, EditsAssumption DEF Known, NoEditor, Absent, Command, TypeOK
  <2> QED  BY <1>1, <1>2, <2>1 DEF ShownInv
<1> QED  BY <1>4, <1>5, <1>6, <1>7

LEMMA ReadsKeep == ASSUME ScmInv, Reads  PROVE ScmInv'
<1> USE DEF ScmInv
<1>1. UNCHANGED <<repo, marked, bounds>>
  BY DEF Reads, Refresh, CloseDiff, StatusAgain, DiffAgain, CloseConflict, OpenDiff, OpenConflict
<1>2. MarksInv' /\ VersionsInv'  BY <1>1 DEF MarksInv, VersionsInv, Known, repo, bounds
<1>3. seen' \in [Files -> Letters]
  BY DEF Reads, Refresh, CloseDiff, StatusAgain, DiffAgain, CloseConflict, OpenDiff, OpenConflict, refresh, Letter,
         Letters, TypeOK
<1>0. unread' \subseteq {"status", "diff"}
  BY DEF Reads, Refresh, CloseDiff, StatusAgain, DiffAgain, CloseConflict, OpenDiff, OpenConflict, TypeOK
<1>4. \A x : (Known(x))' = Known(x)  BY <1>1 DEF Known, bounds
<1>5. Known(Absent)  BY EditsAssumption DEF Known, Absent, TypeOK
<1>6. ASSUME UNCHANGED diff  PROVE DiffInv'  BY <1>1, <1>6 DEF DiffInv, Known, repo, bounds
<1>7. ASSUME diff' \in DiffType, editor' \in EditorType  PROVE TypeOK'
  BY <1>0, <1>1, <1>3, <1>7 DEF TypeOK, DiffType, EditorType, repo, bounds
<1>8. diff \in DiffType /\ editor \in EditorType  BY DEF TypeOK, DiffType, EditorType
<1>9. CASE Refresh \/ StatusAgain
  <2>1. UNCHANGED <<diff, editor>> /\ (unread' # {} => unread # {})  BY <1>9 DEF Refresh, StatusAgain
  <2> QED  BY <1>2, <1>6, <1>7, <1>8, <2>1, <1>1 DEF ShownInv, Known, bounds
<1>10. CASE CloseDiff
  <2>1. diff' = NoDiff /\ unread' = {} /\ editor' = editor /\ NoDiff \in DiffType  BY <1>10 DEF CloseDiff, NoDiff, DiffType
  <2>2. DiffInv'  BY <2>1, <1>4, <1>5, AbsentIsNoText DEF DiffInv, NoDiff, Known
  <2> QED  BY <1>2, <1>7, <1>8, <2>1, <2>2, <1>1 DEF ShownInv, Known, bounds
<1>11. CASE CloseConflict
  <2>1. diff' = diff /\ unread' = unread /\ editor' = NoEditor /\ NoEditor \in EditorType  BY <1>11 DEF CloseConflict, NoEditor, EditorType
  <2>2. ShownInv'  BY <2>1, <1>1, <1>5 DEF ShownInv, Known, bounds, NoEditor
  <2> QED  BY <1>2, <1>6, <1>7, <1>8, <2>1, <2>2
<1>12. ASSUME NEW f \in Files, OpenDiff(f)  PROVE ScmInv'
  <2>1. PICK s \in BOOLEAN : diff' = DiffOf(f, s)  BY <1>12 DEF OpenDiff
  <2>2. diff' = DiffOf(f, s)'  BY <1>1, <2>1 DEF DiffOf, repo, head
  <2>3. (head \in Tree)' /\ work' \in Tree /\ index' \in Tree /\ (branch \in Branches)'
    BY <1>1, ListsAreTyped DEF head, repo, TypeOK
  <2>4. DiffInv' /\ diff' \in DiffType /\ diff'.file = f  BY <1>2, <2>2, <2>3, FreshDiff
  <2>5. editor' = editor /\ editor = NoEditor /\ diff' # NoDiff  BY <1>12, <2>4, CommittedAreFiles DEF OpenDiff, NoDiff
  <2> QED  BY <1>1, <1>2, <1>7, <1>8, <2>4, <2>5 DEF ShownInv, Known, bounds
<1>13. ASSUME NEW f \in Files, OpenConflict(f)  PROVE ScmInv'
  <2>1. editor' = [file |-> f, text |-> work[f]] /\ unread' = unread /\ diff' = diff /\ diff = NoDiff  BY <1>13 DEF OpenConflict
  <2>2. work[f] \in Text \cup {Absent} /\ Known(work[f])  BY DEF TypeOK, Tree, VersionsInv
  <2>3. editor' \in EditorType  BY <2>1, <2>2 DEF EditorType
  <2>4. ShownInv'  BY <2>1, <2>2, <1>1 DEF ShownInv, Known, bounds
  <2> QED  BY <1>2, <1>6, <1>7, <1>8, <2>1, <2>3, <2>4
<1>14. CASE DiffAgain
  <2>1. diff' = DiffOf(diff.file, diff.staged) /\ editor' = editor /\ unread # {}  BY <1>14 DEF DiffAgain
  <2>2. diff.file \in Files /\ editor = NoEditor /\ diff.staged \in BOOLEAN  BY <1>8, <2>1 DEF ShownInv, DiffType
  <2>3. PICK f \in Files, s \in BOOLEAN : diff' = DiffOf(f, s)  BY <2>1, <2>2
  <2>4. diff' = DiffOf(f, s)'  BY <1>1, <2>3 DEF DiffOf, repo, head
  <2>5. (head \in Tree)' /\ work' \in Tree /\ index' \in Tree /\ (branch \in Branches)'
    BY <1>1, ListsAreTyped DEF head, repo, TypeOK
  <2>6. DiffInv' /\ diff' \in DiffType /\ diff'.file = f  BY <1>2, <2>4, <2>5, FreshDiff
  <2>7. diff' # NoDiff  BY <2>6, CommittedAreFiles DEF NoDiff
  <2> QED  BY <1>1, <1>2, <1>7, <1>8, <2>1, <2>2, <2>6, <2>7 DEF ShownInv, Known, bounds
<1> QED  BY <1>9, <1>10, <1>11, <1>12, <1>13, <1>14 DEF Reads

LEMMA ScmKeep == ASSUME ScmInv, Next  PROVE ScmInv'
<1>1. CASE Clicks  BY <1>1, StageKeeps, UnstageKeeps, DiscardKeeps, HunkKeeps, TakeKeeps, CommitKeeps, CheckoutKeeps,
                      CreateKeeps, StashPushKeeps, StashPopKeeps, ResolveKeeps DEF Clicks
<1> QED  BY <1>1, AgentKeeps, ReadsKeep DEF Next

LEMMA ScmStutters == ASSUME ScmInv, UNCHANGED vars  PROVE ScmInv'
<1>1. UNCHANGED <<work, index, tips, branch, conflicted, stash, seen, diff, unread, editor, marked, edits, moves, clicks>>
  BY DEF vars, repo, ui, bounds
<1> QED  BY <1>1 DEF ScmInv, TypeOK, ShownInv, MarksInv, VersionsInv, DiffInv, Known

-----------------------------------------------------------------------------
\* What a command of the panel may change: at most one hunk of the file whose diff is open.
LEMMA ClickedHunk == ASSUME ScmInv, Next  PROVE HunkIsTheShownOne
<1> SUFFICES ASSUME NEW f \in Files, NEW h \in Hunks, index'[f][h] # index[f][h], diff.file = f, diff' # NoDiff, clicks' # clicks
             PROVE  index'[f][h] = IF diff.staged THEN diff.old[h] ELSE diff.new[h]
  BY DEF HunkIsTheShownOne
<1>1. ~Agent /\ ~Reads
  BY DEF Agent, AgentEdits, AgentStages, AgentMerges, Moved, Reads, Refresh, CloseDiff, StatusAgain, DiffAgain,
         CloseConflict, OpenDiff, OpenConflict, bounds
<1>2. ~resolve  BY DEF resolve, Resolvable, ScmInv, ShownInv
<1>3. \E g \in Hunks : applyHunk(g)
  BY <1>1, <1>2 DEF Next, Clicks, stage, unstage, discard, take, commit, checkout, create, stashPush, stashPop, act
<1>4. PICK g \in Hunks : applyHunk(g)  BY <1>3
<1> QED  BY <1>4, HunkKeeps DEF Target

LEMMA DiscardedOnly == ASSUME ScmInv, Next  PROVE DiscardKeepsStaged
<1> SUFFICES ASSUME clicks' # clicks, index' = index, tips' = tips, stash' = stash, branch' = branch,
                    NEW f \in Files, work'[f] # work[f], work[f] \notin {index[f], Absent}
             PROVE  work'[f] = index[f]
  BY DEF DiscardKeepsStaged
<1>1. ~Agent /\ ~Reads
  BY DEF Agent, AgentEdits, AgentStages, AgentMerges, Moved, Reads, Refresh, CloseDiff, StatusAgain, DiffAgain,
         CloseConflict, OpenDiff, OpenConflict, bounds
<1>2. work \in Tree /\ index \in Tree  BY DEF ScmInv, TypeOK
<1>3. ~stashPush
  <2>1. \A t : Len(<<t>>) = 1 /\ Len(<<>>) = 0  OBVIOUS
  <2>2. stashPush => stash = <<>> /\ \E t : stash' = <<t>>  BY DEF stashPush
  <2> QED  BY <2>1, <2>2
<1>4. ~stashPop
  <2>1. stashPop /\ Untracked(f) => Merged(f) = work[f]  BY DEF Merged
  <2>2. stashPop /\ ~Untracked(f) => Merged(f) = index[f]  BY DEF stashPop
  <2>3. stashPop => work'[f] = work[f]  BY <2>1, <2>2 DEF stashPop
  <2> QED  BY <2>3
<1>5. ASSUME NEW g \in Files, discard(g)  PROVE work'[f] = index[f]
  BY <1>2, <1>5 DEF discard, Discarded, Tree
<1>6. ASSUME resolve  PROVE work'[f] = index[f]
  <2>1. work' = [work EXCEPT ![editor.file] = editor.text] /\ index' = [index EXCEPT ![editor.file] = editor.text]
    BY <1>6 DEF resolve
  <2>2. f = editor.file /\ work'[f] = editor.text  BY <1>2, <2>1 DEF Tree
  <2> QED  BY <1>2, <2>1, <2>2 DEF Tree
<1> QED
  BY <1>1, <1>3, <1>4, <1>5, <1>6 DEF Next, Clicks, stage, unstage, applyHunk, take, commit, checkout, create, repo

\* Source control does what it shows, whatever the agent does in the checkout meanwhile, and lets no markers into the
\* index but through the agent or a stale list (SourceControlPanel.tsx, github-routes.ts).
THEOREM ClicksAreMeant == Spec => [](TypeOK /\ MarkersAreStale) /\ [][HunkIsTheShownOne /\ DiscardKeepsStaged]_vars
<1>1. Init => ScmInv  BY ScmStart
<1>2. ScmInv /\ [Next]_vars => ScmInv'  BY ScmKeep, ScmStutters
<1>3. ScmInv /\ [Next]_vars => [HunkIsTheShownOne /\ DiscardKeepsStaged]_vars  BY ClickedHunk, DiscardedOnly
<1>4. ScmInv => TypeOK /\ MarkersAreStale  BY DEF ScmInv, MarksInv, MarkersAreStale
<1> QED  BY <1>1, <1>2, <1>3, <1>4, PTL DEF Spec

-----------------------------------------------------------------------------
(* The workspace's files                                                   *)

CallType == [at : {"idle", "checkpoint", "first", "second", "move", "answer"}, file : Files \cup {W!None},
             marks : SUBSET W!Marks, typedIn : Files \cup {W!None}]

\* The temporary file of a write holds what the write has sent of it, unless a rollback touched it.
StagedAsSent(w) ==
  w \notin swept => /\ writes[w].at = "second" => temps[w] = {"head"}
                    /\ writes[w].at = "move" => temps[w] = W!Parts
WorkspaceInv == W!TypeOK /\ \A w \in W!Writers : StagedAsSent(w)

LEMMA WorkspaceStart == W!Init => WorkspaceInv
<1> SUFFICES ASSUME W!Init  PROVE WorkspaceInv  OBVIOUS
<1>1. W!Whole({W!Old}) \in W!Text  BY DEF W!Whole, W!Old, W!Text, W!Marks
<1>2. W!Idle \in CallType /\ W!Idle.at = "idle"  BY DEF W!Idle, CallType
<1>3. W!TypeOK
  <2>1. disk \in [Files -> W!Text] /\ temps \in [W!Writers -> SUBSET W!Parts] /\ writes \in [W!Writers -> CallType]
    BY <1>1, <1>2 DEF W!Init
  <2>2. points \in Seq(W!Image) /\ Len(points) <= MaxPoints
    BY FilesAssumption DEF W!Init
  <2>3. preview \in [file : Files \cup {W!None}, marks : SUBSET W!Marks]
        /\ draft \in [marks : SUBSET W!Marks, of : Files \cup {W!None}]
    BY DEF W!Init, W!NoPreview, W!NoDraft
  <2>4. fileFaults \in 0 .. MaxFaults /\ rollbacks \in 0 .. MaxRollbacks /\ fileClicks \in 0 .. FileClicks
    BY FilesAssumption DEF W!Init
  <2>5. opening = {} /\ pins = {} /\ used = {} /\ swept = {}  BY DEF W!Init
  <2> QED  BY <2>1, <2>2, <2>3, <2>4, <2>5 DEF W!TypeOK, CallType
<1> QED  BY <1>2, <1>3 DEF WorkspaceInv, StagedAsSent, W!Init

\* One write's step keeps the types of what it changes.
LEMMA WriteMarks == ASSUME WorkspaceInv, NEW w \in W!Writers
                    PROVE /\ writes[w] \in CallType /\ temps[w] \in SUBSET W!Parts
                          /\ [marks |-> writes[w].marks, parts |-> temps[w]] \in W!Text
<1>1. writes[w] \in CallType /\ temps[w] \in SUBSET W!Parts  BY DEF WorkspaceInv, W!TypeOK, CallType
<1> QED  BY <1>1 DEF CallType, W!Text

LEMMA ForgetKeeps == ASSUME WorkspaceInv, NEW w \in W!Writers, W!Forget(w)
                     PROVE /\ points' \in Seq(W!Image) /\ Len(points') <= MaxPoints
                           /\ temps' \in [W!Writers -> SUBSET W!Parts] /\ swept' \subseteq W!Writers
                           /\ \A v \in W!Writers \ {w} : temps'[v] = temps[v] /\ (v \in swept' <=> v \in swept)
<1>1. points \in Seq(W!Image) /\ Len(points) <= MaxPoints /\ DOMAIN points = 1 .. Len(points) /\ Len(points) \in Nat
  BY DEF WorkspaceInv, W!TypeOK
<1>2. \A k \in 1 .. Len(points) : [points[k] EXCEPT !.temps[w] = {}] \in W!Image
  <2> TAKE k \in 1 .. Len(points)
  <2>1. points[k] \in W!Image  BY <1>1
  <2>2. [points[k].temps EXCEPT ![w] = {}] \in [W!Writers -> SUBSET W!Parts]  BY <2>1 DEF W!Image
  <2>3. [points[k] EXCEPT !.temps = [points[k].temps EXCEPT ![w] = {}]] \in W!Image  BY <2>1, <2>2 DEF W!Image
  <2> QED  BY <2>1, <2>3 DEF W!Image
<1>3. points' = [k \in 1 .. Len(points) |-> [points[k] EXCEPT !.temps[w] = {}]]  BY <1>1 DEF W!Forget
<1>4. points' \in Seq(W!Image) /\ Len(points') = Len(points)
  <2> DEFINE g == [k \in 1 .. Len(points) |-> [points[k] EXCEPT !.temps[w] = {}]]
  <2>1. g \in [1 .. Len(points) -> W!Image]  BY <1>2
  <2>2. g \in Seq(W!Image)  BY <2>1, <1>1
  <2>3. Len(g) = Len(points)  BY <2>2, <1>1, LenProperties
  <2> HIDE DEF g
  <2>4. points' = g  BY <1>3 DEF g
  <2> QED  BY <2>2, <2>3, <2>4
<1>5. temps \in [W!Writers -> SUBSET W!Parts] /\ swept \subseteq W!Writers  BY DEF WorkspaceInv, W!TypeOK
<1> QED  BY <1>1, <1>4, <1>5 DEF W!Forget

LEMMA AfterKeeps == ASSUME WorkspaceInv, NEW w \in W!Writers, NEW ok \in BOOLEAN, writes' = W!After(w, ok)
                    PROVE /\ writes' \in [W!Writers -> CallType] /\ writes'[w].at \notin {"second", "move"}
                          /\ \A v \in W!Writers \ {w} : writes'[v] = writes[v]
<1>1. writes \in [W!Writers -> CallType]  BY DEF WorkspaceInv, W!TypeOK, CallType
<1>2. W!Idle \in CallType /\ W!Idle.at = "idle"  BY DEF W!Idle, CallType
<1>3. CASE w \in Puts
  <2> DEFINE c == [[writes[w] EXCEPT !.at = "answer"] EXCEPT !.typedIn = IF ok THEN writes[w].typedIn ELSE W!None]
  <2>1. writes[w] \in CallType  BY <1>1
  <2>2. c \in CallType /\ c.at = "answer"  BY <2>1 DEF CallType
  <2>3. writes' = [writes EXCEPT ![w] = c]  BY <1>1, <1>3, <2>1 DEF W!After, CallType
  <2> HIDE DEF c
  <2> QED  BY <1>1, <2>2, <2>3
<1>4. CASE w \notin Puts
  <2>1. writes' = [writes EXCEPT ![w] = W!Idle]  BY <1>4 DEF W!After
  <2> QED  BY <1>1, <1>2, <2>1
<1> QED  BY <1>3, <1>4

LEMMA BeginKeeps == ASSUME WorkspaceInv, NEW w \in W!Writers, NEW at \in {"checkpoint", "first"}, NEW f \in Files \cup {W!None},
                           NEW m \in SUBSET W!Marks, NEW g \in Files \cup {W!None}, W!Begin(w, at, f, m, g)
                    PROVE writes' \in [W!Writers -> CallType] /\ writes'[w].at \notin {"second", "move"}
                          /\ \A v \in W!Writers \ {w} : writes'[v] = writes[v]
<1>1. writes \in [W!Writers -> CallType]  BY DEF WorkspaceInv, W!TypeOK, CallType
<1>2. [at |-> at, file |-> f, marks |-> m, typedIn |-> g] \in CallType  BY DEF CallType
<1> QED  BY <1>1, <1>2 DEF W!Begin

LEMMA CheckpointKeeps == ASSUME WorkspaceInv, W!Checkpoint  PROVE points' \in Seq(W!Image) /\ Len(points') <= MaxPoints
<1>1. W!Snapshot \in W!Image
  <2>1. [f \in W!Tracked |-> disk[f]] \in [W!Tracked -> W!Text]  BY DEF WorkspaceInv, W!TypeOK, W!Tracked
  <2>2. [w \in W!Writers |-> IF W!Kept(w) THEN temps[w] ELSE {}] \in [W!Writers -> SUBSET W!Parts]
    BY DEF WorkspaceInv, W!TypeOK
  <2> QED  BY <2>1, <2>2 DEF W!Snapshot, W!Image
<1>2. points \in Seq(W!Image) /\ Len(points) < MaxPoints  BY DEF WorkspaceInv, W!TypeOK, W!Checkpoint
<1> QED  BY <1>1, <1>2, AppendProperties, FilesAssumption DEF W!Checkpoint

LEMMA FreshKeeps == ASSUME WorkspaceInv, NEW e \in W!Edits, W!Fresh(e)  PROVE used' \subseteq W!Edits /\ {e} \subseteq W!Marks
BY DEF WorkspaceInv, W!TypeOK, W!Fresh, W!Marks

\* A write's step: a chunk, the move, or a failure.
LEMMA WritingKeeps == ASSUME WorkspaceInv, NEW w \in W!Writers, W!Writing(w)  PROVE WorkspaceInv'
<1>1. /\ writes \in [W!Writers -> CallType] /\ temps \in [W!Writers -> SUBSET W!Parts]
      /\ disk \in [Files -> W!Text] /\ swept \subseteq W!Writers
  BY DEF WorkspaceInv, W!TypeOK, CallType
<1>2. writes[w] \in CallType  BY <1>1
<1>3. ASSUME W!Stage(w)  PROVE WorkspaceInv'
  <2>1. CASE writes[w].at = "first" /\ temps' = [temps EXCEPT ![w] = {"head"}] /\ writes' = [writes EXCEPT ![w].at = "second"]
    <3>1. writes' \in [W!Writers -> CallType] /\ temps' \in [W!Writers -> SUBSET W!Parts] /\ temps'[w] = {"head"}
      BY <1>1, <2>1 DEF W!Parts, CallType
    <3>2. writes'[w].at = "second" /\ \A v \in W!Writers \ {w} : writes'[v] = writes[v] /\ temps'[v] = temps[v]
      BY <1>1, <1>2, <2>1 DEF CallType
    <3>3. W!TypeOK'  BY <1>3, <3>1 DEF WorkspaceInv, W!TypeOK, W!Stage, W!panel, W!bounds, CallType
    <3> QED  BY <1>3, <3>1, <3>2, <3>3 DEF WorkspaceInv, StagedAsSent, W!Stage
  <2>2. CASE writes[w].at = "second" /\ temps' = [temps EXCEPT ![w] = @ \cup {"tail"}] /\ writes' = [writes EXCEPT ![w].at = "move"]
    <3>1. writes' \in [W!Writers -> CallType] /\ temps' \in [W!Writers -> SUBSET W!Parts] /\ temps'[w] = temps[w] \cup {"tail"}
      BY <1>1, <2>2 DEF W!Parts, CallType
    <3>2. writes'[w].at = "move" /\ \A v \in W!Writers \ {w} : writes'[v] = writes[v] /\ temps'[v] = temps[v]
      BY <1>1, <1>2, <2>2 DEF CallType
    <3>3. W!TypeOK'  BY <1>3, <3>1 DEF WorkspaceInv, W!TypeOK, W!Stage, W!panel, W!bounds, CallType
    <3>4. w \notin swept => temps'[w] = W!Parts  BY <2>2, <3>1 DEF WorkspaceInv, StagedAsSent, W!Parts
    <3> QED  BY <1>3, <3>1, <3>2, <3>3, <3>4 DEF WorkspaceInv, StagedAsSent, W!Stage
  <2> QED  BY <1>3, <2>1, <2>2 DEF W!Stage, W!Chunk
<1>4. ASSUME W!Move(w) \/ W!Fail(w)  PROVE WorkspaceInv'
  <2>1. W!Forget(w)  BY <1>4 DEF W!Move, W!Fail
  <2>2. PICK ok \in BOOLEAN : writes' = W!After(w, ok)  BY <1>4 DEF W!Move, W!Fail
  <2>3. disk' = disk \/ disk' = [disk EXCEPT ![writes[w].file] = [marks |-> writes[w].marks, parts |-> temps[w]]]
    BY <1>4 DEF W!Move, W!Fail
  <2>4. disk' \in [Files -> W!Text]  BY <1>1, <2>3, WriteMarks
  <2>5. fileFaults' \in 0 .. MaxFaults /\ UNCHANGED <<preview, draft, opening, pins, used, rollbacks, fileClicks>>
    <3>1. CASE W!Move(w)  BY <3>1 DEF W!Move, W!panel, W!bounds, WorkspaceInv, W!TypeOK
    <3>2. CASE W!Fail(w)
      <4>1. fileFaults \in 0 .. MaxFaults /\ fileFaults < MaxFaults /\ fileFaults' = fileFaults + 1
        BY <3>2 DEF W!Fail, WorkspaceInv, W!TypeOK
      <4> QED  BY <3>2, <4>1, FilesAssumption DEF W!Fail, W!panel
    <3> QED  BY <1>4, <3>1, <3>2
  <2>6. W!TypeOK'
    BY <2>1, <2>2, <2>4, <2>5, ForgetKeeps, AfterKeeps DEF WorkspaceInv, W!TypeOK, CallType
  <2> QED  BY <2>1, <2>2, <2>6, ForgetKeeps, AfterKeeps DEF WorkspaceInv, StagedAsSent
<1> QED  BY <1>3, <1>4 DEF W!Writing

LEMMA RollbackKeeps == ASSUME WorkspaceInv, W!Rollback  PROVE WorkspaceInv'
<1>1. PICK image \in W!Listed : (W!rollback(image) /\ fileFaults' = fileFaults) \/ W!rollbackFails(image)  BY DEF W!Rollback
<1>2. image \in W!Image  BY DEF W!Listed, WorkspaceInv, W!TypeOK
<1>3. /\ disk' \in [Files -> W!Text] /\ temps' \in [W!Writers -> SUBSET W!Parts]
      /\ swept' \subseteq W!Writers /\ fileFaults' \in 0 .. MaxFaults
      /\ \A w \in W!Writers : w \notin swept' => w \notin swept /\ temps'[w] = temps[w]
  <2>1. CASE W!rollback(image) /\ fileFaults' = fileFaults
    <3>1. disk' \in [Files -> W!Text]
      BY <2>1, <1>2 DEF W!rollback, W!Restored, W!Image, WorkspaceInv, W!TypeOK, W!Tracked
    <3>2. temps' \in [W!Writers -> SUBSET W!Parts]
      BY <2>1, <1>2 DEF W!rollback, W!Cleaned, W!Image, WorkspaceInv, W!TypeOK
    <3>3. swept' \subseteq W!Writers /\ fileFaults' \in 0 .. MaxFaults
      BY <2>1 DEF W!rollback, WorkspaceInv, W!TypeOK
    <3>4. ASSUME NEW w \in W!Writers, w \notin swept'  PROVE w \notin swept /\ temps'[w] = temps[w]
      BY <2>1, <1>2, <3>4 DEF W!rollback, W!Cleaned
    <3> QED  BY <3>1, <3>2, <3>3, <3>4
  <2>2. CASE W!rollbackFails(image)
    <3>1. PICK left \in SUBSET (Files \cup W!Writers) :
             disk' = W!HalfRestored(image, left) /\ temps' = W!HalfCleaned(image, left)
      BY <2>2 DEF W!rollbackFails
    <3>2. disk' \in [Files -> W!Text]
      BY <3>1, <1>2 DEF W!HalfRestored, W!Image, WorkspaceInv, W!TypeOK, W!Tracked
    <3>3. temps' \in [W!Writers -> SUBSET W!Parts]
      BY <3>1, <1>2 DEF W!HalfCleaned, W!Image, WorkspaceInv, W!TypeOK
    <3>4. swept' = swept \cup {w \in W!Writers : temps'[w] # temps[w]}  BY <2>2 DEF W!rollbackFails
    <3>5. fileFaults \in 0 .. MaxFaults /\ fileFaults < MaxFaults /\ fileFaults' = fileFaults + 1
      BY <2>2 DEF W!rollbackFails, WorkspaceInv, W!TypeOK
    <3>6. swept' \subseteq W!Writers  BY <3>4 DEF WorkspaceInv, W!TypeOK
    <3> QED  BY <3>2, <3>3, <3>4, <3>5, <3>6, FilesAssumption
  <2> QED  BY <1>1, <2>1, <2>2
<1>4. rollbacks' \in 0 .. MaxRollbacks  BY FilesAssumption DEF W!Rollback, WorkspaceInv, W!TypeOK
<1>5. UNCHANGED <<writes, points, preview, draft, opening, pins, used, fileClicks>>  BY DEF W!Rollback, W!panel
<1>6. W!TypeOK'  BY <1>3, <1>4, <1>5 DEF WorkspaceInv, W!TypeOK
<1>7. ASSUME NEW w \in W!Writers  PROVE StagedAsSent(w)'
  BY <1>3, <1>5 DEF StagedAsSent, WorkspaceInv
<1> QED  BY <1>6, <1>7 DEF WorkspaceInv

LEMMA FilesPanelKeeps ==
  ASSUME WorkspaceInv,
         \/ W!TurnCheckpoint \/ W!Back \/ W!StartEditing \/ W!Cancel
         \/ \E p \in Puts : W!Editing(p)
         \/ \E e \in W!Edits : W!Typed(e)
         \/ \E f \in Files : W!Opened(f) \/ W!Pin(f) \/ W!Unpin(f) \/ W!Removed(f)
         \/ \E f \in Files, r \in BOOLEAN : W!openFile(f, r)
  PROVE  WorkspaceInv'
<1> USE DEF W!panel, W!bounds
<1>0. W!TypeOK  BY DEF WorkspaceInv
<1>1. ASSUME W!TurnCheckpoint  PROVE WorkspaceInv'
  <2>1. points' \in Seq(W!Image) /\ Len(points') <= MaxPoints  BY <1>1, CheckpointKeeps DEF W!TurnCheckpoint
  <2> QED  BY <1>1, <2>1 DEF W!TurnCheckpoint, WorkspaceInv, W!TypeOK, StagedAsSent
<1>2. ASSUME W!Back \/ W!StartEditing \/ W!Cancel \/ \E e \in W!Edits : W!Typed(e)  PROVE WorkspaceInv'
  <2>1. preview' \in [file : Files \cup {W!None}, marks : SUBSET W!Marks]
    BY <1>0, <1>2 DEF W!Back, W!StartEditing, W!Cancel, W!Typed, W!TypeOK, W!NoPreview
  <2>2. draft' \in [marks : SUBSET W!Marks, of : Files \cup {W!None}] /\ used' \subseteq W!Edits
    <3>1. CASE W!Back \/ W!StartEditing \/ W!Cancel
      BY <1>0, <3>1 DEF W!Back, W!StartEditing, W!Cancel, W!TypeOK, W!NoDraft
    <3>2. ASSUME NEW e \in W!Edits, W!Typed(e)
          PROVE draft' \in [marks : SUBSET W!Marks, of : Files \cup {W!None}] /\ used' \subseteq W!Edits
      <4>1. used' \subseteq W!Edits /\ {e} \subseteq W!Marks  BY <3>2, FreshKeeps DEF W!Typed
      <4>2. draft' = [draft EXCEPT !.marks = @ \cup {e}] /\ draft \in [marks : SUBSET W!Marks, of : Files \cup {W!None}]
        BY <1>0, <3>2 DEF W!Typed, W!TypeOK
      <4> QED  BY <4>1, <4>2
    <3> QED  BY <1>2, <3>1, <3>2
  <2>3. UNCHANGED <<disk, temps, writes, points, opening, pins, swept, fileFaults, rollbacks, fileClicks>>
    BY <1>2 DEF W!Back, W!StartEditing, W!Cancel, W!Typed
  <2> QED  BY <2>1, <2>2, <2>3 DEF WorkspaceInv, W!TypeOK, StagedAsSent
<1>3. ASSUME NEW p \in Puts, W!Editing(p)  PROVE WorkspaceInv'
  <2>0. p \in W!Writers /\ writes \in [W!Writers -> CallType] /\ writes[p] \in CallType
    BY <1>0 DEF W!Writers, W!TypeOK, CallType
  <2>1. CASE W!save(p)
    <3>1. preview.file \in Files \cup {W!None} /\ draft.marks \in SUBSET W!Marks /\ draft.of \in Files \cup {W!None}
      BY <1>0 DEF W!TypeOK
    <3>2. W!Begin(p, "checkpoint", preview.file, draft.marks, draft.of)  BY <2>1 DEF W!save
    <3>3. /\ writes' \in [W!Writers -> CallType] /\ writes'[p].at \notin {"second", "move"}
          /\ \A v \in W!Writers \ {p} : writes'[v] = writes[v]
      BY <2>0, <3>1, <3>2, BeginKeeps
    <3> QED  BY <2>1, <3>3 DEF W!save, WorkspaceInv, W!TypeOK, StagedAsSent, CallType
  <2>2. CASE W!SaveCheckpoint(p)
    <3>1. points' \in Seq(W!Image) /\ Len(points') <= MaxPoints
      BY <1>0, <2>2, CheckpointKeeps DEF W!SaveCheckpoint, W!TypeOK
    <3>2. fileFaults' \in 0 .. MaxFaults  BY <1>0, <2>2, FilesAssumption DEF W!SaveCheckpoint, W!TypeOK
    <3>3. writes' = [writes EXCEPT ![p].at = "first"]  BY <2>2 DEF W!SaveCheckpoint
    <3>4. writes' \in [W!Writers -> CallType]  BY <2>0, <3>3 DEF CallType
    <3>5. writes'[p].at = "first" /\ \A v \in W!Writers \ {p} : writes'[v] = writes[v]
      BY <2>0, <3>3 DEF CallType
    <3> QED  BY <2>2, <3>1, <3>2, <3>4, <3>5 DEF W!SaveCheckpoint, WorkspaceInv, W!TypeOK, StagedAsSent, CallType
  <2>3. CASE W!Saved(p)
    <3>1. W!Idle \in CallType /\ W!Idle.at = "idle"  BY DEF W!Idle, CallType
    <3>2. writes' \in [W!Writers -> CallType] /\ writes'[p] = W!Idle /\ \A v \in W!Writers \ {p} : writes'[v] = writes[v]
      BY <2>0, <2>3, <3>1 DEF W!Saved
    <3>3. preview' \in [file : Files \cup {W!None}, marks : SUBSET W!Marks]
      <4>1. [file |-> writes[p].file, marks |-> writes[p].marks] \in [file : Files \cup {W!None}, marks : SUBSET W!Marks]
        BY <2>0 DEF CallType
      <4> QED  BY <1>0, <2>3, <4>1 DEF W!Saved, W!TypeOK
    <3>4. draft' \in [marks : SUBSET W!Marks, of : Files \cup {W!None}]
      BY <1>0, <2>3 DEF W!Saved, W!TypeOK, W!NoDraft
    <3> QED  BY <2>3, <3>1, <3>2, <3>3, <3>4 DEF W!Saved, WorkspaceInv, W!TypeOK, StagedAsSent, CallType
  <2> QED  BY <1>3, <2>1, <2>2, <2>3 DEF W!Editing
<1>4. ASSUME NEW f \in Files, W!Opened(f)  PROVE WorkspaceInv'
  <2>1. disk[f].marks \in SUBSET W!Marks  BY <1>0 DEF W!TypeOK, W!Text
  <2>2. preview' \in [file : Files \cup {W!None}, marks : SUBSET W!Marks]
    BY <1>0, <1>4, <2>1 DEF W!Opened, W!TypeOK, W!Fetched
  <2> QED  BY <1>4, <2>2 DEF W!Opened, WorkspaceInv, W!TypeOK, StagedAsSent
<1>5. ASSUME NEW f \in Files, W!Pin(f) \/ W!Unpin(f)  PROVE WorkspaceInv'
  <2>1. fileClicks' \in 0 .. FileClicks  BY <1>0, <1>5, FilesAssumption DEF W!Pin, W!Unpin, W!Click, W!TypeOK
  <2> QED  BY <1>5, <2>1 DEF W!Pin, W!Unpin, W!Click, WorkspaceInv, W!TypeOK, StagedAsSent
<1>6. ASSUME NEW f \in Files, W!Removed(f)  PROVE WorkspaceInv'
  <2>1. fileClicks' \in 0 .. FileClicks  BY <1>0, <1>6, FilesAssumption DEF W!Removed, W!Click, W!TypeOK
  <2>2. W!NoFile \in W!Text  BY DEF W!NoFile, W!Text
  <2>3. disk' \in [Files -> W!Text]  BY <1>0, <1>6, <2>2 DEF W!Removed, W!TypeOK
  <2> QED  BY <1>6, <2>1, <2>3 DEF W!Removed, W!Click, WorkspaceInv, W!TypeOK, StagedAsSent
<1>7. ASSUME NEW f \in Files, NEW r \in BOOLEAN, W!openFile(f, r)  PROVE WorkspaceInv'
  <2>1. fileClicks' \in 0 .. FileClicks  BY <1>0, <1>7, FilesAssumption DEF W!openFile, W!Click, W!TypeOK
  <2> QED  BY <1>7, <2>1 DEF W!openFile, W!Click, WorkspaceInv, W!TypeOK, StagedAsSent
<1> QED  BY <1>1, <1>2, <1>3, <1>4, <1>5, <1>6, <1>7

LEMMA ToolKeeps == ASSUME WorkspaceInv, NEW t \in Tools, NEW f \in Files, NEW e \in W!Edits,
                          W!write_file(t, f, e) \/ W!edit_file(t, f, e)
                   PROVE  WorkspaceInv'
<1>1. used' \subseteq W!Edits /\ {e} \subseteq W!Marks  BY FreshKeeps DEF W!write_file, W!edit_file
<1>2. disk[f].marks \in SUBSET W!Marks  BY DEF WorkspaceInv, W!TypeOK, W!Text
<1>3. PICK m \in SUBSET W!Marks : W!Begin(t, "first", f, m, f)
  BY <1>1, <1>2 DEF W!write_file, W!edit_file, W!Fetched
<1>4. /\ writes' \in [W!Writers -> CallType] /\ writes'[t].at \notin {"second", "move"}
      /\ \A v \in W!Writers \ {t} : writes'[v] = writes[v]
  BY <1>3, BeginKeeps DEF W!Writers
<1>5. UNCHANGED <<disk, temps, points, preview, draft, opening, pins, swept, fileFaults, rollbacks, fileClicks>>
  BY DEF W!write_file, W!edit_file, W!panel, W!bounds
<1> QED  BY <1>1, <1>4, <1>5 DEF WorkspaceInv, W!TypeOK, StagedAsSent, CallType

LEMMA WorkspaceKeep == WorkspaceInv /\ W!Next => WorkspaceInv'
BY WritingKeeps, RollbackKeeps, FilesPanelKeeps, ToolKeeps DEF W!Next

LEMMA WorkspaceStutters == WorkspaceInv /\ UNCHANGED W!vars => WorkspaceInv'
BY DEF WorkspaceInv, W!TypeOK, StagedAsSent, W!vars, W!panel, W!bounds

\* Only a move writes half a text, and only of a temporary file a rollback has touched; or a rollback restores one.
LEMMA HalvesAreSwept == ASSUME WorkspaceInv, W!Next  PROVE W!HalfFileWasSwept
<1> SUFFICES ASSUME NEW f \in Files, W!Half(disk'[f]), disk'[f] # disk[f]
             PROVE  \/ \E w \in swept : writes[w].file = f /\ writes[w].at = "move"
                    \/ \E k \in 1 .. Len(points) : f \in W!Tracked /\ points[k].tree[f] = disk'[f]
  BY DEF W!HalfFileWasSwept
<1>0. disk \in [Files -> W!Text]  BY DEF WorkspaceInv, W!TypeOK
<1>1. CASE W!Rollback
  <2>1. PICK image \in W!Listed : W!rollback(image) \/ W!rollbackFails(image)  BY <1>1 DEF W!Rollback
  <2>2. f \in W!Tracked /\ disk'[f] = image.tree[f]
    <3>1. CASE W!rollback(image)  BY <3>1 DEF W!rollback, W!Restored
    <3>2. CASE W!rollbackFails(image)
      BY <3>2 DEF W!rollbackFails, W!HalfRestored
    <3> QED  BY <2>1, <3>1, <3>2
  <2>3. PICK k \in 1 .. Len(points) : image = points[k]  BY <2>1 DEF W!Listed, WorkspaceInv, W!TypeOK
  <2> QED  BY <2>2, <2>3
<1>2. ASSUME NEW w \in W!Writers, W!Move(w) \/ W!Fail(w)
      PROVE  \E v \in swept : writes[v].file = f /\ writes[v].at = "move"
  <2>1. writes[w].at = "move" /\ disk' = [disk EXCEPT ![writes[w].file] = [marks |-> writes[w].marks, parts |-> temps[w]]]
    BY <1>2 DEF W!Move, W!Fail
  <2>2. f = writes[w].file /\ disk'[f].parts = temps[w]  BY <1>0, <2>1
  <2>3. w \in swept  BY <2>1, <2>2 DEF WorkspaceInv, StagedAsSent, W!Half
  <2> QED  BY <2>1, <2>2, <2>3
<1>3. ASSUME NEW g \in Files, W!Removed(g)  PROVE FALSE
  BY <1>0, <1>3 DEF W!Removed, W!NoFile, W!Half
<1>4. W!Rollback \/ (\E w \in W!Writers : W!Move(w) \/ W!Fail(w)) \/ (\E g \in Files : W!Removed(g))
  BY DEF W!Next, W!TurnCheckpoint, W!Back, W!StartEditing, W!Cancel, W!Writing, W!Stage, W!Editing, W!save,
         W!SaveCheckpoint, W!Saved, W!Typed, W!Opened, W!Pin, W!Unpin, W!openFile, W!write_file, W!edit_file
<1> QED  BY <1>1, <1>2, <1>3, <1>4

LEMMA RollsBackExactly == ASSUME WorkspaceInv, W!Next  PROVE W!RollbackIsExact
<1> SUFFICES ASSUME rollbacks' # rollbacks
             PROVE  \E k \in 1 .. Len(points) : \A f \in Files :
                       \/ disk'[f] = IF f \in W!Tracked THEN points[k].tree[f] ELSE disk[f]
                       \/ fileFaults' # fileFaults /\ f \in W!Tracked /\ points[k].tree[f] = W!NoFile /\ disk'[f] = disk[f]
  BY DEF W!RollbackIsExact
<1>1. W!Rollback
  BY DEF W!Next, W!TurnCheckpoint, W!Back, W!StartEditing, W!Cancel, W!Writing, W!Stage, W!Move, W!Fail, W!Editing, W!save,
         W!SaveCheckpoint, W!Saved, W!Typed, W!Opened, W!Pin, W!Unpin, W!Removed, W!Click, W!openFile, W!write_file,
         W!edit_file, W!bounds
<1>2. PICK image \in W!Listed : W!rollback(image) \/ W!rollbackFails(image)  BY <1>1 DEF W!Rollback
<1>3. PICK k \in 1 .. Len(points) : image = points[k]  BY <1>2 DEF W!Listed, WorkspaceInv, W!TypeOK
<1>4. CASE W!rollback(image)  BY <1>3, <1>4 DEF W!rollback, W!Restored
<1>5. CASE W!rollbackFails(image)
  <2>1. fileFaults' # fileFaults
    <3>1. fileFaults \in 0 .. MaxFaults /\ fileFaults' = fileFaults + 1  BY <1>5 DEF W!rollbackFails, WorkspaceInv, W!TypeOK
    <3> QED  BY <3>1, FilesAssumption
  <2> QED  BY <1>3, <1>5, <2>1 DEF W!rollbackFails, W!HalfRestored
<1> QED  BY <1>2, <1>4, <1>5

\* Half a file is seen only where a rollback touched a write under way, and a rollback gives back the checkpoint,
\* whoever writes meanwhile (workspace-write.ts, checkpoints.ts).
THEOREM WritesAreWhole == W!Spec => []W!TypeOK /\ [][W!HalfFileWasSwept /\ W!RollbackIsExact]_(W!vars)
<1>1. W!Init => WorkspaceInv  BY WorkspaceStart
<1>2. WorkspaceInv /\ [W!Next]_(W!vars) => WorkspaceInv'  BY WorkspaceKeep, WorkspaceStutters
<1>3. WorkspaceInv /\ [W!Next]_(W!vars) => [W!HalfFileWasSwept /\ W!RollbackIsExact]_(W!vars)
  BY HalvesAreSwept, RollsBackExactly
<1>4. WorkspaceInv => W!TypeOK  BY DEF WorkspaceInv
<1> QED  BY <1>1, <1>2, <1>3, <1>4, PTL DEF W!Spec

-----------------------------------------------------------------------------
(* The cache of web pages                                                  *)

CopyType == [page : P!Pages, copy : Nat, host : Hosts, at : Nat]
ReadType == {P!NoRead} \cup [at : {"fetching"}, page : P!Pages, now : P!Pages, hop : Nat]
                       \cup [at : {"body"}, page : P!Pages, now : P!Pages, size : Nat]
LastType == [page : P!Pages, copy : Nat, host : Hosts, at : Nat, others : SUBSET P!Pages, again : BOOLEAN]

\* One copy of a page is kept, of the host that was asked, downloaded by now.
CopiesOK(stay, now, fresh) ==
  /\ stay \in Seq(CopyType) /\ Len(stay) <= CacheSize
  /\ \A i, j \in DOMAIN stay : i # j => stay[i].page # stay[j].page
  /\ \A i \in DOMAIN stay : stay[i].host = P!Host(stay[i].page) /\ stay[i].copy <= fresh /\ stay[i].at <= now
CacheInv == CopiesOK(cache, clock, copies)
\* A redirect stays on the host.
ReadsInv ==
  /\ reads \in [Convs -> ReadType]
  /\ \A c \in Convs : reads[c] # P!NoRead => P!Host(reads[c].now) = P!Host(reads[c].page)
\* A page a chat read a part of is in the cache still, behind it only pages read since, unless it is outdated or as
\* many were read since as the cache holds; and the copy there is the chat's own, unless somebody downloaded another.
KeptOrPast(stay, now, was) ==
  /\ \/ now - was.at > TTL
     \/ Cardinality(was.others) >= CacheSize
     \/ \E i \in DOMAIN stay : /\ stay[i].page = was.page /\ stay[i].at >= was.at
                               /\ \A j \in DOMAIN stay : i < j => stay[j].page \in was.others
  /\ \A i \in DOMAIN stay : stay[i].page = was.page => stay[i].copy = was.copy \/ was.again
LastOK(was, stay, now, fresh) ==
  /\ was.host = P!Host(was.page) /\ was.copy <= fresh /\ was.at <= now
  /\ IsFiniteSet(was.others)
  /\ KeptOrPast(stay, now, was)
LastInv ==
  /\ last \in [Convs -> {P!NoCopy} \cup LastType]
  /\ \A c \in Convs : last[c] # P!NoCopy => LastOK(last[c], cache, clock, copies)
PagesInv == /\ clock \in 0 .. MaxClock /\ copies \in Nat /\ count \in 0 .. MaxReads
            /\ CacheInv /\ ReadsInv /\ LastInv

LEMMA PagesStart == P!Init => PagesInv
<1> SUFFICES ASSUME P!Init  PROVE PagesInv  OBVIOUS
<1>1. cache = <<>> /\ cache \in Seq(CopyType) /\ Len(cache) = 0 /\ DOMAIN cache = {}  BY DEF P!Init
<1>2. clock \in 0 .. MaxClock /\ copies \in Nat /\ count \in 0 .. MaxReads  BY PagesAssumption DEF P!Init
<1>3. CacheInv  BY <1>1, PagesAssumption DEF CacheInv, CopiesOK
<1>4. ReadsInv  BY DEF P!Init, ReadsInv, ReadType
<1>5. LastInv  BY DEF P!Init, LastInv
<1> QED  BY <1>2, <1>3, <1>4, <1>5 DEF PagesInv

\* What is left of a sequence without one of its elements.
LEMMA RemovedAt ==
  ASSUME NEW A, NEW s \in Seq(A), NEW i \in 1 .. Len(s)
  PROVE  /\ P!RemoveAt(s, i) \in Seq(A) /\ Len(P!RemoveAt(s, i)) = Len(s) - 1
         /\ \A j \in 1 .. Len(s) - 1 : P!RemoveAt(s, i)[j] = IF j < i THEN s[j] ELSE s[j + 1]
<1>0. Len(s) \in Nat /\ \A j \in 1 .. Len(s) : s[j] \in A  BY LenProperties, ElementOfSeq
<1> DEFINE a == SubSeq(s, 1, i - 1)
           b == SubSeq(s, i + 1, Len(s))
<1>1. a \in Seq(A) /\ Len(a) = i - 1 /\ \A j \in 1 .. i - 1 : a[j] = s[j]
  <2>1. \A j \in 1 .. i - 1 : s[j] \in A  BY <1>0
  <2>2. a \in Seq(A) /\ Len(a) = (IF 1 <= i - 1 THEN i - 1 - 1 + 1 ELSE 0)
        /\ \A j \in 1 .. i - 1 - 1 + 1 : a[j] = s[1 + j - 1]
    BY <1>0, <2>1, SubSeqProperties
  <2> HIDE DEF a
  <2>3. \A j \in 1 .. i - 1 : 1 + j - 1 = j  OBVIOUS
  <2> QED  BY <1>0, <2>2, <2>3
<1>2. b \in Seq(A) /\ Len(b) = Len(s) - i /\ \A j \in 1 .. Len(s) - i : b[j] = s[i + j]
  <2>1. \A j \in i + 1 .. Len(s) : s[j] \in A  BY <1>0
  <2>2. b \in Seq(A) /\ Len(b) = (IF i + 1 <= Len(s) THEN Len(s) - (i + 1) + 1 ELSE 0)
        /\ \A j \in 1 .. Len(s) - (i + 1) + 1 : b[j] = s[i + 1 + j - 1]
    BY <1>0, <2>1, SubSeqProperties
  <2> HIDE DEF b
  <2>3. \A j \in 1 .. Len(s) - i : i + 1 + j - 1 = i + j  BY <1>0
  <2> QED  BY <1>0, <2>2, <2>3
<1>3. P!RemoveAt(s, i) = a \o b  BY DEF P!RemoveAt
<1> HIDE DEF a, b
<1>4. /\ a \o b \in Seq(A) /\ Len(a \o b) = Len(a) + Len(b)
      /\ \A j \in 1 .. Len(a) + Len(b) : (a \o b)[j] = IF j <= Len(a) THEN a[j] ELSE b[j - Len(a)]
  BY <1>1, <1>2, ConcatProperties
<1>5. Len(a) + Len(b) = Len(s) - 1  BY <1>0, <1>1, <1>2
<1>6. ASSUME NEW j \in 1 .. Len(s) - 1  PROVE (a \o b)[j] = IF j < i THEN s[j] ELSE s[j + 1]
  <2>1. CASE j < i
    <3>1. j \in 1 .. i - 1 /\ j <= Len(a) /\ j \in 1 .. Len(a) + Len(b)  BY <1>0, <1>1, <1>5, <2>1
    <3> QED  BY <1>1, <1>4, <2>1, <3>1
  <2>2. CASE ~(j < i)
    <3>1. j - Len(a) \in 1 .. Len(s) - i /\ ~(j <= Len(a)) /\ j \in 1 .. Len(a) + Len(b)  BY <1>0, <1>1, <1>5, <2>2
    <3>2. (a \o b)[j] = b[j - Len(a)]  BY <1>4, <3>1
    <3>3. b[j - Len(a)] = s[i + (j - Len(a))]  BY <1>2, <3>1
    <3>4. i + (j - Len(a)) = j + 1  BY <1>1, <1>0
    <3> QED  BY <2>2, <3>2, <3>3, <3>4
  <2> QED  BY <2>1, <2>2
<1> QED  BY <1>3, <1>4, <1>5, <1>6

\* What is left of a sequence without its first elements.
LEMMA FromOn ==
  ASSUME NEW A, NEW s \in Seq(A), NEW d \in Nat, d <= Len(s)
  PROVE  /\ SubSeq(s, d + 1, Len(s)) \in Seq(A) /\ Len(SubSeq(s, d + 1, Len(s))) = Len(s) - d
         /\ \A k \in 1 .. Len(s) - d : SubSeq(s, d + 1, Len(s))[k] = s[k + d]
<1>0. Len(s) \in Nat /\ \A j \in 1 .. Len(s) : s[j] \in A  BY LenProperties, ElementOfSeq
<1> DEFINE b == SubSeq(s, d + 1, Len(s))
<1>1. \A j \in d + 1 .. Len(s) : s[j] \in A  BY <1>0
<1>2. b \in Seq(A) /\ Len(b) = (IF d + 1 <= Len(s) THEN Len(s) - (d + 1) + 1 ELSE 0)
      /\ \A j \in 1 .. Len(s) - (d + 1) + 1 : b[j] = s[d + 1 + j - 1]
  BY <1>0, <1>1, SubSeqProperties
<1> HIDE DEF b
<1>3. \A j \in 1 .. Len(s) - d : d + 1 + j - 1 = j + d /\ j \in 1 .. Len(s) - (d + 1) + 1  BY <1>0
<1>4. Len(b) = Len(s) - d  BY <1>0, <1>2
<1>5. \A k \in 1 .. Len(s) - d : b[k] = s[k + d]  BY <1>2, <1>3
<1> QED  BY <1>2, <1>4, <1>5 DEF b

\* Without a page, the copies are the others, in their order.
Kept(n, site) ==
  /\ n \in Seq(CopyType) /\ Len(n) <= Len(cache)
  /\ (\E i \in DOMAIN cache : cache[i].page = site) => Len(n) < Len(cache)
  /\ \A j \in DOMAIN n : n[j].page # site
  /\ \E m \in [DOMAIN n -> DOMAIN cache] :
       /\ \A j \in DOMAIN n : n[j] = cache[m[j]]
       /\ \A j, k \in DOMAIN n : j < k => m[j] < m[k]
       /\ \A i \in DOMAIN cache : cache[i].page # site => \E j \in DOMAIN n : m[j] = i
LEMMA WithoutKeeps == ASSUME CacheInv, NEW site \in P!Pages  PROVE Kept(P!Without(site), site)
<1> DEFINE n == P!Without(site)
<1>0. cache \in Seq(CopyType) /\ Len(cache) \in Nat /\ DOMAIN cache = 1 .. Len(cache)  BY DEF CacheInv, CopiesOK
<1>1. CASE ~\E i \in DOMAIN cache : cache[i].page = site
  <2>1. n = cache  BY <1>1 DEF P!Without
  <2> DEFINE m == [j \in DOMAIN cache |-> j]
  <2>2. m \in [DOMAIN cache -> DOMAIN cache] /\ \A j \in DOMAIN cache : m[j] = j  OBVIOUS
  <2> HIDE DEF m, n
  <2> QED  BY <1>0, <1>1, <2>1, <2>2 DEF Kept, n
<1>2. CASE \E i \in DOMAIN cache : cache[i].page = site
  <2>0. n = P!RemoveAt(cache, CHOOSE i \in DOMAIN cache : cache[i].page = site)  BY <1>2 DEF P!Without
  <2>1. PICK i \in 1 .. Len(cache) : cache[i].page = site /\ n = P!RemoveAt(cache, i)
    BY <1>0, <1>2, <2>0
  <2>2. \A k \in 1 .. Len(cache) : k # i => cache[k].page # site  BY <1>0, <2>1 DEF CacheInv, CopiesOK
  <2> HIDE DEF n
  <2>6. n \in Seq(CopyType) /\ Len(n) = Len(cache) - 1 /\ DOMAIN n = 1 .. Len(cache) - 1
    BY <1>0, <2>1, RemovedAt, LenProperties
  <2>7. \A j \in 1 .. Len(cache) - 1 : n[j] = IF j < i THEN cache[j] ELSE cache[j + 1]
    BY <1>0, <2>1, RemovedAt
  <2> DEFINE m == [j \in 1 .. Len(cache) - 1 |-> IF j < i THEN j ELSE j + 1]
  <2>8. m \in [1 .. Len(cache) - 1 -> 1 .. Len(cache)]  BY <1>0
  <2>9. \A j \in 1 .. Len(cache) - 1 : m[j] = IF j < i THEN j ELSE j + 1  OBVIOUS
  <2> HIDE DEF m
  <2>10. \A j \in 1 .. Len(cache) - 1 : n[j] = cache[m[j]] /\ m[j] # i  BY <2>7, <2>9
  <2>11. \A j, k \in 1 .. Len(cache) - 1 : j < k => m[j] < m[k]  BY <2>9
  <2>12. ASSUME NEW k \in 1 .. Len(cache), cache[k].page # site  PROVE \E j \in 1 .. Len(cache) - 1 : m[j] = k
    <3>1. k # i  BY <2>1, <2>12
    <3>2. CASE k < i
      <4>1. k \in 1 .. Len(cache) - 1 /\ m[k] = k  BY <1>0, <2>9, <3>2
      <4> QED  BY <4>1
    <3>3. CASE k > i
      <4>1. k - 1 \in 1 .. Len(cache) - 1 /\ m[k - 1] = k  BY <1>0, <2>9, <3>3
      <4> QED  BY <4>1
    <3> QED  BY <1>0, <3>1, <3>2, <3>3
  <2>13. \A j \in 1 .. Len(cache) - 1 : n[j].page # site
    <3> TAKE j \in 1 .. Len(cache) - 1
    <3>1. n[j] = cache[m[j]] /\ m[j] # i /\ m[j] \in 1 .. Len(cache)  BY <2>8, <2>10
    <3> QED  BY <2>2, <3>1
  <2>14. Len(n) <= Len(cache) /\ Len(n) < Len(cache)  BY <1>0, <2>6
  <2>15. DOMAIN n = 1 .. Len(cache) - 1 /\ DOMAIN cache = 1 .. Len(cache)  BY <1>0, <2>6
  <2>16. \E f \in [DOMAIN n -> DOMAIN cache] :
           /\ \A j \in DOMAIN n : n[j] = cache[f[j]]
           /\ \A j, k \in DOMAIN n : j < k => f[j] < f[k]
           /\ \A k \in DOMAIN cache : cache[k].page # site => \E j \in DOMAIN n : f[j] = k
    <3>1. m \in [DOMAIN n -> DOMAIN cache]  BY <2>8, <2>15
    <3>2. \A k \in DOMAIN cache : cache[k].page # site => \E j \in DOMAIN n : m[j] = k  BY <2>12, <2>15
    <3>3. (\A j \in DOMAIN n : n[j] = cache[m[j]]) /\ (\A j, k \in DOMAIN n : j < k => m[j] < m[k])
      BY <2>10, <2>11, <2>15
    <3> WITNESS m \in [DOMAIN n -> DOMAIN cache]
    <3> QED  BY <3>2, <3>3
  <2>17. \A j \in DOMAIN n : n[j].page # site  BY <2>13, <2>15
  <2>18. Kept(n, site)  BY <2>6, <2>14, <2>16, <2>17 DEF Kept
  <2> QED  BY <2>18 DEF n
<1> QED  BY <1>1, <1>2

\* A copy behind the others is the newest there is.
LEMMA PutLast ==
  ASSUME CacheInv, NEW site \in P!Pages, NEW e \in CopyType, e.page = site, NEW n, Kept(n, site)
  PROVE  LET all == Append(n, e)
         IN /\ all \in Seq(CopyType) /\ Len(all) = Len(n) + 1 /\ all[Len(n) + 1] = e
            /\ \A j \in 1 .. Len(n) : all[j] = n[j]
            /\ \A i, j \in DOMAIN all : i # j => all[i].page # all[j].page
<1>1. n \in Seq(CopyType) /\ Len(n) \in Nat /\ DOMAIN n = 1 .. Len(n)  BY DEF Kept
<1> DEFINE all == Append(n, e)
<1>2. all \in Seq(CopyType) /\ Len(all) = Len(n) + 1 /\ all[Len(n) + 1] = e /\ (\A j \in 1 .. Len(n) : all[j] = n[j])
  BY <1>1, AppendProperties
<1> HIDE DEF all
<1>3. PICK m \in [DOMAIN n -> DOMAIN cache] :
         (\A j \in DOMAIN n : n[j] = cache[m[j]]) /\ (\A j, k \in DOMAIN n : j < k => m[j] < m[k])
  BY DEF Kept
<1>4. \A j, k \in 1 .. Len(n) : j # k => n[j].page # n[k].page
  <2> SUFFICES ASSUME NEW j \in 1 .. Len(n), NEW k \in 1 .. Len(n), j # k  PROVE n[j].page # n[k].page  OBVIOUS
  <2>0. DOMAIN cache = 1 .. Len(cache) /\ Len(cache) \in Nat  BY DEF CacheInv, CopiesOK
  <2>1. m[j] \in 1 .. Len(cache) /\ m[k] \in 1 .. Len(cache) /\ m[j] # m[k]  BY <1>1, <1>3, <2>0
  <2> QED  BY <1>1, <1>3, <2>0, <2>1 DEF CacheInv, CopiesOK
<1>5. \A j \in 1 .. Len(n) : n[j].page # e.page  BY <1>1 DEF Kept
<1>6. DOMAIN all = 1 .. Len(n) + 1  BY <1>2
<1>7. \A i, j \in 1 .. Len(n) + 1 : i # j => all[i].page # all[j].page  BY <1>1, <1>2, <1>4, <1>5
<1> QED  BY <1>2, <1>6, <1>7 DEF all


\* Copy e at the end of the copies n, of which d leave the front: as many as there are too many.
Pushed(n, e, d, next) ==
  /\ d \in Nat /\ d <= Len(n) + 1
  /\ next \in Seq(CopyType) /\ Len(next) = Len(n) + 1 - d
  /\ \A k \in 1 .. Len(n) + 1 - d : next[k] = Append(n, e)[k + d]
  /\ d > 0 => Len(next) = CacheSize

\* What a chat read of a page stays kept or past when a copy comes to the end of the cache and `d` leave the front.
LEMMA PushedKeeps ==
  ASSUME CacheInv, NEW site \in P!Pages, NEW e \in CopyType, e.page = site, NEW n, Kept(n, site),
         NEW d, NEW next, Pushed(n, e, d, next),
         NEW was \in LastType, NEW new \in LastType, KeptOrPast(cache, clock, was),
         new.page = was.page, new.at = was.at, new.copy = was.copy,
         IsFiniteSet(new.others), was.others \subseteq new.others, was.again => new.again,
         site # was.page => site \in new.others,
         site = was.page => e.copy = was.copy \/ new.again,
         site = was.page /\ (\E i \in DOMAIN cache : cache[i].page = site /\ cache[i].at >= was.at) => e.at >= was.at
  PROVE  KeptOrPast(next, clock, new)
<1>0. /\ d \in Nat /\ d <= Len(n) + 1
      /\ next \in Seq(CopyType) /\ Len(next) = Len(n) + 1 - d
      /\ \A k \in 1 .. Len(n) + 1 - d : next[k] = Append(n, e)[k + d]
      /\ d > 0 => Len(next) = CacheSize
  BY DEF Pushed
<1> USE <1>0
<1> DEFINE all == Append(n, e)
<1>1. n \in Seq(CopyType) /\ Len(n) \in Nat /\ DOMAIN n = 1 .. Len(n)  BY DEF Kept
<1>2. all[Len(n) + 1] = e /\ \A j \in 1 .. Len(n) : all[j] = n[j]  BY <1>1, AppendProperties
<1>3. \A k \in 1 .. Len(n) + 1 - d : next[k] = all[k + d]  OBVIOUS
<1>4. DOMAIN next = 1 .. Len(n) + 1 - d  BY <1>1
<1> HIDE DEF all
<1>5. PICK m \in [DOMAIN n -> DOMAIN cache] :
         /\ \A j \in DOMAIN n : n[j] = cache[m[j]]
         /\ \A j, k \in DOMAIN n : j < k => m[j] < m[k]
         /\ \A i \in DOMAIN cache : cache[i].page # site => \E j \in DOMAIN n : m[j] = i
  BY DEF Kept
<1>6. \A i \in DOMAIN next : next[i].page = new.page => next[i].copy = new.copy \/ new.again
  <2> SUFFICES ASSUME NEW i \in 1 .. Len(n) + 1 - d, next[i].page = was.page  PROVE next[i].copy = was.copy \/ new.again
    BY <1>4
  <2>1. i + d \in 1 .. Len(n) + 1 /\ next[i] = all[i + d]  BY <1>1, <1>3
  <2>2. CASE i + d = Len(n) + 1
    <3>1. next[i] = e  BY <1>2, <2>1, <2>2
    <3> QED  BY <3>1
  <2>3. CASE i + d # Len(n) + 1
    <3>1. i + d \in DOMAIN n  BY <1>1, <2>1, <2>3
    <3>2. next[i] = cache[m[i + d]] /\ m[i + d] \in DOMAIN cache  BY <1>1, <1>2, <1>5, <2>1, <3>1
    <3> QED  BY <3>2 DEF KeptOrPast
  <2> QED  BY <2>2, <2>3
<1>7. Cardinality(was.others) >= CacheSize => Cardinality(new.others) >= CacheSize
  <2>1. /\ IsFiniteSet(was.others) /\ Cardinality(was.others) <= Cardinality(new.others)
        /\ Cardinality(was.others) \in Nat /\ Cardinality(new.others) \in Nat
    BY FS_Subset, FS_CardinalityType
  <2> QED  BY <2>1, PagesAssumption
<1>8. ASSUME NEW i \in DOMAIN cache, cache[i].page = was.page, cache[i].at >= was.at,
             \A j \in DOMAIN cache : i < j => cache[j].page \in was.others
      PROVE  \/ Cardinality(new.others) >= CacheSize
             \/ \E k \in DOMAIN next : /\ next[k].page = new.page /\ next[k].at >= new.at
                                       /\ \A j \in DOMAIN next : k < j => next[j].page \in new.others
  <2>1. CASE site = was.page /\ d <= Len(n)
    <3>1. Len(n) + 1 - d \in DOMAIN next /\ Len(n) + 1 - d + d = Len(n) + 1
      <4>1. PICK l \in Nat : l = Len(n)  BY <1>1
      <4>2. l + 1 - d \in 1 .. l + 1 - d /\ l + 1 - d + d = l + 1  BY <2>1, <4>1
      <4> QED  BY <1>4, <4>1, <4>2
    <3>2. next[Len(n) + 1 - d] = e  BY <1>2, <1>3, <1>4, <3>1
    <3>3. e.at >= was.at  BY <1>8, <2>1
    <3>4. \A j \in DOMAIN next : ~(Len(n) + 1 - d < j)  BY <1>1, <1>4
    <3> QED  BY <2>1, <3>1, <3>2, <3>3, <3>4
  <2>2. CASE site = was.page /\ ~(d <= Len(n))
    <3>1. CacheSize = 0  BY <1>1, <2>2, PagesAssumption
    <3> QED  BY <3>1, FS_CardinalityType
  <2>3. CASE site # was.page
    <3>1. PICK j \in DOMAIN n : m[j] = i  BY <1>5, <1>8, <2>3
    <3>2. \A k \in 1 .. Len(n) + 1 : j < k => all[k].page \in new.others
      <4> SUFFICES ASSUME NEW k \in 1 .. Len(n) + 1, j < k  PROVE all[k].page \in new.others  OBVIOUS
      <4>1. CASE k = Len(n) + 1  BY <1>2, <2>3, <4>1
      <4>2. CASE k # Len(n) + 1
        <5>1. k \in DOMAIN n /\ all[k] = n[k]  BY <1>1, <1>2, <4>2
        <5>2. all[k] = cache[m[k]] /\ m[k] \in DOMAIN cache /\ i < m[k]  BY <1>5, <3>1, <5>1
        <5> QED  BY <1>8, <5>2
      <4> QED  BY <4>1, <4>2
    <3>3. CASE d < j
      <4>1. j - d \in DOMAIN next /\ j - d + d = j /\ j \in 1 .. Len(n)  BY <1>1, <1>4, <3>1, <3>3
      <4>2. next[j - d] = cache[i]  BY <1>2, <1>3, <1>4, <1>5, <3>1, <4>1
      <4>3. \A k \in DOMAIN next : j - d < k => next[k].page \in new.others
        <5> SUFFICES ASSUME NEW k \in 1 .. Len(n) + 1 - d, j - d < k  PROVE next[k].page \in new.others  BY <1>4
        <5>1. k + d \in 1 .. Len(n) + 1 /\ j < k + d  BY <1>1, <3>1, <4>1
        <5> QED  BY <1>3, <3>2, <5>1
      <4> QED  BY <1>8, <4>1, <4>2, <4>3
    <3>4. CASE ~(d < j)
      <4>1. d > 0 /\ Len(next) = CacheSize /\ Len(n) + 1 - d = CacheSize  BY <1>1, <3>1, <3>4
      <4>2. \A k \in 1 .. CacheSize : next[k].page \in new.others
        <5> SUFFICES ASSUME NEW k \in 1 .. CacheSize  PROVE next[k].page \in new.others  OBVIOUS
        <5>1. k + d \in 1 .. Len(n) + 1 /\ j < k + d /\ k \in 1 .. Len(n) + 1 - d
          BY <1>1, <3>1, <3>4, <4>1, PagesAssumption
        <5> QED  BY <1>3, <3>2, <5>1
      <4>3. \A j1, j2 \in 1 .. CacheSize : j1 # j2 => next[j1].page # next[j2].page
        <5> SUFFICES ASSUME NEW j1 \in 1 .. CacheSize, NEW j2 \in 1 .. CacheSize, j1 # j2
                     PROVE  next[j1].page # next[j2].page
          OBVIOUS
        <5>1. j1 + d \in 1 .. Len(n) + 1 /\ j2 + d \in 1 .. Len(n) + 1 /\ j1 + d # j2 + d
              /\ j1 \in 1 .. Len(n) + 1 - d /\ j2 \in 1 .. Len(n) + 1 - d
          BY <1>1, <4>1, PagesAssumption
        <5>2. all \in Seq(CopyType) /\ DOMAIN all = 1 .. Len(n) + 1
              /\ \A a, b \in DOMAIN all : a # b => all[a].page # all[b].page
          <6>1. all \in Seq(CopyType) /\ Len(all) = Len(n) + 1
                /\ \A a, b \in DOMAIN all : a # b => all[a].page # all[b].page
            BY PutLast DEF all
          <6> QED  BY <6>1, LenProperties
        <5>3. next[j1] = all[j1 + d] /\ next[j2] = all[j2 + d]  BY <1>3, <5>1
        <5>4. all[j1 + d].page # all[j2 + d].page  BY <5>1, <5>2
        <5> QED  BY <5>3, <5>4
      <4> DEFINE f == [k \in 1 .. CacheSize |-> next[k].page]
      <4>4. f \in [1 .. CacheSize -> new.others] /\ \A j1, j2 \in 1 .. CacheSize : f[j1] = f[j2] => j1 = j2
        BY <4>2, <4>3
      <4>5. f \in Injection(1 .. CacheSize, new.others)  BY <4>4 DEF Injection, IsInjective
      <4> HIDE DEF f
      <4>6. Cardinality(1 .. CacheSize) <= Cardinality(new.others)  BY <4>5, FS_Injection
      <4>7. Cardinality(1 .. CacheSize) = CacheSize  BY PagesAssumption, FS_Interval
      <4>8. Cardinality(new.others) \in Nat  BY FS_CardinalityType
      <4> QED  BY <4>6, <4>7, <4>8, PagesAssumption
    <3> QED  BY <1>1, <3>1, <3>3, <3>4
  <2> QED  BY <2>1, <2>2, <2>3
<1>9. \/ clock - new.at > TTL
      \/ Cardinality(new.others) >= CacheSize
      \/ \E k \in DOMAIN next : /\ next[k].page = new.page /\ next[k].at >= new.at
                                /\ \A j \in DOMAIN next : k < j => next[j].page \in new.others
  BY <1>7, <1>8 DEF KeptOrPast
<1> QED  BY <1>6, <1>9 DEF KeptOrPast


\* The cache itself, after a copy came to its end.
LEMMA PushedOK ==
  ASSUME CacheInv, NEW site \in P!Pages, NEW e \in CopyType, e.page = site, NEW n, Kept(n, site),
         NEW d, NEW next, Pushed(n, e, d, next),
         Len(next) <= CacheSize, NEW fresh \in Nat, copies \in Nat, copies <= fresh, clock \in Nat,
         e.host = P!Host(site), e.copy <= fresh, e.at <= clock
  PROVE  CopiesOK(next, clock, fresh)
<1>0. /\ d \in Nat /\ d <= Len(n) + 1
      /\ next \in Seq(CopyType) /\ Len(next) = Len(n) + 1 - d
      /\ \A k \in 1 .. Len(n) + 1 - d : next[k] = Append(n, e)[k + d]
      /\ d > 0 => Len(next) = CacheSize
  BY DEF Pushed
<1> USE <1>0
<1> DEFINE all == Append(n, e)
<1>1. n \in Seq(CopyType) /\ Len(n) \in Nat /\ DOMAIN n = 1 .. Len(n)  BY DEF Kept
<1>2. /\ all \in Seq(CopyType) /\ Len(all) = Len(n) + 1
      /\ all[Len(n) + 1] = e /\ (\A j \in 1 .. Len(n) : all[j] = n[j])
      /\ \A i, j \in DOMAIN all : i # j => all[i].page # all[j].page
  BY PutLast
<1>3. \A k \in 1 .. Len(n) + 1 - d : next[k] = all[k + d]  OBVIOUS
<1> HIDE DEF all
<1>4. DOMAIN next = 1 .. Len(n) + 1 - d /\ DOMAIN all = 1 .. Len(n) + 1  BY <1>1, <1>2, LenProperties
<1>5. PICK l \in Nat : l = Len(n)  BY <1>1
<1>6. \A k \in 1 .. l + 1 - d : k + d \in 1 .. l + 1  BY <1>5
<1>7. \A i, j \in DOMAIN next : i # j => next[i].page # next[j].page
  <2> SUFFICES ASSUME NEW i \in 1 .. l + 1 - d, NEW j \in 1 .. l + 1 - d, i # j  PROVE next[i].page # next[j].page
    BY <1>4, <1>5
  <2>1. i + d \in DOMAIN all /\ j + d \in DOMAIN all /\ i + d # j + d  BY <1>4, <1>5, <1>6
  <2>2. all[i + d].page # all[j + d].page  BY <1>2, <2>1
  <2> QED  BY <1>3, <1>5, <2>2
<1>8. \A i \in DOMAIN n : n[i].host = P!Host(n[i].page) /\ n[i].copy <= copies /\ n[i].at <= clock /\ n[i] \in CopyType
  BY <1>1, ElementOfSeq DEF Kept, CacheInv, CopiesOK
<1>9. \A i \in DOMAIN next : next[i].host = P!Host(next[i].page) /\ next[i].copy <= fresh /\ next[i].at <= clock
  <2> SUFFICES ASSUME NEW i \in 1 .. l + 1 - d
               PROVE  next[i].host = P!Host(next[i].page) /\ next[i].copy <= fresh /\ next[i].at <= clock
    BY <1>4, <1>5
  <2>1. i + d \in 1 .. l + 1 /\ next[i] = all[i + d]  BY <1>3, <1>5, <1>6
  <2>2. CASE i + d = l + 1  BY <1>2, <1>5, <2>1, <2>2
  <2>3. CASE i + d # l + 1
    <3>1. i + d \in DOMAIN n /\ next[i] = n[i + d]
      <4>1. i + d \in 1 .. l  BY <2>1, <2>3
      <4> QED  BY <1>1, <1>2, <1>5, <2>1, <4>1
    <3>2. next[i].copy \in Nat /\ next[i].copy <= copies  BY <1>8, <3>1 DEF CopyType
    <3> QED  BY <1>8, <3>1, <3>2
  <2> QED  BY <2>2, <2>3
<1> QED  BY <1>7, <1>9 DEF CopiesOK

\* The copy a chat was handed is kept.
LEMMA FreshIsKept ==
  ASSUME NEW n \in Seq(CopyType), NEW e \in CopyType, NEW d, NEW next, Pushed(n, e, d, next),
         \A j \in DOMAIN n : n[j].page # e.page,
         NEW was \in LastType, was.page = e.page, was.copy = e.copy, was.at = e.at, was.others = {}
  PROVE  KeptOrPast(next, clock, was)
<1>0. /\ d \in Nat /\ d <= Len(n) + 1
      /\ next \in Seq(CopyType) /\ Len(next) = Len(n) + 1 - d
      /\ \A k \in 1 .. Len(n) + 1 - d : next[k] = Append(n, e)[k + d]
      /\ d > 0 => Len(next) = CacheSize
  BY DEF Pushed
<1> USE <1>0
<1>1. PICK l \in Nat : l = Len(n)  BY LenProperties
<1>2. Append(n, e)[l + 1] = e /\ \A j \in 1 .. l : Append(n, e)[j] = n[j]  BY <1>1, AppendProperties
<1>3. DOMAIN next = 1 .. l + 1 - d /\ DOMAIN n = 1 .. l  BY <1>1, LenProperties
<1>4. \A i \in DOMAIN next : next[i].page = was.page => next[i].copy = was.copy
  <2> SUFFICES ASSUME NEW i \in 1 .. l + 1 - d, next[i].page = was.page  PROVE next[i].copy = was.copy  BY <1>3
  <2>1. i + d \in 1 .. l + 1 /\ next[i] = Append(n, e)[i + d]  BY <1>1
  <2>2. i + d = l + 1  BY <1>2, <1>3, <2>1
  <2> QED  BY <1>2, <2>1, <2>2
<1>5. CASE d <= l
  <2>1. l + 1 - d \in DOMAIN next /\ l + 1 - d + d = l + 1 /\ \A j \in DOMAIN next : ~(l + 1 - d < j)  BY <1>3, <1>5
  <2>2. next[l + 1 - d] = e  BY <1>1, <1>2, <1>3, <2>1
  <2>3. e.at >= was.at  BY DEF CopyType
  <2> QED  BY <1>4, <2>1, <2>2, <2>3 DEF KeptOrPast
<1>6. CASE ~(d <= l)
  <2>1. CacheSize = 0  BY <1>1, <1>6, PagesAssumption
  <2>2. Cardinality(was.others) = 0  BY FS_EmptySet
  <2> QED  BY <1>4, <2>1, <2>2 DEF KeptOrPast
<1> QED  BY <1>5, <1>6

\* What a chat read stays kept or past when an outdated copy, or none, goes.
LEMMA DroppedKeeps ==
  ASSUME CacheInv, NEW site \in P!Pages, NEW n, Kept(n, site), clock \in Nat,
         \A i \in DOMAIN cache : cache[i].page = site => clock - cache[i].at > TTL,
         NEW was \in LastType, KeptOrPast(cache, clock, was)
  PROVE  KeptOrPast(n, clock, was)
<1>1. PICK m \in [DOMAIN n -> DOMAIN cache] :
         /\ \A j \in DOMAIN n : n[j] = cache[m[j]]
         /\ \A j, k \in DOMAIN n : j < k => m[j] < m[k]
         /\ \A i \in DOMAIN cache : cache[i].page # site => \E j \in DOMAIN n : m[j] = i
  BY DEF Kept
<1>2. \A i \in DOMAIN n : n[i].page = was.page => n[i].copy = was.copy \/ was.again  BY <1>1 DEF KeptOrPast
<1>3. ASSUME NEW i \in DOMAIN cache, cache[i].page = was.page, cache[i].at >= was.at,
             \A j \in DOMAIN cache : i < j => cache[j].page \in was.others
      PROVE  \/ clock - was.at > TTL
             \/ \E k \in DOMAIN n : /\ n[k].page = was.page /\ n[k].at >= was.at
                                    /\ \A j \in DOMAIN n : k < j => n[j].page \in was.others
  <2>1. CASE site = was.page
    <3>1. cache[i] \in CopyType  BY ElementOfSeq, LenProperties DEF CacheInv, CopiesOK
    <3>2. cache[i].at \in Nat /\ was.at \in Nat  BY <3>1 DEF CopyType, LastType
    <3>3. clock - cache[i].at > TTL  BY <1>3, <2>1
    <3> QED  BY <1>3, <3>2, <3>3, PagesAssumption
  <2>2. CASE site # was.page
    <3>1. PICK k \in DOMAIN n : m[k] = i  BY <1>1, <1>3, <2>2
    <3>2. n[k] = cache[i]  BY <1>1, <3>1
    <3>3. \A j \in DOMAIN n : k < j => n[j].page \in was.others  BY <1>1, <1>3, <3>1
    <3> QED  BY <1>3, <3>2, <3>3
  <2> QED  BY <2>1, <2>2
<1> QED  BY <1>2, <1>3 DEF KeptOrPast

LEMMA DroppedOK ==
  ASSUME CacheInv, NEW site \in P!Pages, NEW n, Kept(n, site)
  PROVE  CopiesOK(n, clock, copies)
<1>1. PICK m \in [DOMAIN n -> DOMAIN cache] :
         /\ \A j \in DOMAIN n : n[j] = cache[m[j]]
         /\ \A j, k \in DOMAIN n : j < k => m[j] < m[k]
  BY DEF Kept
<1>2. DOMAIN n = 1 .. Len(n) /\ Len(n) \in Nat /\ n \in Seq(CopyType) /\ DOMAIN cache = 1 .. Len(cache) /\ Len(cache) \in Nat
  BY LenProperties DEF Kept, CacheInv, CopiesOK
<1>3. Len(n) <= CacheSize  BY <1>2, PagesAssumption DEF Kept, CacheInv, CopiesOK
<1>4. \A i, j \in DOMAIN n : i # j => n[i].page # n[j].page
  <2> SUFFICES ASSUME NEW i \in DOMAIN n, NEW j \in DOMAIN n, i # j  PROVE n[i].page # n[j].page  OBVIOUS
  <2>1. m[i] \in DOMAIN cache /\ m[j] \in DOMAIN cache /\ m[i] # m[j]  BY <1>1, <1>2
  <2> QED  BY <1>1, <2>1 DEF CacheInv, CopiesOK
<1>5. \A i \in DOMAIN n : n[i].host = P!Host(n[i].page) /\ n[i].copy <= copies /\ n[i].at <= clock
  BY <1>1 DEF CacheInv, CopiesOK
<1> QED  BY <1>2, <1>3, <1>4, <1>5 DEF CopiesOK


NoCopyIsNone == \A was \in LastType : was # P!NoCopy
LEMMA CopiesAreSome == NoCopyIsNone
<1> SUFFICES ASSUME NEW was \in LastType, was = P!NoCopy  PROVE FALSE  BY DEF NoCopyIsNone
<1>1. was.page \in P!Pages /\ was.page = <<>>  BY DEF LastType, P!NoCopy
<1>2. PICK h \in Hosts, a \in Addresses : was.page = <<h, a>>  BY <1>1 DEF P!Pages
<1>3. Len(<<h, a>>) = 2 /\ Len(<<>>) = 0  OBVIOUS
<1> QED  BY <1>1, <1>2, <1>3

\* What the chats know of their newest copies when one of them is handed copy e, which came to the end of the cache.
LEMMA HandedKeeps ==
  ASSUME PagesInv, NEW x \in Convs, NEW site \in P!Pages, NEW e \in CopyType, e.page = site, NEW n, Kept(n, site),
         NEW d, NEW next, Pushed(n, e, d, next), NEW fresh \in Nat, copies <= fresh,
         e.host = P!Host(site), e.copy <= fresh, e.at <= clock,
         \/ \E i \in DOMAIN cache : e = cache[i]
         \/ e.copy = copies + 1 /\ e.at = clock,
         last' = P!Handed(x, e)
  PROVE  /\ last' \in [Convs -> {P!NoCopy} \cup LastType]
         /\ \A c \in Convs : last'[c] # P!NoCopy => LastOK(last'[c], next, clock, fresh)
<1>0. /\ CacheInv /\ last \in [Convs -> {P!NoCopy} \cup LastType] /\ clock \in Nat /\ copies \in Nat
      /\ \A c \in Convs : last[c] # P!NoCopy => LastOK(last[c], cache, clock, copies)
  BY PagesAssumption DEF PagesInv, LastInv
<1>1. ASSUME NEW c \in Convs
      PROVE  last'[c] \in {P!NoCopy} \cup LastType /\ (last'[c] # P!NoCopy => LastOK(last'[c], next, clock, fresh))
  <2>1. CASE c = x
    <3> DEFINE new == [page |-> e.page, copy |-> e.copy, host |-> e.host, at |-> e.at, others |-> {}, again |-> FALSE]
    <3>1. last'[c] = new  BY <2>1 DEF P!Handed
    <3>2. new \in LastType /\ new.page = e.page /\ new.copy = e.copy /\ new.at = e.at /\ new.others = {} /\ new.host = e.host
      BY DEF CopyType, LastType
    <3> HIDE DEF new
    <3>3. n \in Seq(CopyType) /\ \A j \in DOMAIN n : n[j].page # e.page  BY DEF Kept
    <3>4. KeptOrPast(next, clock, new)  BY <3>2, <3>3, FreshIsKept
    <3>5. LastOK(new, next, clock, fresh)  BY <3>2, <3>4, FS_EmptySet DEF LastOK
    <3> QED  BY <3>1, <3>2, <3>5
  <2>2. CASE c # x /\ last[c] = P!NoCopy
    BY <2>2 DEF P!Handed
  <2>3. CASE c # x /\ last[c] # P!NoCopy
    <3>1. PICK was \in LastType : was = last[c]  BY <1>0, <2>3
    <3>2. KeptOrPast(cache, clock, was) /\ was.host = P!Host(was.page) /\ was.copy <= copies /\ was.at <= clock
          /\ IsFiniteSet(was.others)
      BY <1>0, <2>3, <3>1 DEF LastOK
    <3> DEFINE new == [was EXCEPT !.others = @ \cup ({e.page} \ {was.page}),
                                  !.again = @ \/ (e.page = was.page /\ e.copy # was.copy)]
    <3>3. last'[c] = new  BY <2>3, <3>1 DEF P!Handed
    <3>4. /\ new.page = was.page /\ new.at = was.at /\ new.copy = was.copy /\ new.host = was.host
          /\ new.others = was.others \cup ({site} \ {was.page})
          /\ new.again = (was.again \/ (site = was.page /\ e.copy # was.copy))
      BY DEF LastType
    <3>5. new \in LastType
      <4> DEFINE o == was.others \cup ({e.page} \ {was.page})
                 g == was.again \/ (e.page = was.page /\ e.copy # was.copy)
      <4>1. o \in SUBSET P!Pages /\ g \in BOOLEAN  BY DEF LastType
      <4> HIDE DEF o, g
      <4>2. [was EXCEPT !.others = o, !.again = g] \in LastType  BY <4>1 DEF LastType
      <4> QED  BY <4>2 DEF o, g
    <3> HIDE DEF new
    <3>6. IsFiniteSet(new.others)
      <4>1. IsFiniteSet(was.others \cup {site})  BY <3>2, FS_AddElement
      <4>2. new.others \subseteq was.others \cup {site}  BY <3>4
      <4> QED  BY <4>1, <4>2, FS_Subset
    <3>7. site = was.page => e.copy = was.copy \/ new.again  BY <3>4
    <3>8. site = was.page /\ (\E i \in DOMAIN cache : cache[i].page = site /\ cache[i].at >= was.at) => e.at >= was.at
      <4>1. CASE \E i \in DOMAIN cache : e = cache[i]
        BY <1>0, <4>1 DEF CacheInv, CopiesOK
      <4>2. CASE e.at = clock  BY <1>0, <3>2, <4>2 DEF LastType
      <4> QED  BY <4>1, <4>2
    <3>9. was.others \subseteq new.others /\ (was.again => new.again) /\ (site # was.page => site \in new.others)
      BY <3>4
    <3>10. KeptOrPast(next, clock, new)
      BY <1>0, <3>2, <3>4, <3>5, <3>6, <3>7, <3>8, <3>9, PushedKeeps
    <3>11. new.copy <= fresh  BY <1>0, <3>2, <3>4 DEF LastType
    <3> QED  BY <3>2, <3>3, <3>4, <3>5, <3>6, <3>10, <3>11 DEF LastOK
  <2> QED  BY <2>1, <2>2, <2>3
<1>2. last' = [c \in Convs |-> last'[c]]  BY DEF P!Handed
<1>3. last' \in [Convs -> {P!NoCopy} \cup LastType]  BY <1>1, <1>2
<1> QED  BY <1>1, <1>3

LEMMA ReadKeeps == ASSUME PagesInv, NEW x \in Convs, NEW site \in P!Pages, P!Read(x, site)  PROVE PagesInv'
<1>0. /\ CacheInv /\ ReadsInv /\ LastInv /\ clock \in Nat /\ copies \in Nat /\ Len(cache) \in Nat
      /\ cache \in Seq(CopyType) /\ DOMAIN cache = 1 .. Len(cache)
  BY PagesAssumption DEF PagesInv, CacheInv, CopiesOK
<1>1. count' \in 0 .. MaxReads /\ clock' = clock /\ copies' = copies
  BY PagesAssumption DEF P!Read, PagesInv
<1>2. PICK n : n = P!Without(site)  OBVIOUS
<1>3. Kept(n, site)  BY <1>0, <1>2, WithoutKeeps
<1>4. CASE P!Hit(site) # {}
  <2>1. PICK e \in P!Hit(site) : last' = P!Handed(x, e) /\ cache' = Append(n, e) /\ reads' = reads
    BY <1>2, <1>4 DEF P!Read, P!AfterGet
  <2>2. PICK i \in DOMAIN cache : e = cache[i] /\ e.page = site
    BY <2>1 DEF P!Hit, P!Range
  <2>3. e \in CopyType /\ e.host = P!Host(site) /\ e.copy <= copies /\ e.at <= clock
    BY <1>0, <2>2, ElementOfSeq DEF CacheInv, CopiesOK
  <2>4. n \in Seq(CopyType) /\ Len(n) \in Nat /\ Len(n) < Len(cache) /\ Len(cache) <= CacheSize
    BY <1>0, <1>3, <2>2, LenProperties DEF Kept, CacheInv, CopiesOK
  <2>5. Append(n, e) \in Seq(CopyType) /\ Len(Append(n, e)) = Len(n) + 1  BY <2>3, <2>4, AppendProperties
  <2>6. Pushed(n, e, 0, Append(n, e)) /\ Len(Append(n, e)) <= CacheSize
    <3>1. Len(n) + 1 - 0 = Len(n) + 1 /\ Len(n) + 1 <= CacheSize  BY <1>0, <2>4, PagesAssumption
    <3>2. \A k \in 1 .. Len(n) + 1 - 0 : Append(n, e)[k] = Append(n, e)[k + 0]
      <4>1. \A k \in 1 .. Len(n) + 1 : k + 0 = k  OBVIOUS
      <4> QED  BY <3>1, <4>1
    <3>3. 0 \in Nat /\ 0 <= Len(n) + 1 /\ ~(0 > 0)  BY <2>4
    <3> QED  BY <2>5, <3>1, <3>2, <3>3 DEF Pushed
  <2>7. CopiesOK(Append(n, e), clock, copies)
    <3>1. copies <= copies  BY <1>0
    <3> QED  BY <1>0, <1>3, <2>2, <2>3, <2>6, <3>1, PushedOK
  <2>8. /\ last' \in [Convs -> {P!NoCopy} \cup LastType]
        /\ \A c \in Convs : last'[c] # P!NoCopy => LastOK(last'[c], Append(n, e), clock, copies)
    BY <1>0, <1>3, <2>1, <2>2, <2>3, <2>6, HandedKeeps
  <2>9. CacheInv' /\ LastInv' /\ ReadsInv'  BY <1>0, <1>1, <2>1, <2>7, <2>8 DEF CacheInv, LastInv, ReadsInv
  <2> QED  BY <1>0, <1>1, <2>9 DEF PagesInv
<1>5. CASE P!Hit(site) = {}
  <2>1. cache' = n /\ last' = last
        /\ reads' = [reads EXCEPT ![x] = [at |-> "fetching", page |-> site, now |-> site, hop |-> 0]]
    BY <1>2, <1>5 DEF P!Read, P!AfterGet
  <2>2. \A i \in DOMAIN cache : cache[i].page = site => clock - cache[i].at > TTL
    <3> SUFFICES ASSUME NEW i \in DOMAIN cache, cache[i].page = site  PROVE clock - cache[i].at > TTL  OBVIOUS
    <3>1. ~(clock - cache[i].at <= TTL)  BY <1>5 DEF P!Hit, P!Range
    <3>2. cache[i].at \in Nat
      <4>1. cache[i] \in CopyType  BY <1>0, ElementOfSeq
      <4> QED  BY <4>1 DEF CopyType
    <3> QED  BY <1>0, <3>1, <3>2, PagesAssumption
  <2>3. CopiesOK(n, clock, copies)  BY <1>0, <1>3, DroppedOK
  <2>4. \A c \in Convs : last[c] # P!NoCopy => LastOK(last[c], n, clock, copies)
    <3> SUFFICES ASSUME NEW c \in Convs, last[c] # P!NoCopy  PROVE LastOK(last[c], n, clock, copies)  OBVIOUS
    <3>1. last[c] \in LastType /\ LastOK(last[c], cache, clock, copies)  BY <1>0 DEF LastInv
    <3>2. KeptOrPast(n, clock, last[c])  BY <1>0, <1>3, <2>2, <3>1, DroppedKeeps DEF LastOK
    <3> QED  BY <3>1, <3>2 DEF LastOK
  <2>5. ReadsInv'
    <3>1. [at |-> "fetching", page |-> site, now |-> site, hop |-> 0] \in ReadType  BY DEF ReadType
    <3> QED  BY <1>0, <2>1, <3>1 DEF ReadsInv
  <2>6. CacheInv' /\ LastInv'  BY <1>0, <1>1, <2>1, <2>3, <2>4 DEF CacheInv, LastInv
  <2> QED  BY <1>0, <1>1, <2>5, <2>6 DEF PagesInv
<1> QED  BY <1>4, <1>5

LEMMA KeptKeeps == ASSUME PagesInv, NEW x \in Convs, reads[x].at = "body", P!Kept(x)  PROVE PagesInv'
<1>0. /\ CacheInv /\ ReadsInv /\ LastInv /\ clock \in Nat /\ copies \in Nat /\ Len(cache) \in Nat
      /\ cache \in Seq(CopyType) /\ DOMAIN cache = 1 .. Len(cache)
  BY PagesAssumption DEF PagesInv, CacheInv, CopiesOK
<1>1. PICK site \in P!Pages : site = reads[x].page /\ P!Host(reads[x].now) = P!Host(site)
  <2>1. reads[x] \in ReadType /\ reads[x] # P!NoRead  BY <1>0 DEF ReadsInv, P!NoRead
  <2>2. reads[x].page \in P!Pages  BY <2>1 DEF ReadType
  <2> QED  BY <1>0, <2>1, <2>2 DEF ReadsInv
<1>2. P!Host(site) \in Hosts  BY DEF P!Host, P!Pages
<1> DEFINE e == [page |-> site, copy |-> copies + 1, host |-> P!Host(site), at |-> clock]
<1>3. e \in CopyType /\ e.page = site /\ e.copy = copies + 1 /\ e.host = P!Host(site) /\ e.at = clock
  BY <1>0, <1>2 DEF CopyType
<1>4. cache' = P!AfterSet(e) /\ last' = P!Handed(x, e)  BY <1>1 DEF P!Kept
<1>5. reads' = [reads EXCEPT ![x] = P!NoRead] /\ clock' = clock /\ count' = count /\ copies' = copies + 1
  BY DEF P!Kept
<1> HIDE DEF e
<1>6. PICK n : n = P!Without(site)  OBVIOUS
<1>7. Kept(n, site)  BY <1>0, <1>6, WithoutKeeps
<1>8. PICK l \in Nat : l = Len(n) /\ n \in Seq(CopyType)  BY <1>7, LenProperties DEF Kept
<1>9. Append(n, e) \in Seq(CopyType) /\ Len(Append(n, e)) = l + 1  BY <1>3, <1>8, AppendProperties
<1>10. PICK d \in Nat : d = IF l + 1 > CacheSize THEN l + 1 - CacheSize ELSE 0
  <2>1. (IF l + 1 > CacheSize THEN l + 1 - CacheSize ELSE 0) \in Nat  BY PagesAssumption
  <2> QED  BY <2>1
<1>11. d <= l + 1 /\ l + 1 - d <= CacheSize /\ (d > 0 => l + 1 - d = CacheSize)  BY <1>10, PagesAssumption
<1>12. l + 1 - (IF l + 1 > CacheSize THEN CacheSize ELSE l + 1) + 1 = d + 1  BY <1>10, PagesAssumption
<1>13. cache' = SubSeq(Append(n, e), d + 1, l + 1)
  <2> DEFINE all == Append(P!Without(e.page), e)
  <2>1. P!AfterSet(e) = SubSeq(all, Len(all) - (IF Len(all) > CacheSize THEN CacheSize ELSE Len(all)) + 1, Len(all))
    BY DEF P!AfterSet
  <2>2. all = Append(n, e) /\ Len(all) = l + 1  BY <1>3, <1>6, <1>9
  <2> HIDE DEF all
  <2>3. PICK g : g = l + 1  OBVIOUS
  <2>4. Len(all) = g  BY <2>2, <2>3
  <2>5. P!AfterSet(e) = SubSeq(all, g - (IF g > CacheSize THEN CacheSize ELSE g) + 1, g)  BY <2>1, <2>4, Zenon
  <2>6. g - (IF g > CacheSize THEN CacheSize ELSE g) + 1 = d + 1  BY <1>10, <2>3, PagesAssumption
  <2>7. P!AfterSet(e) = SubSeq(all, d + 1, g)  BY <2>5, <2>6, Zenon
  <2> QED  BY <1>4, <2>2, <2>3, <2>7, Zenon
<1>14. PICK next : next = SubSeq(Append(n, e), d + 1, l + 1)  OBVIOUS
<1>15. next \in Seq(CopyType) /\ Len(next) = l + 1 - d /\ \A k \in 1 .. l + 1 - d : next[k] = Append(n, e)[k + d]
  <2>1. PICK all \in Seq(CopyType) : all = Append(n, e) /\ Len(all) = l + 1  BY <1>9
  <2>2. /\ SubSeq(all, d + 1, Len(all)) \in Seq(CopyType) /\ Len(SubSeq(all, d + 1, Len(all))) = Len(all) - d
        /\ \A k \in 1 .. Len(all) - d : SubSeq(all, d + 1, Len(all))[k] = all[k + d]
    BY <1>11, <2>1, FromOn
  <2>3. next = SubSeq(all, d + 1, Len(all))  BY <1>14, <2>1
  <2> QED  BY <2>1, <2>2, <2>3
<1>16. Pushed(n, e, d, next) /\ Len(next) <= CacheSize  BY <1>8, <1>11, <1>15 DEF Pushed
<1>17. CopiesOK(next, clock, copies + 1)
  <2>1. copies + 1 \in Nat /\ copies <= copies + 1 /\ e.copy <= copies + 1 /\ e.at <= clock  BY <1>0, <1>3
  <2> QED  BY <1>0, <1>3, <1>7, <1>16, <2>1, PushedOK
<1>18. /\ last' \in [Convs -> {P!NoCopy} \cup LastType]
       /\ \A c \in Convs : last'[c] # P!NoCopy => LastOK(last'[c], next, clock, copies + 1)
  <2>1. copies + 1 \in Nat /\ copies <= copies + 1 /\ e.copy <= copies + 1 /\ e.at <= clock  BY <1>0, <1>3
  <2> QED  BY <1>3, <1>4, <1>7, <1>16, <2>1, HandedKeeps
<1>19. CacheInv' /\ LastInv'  BY <1>5, <1>13, <1>14, <1>17, <1>18 DEF CacheInv, LastInv
<1>20. ReadsInv'  BY <1>0, <1>5 DEF ReadsInv, ReadType
<1> QED  BY <1>0, <1>5, <1>19, <1>20 DEF PagesInv

\* A download's own steps, and the clock.
LEMMA FetchKeeps ==
  ASSUME PagesInv, NEW x \in Convs,
         (\E to \in P!Pages : P!Redirect(x, to)) \/ P!Fails(x) \/ P!Answers(x) \/ P!Chunk(x) \/ P!End(x)
  PROVE  PagesInv'
<1>0. ReadsInv /\ reads[x] \in ReadType  BY DEF PagesInv, ReadsInv
<1>1. CASE P!Kept(x) /\ reads[x].at = "body"  BY <1>1, KeptKeeps
<1>2. ASSUME UNCHANGED <<cache, clock, last, copies, count>>, NEW r \in ReadType, reads' = [reads EXCEPT ![x] = r],
             r # P!NoRead => P!Host(r.now) = P!Host(r.page)
      PROVE  PagesInv'
  <2>1. ReadsInv'  BY <1>0, <1>2 DEF ReadsInv
  <2> QED  BY <1>2, <2>1 DEF PagesInv, CacheInv, LastInv
<1>3. P!NoRead \in ReadType  BY DEF ReadType
<1>4. ASSUME NEW to \in P!Pages, P!Redirect(x, to)  PROVE PagesInv'
  <2>0. reads[x].at = "fetching" /\ UNCHANGED <<cache, clock, last, copies, count>>  BY <1>4 DEF P!Redirect
  <2>1. reads[x] \in [at : {"fetching"}, page : P!Pages, now : P!Pages, hop : Nat]
    BY <1>0, <2>0 DEF ReadType, P!NoRead
  <2>2. CASE P!Followed(reads[x], to)
    <3> DEFINE r == [reads[x] EXCEPT !.now = to, !.hop = @ + 1]
    <3>1. r \in ReadType /\ r.now = to /\ r.page = reads[x].page
      <4>1. PICK q \in [at : {"fetching"}, page : P!Pages, now : P!Pages, hop : Nat] : q = reads[x]  BY <2>1
      <4>2. PICK h \in Nat : h = q.hop + 1  OBVIOUS
      <4>3. [q EXCEPT !.now = to, !.hop = h] \in [at : {"fetching"}, page : P!Pages, now : P!Pages, hop : Nat]
            /\ [q EXCEPT !.now = to, !.hop = h].now = to /\ [q EXCEPT !.now = to, !.hop = h].page = q.page
        OBVIOUS
      <4>4. r = [q EXCEPT !.now = to, !.hop = h]  BY <4>1, <4>2
      <4> HIDE DEF r
      <4> QED  BY <4>1, <4>3, <4>4 DEF ReadType
    <3>2. reads' = [reads EXCEPT ![x] = r]  BY <1>4, <2>2 DEF P!Redirect
    <3> HIDE DEF r
    <3> QED  BY <1>2, <2>0, <2>2, <3>1, <3>2 DEF P!Followed
  <2>3. CASE ~P!Followed(reads[x], to)
    <3>1. reads' = [reads EXCEPT ![x] = P!NoRead]  BY <1>4, <2>3 DEF P!Redirect
    <3> QED  BY <1>2, <1>3, <2>0, <3>1
  <2> QED  BY <2>2, <2>3
<1>5. CASE P!Fails(x)  BY <1>2, <1>3, <1>5 DEF P!Fails
<1>6. CASE P!Answers(x)
  <2>0. reads[x].at = "fetching" /\ UNCHANGED <<cache, clock, last, copies, count>>  BY <1>6 DEF P!Answers
  <2>1. reads[x] \in [at : {"fetching"}, page : P!Pages, now : P!Pages, hop : Nat] /\ reads[x] # P!NoRead
    BY <1>0, <2>0 DEF ReadType, P!NoRead
  <2> DEFINE r == [at |-> "body", page |-> reads[x].page, now |-> reads[x].now, size |-> 0]
  <2>2. r \in ReadType /\ r.now = reads[x].now /\ r.page = reads[x].page  BY <2>1 DEF ReadType
  <2>3. reads' = [reads EXCEPT ![x] = r]  BY <1>0, <1>6 DEF P!Answers, ReadsInv
  <2> HIDE DEF r
  <2>4. P!Host(r.now) = P!Host(r.page)  BY <1>0, <2>1, <2>2 DEF ReadsInv
  <2> QED  BY <1>2, <2>0, <2>2, <2>3, <2>4
<1>7. CASE P!Chunk(x) /\ ~P!Kept(x)
  <2>0. reads[x].at = "body" /\ UNCHANGED <<cache, clock, last, copies, count>>
        /\ reads' = [reads EXCEPT ![x].size = @ + 1]
    BY <1>7 DEF P!Chunk
  <2>1. reads[x] \in [at : {"body"}, page : P!Pages, now : P!Pages, size : Nat] /\ reads[x] # P!NoRead
    BY <1>0, <2>0 DEF ReadType, P!NoRead
  <2> DEFINE r == [reads[x] EXCEPT !.size = @ + 1]
  <2>2. r \in ReadType /\ r.now = reads[x].now /\ r.page = reads[x].page  BY <2>1 DEF ReadType
  <2>3. reads' = [reads EXCEPT ![x] = r]  BY <1>0, <2>0 DEF ReadsInv
  <2> HIDE DEF r
  <2>4. P!Host(r.now) = P!Host(r.page)  BY <1>0, <2>1, <2>2 DEF ReadsInv
  <2> QED  BY <1>2, <2>0, <2>2, <2>3, <2>4
<1> QED  BY <1>1, <1>4, <1>5, <1>6, <1>7 DEF P!Chunk, P!End

LEMMA TickKeeps == ASSUME PagesInv, P!Tick  PROVE PagesInv'
<1>1. clock' = clock + 1 /\ clock' \in 0 .. MaxClock /\ clock \in Nat /\ UNCHANGED <<cache, reads, last, copies, count>>
  BY PagesAssumption DEF PagesInv, P!Tick
<1>2. cache \in Seq(CopyType) /\ DOMAIN cache = 1 .. Len(cache) /\ \A i \in DOMAIN cache : cache[i].at \in Nat
  <2>1. cache \in Seq(CopyType) /\ DOMAIN cache = 1 .. Len(cache)  BY DEF PagesInv, CacheInv, CopiesOK
  <2>2. \A i \in DOMAIN cache : cache[i] \in CopyType  BY <2>1, ElementOfSeq
  <2> QED  BY <2>1, <2>2 DEF CopyType
<1>3. CopiesOK(cache, clock + 1, copies)
  BY <1>1, <1>2 DEF PagesInv, CacheInv, CopiesOK
<1>4. ASSUME NEW c \in Convs, last[c] # P!NoCopy  PROVE LastOK(last[c], cache, clock + 1, copies)
  <2>1. last[c] \in LastType /\ LastOK(last[c], cache, clock, copies)  BY <1>4 DEF PagesInv, LastInv
  <2>2. last[c].at \in Nat  BY <2>1 DEF LastType
  <2> QED  BY <1>1, <2>1, <2>2, PagesAssumption DEF LastOK, KeptOrPast
<1> QED  BY <1>1, <1>3, <1>4 DEF PagesInv, CacheInv, ReadsInv, LastInv

LEMMA PagesKeep == PagesInv /\ P!Next => PagesInv'
BY ReadKeeps, FetchKeeps, TickKeeps DEF P!Next

LEMMA PagesStutter == PagesInv /\ UNCHANGED P!vars => PagesInv'
BY DEF PagesInv, CacheInv, ReadsInv, LastInv, P!vars

LEMMA SameCount == \A A : P!Cardinality(A) = Cardinality(A)
BY DEF P!Cardinality, Cardinality

LEMMA ReadsAgree == ASSUME PagesInv, P!Next  PROVE P!PartsAgree
<1> SUFFICES ASSUME NEW c \in Convs, last[c] # P!NoCopy, reads[c] = P!NoRead
             PROVE  /\ reads'[c] # P!NoRead /\ reads'[c].page = last[c].page =>
                         clock - last[c].at > TTL \/ Cardinality(last[c].others) >= CacheSize
                    /\ last'[c].page = last[c].page /\ last'[c].copy # last[c].copy => last[c].again
  BY SameCount DEF P!PartsAgree
<1>0. /\ CacheInv /\ last \in [Convs -> {P!NoCopy} \cup LastType] /\ last[c] \in LastType
      /\ KeptOrPast(cache, clock, last[c]) /\ reads \in [Convs -> ReadType]
      /\ clock \in Nat /\ DOMAIN cache = 1 .. Len(cache) /\ cache \in Seq(CopyType)
  BY DEF PagesInv, LastInv, LastOK, ReadsInv, CacheInv, CopiesOK
<1>1. ASSUME NEW x \in Convs, NEW site \in P!Pages, P!Read(x, site), c = x, P!Hit(site) # {}
      PROVE  reads' = reads /\ (last'[c].page = last[c].page /\ last'[c].copy # last[c].copy => last[c].again)
  <2>1. PICK e \in P!Hit(site) : last' = P!Handed(x, e) /\ reads' = reads
    BY <1>1 DEF P!Read
  <2>2. PICK i \in DOMAIN cache : e = cache[i] /\ e.page = site  BY <2>1 DEF P!Hit, P!Range
  <2>3. last'[c].page = e.page /\ last'[c].copy = e.copy  BY <1>1, <2>1 DEF P!Handed
  <2> QED  BY <1>0, <2>1, <2>2, <2>3 DEF KeptOrPast
<1>2. ASSUME NEW x \in Convs, NEW site \in P!Pages, P!Read(x, site), c = x, P!Hit(site) = {}
      PROVE  last' = last /\ (reads'[c].page = last[c].page =>
                                clock - last[c].at > TTL \/ Cardinality(last[c].others) >= CacheSize)
  <2>1. last' = last /\ reads'[c].page = site  BY <1>0, <1>2 DEF P!Read
  <2>2. ASSUME NEW i \in DOMAIN cache, cache[i].page = site, cache[i].at >= last[c].at
        PROVE  clock - last[c].at > TTL
    <3>1. ~(clock - cache[i].at <= TTL)  BY <1>2, <2>2 DEF P!Hit, P!Range
    <3>2. cache[i].at \in Nat /\ last[c].at \in Nat
      <4>1. cache[i] \in CopyType  BY <1>0, ElementOfSeq
      <4> QED  BY <1>0, <4>1 DEF CopyType, LastType
    <3> QED  BY <1>0, <2>2, <3>1, <3>2, PagesAssumption
  <2> QED  BY <1>0, <2>1, <2>2 DEF KeptOrPast
\* A part handed to another chat leaves this one's page and copy.
<1>3. ASSUME NEW x \in Convs, NEW e, last' = P!Handed(x, e), c # x
      PROVE  last'[c].copy = last[c].copy
  BY <1>0, <1>3 DEF P!Handed, LastType
<1>4. ASSUME NEW x \in Convs, NEW site \in P!Pages, P!Read(x, site), c # x
      PROVE  reads'[c] = P!NoRead /\ last'[c].copy = last[c].copy
  <2>1. reads'[c] = reads[c]  BY <1>0, <1>4 DEF P!Read
  <2>2. last' = last \/ \E e \in P!Hit(site) : last' = P!Handed(x, e)  BY <1>4 DEF P!Read
  <2> QED  BY <1>3, <1>4, <2>1, <2>2
<1>5. ASSUME NEW x \in Convs, P!Kept(x), reads[x].at = "body"
      PROVE  reads'[c] = P!NoRead /\ last'[c].copy = last[c].copy
  <2>1. c # x  BY <1>5 DEF P!NoRead
  <2>2. reads'[c] = P!NoRead  BY <1>0, <1>5, <2>1 DEF P!Kept
  <2>3. \E e : last' = P!Handed(x, e)  BY <1>5 DEF P!Kept
  <2> QED  BY <1>3, <2>1, <2>2, <2>3
<1>6. ASSUME NEW x \in Convs,
             (\E to \in P!Pages : P!Redirect(x, to)) \/ P!Fails(x) \/ P!Answers(x) \/ (P!Chunk(x) /\ ~P!Kept(x))
      PROVE  reads'[c] = P!NoRead /\ last' = last
  <2>1. reads[x].at # "none"  BY <1>6 DEF P!Redirect, P!Fails, P!Answers, P!Chunk
  <2>2. c # x  BY <2>1 DEF P!NoRead
  <2> QED  BY <1>0, <1>6, <2>2 DEF P!Redirect, P!Fails, P!Answers, P!Chunk
<1>7. CASE P!Tick  BY <1>7 DEF P!Tick
<1>8. ASSUME NEW x \in Convs, NEW site \in P!Pages, P!Read(x, site)
      PROVE  /\ reads'[c] # P!NoRead /\ reads'[c].page = last[c].page =>
                  clock - last[c].at > TTL \/ Cardinality(last[c].others) >= CacheSize
             /\ last'[c].page = last[c].page /\ last'[c].copy # last[c].copy => last[c].again
  BY <1>1, <1>2, <1>4, <1>8
<1> QED  BY <1>5, <1>6, <1>7, <1>8 DEF P!Next, P!Chunk, P!End

LEMMA PagesTyped == PagesInv => P!TypeOK /\ P!BodyIsOfHost
<1> SUFFICES ASSUME PagesInv  PROVE P!TypeOK /\ P!BodyIsOfHost  OBVIOUS
<1>1. ASSUME NEW c \in Convs  PROVE reads[c].at \in {"none", "fetching", "body"} /\ last[c].page \in P!Pages \cup {<<>>}
  <2>1. reads[c] \in ReadType /\ last[c] \in {P!NoCopy} \cup LastType  BY DEF PagesInv, ReadsInv, LastInv
  <2> QED  BY <2>1 DEF ReadType, LastType, P!NoRead, P!NoCopy
<1> QED  BY <1>1 DEF PagesInv, CacheInv, CopiesOK, LastInv, LastOK, P!TypeOK, P!BodyIsOfHost

\* A chat reads a page in parts of one text, of the host it asked for, unless the copy is outdated, pushed out by as
\* many pages as the cache holds, or somebody downloaded another (tools.ts, http.ts).
THEOREM PagesAreWhole == P!Spec => [](P!TypeOK /\ P!BodyIsOfHost) /\ [][P!PartsAgree]_(P!vars)
<1>1. P!Init => PagesInv  BY PagesStart
<1>2. PagesInv /\ [P!Next]_(P!vars) => PagesInv'  BY PagesKeep, PagesStutter
<1>3. PagesInv /\ [P!Next]_(P!vars) => [P!PartsAgree]_(P!vars)  BY ReadsAgree
<1>4. PagesInv => P!TypeOK /\ P!BodyIsOfHost  BY PagesTyped
<1> QED  BY <1>1, <1>2, <1>3, <1>4, PTL DEF P!Spec

-----------------------------------------------------------------------------
(* The agent's browser                                                     *)

Holders == Talks \X R!Actors
SessionType ==
  [st : {"none", "launching", "open", "closed"}, conv : Talks \cup {"none"}, js : BOOLEAN, policyJs : BOOLEAN,
   limited : BOOLEAN, grant : SUBSET Hosts, override : BOOLEAN, approved : SUBSET Hosts, asked : Hosts \cup {R!Blank},
   page : Hosts \cup {R!Blank},
   shown : SUBSET R!AllElements, tags : [R!AllElements -> 0 .. 2]]
ToolCallType == [at : {"none", "check", "restart", "launch", "go", "observe"}, host : Hosts \cup {R!Blank}, js : BOOLEAN,
                 grant : SUBSET Hosts, b : Launches \cup {R!None}]
PanelType == [at : {"none", "check", "launch", "go"}, host : Hosts \cup {R!Blank}, js : BOOLEAN, limited : BOOLEAN,
              grant : SUBSET Hosts, b : Launches \cup {R!None}]

Unnumbered(s) == \A e \in R!AllElements : s.tags[e] = 0
\* A process: what it lists is on its page, its grants were given, it is somebody's, and numbers nothing before it runs.
SessionOK(s) ==
  /\ s \in SessionType /\ s.grant \subseteq everGranted /\ s.shown \subseteq R!ElementsOf(s.page)
  /\ s.st \in {"launching", "open"} => s.conv \in Talks
  /\ s.st = "launching" => Unnumbered(s)
\* A call, and the person's "Open browser", hold a process of their own conversation, the one they launch or act in.
Owned(c, b) ==
  b # R!None => chromium[b].st # "none" /\ (chromium[b].st \in {"launching", "open"} => chromium[b].conv = c)
CallOK(k, q) ==
  /\ q \in ToolCallType /\ q.grant \subseteq everGranted /\ Owned(k[1], q.b)
  /\ q.at \in {"launch", "go", "observe"} => q.b \in Launches
  /\ q.at \in {"check", "restart", "launch", "go"} => q.host \in Hosts
  /\ q.at = "launch" => chromium[q.b].st = "launching"
PanelOK(c, q) ==
  /\ q \in PanelType /\ q.grant \subseteq everGranted /\ Owned(c, q.b)
  /\ q.at \in {"launch", "go"} => q.b \in Launches
  /\ q.at = "launch" => chromium[q.b].st = "launching"

ValuesInv ==
  /\ jsPolicy \in BOOLEAN /\ approvals \subseteq everGranted /\ everGranted \subseteq Hosts /\ inputs \in 0 .. MaxInputs
  /\ elements \in [Talks -> [R!Refs -> R!AllElements \cup {R!Nobody}]]
  /\ lostAnswers \in BOOLEAN /\ crossedClaims \subseteq Talks /\ mistaken \in BOOLEAN
\* Until two claims cross, a conversation launches one process at a time, and none while it has one.
PoolInv ==
  /\ tab \in [Talks -> Launches \cup {R!None}]
  /\ chromium \in [Launches -> SessionType] /\ \A b \in Launches : SessionOK(chromium[b])
  /\ R!PoolIsLive
  /\ R!StraysAreCrossed
  /\ \A b \in Launches : chromium[b].st = "launching" /\ chromium[b].conv \notin crossedClaims =>
       /\ tab[chromium[b].conv] = R!None
       /\ \A d \in Launches : chromium[d].st = "launching" /\ chromium[d].conv = chromium[b].conv => d = b
CallsInv == call \in [Holders -> ToolCallType] /\ \A k \in Holders : CallOK(k, call[k])
PanelsInv == panel \in [Talks -> PanelType] /\ \A c \in Talks : PanelOK(c, panel[c])
\* A process is launched by one of them.
LaunchersInv ==
  /\ \A j, k \in Holders : j # k /\ call[j].at = "launch" /\ call[k].at = "launch" => call[j].b # call[k].b
  /\ \A k \in Holders, c \in Talks : call[k].at = "launch" /\ panel[c].at = "launch" => call[k].b # panel[c].b
  /\ \A c, d \in Talks : c # d /\ panel[c].at = "launch" /\ panel[d].at = "launch" => panel[c].b # panel[d].b
\* Until an answer is lost, the numbers on a conversation's page are those of the last list, and while a call works
\* in another process, nothing there is numbered.
ListInv ==
  lostAnswers \/
  \A c \in Talks :
    /\ call[<<c, "late">>].at = "none"
    /\ tab[c] # R!None =>
         /\ \A e \in R!AllElements, r \in R!Refs : chromium[tab[c]].tags[e] = r => elements[c][r] = e
         /\ call[<<c, "agent">>].at \in {"launch", "go", "observe"} /\ call[<<c, "agent">>].b # tab[c] => Unnumbered(chromium[tab[c]])
BrowserInv == ValuesInv /\ PoolInv /\ CallsInv /\ PanelsInv /\ LaunchersInv /\ ListInv /\ R!ActsOnWhatWasListed

-----------------------------------------------------------------------------
\* A process that is not there yet, or any more.
LEMMA GoneIsBlank == R!Gone \in SessionType /\ R!Gone.st = "none" /\ R!Gone.grant = {} /\ R!Gone.shown = {} /\ R!Gone.asked = R!Blank
                     /\ Unnumbered(R!Gone)
BY DEF R!Gone, SessionType, Unnumbered

LEMMA BrowserStart == R!Init => BrowserInv
<1> SUFFICES ASSUME R!Init  PROVE BrowserInv  OBVIOUS
<1>1. tab \in [Talks -> Launches \cup {R!None}] /\ \A c \in Talks : tab[c] = R!None  BY DEF R!Init
<1>2. chromium \in [Launches -> SessionType] /\ \A b \in Launches : chromium[b] = R!Gone  BY GoneIsBlank DEF R!Init
<1>3. R!NoToolCall \in ToolCallType /\ R!NoToolCall.at = "none" /\ R!NoToolCall.b = R!None /\ R!NoToolCall.grant = {}
  BY DEF R!NoToolCall, ToolCallType
<1>4. call \in [Holders -> ToolCallType] /\ \A k \in Holders : call[k] = R!NoToolCall  BY <1>3 DEF R!Init, Holders
<1>5. R!NoPanel \in PanelType /\ R!NoPanel.at = "none" /\ R!NoPanel.b = R!None /\ R!NoPanel.grant = {}  BY DEF R!NoPanel, PanelType
<1>6. panel \in [Talks -> PanelType] /\ \A c \in Talks : panel[c] = R!NoPanel  BY <1>5 DEF R!Init
<1>7. ValuesInv
  <2>1. elements \in [Talks -> [R!Refs -> R!AllElements \cup {R!Nobody}]]  BY DEF R!Init
  <2>2. inputs \in 0 .. MaxInputs  BY BrowserAssumption DEF R!Init
  <2> QED  BY <2>1, <2>2 DEF R!Init, ValuesInv
<1>8. PoolInv  BY <1>1, <1>2, GoneIsBlank DEF PoolInv, SessionOK, R!PoolIsLive, R!StraysAreCrossed, R!Open
<1>9. CallsInv  BY <1>3, <1>4 DEF CallsInv, CallOK, Owned
<1>10. PanelsInv  BY <1>5, <1>6 DEF PanelsInv, PanelOK, Owned
<1>11. LaunchersInv  BY <1>3, <1>4, <1>5, <1>6 DEF LaunchersInv
<1>12. ListInv  BY <1>1, <1>3, <1>4 DEF ListInv, Holders, R!Actors
<1> QED  BY <1>7, <1>8, <1>9, <1>10, <1>11, <1>12 DEF BrowserInv, R!ActsOnWhatWasListed, R!Init

-----------------------------------------------------------------------------
(* What can happen to the processes: one goes on, one is closed, one is launched, one becomes the session.  Each      *)
(* keeps what the calls and the panel hold.                                                                           *)

HoldsOn == /\ \A k, q : CallOK(k, q) => CallOK(k, q)'
           /\ \A c, q : PanelOK(c, q) => PanelOK(c, q)'

LEMMA TuneKeeps ==
  ASSUME ValuesInv, PoolInv, NEW b \in Launches, NEW s, SessionOK(s), s.st = chromium[b].st, s.conv = chromium[b].conv,
         chromium' = [chromium EXCEPT ![b] = s], tab' = tab, crossedClaims' = crossedClaims, everGranted' = everGranted
  PROVE  PoolInv' /\ HoldsOn
<1>1. chromium' \in [Launches -> SessionType] /\ chromium'[b] = s /\ \A d \in Launches \ {b} : chromium'[d] = chromium[d]
  BY DEF PoolInv, SessionOK
<1>2. \A d \in Launches : chromium'[d].st = chromium[d].st /\ chromium'[d].conv = chromium[d].conv  BY <1>1
<1>3. \A d \in Launches : SessionOK(chromium[d])'  BY <1>1 DEF PoolInv, SessionOK
<1>4. R!PoolIsLive' /\ R!StraysAreCrossed'
  BY <1>2, BrowserAssumption DEF PoolInv, R!PoolIsLive, R!StraysAreCrossed, R!Open, R!Session, R!None
<1>5. PoolInv'  BY <1>1, <1>2, <1>3, <1>4 DEF PoolInv
<1>6. \A c, d : Owned(c, d) /\ d \in Launches \cup {R!None} => Owned(c, d)'  BY <1>2 DEF Owned
<1>7. HoldsOn  BY <1>2, <1>6 DEF HoldsOn, CallOK, PanelOK, ToolCallType, PanelType
<1> QED  BY <1>5, <1>7

LEMMA SteadyKeeps ==
  ASSUME ValuesInv, PoolInv, UNCHANGED <<tab, chromium, crossedClaims>>, everGranted \subseteq everGranted'
  PROVE  PoolInv' /\ HoldsOn
<1>1. PoolInv'  BY DEF PoolInv, SessionOK, R!PoolIsLive, R!StraysAreCrossed, R!Open, R!Session
<1> QED  BY <1>1 DEF HoldsOn, CallOK, PanelOK, Owned

LEMMA CloseKeeps ==
  ASSUME ValuesInv, PoolInv, NEW c \in Talks, R!Open(c), R!Close(c), crossedClaims' = crossedClaims, everGranted' = everGranted
  PROVE  PoolInv' /\ HoldsOn /\ \A d \in Launches : chromium'[d].asked \in {chromium[d].asked, R!Blank}
<1>0. PICK b \in Launches : b = tab[c]  BY DEF R!Open, PoolInv
<1> DEFINE s == [R!Gone EXCEPT !.st = "closed", !.policyJs = chromium[b].policyJs]
<1>1. s \in SessionType /\ s.st = "closed" /\ s.grant = {} /\ s.shown = {} /\ s.asked = R!Blank /\ SessionOK(s)
  <2>1. chromium[b].policyJs \in BOOLEAN  BY DEF PoolInv, SessionType
  <2>2. s \in SessionType /\ s.st = "closed" /\ s.grant = {} /\ s.shown = {} /\ s.asked = R!Blank  BY <2>1, GoneIsBlank DEF SessionType
  <2> QED  BY <2>2 DEF SessionOK
<1>2. tab' = [tab EXCEPT ![c] = R!None] /\ chromium' = [chromium EXCEPT ![b] = s]  BY <1>0 DEF R!Close
<1> HIDE DEF s
<1>3. /\ chromium' \in [Launches -> SessionType] /\ chromium'[b].st = "closed" /\ chromium'[b] = s
      /\ \A d \in Launches \ {b} : chromium'[d] = chromium[d]
  BY <1>1, <1>2 DEF PoolInv
<1>4. tab' \in [Talks -> Launches \cup {R!None}] /\ tab'[c] = R!None /\ \A d \in Talks \ {c} : tab'[d] = tab[d]
  BY <1>2 DEF PoolInv
<1>5. \A d \in Launches : SessionOK(chromium[d])'  BY <1>1, <1>3 DEF PoolInv, SessionOK
<1>6. chromium[b].st = "open" /\ chromium[b].conv = c  BY <1>0 DEF PoolInv, R!PoolIsLive, R!Open, R!Session
<1>7. R!PoolIsLive'
  <2> SUFFICES ASSUME NEW d \in Talks, tab'[d] # R!None  PROVE chromium'[tab'[d]].st = "open" /\ chromium'[tab'[d]].conv = d
    BY DEF R!PoolIsLive, R!Open, R!Session
  <2>1. d # c /\ tab'[d] = tab[d] /\ tab[d] \in Launches  BY <1>4
  <2>2. chromium[tab[d]].st = "open" /\ chromium[tab[d]].conv = d  BY <2>1 DEF PoolInv, R!PoolIsLive, R!Open, R!Session
  <2>3. tab[d] # b  BY <1>6, <2>1, <2>2
  <2> QED  BY <1>3, <2>1, <2>2, <2>3
<1>8. R!StraysAreCrossed'
  <2> SUFFICES ASSUME NEW d \in Launches, chromium'[d].st = "open"
               PROVE  tab'[chromium'[d].conv] = d \/ chromium'[d].conv \in crossedClaims'
    BY DEF R!StraysAreCrossed
  <2>1. d # b /\ chromium'[d] = chromium[d] /\ chromium[d].conv \in Talks  BY <1>3 DEF PoolInv, SessionOK
  <2>2. tab[chromium[d].conv] = d \/ chromium[d].conv \in crossedClaims  BY <2>1 DEF PoolInv, R!StraysAreCrossed
  <2> QED  BY <1>0, <1>4, <2>1, <2>2
<1>9. ASSUME NEW d \in Launches, chromium'[d].st = "launching", chromium'[d].conv \notin crossedClaims
      PROVE  /\ tab'[chromium'[d].conv] = R!None
             /\ \A e \in Launches : chromium'[e].st = "launching" /\ chromium'[e].conv = chromium'[d].conv => e = d
  <2>1. d # b /\ chromium'[d] = chromium[d] /\ chromium[d].conv \in Talks  BY <1>3, <1>9 DEF PoolInv, SessionOK
  <2>2. tab[chromium[d].conv] = R!None  BY <1>9, <2>1 DEF PoolInv
  <2>3. tab'[chromium'[d].conv] = R!None  BY <1>4, <2>1, <2>2
  <2>4. \A e \in Launches : chromium'[e].st = "launching" => chromium'[e] = chromium[e]  BY <1>3
  <2> QED  BY <1>9, <2>1, <2>3, <2>4 DEF PoolInv
<1>10. PoolInv'  BY <1>3, <1>4, <1>5, <1>7, <1>8, <1>9 DEF PoolInv
<1>11. \A x, d : Owned(x, d) /\ d \in Launches \cup {R!None} => Owned(x, d)'  BY <1>3 DEF Owned
<1>12. \A d \in Launches : chromium[d].st = "launching" => chromium'[d].st = "launching"  BY <1>3, <1>6
<1>13. HoldsOn  BY <1>11, <1>12 DEF HoldsOn, CallOK, PanelOK, ToolCallType, PanelType
<1>14. \A d \in Launches : chromium'[d].asked \in {chromium[d].asked, R!Blank}  BY <1>1, <1>3
<1> QED  BY <1>10, <1>13, <1>14

LEMMA LaunchKeeps ==
  ASSUME ValuesInv, PoolInv, NEW c \in Talks, NEW b \in Launches, NEW js \in BOOLEAN, NEW limited \in BOOLEAN,
         NEW grant \in SUBSET everGranted, NEW override \in BOOLEAN, R!Launch(c, b, js, limited, grant, override),
         tab' = tab, everGranted' = everGranted
  PROVE  /\ PoolInv' /\ HoldsOn /\ crossedClaims' \subseteq Talks
         /\ chromium[b].st = "none" /\ chromium'[b].st = "launching" /\ chromium'[b].conv = c
         /\ chromium'[b].asked = R!Blank
         /\ \A d \in Launches \ {b} : chromium'[d] = chromium[d]
<1> DEFINE s == [R!Gone EXCEPT !.st = "launching", !.conv = c, !.js = js, !.policyJs = js, !.limited = limited, !.grant = grant,
                           !.override = override]
<1>0. grant \in SUBSET Hosts  BY DEF ValuesInv
<1>1. s.st = "launching" /\ s.conv = c /\ s.grant = grant /\ s.shown = {} /\ s.tags = R!Gone.tags /\ s.asked = R!Blank  BY DEF R!Gone
<1>1a. s \in SessionType  BY <1>0, GoneIsBlank DEF SessionType, R!Gone
<1>2. chromium' = [chromium EXCEPT ![b] = s] /\ chromium[b].st = "none"  BY DEF R!Launch
<1>2a. ~R!Open(c) /\ crossedClaims' = IF R!Launching(c) = {} THEN crossedClaims ELSE crossedClaims \cup {c}  BY DEF R!Launch
<1> HIDE DEF s
<1>3. SessionOK(s)  BY <1>1, <1>1a, GoneIsBlank DEF SessionOK, Unnumbered
<1>4. /\ chromium' \in [Launches -> SessionType] /\ chromium'[b] = s
      /\ \A d \in Launches \ {b} : chromium'[d] = chromium[d]
  BY <1>1a, <1>2 DEF PoolInv
<1>5. \A d \in Launches : SessionOK(chromium[d])'  BY <1>3, <1>4 DEF PoolInv, SessionOK
<1>6. R!PoolIsLive'
  <2> SUFFICES ASSUME NEW d \in Talks, tab[d] # R!None  PROVE chromium'[tab[d]].st = "open" /\ chromium'[tab[d]].conv = d
    BY DEF R!PoolIsLive, R!Open, R!Session
  <2>1. tab[d] \in Launches /\ chromium[tab[d]].st = "open" /\ chromium[tab[d]].conv = d
    BY DEF PoolInv, R!PoolIsLive, R!Open, R!Session
  <2> QED  BY <1>2, <1>4, <2>1
<1>7. crossedClaims \subseteq crossedClaims' /\ crossedClaims' \subseteq Talks  BY <1>2a DEF ValuesInv
<1>8. R!StraysAreCrossed'  BY <1>1, <1>4, <1>7 DEF PoolInv, R!StraysAreCrossed
<1>9. ASSUME NEW d \in Launches, chromium'[d].st = "launching", chromium'[d].conv \notin crossedClaims'
      PROVE  /\ tab'[chromium'[d].conv] = R!None
             /\ \A e \in Launches : chromium'[e].st = "launching" /\ chromium'[e].conv = chromium'[d].conv => e = d
  <2>1. tab[c] = R!None  BY <1>2a DEF R!Open
  <2>2. \A e \in Launches : chromium[e].st = "launching" /\ chromium[e].conv = c => c \in crossedClaims'
    BY <1>2a DEF R!Launching
  <2>3. CASE d = b
    <3>1. \A e \in Launches : chromium'[e].st = "launching" /\ chromium'[e].conv = c => e = b
      BY <1>1, <1>4, <1>9, <2>2, <2>3
    <3> QED  BY <1>1, <1>4, <2>1, <2>3, <3>1
  <2>4. CASE d # b
    <3>1. chromium'[d] = chromium[d] /\ chromium[d].conv # c  BY <1>4, <1>9, <2>2, <2>4
    <3>2. \A e \in Launches : chromium'[e].conv = chromium[d].conv => chromium'[e] = chromium[e]  BY <1>1, <1>4, <3>1
    <3> QED  BY <1>7, <1>9, <3>1, <3>2 DEF PoolInv
  <2> QED  BY <2>3, <2>4
<1>10. PoolInv'  BY <1>4, <1>5, <1>6, <1>8, <1>9 DEF PoolInv
<1>11. \A d \in Launches : chromium[d].st = "launching" => chromium'[d] = chromium[d]  BY <1>2, <1>4
<1>12. ASSUME NEW x, NEW d \in Launches \cup {R!None}, Owned(x, d)  PROVE Owned(x, d)'
  <2>1. d # R!None => d # b  BY <1>2, <1>12 DEF Owned
  <2> QED  BY <1>4, <1>12, <2>1 DEF Owned
<1>13. HoldsOn  BY <1>11, <1>12 DEF HoldsOn, CallOK, PanelOK, ToolCallType, PanelType
<1> QED  BY <1>1, <1>2, <1>4, <1>7, <1>10, <1>13

LEMMA EnterKeeps ==
  ASSUME ValuesInv, PoolInv, NEW c \in Talks, NEW b \in Launches, NEW s, SessionOK(s), s.st = "open", s.conv = c,
         chromium[b].st = "launching", chromium[b].conv = c,
         chromium' = [chromium EXCEPT ![b] = s], tab' = [tab EXCEPT ![c] = b],
         crossedClaims' = crossedClaims, everGranted' = everGranted
  PROVE  /\ PoolInv'
         /\ \A k, q : CallOK(k, q) /\ ~(q.at = "launch" /\ q.b = b) => CallOK(k, q)'
         /\ \A d, q : PanelOK(d, q) /\ ~(q.at = "launch" /\ q.b = b) => PanelOK(d, q)'
<1>1. /\ chromium' \in [Launches -> SessionType] /\ chromium'[b] = s
      /\ \A d \in Launches \ {b} : chromium'[d] = chromium[d]
  BY DEF PoolInv, SessionOK
<1>2. tab' \in [Talks -> Launches \cup {R!None}] /\ tab'[c] = b /\ \A d \in Talks \ {c} : tab'[d] = tab[d]
  BY DEF PoolInv
<1>3. \A d \in Launches : SessionOK(chromium[d])'  BY <1>1 DEF PoolInv, SessionOK
<1>4. R!PoolIsLive'
  <2> SUFFICES ASSUME NEW d \in Talks, tab'[d] # R!None  PROVE chromium'[tab'[d]].st = "open" /\ chromium'[tab'[d]].conv = d
    BY DEF R!PoolIsLive, R!Open, R!Session
  <2>1. CASE d = c  BY <1>1, <1>2, <2>1
  <2>2. CASE d # c
    <3>1. tab'[d] = tab[d] /\ tab[d] \in Launches  BY <1>2, <2>2
    <3>2. chromium[tab[d]].st = "open" /\ chromium[tab[d]].conv = d  BY <3>1 DEF PoolInv, R!PoolIsLive, R!Open, R!Session
    <3> QED  BY <1>1, <3>1, <3>2
  <2> QED  BY <2>1, <2>2
<1>5. c \notin crossedClaims => tab[c] = R!None  BY DEF PoolInv
<1>6. R!StraysAreCrossed'
  <2> SUFFICES ASSUME NEW d \in Launches, chromium'[d].st = "open"
               PROVE  tab'[chromium'[d].conv] = d \/ chromium'[d].conv \in crossedClaims'
    BY DEF R!StraysAreCrossed
  <2>1. CASE d = b  BY <1>1, <1>2, <2>1
  <2>2. CASE d # b
    <3>1. chromium'[d] = chromium[d] /\ chromium[d].conv \in Talks /\ d # R!None
      BY <1>1, <2>2, BrowserAssumption DEF PoolInv, SessionOK, R!None
    <3>2. tab[chromium[d].conv] = d \/ chromium[d].conv \in crossedClaims  BY <3>1 DEF PoolInv, R!StraysAreCrossed
    <3> QED  BY <1>2, <1>5, <3>1, <3>2
  <2> QED  BY <2>1, <2>2
<1>7. ASSUME NEW d \in Launches, chromium'[d].st = "launching", chromium'[d].conv \notin crossedClaims
      PROVE  /\ tab'[chromium'[d].conv] = R!None
             /\ \A e \in Launches : chromium'[e].st = "launching" /\ chromium'[e].conv = chromium'[d].conv => e = d
  <2>1. d # b /\ chromium'[d] = chromium[d] /\ chromium[d].conv \in Talks  BY <1>1, <1>7 DEF PoolInv, SessionOK
  <2>2. tab[chromium[d].conv] = R!None /\ chromium[d].conv # c  BY <1>7, <2>1 DEF PoolInv
  <2>3. \A e \in Launches : chromium'[e].st = "launching" => chromium'[e] = chromium[e]  BY <1>1
  <2> QED  BY <1>2, <1>7, <2>1, <2>2, <2>3 DEF PoolInv
<1>8. PoolInv'  BY <1>1, <1>2, <1>3, <1>4, <1>6, <1>7 DEF PoolInv
<1>9. \A x, d : Owned(x, d) /\ d \in Launches \cup {R!None} => Owned(x, d)'
  <2> SUFFICES ASSUME NEW x, NEW d \in Launches \cup {R!None}, Owned(x, d)  PROVE Owned(x, d)'  OBVIOUS
  <2>1. CASE d = b  BY <1>1, <2>1, BrowserAssumption DEF Owned, R!None
  <2>2. CASE d # b  BY <1>1, <2>2 DEF Owned
  <2> QED  BY <2>1, <2>2
<1>10. \A d \in Launches \ {b} : chromium'[d] = chromium[d]  BY <1>1
<1>11. /\ \A k, q : CallOK(k, q) /\ ~(q.at = "launch" /\ q.b = b) => CallOK(k, q)'
       /\ \A d, q : PanelOK(d, q) /\ ~(q.at = "launch" /\ q.b = b) => PanelOK(d, q)'
  BY <1>9, <1>10 DEF CallOK, PanelOK, ToolCallType, PanelType
<1> QED  BY <1>8, <1>11

-----------------------------------------------------------------------------
(* What is done to a page *)

LEMMA PolicyOK == ASSUME NEW s, SessionOK(s), NEW js \in BOOLEAN, NEW grant \in SUBSET everGranted, everGranted \subseteq Hosts
                  PROVE  LET t == R!applyCallPolicy(s, js, grant)
                         IN SessionOK(t) /\ t.st = s.st /\ t.conv = s.conv /\ t.tags = s.tags /\ t.approved = s.approved
                            /\ t.page = s.page /\ t.asked = s.asked
<1>1. s \in SessionType /\ grant \in SUBSET Hosts  BY DEF SessionOK
<1> DEFINE t == R!applyCallPolicy(s, js, grant)
<1>2. t = [s EXCEPT !.limited = TRUE, !.grant = grant, !.override = TRUE, !.policyJs = js]  BY DEF R!applyCallPolicy
<1>3. /\ t \in SessionType /\ t.st = s.st /\ t.conv = s.conv /\ t.tags = s.tags /\ t.approved = s.approved /\ t.page = s.page /\ t.asked = s.asked
      /\ t.grant = grant /\ t.shown = s.shown
  BY <1>1, <1>2 DEF SessionType
<1> HIDE DEF t
<1>4. SessionOK(t)  BY <1>3 DEF SessionOK, Unnumbered
<1> QED  BY <1>3, <1>4 DEF t

LEMMA JoinedOK == ASSUME ValuesInv, NEW s, SessionOK(s), NEW k \in Holders, CallOK(k, call[k]), call[k].host \in Hosts
                  PROVE  LET t == R!Joined(s, k)
                         IN SessionOK(t) /\ t.st = s.st /\ t.conv = s.conv /\ t.tags = s.tags /\ t.page = s.page /\ t.asked = s.asked
<1>1. call[k].js \in BOOLEAN /\ call[k].grant \in SUBSET everGranted /\ everGranted \subseteq Hosts
  BY DEF CallOK, ToolCallType, ValuesInv
<1>2. PICK p : p = R!applyCallPolicy(s, call[k].js, call[k].grant)  OBVIOUS
<1>3. SessionOK(p) /\ p.st = s.st /\ p.conv = s.conv /\ p.tags = s.tags /\ p.page = s.page /\ p.asked = s.asked  BY <1>1, <1>2, PolicyOK
<1> DEFINE t == R!Joined(s, k)
<1>4. PICK a \in SUBSET Hosts : a = p.approved \cup {call[k].host}  BY <1>3 DEF SessionOK, SessionType
<1>5. t = [p EXCEPT !.approved = a]  BY <1>2, <1>4 DEF R!Joined
<1>6. p \in SessionType  BY <1>3 DEF SessionOK
<1>7. /\ t \in SessionType /\ t.st = p.st /\ t.conv = p.conv /\ t.tags = p.tags /\ t.grant = p.grant /\ t.shown = p.shown
      /\ t.page = p.page /\ t.asked = p.asked
  BY <1>5, <1>6 DEF SessionType
<1> HIDE DEF t
<1>8. SessionOK(t)  BY <1>3, <1>7 DEF SessionOK, Unnumbered
<1> QED  BY <1>3, <1>7, <1>8 DEF t

LEMMA LoadOK == ASSUME NEW s, SessionOK(s), NEW h \in Hosts, NEW to \in Hosts
                PROVE  LET t == R!Load(s, h, to)
                       IN SessionOK(t) /\ t.st = s.st /\ t.conv = s.conv /\ Unnumbered(t) /\ t.asked = h
<1> DEFINE z == [e \in R!AllElements |-> 0]
           t == R!Load(s, h, to)
<1>1. R!ElementsOf(to) \in SUBSET R!AllElements /\ z \in [R!AllElements -> 0 .. 2] /\ \A e \in R!AllElements : z[e] = 0
  BY DEF R!AllElements
<1>2. t = [s EXCEPT !.asked = h, !.page = to, !.shown = R!ElementsOf(to), !.tags = z]  BY DEF R!Load
<1>3. s \in SessionType  BY DEF SessionOK
<1> HIDE DEF z, t
<1>4. PICK o \in SUBSET R!AllElements : o = R!ElementsOf(to)  BY <1>1
<1>5. /\ t \in SessionType /\ t.st = s.st /\ t.conv = s.conv /\ t.tags = z /\ t.asked = h /\ t.page = to /\ t.shown = R!ElementsOf(to)
      /\ t.grant = s.grant
  BY <1>1, <1>2, <1>3, <1>4 DEF SessionType
<1>6. SessionOK(t) /\ Unnumbered(t)  BY <1>1, <1>5 DEF SessionOK, Unnumbered
<1> QED  BY <1>5, <1>6 DEF t

\* The places of what is shown are two at most, and none is of two elements.
LEMMA PlacesApart == ASSUME NEW s, SessionOK(s)
                     PROVE  /\ s.shown \subseteq R!AllElements
                            /\ \A e \in s.shown : R!Place(s, e) \in R!Refs
                            /\ \A e, f \in s.shown : R!Place(s, e) = R!Place(s, f) => e = f
<1>1. s.shown \subseteq R!AllElements  BY DEF SessionOK, SessionType
<1>2. PICK h : s.shown \subseteq {<<h, 1>>, <<h, 2>>}
  <2>1. s.shown \subseteq R!ElementsOf(s.page)  BY DEF SessionOK
  <2>2. R!ElementsOf(s.page) \subseteq {<<s.page, 1>>, <<s.page, 2>>}  BY DEF R!ElementsOf, R!Refs
  <2> QED  BY <2>1, <2>2
<1>3. /\ R!Cardinality({<<h, 1>>}) = 1 /\ R!Cardinality({<<h, 2>>}) = 1
      /\ R!Cardinality({<<h, 1>>, <<h, 2>>}) = 2
  <2>1. <<h, 1>> # <<h, 2>>  OBVIOUS
  <2>2. \A x : IsFiniteSet({x}) /\ Cardinality({x}) = 1  BY FS_Singleton
  <2>3. {<<h, 1>>, <<h, 2>>} = {<<h, 1>>} \cup {<<h, 2>>}  OBVIOUS
  <2>4. Cardinality({<<h, 1>>} \cup {<<h, 2>>}) = 2
    <3>1. PICK a, b : a = <<h, 1>> /\ b = <<h, 2>> /\ a # b  BY <2>1
    <3>2. IsFiniteSet({a}) /\ Cardinality({a}) = 1 /\ b \notin {a}  BY <2>2, <3>1
    <3>3. Cardinality({a} \cup {b}) = Cardinality({a}) + 1  BY <3>2, FS_AddElement
    <3>4. Cardinality({a} \cup {b}) = 2  BY <3>2, <3>3
    <3> QED  BY <3>1, <3>4
  <2>5. \A z : R!Cardinality(z) = Cardinality(z)  BY DEF R!Cardinality, Cardinality
  <2> QED  BY <2>2, <2>3, <2>4, <2>5
<1>4. <<h, 1>> \in s.shown => R!Place(s, <<h, 1>>) = 1
  <2> SUFFICES ASSUME <<h, 1>> \in s.shown  PROVE R!Place(s, <<h, 1>>) = 1  OBVIOUS
  <2>1. {f \in s.shown : f[2] <= <<h, 1>>[2]} = {<<h, 1>>}  BY <1>2
  <2> QED  BY <1>3, <2>1 DEF R!Place
<1>5. <<h, 2>> \in s.shown => R!Place(s, <<h, 2>>) = IF <<h, 1>> \in s.shown THEN 2 ELSE 1
  <2> SUFFICES ASSUME <<h, 2>> \in s.shown  PROVE R!Place(s, <<h, 2>>) = IF <<h, 1>> \in s.shown THEN 2 ELSE 1  OBVIOUS
  <2>1. CASE <<h, 1>> \in s.shown
    <3>1. {f \in s.shown : f[2] <= <<h, 2>>[2]} = {<<h, 1>>, <<h, 2>>}  BY <1>2, <2>1
    <3> QED  BY <1>3, <2>1, <3>1 DEF R!Place
  <2>2. CASE <<h, 1>> \notin s.shown
    <3>1. {f \in s.shown : f[2] <= <<h, 2>>[2]} = {<<h, 2>>}  BY <1>2, <2>2
    <3> QED  BY <1>3, <2>2, <3>1 DEF R!Place
  <2> QED  BY <2>1, <2>2
<1> QED  BY <1>1, <1>2, <1>4, <1>5 DEF R!Refs

LEMMA NumberOK == ASSUME NEW s, SessionOK(s), s.st = "open"
                  PROVE  /\ LET t == [s EXCEPT !.tags = R!Number(s)]
                            IN SessionOK(t) /\ t.st = s.st /\ t.conv = s.conv /\ t.tags = R!Number(s) /\ t.page = s.page /\ t.asked = s.asked
                         /\ R!Listed(s) \in [R!Refs -> R!AllElements \cup {R!Nobody}]
                         /\ \A e \in R!AllElements, r \in R!Refs : R!Number(s)[e] = r => R!Listed(s)[r] = e
<1>1. R!Number(s) \in [R!AllElements -> 0 .. 2]  BY PlacesApart DEF R!Number, R!Refs
<1> DEFINE t == [s EXCEPT !.tags = R!Number(s)]
<1>2. PICK n \in [R!AllElements -> 0 .. 2] : n = R!Number(s)  BY <1>1
<1>3. t = [s EXCEPT !.tags = n] /\ s \in SessionType  BY <1>2 DEF SessionOK
<1>4. /\ t \in SessionType /\ t.st = s.st /\ t.conv = s.conv /\ t.tags = R!Number(s) /\ t.page = s.page /\ t.asked = s.asked /\ t.shown = s.shown
      /\ t.grant = s.grant
  BY <1>2, <1>3 DEF SessionType
<1> HIDE DEF t
<1>5. SessionOK(t)  BY <1>4 DEF SessionOK
<1>6. \A r \in R!Refs : R!Listed(s)[r] = IF \E e \in s.shown : R!Place(s, e) = r
                                         THEN CHOOSE e \in s.shown : R!Place(s, e) = r ELSE R!Nobody
  BY DEF R!Listed
<1>7. \A r \in R!Refs : R!Listed(s)[r] \in R!AllElements \cup {R!Nobody}  BY <1>6, PlacesApart
<1>8. R!Listed(s) \in [R!Refs -> R!AllElements \cup {R!Nobody}]
  BY <1>7 DEF R!Listed
<1>9. ASSUME NEW e \in R!AllElements, NEW r \in R!Refs, R!Number(s)[e] = r  PROVE R!Listed(s)[r] = e
  <2>1. e \in s.shown /\ R!Place(s, e) = r  BY <1>9 DEF R!Number, R!Refs
  <2>2. PICK f \in s.shown : R!Place(s, f) = r /\ R!Listed(s)[r] = f  BY <1>6, <2>1
  <2> QED  BY <2>1, <2>2, PlacesApart
<1> QED  BY <1>4, <1>5, <1>8, <1>9 DEF t

-----------------------------------------------------------------------------
(* The calls and the panel, one of which goes on while the others hold what they held *)

LEMMA CallSteps ==
  ASSUME CallsInv, PanelsInv, LaunchersInv, PoolInv, HoldsOn, NEW k \in Holders, NEW q, CallOK(k, q)',
         call' = [call EXCEPT ![k] = q], panel' = panel,
         q.at = "launch" => (call[k].at = "launch" /\ call[k].b = q.b) \/ chromium[q.b].st = "none"
  PROVE  CallsInv' /\ PanelsInv' /\ LaunchersInv'
<1>1. q \in ToolCallType  BY DEF CallOK
<1>2. /\ call' \in [Holders -> ToolCallType] /\ call'[k] = q
      /\ \A j \in Holders \ {k} : call'[j] = call[j]
  BY <1>1 DEF CallsInv
<1>3. CallsInv'
  <2>1. \A j \in Holders : CallOK(j, call[j])'
    <3> TAKE j \in Holders
    <3>1. CASE j = k  BY <1>2, <3>1 DEF CallOK, Owned
    <3>2. CASE j # k
      <4>1. CallOK(j, call[j])  BY DEF CallsInv
      <4>2. PICK o : o = call[j]  OBVIOUS
      <4>3. CallOK(j, o)'  BY <4>1, <4>2 DEF HoldsOn
      <4> QED  BY <1>2, <3>2, <4>2, <4>3 DEF CallOK, Owned
    <3> QED  BY <3>1, <3>2
  <2> QED  BY <1>2, <2>1 DEF CallsInv
<1>4. PanelsInv'
  <2>1. \A c \in Talks : PanelOK(c, panel[c])'
    <3> TAKE c \in Talks
    <3>1. PICK o : o = panel[c]  OBVIOUS
    <3>2. PanelOK(c, o)'  BY <3>1 DEF HoldsOn, PanelsInv
    <3> QED  BY <3>1, <3>2 DEF PanelOK, Owned
  <2> QED  BY <2>1 DEF PanelsInv
<1>5. LaunchersInv'
  <2>1. \A j \in Holders : call[j].at = "launch" => chromium[call[j].b].st = "launching"  BY DEF CallsInv, CallOK
  <2>2. \A c \in Talks : panel[c].at = "launch" => chromium[panel[c].b].st = "launching"  BY DEF PanelsInv, PanelOK
  <2>3. ASSUME NEW j \in Holders, j # k, q.at = "launch", call[j].at = "launch"  PROVE call[j].b # q.b
    BY <2>1, <2>3 DEF LaunchersInv
  <2>4. ASSUME NEW c \in Talks, q.at = "launch", panel[c].at = "launch"  PROVE panel[c].b # q.b
    BY <2>2, <2>4 DEF LaunchersInv
  <2> QED  BY <1>2, <2>3, <2>4 DEF LaunchersInv
<1> QED  BY <1>3, <1>4, <1>5

LEMMA PanelSteps ==
  ASSUME CallsInv, PanelsInv, LaunchersInv, PoolInv, HoldsOn, NEW c \in Talks, NEW q, PanelOK(c, q)',
         panel' = [panel EXCEPT ![c] = q], call' = call,
         q.at = "launch" => chromium[q.b].st = "none"
  PROVE  CallsInv' /\ PanelsInv' /\ LaunchersInv'
<1>1. q \in PanelType  BY DEF PanelOK
<1>2. /\ panel' \in [Talks -> PanelType] /\ panel'[c] = q
      /\ \A d \in Talks \ {c} : panel'[d] = panel[d]
  BY <1>1 DEF PanelsInv
<1>3. PanelsInv'
  <2>1. \A d \in Talks : PanelOK(d, panel[d])'
    <3> TAKE d \in Talks
    <3>1. CASE d = c  BY <1>2, <3>1 DEF PanelOK, Owned
    <3>2. CASE d # c
      <4>1. PICK o : o = panel[d]  OBVIOUS
      <4>2. PanelOK(d, o)'  BY <4>1 DEF HoldsOn, PanelsInv
      <4> QED  BY <1>2, <3>2, <4>1, <4>2 DEF PanelOK, Owned
    <3> QED  BY <3>1, <3>2
  <2> QED  BY <1>2, <2>1 DEF PanelsInv
<1>4. CallsInv'
  <2>1. \A j \in Holders : CallOK(j, call[j])'
    <3> TAKE j \in Holders
    <3>1. PICK o : o = call[j]  OBVIOUS
    <3>2. CallOK(j, o)'  BY <3>1 DEF HoldsOn, CallsInv
    <3> QED  BY <3>1, <3>2 DEF CallOK, Owned
  <2> QED  BY <2>1 DEF CallsInv
<1>5. LaunchersInv'
  <2>1. \A j \in Holders : call[j].at = "launch" => chromium[call[j].b].st = "launching"  BY DEF CallsInv, CallOK
  <2>2. \A d \in Talks : panel[d].at = "launch" => chromium[panel[d].b].st = "launching"  BY DEF PanelsInv, PanelOK
  <2>3. \A j \in Holders : q.at = "launch" /\ call[j].at = "launch" => call[j].b # q.b  BY <2>1
  <2>4. \A d \in Talks : q.at = "launch" /\ panel[d].at = "launch" => panel[d].b # q.b  BY <2>2
  <2> QED  BY <1>2, <2>3, <2>4 DEF LaunchersInv
<1> QED  BY <1>3, <1>4, <1>5

LEMMA NobodySteps ==
  ASSUME CallsInv, PanelsInv, LaunchersInv, HoldsOn, call' = call, panel' = panel
  PROVE  CallsInv' /\ PanelsInv' /\ LaunchersInv'
<1>1. \A j \in Holders : CallOK(j, call[j])'
  <2> TAKE j \in Holders
  <2>1. PICK o : o = call[j]  OBVIOUS
  <2>2. CallOK(j, o)'  BY <2>1 DEF HoldsOn, CallsInv
  <2> QED  BY <2>1, <2>2 DEF CallOK, Owned
<1>2. \A c \in Talks : PanelOK(c, panel[c])'
  <2> TAKE c \in Talks
  <2>1. PICK o : o = panel[c]  OBVIOUS
  <2>2. PanelOK(c, o)'  BY <2>1 DEF HoldsOn, PanelsInv
  <2> QED  BY <2>1, <2>2 DEF PanelOK, Owned
<1> QED  BY <1>1, <1>2 DEF CallsInv, PanelsInv, LaunchersInv

\* The numbers on the page are those of the last list still, or there are none.
LEMMA ListSteps ==
  ASSUME ListInv, lostAnswers' = lostAnswers, elements' = elements,
         lostAnswers \/
         \A c \in Talks :
           /\ call'[<<c, "late">>].at = "none"
           /\ tab'[c] # R!None =>
                \/ Unnumbered(chromium'[tab'[c]])
                \/ /\ tab'[c] = tab[c] /\ chromium'[tab[c]].tags = chromium[tab[c]].tags
                   /\ \/ call'[<<c, "agent">>] = call[<<c, "agent">>]
                      \/ call'[<<c, "agent">>].at \notin {"launch", "go", "observe"}
                      \/ call'[<<c, "agent">>].b = tab[c]
                      \/ call[<<c, "agent">>].at \in {"launch", "go", "observe"} /\ call'[<<c, "agent">>].b = call[<<c, "agent">>].b
  PROVE  ListInv'
BY DEF ListInv, Unnumbered, R!Refs

\* Only a call whose answer was lost is late.
LEMMA LateIsLost == ASSUME ListInv, NEW k \in Holders, call[k].at # "none"
                    PROVE  lostAnswers \/ (k = <<k[1], "agent">> /\ k[1] \in Talks)
<1>1. PICK c \in Talks, a \in {"agent", "late"} : k = <<c, a>>  BY DEF Holders, R!Actors
<1>2. CASE a = "agent"  BY <1>1, <1>2
<1>3. CASE a = "late"  BY <1>1, <1>3 DEF ListInv
<1> QED  BY <1>1, <1>2, <1>3

-----------------------------------------------------------------------------
(* The steps *)

Busy == {"launch", "go", "observe"}
Settled == /\ UNCHANGED <<jsPolicy, approvals, everGranted, elements, lostAnswers>>
           /\ inputs' \in 0 .. MaxInputs /\ mistaken' \in BOOLEAN /\ (mistaken' => mistaken \/ lostAnswers)
\* A call goes on: where its answer is awaited, in the session or in the process it worked in.
GoesOn(k, q) ==
  lostAnswers \/ \E c \in Talks : /\ k = <<c, "agent">>
                                  /\ \/ q.at \notin Busy \/ q.b = tab[c] \/ tab'[c] = R!None
                                     \/ call[k].at \in Busy /\ q.b = call[k].b

LEMMA SettledKeeps == ASSUME ValuesInv, R!ActsOnWhatWasListed, Settled, crossedClaims' \subseteq Talks
                      PROVE  ValuesInv' /\ R!ActsOnWhatWasListed'
BY DEF ValuesInv, Settled, R!ActsOnWhatWasListed

\* A session or another process goes on, with or without a call.
LEMMA TunedKeeps ==
  ASSUME BrowserInv, Settled, NEW b \in Launches, NEW s, SessionOK(s), s.st = chromium[b].st, s.conv = chromium[b].conv,
         s.tags = chromium[b].tags \/ Unnumbered(s),
         s.asked = chromium[b].asked \/ (s.asked \in Hosts /\ R!checkNavigation(chromium[b], s.asked)),
         chromium' = [chromium EXCEPT ![b] = s], UNCHANGED <<tab, panel, crossedClaims>>,
         \/ call' = call
         \/ \E k \in Holders : \E q : call' = [call EXCEPT ![k] = q] /\ CallOK(k, q) /\ q.at # "launch" /\ GoesOn(k, q)
  PROVE  BrowserInv' /\ R!NavigationsWereAllowed
<1>1. ValuesInv /\ PoolInv /\ CallsInv /\ PanelsInv /\ LaunchersInv /\ ListInv /\ R!ActsOnWhatWasListed  BY DEF BrowserInv
<1>2. UNCHANGED <<everGranted, elements, lostAnswers>>  BY DEF Settled
<1>3. PoolInv' /\ HoldsOn  BY <1>1, <1>2, TuneKeeps
<1>4. ValuesInv' /\ R!ActsOnWhatWasListed'  BY <1>1, SettledKeeps DEF ValuesInv
<1>5. /\ chromium'[b] = s /\ \A d \in Launches \ {b} : chromium'[d] = chromium[d]  BY <1>1 DEF PoolInv
<1>6. \A c \in Talks : tab[c] # R!None => \/ Unnumbered(chromium'[tab[c]])
                                          \/ chromium'[tab[c]].tags = chromium[tab[c]].tags
  BY <1>1, <1>5 DEF PoolInv
<1>7. CallsInv' /\ PanelsInv' /\ LaunchersInv' /\ ListInv'
  <2>1. CASE call' = call
    <3>1. CallsInv' /\ PanelsInv' /\ LaunchersInv'  BY <1>1, <1>3, <2>1, NobodySteps
    <3>2. lostAnswers \/ \A c \in Talks : call'[<<c, "late">>].at = "none"  BY <1>1, <2>1 DEF ListInv
    <3>3. ListInv'  BY <1>1, <1>2, <1>6, <2>1, <3>2, ListSteps
    <3> QED  BY <3>1, <3>3
  <2>2. CASE \E k \in Holders : \E q : call' = [call EXCEPT ![k] = q] /\ CallOK(k, q) /\ q.at # "launch" /\ GoesOn(k, q)
    <3>0. PICK k \in Holders : \E q : call' = [call EXCEPT ![k] = q] /\ CallOK(k, q) /\ q.at # "launch" /\ GoesOn(k, q)  BY <2>2
    <3>1. PICK q : call' = [call EXCEPT ![k] = q] /\ CallOK(k, q) /\ q.at # "launch" /\ GoesOn(k, q)  BY <3>0
    <3>2. CallOK(k, q)'  BY <1>3, <3>1 DEF HoldsOn
    <3>3. CallsInv' /\ PanelsInv' /\ LaunchersInv'  BY <1>1, <1>3, <3>1, <3>2, CallSteps
    <3>4. call'[k] = q /\ \A j \in Holders \ {k} : call'[j] = call[j]  BY <1>1, <3>1 DEF CallsInv
    <3>5. CASE lostAnswers  BY <1>2, <3>3, <3>5 DEF ListInv
    <3>6. CASE ~lostAnswers
      <4>1. PICK c \in Talks : /\ k = <<c, "agent">>
                               /\ \/ q.at \notin Busy \/ q.b = tab[c] \/ tab'[c] = R!None
                                  \/ call[k].at \in Busy /\ q.b = call[k].b
        BY <3>1, <3>6 DEF GoesOn
      <4>2. \A d \in Talks : <<d, "late">> \in Holders \ {k} /\ (d # c => <<d, "agent">> \in Holders \ {k})
        BY <4>1 DEF Holders, R!Actors
      <4>3. \A d \in Talks : call'[<<d, "late">>].at = "none"  BY <1>1, <3>4, <3>6, <4>2 DEF ListInv
      <4>4. \A d \in Talks : d # c => call'[<<d, "agent">>] = call[<<d, "agent">>]  BY <3>4, <4>2
      <4>5. call'[<<c, "agent">>] = q /\ call[<<c, "agent">>] = call[k]  BY <3>4, <4>1
      <4>6. ListInv'  BY <1>1, <1>2, <1>6, <4>1, <4>3, <4>4, <4>5, ListSteps DEF Busy
      <4> QED  BY <3>3, <4>6
    <3> QED  BY <3>3, <3>5, <3>6
  <2> QED  BY <2>1, <2>2
<1>8. R!NavigationsWereAllowed
  <2>1. ASSUME chromium'[b].asked \notin {chromium[b].asked, R!Blank}, chromium[b].limited
        PROVE  chromium'[b].asked \in everGranted \cup chromium[b].approved
    <3>1. s.asked \in chromium[b].grant \cup chromium[b].approved  BY <1>5, <2>1 DEF R!checkNavigation
    <3> QED  BY <1>1, <1>5, <3>1 DEF PoolInv, SessionOK
  <2> QED  BY <1>5, <2>1 DEF R!NavigationsWereAllowed
<1> QED  BY <1>1, <1>3, <1>4, <1>7, <1>8 DEF BrowserInv

\* Nothing happens to the processes.
LEMMA CallsKeep ==
  ASSUME BrowserInv, Settled, UNCHANGED <<tab, chromium, panel, crossedClaims>>, NEW k \in Holders, NEW q,
         call' = [call EXCEPT ![k] = q], CallOK(k, q), q.at # "launch", GoesOn(k, q)
  PROVE  BrowserInv' /\ R!NavigationsWereAllowed
<1>1. ValuesInv /\ PoolInv /\ CallsInv /\ PanelsInv /\ LaunchersInv /\ ListInv /\ R!ActsOnWhatWasListed  BY DEF BrowserInv
<1>2. UNCHANGED <<everGranted, elements, lostAnswers>>  BY DEF Settled
<1>3. PoolInv' /\ HoldsOn  BY <1>1, <1>2, SteadyKeeps
<1>4. ValuesInv' /\ R!ActsOnWhatWasListed'  BY <1>1, SettledKeeps DEF ValuesInv
<1>5. CallOK(k, q)'  BY <1>3 DEF HoldsOn
<1>6. CallsInv' /\ PanelsInv' /\ LaunchersInv'  BY <1>1, <1>3, <1>5, CallSteps
<1>7. call'[k] = q /\ \A j \in Holders \ {k} : call'[j] = call[j]  BY <1>1 DEF CallsInv
<1>8. CASE lostAnswers
  <2>1. ListInv'  BY <1>2, <1>8 DEF ListInv
  <2> QED  BY <1>3, <1>4, <1>6, <2>1 DEF BrowserInv, R!NavigationsWereAllowed
<1>9. CASE ~lostAnswers
  <2>1. PICK c \in Talks : /\ k = <<c, "agent">>
                           /\ \/ q.at \notin Busy \/ q.b = tab[c] \/ tab'[c] = R!None
                              \/ call[k].at \in Busy /\ q.b = call[k].b
    BY <1>9 DEF GoesOn
  <2>2. \A d \in Talks : <<d, "late">> \in Holders \ {k} /\ (d # c => <<d, "agent">> \in Holders \ {k})
    BY <2>1 DEF Holders, R!Actors
  <2>3. \A d \in Talks : call'[<<d, "late">>].at = "none"  BY <1>1, <1>7, <1>9, <2>2 DEF ListInv
  <2>4. \A d \in Talks : d # c => call'[<<d, "agent">>] = call[<<d, "agent">>]  BY <1>7, <2>2
  <2>5. call'[<<c, "agent">>] = q /\ call[<<c, "agent">>] = call[k]  BY <1>7, <2>1
  <2>6. ListInv'  BY <1>1, <1>2, <2>1, <2>3, <2>4, <2>5, ListSteps DEF Busy
  <2> QED  BY <1>3, <1>4, <1>6, <2>6 DEF BrowserInv, R!NavigationsWereAllowed
<1> QED  BY <1>8, <1>9

LEMMA ClosingKeeps ==
  ASSUME BrowserInv, Settled, NEW c \in Talks, R!Open(c), R!Close(c), UNCHANGED <<panel, crossedClaims>>,
         \/ call' = call
         \/ \E k \in Holders : \E q : call' = [call EXCEPT ![k] = q] /\ CallOK(k, q) /\ q.at \notin Busy
                                      /\ (lostAnswers \/ \E d \in Talks : k = <<d, "agent">>)
  PROVE  BrowserInv' /\ R!NavigationsWereAllowed
<1>1. ValuesInv /\ PoolInv /\ CallsInv /\ PanelsInv /\ LaunchersInv /\ ListInv /\ R!ActsOnWhatWasListed  BY DEF BrowserInv
<1>2. UNCHANGED <<everGranted, elements, lostAnswers>>  BY DEF Settled
<1>3. PoolInv' /\ HoldsOn /\ \A d \in Launches : chromium'[d].asked \in {chromium[d].asked, R!Blank}  BY <1>1, <1>2, CloseKeeps
<1>4. ValuesInv' /\ R!ActsOnWhatWasListed'  BY <1>1, SettledKeeps DEF ValuesInv
<1>5. \A d \in Talks : tab'[d] # R!None =>
         /\ d # c /\ tab'[d] = tab[d] /\ chromium'[tab[d]] = chromium[tab[d]]
  <2> SUFFICES ASSUME NEW d \in Talks, tab'[d] # R!None
               PROVE  d # c /\ tab'[d] = tab[d] /\ chromium'[tab[d]] = chromium[tab[d]]
    OBVIOUS
  <2>1. tab' = [tab EXCEPT ![c] = R!None]  BY DEF R!Close
  <2>2. d # c /\ tab'[d] = tab[d]  BY <1>1, <2>1 DEF PoolInv
  <2>3. tab[d] \in Launches /\ tab[d] # tab[c]  BY <1>1, <2>2 DEF PoolInv, R!PoolIsLive, R!Open, R!Session
  <2>4. PICK x : chromium' = [chromium EXCEPT ![tab[c]] = x]  BY DEF R!Close
  <2>5. chromium'[tab[d]] = chromium[tab[d]]  BY <1>1, <2>3, <2>4 DEF PoolInv
  <2> QED  BY <2>2, <2>5
<1>6. CallsInv' /\ PanelsInv' /\ LaunchersInv' /\ ListInv'
  <2>1. CASE call' = call
    <3>1. CallsInv' /\ PanelsInv' /\ LaunchersInv'  BY <1>1, <1>3, <2>1, NobodySteps
    <3>2. lostAnswers \/ \A d \in Talks : call'[<<d, "late">>].at = "none"  BY <1>1, <2>1 DEF ListInv
    <3>3. ListInv'  BY <1>1, <1>2, <1>5, <2>1, <3>2, ListSteps
    <3> QED  BY <3>1, <3>3
  <2>2. CASE \E k \in Holders : \E q : call' = [call EXCEPT ![k] = q] /\ CallOK(k, q) /\ q.at \notin Busy
                                       /\ (lostAnswers \/ \E d \in Talks : k = <<d, "agent">>)
    <3>0. PICK k \in Holders : \E q : call' = [call EXCEPT ![k] = q] /\ CallOK(k, q) /\ q.at \notin Busy
                                       /\ (lostAnswers \/ \E d \in Talks : k = <<d, "agent">>)
      BY <2>2
    <3>1. PICK q : call' = [call EXCEPT ![k] = q] /\ CallOK(k, q) /\ q.at \notin Busy /\ (lostAnswers \/ \E d \in Talks : k = <<d, "agent">>)
      BY <3>0
    <3>2. CallOK(k, q)' /\ q.at # "launch"  BY <1>3, <3>1 DEF HoldsOn, Busy
    <3>3. CallsInv' /\ PanelsInv' /\ LaunchersInv'  BY <1>1, <1>3, <3>1, <3>2, CallSteps
    <3>4. call'[k] = q /\ \A j \in Holders \ {k} : call'[j] = call[j]  BY <1>1, <3>1 DEF CallsInv
    <3>5. CASE lostAnswers  BY <1>2, <3>3, <3>5 DEF ListInv
    <3>6. CASE ~lostAnswers
      <4>1. PICK d \in Talks : k = <<d, "agent">>  BY <3>1, <3>6
      <4>2. \A e \in Talks : <<e, "late">> \in Holders \ {k} /\ (e # d => <<e, "agent">> \in Holders \ {k})
        BY <4>1 DEF Holders, R!Actors
      <4>3. \A e \in Talks : call'[<<e, "late">>].at = "none"  BY <1>1, <3>4, <3>6, <4>2 DEF ListInv
      <4>4. \A e \in Talks : e # d => call'[<<e, "agent">>] = call[<<e, "agent">>]  BY <3>4, <4>2
      <4>5. call'[<<d, "agent">>] = q  BY <3>4, <4>1
      <4>6. ListInv'  BY <1>1, <1>2, <1>5, <3>1, <4>3, <4>4, <4>5, ListSteps DEF Busy
      <4> QED  BY <3>3, <4>6
    <3> QED  BY <3>5, <3>6
  <2> QED  BY <2>1, <2>2
<1>7. R!NavigationsWereAllowed  BY <1>3 DEF R!NavigationsWereAllowed
<1> QED  BY <1>1, <1>3, <1>4, <1>6, <1>7 DEF BrowserInv

-----------------------------------------------------------------------------
LEMMA InputKeeps == ASSUME ValuesInv, R!Input \/ inputs' = inputs
                    PROVE  /\ inputs' \in 0 .. MaxInputs
                           /\ UNCHANGED <<R!settings, R!record>> => Settled
<1>1. inputs' \in 0 .. MaxInputs  BY BrowserAssumption DEF R!Input, ValuesInv
<1> QED  BY <1>1 DEF R!settings, R!record, Settled, ValuesInv

LEMMA FollowKeeps == ASSUME BrowserInv, NEW b \in Launches, NEW h \in Hosts, NEW to \in Hosts, R!Follow(b, h, to)
                     PROVE  BrowserInv' /\ R!NavigationsWereAllowed
<1>1. SessionOK(chromium[b])  BY DEF BrowserInv, PoolInv
<1>2. PICK s : s = R!Load(chromium[b], h, to)  OBVIOUS
<1>3. SessionOK(s) /\ s.st = chromium[b].st /\ s.conv = chromium[b].conv /\ Unnumbered(s) /\ s.asked = h  BY <1>1, <1>2, LoadOK
<1>4. chromium' = [chromium EXCEPT ![b] = s] /\ R!checkNavigation(chromium[b], h)  BY <1>2 DEF R!Follow
<1>5. UNCHANGED <<tab, panel, crossedClaims>> /\ call' = call  BY DEF R!Follow
<1>6. Settled  BY DEF R!Follow, R!settings, R!record, Settled, BrowserInv, ValuesInv
<1> QED  BY <1>3, <1>4, <1>5, <1>6, TunedKeeps

LEMMA ChangeKeeps == ASSUME BrowserInv, NEW b \in Launches, NEW e \in R!AllElements, R!Change(b, e)
                     PROVE  BrowserInv' /\ R!NavigationsWereAllowed
<1>1. SessionOK(chromium[b]) /\ e \in R!ElementsOf(chromium[b].page)  BY DEF BrowserInv, PoolInv, R!Change
<1>2. PICK o : o = (chromium[b].shown \cup {e}) \ (chromium[b].shown \cap {e})  OBVIOUS
<1>3. o \subseteq R!AllElements /\ o \subseteq R!ElementsOf(chromium[b].page)  BY <1>1, <1>2 DEF SessionOK, SessionType
<1>4. PICK s : s = [chromium[b] EXCEPT !.shown = o]  OBVIOUS
<1>5. PICK z \in SessionType : z = chromium[b]  BY <1>1 DEF SessionOK
<1>6. s = [z EXCEPT !.shown = o]  BY <1>4, <1>5
<1>7. /\ s \in SessionType /\ s.st = z.st /\ s.conv = z.conv /\ s.tags = z.tags /\ s.page = z.page /\ s.asked = z.asked /\ s.shown = o
      /\ s.grant = z.grant
  BY <1>3, <1>6 DEF SessionType
<1>8. SessionOK(s)  BY <1>1, <1>3, <1>5, <1>7 DEF SessionOK, Unnumbered
<1>9. chromium' = [chromium EXCEPT ![b] = s]  BY <1>2, <1>4 DEF R!Change
<1>10. UNCHANGED <<tab, panel, crossedClaims>> /\ call' = call  BY DEF R!Change
<1>11. Settled  BY DEF R!Change, R!settings, R!record, Settled, BrowserInv, ValuesInv
<1> QED  BY <1>5, <1>7, <1>8, <1>9, <1>10, <1>11, TunedKeeps

LEMMA SweepKeeps == ASSUME BrowserInv, NEW c \in Talks, R!sweepIdle(c) \/ R!AskClose(c) \/ R!PanelClose(c)
                    PROVE  BrowserInv' /\ R!NavigationsWereAllowed
<1>1. R!Open(c) /\ R!Close(c) /\ UNCHANGED <<panel, crossedClaims>> /\ call' = call
  BY DEF R!sweepIdle, R!AskClose, R!PanelClose
<1>2. UNCHANGED <<R!settings, R!record>> /\ (R!Input \/ inputs' = inputs)  BY DEF R!sweepIdle, R!AskClose, R!PanelClose
<1>3. Settled  BY <1>2, InputKeeps DEF BrowserInv
<1> QED  BY <1>1, <1>3, ClosingKeeps

LEMMA AgentHolds == ASSUME NEW c \in Talks  PROVE <<c, "agent">> \in Holders /\ <<c, "agent">>[1] = c
<1>1. <<c, "agent">> \in Holders  BY DEF Holders, R!Actors
<1>2. <<c, "agent">>[1] = c  OBVIOUS
<1> QED  BY <1>1, <1>2

LEMMA OpenIsOwned == ASSUME BrowserInv, NEW c \in Talks, R!Open(c)
                     PROVE  tab[c] \in Launches /\ chromium[tab[c]].st = "open" /\ chromium[tab[c]].conv = c /\ Owned(c, tab[c])
                            /\ SessionOK(chromium[tab[c]])
BY DEF BrowserInv, PoolInv, R!PoolIsLive, R!Open, R!Session, Owned

LEMMA NoCallOK == /\ R!NoToolCall \in ToolCallType /\ R!NoToolCall.at = "none"
                  /\ \A k : CallOK(k, R!NoToolCall)
                  /\ \A k : lostAnswers \/ (\E c \in Talks : k = <<c, "agent">>) => GoesOn(k, R!NoToolCall)
<1>1. R!NoToolCall \in ToolCallType /\ R!NoToolCall.at = "none" /\ R!NoToolCall.b = R!None /\ R!NoToolCall.grant = {}
  BY DEF R!NoToolCall, ToolCallType
<1> QED  BY <1>1 DEF CallOK, Owned, GoesOn, Busy

LEMMA AskOpenKeeps == ASSUME BrowserInv, NEW c \in Talks, NEW h \in Hosts, R!AskOpen(c, h)
                      PROVE  BrowserInv' /\ R!NavigationsWereAllowed
<1> DEFINE q == [R!NoToolCall EXCEPT !.at = "check", !.host = h, !.js = jsPolicy, !.grant = approvals, !.b = tab[c]]
<1>1. /\ jsPolicy \in BOOLEAN /\ approvals \subseteq Hosts /\ approvals \subseteq everGranted /\ tab[c] \in Launches \cup {R!None}
      /\ Owned(c, tab[c])
  <2>1. tab[c] \in Launches \cup {R!None}  BY DEF BrowserInv, PoolInv
  <2>2. Owned(c, tab[c])  BY OpenIsOwned DEF R!Open, Owned
  <2> QED  BY <2>1, <2>2 DEF BrowserInv, ValuesInv
<1>2. q \in ToolCallType /\ q.at = "check" /\ q.host = h /\ q.grant = approvals /\ q.b = tab[c]
  BY <1>1 DEF R!NoToolCall, ToolCallType
<1>3. call' = [call EXCEPT ![<<c, "agent">>] = q] /\ UNCHANGED <<tab, chromium, panel, crossedClaims>>
  BY DEF R!AskOpen, R!Set
<1>4. PICK k \in Holders : k = <<c, "agent">> /\ k[1] = c  BY AgentHolds
<1> HIDE DEF q
<1>5. CallOK(k, q)  BY <1>1, <1>2, <1>4 DEF CallOK
<1>6. GoesOn(k, q)  BY <1>2, <1>4 DEF GoesOn, Busy
<1>7. UNCHANGED <<R!settings, R!record>> /\ R!Input  BY DEF R!AskOpen
<1>8. Settled  BY <1>7, InputKeeps DEF BrowserInv
<1> QED  BY <1>2, <1>3, <1>4, <1>5, <1>6, <1>8, CallsKeep

\* The policy of the session follows every call.
LEMMA TakenPolicy == ASSUME BrowserInv, NEW c \in Talks, R!Open(c), NEW x, x = R!TakePolicy(c)
                     PROVE  \E s : /\ SessionOK(s) /\ s.st = chromium[tab[c]].st /\ s.conv = chromium[tab[c]].conv
                                   /\ s.tags = chromium[tab[c]].tags /\ s.page = chromium[tab[c]].page /\ s.asked = chromium[tab[c]].asked
                                   /\ x = [chromium EXCEPT ![tab[c]] = s]
<1>1. SessionOK(chromium[tab[c]])  BY OpenIsOwned
<1>2. PICK s : s = R!applyCallPolicy(chromium[tab[c]], jsPolicy, approvals)  OBVIOUS
<1>3. jsPolicy \in BOOLEAN /\ approvals \in SUBSET everGranted /\ everGranted \subseteq Hosts  BY DEF BrowserInv, ValuesInv
<1>4. SessionOK(s) /\ s.st = chromium[tab[c]].st /\ s.conv = chromium[tab[c]].conv /\ s.tags = chromium[tab[c]].tags
      /\ s.page = chromium[tab[c]].page /\ s.asked = chromium[tab[c]].asked
  BY <1>1, <1>2, <1>3, PolicyOK
<1>5. x = [chromium EXCEPT ![tab[c]] = s]  BY <1>2 DEF R!TakePolicy
<1> QED  BY <1>4, <1>5

\* A call that works in the session.
LEMMA WorkOK == ASSUME BrowserInv, NEW c \in Talks, R!Open(c), NEW h \in Hosts \cup {R!Blank}, NEW a \in {"go", "observe"},
                       a = "go" => h \in Hosts, NEW q, q = [R!NoToolCall EXCEPT !.at = a, !.host = h, !.b = tab[c], !.grant = approvals]
                PROVE  CallOK(<<c, "agent">>, q) /\ q.at # "launch" /\ GoesOn(<<c, "agent">>, q)
<1>1. approvals \subseteq Hosts /\ approvals \subseteq everGranted /\ tab[c] \in Launches /\ Owned(c, tab[c])
  BY OpenIsOwned DEF BrowserInv, ValuesInv
<1>2. q \in ToolCallType /\ q.at = a /\ q.host = h /\ q.grant = approvals /\ q.b = tab[c]
  BY <1>1 DEF R!NoToolCall, ToolCallType
<1>3. PICK k \in Holders : k = <<c, "agent">> /\ k[1] = c  BY AgentHolds
<1>4. CallOK(k, q)  BY <1>1, <1>2, <1>3 DEF CallOK
<1>5. GoesOn(k, q)  BY <1>2, <1>3 DEF GoesOn
<1> QED  BY <1>2, <1>3, <1>4, <1>5

\* R!Blank is where no host is named.
LEMMA LookIsBlank == ASSUME NEW b \in Launches, NEW g \in SUBSET Hosts
                     PROVE  [R!NoToolCall EXCEPT !.at = "observe", !.b = b, !.grant = g]
                              = [R!NoToolCall EXCEPT !.at = "observe", !.host = R!Blank, !.b = b, !.grant = g]
<1>0. R!NoToolCall \in ToolCallType /\ R!NoToolCall.host = R!Blank  BY DEF R!NoToolCall, ToolCallType
<1>1. PICK z \in ToolCallType : z = R!NoToolCall /\ z.host = R!Blank  BY <1>0
<1>2. [z EXCEPT !.at = "observe", !.b = b, !.grant = g] = [z EXCEPT !.at = "observe", !.host = R!Blank, !.b = b, !.grant = g]
  BY <1>1 DEF ToolCallType
<1> QED  BY <1>1, <1>2

LEMMA AskObserveKeeps == ASSUME BrowserInv, NEW c \in Talks, R!AskObserve(c)
                         PROVE  BrowserInv' /\ R!NavigationsWereAllowed
<1>1. R!Open(c) /\ R!Input /\ UNCHANGED <<R!settings, R!record>> /\ UNCHANGED <<tab, panel, crossedClaims>>
  BY DEF R!AskObserve
<1>2. Settled  BY <1>1, InputKeeps DEF BrowserInv
<1>3. PICK q : q = [R!NoToolCall EXCEPT !.at = "observe", !.b = tab[c], !.grant = approvals]  OBVIOUS
<1>4. q = [R!NoToolCall EXCEPT !.at = "observe", !.host = R!Blank, !.b = tab[c], !.grant = approvals]
  <2>1. tab[c] \in Launches /\ approvals \in SUBSET Hosts  BY <1>1, OpenIsOwned DEF BrowserInv, ValuesInv
  <2> QED  BY <1>3, <2>1, LookIsBlank
<1>5. CallOK(<<c, "agent">>, q) /\ q.at # "launch" /\ GoesOn(<<c, "agent">>, q)  BY <1>1, <1>4, WorkOK
<1>6. call' = [call EXCEPT ![<<c, "agent">>] = q] /\ <<c, "agent">> \in Holders
  BY <1>3 DEF R!AskObserve, R!Set, Holders, R!Actors
<1>7. chromium' = R!TakePolicy(c)  BY DEF R!AskObserve
<1>8. PICK s : /\ SessionOK(s) /\ s.st = chromium[tab[c]].st /\ s.conv = chromium[tab[c]].conv
               /\ s.tags = chromium[tab[c]].tags /\ s.page = chromium[tab[c]].page /\ s.asked = chromium[tab[c]].asked
               /\ chromium' = [chromium EXCEPT ![tab[c]] = s]
  BY <1>1, <1>7, TakenPolicy
<1>9. tab[c] \in Launches  BY <1>1, OpenIsOwned
<1> QED  BY <1>1, <1>2, <1>5, <1>6, <1>8, <1>9, TunedKeeps

LEMMA AskNavigateKeeps == ASSUME BrowserInv, NEW c \in Talks, NEW h \in Hosts, R!AskNavigate(c, h)
                          PROVE  BrowserInv' /\ R!NavigationsWereAllowed
<1>1. R!Open(c) /\ R!Input /\ UNCHANGED <<R!settings, R!record>> /\ UNCHANGED <<tab, panel, crossedClaims>>
  BY DEF R!AskNavigate
<1>2. Settled  BY <1>1, InputKeeps DEF BrowserInv
<1>3. PICK q : q = [R!NoToolCall EXCEPT !.at = "go", !.host = h, !.b = tab[c], !.grant = approvals]  OBVIOUS
<1>4. CallOK(<<c, "agent">>, q) /\ q.at # "launch" /\ GoesOn(<<c, "agent">>, q)  BY <1>1, <1>3, WorkOK
<1>5. (call' = [call EXCEPT ![<<c, "agent">>] = q] \/ call' = call) /\ <<c, "agent">> \in Holders
  BY <1>3 DEF R!AskNavigate, R!Set, Holders, R!Actors
<1>6. chromium' = R!TakePolicy(c)  BY DEF R!AskNavigate
<1>7. PICK s : /\ SessionOK(s) /\ s.st = chromium[tab[c]].st /\ s.conv = chromium[tab[c]].conv
               /\ s.tags = chromium[tab[c]].tags /\ s.page = chromium[tab[c]].page /\ s.asked = chromium[tab[c]].asked
               /\ chromium' = [chromium EXCEPT ![tab[c]] = s]
  BY <1>1, <1>6, TakenPolicy
<1>8. tab[c] \in Launches  BY <1>1, OpenIsOwned
<1> QED  BY <1>1, <1>2, <1>4, <1>5, <1>7, <1>8, TunedKeeps

LEMMA AskActKeeps == ASSUME BrowserInv, NEW c \in Talks, NEW r \in R!Refs, R!AskAct(c, r)
                     PROVE  BrowserInv' /\ R!NavigationsWereAllowed
<1>1. R!Open(c) /\ R!Input /\ UNCHANGED <<R!settings, elements, lostAnswers>> /\ UNCHANGED <<tab, panel, crossedClaims>>
  BY DEF R!AskAct
<1>2. PICK m : m = R!Hit(chromium[tab[c]], r)  OBVIOUS
<1>3. mistaken' = (mistaken \/ m \notin {R!Nobody, elements[c][r]})  BY <1>2 DEF R!AskAct, R!Session
<1>4. PICK q : q = [R!NoToolCall EXCEPT !.at = "observe", !.b = tab[c], !.grant = approvals]  OBVIOUS
<1>5. q = [R!NoToolCall EXCEPT !.at = "observe", !.host = R!Blank, !.b = tab[c], !.grant = approvals]
  <2>1. tab[c] \in Launches /\ approvals \in SUBSET Hosts  BY <1>1, OpenIsOwned DEF BrowserInv, ValuesInv
  <2> QED  BY <1>4, <2>1, LookIsBlank
<1>6. CallOK(<<c, "agent">>, q) /\ q.at # "launch" /\ GoesOn(<<c, "agent">>, q)  BY <1>1, <1>5, WorkOK
<1>7. (call' = [call EXCEPT ![<<c, "agent">>] = q] \/ call' = call) /\ <<c, "agent">> \in Holders
  BY <1>4 DEF R!AskAct, R!Set, Holders, R!Actors
<1>8. chromium' = R!TakePolicy(c)  BY DEF R!AskAct
<1>9. PICK s : /\ SessionOK(s) /\ s.st = chromium[tab[c]].st /\ s.conv = chromium[tab[c]].conv
               /\ s.tags = chromium[tab[c]].tags /\ s.page = chromium[tab[c]].page /\ s.asked = chromium[tab[c]].asked
               /\ chromium' = [chromium EXCEPT ![tab[c]] = s]
  BY <1>1, <1>8, TakenPolicy
<1>10. tab[c] \in Launches  BY <1>1, OpenIsOwned
\* What carries the number is what the list gave under it.
<1>11. lostAnswers \/ m \in {R!Nobody, elements[c][r]}
  <2> SUFFICES ASSUME ~lostAnswers, m # R!Nobody  PROVE m = elements[c][r]  OBVIOUS
  <2>1. \A e \in R!AllElements : chromium[tab[c]].tags[e] = r => elements[c][r] = e
    BY <1>1 DEF BrowserInv, ListInv, R!Open
  <2>2. PICK found : found = {e \in R!AllElements : chromium[tab[c]].tags[e] = r}  OBVIOUS
  <2>3. m = IF found = {} THEN R!Nobody ELSE CHOOSE e \in found : \A f \in found : e[2] <= f[2]
    BY <1>2, <2>2 DEF R!Hit
  <2>4. \A e, f \in found : e = f  BY <2>1, <2>2
  <2>5. PICK e \in found : TRUE  BY <2>3
  <2>6. e[2] \in R!Refs  BY <2>2 DEF R!AllElements, R!ElementsOf
  <2>7. e[2] <= e[2]  BY <2>6 DEF R!Refs
  <2>8. \A f \in found : e[2] <= f[2]  BY <2>4, <2>7
  <2>9. m \in found  BY <2>3, <2>5, <2>8
  <2> QED  BY <2>1, <2>2, <2>9
<1>12. Settled
  <2>1. inputs' \in 0 .. MaxInputs  BY <1>1, InputKeeps DEF BrowserInv
  <2>2. mistaken' \in BOOLEAN /\ (mistaken' => mistaken \/ lostAnswers)  BY <1>3, <1>11 DEF BrowserInv, ValuesInv
  <2> QED  BY <1>1, <2>1, <2>2 DEF R!settings, Settled
<1> QED  BY <1>1, <1>6, <1>7, <1>9, <1>10, <1>12, TunedKeeps

LEMMA WentKeeps == ASSUME BrowserInv, NEW k \in Holders, NEW to \in R!Leads(call[k].host), R!Went(k, to)
                   PROVE  BrowserInv' /\ R!NavigationsWereAllowed
<1>1. call[k].at = "go" /\ UNCHANGED <<tab, panel, crossedClaims>> /\ UNCHANGED <<R!settings, R!record, inputs>>
  BY DEF R!Went
<1>2. Settled  BY <1>1, InputKeeps DEF BrowserInv
<1>3. PICK b \in Launches, h \in Hosts : b = call[k].b /\ h = call[k].host  BY <1>1 DEF BrowserInv, CallsInv, CallOK
<1>3a. to \in Hosts  BY <1>3, BrowserAssumption DEF R!Leads
<1>4. PICK o : o = call[k] /\ CallOK(k, o) /\ o \in ToolCallType  BY DEF BrowserInv, CallsInv, CallOK
<1>5. lostAnswers \/ \E c \in Talks : k = <<c, "agent">>  BY <1>1, LateIsLost DEF BrowserInv
<1>6. CASE chromium[b].st = "open" /\ R!checkNavigation(chromium[b], h)
  <2>1. PICK q : q = [o EXCEPT !.at = "observe"]  OBVIOUS
  <2>2. q \in ToolCallType /\ q.at = "observe" /\ q.b = o.b /\ q.grant = o.grant  BY <1>4, <2>1 DEF ToolCallType
  <2>3. CallOK(k, q)  BY <1>3, <1>4, <2>2 DEF CallOK
  <2>4. GoesOn(k, q)  BY <1>1, <1>4, <1>5, <2>2 DEF GoesOn, Busy
  <2>5. PICK s : s = R!Load(chromium[b], h, to)  OBVIOUS
  <2>6. call' = [call EXCEPT ![k] = q] /\ chromium' = [chromium EXCEPT ![b] = s]
    BY <1>3, <1>4, <1>6, <2>1, <2>5 DEF R!Went, R!Set
  <2>7. SessionOK(s) /\ s.st = chromium[b].st /\ s.conv = chromium[b].conv /\ Unnumbered(s) /\ s.asked = h
    BY <1>3a, <2>5, LoadOK DEF BrowserInv, PoolInv
  <2> QED  BY <1>1, <1>2, <1>6, <2>2, <2>3, <2>4, <2>6, <2>7, TunedKeeps
<1>7. CASE ~(chromium[b].st = "open" /\ R!checkNavigation(chromium[b], h))
  <2>1. call' = [call EXCEPT ![k] = R!NoToolCall] /\ chromium' = chromium
    BY <1>3, <1>7 DEF R!Went, R!Set, R!End
  <2> QED  BY <1>1, <1>2, <1>5, <2>1, NoCallOK, CallsKeep
<1> QED  BY <1>6, <1>7

\* Elements are numbered, and the agent gets their list.
LEMMA ObservedKeeps == ASSUME BrowserInv, NEW k \in Holders, R!Observed(k)
                       PROVE  BrowserInv' /\ R!NavigationsWereAllowed
<1>0. ValuesInv /\ PoolInv /\ CallsInv /\ PanelsInv /\ LaunchersInv /\ ListInv /\ R!ActsOnWhatWasListed  BY DEF BrowserInv
<1>1. /\ call[k].at = "observe" /\ call' = [call EXCEPT ![k] = R!NoToolCall]
      /\ UNCHANGED <<tab, panel, crossedClaims>> /\ UNCHANGED <<R!settings, lostAnswers, mistaken, inputs>>
  BY DEF R!Observed, R!End, R!Set
<1>2. lostAnswers \/ \E c \in Talks : k = <<c, "agent">>  BY <1>0, <1>1, LateIsLost
<1>3. PICK b \in Launches : b = call[k].b  BY <1>0, <1>1 DEF CallsInv, CallOK
<1>4. SessionOK(chromium[b])  BY <1>0 DEF PoolInv
<1>5. CASE chromium[b].st # "open"
  <2>1. UNCHANGED <<chromium, elements>>  BY <1>3, <1>5 DEF R!Observed
  <2>2. Settled  BY <1>0, <1>1, <2>1 DEF Settled, R!settings, ValuesInv
  <2> QED  BY <1>1, <1>2, <2>1, <2>2, NoCallOK, CallsKeep
<1>6. CASE chromium[b].st = "open"
  <2>1. PICK s : s = [chromium[b] EXCEPT !.tags = R!Number(chromium[b])]  OBVIOUS
  <2>2. PICK l : l = R!Listed(chromium[b])  OBVIOUS
  <2>3. /\ SessionOK(s) /\ s.st = chromium[b].st /\ s.conv = chromium[b].conv /\ s.page = chromium[b].page /\ s.asked = chromium[b].asked
        /\ l \in [R!Refs -> R!AllElements \cup {R!Nobody}]
        /\ \A e \in R!AllElements, r \in R!Refs : s.tags[e] = r => l[r] = e
    BY <1>4, <1>6, <2>1, <2>2, NumberOK
  <2>4. /\ chromium' = [chromium EXCEPT ![b] = s]
        /\ elements' = IF k[2] = "agent" THEN [elements EXCEPT ![k[1]] = l] ELSE elements
    BY <1>3, <1>6, <2>1, <2>2 DEF R!Observed
  <2>5. chromium'[b] = s /\ \A d \in Launches \ {b} : chromium'[d] = chromium[d]  BY <1>0, <2>4 DEF PoolInv
  <2>6. everGranted' = everGranted  BY <1>1 DEF R!settings
  <2>7. PoolInv' /\ HoldsOn  BY <1>0, <1>1, <2>3, <2>4, <2>6, TuneKeeps
  <2>8. CallOK(k, R!NoToolCall)' /\ R!NoToolCall.at # "launch"  BY <2>7, NoCallOK DEF HoldsOn
  <2>9. CallsInv' /\ PanelsInv' /\ LaunchersInv'  BY <1>0, <1>1, <2>7, <2>8, CallSteps
  <2>10. k[1] \in Talks  BY DEF Holders
  <2>11. ValuesInv' /\ R!ActsOnWhatWasListed'
    <3>1. elements' \in [Talks -> [R!Refs -> R!AllElements \cup {R!Nobody}]]  BY <1>0, <2>3, <2>4, <2>10 DEF ValuesInv
    <3> QED  BY <1>0, <1>1, <3>1 DEF ValuesInv, R!settings, R!ActsOnWhatWasListed
  <2>12. ListInv'
    <3>1. CASE lostAnswers  BY <1>1, <3>1 DEF ListInv
    <3>2. CASE ~lostAnswers
      <4>1. PICK c \in Talks : k = <<c, "agent">> /\ k[1] = c /\ k[2] = "agent"  BY <1>2, <3>2
      <4>2. \A d \in Talks : <<d, "late">> \in Holders \ {k} /\ (d # c => <<d, "agent">> \in Holders \ {k})
        BY <4>1 DEF Holders, R!Actors
      <4>3. call'[k] = R!NoToolCall /\ \A j \in Holders \ {k} : call'[j] = call[j]  BY <1>0, <1>1 DEF CallsInv
      <4>4. \A d \in Talks : call'[<<d, "late">>].at = "none"  BY <1>0, <3>2, <4>2, <4>3 DEF ListInv
      <4>5. elements'[c] = l /\ \A d \in Talks \ {c} : elements'[d] = elements[d]  BY <1>0, <2>4, <4>1 DEF ValuesInv
      <4>6. ASSUME NEW d \in Talks, d # c, tab'[d] # R!None
            PROVE  /\ \A e \in R!AllElements, r \in R!Refs : chromium'[tab'[d]].tags[e] = r => elements'[d][r] = e
                   /\ call'[<<d, "agent">>].at \in Busy /\ call'[<<d, "agent">>].b # tab'[d] => Unnumbered(chromium'[tab'[d]])
        <5>1. tab[d] \in Launches /\ chromium[tab[d]].conv = d
          BY <1>0, <1>1, <4>6 DEF PoolInv, R!PoolIsLive, R!Open, R!Session
        <5>2. chromium[b].conv = c  BY <1>0, <1>3, <1>6, <4>1, BrowserAssumption DEF CallsInv, CallOK, Owned, R!None
        <5>3. chromium'[tab[d]] = chromium[tab[d]]  BY <2>5, <4>6, <5>1, <5>2
        <5>4. call'[<<d, "agent">>] = call[<<d, "agent">>] /\ elements'[d] = elements[d]  BY <4>2, <4>3, <4>5, <4>6
        <5>5. tab'[d] = tab[d]  BY <1>1
        <5>6. /\ \A e \in R!AllElements, r \in R!Refs : chromium[tab[d]].tags[e] = r => elements[d][r] = e
              /\ call[<<d, "agent">>].at \in Busy /\ call[<<d, "agent">>].b # tab[d] => Unnumbered(chromium[tab[d]])
          BY <1>0, <3>2, <4>6, <5>5 DEF ListInv, Busy
        <5> QED  BY <5>3, <5>4, <5>5, <5>6
      <4>7. ASSUME tab'[c] # R!None
            PROVE  \A e \in R!AllElements, r \in R!Refs : chromium'[tab'[c]].tags[e] = r => elements'[c][r] = e
        <5>1. CASE tab[c] = b  BY <1>1, <2>3, <2>5, <4>5, <5>1
        <5>2. CASE tab[c] # b
          <6>1. call[<<c, "agent">>].at = "observe" /\ call[<<c, "agent">>].b # tab[c]  BY <1>1, <1>3, <4>1, <5>2
          <6>2. Unnumbered(chromium[tab[c]])  BY <1>0, <1>1, <3>2, <4>7, <6>1 DEF ListInv
          <6>3. chromium'[tab'[c]] = chromium[tab[c]]  BY <1>0, <1>1, <2>5, <4>7, <5>2 DEF PoolInv
          <6> QED  BY <6>2, <6>3 DEF Unnumbered, R!Refs
        <5> QED  BY <5>1, <5>2
      <4>8. call'[<<c, "agent">>].at = "none"  BY <4>1, <4>3, NoCallOK
      <4> QED  BY <4>4, <4>6, <4>7, <4>8 DEF ListInv, Busy
    <3> QED  BY <3>1, <3>2
  <2>13. R!NavigationsWereAllowed  BY <2>3, <2>5 DEF R!NavigationsWereAllowed
  <2> QED  BY <2>7, <2>9, <2>11, <2>12, <2>13 DEF BrowserInv
<1> QED  BY <1>5, <1>6

-----------------------------------------------------------------------------
LEMMA ClaimKeeps == ASSUME BrowserInv, Settled, NEW k \in Holders, call[k].at \in {"check", "restart"}, R!Claim(k), panel' = panel
                    PROVE  BrowserInv' /\ R!NavigationsWereAllowed
<1>1. ValuesInv /\ PoolInv /\ CallsInv /\ PanelsInv /\ LaunchersInv /\ ListInv /\ R!ActsOnWhatWasListed  BY DEF BrowserInv
<1>2. PICK c \in Talks : c = k[1]  BY DEF Holders
<1>3. lostAnswers \/ \E d \in Talks : k = <<d, "agent">> /\ d = c
  BY <1>1, <1>2, LateIsLost
<1>4. PICK o \in ToolCallType : o = call[k] /\ CallOK(k, o)  BY <1>1 DEF CallsInv, CallOK
<1>5. call[k].host \in Hosts /\ o.host \in Hosts  BY <1>4 DEF CallOK
<1>6. CASE /\ R!Open(c) /\ chromium' = [chromium EXCEPT ![tab[c]] = R!Joined(@, k)]
           /\ call' = [call EXCEPT ![k] = [call[k] EXCEPT !.at = "go", !.b = tab[c]]] /\ UNCHANGED <<tab, crossedClaims>>
  <2>1. PICK b \in Launches : b = tab[c] /\ Owned(c, b) /\ SessionOK(chromium[b])  BY <1>6, OpenIsOwned
  <2>2. PICK s : s = R!Joined(chromium[b], k)  OBVIOUS
  <2>3. SessionOK(s) /\ s.st = chromium[b].st /\ s.conv = chromium[b].conv /\ s.tags = chromium[b].tags /\ s.page = chromium[b].page /\ s.asked = chromium[b].asked
    BY <1>1, <1>4, <1>5, <2>1, <2>2, JoinedOK
  <2>4. PICK q : q = [o EXCEPT !.at = "go", !.b = b]  OBVIOUS
  <2>5. q \in ToolCallType /\ q.at = "go" /\ q.b = b /\ q.grant = o.grant /\ q.host = o.host  BY <2>4 DEF ToolCallType
  <2>6. CallOK(k, q)  BY <1>2, <1>4, <1>5, <2>1, <2>5 DEF CallOK
  <2>7. GoesOn(k, q)  BY <1>3, <2>1, <2>5 DEF GoesOn
  <2>8. chromium' = [chromium EXCEPT ![b] = s] /\ call' = [call EXCEPT ![k] = q]  BY <1>4, <1>6, <2>1, <2>2, <2>4
  <2> QED  BY <1>6, <2>3, <2>5, <2>6, <2>7, <2>8, TunedKeeps
<1>7. ASSUME NEW b \in Launches, R!Launch(c, b, call[k].js, TRUE, call[k].grant, TRUE), tab' = tab,
             call' = [call EXCEPT ![k] = [call[k] EXCEPT !.at = "launch", !.b = b]]
      PROVE  BrowserInv' /\ R!NavigationsWereAllowed
  <2>1. UNCHANGED <<everGranted, elements, lostAnswers>>  BY DEF Settled
  <2>2. PICK js \in BOOLEAN, g \in SUBSET everGranted : js = call[k].js /\ g = call[k].grant  BY <1>4 DEF CallOK, ToolCallType
  <2>3. R!Launch(c, b, js, TRUE, g, TRUE)  BY <1>7, <2>2
  <2>4. /\ PoolInv' /\ HoldsOn /\ crossedClaims' \subseteq Talks
        /\ chromium[b].st = "none" /\ chromium'[b].st = "launching" /\ chromium'[b].conv = c /\ chromium'[b].asked = R!Blank
        /\ \A d \in Launches \ {b} : chromium'[d] = chromium[d]
    <3>1. everGranted' = everGranted /\ tab' = tab  BY <1>7, <2>1
    <3>2. ValuesInv /\ PoolInv  BY <1>1
    <3>3. PICK y \in BOOLEAN : y = TRUE  OBVIOUS
    <3>4. R!Launch(c, b, js, y, g, y)  BY <2>3, <3>3
    <3> QED  BY <3>1, <3>2, <3>4, LaunchKeeps
  <2>5. PICK q : q = [o EXCEPT !.at = "launch", !.b = b]  OBVIOUS
  <2>6. q \in ToolCallType /\ q.at = "launch" /\ q.b = b /\ q.grant = o.grant /\ q.host = o.host  BY <2>5 DEF ToolCallType
  <2>7. CallOK(k, q)'  BY <1>2, <1>4, <1>5, <2>1, <2>4, <2>6 DEF CallOK, Owned
  <2>8. call' = [call EXCEPT ![k] = q]  BY <1>4, <1>7, <2>5
  <2>9. CallsInv' /\ PanelsInv' /\ LaunchersInv'  BY <1>1, <2>4, <2>6, <2>7, <2>8, CallSteps
  <2>10. ValuesInv' /\ R!ActsOnWhatWasListed'  BY <1>1, <2>4, SettledKeeps
  <2>11. call'[k] = q /\ \A j \in Holders \ {k} : call'[j] = call[j]  BY <1>1, <2>8 DEF CallsInv
  <2>12. ~R!Open(c)  BY <1>7 DEF R!Launch
  <2>13. ListInv'
    <3>1. CASE lostAnswers  BY <2>1, <3>1 DEF ListInv
    <3>2. CASE ~lostAnswers
      <4>1. k = <<c, "agent">>  BY <1>3, <3>2
      <4>2. \A d \in Talks : <<d, "late">> \in Holders \ {k} /\ (d # c => <<d, "agent">> \in Holders \ {k})
        BY <4>1 DEF Holders, R!Actors
      <4>3. \A d \in Talks : call'[<<d, "late">>].at = "none"  BY <1>1, <2>11, <3>2, <4>2 DEF ListInv
      <4>4. \A d \in Talks : tab'[d] # R!None => /\ d # c /\ tab'[d] = tab[d] /\ chromium'[tab[d]].tags = chromium[tab[d]].tags
                                                 /\ call'[<<d, "agent">>] = call[<<d, "agent">>]
        <5> SUFFICES ASSUME NEW d \in Talks, tab'[d] # R!None
                     PROVE  /\ d # c /\ tab'[d] = tab[d] /\ chromium'[tab[d]].tags = chromium[tab[d]].tags
                            /\ call'[<<d, "agent">>] = call[<<d, "agent">>]
          OBVIOUS
        <5>1. d # c /\ tab'[d] = tab[d]  BY <1>7, <2>12 DEF R!Open
        <5>2. tab[d] \in Launches /\ chromium[tab[d]].st = "open"  BY <1>1, <5>1 DEF PoolInv, R!PoolIsLive, R!Open, R!Session
        <5> QED  BY <2>4, <2>11, <4>2, <5>1, <5>2
      <4> QED  BY <1>1, <2>1, <4>3, <4>4, ListSteps
    <3> QED  BY <3>1, <3>2
  <2>14. R!NavigationsWereAllowed  BY <2>4 DEF R!NavigationsWereAllowed
  <2> QED  BY <2>4, <2>9, <2>10, <2>13, <2>14 DEF BrowserInv
<1>8. CASE call' = [call EXCEPT ![k] = R!NoToolCall] /\ UNCHANGED <<tab, chromium, crossedClaims>>
  BY <1>3, <1>8, NoCallOK, CallsKeep
<1> QED  BY <1>2, <1>6, <1>7, <1>8 DEF R!Claim, R!Set, R!End

LEMMA CheckedKeeps == ASSUME BrowserInv, NEW k \in Holders, R!Checked(k) \/ R!Restarted(k)
                      PROVE  BrowserInv' /\ R!NavigationsWereAllowed
<1>1. UNCHANGED <<R!settings, R!record, inputs>> /\ panel' = panel /\ call[k].at \in {"check", "restart"}
  BY DEF R!Checked, R!Restarted
<1>2. Settled  BY <1>1, InputKeeps DEF BrowserInv
<1>3. \/ R!Claim(k)
      \/ /\ call[k].at = "check" /\ R!Open(k[1]) /\ R!Close(k[1]) /\ crossedClaims' = crossedClaims
         /\ call' = [call EXCEPT ![k] = [call[k] EXCEPT !.at = "restart"]]
  BY DEF R!Checked, R!Restarted, R!Set
<1>4. CASE R!Claim(k)  BY <1>1, <1>2, <1>4, ClaimKeeps
<1>5. CASE /\ call[k].at = "check" /\ R!Open(k[1]) /\ R!Close(k[1]) /\ crossedClaims' = crossedClaims
           /\ call' = [call EXCEPT ![k] = [call[k] EXCEPT !.at = "restart"]]
  <2>1. k[1] \in Talks  BY DEF Holders
  <2>2. PICK o \in ToolCallType : o = call[k] /\ CallOK(k, o)  BY DEF BrowserInv, CallsInv, CallOK
  <2>3. PICK q : q = [o EXCEPT !.at = "restart"]  OBVIOUS
  <2>4. q \in ToolCallType /\ q.at = "restart" /\ q.b = o.b /\ q.grant = o.grant /\ q.host = o.host  BY <2>3 DEF ToolCallType
  <2>5. CallOK(k, q) /\ q.at \notin Busy  BY <1>5, <2>2, <2>4 DEF CallOK, Busy
  <2>6. lostAnswers \/ \E d \in Talks : k = <<d, "agent">>  BY <1>5, LateIsLost DEF BrowserInv
  <2>7. call' = [call EXCEPT ![k] = q]  BY <1>5, <2>2, <2>3
  <2> QED  BY <1>1, <1>2, <1>5, <2>1, <2>5, <2>6, <2>7, ClosingKeeps
<1> QED  BY <1>3, <1>4, <1>5

\* The process is there: it is its conversation's session now, nobody else launches it.
LEMMA EnteredKeeps ==
  ASSUME BrowserInv, Settled, NEW c \in Talks, NEW b \in Launches, NEW s, SessionOK(s), s.st = "open", s.conv = c, Unnumbered(s),
         s.page = chromium[b].page /\ s.asked = chromium[b].asked, chromium[b].st = "launching", chromium[b].conv = c,
         chromium' = [chromium EXCEPT ![b] = s], tab' = [tab EXCEPT ![c] = b], crossedClaims' = crossedClaims,
         CallsInv', PanelsInv', LaunchersInv',
         lostAnswers \/ \A d \in Talks : /\ call'[<<d, "late">>].at = "none"
                                         /\ d # c => call'[<<d, "agent">>] = call[<<d, "agent">>]
  PROVE  BrowserInv' /\ R!NavigationsWereAllowed
<1>1. ValuesInv /\ PoolInv /\ CallsInv /\ PanelsInv /\ LaunchersInv /\ ListInv /\ R!ActsOnWhatWasListed  BY DEF BrowserInv
<1>2. UNCHANGED <<everGranted, elements, lostAnswers>>  BY DEF Settled
<1>3. PoolInv'  BY <1>1, <1>2, EnterKeeps
<1>4. ValuesInv' /\ R!ActsOnWhatWasListed'  BY <1>1, SettledKeeps DEF ValuesInv
<1>5. chromium'[b] = s /\ \A d \in Launches \ {b} : chromium'[d] = chromium[d]  BY <1>1 DEF PoolInv
<1>6. tab'[c] = b /\ \A d \in Talks \ {c} : tab'[d] = tab[d]  BY <1>1 DEF PoolInv
<1>7. \A d \in Talks : d # c /\ tab'[d] # R!None => tab'[d] = tab[d] /\ chromium'[tab[d]].tags = chromium[tab[d]].tags
  <2> SUFFICES ASSUME NEW d \in Talks, d # c, tab'[d] # R!None
               PROVE  tab'[d] = tab[d] /\ chromium'[tab[d]].tags = chromium[tab[d]].tags
    OBVIOUS
  <2>1. tab'[d] = tab[d]  BY <1>6
  <2>2. tab[d] \in Launches /\ chromium[tab[d]].st = "open"  BY <1>1, <2>1 DEF PoolInv, R!PoolIsLive, R!Open, R!Session
  <2> QED  BY <1>5, <2>1, <2>2
<1>8. ListInv'
  <2>1. CASE lostAnswers  BY <1>2, <2>1 DEF ListInv
  <2>2. CASE ~lostAnswers
    <3>1. Unnumbered(chromium'[tab'[c]])  BY <1>5, <1>6
    <3> QED  BY <1>1, <1>2, <1>7, <2>2, <3>1, ListSteps
  <2> QED  BY <2>1, <2>2
<1>9. R!NavigationsWereAllowed  BY <1>5 DEF R!NavigationsWereAllowed
<1> QED  BY <1>1, <1>3, <1>4, <1>8, <1>9 DEF BrowserInv

LEMMA LaunchedKeeps == ASSUME BrowserInv, NEW k \in Holders, R!Launched(k)
                       PROVE  BrowserInv' /\ R!NavigationsWereAllowed
<1>0. ValuesInv /\ PoolInv /\ CallsInv /\ PanelsInv /\ LaunchersInv /\ ListInv /\ R!ActsOnWhatWasListed  BY DEF BrowserInv
<1>1. call[k].at = "launch" /\ UNCHANGED <<R!settings, R!record, inputs>> /\ panel' = panel /\ crossedClaims' = crossedClaims
  BY DEF R!Launched
<1>2. Settled  BY <1>1, InputKeeps DEF BrowserInv
<1>3. PICK c \in Talks, b \in Launches : c = k[1] /\ b = call[k].b  BY <1>0, <1>1 DEF Holders, CallsInv, CallOK
<1>4. PICK o \in ToolCallType : o = call[k] /\ CallOK(k, o)  BY <1>0 DEF CallsInv, CallOK
<1>5. /\ o.host \in Hosts /\ chromium[b].st = "launching" /\ chromium[b].conv = c /\ SessionOK(chromium[b])
      /\ Unnumbered(chromium[b])
  BY <1>0, <1>1, <1>3, <1>4, BrowserAssumption DEF CallOK, Owned, PoolInv, SessionOK, R!None
<1>6. PICK p : p = R!Joined(chromium[b], k)  OBVIOUS
<1>7. SessionOK(p) /\ p.st = "launching" /\ p.conv = c /\ p.tags = chromium[b].tags /\ p.page = chromium[b].page /\ p.asked = chromium[b].asked
  BY <1>0, <1>4, <1>5, <1>6, JoinedOK
<1>8. PICK s : s = [p EXCEPT !.st = "open"]  OBVIOUS
<1>9. SessionOK(s) /\ s.st = "open" /\ s.conv = c /\ Unnumbered(s) /\ s.page = chromium[b].page /\ s.asked = chromium[b].asked
  <2>1. p \in SessionType  BY <1>7 DEF SessionOK
  <2>2. /\ s \in SessionType /\ s.st = "open" /\ s.conv = p.conv /\ s.tags = p.tags /\ s.page = p.page /\ s.asked = p.asked /\ s.grant = p.grant
        /\ s.shown = p.shown
    BY <1>8, <2>1 DEF SessionType
  <2> QED  BY <1>5, <1>7, <2>2 DEF SessionOK, Unnumbered
<1>10. chromium' = [chromium EXCEPT ![b] = s] /\ tab' = [tab EXCEPT ![c] = b]
  <2>1. tab' = [tab EXCEPT ![c] = b] /\ chromium' = [[chromium EXCEPT ![b] = p] EXCEPT ![b].st = "open"]
    BY <1>3, <1>6 DEF R!Launched, R!Enter
  <2>2. [chromium EXCEPT ![b] = p][b] = p  BY <1>0 DEF PoolInv
  <2>3. chromium' = [[chromium EXCEPT ![b] = p] EXCEPT ![b] = s]  BY <1>8, <2>1, <2>2
  <2> QED  BY <1>0, <2>1, <2>3 DEF PoolInv
<1>11. PICK q : q = [o EXCEPT !.at = "go"]  OBVIOUS
<1>12. /\ q \in ToolCallType /\ q.at = "go" /\ q.b = b /\ q.grant = o.grant /\ q.host = o.host
       /\ call' = [call EXCEPT ![k] = q]
  <2>1. q \in ToolCallType /\ q.at = "go" /\ q.b = b /\ q.grant = o.grant /\ q.host = o.host
    BY <1>3, <1>4, <1>11 DEF ToolCallType
  <2> QED  BY <1>4, <1>11, <2>1 DEF R!Launched, R!Set
<1>13. call'[k] = q /\ \A j \in Holders \ {k} : call'[j] = call[j]  BY <1>0, <1>12 DEF CallsInv
<1>14. UNCHANGED <<everGranted, lostAnswers>>  BY <1>2 DEF Settled
<1>15. /\ \A j, x : CallOK(j, x) /\ ~(x.at = "launch" /\ x.b = b) => CallOK(j, x)'
       /\ \A d, x : PanelOK(d, x) /\ ~(x.at = "launch" /\ x.b = b) => PanelOK(d, x)'
  BY <1>0, <1>1, <1>5, <1>9, <1>10, <1>14, EnterKeeps
<1>16. CallsInv'
  <2>1. CallOK(k, q)  BY <1>1, <1>3, <1>4, <1>5, <1>12 DEF CallOK
  <2>2. CallOK(k, q)'  BY <1>12, <1>15, <2>1
  <2>3. ASSUME NEW j \in Holders, j # k  PROVE CallOK(j, call[j])'
    <3>1. PICK x : x = call[j]  OBVIOUS
    <3>2. CallOK(j, x)  BY <1>0, <3>1 DEF CallsInv
    <3>3. ~(x.at = "launch" /\ x.b = b)  BY <1>0, <1>1, <1>3, <2>3, <3>1 DEF LaunchersInv
    <3>4. CallOK(j, x)'  BY <1>15, <3>2, <3>3
    <3> QED  BY <1>13, <2>3, <3>1, <3>4 DEF CallOK, Owned
  <2>4. \A j \in Holders : CallOK(j, call[j])'  BY <1>13, <2>2, <2>3 DEF CallOK, Owned
  <2>5. call' \in [Holders -> ToolCallType]  BY <1>0, <1>12 DEF CallsInv
  <2> QED  BY <2>4, <2>5 DEF CallsInv
<1>17. PanelsInv'
  <2>1. ASSUME NEW d \in Talks  PROVE PanelOK(d, panel[d])'
    <3>1. PICK x : x = panel[d]  OBVIOUS
    <3>2. PanelOK(d, x)  BY <1>0, <3>1 DEF PanelsInv
    <3>3. ~(x.at = "launch" /\ x.b = b)  BY <1>0, <1>1, <1>3, <3>1 DEF LaunchersInv
    <3>4. PanelOK(d, x)'  BY <1>15, <3>2, <3>3
    <3> QED  BY <1>1, <3>1, <3>4 DEF PanelOK, Owned
  <2> QED  BY <1>0, <1>1, <2>1 DEF PanelsInv
<1>18. LaunchersInv'  BY <1>0, <1>1, <1>12, <1>13 DEF LaunchersInv
<1>19. lostAnswers \/ \A d \in Talks : /\ call'[<<d, "late">>].at = "none"
                                       /\ d # c => call'[<<d, "agent">>] = call[<<d, "agent">>]
  <2> SUFFICES ASSUME ~lostAnswers
               PROVE  \A d \in Talks : /\ call'[<<d, "late">>].at = "none"
                                       /\ d # c => call'[<<d, "agent">>] = call[<<d, "agent">>]
    OBVIOUS
  <2>1. k = <<c, "agent">>  BY <1>0, <1>1, <1>3, LateIsLost
  <2>2. \A d \in Talks : <<d, "late">> \in Holders \ {k} /\ (d # c => <<d, "agent">> \in Holders \ {k})
    BY <2>1 DEF Holders, R!Actors
  <2> QED  BY <1>0, <1>13, <2>2 DEF ListInv
<1> QED  BY <1>1, <1>2, <1>5, <1>9, <1>10, <1>16, <1>17, <1>18, <1>19, EnteredKeeps

\* The call goes on by itself.
LEMMA LoseAnswerKeeps == ASSUME BrowserInv, NEW c \in Talks, R!LoseAnswer(c)
                         PROVE  BrowserInv' /\ R!NavigationsWereAllowed
<1>0. ValuesInv /\ PoolInv /\ CallsInv /\ PanelsInv /\ LaunchersInv /\ ListInv /\ R!ActsOnWhatWasListed  BY DEF BrowserInv
<1>1. PICK k \in Holders, l \in Holders : k = <<c, "agent">> /\ l = <<c, "late">> /\ k[1] = c /\ l[1] = c /\ k # l
  <2>1. <<c, "agent">> \in Holders /\ <<c, "late">> \in Holders  BY DEF Holders, R!Actors
  <2>2. <<c, "agent">>[1] = c /\ <<c, "late">>[1] = c /\ <<c, "agent">> # <<c, "late">>  OBVIOUS
  <2> QED  BY <2>1, <2>2
<1>2. PICK q : q = call[k]  OBVIOUS
<1>3. PICK z \in ToolCallType : z = R!NoToolCall /\ z.at = "none"  BY NoCallOK
<1>4. call' = [call EXCEPT ![l] = q, ![k] = z]  BY <1>1, <1>2, <1>3 DEF R!LoseAnswer
<1>5. /\ UNCHANGED <<tab, chromium, panel, R!settings, elements, mistaken, crossedClaims>> /\ lostAnswers' = TRUE
      /\ call[l].at = "none"
  BY <1>1 DEF R!LoseAnswer
<1>6. inputs' \in 0 .. MaxInputs  BY InputKeeps, <1>0 DEF R!LoseAnswer
<1>7. q \in ToolCallType /\ CallOK(k, q)  BY <1>0, <1>2 DEF CallsInv, CallOK
<1>8. /\ call' \in [Holders -> ToolCallType] /\ call'[l] = q /\ call'[k] = z
      /\ \A j \in Holders \ {k, l} : call'[j] = call[j]
  BY <1>0, <1>1, <1>3, <1>4, <1>7 DEF CallsInv
<1>9. everGranted' = everGranted /\ UNCHANGED <<tab, chromium, crossedClaims>>  BY <1>5 DEF R!settings
<1>10. PoolInv' /\ HoldsOn  BY <1>0, <1>9, SteadyKeeps
<1>11. CallsInv'
  <2>1. CallOK(l, q)  BY <1>1, <1>7 DEF CallOK
  <2>2. CallOK(l, q)' /\ CallOK(k, z)'  BY <1>3, <1>10, <2>1, NoCallOK DEF HoldsOn
  <2>3. ASSUME NEW j \in Holders  PROVE CallOK(j, call[j])'
    <3>1. CASE j \in {k, l}  BY <1>8, <2>2, <3>1 DEF CallOK, Owned
    <3>2. CASE j \notin {k, l}
      <4>1. PICK x : x = call[j]  OBVIOUS
      <4>2. CallOK(j, x)'  BY <1>0, <1>10, <4>1 DEF CallsInv, HoldsOn
      <4> QED  BY <1>8, <3>2, <4>1, <4>2 DEF CallOK, Owned
    <3> QED  BY <3>1, <3>2
  <2> QED  BY <1>8, <2>3 DEF CallsInv
<1>12. PanelsInv'
  <2>1. ASSUME NEW d \in Talks  PROVE PanelOK(d, panel[d])'
    <3>1. PICK x : x = panel[d]  OBVIOUS
    <3>2. PanelOK(d, x)'  BY <1>0, <1>10, <3>1 DEF PanelsInv, HoldsOn
    <3> QED  BY <1>5, <3>1, <3>2 DEF PanelOK, Owned
  <2> QED  BY <1>0, <1>5, <2>1 DEF PanelsInv
<1>13. LaunchersInv'
  <2>1. ASSUME NEW j \in Holders, call'[j].at = "launch"
        PROVE  j # k /\ LET i == IF j = l THEN k ELSE j IN call[i].at = "launch" /\ call[i].b = call'[j].b
    <3>1. j # k  BY <1>3, <1>8, <2>1
    <3>2. CASE j = l  BY <1>1, <1>2, <1>8, <2>1, <3>1, <3>2
    <3>3. CASE j # l  BY <1>8, <2>1, <3>1, <3>3
    <3> QED  BY <3>1, <3>2, <3>3
  <2>2. \A i, j \in Holders : i # j /\ call'[i].at = "launch" /\ call'[j].at = "launch" => call'[i].b # call'[j].b
    BY <1>0, <2>1 DEF LaunchersInv
  <2>3. \A j \in Holders, d \in Talks : call'[j].at = "launch" /\ panel[d].at = "launch" => call'[j].b # panel[d].b
    BY <1>0, <2>1 DEF LaunchersInv
  <2> QED  BY <1>0, <1>5, <2>2, <2>3 DEF LaunchersInv
<1>14. ValuesInv'
  <2>1. UNCHANGED <<jsPolicy, approvals, everGranted, elements, crossedClaims, mistaken>>  BY <1>5 DEF R!settings
  <2> QED  BY <1>0, <1>5, <1>6, <2>1 DEF ValuesInv
<1>15. ListInv' /\ R!ActsOnWhatWasListed'  BY <1>5 DEF ListInv, R!ActsOnWhatWasListed
<1>16. R!NavigationsWereAllowed  BY <1>9 DEF R!NavigationsWereAllowed
<1> QED  BY <1>10, <1>11, <1>12, <1>13, <1>14, <1>15, <1>16 DEF BrowserInv

-----------------------------------------------------------------------------
(* The person *)

\* The call stays; the processes too, or the one the panel holds has another page.
LEMMA PanelGoesOn ==
  ASSUME BrowserInv, Settled, UNCHANGED <<tab, call, crossedClaims>>, NEW c \in Talks, NEW q, PanelOK(c, q), q.at # "launch",
         panel' = [panel EXCEPT ![c] = q],
         \/ chromium' = chromium
         \/ \E b \in Launches, h, to \in Hosts : /\ R!checkNavigation(chromium[b], h)
                                             /\ chromium' = [chromium EXCEPT ![b] = R!Load(chromium[b], h, to)]
  PROVE  BrowserInv' /\ R!NavigationsWereAllowed
<1>1. ValuesInv /\ PoolInv /\ CallsInv /\ PanelsInv /\ LaunchersInv /\ ListInv /\ R!ActsOnWhatWasListed  BY DEF BrowserInv
<1>2. UNCHANGED <<everGranted, elements, lostAnswers>>  BY DEF Settled
<1>3. ValuesInv' /\ R!ActsOnWhatWasListed'  BY <1>1, SettledKeeps DEF ValuesInv
<1>4. /\ PoolInv' /\ HoldsOn /\ R!NavigationsWereAllowed
      /\ \A d \in Launches : Unnumbered(chromium'[d]) \/ chromium'[d] = chromium[d]
  <2>1. CASE chromium' = chromium  BY <1>1, <1>2, <2>1, SteadyKeeps DEF R!NavigationsWereAllowed
  <2>2. CASE \E b \in Launches, h, to \in Hosts : /\ R!checkNavigation(chromium[b], h)
                                              /\ chromium' = [chromium EXCEPT ![b] = R!Load(chromium[b], h, to)]
    <3>1. PICK b \in Launches, h \in Hosts, to \in Hosts : /\ R!checkNavigation(chromium[b], h)
                                             /\ chromium' = [chromium EXCEPT ![b] = R!Load(chromium[b], h, to)]
      BY <2>2
    <3>2. PICK s : s = R!Load(chromium[b], h, to)  OBVIOUS
    <3>3. SessionOK(chromium[b])  BY <1>1 DEF PoolInv
    <3>4. SessionOK(s) /\ s.st = chromium[b].st /\ s.conv = chromium[b].conv /\ Unnumbered(s) /\ s.asked = h
      BY <3>2, <3>3, LoadOK
    <3>5. chromium' = [chromium EXCEPT ![b] = s]  BY <3>1, <3>2
    <3>6. PoolInv' /\ HoldsOn  BY <1>1, <1>2, <3>4, <3>5, TuneKeeps
    <3>7. chromium'[b] = s /\ \A d \in Launches \ {b} : chromium'[d] = chromium[d]  BY <1>1, <3>5 DEF PoolInv
    <3>8. chromium[b].limited => h \in everGranted \cup chromium[b].approved
      BY <3>1, <3>3 DEF R!checkNavigation, SessionOK
    <3>9. R!NavigationsWereAllowed  BY <3>4, <3>7, <3>8 DEF R!NavigationsWereAllowed
    <3> QED  BY <3>4, <3>6, <3>7, <3>9
  <2> QED  BY <2>1, <2>2
<1>5. PanelOK(c, q)'  BY <1>4 DEF HoldsOn
<1>6. CallsInv' /\ PanelsInv' /\ LaunchersInv'  BY <1>1, <1>4, <1>5, PanelSteps
<1>7. ListInv'
  <2>1. lostAnswers \/ \A d \in Talks : call'[<<d, "late">>].at = "none"  BY <1>1 DEF ListInv
  <2>2. \A d \in Talks : tab'[d] # R!None => Unnumbered(chromium'[tab'[d]]) \/ chromium'[tab[d]].tags = chromium[tab[d]].tags
    BY <1>1, <1>4 DEF PoolInv
  <2> QED  BY <1>1, <1>2, <2>1, <2>2, ListSteps
<1> QED  BY <1>1, <1>3, <1>4, <1>6, <1>7 DEF BrowserInv

LEMMA NoPanelOK == R!NoPanel \in PanelType /\ R!NoPanel.at = "none" /\ \A c : PanelOK(c, R!NoPanel)
<1>1. R!NoPanel \in PanelType /\ R!NoPanel.at = "none" /\ R!NoPanel.b = R!None /\ R!NoPanel.grant = {}  BY DEF R!NoPanel, PanelType
<1> QED  BY <1>1 DEF PanelOK, Owned

LEMMA PanelOpenKeeps == ASSUME BrowserInv, NEW c \in Talks, NEW h \in Hosts \cup {R!Blank}, R!PanelOpen(c, h)
                        PROVE  BrowserInv' /\ R!NavigationsWereAllowed
<1>0. R!PanelPolicy(c) \in PanelType /\ R!PanelPolicy(c).b = R!None /\ R!PanelPolicy(c).grant \subseteq everGranted
  <2>1. R!NoPanel \in PanelType /\ R!NoPanel.b = R!None /\ R!NoPanel.grant = {}  BY DEF R!NoPanel, PanelType
  <2>2. CASE R!Open(c)
    <3>1. PICK s \in SessionType : s = R!Session(c) /\ s.grant \subseteq everGranted
      BY <2>2, OpenIsOwned DEF SessionOK, R!Session
    <3>2. PICK js \in BOOLEAN, g \in SUBSET Hosts : js = s.policyJs /\ g = s.grant  BY DEF SessionType
    <3>3. PICK p : p = [R!NoPanel EXCEPT !.js = js, !.limited = TRUE, !.grant = g]  OBVIOUS
    <3>4. p \in PanelType /\ p.b = R!None /\ p.grant = g  BY <2>1, <3>3 DEF PanelType
    <3>5. R!PanelPolicy(c) \in {p, R!NoPanel}  BY <3>1, <3>2, <3>3 DEF R!PanelPolicy
    <3> QED  BY <2>1, <3>1, <3>2, <3>4, <3>5
  <2>3. CASE ~R!Open(c)  BY <2>1, <2>3 DEF R!PanelPolicy
  <2> QED  BY <2>2, <2>3
<1>1. PICK o \in PanelType : o = R!PanelPolicy(c) /\ o.b = R!None /\ o.grant \subseteq everGranted  BY <1>0
<1>1a. PICK q : q = [o EXCEPT !.at = "check", !.host = h]  OBVIOUS
<1>2. q \in PanelType /\ q.at = "check" /\ q.b = R!None /\ q.grant = o.grant  BY <1>1, <1>1a DEF PanelType
<1>3. PanelOK(c, q)  BY <1>1, <1>2 DEF PanelOK, Owned
<1>4. UNCHANGED <<R!settings, R!record>> /\ R!Input  BY DEF R!PanelOpen
<1>5. Settled  BY <1>4, InputKeeps DEF BrowserInv
<1>6. panel' = [panel EXCEPT ![c] = q] /\ UNCHANGED <<tab, call, crossedClaims>> /\ chromium' = chromium
  BY <1>1, <1>1a DEF R!PanelOpen
<1> QED  BY <1>2, <1>3, <1>5, <1>6, PanelGoesOn

LEMMA PanelClaimKeeps == ASSUME BrowserInv, NEW c \in Talks, R!PanelClaim(c)
                         PROVE  BrowserInv' /\ R!NavigationsWereAllowed
<1>0. ValuesInv /\ PoolInv /\ CallsInv /\ PanelsInv /\ LaunchersInv /\ ListInv /\ R!ActsOnWhatWasListed  BY DEF BrowserInv
<1>1. /\ panel[c].at = "check" /\ UNCHANGED <<tab, call>> /\ UNCHANGED <<R!settings, R!record, inputs>>
      /\ \/ /\ R!Open(c) /\ panel' = [panel EXCEPT ![c].at = "go", ![c].b = tab[c]] /\ UNCHANGED <<chromium, crossedClaims>>
         \/ \E b \in Launches : R!Launch(c, b, panel[c].js, panel[c].limited, panel[c].grant, FALSE)
                                /\ panel' = [panel EXCEPT ![c].at = "launch", ![c].b = b]
         \/ panel' = [panel EXCEPT ![c] = R!NoPanel] /\ UNCHANGED <<chromium, crossedClaims>>
  BY DEF R!PanelClaim
<1>2. Settled  BY <1>1, InputKeeps DEF BrowserInv
<1>3. PICK o \in PanelType : o = panel[c] /\ PanelOK(c, o)  BY <1>0 DEF PanelsInv, PanelOK
<1>4. CASE R!Open(c) /\ panel' = [panel EXCEPT ![c].at = "go", ![c].b = tab[c]] /\ UNCHANGED <<chromium, crossedClaims>>
  <2>1. PICK b \in Launches : b = tab[c] /\ Owned(c, b)  BY <1>4, OpenIsOwned
  <2>2. PICK q : q = [o EXCEPT !.at = "go", !.b = b]  OBVIOUS
  <2>3. q \in PanelType /\ q.at = "go" /\ q.b = b /\ q.grant = o.grant  BY <2>2 DEF PanelType
  <2>4. PanelOK(c, q)  BY <1>3, <2>1, <2>3 DEF PanelOK
  <2>5. panel' = [panel EXCEPT ![c] = q]
    <3>1. panel' = [panel EXCEPT ![c].at = "go", ![c].b = b]  BY <1>4, <2>1
    <3>2. panel' = [panel EXCEPT ![c] = [o EXCEPT !.at = "go", !.b = b]]  BY <1>0, <1>3, <3>1 DEF PanelsInv
    <3> QED  BY <2>2, <3>2
  <2> QED  BY <1>1, <1>2, <1>4, <2>3, <2>4, <2>5, PanelGoesOn
<1>5. ASSUME NEW b \in Launches, R!Launch(c, b, panel[c].js, panel[c].limited, panel[c].grant, FALSE),
             panel' = [panel EXCEPT ![c].at = "launch", ![c].b = b]
      PROVE  BrowserInv' /\ R!NavigationsWereAllowed
  <2>1. UNCHANGED <<everGranted, elements, lostAnswers>>  BY <1>2 DEF Settled
  <2>2. PICK y \in BOOLEAN, n \in BOOLEAN, f \in BOOLEAN, g \in SUBSET everGranted :
          y = o.js /\ n = o.limited /\ f = FALSE /\ g = o.grant
    BY <1>3 DEF PanelOK, PanelType
  <2>3. R!Launch(c, b, y, n, g, f)  BY <1>3, <1>5, <2>2
  <2>4. /\ PoolInv' /\ HoldsOn /\ crossedClaims' \subseteq Talks
        /\ chromium[b].st = "none" /\ chromium'[b].st = "launching" /\ chromium'[b].conv = c /\ chromium'[b].asked = R!Blank
        /\ \A d \in Launches \ {b} : chromium'[d] = chromium[d]
    <3>1. everGranted' = everGranted /\ tab' = tab  BY <1>1, <2>1
    <3>2. ValuesInv /\ PoolInv  BY <1>0
    <3> QED  BY <2>3, <3>1, <3>2, LaunchKeeps
  <2>5. PICK q : q = [o EXCEPT !.at = "launch", !.b = b]  OBVIOUS
  <2>6. q \in PanelType /\ q.at = "launch" /\ q.b = b /\ q.grant = o.grant  BY <2>5 DEF PanelType
  <2>7. PanelOK(c, q)'  BY <1>3, <2>1, <2>4, <2>6 DEF PanelOK, Owned
  <2>8. panel' = [panel EXCEPT ![c] = q]
    <3>1. panel' = [panel EXCEPT ![c] = [o EXCEPT !.at = "launch", !.b = b]]  BY <1>0, <1>3, <1>5 DEF PanelsInv
    <3> QED  BY <2>5, <3>1
  <2>9. CallsInv' /\ PanelsInv' /\ LaunchersInv'
    <3>1. call' = call  BY <1>1
    <3> QED  BY <1>0, <2>4, <2>6, <2>7, <2>8, <3>1, PanelSteps
  <2>10. ValuesInv' /\ R!ActsOnWhatWasListed'  BY <1>0, <1>2, <2>4, SettledKeeps
  <2>11. ListInv'
    <3>1. lostAnswers \/ \A d \in Talks : call'[<<d, "late">>].at = "none"  BY <1>0, <1>1 DEF ListInv
    <3>2. \A d \in Talks : tab'[d] # R!None => tab'[d] = tab[d] /\ chromium'[tab[d]].tags = chromium[tab[d]].tags
      <4> SUFFICES ASSUME NEW d \in Talks, tab'[d] # R!None
                   PROVE  tab'[d] = tab[d] /\ chromium'[tab[d]].tags = chromium[tab[d]].tags
        OBVIOUS
      <4>1. tab'[d] = tab[d]  BY <1>1
      <4>2. tab[d] \in Launches /\ chromium[tab[d]].st = "open"  BY <1>0, <4>1 DEF PoolInv, R!PoolIsLive, R!Open, R!Session
      <4> QED  BY <2>4, <4>1, <4>2
    <3>3. call' = call  BY <1>1
    <3> QED  BY <1>0, <2>1, <3>1, <3>2, <3>3, ListSteps
  <2>12. R!NavigationsWereAllowed  BY <2>4 DEF R!NavigationsWereAllowed
  <2> QED  BY <2>4, <2>9, <2>10, <2>11, <2>12 DEF BrowserInv
<1>6. CASE panel' = [panel EXCEPT ![c] = R!NoPanel] /\ UNCHANGED <<chromium, crossedClaims>>
  BY <1>1, <1>2, <1>6, NoPanelOK, PanelGoesOn
<1> QED  BY <1>1, <1>4, <1>5, <1>6

LEMMA PanelLaunchedKeeps == ASSUME BrowserInv, NEW c \in Talks, R!PanelLaunched(c)
                            PROVE  BrowserInv' /\ R!NavigationsWereAllowed
<1>0. ValuesInv /\ PoolInv /\ CallsInv /\ PanelsInv /\ LaunchersInv /\ ListInv /\ R!ActsOnWhatWasListed  BY DEF BrowserInv
<1>1. panel[c].at = "launch" /\ UNCHANGED <<R!settings, R!record, inputs>> /\ call' = call /\ crossedClaims' = crossedClaims
  BY DEF R!PanelLaunched
<1>2. Settled  BY <1>1, InputKeeps DEF BrowserInv
<1>3. PICK o \in PanelType : o = panel[c] /\ PanelOK(c, o)  BY <1>0 DEF PanelsInv, PanelOK
<1>4. PICK b \in Launches : b = o.b  BY <1>1, <1>3 DEF PanelOK
<1>5. /\ chromium[b].st = "launching" /\ chromium[b].conv = c /\ SessionOK(chromium[b]) /\ Unnumbered(chromium[b])
  BY <1>0, <1>1, <1>3, <1>4, BrowserAssumption DEF PanelOK, Owned, PoolInv, SessionOK, R!None
<1>6. PICK s : s = [chromium[b] EXCEPT !.st = "open"]  OBVIOUS
<1>7. SessionOK(s) /\ s.st = "open" /\ s.conv = c /\ Unnumbered(s) /\ s.page = chromium[b].page /\ s.asked = chromium[b].asked
  <2>1. PICK p \in SessionType : p = chromium[b]  BY <1>5 DEF SessionOK
  <2>2. s = [p EXCEPT !.st = "open"]  BY <1>6, <2>1
  <2>3. /\ s \in SessionType /\ s.st = "open" /\ s.conv = p.conv /\ s.tags = p.tags /\ s.page = p.page /\ s.asked = p.asked /\ s.grant = p.grant
        /\ s.shown = p.shown
    BY <2>2 DEF SessionType
  <2> QED  BY <1>5, <2>1, <2>3 DEF SessionOK, Unnumbered
<1>8. chromium' = [chromium EXCEPT ![b] = s] /\ tab' = [tab EXCEPT ![c] = b]
  BY <1>3, <1>4, <1>6 DEF R!PanelLaunched, R!Enter
<1>9. PICK q : q = [o EXCEPT !.at = "go"]  OBVIOUS
<1>10. q \in PanelType /\ q.at = "go" /\ q.b = b /\ q.grant = o.grant  BY <1>4, <1>9 DEF PanelType
<1>11. panel' = [panel EXCEPT ![c] = q]  BY <1>3, <1>9 DEF R!PanelLaunched
<1>12. panel'[c] = q /\ \A d \in Talks \ {c} : panel'[d] = panel[d]  BY <1>0, <1>11 DEF PanelsInv
<1>13. UNCHANGED <<everGranted, lostAnswers>>  BY <1>2 DEF Settled
<1>14. /\ \A j, x : CallOK(j, x) /\ ~(x.at = "launch" /\ x.b = b) => CallOK(j, x)'
       /\ \A d, x : PanelOK(d, x) /\ ~(x.at = "launch" /\ x.b = b) => PanelOK(d, x)'
  BY <1>0, <1>1, <1>5, <1>7, <1>8, <1>13, EnterKeeps
<1>15. CallsInv'
  <2>1. ASSUME NEW j \in Holders  PROVE CallOK(j, call[j])'
    <3>1. PICK x : x = call[j]  OBVIOUS
    <3>2. CallOK(j, x)  BY <1>0, <3>1 DEF CallsInv
    <3>3. ~(x.at = "launch" /\ x.b = b)  BY <1>0, <1>1, <1>3, <1>4, <3>1 DEF LaunchersInv
    <3>4. CallOK(j, x)'  BY <1>14, <3>2, <3>3
    <3> QED  BY <1>1, <3>1, <3>4 DEF CallOK, Owned
  <2> QED  BY <1>0, <1>1, <2>1 DEF CallsInv
<1>16. PanelsInv'
  <2>1. PanelOK(c, q)  BY <1>3, <1>4, <1>10 DEF PanelOK
  <2>2. PanelOK(c, q)'  BY <1>10, <1>14, <2>1
  <2>3. ASSUME NEW d \in Talks, d # c  PROVE PanelOK(d, panel[d])'
    <3>1. PICK x : x = panel[d]  OBVIOUS
    <3>2. PanelOK(d, x)  BY <1>0, <3>1 DEF PanelsInv
    <3>3. ~(x.at = "launch" /\ x.b = b)  BY <1>0, <1>1, <1>3, <1>4, <2>3, <3>1 DEF LaunchersInv
    <3>4. PanelOK(d, x)'  BY <1>14, <3>2, <3>3
    <3> QED  BY <1>12, <2>3, <3>1, <3>4 DEF PanelOK, Owned
  <2>4. \A d \in Talks : PanelOK(d, panel[d])'  BY <1>12, <2>2, <2>3 DEF PanelOK, Owned
  <2>5. panel' \in [Talks -> PanelType]  BY <1>0, <1>10, <1>11 DEF PanelsInv
  <2> QED  BY <2>4, <2>5 DEF PanelsInv
<1>17. LaunchersInv'  BY <1>0, <1>1, <1>10, <1>12 DEF LaunchersInv
<1>18. lostAnswers \/ \A d \in Talks : /\ call'[<<d, "late">>].at = "none"
                                       /\ d # c => call'[<<d, "agent">>] = call[<<d, "agent">>]
  BY <1>0, <1>1 DEF ListInv
<1> QED  BY <1>1, <1>2, <1>5, <1>7, <1>8, <1>15, <1>16, <1>17, <1>18, EnteredKeeps

LEMMA PanelWentKeeps == ASSUME BrowserInv, NEW c \in Talks, NEW to \in R!Leads(panel[c].host), R!PanelWent(c, to)
                        PROVE  BrowserInv' /\ R!NavigationsWereAllowed
<1>1. /\ panel[c].at = "go" /\ panel' = [panel EXCEPT ![c] = R!NoPanel]
      /\ UNCHANGED <<R!settings, R!record, inputs>> /\ UNCHANGED <<tab, call, crossedClaims>>
  BY DEF R!PanelWent
<1>2. Settled  BY <1>1, InputKeeps DEF BrowserInv
<1>3. PICK o \in PanelType : o = panel[c] /\ PanelOK(c, o)  BY DEF BrowserInv, PanelsInv, PanelOK
<1>4. PICK b \in Launches, h \in Hosts \cup {R!Blank} : b = o.b /\ h = o.host  BY <1>1, <1>3 DEF PanelOK, PanelType
<1>5. \/ chromium' = chromium
      \/ h # R!Blank /\ R!checkNavigation(chromium[b], h) /\ to \in Hosts /\ chromium' = [chromium EXCEPT ![b] = R!Load(chromium[b], h, to)]
  BY <1>3, <1>4, BrowserAssumption DEF R!PanelWent, R!Leads
<1>6. PICK q : q = R!NoPanel  OBVIOUS
<1>7. PanelOK(c, q) /\ q.at # "launch" /\ panel' = [panel EXCEPT ![c] = q]  BY <1>1, <1>6, NoPanelOK
<1>8. \/ chromium' = chromium
      \/ \E i \in Launches, g, t \in Hosts : /\ R!checkNavigation(chromium[i], g)
                                            /\ chromium' = [chromium EXCEPT ![i] = R!Load(chromium[i], g, t)]
  <2>1. CASE chromium' = chromium  BY <2>1
  <2>2. CASE chromium' # chromium
    <3>1. b \in Launches /\ h \in Hosts /\ to \in Hosts  BY <1>4, <1>5, <2>2
    <3> QED  BY <1>5, <2>2, <3>1
  <2> QED  BY <2>1, <2>2
<1> QED  BY <1>1, <1>2, <1>7, <1>8, PanelGoesOn

-----------------------------------------------------------------------------
LEMMA GrantKeeps == ASSUME BrowserInv, R!SetJs \/ \E h \in Hosts : R!Grant(h) \/ R!Revoke(h)
                    PROVE  BrowserInv' /\ R!NavigationsWereAllowed
<1>0. ValuesInv /\ PoolInv /\ CallsInv /\ PanelsInv /\ LaunchersInv /\ ListInv /\ R!ActsOnWhatWasListed  BY DEF BrowserInv
<1>1. UNCHANGED <<tab, chromium, call, panel, crossedClaims>> /\ UNCHANGED <<R!record>> /\ R!Input
  BY DEF R!SetJs, R!Grant, R!Revoke
<1>2. inputs' \in 0 .. MaxInputs  BY <1>0, <1>1, InputKeeps
<1>3. jsPolicy' \in BOOLEAN /\ approvals' \subseteq everGranted' /\ everGranted' \subseteq Hosts /\ everGranted \subseteq everGranted'
  BY <1>0 DEF R!SetJs, R!Grant, R!Revoke, ValuesInv
<1>4. UNCHANGED <<elements, lostAnswers, mistaken>>  BY <1>1 DEF R!record
<1>5. PoolInv' /\ HoldsOn  BY <1>0, <1>1, <1>3, SteadyKeeps
<1>6. CallsInv' /\ PanelsInv' /\ LaunchersInv'  BY <1>0, <1>1, <1>5, NobodySteps
<1>7. ValuesInv'  BY <1>0, <1>1, <1>2, <1>3, <1>4 DEF ValuesInv
<1>8. ListInv' /\ R!ActsOnWhatWasListed'  BY <1>0, <1>1, <1>4 DEF ListInv, R!ActsOnWhatWasListed
<1> QED  BY <1>1, <1>5, <1>6, <1>7, <1>8 DEF BrowserInv, R!NavigationsWereAllowed

LEMMA BrowserStutter == ASSUME BrowserInv, UNCHANGED R!browserVars  PROVE BrowserInv' /\ R!NavigationsWereAllowed
<1>1. ValuesInv /\ PoolInv /\ CallsInv /\ PanelsInv /\ LaunchersInv /\ ListInv /\ R!ActsOnWhatWasListed  BY DEF BrowserInv
<1>2. UNCHANGED <<tab, chromium, call, panel, crossedClaims>> /\ UNCHANGED <<R!settings, R!record>> /\ inputs' = inputs
      /\ everGranted' = everGranted
  BY DEF R!browserVars, R!settings, R!record
<1>3. Settled  BY <1>1, <1>2, InputKeeps
<1>4. PoolInv' /\ HoldsOn  BY <1>1, <1>2, SteadyKeeps
<1>5. CallsInv' /\ PanelsInv' /\ LaunchersInv'  BY <1>1, <1>2, <1>4, NobodySteps
<1>6. ValuesInv' /\ R!ActsOnWhatWasListed'  BY <1>1, <1>2, <1>3, SettledKeeps DEF ValuesInv
<1>7. ListInv'  BY <1>1, <1>2 DEF ListInv, R!record
<1> QED  BY <1>2, <1>4, <1>5, <1>6, <1>7 DEF BrowserInv, R!NavigationsWereAllowed

LEMMA BrowserStep == ASSUME BrowserInv, [R!Next]_(R!browserVars)  PROVE BrowserInv' /\ R!NavigationsWereAllowed
<1>1. CASE UNCHANGED R!browserVars  BY <1>1, BrowserStutter
<1>2. CASE R!Next
  <2>1. ASSUME NEW c \in Talks,
               \/ R!sweepIdle(c) \/ R!AskObserve(c) \/ R!AskClose(c) \/ R!LoseAnswer(c)
               \/ \E h \in Hosts : R!AskOpen(c, h) \/ R!AskNavigate(c, h)
               \/ \E r \in R!Refs : R!AskAct(c, r)
        PROVE  BrowserInv' /\ R!NavigationsWereAllowed
    BY <2>1, SweepKeeps, AskObserveKeeps, LoseAnswerKeeps, AskOpenKeeps, AskNavigateKeeps, AskActKeeps
  <2>2. ASSUME NEW k \in Holders, R!Checked(k) \/ R!Restarted(k) \/ R!Launched(k) \/ R!Observed(k) \/ \E to \in R!Leads(call[k].host) : R!Went(k, to)
        PROVE  BrowserInv' /\ R!NavigationsWereAllowed
    BY <2>2, CheckedKeeps, LaunchedKeeps, WentKeeps, ObservedKeeps
  <2>3. ASSUME NEW c \in Talks, \/ R!PanelClaim(c) \/ R!PanelLaunched(c) \/ R!PanelClose(c)
                                \/ (\E h \in Hosts \cup {R!Blank} : R!PanelOpen(c, h)) \/ \E to \in R!Leads(panel[c].host) : R!PanelWent(c, to)
        PROVE  BrowserInv' /\ R!NavigationsWereAllowed
    BY <2>3, PanelClaimKeeps, PanelLaunchedKeeps, PanelWentKeeps, SweepKeeps, PanelOpenKeeps
  <2>4. ASSUME NEW b \in Launches, (\E h, to \in Hosts : R!Follow(b, h, to)) \/ (\E e \in R!AllElements : R!Change(b, e))
        PROVE  BrowserInv' /\ R!NavigationsWereAllowed
    BY <2>4, FollowKeeps, ChangeKeeps
  <2>5. CASE R!SetJs \/ \E h \in Hosts : R!Grant(h) \/ R!Revoke(h)  BY <2>5, GrantKeeps
  <2>6. \A h \in Hosts : R!Leads(h) \subseteq Hosts  BY BrowserAssumption DEF R!Leads
  <2>7. CASE \E b \in Launches : (\E h \in Hosts : \E to \in R!Leads(h) : R!Follow(b, h, to)) \/ (\E e \in R!AllElements : R!Change(b, e))
    BY <2>4, <2>6, <2>7
  <2> QED  BY <1>2, <2>1, <2>2, <2>3, <2>5, <2>7, BrowserAssumption DEF R!Next, Holders
<1> QED  BY <1>1, <1>2

LEMMA BrowserTypes == BrowserInv => R!TypeOK
<1> SUFFICES ASSUME BrowserInv  PROVE R!TypeOK  OBVIOUS
<1>1. \A b \in Launches : chromium[b].st \in {"none", "launching", "open", "closed"} /\ chromium[b].tags \in [R!AllElements -> 0 .. 2]
  BY DEF BrowserInv, PoolInv, SessionType
<1>2. \A k \in Talks \X R!Actors : call[k].at \in {"none", "check", "restart", "launch", "go", "observe"}
  BY DEF BrowserInv, CallsInv, Holders, ToolCallType
<1>3. \A c \in Talks : panel[c].at \in {"none", "check", "launch", "go"}  BY DEF BrowserInv, PanelsInv, PanelType
<1>4. tab \in [Talks -> Launches \cup {R!None}]  BY DEF BrowserInv, PoolInv
<1> QED  BY <1>1, <1>2, <1>3, <1>4 DEF R!TypeOK, BrowserInv, ValuesInv

\* The agent's browser, for any conversations, hosts and processes: what the pool hands out runs and belongs to the
\* conversation, a process left behind is one of two crossed claims, an action hits what the agent meant unless an answer
\* was lost, and under the
\* orchestrator's grants a navigation starts only at a host that was granted, or approved for the session.
THEOREM BrowsersAreOwned ==
  R!Spec => [](R!TypeOK /\ R!PoolIsLive /\ R!StraysAreCrossed /\ R!ActsOnWhatWasListed) /\ [][R!NavigationsWereAllowed]_(R!browserVars)
<1>1. BrowserInv => R!TypeOK /\ R!PoolIsLive /\ R!StraysAreCrossed /\ R!ActsOnWhatWasListed
  BY BrowserTypes DEF BrowserInv, PoolInv
<1>2. BrowserInv /\ [R!Next]_(R!browserVars) => BrowserInv' /\ [R!NavigationsWereAllowed]_(R!browserVars)  BY BrowserStep
<1> QED  BY <1>1, <1>2, BrowserStart, PTL DEF R!Spec

-----------------------------------------------------------------------------
(* Connectors                                                              *)

Doings == {"none", "add", "edit", "reconnect", "disable", "delete", "env", "boot"}
ConnType == [made : BOOLEAN, name : C!Names \cup {"none"}, url : Urls \cup {"env", "none"}, token : Nat, client : BOOLEAN,
             connecting : BOOLEAN]
RequestType == [do : Doings, name : C!Names \cup {"none"}, url : Urls \cup {"env", "none"}, at : {"none", "stop", "connect", "list"},
                conn : C!AllConns \cup {C!None}]
CallerType == [at : {"none", "connect", "sent"}, conn : C!AllConns \cup {C!None}, again : BOOLEAN]
RowType == [saved : BOOLEAN, on : BOOLEAN, url : Urls \cup {"none"}]

InList == C!ToSet(connections)
SettingsInv ==
  /\ row \in [Custom -> RowType] /\ token \in [Custom -> 0 .. MaxEdits] /\ given \in [Custom -> 0 .. MaxEdits]
  /\ rowEdits \in 0 .. MaxEdits /\ failed \subseteq C!Names
  /\ tools \in [C!Names -> C!AllConns \cup {C!None}]
CallersInv == caller \in [Callers -> CallerType] /\ kept \in [Callers -> C!AllConns \cup {C!None}]
\* The list has no connection twice, and like the registry none that was not made.
ListOK ==
  /\ connections \in Seq(C!AllConns)
  /\ \A i, j \in DOMAIN connections : connections[i] = connections[j] => i = j
ConnsInv ==
  /\ conns \in [C!AllConns -> ConnType] /\ ListOK
  /\ conns[C!EnvConn].made /\ conns[C!EnvConn].name = C!Env
  /\ \A c \in C!AllConns : conns[c].connecting => ~conns[c].client
  /\ \A c \in InList : conns[c].made
  /\ \A n \in C!Names : tools[n] # C!None => conns[tools[n]].made
\* A request makes its own connection, which is not in the list yet.
RequestOK(q) ==
  /\ q \in RequestType
  /\ q.at = "none" => q.conn = C!None
  /\ q.at = "stop" => q.conn = C!None /\ q.name \in Custom /\ q.url \in Urls \cup {"none"}
                      /\ q.do \in {"edit", "reconnect", "disable", "delete"}
  /\ q.at \in {"connect", "list"} =>
       \/ q.do = "env" /\ q.name = C!Env /\ q.conn = C!EnvConn
       \/ /\ q.do \in {"add", "edit", "reconnect", "boot"} /\ q.name \in Custom /\ q.conn \in Conns
          /\ conns[q.conn].made /\ conns[q.conn].name = q.name /\ q.conn \notin InList
RequestsInv ==
  /\ request \in [C!Slots -> RequestType] /\ \A s \in C!Slots : RequestOK(request[s])
  /\ \A s, r \in C!Slots : request[s].conn = request[r].conn /\ request[s].conn \in Conns => s = r
\* An open connection, or one that is being opened, has an owner.
OpenInv ==
  \A c \in Conns :
    /\ conns[c].client => c \in InList \cup reopened \/ \E s \in C!Slots : request[s].conn = c
    /\ conns[c].connecting => c \in reopened \/ \E s \in C!Slots : request[s].at = "connect" /\ request[s].conn = c
Unlisted(n) == \A c \in InList : conns[c].name # n
InUse(n) ==
  /\ tools[n] # C!None /\ conns[tools[n]].url = row[n].url /\ conns[tools[n]].token = token[n] /\ conns[tools[n]].name = n
  /\ tools[n] \in InList /\ \A c \in InList : conns[c].name = n => c = tools[n]
\* A connector whose requests never crossed, at rest and in the middle of its request.
AtRest(n) ==
  /\ token[n] = given[n]
  /\ \/ tools[n] = C!None /\ Unlisted(n) /\ (row[n].on => n \in failed)
     \/ row[n].on /\ InUse(n)
Underway(n, q) ==
  /\ tools[n] = C!None /\ Unlisted(n)
  /\ q.do # "delete" => token[n] = given[n]
  /\ q.do = "delete" => given[n] = 0
  /\ q.do \in {"delete", "disable"} => ~row[n].on
  /\ q.do = "edit" => row[n].on /\ row[n].url = q.url
  /\ q.do = "reconnect" => row[n].saved /\ row[n].url = q.url
  /\ q.at \in {"connect", "list"} => row[n].on /\ row[n].url = q.url /\ conns[q.conn].url = q.url /\ conns[q.conn].token = token[n]
Of(s, n) == request[s].at # "none" /\ request[s].name = n
Sound(n) ==
  /\ ~C!Busy(n) => AtRest(n)
  /\ \A s \in C!Slots : Of(s, n) => Underway(n, request[s])
  /\ \A s, r \in C!Slots : Of(s, n) /\ Of(r, n) => s = r
UncrossedInv == \A n \in Custom : n \notin busyNames => Sound(n)
ConnectorsInv == SettingsInv /\ CallersInv /\ ConnsInv /\ RequestsInv /\ OpenInv /\ UncrossedInv

-----------------------------------------------------------------------------
LEMMA NamesApart == /\ C!Env \notin Custom /\ C!EnvConn \notin Conns /\ C!None \notin C!AllConns
                    /\ C!EnvConn \in C!AllConns /\ Conns \subseteq C!AllConns /\ C!AllConns = Conns \cup {C!EnvConn}
                    /\ Custom \subseteq C!Names /\ C!Env \in C!Names
BY ConnectorsAssumption DEF C!Env, C!EnvConn, C!None, C!AllConns, C!Names

LEMMA NoRequestOK == C!NoRequest \in RequestType /\ C!NoRequest.at = "none" /\ C!NoRequest.conn = C!None /\ RequestOK(C!NoRequest)
<1>1. C!NoRequest \in RequestType /\ C!NoRequest.at = "none" /\ C!NoRequest.conn = C!None
  BY DEF C!NoRequest, RequestType, Doings
<1> QED  BY <1>1 DEF RequestOK

LEMMA MadeOK == ASSUME NEW n \in C!Names \cup {"none"}, NEW u \in Urls \cup {"env", "none"}, NEW t \in Nat
                PROVE  /\ C!NewConn(n, u, t) \in ConnType
                       /\ LET x == C!NewConn(n, u, t) IN x.made /\ x.name = n /\ x.url = u /\ x.token = t /\ ~x.client /\ ~x.connecting
BY DEF C!NewConn, ConnType

LEMMA ConnectorsStart == C!Init => ConnectorsInv
<1> SUFFICES ASSUME C!Init  PROVE ConnectorsInv  OBVIOUS
<1>1. PICK e \in ConnType : /\ e = [C!NewConn(C!Env, "env", 0) EXCEPT !.client = TRUE]
                            /\ e.made /\ e.name = C!Env /\ ~e.connecting
  <2>1. PICK x \in ConnType : x = C!NewConn(C!Env, "env", 0) /\ x.made /\ x.name = C!Env /\ ~x.connecting
    BY MadeOK, NamesApart
  <2>2. PICK e : e = [x EXCEPT !.client = TRUE]  OBVIOUS
  <2>3. e \in ConnType /\ e.made /\ e.name = C!Env /\ ~e.connecting  BY <2>1, <2>2 DEF ConnType
  <2> QED  BY <2>1, <2>2, <2>3
<1>2. PICK z \in ConnType : z = C!NoConn /\ ~z.client /\ ~z.connecting
  <2>1. PICK x \in ConnType : x = C!NewConn("none", "none", 0) /\ ~x.client /\ ~x.connecting  BY MadeOK
  <2>2. PICK y : y = [x EXCEPT !.made = FALSE]  OBVIOUS
  <2>3. y \in ConnType /\ ~y.client /\ ~y.connecting  BY <2>1, <2>2 DEF ConnType
  <2> QED  BY <2>1, <2>2, <2>3 DEF C!NoConn
<1>3. conns = [c \in C!AllConns |-> IF c = C!EnvConn THEN e ELSE z]  BY <1>1, <1>2 DEF C!Init
<1>4. /\ conns \in [C!AllConns -> ConnType] /\ conns[C!EnvConn] = e /\ \A c \in Conns : conns[c] = z
  BY <1>3, NamesApart
<1>5. connections = <<C!EnvConn>> /\ connections \in Seq(C!AllConns) /\ InList = {C!EnvConn} /\ DOMAIN connections = {1}
  BY NamesApart DEF C!Init, InList, C!ToSet
<1>6. SettingsInv
  <2>1. C!NoRow \in RowType  BY DEF C!NoRow, RowType
  <2>2. row \in [Custom -> RowType]  BY <2>1 DEF C!Init
  <2>3. 0 \in 0 .. MaxEdits  BY EditsAssumption
  <2>4. tools \in [C!Names -> C!AllConns \cup {C!None}]  BY NamesApart DEF C!Init
  <2> QED  BY <2>2, <2>3, <2>4 DEF C!Init, SettingsInv
<1>7. CallersInv
  <2>1. C!Quiet \in CallerType  BY DEF C!Quiet, CallerType
  <2> QED  BY <2>1 DEF C!Init, CallersInv
<1>8. ConnsInv
  <2>1. \A c \in C!AllConns : conns[c].connecting => ~conns[c].client  BY <1>1, <1>2, <1>4, NamesApart
  <2>2. \A n \in C!Names : tools[n] # C!None => tools[n] = C!EnvConn  BY DEF C!Init
  <2> QED  BY <1>1, <1>4, <1>5, <2>1, <2>2 DEF ConnsInv, ListOK
<1>9. request \in [C!Slots -> RequestType] /\ \A s \in C!Slots : request[s] = C!NoRequest  BY NoRequestOK DEF C!Init
<1>10. RequestsInv  BY <1>9, NoRequestOK, NamesApart DEF RequestsInv
<1>11. OpenInv  BY <1>2, <1>4 DEF OpenInv
<1>12. UncrossedInv
  <2> SUFFICES ASSUME NEW n \in Custom  PROVE Sound(n)  BY DEF UncrossedInv
  <2>1. tools[n] = C!None /\ Unlisted(n)  BY <1>1, <1>4, <1>5, NamesApart DEF C!Init, Unlisted
  <2>2. ~row[n].on /\ token[n] = given[n]  BY DEF C!Init, C!NoRow
  <2> QED  BY <1>9, <2>1, <2>2, NoRequestOK DEF Sound, AtRest, Of
<1> QED  BY <1>6, <1>7, <1>8, <1>10, <1>11, <1>12 DEF ConnectorsInv

-----------------------------------------------------------------------------
(* The list of connections *)

LEMMA ListLeft == ASSUME ListOK, NEW i \in DOMAIN connections, connections' = C!RemoveAt(connections, i)
                  PROVE  ListOK' /\ InList' = InList \ {connections[i]} /\ connections[i] \in InList
<1>0. PICK l \in Nat : l = Len(connections)  BY LenProperties DEF ListOK
<1>1. connections \in Seq(C!AllConns) /\ DOMAIN connections = 1 .. l /\ i \in 1 .. l  BY <1>0, LenProperties DEF ListOK
<1>2. /\ connections' \in Seq(C!AllConns) /\ Len(connections') = l - 1
      /\ \A j \in 1 .. l - 1 : connections'[j] = IF j < i THEN connections[j] ELSE connections[j + 1]
  <2>1. connections' = P!RemoveAt(connections, i)  BY DEF P!RemoveAt, C!RemoveAt
  <2>2. i \in 1 .. Len(connections)  BY <1>0, <1>1
  <2> QED  BY <1>0, <1>1, <2>1, <2>2, RemovedAt
<1>3. DOMAIN connections' = 1 .. l - 1  BY <1>0, <1>2, LenProperties
<1>4. \A j \in 1 .. l - 1 : j + 1 \in 1 .. l /\ j \in 1 .. l  BY <1>0
<1>5. ASSUME NEW j \in 1 .. l - 1, NEW k \in 1 .. l - 1, connections'[j] = connections'[k]  PROVE j = k
  <2> DEFINE f(x) == IF x < i THEN x ELSE x + 1
  <2>1. f(j) \in 1 .. l /\ f(k) \in 1 .. l /\ connections'[j] = connections[f(j)] /\ connections'[k] = connections[f(k)]
    BY <1>2, <1>4
  <2>2. f(j) = f(k)  BY <1>1, <1>5, <2>1 DEF ListOK
  <2> QED  BY <1>0, <1>1, <2>2
<1>6. ListOK'  BY <1>2, <1>3, <1>5 DEF ListOK
<1>7. ASSUME NEW j \in 1 .. l - 1  PROVE connections'[j] \in InList \ {connections[i]}
  <2> DEFINE x == IF j < i THEN j ELSE j + 1
  <2>1. x \in 1 .. l /\ x # i /\ connections'[j] = connections[x]  BY <1>0, <1>1, <1>2, <1>4
  <2>2. connections[x] # connections[i]  BY <1>1, <2>1 DEF ListOK
  <2> QED  BY <1>1, <2>1, <2>2 DEF InList, C!ToSet
<1>8. ASSUME NEW j \in 1 .. l, connections[j] # connections[i]  PROVE connections[j] \in InList'
  <2> DEFINE x == IF j < i THEN j ELSE j - 1
  <2>1. j # i  BY <1>8
  <2>2. x \in 1 .. l - 1 /\ (IF x < i THEN x ELSE x + 1) = j  BY <1>0, <1>1, <2>1
  <2>3. connections'[x] = connections[j]  BY <1>2, <2>2
  <2> QED  BY <1>3, <2>2, <2>3 DEF InList, C!ToSet
<1>9. InList' = InList \ {connections[i]}
  <2>1. InList' \subseteq InList \ {connections[i]}  BY <1>3, <1>7 DEF InList, C!ToSet
  <2>2. InList \ {connections[i]} \subseteq InList'  BY <1>1, <1>8 DEF InList, C!ToSet
  <2> QED  BY <2>1, <2>2
<1>10. connections[i] \in InList  BY DEF InList, C!ToSet
<1> QED  BY <1>6, <1>9, <1>10

LEMMA ListGrown == ASSUME ListOK, NEW c \in C!AllConns, c \notin InList, connections' = Append(connections, c)
                   PROVE  ListOK' /\ InList' = InList \cup {c}
<1>0. PICK l \in Nat : l = Len(connections)  BY LenProperties DEF ListOK
<1>1. connections \in Seq(C!AllConns) /\ DOMAIN connections = 1 .. l  BY <1>0, LenProperties DEF ListOK
<1>2. /\ connections' \in Seq(C!AllConns) /\ Len(connections') = l + 1 /\ connections'[l + 1] = c
      /\ \A j \in 1 .. l : connections'[j] = connections[j]
  BY <1>0, <1>1, AppendProperties
<1>3. DOMAIN connections' = 1 .. l + 1  BY <1>0, <1>2, LenProperties
<1>4. \A j \in 1 .. l : connections[j] \in InList  BY <1>1 DEF InList, C!ToSet
<1>5. \A j \in 1 .. l + 1 : j \in 1 .. l \/ j = l + 1  BY <1>0
<1>6. \A j, k \in 1 .. l + 1 : connections'[j] = connections'[k] => j = k  BY <1>1, <1>2, <1>4, <1>5 DEF ListOK
<1>7. InList' = InList \cup {c}
  <2>1. \A j \in 1 .. l + 1 : connections'[j] \in InList \cup {c}  BY <1>2, <1>4, <1>5
  <2>2. \A j \in 1 .. l : j \in 1 .. l + 1  BY <1>0
  <2>3. l + 1 \in 1 .. l + 1  BY <1>0
  <2> QED  BY <1>1, <1>2, <1>3, <2>1, <2>2, <2>3 DEF InList, C!ToSet
<1> QED  BY <1>2, <1>3, <1>6, <1>7 DEF ListOK

-----------------------------------------------------------------------------
(* What a step leaves alone *)

\* A connection keeps what it was made with.
Grown ==
  /\ conns' \in [C!AllConns -> ConnType]
  /\ \A c \in C!AllConns : conns[c].made => /\ conns'[c].made /\ conns'[c].name = conns[c].name /\ conns'[c].url = conns[c].url
                                            /\ conns'[c].token = conns[c].token
Undisturbed(n) ==
  /\ row'[n] = row[n] /\ token'[n] = token[n] /\ given'[n] = given[n] /\ tools'[n] = tools[n] /\ (n \in failed => n \in failed')
  /\ \A c \in InList' : conns'[c].name = n => c \in InList
  /\ \A c \in InList : conns[c].name = n => c \in InList'
\* A connection's client comes and goes.
Flagged(c, x) ==
  /\ x \in ConnType /\ x.made = conns[c].made /\ x.name = conns[c].name /\ x.url = conns[c].url /\ x.token = conns[c].token
  /\ x.connecting => ~x.client
  /\ conns' = [conns EXCEPT ![c] = x]

LEMMA FlaggedGrown == ASSUME ConnsInv, NEW c \in C!AllConns, NEW x, Flagged(c, x)
                      PROVE  /\ Grown /\ conns'[c] = x /\ \A d \in C!AllConns \ {c} : conns'[d] = conns[d]
                             /\ \A d \in C!AllConns : conns'[d].connecting => ~conns'[d].client
<1>1. conns \in [C!AllConns -> ConnType] /\ x \in ConnType  BY DEF ConnsInv, Flagged
<1>2. conns'[c] = x /\ \A d \in C!AllConns \ {c} : conns'[d] = conns[d]  BY <1>1 DEF Flagged
<1>3. conns' \in [C!AllConns -> ConnType]  BY <1>1 DEF Flagged
<1>4. Grown  BY <1>2, <1>3 DEF Flagged, Grown
<1>5. \A d \in C!AllConns : conns'[d].connecting => ~conns'[d].client  BY <1>2 DEF Flagged, ConnsInv
<1> QED  BY <1>2, <1>4, <1>5

LEMMA SameGrown == ASSUME ConnsInv, conns' = conns  PROVE Grown  BY DEF ConnsInv, Grown

LEMMA ListIsMade == ASSUME ConnsInv  PROVE InList \subseteq C!AllConns /\ \A c \in InList : conns[c].made
<1>1. \A i \in DOMAIN connections : connections[i] \in C!AllConns
  <2>1. connections \in Seq(C!AllConns) /\ DOMAIN connections = 1 .. Len(connections)  BY LenProperties DEF ConnsInv, ListOK
  <2> QED  BY <2>1, ElementOfSeq
<1> QED  BY <1>1 DEF ConnsInv, InList, C!ToSet

LEMMA ConnsSteps ==
  ASSUME ConnsInv, Grown, ListOK', \A c \in InList' : c \in InList \/ conns'[c].made,
         \A n \in C!Names : tools'[n] \in {tools[n], C!None} \/ conns'[tools'[n]].made,
         \A c \in C!AllConns : conns'[c].connecting => ~conns'[c].client,
         tools \in [C!Names -> C!AllConns \cup {C!None}]
  PROVE  ConnsInv'
<1>1. conns'[C!EnvConn].made /\ conns'[C!EnvConn].name = C!Env  BY NamesApart DEF ConnsInv, Grown
<1>2. \A c \in InList' : conns'[c].made  BY ListIsMade DEF Grown
<1>3. ASSUME NEW n \in C!Names, tools'[n] # C!None  PROVE conns'[tools'[n]].made
  <2>1. CASE tools'[n] = tools[n]  BY <1>3, <2>1 DEF ConnsInv, Grown
  <2> QED  BY <1>3, <2>1
<1> QED  BY <1>1, <1>2, <1>3 DEF ConnsInv, Grown

LEMMA RestStays ==
  ASSUME ConnsInv, Grown, NEW n \in Custom, Undisturbed(n), tools \in [C!Names -> C!AllConns \cup {C!None}]
  PROVE  /\ AtRest(n) => AtRest(n)'
         /\ \A q : RequestOK(q) /\ Underway(n, q) => Underway(n, q)'
<1>1. ASSUME NEW c \in InList', conns'[c].name = n  PROVE c \in InList /\ conns[c].name = n
  <2>1. c \in InList  BY <1>1 DEF Undisturbed
  <2> QED  BY <1>1, <2>1, ListIsMade DEF Grown
<1>2. Unlisted(n) => Unlisted(n)'  BY <1>1 DEF Unlisted
<1>3. ASSUME tools[n] # C!None
      PROVE  /\ tools[n] \in C!AllConns /\ conns'[tools[n]].url = conns[tools[n]].url
             /\ conns'[tools[n]].token = conns[tools[n]].token /\ conns'[tools[n]].name = conns[tools[n]].name
  <2>1. tools[n] \in C!AllConns /\ conns[tools[n]].made  BY <1>3, NamesApart DEF ConnsInv
  <2> QED  BY <2>1 DEF Grown
<1>4. InUse(n) => InUse(n)'  BY <1>1, <1>3 DEF InUse, Undisturbed
<1>5. AtRest(n) => AtRest(n)'  BY <1>2, <1>4 DEF AtRest, Undisturbed
<1>6. ASSUME NEW q, RequestOK(q), Underway(n, q)  PROVE Underway(n, q)'
  <2>1. q.at \in {"connect", "list"} => conns'[q.conn].url = conns[q.conn].url /\ conns'[q.conn].token = conns[q.conn].token
    BY <1>6, NamesApart DEF RequestOK, ConnsInv, Grown
  <2> QED  BY <1>2, <1>6, <2>1 DEF Underway, Undisturbed
<1> QED  BY <1>5, <1>6

LEMMA NameStays ==
  ASSUME ConnsInv, RequestsInv, Grown, NEW n \in Custom, Undisturbed(n), tools \in [C!Names -> C!AllConns \cup {C!None}],
         Sound(n), \A s \in C!Slots : Of(s, n) \/ Of(s, n)' => request'[s] = request[s]
  PROVE  Sound(n)'
<1>1. \A s \in C!Slots : (Of(s, n) <=> Of(s, n)') /\ (Of(s, n) => request'[s] = request[s])  BY DEF Of
<1>2. C!Busy(n) <=> C!Busy(n)'  BY <1>1 DEF C!Busy, Of
<1>3. ~C!Busy(n)' => AtRest(n)'  BY <1>2, RestStays DEF Sound
<1>4. ASSUME NEW s \in C!Slots, Of(s, n)'  PROVE Underway(n, request[s])'
  <2>1. PICK q : q = request[s]  OBVIOUS
  <2>2. RequestOK(q) /\ Underway(n, q)  BY <1>1, <1>4, <2>1 DEF RequestsInv, Sound
  <2>3. Underway(n, q)'  BY <2>2, RestStays
  <2>4. request'[s] = q  BY <1>1, <1>4, <2>1
  <2> QED  BY <2>3, <2>4 DEF Underway, Unlisted
<1>5. \A s, r \in C!Slots : Of(s, n)' /\ Of(r, n)' => s = r  BY <1>1 DEF Sound
<1> QED  BY <1>3, <1>4, <1>5 DEF Sound

LEMMA NameSteps ==
  ASSUME NEW n \in Custom, NEW s \in C!Slots, NEW q, request \in [C!Slots -> RequestType], request' = [request EXCEPT ![s] = q],
         request[s].at = "none" => ~C!Busy(n), Sound(n), request[s].at # "none" => request[s].name = n,
         q.at = "none" => AtRest(n)', q.at # "none" => q.name = n /\ Underway(n, q)'
  PROVE  Sound(n)'
<1>1. request'[s] = q /\ \A r \in C!Slots \ {s} : request'[r] = request[r]  OBVIOUS
<1>2. \A r \in C!Slots \ {s} : ~Of(r, n)  BY DEF Sound, Of, C!Busy
<1>3. \A r \in C!Slots \ {s} : ~Of(r, n)'  BY <1>1, <1>2 DEF Of
<1>4. q.at # "none" => C!Busy(n)'  BY <1>1 DEF C!Busy
<1>5. \A r \in C!Slots : Of(r, n)' => r = s /\ q.at # "none"  BY <1>1, <1>3 DEF Of
<1>6. \A r \in C!Slots : Of(r, n)' => Underway(n, request[r])'
  <2> SUFFICES ASSUME NEW r \in C!Slots, Of(r, n)'  PROVE Underway(n, request[r])'  OBVIOUS
  <2>1. r = s /\ Underway(n, q)' /\ request'[r] = q  BY <1>1, <1>5
  <2> QED  BY <2>1 DEF Underway, Unlisted
<1> QED  BY <1>4, <1>5, <1>6 DEF Sound

LEMMA RequestSteps ==
  ASSUME RequestsInv, ConnsInv, Grown, NEW s \in C!Slots, NEW q, RequestOK(q)', request' = [request EXCEPT ![s] = q],
         q.conn \in Conns => q.conn = request[s].conn \/ ~conns[q.conn].made,
         \A c \in InList' : c \in InList \/ c = request[s].conn
  PROVE  RequestsInv'
<1>1. q \in RequestType /\ request \in [C!Slots -> RequestType]  BY DEF RequestOK, RequestsInv
<1>2. request'[s] = q /\ \A r \in C!Slots \ {s} : request'[r] = request[r]  BY <1>1
<1>3. ASSUME NEW r \in C!Slots, r # s, request[r].conn \in Conns
      PROVE  request[r].conn # q.conn /\ request[r].conn # request[s].conn /\ conns[request[r].conn].made
  <2>1. request[r].conn # request[s].conn  BY <1>3 DEF RequestsInv
  <2>2. request[r].at \in {"none", "stop", "connect", "list"} /\ RequestOK(request[r])  BY <1>1 DEF RequestsInv, RequestType
  <2>3. conns[request[r].conn].made  BY <1>3, <2>2, NamesApart DEF RequestOK
  <2> QED  BY <1>3, <2>1, <2>3
<1>4. ASSUME NEW r \in C!Slots  PROVE RequestOK(request[r])'
  <2>1. CASE r = s  BY <1>2, <2>1 DEF RequestOK
  <2>2. CASE r # s
    <3>1. PICK o : o = request[r] /\ RequestOK(o)  BY DEF RequestsInv
    <3>2. o.conn \in Conns => o.conn \notin InList \/ o.at \notin {"connect", "list"}  BY <3>1, NamesApart DEF RequestOK
    <3>3. o.conn \in Conns /\ o.at \in {"connect", "list"} => o.conn \notin InList'  BY <1>3, <2>2, <3>1, <3>2
    <3>4. o.conn \in Conns /\ o.at \in {"connect", "list"} => conns'[o.conn].made /\ conns'[o.conn].name = conns[o.conn].name
      BY <1>3, <2>2, <3>1, NamesApart DEF Grown
    <3>5. RequestOK(o)'  BY <3>1, <3>3, <3>4 DEF RequestOK
    <3> QED  BY <1>2, <2>2, <3>1, <3>5 DEF RequestOK
  <2> QED  BY <2>1, <2>2
<1>5. \A r, t \in C!Slots : request'[r].conn = request'[t].conn /\ request'[r].conn \in Conns => r = t
  BY <1>2, <1>3 DEF RequestsInv
<1>6. request' \in [C!Slots -> RequestType]  BY <1>1
<1> QED  BY <1>4, <1>5, <1>6 DEF RequestsInv

LEMMA QuietSteps ==
  ASSUME ConnectorsInv, Grown, UNCHANGED <<connections, request, row, token, given, tools, failed>>, busyNames' = busyNames
  PROVE  RequestsInv' /\ UncrossedInv'
<1>1. ConnsInv /\ RequestsInv /\ UncrossedInv /\ tools \in [C!Names -> C!AllConns \cup {C!None}]
  BY DEF ConnectorsInv, SettingsInv
<1>2. InList' = InList  BY DEF InList
<1>3. RequestsInv'
  <2>1. ASSUME NEW r \in C!Slots  PROVE RequestOK(request[r])'
    <3>1. PICK o : o = request[r] /\ RequestOK(o)  BY <1>1 DEF RequestsInv
    <3>2. o.conn \in Conns /\ o.at \in {"connect", "list"} => conns'[o.conn].made /\ conns'[o.conn].name = conns[o.conn].name
      BY <3>1, NamesApart DEF RequestOK, Grown
    <3>3. RequestOK(o)'  BY <1>2, <3>1, <3>2 DEF RequestOK
    <3> QED  BY <3>1, <3>3 DEF RequestOK
  <2> QED  BY <1>1, <2>1 DEF RequestsInv
<1>4. ASSUME NEW n \in Custom, n \notin busyNames'  PROVE Sound(n)'
  <2>1. Undisturbed(n)
    <3>1. \A c \in InList' : conns'[c].name = n => c \in InList  BY <1>2
    <3> QED  BY <1>2, <3>1 DEF Undisturbed
  <2>2. Sound(n)  BY <1>1, <1>4 DEF UncrossedInv
  <2> QED  BY <1>1, <2>1, <2>2, NameStays
<1> QED  BY <1>3, <1>4 DEF UncrossedInv

LEMMA CutOK == ASSUME CallersInv, NEW c  PROVE C!Cut(c) \in [Callers -> CallerType]
<1>1. C!Quiet \in CallerType  BY DEF C!Quiet, CallerType
<1> QED  BY <1>1 DEF CallersInv, C!Cut

\* What is open stays owned when a request without a connection goes on.
LEMMA OpenSteps ==
  ASSUME OpenInv, request \in [C!Slots -> RequestType], NEW s \in C!Slots, NEW q, request' = [request EXCEPT ![s] = q],
         request[s].conn \notin Conns, reopened \subseteq reopened',
         \A c \in Conns : conns'[c].client => (conns[c].client /\ (c \in InList => c \in InList')) \/ q.conn = c,
         \A c \in Conns : conns'[c].connecting => conns[c].connecting \/ c \in reopened' \/ (q.at = "connect" /\ q.conn = c)
  PROVE  OpenInv'
<1>1. request'[s] = q /\ \A r \in C!Slots \ {s} : request'[r] = request[r]  OBVIOUS
<1>2. ASSUME NEW c \in Conns, NEW r \in C!Slots, request[r].conn = c  PROVE request'[r] = request[r]
  BY <1>1, <1>2
<1>3. ASSUME NEW c \in Conns, conns'[c].client
      PROVE  c \in InList' \cup reopened' \/ \E r \in C!Slots : request'[r].conn = c
  <2>1. CASE q.conn = c  BY <1>1, <2>1
  <2>2. CASE q.conn # c
    <3>1. conns[c].client /\ (c \in InList => c \in InList')  BY <1>3, <2>2
    <3>2. c \in InList \cup reopened \/ \E r \in C!Slots : request[r].conn = c  BY <3>1 DEF OpenInv
    <3> QED  BY <1>2, <3>1, <3>2
  <2> QED  BY <2>1, <2>2
<1>4. ASSUME NEW c \in Conns, conns'[c].connecting
      PROVE  c \in reopened' \/ \E r \in C!Slots : request'[r].at = "connect" /\ request'[r].conn = c
  <2>1. CASE conns[c].connecting
    <3>1. c \in reopened \/ \E r \in C!Slots : request[r].at = "connect" /\ request[r].conn = c  BY <2>1 DEF OpenInv
    <3> QED  BY <1>2, <3>1
  <2>2. CASE ~conns[c].connecting  BY <1>1, <1>4, <2>2
  <2> QED  BY <2>1, <2>2
<1> QED  BY <1>3, <1>4 DEF OpenInv

-----------------------------------------------------------------------------
(* Settings *)

\* What a request of Settings writes is about its own connector.
Writes(n) ==
  /\ row' \in [Custom -> RowType] /\ token' \in [Custom -> 0 .. MaxEdits] /\ given' \in [Custom -> 0 .. MaxEdits]
  /\ \A m \in Custom \ {n} : row'[m] = row[m] /\ token'[m] = token[m] /\ given'[m] = given[m]

LEMMA ArrivesOK == ASSUME SettingsInv, RequestsInv, NEW s \in C!Slots, NEW n, C!Arrives(s, n)
                   PROVE  /\ rowEdits' \in 0 .. MaxEdits /\ rowEdits' = rowEdits + 1 /\ request[s].at = "none" /\ request[s].conn = C!None
                          /\ busyNames \subseteq busyNames' /\ (n \notin busyNames' => n \notin busyNames /\ ~C!Busy(n))
                          /\ \A m : m # n => (m \in busyNames' <=> m \in busyNames)
<1>1. rowEdits' = rowEdits + 1 /\ rowEdits < MaxEdits  BY DEF C!Arrives
<1>2. rowEdits' \in 0 .. MaxEdits  BY <1>1, EditsAssumption DEF SettingsInv
<1>3. request[s].at = "none" /\ request[s].conn = C!None  BY DEF C!Arrives, RequestsInv, RequestOK
<1> QED  BY <1>1, <1>2, <1>3 DEF C!Arrives

LEMMA StopKeeps ==
  ASSUME ConnectorsInv, NEW s \in C!Slots, NEW n \in Custom, NEW u \in Urls \cup {"none"},
         NEW do \in {"edit", "reconnect", "disable", "delete"}, C!Arrives(s, n), C!stop(s, n, u, do), Writes(n),
         UNCHANGED <<failed, kept, reopened>>,
         token[n] = given[n] /\ do # "delete" => token'[n] = given'[n],
         do = "delete" => given'[n] = 0, do \in {"delete", "disable"} => ~row'[n].on,
         do = "edit" => row'[n].on /\ row'[n].url = u, do = "reconnect" => row'[n].saved /\ row'[n].url = u
  PROVE  ConnectorsInv'
<1>1. SettingsInv /\ CallersInv /\ ConnsInv /\ RequestsInv /\ OpenInv /\ UncrossedInv  BY DEF ConnectorsInv
<1>2. /\ rowEdits' \in 0 .. MaxEdits /\ request[s].at = "none" /\ request[s].conn = C!None
      /\ busyNames \subseteq busyNames' /\ (n \notin busyNames' => n \notin busyNames /\ ~C!Busy(n))
      /\ \A m : m # n => (m \in busyNames' <=> m \in busyNames)
  BY <1>1, ArrivesOK
<1>3. tools' = [tools EXCEPT ![n] = C!None] /\ tools \in [C!Names -> C!AllConns \cup {C!None}]
  BY <1>1 DEF C!stop, C!Without, SettingsInv
<1>4. /\ tools' \in [C!Names -> C!AllConns \cup {C!None}] /\ tools'[n] = C!None
      /\ \A m \in C!Names \ {n} : tools'[m] = tools[m]
  BY <1>3, NamesApart
<1>5. PICK q : q = [do |-> do, name |-> n, url |-> u, at |-> "stop", conn |-> C!None]  OBVIOUS
<1>6. q \in RequestType /\ q.do = do /\ q.name = n /\ q.url = u /\ q.at = "stop" /\ q.conn = C!None
  BY <1>5, NamesApart DEF RequestType, Doings
<1>7. request' = [request EXCEPT ![s] = q]  BY <1>5 DEF C!stop
<1>8. RequestOK(q)'  BY <1>6 DEF RequestOK
<1>9. SettingsInv'  BY <1>1, <1>2, <1>4 DEF SettingsInv, Writes
\* The list, without the connection that had the name.
<1>10. /\ Grown /\ ListOK' /\ InList' \subseteq InList /\ CallersInv'
       /\ \A c \in InList : c \in InList' \/ (conns[c].name = n /\ ~conns'[c].client)
       /\ \A c \in C!AllConns : /\ conns'[c].connecting => ~conns'[c].client
                                /\ conns'[c].client => conns[c].client
                                /\ conns'[c].connecting => conns[c].connecting
       /\ Unlisted(n) \/ InUse(n) => Unlisted(n)'
  <2>1. CASE C!Named(n) = {} /\ UNCHANGED <<connections, conns, caller>>
    <3>1. \A i \in DOMAIN connections : conns[connections[i]].name # n  BY <2>1 DEF C!Named
    <3>2. Unlisted(n)  BY <3>1 DEF Unlisted, InList, C!ToSet
    <3> QED  BY <1>1, <2>1, <3>2, SameGrown DEF InList, ConnsInv, ListOK, CallersInv, Unlisted
  <2>2. ASSUME NEW i \in C!Named(n), connections' = C!RemoveAt(connections, i), caller' = C!Cut(connections[i]),
               conns' = [conns EXCEPT ![connections[i]].client = FALSE]
        PROVE  /\ Grown /\ ListOK' /\ InList' \subseteq InList /\ CallersInv'
               /\ \A c \in InList : c \in InList' \/ (conns[c].name = n /\ ~conns'[c].client)
               /\ \A c \in C!AllConns : /\ conns'[c].connecting => ~conns'[c].client
                                        /\ conns'[c].client => conns[c].client
                                        /\ conns'[c].connecting => conns[c].connecting
               /\ Unlisted(n) \/ InUse(n) => Unlisted(n)'
    <3>1. i \in DOMAIN connections /\ conns[connections[i]].name = n  BY DEF C!Named
    <3>2. ListOK' /\ InList' = InList \ {connections[i]} /\ connections[i] \in InList  BY <1>1, <2>2, <3>1, ListLeft DEF ConnsInv
    <3>3. PICK c \in C!AllConns : c = connections[i]  BY <1>1, <3>2, ListIsMade
    <3>4. PICK o \in ConnType : o = conns[c]  BY <1>1 DEF ConnsInv
    <3>5. PICK x : x = [o EXCEPT !.client = FALSE]  OBVIOUS
    <3>6. /\ x \in ConnType /\ x.made = o.made /\ x.name = o.name /\ x.url = o.url /\ x.token = o.token /\ ~x.client
          /\ x.connecting = o.connecting
      BY <3>5 DEF ConnType
    <3>7. conns' = [conns EXCEPT ![c] = x]
      <4>1. conns' = [conns EXCEPT ![c].client = FALSE]  BY <2>2, <3>3
      <4>2. conns' = [conns EXCEPT ![c] = [o EXCEPT !.client = FALSE]]  BY <1>1, <3>4, <4>1 DEF ConnsInv
      <4> QED  BY <3>5, <4>2
    <3>8. Flagged(c, x)  BY <3>4, <3>6, <3>7 DEF Flagged
    <3>9. /\ Grown /\ conns'[c] = x /\ \A d \in C!AllConns \ {c} : conns'[d] = conns[d]
          /\ \A d \in C!AllConns : conns'[d].connecting => ~conns'[d].client
      BY <1>1, <3>8, FlaggedGrown
    <3>10. CallersInv'
      <4>1. caller' \in [Callers -> CallerType]  BY <1>1, <2>2, CutOK
      <4> QED  BY <1>1, <4>1 DEF CallersInv
    <3>11. Unlisted(n) \/ InUse(n) => Unlisted(n)'
      <4>1. ~Unlisted(n)  BY <3>1, <3>2 DEF Unlisted
      <4>2. ASSUME InUse(n), NEW d \in InList'  PROVE conns'[d].name # n
        <5>1. d \in InList /\ d # c /\ d \in C!AllConns  BY <1>1, <3>2, <3>3, <4>2, ListIsMade
        <5>2. conns[c].name = n /\ c \in InList  BY <3>1, <3>2, <3>3
        <5>3. conns[d].name # n  BY <4>2, <5>1, <5>2 DEF InUse
        <5> QED  BY <3>9, <5>1, <5>3
      <4> QED  BY <4>1, <4>2 DEF Unlisted
    <3>12. \A d \in InList : d \in InList' \/ (conns[d].name = n /\ ~conns'[d].client)
      BY <3>1, <3>2, <3>3, <3>6, <3>9
    <3> QED  BY <3>2, <3>4, <3>6, <3>9, <3>10, <3>11, <3>12
  <2> QED  BY <2>1, <2>2 DEF C!stop
<1>11. ConnsInv'  BY <1>1, <1>3, <1>4, <1>10, ConnsSteps
<1>12. RequestsInv'  BY <1>1, <1>6, <1>7, <1>8, <1>10, NamesApart, RequestSteps
<1>13. OpenInv'
  <2>1. request \in [C!Slots -> RequestType] /\ request[s].conn \notin Conns  BY <1>1, <1>2, NamesApart DEF RequestsInv
  <2>2. \A c \in Conns : conns'[c].client => (conns[c].client /\ (c \in InList => c \in InList'))  BY <1>10, NamesApart
  <2>3. \A c \in Conns : conns'[c].connecting => conns[c].connecting  BY <1>10, NamesApart
  <2>4. reopened \subseteq reopened'  OBVIOUS
  <2> QED  BY <1>1, <1>7, <2>1, <2>2, <2>3, <2>4, OpenSteps
<1>14. ASSUME NEW m \in Custom, m \notin busyNames'  PROVE Sound(m)'
  <2>1. CASE m # n
    <3>1. Undisturbed(m)
      <4>1. \A c \in InList : conns[c].name = m => c \in InList'  BY <1>10, <2>1
      <4> QED  BY <1>4, <1>10, <2>1, <4>1, NamesApart DEF Undisturbed, Writes
    <3>2. Sound(m)  BY <1>1, <1>2, <1>14, <2>1 DEF UncrossedInv
    <3>3. \A r \in C!Slots : Of(r, m) \/ Of(r, m)' => request'[r] = request[r]
      <4>1. request'[s] = q /\ \A r \in C!Slots \ {s} : request'[r] = request[r]  BY <1>1, <1>7 DEF RequestsInv
      <4> QED  BY <1>2, <1>6, <2>1, <4>1 DEF Of
    <3> QED  BY <1>1, <1>3, <1>10, <3>1, <3>2, <3>3, NameStays
  <2>2. CASE m = n
    <3>1. Sound(n) /\ ~C!Busy(n) /\ AtRest(n)  BY <1>1, <1>2, <1>14, <2>2 DEF UncrossedInv, Sound
    <3>2. Unlisted(n)' /\ token[n] = given[n]  BY <1>10, <3>1 DEF AtRest
    <3>3. Underway(n, q)'  BY <1>4, <1>6, <3>2 DEF Underway
    <3>4. request \in [C!Slots -> RequestType]  BY <1>1 DEF RequestsInv
    <3> QED  BY <1>2, <1>6, <1>7, <2>2, <3>1, <3>3, <3>4, NameSteps
  <2> QED  BY <2>1, <2>2
<1> QED  BY <1>9, <1>10, <1>11, <1>12, <1>13, <1>14 DEF ConnectorsInv, UncrossedInv

LEMMA StartKeeps ==
  ASSUME ConnectorsInv, NEW s \in C!Slots, NEW n \in Custom, NEW u \in Urls \cup {"none"}, NEW do \in {"add", "edit", "reconnect"},
         C!start(s, n, u, do), Writes(n), UNCHANGED <<connections, tools, failed, caller, kept, reopened>>,
         rowEdits' \in 0 .. MaxEdits, request[s].conn = C!None, \A m : m # n => (m \in busyNames' <=> m \in busyNames),
         request[s].at # "none" => request[s].name = n,
         n \notin busyNames' => /\ n \notin busyNames /\ (request[s].at = "none" => ~C!Busy(n))
                                /\ token'[n] = given'[n] /\ tools[n] = C!None /\ Unlisted(n)
                                /\ row'[n].on /\ row'[n].url = u /\ (do = "reconnect" => row'[n].saved)
  PROVE  ConnectorsInv'
<1>1. SettingsInv /\ CallersInv /\ ConnsInv /\ RequestsInv /\ OpenInv /\ UncrossedInv  BY DEF ConnectorsInv
<1>2. PICK t \in Nat : t = token'[n]  BY EditsAssumption DEF Writes
<1>3. PICK c \in Conns : /\ ~conns[c].made
                         /\ conns' = [conns EXCEPT ![c] = [C!NewConn(n, u, t) EXCEPT !.connecting = TRUE]]
                         /\ request' = [request EXCEPT ![s] = [do |-> do, name |-> n, url |-> u, at |-> "connect", conn |-> c]]
  BY <1>2 DEF C!start
<1>4. PICK x : x = [C!NewConn(n, u, t) EXCEPT !.connecting = TRUE]  OBVIOUS
<1>5. x \in ConnType /\ x.made /\ x.name = n /\ x.url = u /\ x.token = t /\ ~x.client /\ x.connecting
  <2>1. PICK y \in ConnType : y = C!NewConn(n, u, t) /\ y.made /\ y.name = n /\ y.url = u /\ y.token = t /\ ~y.client
    BY MadeOK, NamesApart
  <2> QED  BY <1>4, <2>1 DEF ConnType
<1>6. PICK q : q = [do |-> do, name |-> n, url |-> u, at |-> "connect", conn |-> c]  OBVIOUS
<1>7. q \in RequestType /\ q.do = do /\ q.name = n /\ q.url = u /\ q.at = "connect" /\ q.conn = c
  BY <1>6, NamesApart DEF RequestType, Doings
<1>8. conns' = [conns EXCEPT ![c] = x] /\ request' = [request EXCEPT ![s] = q]  BY <1>3, <1>4, <1>6
<1>9. c \in C!AllConns /\ conns \in [C!AllConns -> ConnType]  BY <1>1, NamesApart DEF ConnsInv
<1>10. /\ conns' \in [C!AllConns -> ConnType] /\ conns'[c] = x
       /\ \A d \in C!AllConns \ {c} : conns'[d] = conns[d]
  BY <1>5, <1>8, <1>9
<1>11. Grown  BY <1>3, <1>10 DEF Grown
<1>12. InList' = InList /\ ListOK' /\ c \notin InList  BY <1>1, <1>3, ListIsMade DEF InList, ConnsInv, ListOK
<1>13. SettingsInv' /\ CallersInv'  BY <1>1 DEF SettingsInv, Writes, CallersInv
<1>14. \A d \in C!AllConns : conns'[d].connecting => ~conns'[d].client  BY <1>1, <1>5, <1>10 DEF ConnsInv
<1>15. ConnsInv'
  <2>1. tools \in [C!Names -> C!AllConns \cup {C!None}]  BY <1>1 DEF SettingsInv
  <2> QED  BY <1>1, <1>11, <1>12, <1>14, <2>1, ConnsSteps
<1>16. RequestOK(q)'  BY <1>5, <1>7, <1>10, <1>12 DEF RequestOK
<1>17. RequestsInv'  BY <1>1, <1>3, <1>7, <1>8, <1>11, <1>12, <1>16, RequestSteps
<1>18. OpenInv'
  <2>1. request \in [C!Slots -> RequestType] /\ request[s].conn \notin Conns  BY <1>1, NamesApart DEF RequestsInv
  <2>2. \A d \in Conns : conns'[d].client => (conns[d].client /\ (d \in InList => d \in InList'))
    BY <1>5, <1>10, <1>12, NamesApart
  <2>3. \A d \in Conns : conns'[d].connecting => conns[d].connecting \/ (q.at = "connect" /\ q.conn = d)
    BY <1>7, <1>10, NamesApart
  <2>4. reopened \subseteq reopened'  OBVIOUS
  <2> QED  BY <1>1, <1>8, <2>1, <2>2, <2>3, <2>4, OpenSteps
<1>19. ASSUME NEW m \in Custom, m \notin busyNames'  PROVE Sound(m)'
  <2>0. tools \in [C!Names -> C!AllConns \cup {C!None}] /\ request \in [C!Slots -> RequestType]
    BY <1>1 DEF SettingsInv, RequestsInv
  <2>1. CASE m # n
    <3>1. Undisturbed(m)
      <4>1. \A d \in InList' : conns'[d].name = m => d \in InList  BY <1>12
      <4> QED  BY <1>12, <2>1, <4>1 DEF Undisturbed, Writes
    <3>2. Sound(m)  BY <1>1, <1>19, <2>1 DEF UncrossedInv
    <3>3. \A r \in C!Slots : Of(r, m) \/ Of(r, m)' => request'[r] = request[r]
      <4>1. request'[s] = q /\ \A r \in C!Slots \ {s} : request'[r] = request[r]  BY <1>8, <2>0
      <4> QED  BY <1>7, <2>1, <4>1 DEF Of
    <3> QED  BY <1>1, <1>11, <2>0, <3>1, <3>2, <3>3, NameStays
  <2>2. CASE m = n
    <3>1. Sound(n)  BY <1>1, <1>19, <2>2 DEF UncrossedInv
    <3>2. Unlisted(n)'
      <4>1. \A d \in InList : conns'[d] = conns[d]  BY <1>1, <1>10, <1>12, ListIsMade
      <4> QED  BY <1>12, <1>19, <2>2, <4>1 DEF Unlisted
    <3>3. Underway(n, q)'  BY <1>2, <1>5, <1>7, <1>10, <1>19, <2>2, <3>2 DEF Underway
    <3> QED  BY <1>7, <1>8, <1>19, <2>0, <2>2, <3>1, <3>3, NameSteps
  <2> QED  BY <2>1, <2>2
<1> QED  BY <1>13, <1>15, <1>17, <1>18, <1>19 DEF ConnectorsInv, UncrossedInv

\* The token field.
LEMMA TokenGiven == ASSUME SettingsInv, NEW n \in Custom, NEW t \in {"same", "none", "new"}, rowEdits + 1 \in 0 .. MaxEdits,
                           C!SetToken(n, t), NEW r \in RowType, row' = [row EXCEPT ![n] = r]
                    PROVE  Writes(n) /\ token'[n] = given'[n] /\ row'[n] = r
<1>1. PICK v : /\ v = (CASE t = "same" -> token[n] [] t = "none" -> 0 [] t = "new" -> rowEdits + 1)
               /\ token' = [token EXCEPT ![n] = v] /\ given' = [given EXCEPT ![n] = v]
  BY DEF C!SetToken
<1>2. v \in 0 .. MaxEdits
  <2>1. 0 \in 0 .. MaxEdits /\ token[n] \in 0 .. MaxEdits  BY EditsAssumption DEF SettingsInv
  <2>2. CASE t = "same"  BY <1>1, <2>1, <2>2
  <2>3. CASE t = "none"  BY <1>1, <2>1, <2>3
  <2>4. CASE t = "new"  BY <1>1, <2>4
  <2> QED  BY <2>2, <2>3, <2>4
<1> QED  BY <1>1, <1>2 DEF Writes, SettingsInv

LEMMA AddKeeps == ASSUME ConnectorsInv, NEW s \in C!Slots, NEW n \in Custom, NEW u \in Urls, NEW t \in {"same", "none", "new"},
                         C!Add(s, n, u, t)
                  PROVE  ConnectorsInv'
<1>1. SettingsInv /\ ConnsInv /\ RequestsInv /\ UncrossedInv  BY DEF ConnectorsInv
<1>2. /\ C!Arrives(s, n) /\ C!SetToken(n, t) /\ C!start(s, n, u, "add") /\ C!Named(n) = {}
      /\ row' = [row EXCEPT ![n] = [saved |-> TRUE, on |-> TRUE, url |-> u]]
      /\ UNCHANGED <<connections, tools, failed, caller, kept, reopened>>
  BY DEF C!Add, C!calls
<1>3. /\ rowEdits' \in 0 .. MaxEdits /\ rowEdits' = rowEdits + 1 /\ request[s].at = "none" /\ request[s].conn = C!None
      /\ (n \notin busyNames' => n \notin busyNames /\ ~C!Busy(n))
      /\ \A m : m # n => (m \in busyNames' <=> m \in busyNames)
  BY <1>1, <1>2, ArrivesOK
<1>4. PICK r \in RowType : r = [saved |-> TRUE, on |-> TRUE, url |-> u] /\ r.saved /\ r.on /\ r.url = u
  <2>1. [saved |-> TRUE, on |-> TRUE, url |-> u] \in RowType  BY DEF RowType
  <2>2. PICK r : r = [saved |-> TRUE, on |-> TRUE, url |-> u]  OBVIOUS
  <2>3. r.saved /\ r.on /\ r.url = u  BY <2>2
  <2> QED  BY <2>1, <2>2, <2>3
<1>5. Writes(n) /\ token'[n] = given'[n] /\ row'[n] = r  BY <1>1, <1>2, <1>3, <1>4, TokenGiven
<1>6. \A i \in DOMAIN connections : conns[connections[i]].name # n  BY <1>2 DEF C!Named
<1>7. Unlisted(n)  BY <1>6 DEF Unlisted, InList, C!ToSet
<1>8. n \notin busyNames' => tools[n] = C!None
  <2>1. n \notin busyNames' => AtRest(n)  BY <1>1, <1>3 DEF UncrossedInv, Sound
  <2> QED  BY <1>7, <2>1 DEF AtRest, InUse, Unlisted
<1> QED  BY <1>2, <1>3, <1>4, <1>5, <1>7, <1>8, StartKeeps

LEMMA EditKeeps == ASSUME ConnectorsInv, NEW s \in C!Slots, NEW n \in Custom, NEW u \in Urls, NEW t \in {"same", "none", "new"},
                          C!Edit(s, n, u, t)
                   PROVE  ConnectorsInv'
<1>1. SettingsInv /\ RequestsInv  BY DEF ConnectorsInv
<1>2. /\ C!Arrives(s, n) /\ C!SetToken(n, t) /\ C!stop(s, n, u, "edit")
      /\ row' = [row EXCEPT ![n] = [saved |-> TRUE, on |-> TRUE, url |-> u]]
      /\ UNCHANGED <<failed, kept, reopened>>
  BY DEF C!Edit
<1>3. rowEdits + 1 \in 0 .. MaxEdits  BY <1>1, <1>2, ArrivesOK
<1>4. PICK r \in RowType : r = [saved |-> TRUE, on |-> TRUE, url |-> u] /\ r.saved /\ r.on /\ r.url = u
  <2>1. [saved |-> TRUE, on |-> TRUE, url |-> u] \in RowType  BY DEF RowType
  <2>2. PICK r : r = [saved |-> TRUE, on |-> TRUE, url |-> u]  OBVIOUS
  <2>3. r.saved /\ r.on /\ r.url = u  BY <2>2
  <2> QED  BY <2>1, <2>2, <2>3
<1>5. Writes(n) /\ token'[n] = given'[n] /\ row'[n] = r  BY <1>1, <1>2, <1>3, <1>4, TokenGiven
<1> QED  BY <1>2, <1>4, <1>5, StopKeeps

LEMMA ReconnectKeeps == ASSUME ConnectorsInv, NEW s \in C!Slots, NEW n \in Custom, C!Reconnect(s, n)  PROVE ConnectorsInv'
<1>1. /\ C!Arrives(s, n) /\ row[n].saved /\ C!stop(s, n, row[n].url, "reconnect")
      /\ UNCHANGED <<row, token, given>> /\ UNCHANGED <<failed, kept, reopened>>
  BY DEF C!Reconnect
<1>2. PICK u \in Urls \cup {"none"} : u = row[n].url  BY DEF ConnectorsInv, SettingsInv, RowType
<1>3. Writes(n)  BY <1>1 DEF Writes, ConnectorsInv, SettingsInv
<1>4. C!stop(s, n, u, "reconnect")  BY <1>1, <1>2
<1> QED  BY <1>1, <1>2, <1>3, <1>4, StopKeeps

LEMMA OffKeeps == ASSUME ConnectorsInv, NEW s \in C!Slots, NEW n \in Custom, C!Disable(s, n) \/ C!Delete(s, n)
                  PROVE  ConnectorsInv'
<1>1. row \in [Custom -> RowType] /\ token \in [Custom -> 0 .. MaxEdits] /\ given \in [Custom -> 0 .. MaxEdits]
  BY DEF ConnectorsInv, SettingsInv
<1>2. CASE C!Disable(s, n)
  <2>1. /\ C!Arrives(s, n) /\ row' = [row EXCEPT ![n].on = FALSE] /\ C!stop(s, n, "none", "disable")
        /\ UNCHANGED <<token, given>> /\ UNCHANGED <<failed, kept, reopened>>
    BY <1>2 DEF C!Disable
  <2>2. Writes(n) /\ ~row'[n].on  BY <1>1, <2>1 DEF Writes, RowType
  <2> QED  BY <2>1, <2>2, StopKeeps
<1>3. CASE C!Delete(s, n)
  <2>1. /\ C!Arrives(s, n) /\ row' = [row EXCEPT ![n] = C!NoRow] /\ C!stop(s, n, "none", "delete")
        /\ given' = [given EXCEPT ![n] = 0] /\ UNCHANGED <<failed, kept, reopened>> /\ token' = token
    BY <1>3 DEF C!Delete
  <2>2. C!NoRow \in RowType /\ ~C!NoRow.on  BY DEF C!NoRow, RowType
  <2>3. 0 \in 0 .. MaxEdits  BY EditsAssumption
  <2>4. Writes(n) /\ ~row'[n].on /\ given'[n] = 0  BY <1>1, <2>1, <2>2, <2>3 DEF Writes
  <2> QED  BY <2>1, <2>4, StopKeeps
<1> QED  BY <1>2, <1>3

\* A step of a request changes what is said of its own connector only.
LEMMA OneName ==
  ASSUME ConnectorsInv, Grown, NEW s \in C!Slots, NEW q, NEW n \in Custom, request' = [request EXCEPT ![s] = q],
         request[s].at # "none", request[s].name = n, q.at # "none" => q.name = n, busyNames' = busyNames,
         \A m \in Custom \ {n} : Undisturbed(m),
         n \notin busyNames => (q.at = "none" => AtRest(n)') /\ (q.at # "none" => Underway(n, q)')
  PROVE  UncrossedInv'
<1>1. /\ ConnsInv /\ RequestsInv /\ UncrossedInv /\ tools \in [C!Names -> C!AllConns \cup {C!None}]
      /\ request \in [C!Slots -> RequestType]
  BY DEF ConnectorsInv, SettingsInv, RequestsInv
<1> SUFFICES ASSUME NEW m \in Custom, m \notin busyNames'  PROVE Sound(m)'  BY DEF UncrossedInv
<1>2. Sound(m)  BY <1>1 DEF UncrossedInv
<1>3. CASE m # n
  <2>1. request'[s] = q /\ \A r \in C!Slots \ {s} : request'[r] = request[r]  BY <1>1
  <2>2. \A r \in C!Slots : Of(r, m) \/ Of(r, m)' => request'[r] = request[r]  BY <1>3, <2>1 DEF Of
  <2>3. Undisturbed(m)  BY <1>3
  <2> QED  BY <1>1, <1>2, <2>2, <2>3, NameStays
<1>4. CASE m = n
  <2>1. (q.at = "none" => AtRest(n)') /\ (q.at # "none" => q.name = n /\ Underway(n, q)')  BY <1>4
  <2> QED  BY <1>1, <1>2, <1>4, <2>1, NameSteps
<1> QED  BY <1>3, <1>4

LEMMA StoppedKeeps == ASSUME ConnectorsInv, NEW s \in C!Slots, C!Stopped(s)  PROVE ConnectorsInv'
<1>1. SettingsInv /\ CallersInv /\ ConnsInv /\ RequestsInv /\ OpenInv /\ UncrossedInv  BY DEF ConnectorsInv
<1>2. PICK o : o = request[s]  OBVIOUS
<1>3. /\ o \in RequestType /\ o.at = "stop" /\ o.conn = C!None /\ o.name \in Custom /\ o.url \in Urls \cup {"none"}
      /\ o.do \in {"edit", "reconnect", "disable", "delete"}
  BY <1>1, <1>2 DEF RequestsInv, RequestOK, C!Stopped
<1>4. PICK n \in Custom : n = o.name  BY <1>3
<1>5. n \notin busyNames => Sound(n) /\ Underway(n, o)
  BY <1>1, <1>2, <1>3, <1>4 DEF UncrossedInv, Sound, Of
<1>6. UNCHANGED <<given, connections, tools>> /\ UNCHANGED <<caller, kept, reopened>> /\ rowEdits' = rowEdits
      /\ busyNames' = busyNames
  BY DEF C!Stopped, C!calls, C!bounds
<1>7. CASE o.do \in {"edit", "reconnect"}
  <2>1. /\ row' = IF o.do = "reconnect" /\ row[n].saved THEN [row EXCEPT ![n].on = TRUE] ELSE row
        /\ token' = token /\ C!start(s, n, o.url, o.do) /\ failed' = failed
    BY <1>2, <1>4, <1>7 DEF C!Stopped
  <2>2. PICK v \in BOOLEAN : v = (o.do = "reconnect" /\ row[n].saved)  OBVIOUS
  <2>3. PICK w \in RowType : w = row[n]  BY <1>1 DEF SettingsInv
  <2>4. PICK x : x = [w EXCEPT !.on = TRUE]  OBVIOUS
  <2>5. x \in RowType /\ x.on /\ x.saved = w.saved /\ x.url = w.url  BY <2>3, <2>4 DEF RowType
  <2>6. /\ row' \in [Custom -> RowType] /\ \A m \in Custom \ {n} : row'[m] = row[m]
        /\ row'[n] = IF v THEN x ELSE w
    <3>1. CASE v
      <4>1. row' = [row EXCEPT ![n] = x]  BY <1>1, <2>1, <2>2, <2>3, <2>4, <3>1 DEF SettingsInv
      <4> QED  BY <1>1, <2>5, <3>1, <4>1 DEF SettingsInv
    <3>2. CASE ~v
      <4>1. row' = row  BY <2>1, <2>2, <3>2
      <4> QED  BY <1>1, <2>3, <3>2, <4>1 DEF SettingsInv
    <3> QED  BY <3>1, <3>2
  <2>7. Writes(n)  BY <1>1, <1>6, <2>1, <2>6 DEF Writes, SettingsInv
  <2>8. PICK do \in {"add", "edit", "reconnect"} : do = o.do  BY <1>7
  <2>9. PICK u \in Urls \cup {"none"} : u = o.url  BY <1>3
  <2>10. n \notin busyNames => /\ token'[n] = given'[n] /\ tools[n] = C!None /\ Unlisted(n)
                               /\ row'[n].on /\ row'[n].url = u /\ (do = "reconnect" => row'[n].saved)
    <3> SUFFICES ASSUME n \notin busyNames
                 PROVE  /\ token'[n] = given'[n] /\ tools[n] = C!None /\ Unlisted(n)
                        /\ row'[n].on /\ row'[n].url = u /\ (do = "reconnect" => row'[n].saved)
      OBVIOUS
    <3>1. token[n] = given[n] /\ tools[n] = C!None /\ Unlisted(n)  BY <1>5, <1>7 DEF Underway
    <3>2. CASE do = "edit"
      <4>1. ~v /\ w.on /\ w.url = u  BY <1>5, <2>2, <2>3, <2>8, <2>9, <3>2 DEF Underway
      <4> QED  BY <1>6, <2>1, <2>6, <3>1, <3>2, <4>1
    <3>3. CASE do = "reconnect"
      <4>1. v /\ w.saved /\ w.url = u  BY <1>5, <2>2, <2>3, <2>8, <2>9, <3>3 DEF Underway
      <4> QED  BY <1>6, <2>1, <2>5, <2>6, <3>1, <3>3, <4>1
    <3> QED  BY <1>7, <2>8, <3>2, <3>3
  <2>11. C!start(s, n, u, do)  BY <2>1, <2>8, <2>9
  <2>12. request[s].conn = C!None /\ request[s].at # "none" /\ request[s].name = n  BY <1>2, <1>3, <1>4
  <2>13. rowEdits' \in 0 .. MaxEdits  BY <1>1, <1>6 DEF SettingsInv
  <2> QED  BY <1>6, <2>1, <2>7, <2>10, <2>11, <2>12, <2>13, StartKeeps
<1>8. CASE o.do \in {"disable", "delete"}
  <2>1. /\ request' = [request EXCEPT ![s] = C!NoRequest] /\ failed' = failed \ {n} /\ UNCHANGED <<row, conns>>
        /\ token' = IF o.do = "delete" THEN [token EXCEPT ![n] = 0] ELSE token
    BY <1>2, <1>4, <1>8 DEF C!Stopped
  <2>2. /\ token' \in [Custom -> 0 .. MaxEdits] /\ \A m \in Custom \ {n} : token'[m] = token[m]
        /\ token'[n] = IF o.do = "delete" THEN 0 ELSE token[n]
    <3>1. 0 \in 0 .. MaxEdits  BY EditsAssumption
    <3> QED  BY <1>1, <2>1, <3>1 DEF SettingsInv
  <2>3. SettingsInv'  BY <1>1, <1>6, <2>1, <2>2 DEF SettingsInv
  <2>4. CallersInv'  BY <1>1, <1>6 DEF CallersInv
  <2>5. Grown /\ InList' = InList /\ ListOK'  BY <1>1, <1>6, <2>1, SameGrown DEF InList, ListOK, ConnsInv
  <2>6. ConnsInv'  BY <1>1, <1>6, <2>1 DEF ConnsInv, ListOK, InList
  <2>7. PICK q : q = C!NoRequest /\ q.at = "none" /\ q.conn = C!None /\ RequestOK(q)  BY NoRequestOK
  <2>8. request' = [request EXCEPT ![s] = q]  BY <2>1, <2>7
  <2>9. RequestOK(q)'  BY <2>7 DEF RequestOK
  <2>10. RequestsInv'  BY <1>1, <2>5, <2>7, <2>8, <2>9, NamesApart, RequestSteps
  <2>11. OpenInv'
    <3>1. request \in [C!Slots -> RequestType] /\ request[s].conn \notin Conns
      BY <1>1, <1>2, <1>3, NamesApart DEF RequestsInv
    <3>2. \A c \in Conns : conns'[c].client => (conns[c].client /\ (c \in InList => c \in InList'))  BY <2>1, <2>5
    <3>3. \A c \in Conns : conns'[c].connecting => conns[c].connecting  BY <2>1
    <3>4. reopened \subseteq reopened'  BY <1>6
    <3> QED  BY <1>1, <2>8, <3>1, <3>2, <3>3, <3>4, OpenSteps
  <2>12. \A m \in Custom \ {n} : Undisturbed(m)
    <3>1. \A m \in Custom \ {n} : m \in failed => m \in failed'  BY <2>1
    <3> QED  BY <1>6, <2>1, <2>2, <2>5, <3>1 DEF Undisturbed
  <2>13. n \notin busyNames => AtRest(n)'
    <3>1. n \notin busyNames => /\ tools[n] = C!None /\ Unlisted(n) /\ ~row[n].on
                                /\ IF o.do = "delete" THEN given[n] = 0 ELSE token[n] = given[n]
      BY <1>5, <1>8 DEF Underway
    <3>2. Unlisted(n) => Unlisted(n)'  BY <2>1, <2>5 DEF Unlisted
    <3> QED  BY <1>6, <2>1, <2>2, <3>1, <3>2 DEF AtRest
  <2>14. UncrossedInv'
    <3>1. request[s].at # "none" /\ request[s].name = n  BY <1>2, <1>3, <1>4
    <3> QED  BY <1>6, <2>5, <2>7, <2>8, <2>12, <2>13, <3>1, OneName
  <2> QED  BY <2>3, <2>4, <2>6, <2>10, <2>11, <2>14 DEF ConnectorsInv
<1> QED  BY <1>3, <1>7, <1>8

-----------------------------------------------------------------------------
(* The attempt to connect, and what it brings *)

LEMMA ConnectingFlags ==
  ASSUME ConnsInv, NEW c \in C!AllConns, conns' = C!Connecting(conns, c)
  PROVE  /\ Grown
         /\ \A d \in C!AllConns : /\ conns'[d].connecting => ~conns'[d].client
                                  /\ conns'[d].client => conns[d].client
                                  /\ conns'[d].connecting => conns[d].connecting \/ d = c
<1>1. conns \in [C!AllConns -> ConnType]  BY DEF ConnsInv
<1>2. PICK o \in ConnType : o = conns[c]  BY <1>1
<1>3. PICK x : x = [o EXCEPT !.connecting = TRUE, !.client = FALSE]  OBVIOUS
<1>4. x \in ConnType /\ x.made = o.made /\ x.name = o.name /\ x.url = o.url /\ x.token = o.token /\ ~x.client
  BY <1>3 DEF ConnType
<1>5. conns' = [conns EXCEPT ![c] = x]
  <2>1. conns' = [conns EXCEPT ![c].connecting = TRUE, ![c].client = FALSE]  BY DEF C!Connecting
  <2>2. conns' = [conns EXCEPT ![c] = [o EXCEPT !.connecting = TRUE, !.client = FALSE]]  BY <1>1, <1>2, <2>1
  <2> QED  BY <1>3, <2>2
<1>6. Flagged(c, x)  BY <1>2, <1>4, <1>5 DEF Flagged
<1>7. /\ Grown /\ conns'[c] = x /\ \A d \in C!AllConns \ {c} : conns'[d] = conns[d]
      /\ \A d \in C!AllConns : conns'[d].connecting => ~conns'[d].client
  BY <1>6, FlaggedGrown
<1> QED  BY <1>4, <1>7

LEMMA ConnectEndsKeeps == ASSUME ConnectorsInv, NEW c \in C!AllConns, NEW ok \in BOOLEAN, C!ConnectEnds(c, ok)
                          PROVE  ConnectorsInv'
<1>1. SettingsInv /\ CallersInv /\ ConnsInv /\ RequestsInv /\ OpenInv /\ UncrossedInv  BY DEF ConnectorsInv
<1> DEFINE Waits(s) == request[s].at = "connect" /\ request[s].conn = c
<1>2. /\ conns[c].connecting
      /\ conns' = [conns EXCEPT ![c].connecting = FALSE, ![c].client = ok]
      /\ request' = [s \in C!Slots |-> IF ~Waits(s) THEN request[s] ELSE IF ok THEN [request[s] EXCEPT !.at = "list"] ELSE C!NoRequest]
      /\ failed' = IF ok THEN failed ELSE failed \cup {request[s].name : s \in {r \in C!Slots : Waits(r)}}
      /\ UNCHANGED <<row, token, given, connections, tools, kept, reopened>>
      /\ rowEdits' = rowEdits /\ busyNames' = busyNames
  BY DEF C!ConnectEnds, C!bounds
<1>3. conns \in [C!AllConns -> ConnType] /\ request \in [C!Slots -> RequestType]
      /\ tools \in [C!Names -> C!AllConns \cup {C!None}]
  BY <1>1 DEF ConnsInv, RequestsInv, SettingsInv
<1>4. /\ Grown
      /\ \A d \in C!AllConns : conns'[d].connecting => ~conns'[d].client
      /\ \A d \in C!AllConns \ {c} : conns'[d] = conns[d]
      /\ ~conns'[c].connecting /\ (conns'[c].client => ok)
  <2>1. PICK o \in ConnType : o = conns[c]  BY <1>3
  <2>2. PICK x : x = [o EXCEPT !.connecting = FALSE, !.client = ok]  OBVIOUS
  <2>3. /\ x \in ConnType /\ x.made = o.made /\ x.name = o.name /\ x.url = o.url /\ x.token = o.token
        /\ ~x.connecting /\ (x.client => ok)
    BY <2>2 DEF ConnType
  <2>4. conns' = [conns EXCEPT ![c] = x]
    <3>1. conns' = [conns EXCEPT ![c] = [o EXCEPT !.connecting = FALSE, !.client = ok]]  BY <1>2, <1>3, <2>1
    <3> QED  BY <2>2, <3>1
  <2>5. Flagged(c, x)  BY <2>1, <2>3, <2>4 DEF Flagged
  <2>6. /\ Grown /\ conns'[c] = x /\ \A d \in C!AllConns \ {c} : conns'[d] = conns[d]
        /\ \A d \in C!AllConns : conns'[d].connecting => ~conns'[d].client
    BY <1>1, <2>5, FlaggedGrown
  <2> QED  BY <2>3, <2>6
\* A request of its own, after the step.
<1>5. ASSUME NEW s \in C!Slots
      PROVE  \E q \in RequestType : /\ request'[s] = q
                                    /\ ~Waits(s) => q = request[s]
                                    /\ Waits(s) /\ ok => /\ q.at = "list" /\ q.do = request[s].do /\ q.name = request[s].name
                                                         /\ q.url = request[s].url /\ q.conn = request[s].conn
                                    /\ Waits(s) /\ ~ok => q = C!NoRequest
  <2>1. PICK o \in RequestType : o = request[s]  BY <1>3
  <2>2. PICK x : x = [o EXCEPT !.at = "list"]  OBVIOUS
  <2>3. x \in RequestType /\ x.at = "list" /\ x.do = o.do /\ x.name = o.name /\ x.url = o.url /\ x.conn = o.conn
    BY <2>1, <2>2 DEF RequestType
  <2>4. PICK q : q = IF ~Waits(s) THEN o ELSE IF ok THEN x ELSE C!NoRequest  OBVIOUS
  <2>5. request'[s] = q  BY <1>2, <2>1, <2>2, <2>4
  <2>6. q \in RequestType  BY <2>1, <2>3, <2>4, NoRequestOK
  <2> QED  BY <2>1, <2>3, <2>4, <2>5, <2>6
<1> HIDE DEF Waits
<1>6. InList' = InList  BY <1>2 DEF InList
<1>7. SettingsInv'
  <2>1. ASSUME NEW s \in C!Slots, Waits(s)  PROVE request[s].name \in C!Names
    BY <1>1, <2>1, NamesApart DEF Waits, RequestsInv, RequestOK
  <2>2. failed' \subseteq C!Names  BY <1>1, <1>2, <2>1 DEF SettingsInv
  <2> QED  BY <1>1, <1>2, <2>2 DEF SettingsInv
<1>8. CallersInv'
  <2> DEFINE calling(p) == caller[p].at = "connect" /\ caller[p].conn = c
  <2>1. caller' = [p \in Callers |-> IF ~calling(p) THEN caller[p] ELSE IF ok THEN [caller[p] EXCEPT !.at = "sent"] ELSE C!Quiet]
    BY DEF C!ConnectEnds
  <2>2. C!Quiet \in CallerType  BY DEF C!Quiet, CallerType
  <2>3. \A o \in CallerType : [o EXCEPT !.at = "sent"] \in CallerType  BY DEF CallerType
  <2>4. \A p \in Callers : caller[p] \in CallerType  BY <1>1 DEF CallersInv
  <2>5. caller' \in [Callers -> CallerType]  BY <2>1, <2>2, <2>3, <2>4
  <2> QED  BY <1>1, <1>2, <2>5 DEF CallersInv
<1>9. ListOK'  BY <1>1, <1>2 DEF ListOK, ConnsInv
<1>10. ConnsInv'  BY <1>1, <1>2, <1>3, <1>4, <1>6, <1>9, ConnsSteps
<1>11. RequestsInv'
  <2>1. request' \in [C!Slots -> RequestType]
    <3>1. \A s \in C!Slots : request'[s] \in RequestType  BY <1>5
    <3>2. DOMAIN request' = C!Slots /\ request' = [s \in C!Slots |-> request'[s]]  BY <1>2
    <3> QED  BY <3>1, <3>2
  <2>2. ASSUME NEW s \in C!Slots  PROVE RequestOK(request[s])' /\ request'[s].conn \in {request[s].conn, C!None}
    <3>1. PICK o \in RequestType : o = request[s] /\ RequestOK(o)  BY <1>1, <1>3 DEF RequestsInv
    <3>2. PICK q \in RequestType : /\ request'[s] = q
                                   /\ ~Waits(s) => q = o
                                   /\ Waits(s) /\ ok => /\ q.at = "list" /\ q.do = o.do /\ q.name = o.name
                                                        /\ q.url = o.url /\ q.conn = o.conn
                                   /\ Waits(s) /\ ~ok => q = C!NoRequest
      BY <1>5, <3>1
    <3>3. o.conn \in Conns /\ o.at \in {"connect", "list"} =>
            conns'[o.conn].made /\ conns'[o.conn].name = conns[o.conn].name /\ o.conn \notin InList'
      BY <1>4, <1>6, <3>1, NamesApart DEF RequestOK, Grown
    <3>4. RequestOK(o)'  BY <1>6, <3>1, <3>3 DEF RequestOK
    <3>5. CASE ~Waits(s)  BY <3>1, <3>2, <3>4, <3>5 DEF RequestOK
    <3>6. CASE Waits(s) /\ ok
      <4>1. o.at = "connect"  BY <3>1, <3>6 DEF Waits
      <4>2. RequestOK(q)'  BY <3>2, <3>4, <3>6, <4>1 DEF RequestOK
      <4> QED  BY <3>1, <3>2, <3>6, <4>2 DEF RequestOK
    <3>7. CASE Waits(s) /\ ~ok
      <4>1. q = C!NoRequest /\ RequestOK(q)' /\ q.conn = C!None  BY <3>2, <3>7, NoRequestOK DEF RequestOK
      <4> QED  BY <3>2, <4>1 DEF RequestOK
    <3> QED  BY <3>5, <3>6, <3>7
  <2>3. \A s, r \in C!Slots : request'[s].conn = request'[r].conn /\ request'[s].conn \in Conns => s = r
    BY <1>1, <2>2, NamesApart DEF RequestsInv
  <2> QED  BY <2>1, <2>2, <2>3 DEF RequestsInv
<1>12. OpenInv'
  <2>1. ASSUME NEW d \in Conns, conns'[d].client
        PROVE  d \in InList' \cup reopened' \/ \E s \in C!Slots : request'[s].conn = d
    <3>1. CASE d = c
      <4>1. ok  BY <1>4, <2>1, <3>1
      <4>2. d \in reopened \/ \E s \in C!Slots : request[s].at = "connect" /\ request[s].conn = d
        BY <1>1, <1>2, <3>1 DEF OpenInv
      <4>3. ASSUME NEW s \in C!Slots, request[s].at = "connect", request[s].conn = d  PROVE request'[s].conn = d
        <5>1. Waits(s)  BY <3>1, <4>3 DEF Waits
        <5> QED  BY <1>5, <4>1, <4>3, <5>1
      <4> QED  BY <1>2, <4>2, <4>3
    <3>2. CASE d # c
      <4>1. conns[d].client  BY <1>4, <2>1, <3>2, NamesApart
      <4>2. d \in InList \cup reopened \/ \E s \in C!Slots : request[s].conn = d  BY <1>1, <4>1 DEF OpenInv
      <4>3. ASSUME NEW s \in C!Slots, request[s].conn = d  PROVE request'[s].conn = d
        <5>1. ~Waits(s)  BY <3>2, <4>3 DEF Waits
        <5> QED  BY <1>5, <4>3, <5>1
      <4> QED  BY <1>2, <1>6, <4>2, <4>3
    <3> QED  BY <3>1, <3>2
  <2>2. ASSUME NEW d \in Conns, conns'[d].connecting
        PROVE  d \in reopened' \/ \E s \in C!Slots : request'[s].at = "connect" /\ request'[s].conn = d
    <3>1. d # c /\ conns[d].connecting  BY <1>4, <2>2, NamesApart
    <3>2. d \in reopened \/ \E s \in C!Slots : request[s].at = "connect" /\ request[s].conn = d  BY <1>1, <3>1 DEF OpenInv
    <3>3. ASSUME NEW s \in C!Slots, request[s].conn = d  PROVE request'[s] = request[s]
      <4>1. ~Waits(s)  BY <3>1, <3>3 DEF Waits
      <4> QED  BY <1>5, <4>1
    <3> QED  BY <1>2, <3>2, <3>3
  <2> QED  BY <2>1, <2>2 DEF OpenInv
<1>13. UncrossedInv'
  <2> SUFFICES ASSUME NEW n \in Custom, n \notin busyNames'  PROVE Sound(n)'  BY DEF UncrossedInv
  <2>1. Sound(n)  BY <1>1, <1>2 DEF UncrossedInv
  <2>2. Undisturbed(n)
    <3>1. n \in failed => n \in failed'  BY <1>2
    <3>2. \A d \in InList' : conns'[d].name = n => d \in InList  BY <1>6
    <3> QED  BY <1>2, <1>6, <3>1, <3>2 DEF Undisturbed
  <2>3. CASE \E s \in C!Slots : Waits(s) /\ request[s].name = n
    <3>1. PICK s \in C!Slots : Waits(s) /\ request[s].name = n  BY <2>3
    <3>2. PICK o \in RequestType : o = request[s] /\ RequestOK(o)  BY <1>1, <1>3 DEF RequestsInv
    <3>3. o.at = "connect" /\ o.name = n /\ o.conn = c /\ Of(s, n)  BY <3>1, <3>2 DEF Waits, Of
    <3>4. \A r \in C!Slots : Of(r, n) => r = s  BY <2>1, <3>3 DEF Sound
    <3>5. Underway(n, o)'  BY <1>1, <1>3, <1>4, <2>1, <2>2, <3>2, <3>3, RestStays DEF Sound
    <3>6. PICK q \in RequestType : /\ request'[s] = q
                                   /\ ok => /\ q.at = "list" /\ q.do = o.do /\ q.name = o.name
                                            /\ q.url = o.url /\ q.conn = o.conn
                                   /\ ~ok => q = C!NoRequest
      BY <1>5, <3>1, <3>2
    <3>7. \A r \in C!Slots : Of(r, n)' => r = s
      <4> SUFFICES ASSUME NEW r \in C!Slots, Of(r, n)', r # s  PROVE FALSE  OBVIOUS
      <4>1. ~Of(r, n)  BY <3>4
      <4>2. PICK x \in RequestType : /\ request'[r] = x /\ (~Waits(r) => x = request[r])
                                     /\ (Waits(r) /\ ok => x.name = request[r].name)
                                     /\ (Waits(r) /\ ~ok => x = C!NoRequest)
        BY <1>5
      <4>3. x.at # "none" /\ x.name = n  BY <4>2 DEF Of
      <4> QED  BY <4>1, <4>2, <4>3, NoRequestOK DEF Of, Waits
    <3>8. CASE ok
      <4>1. Of(s, n)' /\ C!Busy(n)'  BY <3>3, <3>6, <3>8 DEF Of, C!Busy
      <4>2. Underway(n, q)'  BY <3>3, <3>5, <3>6, <3>8 DEF Underway
      <4>3. Underway(n, request[s])'  BY <3>6, <4>2 DEF Underway, Unlisted
      <4>4. \A r \in C!Slots : Of(r, n)' => Underway(n, request[r])'  BY <3>7, <4>3
      <4> QED  BY <3>7, <4>1, <4>4 DEF Sound
    <3>9. CASE ~ok
      <4>1. ~Of(s, n)'  BY <3>6, <3>9, NoRequestOK DEF Of
      <4>2. \A r \in C!Slots : ~Of(r, n)'  BY <3>7, <4>1
      <4>3. o.do # "delete"  BY <3>2, <3>3 DEF RequestOK
      <4>4. n \in failed'  BY <1>2, <3>1, <3>9
      <4>5. AtRest(n)'  BY <3>5, <4>3, <4>4 DEF Underway, AtRest
      <4> QED  BY <4>2, <4>5 DEF Sound
    <3> QED  BY <3>8, <3>9
  <2>4. CASE ~ \E s \in C!Slots : Waits(s) /\ request[s].name = n
    <3>1. ASSUME NEW r \in C!Slots, Of(r, n) \/ Of(r, n)'  PROVE request'[r] = request[r]
      <4>1. PICK x \in RequestType : /\ request'[r] = x /\ (~Waits(r) => x = request[r])
                                     /\ (Waits(r) /\ ok => x.name = request[r].name)
                                     /\ (Waits(r) /\ ~ok => x = C!NoRequest)
        BY <1>5
      <4>2. CASE Of(r, n)  BY <2>4, <4>1, <4>2 DEF Of
      <4>3. CASE Of(r, n)'
        <5>1. x.at # "none" /\ x.name = n  BY <4>1, <4>3 DEF Of
        <5> QED  BY <2>4, <4>1, <5>1, NoRequestOK
      <4> QED  BY <3>1, <4>2, <4>3
    <3> QED  BY <1>1, <1>3, <1>4, <2>1, <2>2, <3>1, NameStays
  <2> QED  BY <2>3, <2>4
<1> QED  BY <1>7, <1>8, <1>10, <1>11, <1>12, <1>13 DEF ConnectorsInv

\* A request that has its list gives its connection to the list, or closes it.
LEMMA OpenEnds ==
  ASSUME OpenInv, request \in [C!Slots -> RequestType], NEW s \in C!Slots, NEW q, request' = [request EXCEPT ![s] = q],
         request[s].at = "list", reopened' = reopened, InList \subseteq InList',
         \A c \in Conns : conns'[c].client => conns[c].client /\ (c = request[s].conn => c \in InList'),
         \A c \in Conns : conns'[c].connecting => conns[c].connecting
  PROVE  OpenInv'
<1>1. request'[s] = q /\ \A r \in C!Slots \ {s} : request'[r] = request[r]  OBVIOUS
<1>2. ASSUME NEW c \in Conns, conns'[c].client
      PROVE  c \in InList' \cup reopened' \/ \E r \in C!Slots : request'[r].conn = c
  <2>1. CASE c = request[s].conn  BY <1>2, <2>1
  <2>2. CASE c # request[s].conn
    <3>1. c \in InList \cup reopened \/ \E r \in C!Slots : request[r].conn = c  BY <1>2 DEF OpenInv
    <3> QED  BY <1>1, <2>2, <3>1
  <2> QED  BY <2>1, <2>2
<1>3. ASSUME NEW c \in Conns, conns'[c].connecting
      PROVE  c \in reopened' \/ \E r \in C!Slots : request'[r].at = "connect" /\ request'[r].conn = c
  <2>1. c \in reopened \/ \E r \in C!Slots : request[r].at = "connect" /\ request[r].conn = c  BY <1>3 DEF OpenInv
  <2> QED  BY <1>1, <2>1
<1> QED  BY <1>2, <1>3 DEF OpenInv

LEMMA ListedKeeps == ASSUME ConnectorsInv, NEW s \in C!Slots, NEW ok \in BOOLEAN, C!Listed(s, ok)  PROVE ConnectorsInv'
<1>1. SettingsInv /\ CallersInv /\ ConnsInv /\ RequestsInv /\ OpenInv /\ UncrossedInv  BY DEF ConnectorsInv
<1>2. PICK o \in RequestType : o = request[s] /\ RequestOK(o) /\ o.at = "list"
  BY <1>1 DEF RequestsInv, C!Listed
<1>3. /\ request' = [request EXCEPT ![s] = C!NoRequest]
      /\ UNCHANGED <<row, token, given, kept, reopened>>
      /\ rowEdits' = rowEdits /\ busyNames' = busyNames
  BY DEF C!Listed, C!bounds
<1>4. PICK q : q = C!NoRequest /\ q.at = "none" /\ q.conn = C!None /\ RequestOK(q)  BY NoRequestOK
<1>5. request' = [request EXCEPT ![s] = q]  BY <1>3, <1>4
<1>6. /\ o.name \in C!Names /\ o.conn \in C!AllConns /\ conns[o.conn].made
      /\ o.do = "env" => o.name = C!Env /\ o.conn = C!EnvConn
      /\ o.do # "env" => o.name \in Custom /\ o.conn \in Conns /\ conns[o.conn].name = o.name /\ o.conn \notin InList /\ o.do # "delete"
  BY <1>1, <1>2, NamesApart DEF RequestOK, ConnsInv
<1>7. /\ conns \in [C!AllConns -> ConnType] /\ request \in [C!Slots -> RequestType]
      /\ tools \in [C!Names -> C!AllConns \cup {C!None}] /\ failed \subseteq C!Names
  BY <1>1 DEF ConnsInv, RequestsInv, SettingsInv
\* Either the tools go over the connection, or it is closed.
<1>8. CASE ok /\ conns[o.conn].client
  <2>1. /\ tools' = [tools EXCEPT ![o.name] = o.conn] /\ failed' = failed \ {o.name} /\ UNCHANGED <<conns, caller>>
        /\ connections' = IF o.do = "env" THEN connections ELSE Append(connections, o.conn)
    BY <1>2, <1>8 DEF C!Listed
  <2>2. /\ tools' \in [C!Names -> C!AllConns \cup {C!None}] /\ tools'[o.name] = o.conn
        /\ \A n \in C!Names \ {o.name} : tools'[n] = tools[n]
    BY <1>6, <1>7, <2>1
  <2>3. ListOK' /\ InList' = InList \cup (IF o.do = "env" THEN {} ELSE {o.conn})
    <3>1. CASE o.do = "env"
      <4>1. connections' = connections  BY <2>1, <3>1
      <4> QED  BY <1>1, <3>1, <4>1 DEF ListOK, ConnsInv, InList
    <3>2. CASE o.do # "env"
      <4>1. connections' = Append(connections, o.conn) /\ o.conn \notin InList /\ o.conn \in C!AllConns  BY <1>6, <2>1, <3>2
      <4>2. ListOK' /\ InList' = InList \cup {o.conn}  BY <1>1, <4>1, ListGrown DEF ConnsInv
      <4> QED  BY <3>2, <4>2
    <3> QED  BY <3>1, <3>2
  <2>4. SettingsInv'  BY <1>1, <1>3, <1>7, <2>1, <2>2 DEF SettingsInv
  <2>5. CallersInv'  BY <1>1, <1>3, <2>1 DEF CallersInv
  <2>6. Grown  BY <1>1, <2>1, SameGrown
  <2>7. ConnsInv'
    <3>1. \A c \in InList' : c \in InList \/ conns'[c].made  BY <1>6, <2>1, <2>3
    <3>2. \A n \in C!Names : tools'[n] \in {tools[n], C!None} \/ conns'[tools'[n]].made  BY <1>6, <2>1, <2>2
    <3>3. \A c \in C!AllConns : conns'[c].connecting => ~conns'[c].client  BY <1>1, <2>1 DEF ConnsInv
    <3> QED  BY <1>1, <1>7, <2>3, <2>6, <3>1, <3>2, <3>3, ConnsSteps
  <2>8. RequestsInv'
    <3>1. RequestOK(q)'  BY <1>4 DEF RequestOK
    <3>2. \A c \in InList' : c \in InList \/ c = request[s].conn  BY <1>2, <2>3
    <3> QED  BY <1>1, <1>4, <1>5, <2>6, <3>1, <3>2, NamesApart, RequestSteps
  <2>9. OpenInv'
    <3>1. request[s].at = "list" /\ reopened' = reopened /\ InList \subseteq InList'  BY <1>2, <1>3, <2>3
    <3>2. \A c \in Conns : conns'[c].client => conns[c].client /\ (c = request[s].conn => c \in InList')
      BY <1>2, <1>6, <2>1, <2>3, NamesApart
    <3>3. \A c \in Conns : conns'[c].connecting => conns[c].connecting  BY <2>1
    <3> QED  BY <1>1, <1>5, <1>7, <3>1, <3>2, <3>3, OpenEnds
  <2>10. ASSUME NEW m \in Custom, m # o.name  PROVE Undisturbed(m)
    <3>1. m \in failed => m \in failed'  BY <2>1, <2>10
    <3>2. \A c \in InList' : conns'[c].name = m => c \in InList  BY <1>6, <2>1, <2>3, <2>10
    <3> QED  BY <1>3, <2>2, <2>3, <2>10, <3>1, <3>2, NamesApart DEF Undisturbed
  <2>11. UncrossedInv'
    <3>1. CASE o.do = "env"
      <4> SUFFICES ASSUME NEW m \in Custom, m \notin busyNames'  PROVE Sound(m)'  BY DEF UncrossedInv
      <4>1. Undisturbed(m) /\ Sound(m)  BY <1>1, <1>3, <1>6, <2>10, <3>1, NamesApart DEF UncrossedInv
      <4>2. request'[s] = q /\ \A r \in C!Slots \ {s} : request'[r] = request[r]  BY <1>5, <1>7
      <4>3. \A r \in C!Slots : Of(r, m) \/ Of(r, m)' => request'[r] = request[r]
        BY <1>2, <1>4, <1>6, <3>1, <4>2, NamesApart DEF Of
      <4> QED  BY <1>1, <1>7, <2>6, <4>1, <4>3, NameStays
    <3>2. CASE o.do # "env"
      <4>1. PICK n \in Custom : n = o.name  BY <1>6, <3>2
      <4>2. request[s].at # "none" /\ request[s].name = n  BY <1>2, <4>1
      <4>3. n \notin busyNames => AtRest(n)'
        <5> SUFFICES ASSUME n \notin busyNames  PROVE AtRest(n)'  OBVIOUS
        <5>1. Underway(n, o)  BY <1>1, <1>2, <4>1 DEF UncrossedInv, Sound, Of
        <5>2. /\ token[n] = given[n] /\ row[n].on /\ conns[o.conn].url = row[n].url /\ conns[o.conn].token = token[n]
              /\ \A c \in InList : conns[c].name # n
          BY <1>2, <1>6, <3>2, <5>1 DEF Underway, Unlisted
        <5>3. tools'[n] = o.conn /\ o.conn # C!None /\ o.conn \in InList' /\ conns'[o.conn].name = n
          BY <1>6, <2>1, <2>2, <2>3, <3>2, <4>1, NamesApart
        <5>4. \A c \in InList' : conns'[c].name = n => c = o.conn  BY <2>1, <2>3, <3>2, <5>2
        <5>5. InUse(n)'  BY <1>3, <2>1, <5>2, <5>3, <5>4 DEF InUse
        <5> QED  BY <1>3, <5>2, <5>5 DEF AtRest
      <4>4. \A m \in Custom \ {n} : Undisturbed(m)  BY <2>10, <4>1
      <4> QED  BY <1>3, <1>4, <1>5, <2>6, <4>2, <4>3, <4>4, OneName
    <3> QED  BY <3>1, <3>2
  <2> QED  BY <2>4, <2>5, <2>7, <2>8, <2>9, <2>11 DEF ConnectorsInv
<1>9. CASE ~(ok /\ conns[o.conn].client)
  <2>1. /\ failed' = failed \cup {o.name} /\ UNCHANGED <<tools, connections>>
        /\ IF o.do = "env" THEN UNCHANGED <<conns, caller>>
           ELSE conns' = [conns EXCEPT ![o.conn].client = FALSE] /\ caller' = C!Cut(o.conn)
    BY <1>2, <1>9 DEF C!Listed
  <2>2. /\ Grown
        /\ \A c \in C!AllConns : /\ conns'[c].connecting => ~conns'[c].client
                                 /\ conns'[c].client => conns[c].client
                                 /\ conns'[c].connecting => conns[c].connecting
        /\ o.do # "env" => ~conns'[o.conn].client
    <3>1. CASE o.do = "env"
      <4>1. conns' = conns  BY <2>1, <3>1
      <4> QED  BY <1>1, <3>1, <4>1, SameGrown DEF ConnsInv
    <3>2. CASE o.do # "env"
      <4>1. PICK w \in ConnType : w = conns[o.conn]  BY <1>6, <1>7
      <4>2. PICK x : x = [w EXCEPT !.client = FALSE]  OBVIOUS
      <4>3. /\ x \in ConnType /\ x.made = w.made /\ x.name = w.name /\ x.url = w.url /\ x.token = w.token
            /\ ~x.client /\ x.connecting = w.connecting
        BY <4>2 DEF ConnType
      <4>4. conns' = [conns EXCEPT ![o.conn] = x]
        <5>1. conns' = [conns EXCEPT ![o.conn].client = FALSE]  BY <2>1, <3>2
        <5>2. conns' = [conns EXCEPT ![o.conn] = [w EXCEPT !.client = FALSE]]  BY <1>6, <1>7, <4>1, <5>1
        <5> QED  BY <4>2, <5>2
      <4>5. Flagged(o.conn, x)  BY <4>1, <4>3, <4>4 DEF Flagged
      <4>6. /\ Grown /\ conns'[o.conn] = x /\ \A d \in C!AllConns \ {o.conn} : conns'[d] = conns[d]
            /\ \A d \in C!AllConns : conns'[d].connecting => ~conns'[d].client
        BY <1>1, <1>6, <4>5, FlaggedGrown
      <4> QED  BY <4>1, <4>3, <4>6
    <3> QED  BY <3>1, <3>2
  <2>3. SettingsInv'  BY <1>1, <1>3, <1>6, <2>1 DEF SettingsInv
  <2>4. CallersInv'
    <3>1. caller' \in [Callers -> CallerType]
      <4>1. CASE o.do = "env"  BY <1>1, <2>1, <4>1 DEF CallersInv
      <4>2. CASE o.do # "env"  BY <1>1, <2>1, <4>2, CutOK
      <4> QED  BY <4>1, <4>2
    <3> QED  BY <1>1, <1>3, <3>1 DEF CallersInv
  <2>5. InList' = InList /\ ListOK'  BY <1>1, <2>1 DEF InList, ListOK, ConnsInv
  <2>6. ConnsInv'  BY <1>1, <1>7, <2>1, <2>2, <2>5, ConnsSteps
  <2>7. RequestsInv'
    <3>1. RequestOK(q)'  BY <1>4 DEF RequestOK
    <3> QED  BY <1>1, <1>4, <1>5, <2>2, <2>5, <3>1, NamesApart, RequestSteps
  <2>8. OpenInv'
    <3>1. request[s].at = "list" /\ reopened' = reopened /\ InList \subseteq InList'  BY <1>2, <1>3, <2>5
    <3>2. \A c \in Conns : conns'[c].client => conns[c].client /\ (c = request[s].conn => c \in InList')
      BY <1>2, <1>6, <2>2, NamesApart
    <3>3. \A c \in Conns : conns'[c].connecting => conns[c].connecting  BY <2>2, NamesApart
    <3> QED  BY <1>1, <1>5, <1>7, <3>1, <3>2, <3>3, OpenEnds
  <2>9. ASSUME NEW m \in Custom  PROVE Undisturbed(m)
    <3>1. m \in failed => m \in failed'  BY <2>1
    <3>2. \A c \in InList' : conns'[c].name = m => c \in InList  BY <2>5
    <3> QED  BY <1>3, <2>1, <2>5, <3>1, <3>2 DEF Undisturbed
  <2>10. UncrossedInv'
    <3>1. CASE o.do = "env"
      <4> SUFFICES ASSUME NEW m \in Custom, m \notin busyNames'  PROVE Sound(m)'  BY DEF UncrossedInv
      <4>1. Undisturbed(m) /\ Sound(m)  BY <1>1, <1>3, <2>9 DEF UncrossedInv
      <4>2. request'[s] = q /\ \A r \in C!Slots \ {s} : request'[r] = request[r]  BY <1>5, <1>7
      <4>3. \A r \in C!Slots : Of(r, m) \/ Of(r, m)' => request'[r] = request[r]
        BY <1>2, <1>4, <1>6, <3>1, <4>2, NamesApart DEF Of
      <4> QED  BY <1>1, <1>7, <2>2, <4>1, <4>3, NameStays
    <3>2. CASE o.do # "env"
      <4>1. PICK n \in Custom : n = o.name  BY <1>6, <3>2
      <4>2. request[s].at # "none" /\ request[s].name = n  BY <1>2, <4>1
      <4>3. n \notin busyNames => AtRest(n)'
        <5> SUFFICES ASSUME n \notin busyNames  PROVE AtRest(n)'  OBVIOUS
        <5>1. Underway(n, o) /\ RequestOK(o)  BY <1>1, <1>2, <4>1 DEF UncrossedInv, Sound, Of
        <5>2. Underway(n, o)'  BY <1>1, <1>7, <2>2, <2>9, <5>1, RestStays
        <5>3. n \in failed'  BY <2>1, <4>1
        <5>4. o.do # "delete"  BY <1>6, <3>2
        <5> QED  BY <5>2, <5>3, <5>4 DEF Underway, AtRest
      <4>4. \A m \in Custom \ {n} : Undisturbed(m)  BY <2>9
      <4> QED  BY <1>3, <1>4, <1>5, <2>2, <4>2, <4>3, <4>4, OneName
    <3> QED  BY <3>1, <3>2
  <2> QED  BY <2>3, <2>4, <2>6, <2>7, <2>8, <2>10 DEF ConnectorsInv
<1> QED  BY <1>8, <1>9

-----------------------------------------------------------------------------
(* Tool calls and faults                                                   *)

\* A step of the tool calls: connections open again, for the call, or close.
LEMMA QuietKeeps ==
  ASSUME ConnectorsInv, Grown, CallersInv', UNCHANGED <<connections, request, row, token, given, tools, failed>>,
         busyNames' = busyNames, rowEdits' = rowEdits, reopened \subseteq reopened',
         \A c \in C!AllConns : /\ conns'[c].connecting => ~conns'[c].client
                               /\ conns'[c].client => conns[c].client
                               /\ conns'[c].connecting => conns[c].connecting \/ c \in reopened' \/ c = C!EnvConn
  PROVE  ConnectorsInv'
<1>1. SettingsInv /\ ConnsInv /\ OpenInv  BY DEF ConnectorsInv
<1>2. SettingsInv'  BY <1>1 DEF SettingsInv
<1>3. InList' = InList /\ ListOK'  BY <1>1 DEF InList, ListOK, ConnsInv
<1>4. ConnsInv'
  <2>1. tools \in [C!Names -> C!AllConns \cup {C!None}]  BY <1>1 DEF SettingsInv
  <2> QED  BY <1>1, <1>3, <2>1, ConnsSteps
<1>5. RequestsInv' /\ UncrossedInv'  BY QuietSteps
<1>6. OpenInv'
  <2>1. ASSUME NEW c \in Conns, conns'[c].client
        PROVE  c \in InList' \cup reopened' \/ \E s \in C!Slots : request'[s].conn = c
    <3>1. conns[c].client  BY <2>1, NamesApart
    <3> QED  BY <1>1, <1>3, <3>1 DEF OpenInv
  <2>2. ASSUME NEW c \in Conns, conns'[c].connecting
        PROVE  c \in reopened' \/ \E s \in C!Slots : request'[s].at = "connect" /\ request'[s].conn = c
    <3>1. conns[c].connecting \/ c \in reopened'  BY <2>2, NamesApart
    <3> QED  BY <1>1, <3>1 DEF OpenInv
  <2> QED  BY <2>1, <2>2 DEF OpenInv
<1> QED  BY <1>2, <1>4, <1>5, <1>6 DEF ConnectorsInv

LEMMA WorkerKeeps == ASSUME ConnectorsInv, NEW p \in Callers, C!WorkerEnds(p) \/ \E n \in Custom : C!restrictTo(p, n)
                     PROVE  ConnectorsInv'
<1>1. SettingsInv /\ CallersInv /\ ConnsInv  BY DEF ConnectorsInv
<1>2. /\ UNCHANGED <<connections, request, row, token, given, tools, failed>> /\ conns' = conns /\ reopened' = reopened
      /\ caller' = caller /\ busyNames' = busyNames /\ rowEdits' = rowEdits
  BY DEF C!restrictTo, C!WorkerEnds, C!bounds
<1>3. CallersInv'
  <2>1. kept' = [kept EXCEPT ![p] = C!None] \/ \E n \in Custom : kept' = [kept EXCEPT ![p] = tools[n]]
    BY DEF C!restrictTo, C!WorkerEnds
  <2>2. \A n \in Custom : tools[n] \in C!AllConns \cup {C!None}  BY <1>1, NamesApart DEF SettingsInv
  <2> QED  BY <1>1, <1>2, <2>1, <2>2 DEF CallersInv
<1>4. Grown  BY <1>1, <1>2, SameGrown
<1>5. \A c \in C!AllConns : conns[c].connecting => ~conns[c].client  BY <1>1, <1>2 DEF SettingsInv, ConnsInv
<1> QED  BY <1>2, <1>3, <1>4, <1>5, QuietKeeps

LEMMA CallKeeps == ASSUME ConnectorsInv, NEW p \in Callers, C!call(p)  PROVE ConnectorsInv'
<1>1. SettingsInv /\ CallersInv /\ ConnsInv  BY DEF ConnectorsInv
<1>2. PICK c \in C!AllConns : C!Send(p, c)  BY DEF C!call
<1>3. /\ UNCHANGED <<connections, request, row, token, given, tools, failed>> /\ kept' = kept
      /\ busyNames' = busyNames /\ rowEdits' = rowEdits
  BY DEF C!call, C!bounds
<1>4. CallersInv'
  <2>1. PICK x \in [Callers -> CallerType] : x = IF conns[c].client \/ conns[c].connecting THEN caller ELSE C!Cut(c)
    BY <1>1, CutOK DEF CallersInv
  <2>2. PICK w : w = [at |-> IF conns[c].client THEN "sent" ELSE "connect", conn |-> c, again |-> FALSE]  OBVIOUS
  <2>3. w \in CallerType  BY <2>2 DEF CallerType
  <2>4. caller' = [x EXCEPT ![p] = w]  BY <1>2, <2>1, <2>2 DEF C!Send
  <2> QED  BY <1>1, <1>3, <2>1, <2>3, <2>4 DEF CallersInv
<1>5. /\ Grown /\ reopened \subseteq reopened'
      /\ \A d \in C!AllConns : /\ conns'[d].connecting => ~conns'[d].client
                               /\ conns'[d].client => conns[d].client
                               /\ conns'[d].connecting => conns[d].connecting \/ d \in reopened' \/ d = C!EnvConn
  <2>1. CASE conns[c].client \/ conns[c].connecting
    <3>1. conns' = conns /\ reopened' = reopened  BY <1>2, <2>1 DEF C!Send
    <3> QED  BY <1>1, <3>1, SameGrown DEF ConnsInv
  <2>2. CASE ~(conns[c].client \/ conns[c].connecting)
    <3>1. conns' = C!Connecting(conns, c) /\ reopened' = reopened \cup ({c} \cap Conns)  BY <1>2, <2>2 DEF C!Send
    <3>2. /\ Grown
          /\ \A d \in C!AllConns : /\ conns'[d].connecting => ~conns'[d].client
                                   /\ conns'[d].client => conns[d].client
                                   /\ conns'[d].connecting => conns[d].connecting \/ d = c
      BY <1>1, <3>1, ConnectingFlags
    <3>3. c \in reopened' \/ c = C!EnvConn  BY <3>1, NamesApart
    <3> QED  BY <3>1, <3>2, <3>3
  <2> QED  BY <2>1, <2>2
<1> QED  BY <1>3, <1>4, <1>5, QuietKeeps

LEMMA AnsweredKeeps == ASSUME ConnectorsInv, NEW p \in Callers, C!Answered(p)  PROVE ConnectorsInv'
<1>1. SettingsInv /\ CallersInv /\ ConnsInv  BY DEF ConnectorsInv
<1>2. /\ UNCHANGED <<connections, request, row, token, given, tools, failed>> /\ conns' = conns /\ reopened' = reopened
      /\ kept' = kept /\ busyNames' = busyNames /\ rowEdits' = rowEdits
      /\ caller' = [caller EXCEPT ![p] = C!Quiet]
  BY DEF C!Answered, C!bounds
<1>3. C!Quiet \in CallerType  BY DEF C!Quiet, CallerType
<1>4. CallersInv'  BY <1>1, <1>2, <1>3 DEF CallersInv
<1>6. Grown  BY <1>1, <1>2, SameGrown
<1>7. \A c \in C!AllConns : conns[c].connecting => ~conns[c].client  BY <1>1 DEF ConnsInv
<1> QED  BY <1>2, <1>4, <1>6, <1>7, QuietKeeps

LEMMA SessionLostKeeps == ASSUME ConnectorsInv, NEW p \in Callers, C!SessionLost(p)  PROVE ConnectorsInv'
<1>1. SettingsInv /\ CallersInv /\ ConnsInv  BY DEF ConnectorsInv
<1>2. PICK w \in CallerType : w = caller[p]  BY <1>1 DEF CallersInv
<1>3. PICK c : c = w.conn  OBVIOUS
<1>4. /\ UNCHANGED <<connections, request, row, token, given, tools, failed>> /\ kept' = kept
      /\ busyNames' = busyNames /\ rowEdits' = rowEdits
  BY DEF C!SessionLost, C!bounds
<1>6. \A d \in C!AllConns : conns[d].connecting => ~conns[d].client  BY <1>1 DEF ConnsInv
<1>7. PICK x : x = IF conns[c].connecting THEN caller ELSE C!Cut(c)  OBVIOUS
<1>8. PICK y : y = [w EXCEPT !.at = "connect", !.again = TRUE]  OBVIOUS
<1>9. conns' = IF conns[c].connecting THEN conns ELSE C!Connecting(conns, c)  BY <1>2, <1>3, Zenon DEF C!SessionLost
<1>10. reopened' = reopened \cup ({c} \cap Conns)  BY <1>2, <1>3, Zenon DEF C!SessionLost
<1>11. caller' = [x EXCEPT ![p] = y]  BY <1>2, <1>3, <1>7, <1>8, Zenon DEF C!SessionLost
<1>12. CallersInv'
  <2>1. x \in [Callers -> CallerType]
    <3>1. CASE conns[c].connecting  BY <1>1, <1>7, <3>1 DEF CallersInv
    <3>2. CASE ~conns[c].connecting  BY <1>1, <1>7, <3>2, CutOK DEF CallersInv
    <3> QED  BY <3>1, <3>2
  <2>3. y \in CallerType  BY <1>8 DEF CallerType
  <2> QED  BY <1>1, <1>4, <1>11, <2>1, <2>3 DEF CallersInv
<1>13. /\ Grown
      /\ \A d \in C!AllConns : /\ conns'[d].connecting => ~conns'[d].client
                               /\ conns'[d].client => conns[d].client
                               /\ conns'[d].connecting => conns[d].connecting \/ d \in reopened' \/ d = C!EnvConn
  <2>1. CASE c \notin C!AllConns
    <3>1. conns' = conns
      <4>1. conns \in [C!AllConns -> ConnType]  BY <1>1 DEF ConnsInv
      <4>2. C!Connecting(conns, c) = conns  BY <2>1, <4>1 DEF C!Connecting
      <4> QED  BY <1>9, <4>2
    <3> QED  BY <1>1, <1>6, <3>1, SameGrown
  <2>2. CASE c \in C!AllConns /\ conns[c].connecting
    <3>1. conns' = conns  BY <1>9, <2>2
    <3> QED  BY <1>1, <1>6, <3>1, SameGrown
  <2>3. CASE c \in C!AllConns /\ ~conns[c].connecting
    <3>1. conns' = C!Connecting(conns, c)  BY <1>9, <2>3
    <3>2. /\ Grown
          /\ \A d \in C!AllConns : /\ conns'[d].connecting => ~conns'[d].client
                                   /\ conns'[d].client => conns[d].client
                                   /\ conns'[d].connecting => conns[d].connecting \/ d = c
      BY <1>1, <2>3, <3>1, ConnectingFlags
    <3>3. c \in reopened' \/ c = C!EnvConn  BY <1>10, <2>3, NamesApart
    <3> QED  BY <3>2, <3>3
  <2> QED  BY <2>1, <2>2, <2>3
<1>14. reopened \subseteq reopened'  BY <1>10
<1> QED  BY <1>4, <1>12, <1>13, <1>14, QuietKeeps

LEMMA ServerRestartsKeeps == ASSUME ConnectorsInv, NEW c \in C!AllConns, C!ServerRestarts(c)
                             PROVE  ConnectorsInv'
<1>1. SettingsInv /\ CallersInv /\ ConnsInv  BY DEF ConnectorsInv
<1>2. /\ UNCHANGED <<connections, request, row, token, given, tools, failed>> /\ kept' = kept /\ reopened' = reopened
      /\ busyNames' = busyNames /\ rowEdits' = rowEdits /\ conns[c].client
      /\ conns' = [conns EXCEPT ![c].client = FALSE]
      /\ caller' = C!Cut(c)
  BY DEF C!ServerRestarts
<1>4. CallersInv'
  <2>1. caller' \in [Callers -> CallerType]  BY <1>1, <1>2, CutOK DEF CallersInv
  <2> QED  BY <1>1, <1>2, <2>1 DEF CallersInv
<1>5. conns \in [C!AllConns -> ConnType] /\ \A d \in C!AllConns : conns[d].connecting => ~conns[d].client  BY <1>1 DEF ConnsInv
<1>6. PICK o \in ConnType : o = conns[c]  BY <1>5
<1>7. PICK x : x = [o EXCEPT !.client = FALSE]  OBVIOUS
<1>8. /\ x \in ConnType /\ x.made = o.made /\ x.name = o.name /\ x.url = o.url /\ x.token = o.token
      /\ x.connecting = o.connecting
  BY <1>7 DEF ConnType
<1>9. conns' = [conns EXCEPT ![c] = x]
  <2>1. conns' = [conns EXCEPT ![c] = [o EXCEPT !.client = FALSE]]  BY <1>2, <1>5, <1>6
  <2> QED  BY <1>7, <2>1
<1>10. ~x.connecting  BY <1>2, <1>5, <1>6, <1>8
<1>11. Flagged(c, x)  BY <1>6, <1>8, <1>9, <1>10 DEF Flagged
<1>12. /\ Grown /\ conns'[c] = x /\ \A d \in C!AllConns \ {c} : conns'[d] = conns[d]
       /\ \A d \in C!AllConns : conns'[d].connecting => ~conns'[d].client
  BY <1>1, <1>11, FlaggedGrown
<1>13. \A d \in C!AllConns : /\ conns'[d].connecting => ~conns'[d].client
                             /\ conns'[d].client => conns[d].client
                             /\ conns'[d].connecting => conns[d].connecting
  BY <1>2, <1>10, <1>12
<1> QED  BY <1>2, <1>4, <1>12, <1>13, QuietKeeps

LEMMA EnvReconnectKeeps == ASSUME ConnectorsInv, NEW s \in C!Slots, C!EnvReconnect(s)  PROVE ConnectorsInv'
<1>1. SettingsInv /\ CallersInv /\ ConnsInv /\ RequestsInv /\ OpenInv /\ UncrossedInv  BY DEF ConnectorsInv
<1>2. C!Arrives(s, C!Env)  BY DEF C!EnvReconnect
<1>3. /\ rowEdits' \in 0 .. MaxEdits /\ request[s].at = "none" /\ request[s].conn = C!None
      /\ busyNames \subseteq busyNames' /\ \A m : m # C!Env => (m \in busyNames' <=> m \in busyNames)
  BY <1>1, <1>2, ArrivesOK
<1>4. PICK q : q = [do |-> "env", name |-> C!Env, url |-> "env", at |-> "connect", conn |-> C!EnvConn]  OBVIOUS
<1>5. q \in RequestType /\ q.do = "env" /\ q.name = C!Env /\ q.at = "connect" /\ q.conn = C!EnvConn
  BY <1>4, NamesApart DEF RequestType, Doings
<1>6. /\ request' = [request EXCEPT ![s] = q]
      /\ IF conns[C!EnvConn].connecting THEN UNCHANGED <<conns, caller>>
         ELSE conns' = C!Connecting(conns, C!EnvConn) /\ caller' = C!Cut(C!EnvConn)
      /\ UNCHANGED <<row, token, given, connections, tools, failed, kept, reopened>>
  BY <1>4 DEF C!EnvReconnect
<1>7. /\ Grown
      /\ \A d \in C!AllConns : /\ conns'[d].connecting => ~conns'[d].client
                               /\ conns'[d].client => conns[d].client
                               /\ conns'[d].connecting => conns[d].connecting \/ d = C!EnvConn
  <2>1. CASE conns[C!EnvConn].connecting
    <3>1. conns' = conns  BY <1>6, <2>1
    <3> QED  BY <1>1, <3>1, SameGrown DEF ConnsInv
  <2>2. CASE ~conns[C!EnvConn].connecting
    <3>1. conns' = C!Connecting(conns, C!EnvConn)  BY <1>6, <2>2
    <3> QED  BY <1>1, <3>1, NamesApart, ConnectingFlags
  <2> QED  BY <2>1, <2>2
<1>8. SettingsInv'  BY <1>1, <1>3, <1>6 DEF SettingsInv
<1>9. CallersInv'
  <2>1. caller' \in [Callers -> CallerType]
    <3>1. caller' = caller \/ caller' = C!Cut(C!EnvConn)  BY <1>6
    <3> QED  BY <1>1, <3>1, CutOK DEF CallersInv
  <2> QED  BY <1>1, <1>6, <2>1 DEF CallersInv
<1>10. InList' = InList /\ ListOK'  BY <1>1, <1>6 DEF InList, ListOK, ConnsInv
<1>11. tools \in [C!Names -> C!AllConns \cup {C!None}] /\ request \in [C!Slots -> RequestType]
  BY <1>1 DEF SettingsInv, RequestsInv
<1>12. ConnsInv'  BY <1>1, <1>6, <1>7, <1>10, <1>11, ConnsSteps
<1>13. RequestsInv'
  <2>1. RequestOK(q)'  BY <1>5 DEF RequestOK
  <2>2. q.conn \notin Conns  BY <1>5, NamesApart
  <2> QED  BY <1>1, <1>6, <1>7, <1>10, <2>1, <2>2, RequestSteps
<1>14. OpenInv'
  <2>1. request[s].conn \notin Conns  BY <1>3, NamesApart
  <2>2. \A c \in Conns : conns'[c].client => (conns[c].client /\ (c \in InList => c \in InList'))  BY <1>7, <1>10, NamesApart
  <2>3. \A c \in Conns : conns'[c].connecting => conns[c].connecting  BY <1>7, NamesApart
  <2>4. reopened \subseteq reopened'  BY <1>6
  <2> QED  BY <1>1, <1>6, <1>11, <2>1, <2>2, <2>3, <2>4, OpenSteps
<1>15. UncrossedInv'
  <2> SUFFICES ASSUME NEW m \in Custom, m \notin busyNames'  PROVE Sound(m)'  BY DEF UncrossedInv
  <2>1. Sound(m) /\ m # C!Env  BY <1>1, <1>3, NamesApart DEF UncrossedInv
  <2>2. Undisturbed(m)
    <3>1. \A d \in InList' : conns'[d].name = m => d \in InList  BY <1>10
    <3> QED  BY <1>6, <1>10, <3>1 DEF Undisturbed
  <2>3. request'[s] = q /\ \A r \in C!Slots \ {s} : request'[r] = request[r]  BY <1>6, <1>11
  <2>4. \A r \in C!Slots : Of(r, m) \/ Of(r, m)' => request'[r] = request[r]  BY <1>3, <1>5, <2>1, <2>3 DEF Of
  <2> QED  BY <1>1, <1>7, <1>11, <2>1, <2>2, <2>4, NameStays
<1> QED  BY <1>8, <1>9, <1>12, <1>13, <1>14, <1>15 DEF ConnectorsInv

\* After a restart there is what the file says: what was on is being started.
LEMMA RestartKeeps == ASSUME ConnectorsInv, NEW up \in BOOLEAN, C!Restart(up)  PROVE ConnectorsInv'
<1>1. SettingsInv /\ CallersInv /\ ConnsInv /\ RequestsInv /\ OpenInv /\ UncrossedInv  BY DEF ConnectorsInv
<1>2. row \in [Custom -> RowType] /\ token \in [Custom -> 0 .. MaxEdits] /\ request \in [C!Slots -> RequestType]
  BY <1>1 DEF SettingsInv, RequestsInv
<1> DEFINE On == {n \in Custom : row[n].on}
<1>3. PICK of \in [On -> Conns] :
        /\ \A m, n \in DOMAIN of : of[m] = of[n] => m = n
        /\ request' = [s \in C!Slots |-> IF s \in DOMAIN of
                         THEN [do |-> "boot", name |-> s, url |-> row[s].url, at |-> "connect", conn |-> of[s]] ELSE C!NoRequest]
        /\ conns' = [c \in C!AllConns |->
             IF c = C!EnvConn THEN [C!NewConn(C!Env, "env", 0) EXCEPT !.client = up]
             ELSE IF \E n \in DOMAIN of : of[n] = c
                  THEN LET n == CHOOSE m \in DOMAIN of : of[m] = c IN [C!NewConn(n, row[n].url, token[n]) EXCEPT !.connecting = TRUE]
                  ELSE C!NoConn]
  BY DEF C!Restart
<1>4. /\ connections' = <<C!EnvConn>> /\ failed' = {} /\ caller' = [p \in Callers |-> C!Quiet]
      /\ kept' = [p \in Callers |-> C!None] /\ tools' = [n \in C!Names |-> IF n = C!Env /\ up THEN C!EnvConn ELSE C!None]
      /\ busyNames' = busyNames \cup {request[s].name : s \in {r \in C!Slots : request[r].do = "delete"}}
      /\ UNCHANGED <<row, token, given>> /\ rowEdits' = rowEdits
  BY DEF C!Restart
<1>5. On \subseteq Custom /\ Custom \subseteq C!Slots /\ DOMAIN of = On  BY DEF C!Slots
<1>6. \A n \in On : of[n] \in Conns /\ of[n] \in C!AllConns /\ of[n] # C!EnvConn  BY NamesApart
<1> HIDE DEF On
\* The new connections.
<1>7. PICK e \in ConnType : e = [C!NewConn(C!Env, "env", 0) EXCEPT !.client = up]
                            /\ e.made /\ e.name = C!Env /\ ~e.connecting
  <2>1. PICK x \in ConnType : x = C!NewConn(C!Env, "env", 0) /\ x.made /\ x.name = C!Env /\ ~x.connecting
    BY MadeOK, NamesApart
  <2>2. PICK e : e = [x EXCEPT !.client = up]  OBVIOUS
  <2>3. e \in ConnType /\ e.made /\ e.name = C!Env /\ ~e.connecting  BY <2>1, <2>2 DEF ConnType
  <2> QED  BY <2>1, <2>2, <2>3
<1>8. PICK z \in ConnType : z = C!NoConn /\ ~z.client /\ ~z.connecting
  <2>1. PICK x \in ConnType : x = C!NewConn("none", "none", 0) /\ ~x.client /\ ~x.connecting  BY MadeOK
  <2>2. PICK y : y = [x EXCEPT !.made = FALSE]  OBVIOUS
  <2>3. y \in ConnType /\ ~y.client /\ ~y.connecting  BY <2>1, <2>2 DEF ConnType
  <2> QED  BY <2>1, <2>2, <2>3 DEF C!NoConn
<1>9. ASSUME NEW n \in On
      PROVE  /\ conns'[of[n]] \in ConnType /\ conns'[of[n]].made /\ conns'[of[n]].name = n /\ conns'[of[n]].url = row[n].url
             /\ conns'[of[n]].token = token[n] /\ ~conns'[of[n]].client
  <2>1. of[n] \in C!AllConns /\ of[n] # C!EnvConn /\ n \in Custom  BY <1>5, <1>6
  <2>2. (CHOOSE m \in DOMAIN of : of[m] = of[n]) = n  BY <1>3, <1>5
  <2>3. conns'[of[n]] = [C!NewConn(n, row[n].url, token[n]) EXCEPT !.connecting = TRUE]  BY <1>3, <1>5, <2>1, <2>2
  <2>4. row[n].url \in Urls \cup {"env", "none"} /\ token[n] \in Nat /\ n \in C!Names
    BY <1>2, <2>1, NamesApart, EditsAssumption DEF RowType
  <2>5. PICK u \in Urls \cup {"env", "none"} : u = row[n].url  BY <2>4
  <2>6. PICK t \in Nat : t = token[n]  BY <2>4
  <2>7. PICK x \in ConnType : x = C!NewConn(n, u, t) /\ x.made /\ x.name = n /\ x.url = u /\ x.token = t /\ ~x.client
    BY <2>4, MadeOK
  <2>8. PICK y : y = [x EXCEPT !.connecting = TRUE]  OBVIOUS
  <2>9. y \in ConnType /\ y.made /\ y.name = n /\ y.url = u /\ y.token = t /\ ~y.client  BY <2>7, <2>8 DEF ConnType
  <2> QED  BY <2>3, <2>5, <2>6, <2>7, <2>8, <2>9
<1>10. conns'[C!EnvConn] = e  BY <1>3, <1>7, NamesApart
<1>11. ASSUME NEW c \in Conns, \A n \in On : of[n] # c  PROVE conns'[c] = z
  BY <1>3, <1>5, <1>8, <1>11, NamesApart
<1>12. conns' \in [C!AllConns -> ConnType]
  <2>1. ASSUME NEW c \in C!AllConns  PROVE conns'[c] \in ConnType
    <3>1. CASE c = C!EnvConn  BY <1>10, <3>1
    <3>2. CASE \E n \in On : of[n] = c  BY <1>9, <3>2
    <3>3. CASE c # C!EnvConn /\ ~ \E n \in On : of[n] = c  BY <1>11, <3>3, NamesApart
    <3> QED  BY <3>1, <3>2, <3>3
  <2>2. DOMAIN conns' = C!AllConns /\ conns' = [c \in C!AllConns |-> conns'[c]]  BY <1>3
  <2> QED  BY <2>1, <2>2
<1>13. \A c \in Conns : ~conns'[c].client /\ (conns'[c].connecting => \E n \in On : of[n] = c)
  BY <1>8, <1>9, <1>11
<1>14. connections' \in Seq(C!AllConns) /\ InList' = {C!EnvConn} /\ DOMAIN connections' = {1}
  BY <1>4, NamesApart DEF InList, C!ToSet
<1>15. SettingsInv'
  <2>1. tools' \in [C!Names -> C!AllConns \cup {C!None}]  BY <1>4, NamesApart
  <2> QED  BY <1>1, <1>4, <2>1 DEF SettingsInv
<1>16. CallersInv'
  <2>1. C!Quiet \in CallerType  BY DEF C!Quiet, CallerType
  <2> QED  BY <1>4, <2>1 DEF CallersInv
<1>17. ConnsInv'
  <2>1. \A c \in C!AllConns : conns'[c].connecting => ~conns'[c].client
    <3>1. ~conns'[C!EnvConn].connecting  BY <1>7, <1>10
    <3>2. \A c \in Conns : ~conns'[c].client  BY <1>13
    <3> QED  BY <3>1, <3>2, NamesApart
  <2>2. \A n \in C!Names : tools'[n] # C!None => tools'[n] = C!EnvConn  BY <1>4
  <2> QED  BY <1>7, <1>10, <1>12, <1>14, <2>1, <2>2 DEF ConnsInv, ListOK
\* The requests of the start.
<1>18. ASSUME NEW n \in On
       PROVE  /\ request'[n] \in RequestType /\ request'[n].do = "boot" /\ request'[n].name = n /\ request'[n].url = row[n].url
              /\ request'[n].at = "connect" /\ request'[n].conn = of[n]
  <2>1. PICK u \in Urls \cup {"none"} : u = row[n].url  BY <1>2, <1>5 DEF RowType
  <2>2. PICK q : q = [do |-> "boot", name |-> n, url |-> u, at |-> "connect", conn |-> of[n]]  OBVIOUS
  <2>3. q \in RequestType /\ q.do = "boot" /\ q.name = n /\ q.url = u /\ q.at = "connect" /\ q.conn = of[n]
    BY <1>5, <1>6, <2>2, NamesApart DEF RequestType, Doings
  <2>4. request'[n] = q  BY <1>3, <1>5, <2>1, <2>2
  <2> QED  BY <2>1, <2>3, <2>4
<1>19. ASSUME NEW s \in C!Slots, s \notin On  PROVE request'[s] = C!NoRequest
  BY <1>3, <1>5, <1>19
<1>20. RequestsInv'
  <2>1. \A s \in C!Slots : request'[s] \in RequestType  BY <1>18, <1>19, NoRequestOK
  <2>2. request' = [s \in C!Slots |-> request'[s]]  BY <1>3
  <2>3. ASSUME NEW s \in C!Slots  PROVE RequestOK(request[s])'
    <3>1. CASE s \in On
      <4>1. conns'[of[s]].made /\ conns'[of[s]].name = s /\ of[s] \in Conns /\ of[s] \notin InList' /\ s \in Custom
        BY <1>5, <1>6, <1>9, <1>14, <3>1
      <4> QED  BY <1>18, <3>1, <4>1 DEF RequestOK
    <3>2. CASE s \notin On
      <4>1. PICK q : q = C!NoRequest /\ RequestOK(q) /\ q.at = "none"  BY NoRequestOK
      <4>2. RequestOK(q)'  BY <4>1 DEF RequestOK
      <4> QED  BY <1>19, <3>2, <4>1, <4>2 DEF RequestOK
    <3> QED  BY <3>1, <3>2
  <2>4. \A s \in C!Slots : request'[s].conn \in Conns => s \in On  BY <1>19, NoRequestOK, NamesApart
  <2>5. \A s, r \in C!Slots : request'[s].conn = request'[r].conn /\ request'[s].conn \in Conns => s = r
    BY <1>3, <1>5, <1>18, <2>4
  <2> QED  BY <2>1, <2>2, <2>3, <2>5 DEF RequestsInv
<1>21. OpenInv'  BY <1>5, <1>13, <1>18 DEF OpenInv
<1>22. UncrossedInv'
  <2> SUFFICES ASSUME NEW n \in Custom, n \notin busyNames'  PROVE Sound(n)'  BY DEF UncrossedInv
  <2>1. n \notin busyNames /\ \A s \in C!Slots : request[s].name = n => request[s].do # "delete"  BY <1>4
  <2>2. token[n] = given[n]
    <3>1. Sound(n)  BY <1>1, <2>1 DEF UncrossedInv
    <3>2. CASE C!Busy(n)
      <4>1. PICK s \in C!Slots : request[s].at # "none" /\ request[s].name = n  BY <3>2 DEF C!Busy
      <4> QED  BY <2>1, <3>1, <4>1 DEF Sound, Of, Underway
    <3>3. CASE ~C!Busy(n)  BY <3>1, <3>3 DEF Sound, AtRest
    <3> QED  BY <3>2, <3>3
  <2>3. tools'[n] = C!None /\ Unlisted(n)' /\ token'[n] = given'[n]
    <3>1. tools'[n] = C!None  BY <1>4, NamesApart
    <3>2. conns'[C!EnvConn].name # n
      <4>1. C!Env # n  BY NamesApart
      <4> QED  BY <1>7, <1>10, <4>1
    <3>3. Unlisted(n)'  BY <1>14, <3>2 DEF Unlisted
    <3> QED  BY <1>4, <2>2, <3>1, <3>3
  <2>4. ASSUME NEW s \in C!Slots, Of(s, n)'  PROVE s = n /\ s \in On
    <3>1. s \in On  BY <1>19, <2>4, NoRequestOK DEF Of
    <3> QED  BY <1>18, <2>4, <3>1 DEF Of
  <2>5. ~C!Busy(n)' => AtRest(n)'
    <3> SUFFICES ASSUME ~C!Busy(n)'  PROVE AtRest(n)'  OBVIOUS
    <3>1. n \notin On  BY <1>5, <1>18 DEF C!Busy
    <3>2. ~row'[n].on  BY <1>4, <3>1 DEF On
    <3> QED  BY <2>3, <3>2 DEF AtRest
  <2>6. ASSUME NEW s \in C!Slots, Of(s, n)'  PROVE Underway(n, request[s])'
    <3>1. n \in On /\ request'[s] = request'[n] /\ row[n].on  BY <2>4, <2>6 DEF On
    <3>2. PICK q \in RequestType : /\ q = request'[n] /\ q.do = "boot" /\ q.url = row[n].url /\ q.at = "connect"
                                   /\ q.conn = of[n]
      BY <1>18, <3>1
    <3>3. Underway(n, q)'  BY <1>4, <1>9, <2>3, <3>1, <3>2 DEF Underway
    <3> QED  BY <3>1, <3>2, <3>3 DEF Underway, Unlisted
  <2>7. \A s, r \in C!Slots : Of(s, n)' /\ Of(r, n)' => s = r  BY <2>4
  <2> QED  BY <2>5, <2>6, <2>7 DEF Sound
<1> QED  BY <1>15, <1>16, <1>17, <1>20, <1>21, <1>22 DEF ConnectorsInv

-----------------------------------------------------------------------------

LEMMA ConnectorsStep == ConnectorsInv /\ [C!Next]_(C!connectorVars) => ConnectorsInv'
<1> SUFFICES ASSUME ConnectorsInv, [C!Next]_(C!connectorVars)  PROVE ConnectorsInv'  OBVIOUS
<1>1. Requests \subseteq C!Slots  BY DEF C!Slots
<1>2. CASE \E s \in Requests, n \in Custom :
             \/ C!Reconnect(s, n) \/ C!Disable(s, n) \/ C!Delete(s, n)
             \/ \E u \in Urls, t \in {"same", "none", "new"} : C!Add(s, n, u, t) \/ C!Edit(s, n, u, t)
  BY <1>1, <1>2, ReconnectKeeps, OffKeeps, AddKeeps, EditKeeps
<1>3. CASE \E s \in Requests : C!EnvReconnect(s)  BY <1>1, <1>3, EnvReconnectKeeps
<1>4. CASE \E s \in C!Slots : C!Stopped(s) \/ \E ok \in BOOLEAN : C!Listed(s, ok)  BY <1>4, StoppedKeeps, ListedKeeps
<1>5. CASE \E c \in C!AllConns : C!ServerRestarts(c) \/ \E ok \in BOOLEAN : C!ConnectEnds(c, ok)
  BY <1>5, ConnectEndsKeeps, ServerRestartsKeeps
<1>6. CASE \E p \in Callers : \/ C!call(p) \/ C!Answered(p) \/ C!SessionLost(p) \/ C!WorkerEnds(p)
                              \/ \E n \in Custom : C!restrictTo(p, n)
  BY <1>6, CallKeeps, AnsweredKeeps, SessionLostKeeps, WorkerKeeps
<1>7. CASE \E up \in BOOLEAN : C!Restart(up)  BY <1>7, RestartKeeps
<1>8. CASE UNCHANGED C!connectorVars
  <2>1. /\ UNCHANGED <<connections, request, row, token, given, tools, failed>> /\ conns' = conns /\ reopened' = reopened
        /\ caller' = caller /\ kept' = kept /\ busyNames' = busyNames /\ rowEdits' = rowEdits
    BY <1>8 DEF C!connectorVars
  <2>2. CallersInv'  BY <2>1 DEF ConnectorsInv, CallersInv
  <2>3. Grown  BY <2>1, SameGrown DEF ConnectorsInv
  <2>4. \A c \in C!AllConns : conns[c].connecting => ~conns[c].client
    BY <2>1 DEF ConnectorsInv, SettingsInv, ConnsInv
  <2> QED  BY <2>1, <2>2, <2>3, <2>4, QuietKeeps
<1> QED  BY <1>2, <1>3, <1>4, <1>5, <1>6, <1>7, <1>8 DEF C!Next

LEMMA ConnectorsTypes == ConnectorsInv => C!TypeOK
<1> SUFFICES ASSUME ConnectorsInv  PROVE C!TypeOK  OBVIOUS
<1>1. SettingsInv /\ CallersInv /\ ConnsInv /\ RequestsInv  BY DEF ConnectorsInv
<1>2. \A s \in C!Slots : request[s].at \in {"none", "stop", "connect", "list"}  BY <1>1 DEF RequestsInv, RequestType
<1>3. \A p \in Callers : caller[p].at \in {"none", "connect", "sent"}  BY <1>1 DEF CallersInv, CallerType
<1>4. row \in [Custom -> [saved : BOOLEAN, on : BOOLEAN, url : Urls \cup {"none"}]]  BY <1>1 DEF SettingsInv, RowType
<1> QED  BY <1>1, <1>2, <1>3, <1>4 DEF C!TypeOK, SettingsInv, CallersInv, ConnsInv, ListOK

LEMMA AtRestApplies == ASSUME ListOK, NEW n \in Custom, AtRest(n)
                       PROVE  /\ token[n] = given[n]
                              /\ IF row[n].on THEN n \in failed \/ C!Works(n) ELSE tools[n] = C!None /\ C!Named(n) = {}
<1>1. CASE Unlisted(n) /\ tools[n] = C!None /\ (row[n].on => n \in failed)
  <2>1. C!Named(n) = {}  BY <1>1 DEF Unlisted, InList, C!ToSet, C!Named
  <2> QED  BY <1>1, <2>1 DEF AtRest
<1>2. CASE row[n].on /\ InUse(n)
  <2>1. PICK i \in DOMAIN connections : connections[i] = tools[n]  BY <1>2 DEF InUse, InList, C!ToSet
  <2>2. \A j \in DOMAIN connections : conns[connections[j]].name = n => connections[j] = tools[n]
    BY <1>2 DEF InUse, InList, C!ToSet
  <2>3. \A j \in DOMAIN connections : conns[connections[j]].name = n <=> j = i  BY <1>2, <2>1, <2>2 DEF ListOK, InUse
  <2>4. C!Named(n) = {i}  BY <2>3 DEF C!Named
  <2> QED  BY <1>2, <2>1, <2>4 DEF AtRest, InUse, C!Works
<1> QED  BY <1>1, <1>2 DEF AtRest

\* Connectors as they are in Settings: at rest what Settings shows is what there is, no connection is left open,
\* and a call runs once (connector-routes.ts, mcp-client.ts, tool-registry.ts).
THEOREM ConnectorsApply == C!Spec => [](C!TypeOK /\ C!SettingsApply /\ C!NothingLeftOpen)
<1>1. ConnectorsInv => C!SettingsApply
  <2> SUFFICES ASSUME ConnectorsInv, NEW n \in Custom, ~C!Busy(n), n \notin busyNames
               PROVE  /\ token[n] = given[n]
                      /\ IF row[n].on THEN n \in failed \/ C!Works(n) ELSE tools[n] = C!None /\ C!Named(n) = {}
    BY DEF C!SettingsApply
  <2>1. AtRest(n) /\ ListOK  BY DEF ConnectorsInv, UncrossedInv, Sound, ConnsInv
  <2> QED  BY <2>1, AtRestApplies
<1>2. ConnectorsInv => C!NothingLeftOpen  BY DEF ConnectorsInv, OpenInv, InList, C!NothingLeftOpen
<1> QED  BY <1>1, <1>2, ConnectorsStart, ConnectorsStep, ConnectorsTypes, PTL DEF C!Spec

-----------------------------------------------------------------------------
(* The sum                                                                 *)

\* In the sum these components behave as their own specifications say.
THEOREM EachIsItsOwn == WorkbenchSpec => Spec /\ W!Spec /\ P!Spec /\ R!Spec /\ C!Spec
<1>1. WorkbenchInit => Init /\ W!Init /\ P!Init /\ R!Init /\ C!Init  BY DEF WorkbenchInit
<1>2. [WorkbenchNext]_workbenchAll => /\ [Next]_vars /\ [W!Next]_(W!vars) /\ [P!Next]_(P!vars)
                              /\ [R!Next]_(R!browserVars) /\ [C!Next]_(C!connectorVars)
  <2> SUFFICES ASSUME [WorkbenchNext]_workbenchAll
               PROVE  /\ [Next]_vars /\ [W!Next]_(W!vars) /\ [P!Next]_(P!vars)
                      /\ [R!Next]_(R!browserVars) /\ [C!Next]_(C!connectorVars)
    OBVIOUS
  <2>1. [Next]_vars  BY DEF WorkbenchNext, workbenchAll
  <2>2. [W!Next]_(W!vars)  BY DEF WorkbenchNext, workbenchAll, workspaceVars, W!vars, W!panel, W!bounds
  <2>3. [P!Next]_(P!vars)  BY DEF WorkbenchNext, workbenchAll, pageVars, P!vars
  <2>4. [R!Next]_(R!browserVars)  BY DEF WorkbenchNext, workbenchAll, browserVars, R!browserVars
  <2>5. [C!Next]_(C!connectorVars)  BY DEF WorkbenchNext, workbenchAll, connectorVars, C!connectorVars
  <2> QED  BY <2>1, <2>2, <2>3, <2>4, <2>5
<1> QED  BY <1>1, <1>2, PTL DEF WorkbenchSpec, Spec, W!Spec, P!Spec, R!Spec, C!Spec

\* What a step of one component that changes nothing is in the sum.
LEMMA NothingElseMoves ==
  ASSUME [WorkbenchNext]_workbenchAll
  PROVE  /\ part = "scm" /\ UNCHANGED vars => UNCHANGED workbenchAll
         /\ part = "workspace" /\ UNCHANGED W!vars => UNCHANGED workbenchAll
         /\ part = "pages" /\ UNCHANGED P!vars => UNCHANGED workbenchAll
         /\ part = "browser" /\ UNCHANGED R!browserVars => UNCHANGED workbenchAll
<1>1. part = "scm" /\ UNCHANGED vars => UNCHANGED workbenchAll  BY DEF WorkbenchNext, workbenchAll
<1>2. part = "workspace" /\ UNCHANGED W!vars => UNCHANGED workbenchAll  BY DEF WorkbenchNext, workbenchAll, workspaceVars, W!vars, W!panel, W!bounds
<1>3. part = "pages" /\ UNCHANGED P!vars => UNCHANGED workbenchAll  BY DEF WorkbenchNext, workbenchAll, pageVars, P!vars
<1>4. part = "browser" /\ UNCHANGED R!browserVars => UNCHANGED workbenchAll
  BY DEF WorkbenchNext, workbenchAll, browserVars, R!browserVars
<1> QED  BY <1>1, <1>2, <1>3, <1>4

\* A click in source control or in the explorer changes what it shows, in the sum.
THEOREM WorkbenchFilesAreMeant == WorkbenchSpec => FilesAreMeant
<1>1. ASSUME [WorkbenchNext]_workbenchAll, [HunkIsTheShownOne /\ DiscardKeepsStaged]_vars, MarkersAreStale',
             [W!HalfFileWasSwept /\ W!RollbackIsExact]_(W!vars)
      PROVE  [/\ part = "scm" => HunkIsTheShownOne /\ DiscardKeepsStaged /\ MarkersAreStale'
              /\ part = "workspace" => W!HalfFileWasSwept /\ W!RollbackIsExact]_workbenchAll
  BY <1>1, NothingElseMoves
<1>2. WorkbenchSpec => [][WorkbenchNext]_workbenchAll  BY DEF WorkbenchSpec
<1> QED  BY EachIsItsOwn, ClicksAreMeant, WritesAreWhole, <1>1, <1>2, PTL DEF FilesAreMeant

\* What is open outside is owned and acts only as it was told, in the sum.
THEOREM WorkbenchOutsideIsOwned == WorkbenchSpec => OutsideIsOwned
<1>1. ASSUME [WorkbenchNext]_workbenchAll, [R!NavigationsWereAllowed]_(R!browserVars), [P!PartsAgree]_(P!vars), P!BodyIsOfHost',
             R!PoolIsLive', R!StraysAreCrossed', R!ActsOnWhatWasListed', C!SettingsApply', C!NothingLeftOpen'
      PROVE  [/\ part = "browser" => /\ R!NavigationsWereAllowed
                                     /\ R!PoolIsLive' /\ R!StraysAreCrossed' /\ R!ActsOnWhatWasListed'
              /\ part = "connectors" => C!SettingsApply' /\ C!NothingLeftOpen'
              /\ part = "pages" => P!PartsAgree /\ P!BodyIsOfHost']_workbenchAll
  BY <1>1, NothingElseMoves
<1>2. WorkbenchSpec => [][WorkbenchNext]_workbenchAll  BY DEF WorkbenchSpec
<1> QED
  BY EachIsItsOwn, BrowsersAreOwned, ConnectorsApply, PagesAreWhole, <1>1, <1>2, PTL DEF OutsideIsOwned
=============================================================================
