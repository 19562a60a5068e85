-------------------------------- MODULE FilePatch --------------------------------
(***************************************************************************)
(* Applying a unified diff: the tool apply-patch (extensions/src/tools/    *)
(* apply-patch/executor.ts), whose calls the tool loop may run side by     *)
(* side over the same files.                                               *)
(*                                                                         *)
(* An entry of the patch at a time: its file is read for the backup, read  *)
(* again, changed and written; whatever goes wrong, the files of the       *)
(* backup are put back, one after the other.                               *)
(*                                                                         *)
(* Abstractions: a patch is parsed; a line is its text and its white space *)
(* around; a path is a name, or one outside the base, which is refused; a  *)
(* patch that cannot be parsed changes nothing and is left out.            *)
(***************************************************************************)
LOCAL INSTANCE Integers
LOCAL INSTANCE FiniteSets
LOCAL INSTANCE Sequences
LOCAL INSTANCE SequencesExt
LOCAL INSTANCE FiniteSetsExt

CONSTANTS
    PatchCalls,
    Patches,            \* what each may apply: sequences of entries
    Contents,           \* what the files may be at first: functions of the paths
    MaxFileFaults       \* reads and writes that fail, in all

VARIABLES
    files,              \* path -> content
    edits,              \* the calls
    fileFaults

patchVars == <<files, edits, fileFaults>>

(* A content: is there, its lines, whether the last one is ended, by CRLF.   *)
NoFile == [there |-> FALSE, lines |-> <<>>, ended |-> FALSE, crlf |-> FALSE]
Text(lines, ended) == [there |-> TRUE, lines |-> lines, ended |-> ended, crlf |-> FALSE]

(* splitContent, with which a file loses its CRLFs.                          *)
SplitContent(content) == [content EXCEPT !.crlf = FALSE]

-----------------------------------------------------------------------------
(* A line <<text, white space>>; a hunk [start, lines], a line of which is   *)
(* [type, line].                                                             *)
Radius == 3

(* Where a line is found: here, but for white space, or else as it is at the *)
(* first place around.  0 is nowhere.                                        *)
FindOffsetMatch(source, here, line) ==
    LET places == {i \in (here - Radius) .. (here + Radius) \cap DOMAIN source :
                      i # here /\ source[i] = line}
    IN IF places = {} THEN 0 ELSE Min(places)
FoundAt(source, here, line) ==
    IF here \in DOMAIN source /\ source[here][1] = line[1] THEN here
    ELSE FindOffsetMatch(source, here, line)

(* What is applied so far: the place in the source, what has come out; it    *)
(* may have failed, or gone back.                                            *)
Applied0 == [ok |-> TRUE, at |-> 1, out |-> <<>>, back |-> FALSE]

ApplyLine(source, s, entry) ==
    LET i == FoundAt(source, s.at, entry.line)
    IN IF entry.type = "+" THEN [s EXCEPT !.out = Append(@, entry.line)]
       ELSE IF i = 0 THEN [s EXCEPT !.ok = FALSE]
       ELSE [s EXCEPT !.at = i + 1, !.back = @ \/ i < s.at,
                      !.out = @ \o SubSeq(source, s.at, i - 1)
                                \o IF entry.type = " " THEN <<source[i]>> ELSE <<>>]

ApplyHunk(source, s, hunk) ==
    LET start == Max({1, hunk.start})
    IN IF ~ s.ok \/ start < s.at THEN [s EXCEPT !.ok = FALSE]
       ELSE FoldLeft(LAMBDA t, entry : IF t.ok THEN ApplyLine(source, t, entry) ELSE t,
                     [s EXCEPT !.at = start,
                               !.out = @ \o SubSeq(source, s.at, Min({start - 1, Len(source)}))],
                     hunk.lines)

(* The ending of the file stays as it was: that of a new one has none.       *)
ApplyFilePatch(original, hunks) ==
    LET s == FoldLeft(LAMBDA t, hunk : ApplyHunk(original.lines, t, hunk), Applied0, hunks)
    IN [ok |-> s.ok, back |-> s.back,
        content |-> Text(s.out \o SubSeq(original.lines, s.at, Len(original.lines)),
                         original.ended)]

-----------------------------------------------------------------------------
NoEdit == [at |-> "idle", patch |-> <<>>, entry |-> 1, backups |-> <<>>, next |-> NoFile,
           undone |-> 0, aborted |-> FALSE, misread |-> FALSE, stuck |-> FALSE,
           before |-> <<>>, alone |-> TRUE]

PatchTypeOK ==
    /\ \A p \in DOMAIN files : DOMAIN files[p] = DOMAIN NoFile
    /\ \A c \in PatchCalls :
         /\ edits[c].at \in {"idle", "entry", "read", "write", "rollback", "done", "failed"}
         /\ edits[c].undone \in 0 .. Len(edits[c].backups)
    /\ fileFaults \in 0 .. MaxFileFaults

PatchInit ==
    /\ files \in Contents
    /\ edits = [c \in PatchCalls |-> NoEdit]
    /\ fileFaults = 0

Editing(c) == edits[c].at \in {"entry", "read", "write", "rollback"}
Entry(c) == edits[c].patch[edits[c].entry]
Backed(e, path) == \E i \in DOMAIN e.backups : e.backups[i].path = path
Backup(e, path) == e.backups[CHOOSE i \in DOMAIN e.backups : e.backups[i].path = path].content

SetEdit(c, e) == edits' = [edits EXCEPT ![c] = e]
ToRollback(e) == [e EXCEPT !.at = "rollback"]

(* A call writes a path: no other that has begun is alone any more.          *)
Wrote(c, e, path, content) ==
    /\ files' = [files EXCEPT ![path] = content]
    /\ edits' = [d \in PatchCalls |->
                    IF d = c THEN e ELSE [edits[d] EXCEPT !.alone = @ /\ edits[d].at = "idle"]]
Fault == fileFaults < MaxFileFaults /\ fileFaults' = fileFaults + 1

PatchCalled(c, patch) ==
    /\ edits[c].at = "idle"
    /\ SetEdit(c, [NoEdit EXCEPT !.at = "entry", !.patch = patch, !.before = files])
    /\ UNCHANGED <<files, fileFaults>>

PatchAborted(c) ==
    /\ Editing(c) /\ ~ edits[c].aborted
    /\ SetEdit(c, [edits[c] EXCEPT !.aborted = TRUE])
    /\ UNCHANGED <<files, fileFaults>>

(* The next entry: there is none, it may not be, or its file is kept for the *)
(* way back.  One that cannot be read is taken for one that is not there.    *)
EntryStarts(c) ==
    LET e == edits[c]
        Kept(content) == [path |-> Entry(c).path, content |-> SplitContent(content)]
    IN /\ e.at = "entry"
       /\ UNCHANGED files
       /\ \/ /\ e.entry > Len(e.patch)
             /\ SetEdit(c, [e EXCEPT !.at = "done"]) /\ UNCHANGED fileFaults
          \/ /\ e.entry <= Len(e.patch) /\ (e.aborted \/ Entry(c).outside)
             /\ SetEdit(c, ToRollback(e)) /\ UNCHANGED fileFaults
          \/ /\ e.entry <= Len(e.patch) /\ ~ e.aborted /\ ~ Entry(c).outside
             /\ IF Backed(e, Entry(c).path) THEN SetEdit(c, [e EXCEPT !.at = "read"])
                ELSE SetEdit(c, [e EXCEPT !.at = "read", !.backups =
                                            Append(@, Kept(files[Entry(c).path]))])
             /\ UNCHANGED fileFaults
          \/ /\ e.entry <= Len(e.patch) /\ ~ e.aborted /\ ~ Entry(c).outside
             /\ ~ Backed(e, Entry(c).path) /\ Fault
             /\ SetEdit(c, [e EXCEPT !.at = "read", !.misread = TRUE,
                                     !.backups = Append(@, Kept(NoFile))])

(* The second read, of a file that was there at the backup, and the change.  *)
ReadsAndApplies(c) ==
    LET e == edits[c]
        Changed(original) ==
            LET next == ApplyFilePatch(SplitContent(original), Entry(c).hunks)
            IN IF next.ok THEN [e EXCEPT !.at = "write", !.next = next.content] ELSE ToRollback(e)
    IN /\ e.at = "read"
       /\ UNCHANGED files
       /\ \/ /\ SetEdit(c, Changed(IF Backup(e, Entry(c).path).there THEN files[Entry(c).path]
                                   ELSE NoFile))
             /\ UNCHANGED fileFaults
          \/ /\ Backup(e, Entry(c).path).there /\ Fault
             /\ SetEdit(c, [Changed(NoFile) EXCEPT !.misread = TRUE])

(* Written or removed; a write that fails may have emptied the file.         *)
WritesEntry(c) ==
    LET e == edits[c]
        path == Entry(c).path
    IN /\ e.at = "write"
       /\ \/ /\ Wrote(c, [e EXCEPT !.at = "entry", !.entry = @ + 1], path,
                      IF Entry(c).delete THEN NoFile ELSE e.next)
             /\ UNCHANGED fileFaults
          \/ /\ Fault
             /\ \E left \in {files[path], Text(<<>>, FALSE)} :
                   Wrote(c, ToRollback(e), path, IF Entry(c).delete THEN files[path] ELSE left)

(* A file is put back.  A removal that fails is passed over; a write that    *)
(* fails is the end of it.                                                   *)
RollsBack(c) ==
    LET e == edits[c]
        b == e.backups[e.undone + 1]
    IN /\ e.at = "rollback"
       /\ \/ /\ e.undone = Len(e.backups)
             /\ SetEdit(c, [e EXCEPT !.at = "failed"]) /\ UNCHANGED <<files, fileFaults>>
          \/ /\ e.undone < Len(e.backups)
             /\ Wrote(c, [e EXCEPT !.undone = @ + 1], b.path, b.content)
             /\ UNCHANGED fileFaults
          \/ /\ e.undone < Len(e.backups) /\ Fault
             /\ SetEdit(c, IF b.content.there THEN [e EXCEPT !.at = "failed", !.stuck = TRUE]
                           ELSE [e EXCEPT !.undone = @ + 1, !.stuck = TRUE])
             /\ UNCHANGED files

PatchStep(c) == EntryStarts(c) \/ ReadsAndApplies(c) \/ WritesEntry(c) \/ RollsBack(c)

PatchNext ==
    \E c \in PatchCalls : \/ \E patch \in Patches[c] : PatchCalled(c, patch)
                          \/ PatchAborted(c) \/ PatchStep(c)

PatchSpec == PatchInit /\ [][PatchNext]_patchVars

-----------------------------------------------------------------------------
(* After a patch that failed every file is as before, but for its CRLFs --   *)
(* unless another call wrote meanwhile, a file could not be read or could    *)
(* not be put back.                                                          *)
Clear(e) == e.alone /\ ~ e.misread /\ ~ e.stuck
AllOrNothing ==
    \A c \in PatchCalls :
      LET e == edits[c]
      IN e.at = "failed" /\ Clear(e) =>
           \A p \in DOMAIN files :
              files[p] = IF Backed(e, p) THEN SplitContent(e.before[p]) ELSE e.before[p]

(* After one that succeeded every file is what the entries make of it, one   *)
(* after the other -- unless an entry changes what an earlier one created.   *)
Applied(e) ==
    FoldLeft(LAMBDA now, entry :
                [now EXCEPT ![entry.path] =
                    IF entry.delete THEN NoFile
                    ELSE ApplyFilePatch(SplitContent(@), entry.hunks).content],
             e.before, e.patch)
ChangesItsOwn(e) ==
    \E i, j \in DOMAIN e.patch :
       i < j /\ e.patch[i].path = e.patch[j].path /\ ~ e.before[e.patch[i].path].there
SuccessIsTheWhole ==
    \A c \in PatchCalls :
      LET e == edits[c]
      IN e.at = "done" /\ Clear(e) /\ ~ ChangesItsOwn(e) => files = Applied(e)

PatchSound == AllOrNothing /\ SuccessIsTheWhole

(* A hunk whose context is where it says gives what it says; and wherever    *)
(* its lines are found, as long as it was ahead, no other line is lost or    *)
(* doubled.                                                                  *)
HunkSound(sources, hunks) ==
    \A source \in sources, hunk \in hunks :
      LET Side(without) == [i \in DOMAIN SelectSeq(hunk.lines, LAMBDA l : l.type # without) |->
                               SelectSeq(hunk.lines, LAMBDA l : l.type # without)[i].line]
          old == Side("+")
          new == Side("-")
          last == hunk.start + Len(old) - 1
          result == ApplyFilePatch(Text(source, TRUE), <<hunk>>)
      IN /\ last <= Len(source) /\ SubSeq(source, hunk.start, last) = old
              => /\ result.ok
                 /\ result.content.lines = SubSeq(source, 1, hunk.start - 1) \o new
                                             \o SubSeq(source, last + 1, Len(source))
         /\ result.ok /\ ~ result.back
              => Len(result.content.lines) = Len(source) + Len(new) - Len(old)
=============================================================================
