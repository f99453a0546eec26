----------------------------- MODULE FilePatch -----------------------------
(***************************************************************************)
(* What the tools of a plan do to one file: harness_modules/file_patch,    *)
(* file_replace_range, file_copy and verify_syntax.  The executor runs     *)
(* each call in a thread, so calls of two tasks may interleave.            *)
(*                                                                         *)
(* A call reads the file, computes the new text from what it read, backs   *)
(* up what is there then, truncates and writes.  file_patch parses the     *)
(* outcome and puts its own backup back if that fails; verify_syntax,      *)
(* which plans call next, puts the latest backup back if it finds fault.   *)
(***************************************************************************)
EXTENDS Integers, Sequences, SequencesExt

CONSTANTS
  Tasks,
  Plans,     \* calls to choose from: the tool and how well its line is written
  Base,      \* the lines the file may have at first: a text of two lines
  MaxFaults

VARIABLES
  kind,     \* "code", "js" where node is missing, "doc"
  file,     \* whether it is there, and its lines: who wrote each, and how well
  backups,  \* .backups, oldest first
  job,
  before,   \* history: the text before the last change that was kept
  blame,    \* history: what happened that a text may suffer from
  faults

pvars == << kind, file, backups, job, before, blame, faults >>

-----------------------------------------------------------------------------
(* Texts *)

\* A line is "fine", "broken" or calls what is "undefined".
Line(t, q) == [by |-> t, is |-> q]
Missing == [there |-> FALSE, text |-> << >>]
Having(text) == [there |-> TRUE, text |-> text]
Parses(text) == \A i \in DOMAIN text : text[i].is # "broken"
Sound(text) == \A i \in DOMAIN text : text[i].is = "fine"

FilePatches == {"anchor", "snippet", "overwrite", "create"}

\* The empty or missing file is created, also by an anchor that finds it empty, and an
\* existing one may be overwritten, by content of its own.
Creates(tool) ==
  \/ tool = "overwrite" /\ file.there
  \/ tool = "create" /\ file.text = << >>
  \/ tool = "anchor" /\ file.there /\ file.text = << >>

\* One line is found: the anchor's, to insert after, or the snippet's, to replace.
Match(tool) == IF tool = "anchor" THEN Base[1] ELSE Base[2]
Places(tool) == {i \in DOMAIN file.text : file.text[i] = Match(tool)}
Patches(tool) == tool \in {"anchor", "snippet"} /\ \E i \in DOMAIN file.text : Places(tool) = {i}

\* file_replace_range takes lines by number, whatever they are by now.
Replaces(tool) == tool = "range" /\ file.there

\* file_copy brings another text, over this one if asked to.
Copies(tool) == tool = "copy"

Takes(tool) == Creates(tool) \/ Patches(tool) \/ Replaces(tool) \/ Copies(tool)

NewText(tool, line) ==
  LET text == file.text
      at == CHOOSE i \in DOMAIN text : Places(tool) = {i}
  IN  IF Creates(tool) \/ Copies(tool) \/ text = << >> THEN << line >>
      ELSE CASE tool = "anchor" -> InsertAt(text, at + 1, line)
             [] tool = "snippet" -> ReplaceAt(text, at, line)
             [] tool = "range" -> ReplaceAt(text, 1, line)

-----------------------------------------------------------------------------
(* A call *)

At(t, pc) == job[t].pc = pc
Writing(t) == job[t].pc \in {"backup", "open", "fill", "check", "restore"}

\* What is to blame when t writes: another call is between its reading and its report.
Met(t) ==
  IF \E u \in Tasks \ {t} : Writing(u) \/ At(u, "revert") THEN blame \cup {"overlap"} ELSE blame

Goto(t, pc) == job' = [job EXCEPT ![t].pc = pc]
Report(t, res) == job' = [job EXCEPT ![t].pc = "done", ![t].res = res, ![t].left = file'.text]

\* The call reads the file and works out the new text; a file it creates has no backup,
\* and file_copy makes none.  A line number or path that does not fit, an anchor or
\* snippet that is not there once: the call is refused.
Call(t, tool, q) ==
  LET line == Line(t, q)
      first == IF Copies(tool) \/ ~ file.there THEN "open" ELSE "backup"
  IN  /\ At(t, "idle")
      /\ job' = [job EXCEPT ![t] =
           IF Takes(tool)
             THEN [pc |-> first, tool |-> tool, line |-> line, old |-> file.text,
                   new |-> NewText(tool, line), bak |-> 0, res |-> "none", left |-> << >>]
             ELSE [pc |-> "done", tool |-> tool, line |-> line, old |-> file.text,
                   new |-> file.text, bak |-> 0, res |-> "refused", left |-> file.text]]
      /\ UNCHANGED << kind, file, backups, before, blame, faults >>

\* Mutant of BackedUp: the backup has the new text.
BackedUpLate(t) == job[t].new

\* What is there by now is backed up.
BackedUp(t) == file.text

\* A backup that fails is passed over.
Backup(t, made) ==
  /\ At(t, "backup") /\ (made \/ faults < MaxFaults)
  /\ IF made
       THEN /\ backups' = Append(backups, BackedUp(t))
            /\ job' = [job EXCEPT ![t].pc = "open", ![t].bak = Len(backups) + 1]
            /\ UNCHANGED << blame, faults >>
       ELSE /\ Goto(t, "open")
            /\ blame' = blame \cup {"backup"} /\ faults' = faults + 1
            /\ UNCHANGED backups
  /\ UNCHANGED << kind, file, before >>

\* open(..., "w") empties the file, ...
Open(t) ==
  /\ At(t, "open")
  /\ file' = Having(<< >>)
  /\ Goto(t, "fill")
  /\ blame' = Met(t)
  /\ UNCHANGED << kind, backups, before, faults >>

\* ... and what is written covers what another call wrote meanwhile, as far as it goes.
\* file_patch goes on to parse a .py or .js file.
Fill(t) ==
  LET new == job[t].new
      checked == job[t].tool \in FilePatches /\ kind # "doc"
  IN
  /\ At(t, "fill")
  /\ file' = Having(new \o SubSeq(file.text, Len(new) + 1, Len(file.text)))
  /\ IF checked THEN Goto(t, "check") ELSE Report(t, "success")
  /\ before' = IF checked THEN before ELSE job[t].old
  /\ blame' = Met(t) \cup (IF job[t].tool = "copy" THEN {"copy"} ELSE {})
                     \cup (IF ~ checked /\ ~ Parses(new) THEN {"unchecked"} ELSE {})
  /\ UNCHANGED << kind, backups, faults >>

\* A parser that cannot be started finds a syntax error.
Accepted(text) == Parses(text) /\ kind # "js"

\* With no backup the text stays as it is.
Check(t) ==
  /\ At(t, "check")
  /\ UNCHANGED << kind, file, backups, faults >>
  /\ IF Accepted(file.text)
       THEN Report(t, "success") /\ before' = job[t].old /\ UNCHANGED blame
       ELSE IF job[t].bak # 0
         THEN Goto(t, "restore") /\ UNCHANGED << before, blame >>
         ELSE /\ Report(t, "failed") /\ before' = job[t].old
              /\ blame' = blame \cup {"unchecked"}

Restore(t) ==
  /\ At(t, "restore")
  /\ file' = Having(backups[job[t].bak])
  /\ Report(t, "failed")
  /\ blame' = Met(t)
  /\ UNCHANGED << kind, backups, before, faults >>

-----------------------------------------------------------------------------
(* verify_syntax, and the end of a call *)

\* Without node a .js file is passed over, and so is any other kind of file; what
\* parses may still call what it does not define.
Verify(t) ==
  /\ At(t, "done")
  /\ IF kind = "code" /\ file.there /\ ~ Sound(file.text) /\ backups # << >>
       THEN Goto(t, "revert")
       ELSE Goto(t, "end")
  /\ UNCHANGED << kind, file, backups, before, blame, faults >>

\* The latest backup of the file, whoever made it
Revert(t) ==
  /\ At(t, "revert")
  /\ file' = Having(Last(backups))
  /\ Goto(t, "end")
  /\ blame' = Met(t)
  /\ UNCHANGED << kind, backups, before, faults >>

\* The plan has no verification.
Skip(t) ==
  /\ At(t, "done")
  /\ Goto(t, "end")
  /\ UNCHANGED << kind, file, backups, before, blame, faults >>

None == [pc |-> "idle"]   \* no call yet

\* The server stops; the steps it was at are executed again after the start.
Crash ==
  /\ faults < MaxFaults /\ \E t \in Tasks : Writing(t)
  /\ job' = [t \in Tasks |-> IF At(t, "end") THEN job[t] ELSE None]
  /\ blame' = blame \cup {"crash"}
  /\ faults' = faults + 1
  /\ UNCHANGED << kind, file, backups, before >>

\* The plans call no tool any more.
Over == (\A t \in Tasks : At(t, "end")) /\ UNCHANGED pvars

PatchInit ==
  /\ kind \in {"code", "js", "doc"}
  /\ file \in {Missing, Having(Base)}
  /\ backups = << >>
  /\ job = [t \in Tasks |-> None]
  /\ before = << >>
  /\ blame = {} /\ faults = 0

PatchNext ==
  \/ \E t \in Tasks :
       \/ \E p \in Plans : Call(t, p[1], p[2])
       \/ \E made \in BOOLEAN : Backup(t, made)
       \/ Open(t) \/ Fill(t) \/ Check(t) \/ Restore(t) \/ Verify(t) \/ Revert(t) \/ Skip(t)
  \/ Crash
  \/ Over

PatchSpec == PatchInit /\ [][PatchNext]_pvars

-----------------------------------------------------------------------------
(* Properties *)

AtRest == \A t \in Tasks : ~ Writing(t) /\ ~ At(t, "revert")

\* A call that no other met and no crash cut is all or nothing: after success the file
\* has the new text, after a failure the one it had, unless the call had no backup.
AllOrNothing ==
  blame \cap {"overlap", "crash"} = {} =>
    \A t \in Tasks : At(t, "done") =>
      job[t].left = (IF job[t].res = "success" \/ (job[t].res = "failed" /\ job[t].bak = 0)
                       THEN job[t].new ELSE job[t].old)

\* The file parses at rest, though calls write what does not, unless two calls met,
\* one was cut by a crash, a backup failed, or a call that wrote it was not checked.
FileParses == blame = {} /\ AtRest => Parses(file.text)

\* What verify_syntax would put back is the text of now or the one before the last
\* change: it undoes no more than that, unless a call leaves no backup (copies never
\* make one), two met or one was cut.
UndoesOne ==
  blame \subseteq {"unchecked"} /\ AtRest /\ backups # << >> =>
    Last(backups) \in {file.text, before}

\* What the tools promise for a file they patch: patches are all or nothing, it parses
\* at rest, and a verification undoes at most the last change.
PatchesAreWhole == AllOrNothing /\ FileParses /\ UndoesOne
=============================================================================
