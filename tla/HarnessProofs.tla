---------------------------- MODULE HarnessProofs ----------------------------
(***************************************************************************)
(* Proofs about what is left behind when calls meet: files that tools      *)
(* patch, memories and patterns of the harness, and the project library.   *)
(*                                                                         *)
(* 1. PatchesAreWhole for any number of calls on a file, any plans and any *)
(* sound text the file may have at first.  The property speaks of calls    *)
(* that met no other and were not cut.  What makes it inductive is what    *)
(* such a call relies on between its steps: the text it read is still that *)
(* of the file until it opens it, the file is its own until it reports     *)
(* (OneHolder), and its backup is the text it read (InHand).  Whether      *)
(* backups parse, and what the latest of them is, depends on calls that    *)
(* have met already but have not written since: such a state is Undoing,   *)
(* the next write in it is to blame.                                       *)
(*                                                                         *)
(* 2. ExperienceAddsUp for any notes, results, bounds and failures, though *)
(* the clean-up works between the transactions of remember and             *)
(* _upsert_pattern.  It is not inductive by itself.  The call that is      *)
(* about to store a text must know that nobody has stored it since it      *)
(* looked, and the results a call still holds must not be used up: that is *)
(* ExperienceInv.  Nothing but the call itself adds rows or hits; the      *)
(* clean-up, the age and a user who forgets only take rows away, which is  *)
(* RowsOnlyGo and PatternsOnlyAge.                                         *)
(*                                                                         *)
(* 3. LibraryIsWhole, TextOnce and FixesListedOnce for any texts, names,   *)
(* users and bounds, though three imports may be under way at once.  A     *)
(* name nothing is half replaced of (Steady) stands by its meta data.  An  *)
(* import that met no other has the rows of its name to itself, as far as  *)
(* it got (Progress); one that did knows (Meetings).  And a text that      *)
(* passed the check is under no other name (Twins), for its row would have *)
(* refused it.  The list of fixes is a fold: induction over the subsets of *)
(* its indices says what it keeps, as in SumLemmas.                        *)
(***************************************************************************)
EXTENDS FilePatch, Experience, EconomyParts, SumLemmas, SequenceTheorems, TLAPS

-----------------------------------------------------------------------------
(* Files that calls patch *)

\* Lines of the first text, and lines a call may write
Lines == {Base[i] : i \in DOMAIN Base} \cup {Line(t, p[2]) : t \in Tasks, p \in Plans}
Text == Seq(Lines)

\* The first text is one, and it parses.
SoundBase == Base \in Text /\ Parses(Base)

Job == [pc : {"backup", "open", "fill", "check", "restore", "done", "revert", "end"},
        tool : {p[1] : p \in Plans}, line : Lines, old : Text, new : Text, bak : Nat,
        res : {"none", "success", "failed", "refused"}, left : Text]

FileTypeOK ==
  /\ kind \in {"code", "js", "doc"}
  /\ file \in [there : BOOLEAN, text : Text]
  /\ backups \in Seq(Text)
  /\ job \in [Tasks -> Job \cup {None}]

\* Two calls met, or one was cut
Clean == blame \cap {"overlap", "crash"} = {}

\* Every call that changed the file and kept the change had a backup.
Careful == blame \subseteq {"unchecked"}

\* The call has emptied the file and not reported yet.
Holds(t) == job[t].pc \in {"fill", "check", "restore"}

OneHolder == \A t, u \in Tasks : Holds(t) /\ Holds(u) => t = u

\* What a call relies on between its steps
InHand(t) ==
  /\ job[t].pc \in {"backup", "open"} => job[t].old = file.text
  /\ At(t, "fill") => file.text = << >>
  /\ At(t, "check") => file.text = job[t].new
  /\ Writing(t) /\ job[t].bak # 0 => backups[job[t].bak] = job[t].old
  /\ At(t, "done") =>
       job[t].left = (IF job[t].res = "success" \/ (job[t].res = "failed" /\ job[t].bak = 0)
                        THEN job[t].new ELSE job[t].old)

\* A file that is missing has no backup yet, and the backups that will be put back
\* are there.
BackupsOfFile ==
  /\ ~ file.there => backups = << >> /\ \A t \in Tasks : ~ At(t, "backup")
  /\ \A t \in Tasks :
       /\ At(t, "revert") => backups # << >>
       /\ At(t, "restore") => job[t].bak # 0
       /\ Writing(t) => job[t].bak = 0 \/ job[t].bak \in DOMAIN backups

\* A call is about to put its backup back while another is writing.
Undoing ==
  \E t, u \in Tasks :
    /\ t # u /\ Writing(u)
    /\ At(t, "restore") \/ (At(t, "check") /\ ~ Accepted(file.text))

\* Nothing to blame: what is in the file and in the backups parses.
AllParse ==
  blame = {} =>
    /\ (\A t \in Tasks : job[t].pc \notin {"check", "restore"}) => Parses(file.text)
    /\ ~ Undoing => \A i \in DOMAIN backups : Parses(backups[i])

\* The latest backup, before the call opens the file, while it holds it, and after
LatestBackup ==
  Careful =>
    /\ \A t \in Tasks : At(t, "open") =>
         IF job[t].bak # 0 THEN backups # << >> /\ Last(backups) = file.text
         ELSE ~ file.there \/ job[t].tool = "copy"
    /\ \A t \in Tasks : Holds(t) =>
         \/ backups = << >>
         \/ Last(backups) = job[t].old
         \/ At(t, "fill") /\ job[t].tool = "copy"
         \/ /\ \E u \in Tasks \ {t} : Writing(u)
            /\ At(t, "check") => Last(backups) = file.text
    /\ (\A t \in Tasks : ~ Holds(t)) /\ backups # << >>
         => Last(backups) \in {file.text, before}

FileInv ==
  /\ FileTypeOK /\ BackupsOfFile
  /\ Clean => OneHolder /\ \A t \in Tasks : InHand(t)
  /\ AllParse
  /\ LatestBackup

LEMMA FileInvImplies == FileInv => PatchesAreWhole
<1> SUFFICES ASSUME FileInv PROVE PatchesAreWhole
  OBVIOUS
<1>1. AllOrNothing
  BY DEF FileInv, AllOrNothing, Clean, InHand
<1>2. FileParses
  BY DEF FileInv, AllParse, FileParses, AtRest, Writing
<1>3. UndoesOne
  BY DEF FileInv, LatestBackup, Careful, UndoesOne, AtRest, Writing, Holds
<1> QED
  BY <1>1, <1>2, <1>3 DEF PatchesAreWhole

LEMMA FileInitHolds == ASSUME SoundBase, PatchInit PROVE FileInv
<1>1. FileTypeOK
  <2>1. << >> \in Text /\ << >> \in Seq(Text) /\ Base \in Text
    BY DEF Text, SoundBase
  <2>2. Missing \in [there : BOOLEAN, text : Text] /\ Having(Base) \in [there : BOOLEAN, text : Text]
    BY <2>1 DEF Missing, Having
  <2> QED
    BY <2>1, <2>2 DEF PatchInit, FileTypeOK
<1>2. \A t \in Tasks : job[t] = None
  BY DEF PatchInit
<1>3. backups = << >> /\ (file.text = << >> \/ file.text = Base)
  BY DEF PatchInit, Missing, Having
<1>4. Parses(file.text)
  BY <1>3 DEF SoundBase, Parses
<1>5. OneHolder /\ BackupsOfFile /\ \A t \in Tasks : InHand(t)
  BY <1>2, <1>3 DEF OneHolder, BackupsOfFile, InHand, Holds, At, Writing, None
<1>6. AllParse /\ LatestBackup
  BY <1>2, <1>3, <1>4 DEF AllParse, LatestBackup, Holds, At, None
<1> QED
  BY <1>1, <1>5, <1>6 DEF FileInv

-----------------------------------------------------------------------------
(* Texts *)

LEMMA JobType == ASSUME FileTypeOK, NEW t \in Tasks, job[t].pc # "idle" PROVE job[t] \in Job
BY DEF FileTypeOK, None

\* The text a call works out is one.
LEMMA NewTextType ==
  ASSUME FileTypeOK, NEW tool, NEW line \in Lines, Takes(tool)
  PROVE  NewText(tool, line) \in Text
<1>1. PICK s \in Text : s = file.text
  BY DEF FileTypeOK
<1>2. << line >> \in Text
  BY DEF Text
<1>3. ASSUME NEW i \in DOMAIN s
      PROVE  InsertAt(s, i + 1, line) \in Text /\ ReplaceAt(s, i, line) \in Text
  <2>1. i \in 1 .. Len(s) /\ Len(s) \in Nat /\ \A j \in 1 .. Len(s) : s[j] \in Lines
    BY <1>3 DEF Text
  <2>2. SubSeq(s, 1, i) \in Seq(Lines) /\ SubSeq(s, i + 1, Len(s)) \in Seq(Lines)
    BY <2>1
  <2>3. SubSeq(s, 1, i) \o << line >> \o SubSeq(s, i + 1, Len(s)) \in Seq(Lines)
    BY <2>2
  <2>4. i + 1 - 1 = i
    BY <2>1
  <2>5. InsertAt(s, i + 1, line) \in Text
    BY <2>3, <2>4 DEF InsertAt, Text
  <2>6. ReplaceAt(s, i, line) \in [1 .. Len(s) -> Lines]
    BY <2>1 DEF ReplaceAt, Text
  <2> QED
    BY <2>1, <2>5, <2>6 DEF Text
<1>4. CASE Creates(tool) \/ Copies(tool) \/ s = << >>
  BY <1>1, <1>2, <1>4 DEF NewText
<1>5. CASE ~(Creates(tool) \/ Copies(tool) \/ s = << >>)
  <2>1. CASE tool \in {"anchor", "snippet"}
    <3>1. \E i \in DOMAIN s : Places(tool) = {i}
      BY <1>1, <1>5, <2>1 DEF Takes, Patches, Replaces
    <3>2. PICK at \in DOMAIN s : at = CHOOSE i \in DOMAIN s : Places(tool) = {i}
      BY <3>1
    <3> QED
      BY <1>1, <1>3, <1>5, <2>1, <3>2 DEF NewText
  <2>2. CASE tool = "range"
    <3>1. 1 \in DOMAIN s
      BY <1>5 DEF Text
    <3> QED
      BY <1>1, <1>3, <1>5, <2>2, <3>1 DEF NewText
  <2> QED
    BY <1>5, <2>1, <2>2 DEF Takes, Patches, Replaces
<1> QED
  BY <1>4, <1>5

-----------------------------------------------------------------------------
(* Steps *)

LEMMA JobStep ==
  ASSUME FileTypeOK, NEW t \in Tasks, NEW j \in Job, job' = [job EXCEPT ![t] = j]
  PROVE  /\ job' \in [Tasks -> Job \cup {None}]
         /\ job'[t] = j /\ \A u \in Tasks : u # t => job'[u] = job[u]
BY DEF FileTypeOK

\* A call begins or ends: nothing but its own place changes.
LEMMA Quiet ==
  ASSUME FileInv, NEW t \in Tasks, NEW j \in Job, job' = [job EXCEPT ![t] = j],
         UNCHANGED << kind, file, backups, before, blame >>,
         job[t].pc \in {"idle", "done"}, j.pc \notin {"fill", "check", "restore"},
         j.pc \in {"backup", "open"} => j.old = file.text /\ j.bak = 0,
         j.pc = "open" => ~ file.there \/ j.tool = "copy",
         j.pc = "backup" => file.there,
         j.pc = "revert" => backups # << >>,
         j.pc = "done" => j.left = j.old /\ j.res = "refused"
  PROVE  FileInv'
<1>0. FileTypeOK
  BY DEF FileInv
<1>1. /\ job' \in [Tasks -> Job \cup {None}]
      /\ job'[t] = j /\ \A u \in Tasks : u # t => job'[u] = job[u]
  BY <1>0, JobStep
<1>2. FileTypeOK'
  BY <1>0, <1>1 DEF FileTypeOK
<1>3. BackupsOfFile'
  BY <1>1 DEF FileInv, BackupsOfFile, At, Writing
<1>4. Clean' => OneHolder' /\ \A u \in Tasks : InHand(u)'
  <2>1. Clean' => OneHolder'
    BY <1>1 DEF FileInv, Clean, OneHolder, Holds
  <2>2. ASSUME Clean', NEW u \in Tasks
        PROVE  InHand(u)'
    BY <1>1, <2>2 DEF FileInv, Clean, InHand, At, Writing
  <2> QED
    BY <2>1, <2>2
<1>5. \A u \in Tasks : Writing(u) => Writing(u)'
  BY <1>1 DEF Writing
<1>6. AllParse'
  <2>1. Undoing => Undoing'
    BY <1>1, <1>5 DEF Undoing, At, Accepted
  <2> QED
    BY <1>1, <2>1 DEF FileInv, AllParse
<1>7. LatestBackup'
  <2>1. \A u \in Tasks : Holds(u)' <=> Holds(u)
    BY <1>1 DEF Holds
  <2>2. ASSUME Careful, NEW u \in Tasks, At(u, "open")'
        PROVE  IF job'[u].bak # 0 THEN backups # << >> /\ Last(backups) = file.text
               ELSE ~ file.there \/ job'[u].tool = "copy"
    BY <1>1, <2>2 DEF FileInv, LatestBackup, At
  <2>3. ASSUME Careful, NEW u \in Tasks, Holds(u)
        PROVE  /\ job'[u] = job[u]
               /\ (\E v \in Tasks \ {u} : Writing(v)) => \E v \in Tasks \ {u} : Writing(v)'
    BY <1>1, <1>5, <2>3 DEF Holds
  <2> QED
    BY <2>1, <2>2, <2>3 DEF FileInv, LatestBackup, Careful, At
<1> QED
  BY <1>2, <1>3, <1>4, <1>6, <1>7 DEF FileInv

LEMMA CallStep ==
  ASSUME FileInv, NEW t \in Tasks, NEW p \in Plans, Call(t, p[1], p[2])
  PROVE  FileInv'
<1> DEFINE line == Line(t, p[2])
           first == IF Copies(p[1]) \/ ~ file.there THEN "open" ELSE "backup"
           taken == [pc |-> first, tool |-> p[1], line |-> line, old |-> file.text,
                     new |-> NewText(p[1], line), bak |-> 0, res |-> "none", left |-> << >>]
           refused == [pc |-> "done", tool |-> p[1], line |-> line, old |-> file.text,
                       new |-> file.text, bak |-> 0, res |-> "refused", left |-> file.text]
<1>0. FileTypeOK /\ job[t].pc = "idle" /\ UNCHANGED << kind, file, backups, before, blame >>
  BY DEF FileInv, Call, At
<1>1. line \in Lines /\ file.text \in Text /\ << >> \in Text /\ p[1] \in {q[1] : q \in Plans}
  BY <1>0 DEF Lines, FileTypeOK, Text
<1>2. CASE Takes(p[1])
  <2>1. NewText(p[1], line) \in Text
    BY <1>0, <1>1, <1>2, NewTextType
  <2>2. taken \in Job
    BY <1>1, <2>1 DEF Job
  <2>3. job' = [job EXCEPT ![t] = taken]
    BY <1>2 DEF Call
  <2>4. /\ taken.pc \in {"open", "backup"} /\ taken.old = file.text /\ taken.bak = 0
        /\ taken.pc = "open" => ~ file.there \/ taken.tool = "copy"
        /\ taken.pc = "backup" => file.there
    BY DEF Copies
  <2> HIDE DEF taken
  <2> QED
    BY <1>0, <2>2, <2>3, <2>4, Quiet
<1>3. CASE ~ Takes(p[1])
  <2>1. refused \in Job
    BY <1>1 DEF Job
  <2>2. job' = [job EXCEPT ![t] = refused]
    BY <1>3 DEF Call
  <2>3. refused.pc = "done" /\ refused.left = refused.old /\ refused.res = "refused"
    OBVIOUS
  <2> HIDE DEF refused
  <2> QED
    BY <1>0, <2>1, <2>2, <2>3, Quiet
<1> QED
  BY <1>2, <1>3

LEMMA VerifyStep ==
  ASSUME FileInv, NEW t \in Tasks, Verify(t) \/ Skip(t)
  PROVE  FileInv'
<1>0. job[t].pc = "done" /\ job[t] \in Job /\ UNCHANGED << kind, file, backups, before, blame >>
  BY JobType DEF FileInv, Verify, Skip, At
<1>1. PICK pc \in {"revert", "end"} :
        job' = [job EXCEPT ![t].pc = pc] /\ (pc = "revert" => backups # << >>)
  BY DEF Verify, Skip, Goto
<1> DEFINE j == [job[t] EXCEPT !.pc = pc]
<1>2. j \in Job /\ j.pc = pc
  BY <1>0 DEF Job
<1>3. job' = [job EXCEPT ![t] = j]
  BY <1>1
<1> HIDE DEF j
<1> QED
  BY <1>0, <1>1, <1>2, <1>3, Quiet

\* What is there is backed up, or the backup fails and is to blame.
LEMMA BackupStep ==
  ASSUME FileInv, NEW t \in Tasks, NEW made \in BOOLEAN, Backup(t, made)
  PROVE  FileInv'
<1>0. FileTypeOK /\ job[t].pc = "backup" /\ job[t] \in Job /\ UNCHANGED << kind, file, before >>
  BY JobType DEF FileInv, Backup, At
<1>1. PICK s \in Text : s = file.text
  BY <1>0 DEF FileTypeOK
<1>2. CASE made
  <2> DEFINE j == [job[t] EXCEPT !.pc = "open", !.bak = Len(backups) + 1]
  <2>1. /\ backups' \in Seq(Text) /\ Len(backups) \in Nat
        /\ DOMAIN backups = 1 .. Len(backups) /\ DOMAIN backups' = 1 .. Len(backups) + 1
        /\ \A i \in DOMAIN backups : backups'[i] = backups[i]
        /\ backups'[Len(backups) + 1] = file.text
        /\ backups' # << >> /\ Last(backups') = file.text
    <3>1. backups \in Seq(Text) /\ backups' = Append(backups, s)
      BY <1>0, <1>1, <1>2 DEF FileTypeOK, Backup, BackedUp
    <3> QED
      BY <1>1, <3>1 DEF Last
  <2>2. /\ j \in Job /\ j.pc = "open" /\ j.bak = Len(backups) + 1 /\ j.old = job[t].old
    <3>1. PICK n \in Nat : n = Len(backups) + 1
      BY <2>1
    <3>2. PICK old \in Job : old = job[t]
      BY <1>0
    <3>3. [old EXCEPT !.pc = "open", !.bak = n] \in Job
      BY DEF Job
    <3> QED
      BY <3>1, <3>2, <3>3 DEF Job
  <2>3. job' = [job EXCEPT ![t] = j] /\ UNCHANGED blame
    BY <1>0, <1>2 DEF Backup, FileTypeOK
  <2> HIDE DEF j
  <2>4. /\ job' \in [Tasks -> Job \cup {None}]
        /\ job'[t] = j /\ \A u \in Tasks : u # t => job'[u] = job[u]
    BY <1>0, <2>2, <2>3, JobStep
  <2>5. FileTypeOK'
    BY <1>0, <2>1, <2>4 DEF FileTypeOK
  <2>6. BackupsOfFile'
    BY <1>0, <2>1, <2>2, <2>4 DEF FileInv, BackupsOfFile, At, Writing
  <2>7. Clean' => OneHolder' /\ \A u \in Tasks : InHand(u)'
    <3>1. Clean' => OneHolder'
      BY <2>2, <2>3, <2>4 DEF FileInv, Clean, OneHolder, Holds
    <3>2. ASSUME Clean', NEW u \in Tasks, u # t
          PROVE  InHand(u)'
      <4>1. InHand(u) /\ (Writing(u) => job[u].bak = 0 \/ job[u].bak \in DOMAIN backups)
        BY <2>3, <3>2 DEF FileInv, Clean, BackupsOfFile
      <4> QED
        BY <1>0, <2>1, <2>4, <3>2, <4>1 DEF InHand, At, Writing
    <3>3. ASSUME Clean'
          PROVE  InHand(t)'
      BY <1>0, <2>1, <2>2, <2>3, <2>4, <3>3 DEF FileInv, Clean, InHand, At, Writing
    <3> QED
      BY <3>1, <3>2, <3>3
  <2>8. \A u \in Tasks : Writing(u) <=> Writing(u)'
    BY <1>0, <2>2, <2>4 DEF Writing
  <2>9. AllParse'
    <3> SUFFICES ASSUME blame = {} PROVE AllParse'
      BY <2>3 DEF AllParse
    <3>1. ASSUME \A u \in Tasks : job'[u].pc \notin {"check", "restore"}
          PROVE  Parses(file.text)
      BY <1>0, <2>4, <3>1 DEF FileInv, AllParse
    <3>2. ASSUME ~ Undoing'
          PROVE  (\A i \in DOMAIN backups : Parses(backups[i])) /\ Parses(file.text)
      <4>1. ~ Undoing
        BY <1>0, <2>4, <2>8, <3>2 DEF Undoing, At, Accepted
      <4>2. \A u \in Tasks : ~ At(u, "restore") /\ (At(u, "check") => Accepted(file.text))
        <5>1. ASSUME NEW u \in Tasks, At(u, "restore") \/ (At(u, "check") /\ ~ Accepted(file.text))
              PROVE  FALSE
          <6>1. u # t /\ job'[u] = job[u]
            BY <1>0, <2>4, <5>1 DEF At
          <6>2. Writing(t)'
            BY <2>2, <2>4 DEF Writing
          <6>3. At(u, "restore")' \/ (At(u, "check")' /\ ~ Accepted(file.text)')
            BY <1>0, <5>1, <6>1 DEF At, Accepted
          <6> QED
            BY <3>2, <6>1, <6>2, <6>3 DEF Undoing
        <5> QED
          BY <5>1
      <4>3. Parses(file.text)
        BY <4>2 DEF FileInv, AllParse, At, Accepted
      <4> QED
        BY <4>1, <4>3 DEF FileInv, AllParse
    <3> QED
      BY <1>0, <2>1, <2>3, <3>1, <3>2 DEF AllParse
  <2>10. LatestBackup'
    <3> SUFFICES ASSUME Careful PROVE LatestBackup'
      BY <2>3 DEF LatestBackup, Careful
    <3>1. ASSUME NEW u \in Tasks, At(u, "open")'
          PROVE  IF job'[u].bak # 0 THEN backups' # << >> /\ Last(backups') = file'.text
                 ELSE ~ file'.there \/ job'[u].tool = "copy"
      BY <1>0, <2>1, <2>2, <2>4, <3>1 DEF FileInv, LatestBackup, At
    <3>2. ASSUME NEW u \in Tasks, Holds(u)'
          PROVE  t \in Tasks \ {u} /\ Writing(t)' /\ Last(backups') = file'.text
      BY <1>0, <2>1, <2>2, <2>4, <3>2 DEF Holds, Writing
    <3> QED
      BY <1>0, <2>1, <3>1, <3>2 DEF LatestBackup
  <2> QED
    BY <2>5, <2>6, <2>7, <2>9, <2>10 DEF FileInv
<1>3. CASE ~ made
  <2> DEFINE j == [job[t] EXCEPT !.pc = "open"]
  <2>1. j \in Job /\ j.pc = "open" /\ j.bak = job[t].bak /\ j.old = job[t].old
    BY <1>0 DEF Job
  <2>2. /\ job' = [job EXCEPT ![t] = j] /\ UNCHANGED backups
        /\ "backup" \in blame' /\ blame \subseteq blame'
    BY <1>0, <1>3 DEF Backup, Goto, FileTypeOK
  <2> HIDE DEF j
  <2>3. /\ job' \in [Tasks -> Job \cup {None}]
        /\ job'[t] = j /\ \A u \in Tasks : u # t => job'[u] = job[u]
    BY <1>0, <2>1, <2>2, JobStep
  <2>4. FileTypeOK' /\ BackupsOfFile'
    BY <1>0, <2>1, <2>2, <2>3 DEF FileInv, FileTypeOK, BackupsOfFile, At, Writing
  <2>5. Clean' => OneHolder' /\ \A u \in Tasks : InHand(u)'
    <3>1. Clean' => OneHolder'
      BY <2>1, <2>2, <2>3 DEF FileInv, Clean, OneHolder, Holds
    <3>2. ASSUME Clean', NEW u \in Tasks
          PROVE  InHand(u)'
      <4>1. InHand(u)
        BY <2>2, <3>2 DEF FileInv, Clean
      <4> QED
        BY <1>0, <2>1, <2>2, <2>3, <4>1 DEF InHand, At, Writing
    <3> QED
      BY <3>1, <3>2
  <2>6. AllParse' /\ LatestBackup'
    BY <2>2 DEF AllParse, LatestBackup, Careful
  <2> QED
    BY <2>4, <2>5, <2>6 DEF FileInv
<1> QED
  BY <1>2, <1>3

-----------------------------------------------------------------------------
(* Steps that write the file *)

\* No other call is between its reading and its report.
Alone(t) == \A u \in Tasks \ {t} : ~ Writing(u) /\ ~ At(u, "revert")

LEMMA MetAlone ==
  ASSUME NEW t \in Tasks, Met(t) \subseteq blame'
  PROVE  blame \subseteq blame' /\ ("overlap" \notin blame' => Alone(t))
BY DEF Met, Alone

LEMMA AloneCalm ==
  ASSUME NEW t \in Tasks, Alone(t)
  PROVE  /\ ~ Undoing
         /\ \A u \in Tasks \ {t} : ~ Holds(u) /\ ~ At(u, "open") /\ ~ At(u, "check") /\ ~ At(u, "restore")
BY DEF Alone, Undoing, Writing, At, Holds

\* A write that is to blame for nothing but a text that was not parsed was alone, and
\* so were those before it.
LEMMA CleanWrite ==
  ASSUME NEW t \in Tasks, Met(t) \subseteq blame'
  PROVE  /\ Clean' => Clean /\ Alone(t)
         /\ Careful' => Careful /\ Clean /\ Alone(t)
         /\ blame' = {} => blame = {} /\ Careful /\ Clean /\ Alone(t)
BY MetAlone DEF Clean, Careful

LEMMA OpenStep ==
  ASSUME FileInv, NEW t \in Tasks, Open(t)
  PROVE  FileInv'
<1>0. FileTypeOK /\ job[t].pc = "open" /\ job[t] \in Job /\ UNCHANGED << kind, backups, before >>
  BY JobType DEF FileInv, Open, At
<1> DEFINE j == [job[t] EXCEPT !.pc = "fill"]
<1>1. j \in Job /\ j.pc = "fill" /\ j.bak = job[t].bak /\ j.old = job[t].old /\ j.tool = job[t].tool
  BY <1>0 DEF Job
<1>2. job' = [job EXCEPT ![t] = j]
  BY <1>0 DEF Open, Goto, FileTypeOK
<1> HIDE DEF j
<1>3. /\ job' \in [Tasks -> Job \cup {None}]
      /\ job'[t] = j /\ \A u \in Tasks : u # t => job'[u] = job[u]
  BY <1>0, <1>1, <1>2, JobStep
<1>4. file'.there /\ file'.text = << >> /\ file' \in [there : BOOLEAN, text : Text]
  BY DEF Open, Having, Text
<1>5. Met(t) \subseteq blame'
  BY DEF Open
<1>6. FileTypeOK' /\ BackupsOfFile'
  BY <1>0, <1>1, <1>3, <1>4 DEF FileInv, FileTypeOK, BackupsOfFile, At, Writing
<1>7. ASSUME Clean'
      PROVE  OneHolder' /\ \A u \in Tasks : InHand(u)'
  <2>1. Alone(t) /\ \A u \in Tasks : InHand(u)
    BY <1>5, <1>7, CleanWrite DEF FileInv
  <2>2. OneHolder'
    BY <1>3, <2>1, AloneCalm DEF OneHolder, Holds
  <2>3. \A u \in Tasks : InHand(u)'
    BY <1>0, <1>1, <1>3, <1>4, <2>1 DEF InHand, Alone, At, Writing
  <2> QED
    BY <2>2, <2>3
<1>8. AllParse'
  <2> SUFFICES ASSUME blame' = {} PROVE AllParse'
    BY DEF AllParse
  <2>1. blame = {} /\ ~ Undoing
    BY <1>5, CleanWrite, AloneCalm
  <2>2. Parses(file'.text)
    BY <1>4 DEF Parses
  <2> QED
    BY <1>0, <2>1, <2>2 DEF FileInv, AllParse
<1>9. LatestBackup'
  <2> SUFFICES ASSUME Careful' PROVE LatestBackup'
    BY DEF LatestBackup
  <2>1. Careful /\ Clean /\ Alone(t)
    BY <1>5, CleanWrite
  <2>2. Holds(t)' /\ \A u \in Tasks : u # t => ~ Holds(u)' /\ ~ At(u, "open")'
    BY <1>1, <1>3, <2>1, AloneCalm DEF Holds, At
  <2>3. InHand(t) /\ BackupsOfFile
    BY <2>1 DEF FileInv
  <2>4. \/ backups = << >>
        \/ Last(backups) = job[t].old
        \/ job[t].tool = "copy"
    BY <1>0, <2>1, <2>3 DEF FileInv, LatestBackup, InHand, BackupsOfFile, At
  <2> QED
    BY <1>0, <1>1, <1>3, <2>2, <2>4 DEF LatestBackup, At
<1> QED
  BY <1>6, <1>7, <1>8, <1>9 DEF FileInv

\* What is written covers what is there as far as it goes.
LEMMA Covered ==
  ASSUME NEW new \in Text, NEW old \in Text
  PROVE  /\ new \o SubSeq(old, Len(new) + 1, Len(old)) \in Text
         /\ old = << >> => new \o SubSeq(old, Len(new) + 1, Len(old)) = new
<1>1. Len(new) \in Nat /\ Len(old) \in Nat /\ \A i \in 1 .. Len(old) : old[i] \in Lines
  BY DEF Text
<1>2. PICK rest : rest = SubSeq(old, Len(new) + 1, Len(old))
  OBVIOUS
<1>3. rest \in Seq(Lines)
  BY <1>1, <1>2 DEF Text
<1>4. old = << >> => rest = << >>
  BY <1>1, <1>2, <1>3
<1>5. new \o rest \in Text /\ (rest = << >> => new \o rest = new)
  BY <1>3 DEF Text
<1> QED
  BY <1>2, <1>4, <1>5

LEMMA FillStep ==
  ASSUME FileInv, NEW t \in Tasks, Fill(t)
  PROVE  FileInv'
<1>0. FileTypeOK /\ job[t].pc = "fill" /\ job[t] \in Job /\ UNCHANGED << kind, backups >>
  BY JobType DEF FileInv, Fill, At
<1>1. PICK new \in Text : new = job[t].new
  BY <1>0 DEF Job
<1>2. /\ file'.there /\ file' \in [there : BOOLEAN, text : Text]
      /\ file.text = << >> => file'.text = new
  <2>1. file.text \in Text
    BY <1>0 DEF FileTypeOK
  <2>2. file' = Having(new \o SubSeq(file.text, Len(new) + 1, Len(file.text)))
    BY <1>1 DEF Fill
  <2> QED
    BY <2>1, <2>2, Covered DEF Having
<1>3. Met(t) \subseteq blame'
  BY DEF Fill
<1> DEFINE checked == job[t].tool \in FilePatches /\ kind # "doc"
<1>4. PICK j \in Job :
        /\ job' = [job EXCEPT ![t] = j]
        /\ j.new = new /\ j.old = job[t].old /\ j.bak = job[t].bak /\ j.tool = job[t].tool
        /\ IF checked THEN j.pc = "check"
           ELSE j.pc = "done" /\ j.res = "success" /\ j.left = file'.text
  <2>1. CASE checked
    <3> DEFINE j == [job[t] EXCEPT !.pc = "check"]
    <3>1. j \in Job /\ j.pc = "check" /\ j.new = new /\ j.old = job[t].old /\ j.bak = job[t].bak
          /\ j.tool = job[t].tool
      BY <1>0, <1>1 DEF Job
    <3>2. job' = [job EXCEPT ![t] = j]
      BY <1>0, <2>1 DEF Fill, Goto, FileTypeOK
    <3> HIDE DEF j
    <3> QED
      BY <2>1, <3>1, <3>2
  <2>2. CASE ~ checked
    <3>1. PICK left \in Text : left = file'.text
      BY <1>2
    <3> DEFINE j == [job[t] EXCEPT !.pc = "done", !.res = "success", !.left = left]
    <3>2. j \in Job /\ j.pc = "done" /\ j.res = "success" /\ j.left = left
          /\ j.new = new /\ j.old = job[t].old /\ j.bak = job[t].bak /\ j.tool = job[t].tool
      BY <1>0, <1>1 DEF Job
    <3>3. job' = [job EXCEPT ![t] = j]
      BY <1>0, <2>2, <3>1 DEF Fill, Report, FileTypeOK
    <3> HIDE DEF j
    <3> QED
      BY <2>2, <3>1, <3>2, <3>3
  <2> QED
    BY <2>1, <2>2
<1>5. /\ job' \in [Tasks -> Job \cup {None}]
      /\ job'[t] = j /\ \A u \in Tasks : u # t => job'[u] = job[u]
  BY <1>0, <1>4, JobStep
<1>6. FileTypeOK' /\ BackupsOfFile'
  BY <1>0, <1>2, <1>4, <1>5 DEF FileInv, FileTypeOK, BackupsOfFile, At, Writing
<1>7. ASSUME Clean'
      PROVE  OneHolder' /\ \A u \in Tasks : InHand(u)'
  <2>1. Alone(t) /\ \A u \in Tasks : InHand(u)
    BY <1>3, <1>7, CleanWrite DEF FileInv
  <2>2. OneHolder'
    BY <1>5, <2>1, AloneCalm DEF OneHolder, Holds
  <2>3. file'.text = new
    BY <1>0, <1>2, <2>1 DEF InHand, At
  <2>4. InHand(t)'
    BY <1>0, <1>4, <1>5, <2>1, <2>3 DEF InHand, At, Writing
  <2>5. \A u \in Tasks \ {t} : InHand(u)'
    BY <1>0, <1>5, <2>1 DEF InHand, Alone, At, Writing
  <2> QED
    BY <2>2, <2>4, <2>5
<1>8. AllParse'
  <2> SUFFICES ASSUME blame' = {} PROVE AllParse'
    BY DEF AllParse
  <2>1. blame = {} /\ ~ Undoing /\ Clean
    BY <1>3, CleanWrite, AloneCalm
  <2>2. ~ checked => Parses(file'.text)
    <3>1. ~ checked => Parses(new)
      BY <1>1 DEF Fill
    <3>2. file'.text = new
      BY <1>0, <1>2, <2>1 DEF FileInv, InHand, At
    <3> QED
      BY <3>1, <3>2
  <2> QED
    BY <1>0, <1>4, <1>5, <2>1, <2>2 DEF FileInv, AllParse
<1>9. LatestBackup'
  <2> SUFFICES ASSUME Careful' PROVE LatestBackup'
    BY DEF LatestBackup
  <2>1. Careful /\ Alone(t)
    BY <1>3, CleanWrite
  <2>2. \A u \in Tasks : u # t => ~ Holds(u)' /\ ~ At(u, "open")'
    BY <1>5, <2>1, AloneCalm DEF Holds, At
  <2>3. job[t].tool # "copy"
    BY DEF Fill, Careful
  <2>4. backups = << >> \/ Last(backups) = job[t].old
    BY <1>0, <2>1, <2>3 DEF FileInv, LatestBackup, Holds, Alone, At
  <2>5. ~ checked => before' = job[t].old
    BY DEF Fill
  <2>6. ~ At(t, "open")' /\ (Holds(t)' <=> checked)
    BY <1>4, <1>5 DEF Holds, At
  <2> QED
    BY <1>0, <1>4, <1>5, <2>2, <2>4, <2>5, <2>6 DEF LatestBackup
<1> QED
  BY <1>6, <1>7, <1>8, <1>9 DEF FileInv

\* The text is parsed: kept, left for want of a backup, or to be put back.
LEMMA CheckStep ==
  ASSUME FileInv, NEW t \in Tasks, Check(t)
  PROVE  FileInv'
<1>0. FileTypeOK /\ job[t].pc = "check" /\ job[t] \in Job /\ UNCHANGED << kind, file, backups >>
  BY JobType DEF FileInv, Check, At
<1> DEFINE put == ~ Accepted(file.text) /\ job[t].bak # 0
<1>1. PICK j \in Job :
        /\ job' = [job EXCEPT ![t] = j]
        /\ j.new = job[t].new /\ j.old = job[t].old /\ j.bak = job[t].bak /\ j.tool = job[t].tool
        /\ IF put THEN j.pc = "restore"
           ELSE /\ j.pc = "done" /\ j.left = file.text
                /\ j.res = "success" \/ (j.res = "failed" /\ j.bak = 0)
  <2>1. CASE put
    <3> DEFINE j == [job[t] EXCEPT !.pc = "restore"]
    <3>1. j \in Job /\ j.pc = "restore" /\ j.new = job[t].new /\ j.old = job[t].old
          /\ j.bak = job[t].bak /\ j.tool = job[t].tool
      BY <1>0 DEF Job
    <3>2. job' = [job EXCEPT ![t] = j]
      BY <1>0, <2>1 DEF Check, Goto, FileTypeOK
    <3> HIDE DEF j
    <3> QED
      BY <2>1, <3>1, <3>2
  <2>2. CASE ~ put
    <3>1. PICK left \in Text : left = file.text
      BY <1>0 DEF FileTypeOK
    <3>2. PICK said \in {"success", "failed"} :
            /\ said = "failed" => job[t].bak = 0
            /\ job' = [job EXCEPT ![t].pc = "done", ![t].res = said, ![t].left = left]
      BY <1>0, <2>2, <3>1 DEF Check, Report
    <3> DEFINE j == [job[t] EXCEPT !.pc = "done", !.res = said, !.left = left]
    <3>3. j \in Job /\ j.pc = "done" /\ j.res = said /\ j.left = left /\ j.new = job[t].new
          /\ j.old = job[t].old /\ j.bak = job[t].bak /\ j.tool = job[t].tool
      BY <1>0 DEF Job
    <3>4. job' = [job EXCEPT ![t] = j]
      BY <1>0, <3>2 DEF FileTypeOK
    <3> HIDE DEF j
    <3> QED
      BY <2>2, <3>1, <3>2, <3>3, <3>4
  <2> QED
    BY <2>1, <2>2
<1>2. /\ job' \in [Tasks -> Job \cup {None}]
      /\ job'[t] = j /\ \A u \in Tasks : u # t => job'[u] = job[u]
  BY <1>0, <1>1, JobStep
<1>3. blame \subseteq blame' /\ (Careful' => Careful) /\ (Clean' => Clean)
  BY DEF Check, Careful, Clean
<1>4. FileTypeOK' /\ BackupsOfFile'
  BY <1>0, <1>1, <1>2 DEF FileInv, FileTypeOK, BackupsOfFile, At, Writing
<1>5. ASSUME Clean'
      PROVE  OneHolder' /\ \A u \in Tasks : InHand(u)'
  <2>1. OneHolder /\ \A u \in Tasks : InHand(u)
    BY <1>3, <1>5 DEF FileInv
  <2>2. OneHolder'
    BY <1>0, <1>2, <2>1 DEF OneHolder, Holds
  <2>3. \A u \in Tasks \ {t} : InHand(u)'
    BY <1>0, <1>2, <2>1 DEF InHand, At, Writing
  <2>4. InHand(t)'
    BY <1>0, <1>1, <1>2, <2>1 DEF InHand, At, Writing
  <2> QED
    BY <2>2, <2>3, <2>4
<1>6. Clean => \A u \in Tasks \ {t} : ~ Holds(u)
  BY <1>0 DEF FileInv, OneHolder, Holds
<1>7. AllParse'
  <2> SUFFICES ASSUME blame' = {} PROVE AllParse'
    BY DEF AllParse
  <2>1. blame = {} /\ Clean
    BY <1>3 DEF Clean
  <2>2. CASE put
    <3>1. Undoing => Undoing'
      <4> SUFFICES ASSUME NEW x \in Tasks, NEW y \in Tasks, x # y, Writing(y),
                          At(x, "restore") \/ (At(x, "check") /\ ~ Accepted(file.text))
                   PROVE  Undoing'
        BY DEF Undoing
      <4>1. x = t
        BY <1>6, <2>1 DEF Holds, At
      <4>2. At(t, "restore")' /\ Writing(y)'
        BY <1>1, <1>2, <2>2, <4>1 DEF At, Writing
      <4> QED
        BY <4>1, <4>2 DEF Undoing
    <3>2. At(t, "restore")'
      BY <1>1, <1>2, <2>2 DEF At
    <3> QED
      BY <1>0, <2>1, <3>1, <3>2 DEF FileInv, AllParse, At
  <2>3. CASE ~ put
    <3>1. Accepted(file.text)
      BY <2>3 DEF Check
    <3>2. Parses(file.text)
      BY <3>1 DEF Accepted
    <3>3. ~ Undoing
      <4> SUFFICES ASSUME NEW x \in Tasks, At(x, "restore")
                   PROVE  FALSE
        BY <3>1 DEF Undoing
      <4> QED
        BY <1>0, <1>6, <2>1 DEF Holds, At
    <3> QED
      BY <1>0, <2>1, <3>2, <3>3 DEF FileInv, AllParse
  <2> QED
    BY <2>2, <2>3
<1>8. LatestBackup'
  <2> SUFFICES ASSUME Careful' PROVE LatestBackup'
    BY DEF LatestBackup
  <2>1. Careful /\ Clean
    BY <1>3 DEF Careful, Clean
  <2>2. \A u \in Tasks : u # t => ~ Holds(u)'
    BY <1>2, <1>6, <2>1 DEF Holds
  <2>3. \/ backups = << >>
        \/ Last(backups) = job[t].old
        \/ (\E u \in Tasks \ {t} : Writing(u)) /\ Last(backups) = file.text
    BY <1>0, <2>1 DEF FileInv, LatestBackup, Holds, At
  <2>4. \A u \in Tasks : At(u, "open")' => u # t /\ At(u, "open") /\ job'[u] = job[u]
    BY <1>1, <1>2 DEF At
  <2>5. CASE put
    <3>1. ~ At(t, "check")' /\ \A u \in Tasks \ {t} : Writing(u)' <=> Writing(u)
      BY <1>1, <1>2, <2>5 DEF At, Writing
    <3>2. Holds(t)'
      BY <1>1, <1>2, <2>5 DEF Holds
    <3> QED
      BY <1>0, <1>1, <1>2, <2>1, <2>2, <2>3, <2>4, <3>1, <3>2 DEF FileInv, LatestBackup
  <2>6. CASE ~ put
    <3>1. before' = job[t].old
      BY <2>6 DEF Check
    <3>2. ~ Holds(t)'
      BY <1>1, <1>2, <2>6 DEF Holds
    <3> QED
      BY <1>0, <1>1, <1>2, <2>1, <2>2, <2>3, <2>4, <3>1, <3>2 DEF FileInv, LatestBackup
  <2> QED
    BY <2>5, <2>6
<1> QED
  BY <1>4, <1>5, <1>7, <1>8 DEF FileInv

\* A call puts a backup back and is over: its own, or the latest.
LEMMA PutBack ==
  ASSUME FileInv, NEW t \in Tasks, NEW j \in Job, NEW text \in Text,
         job[t].pc \in {"restore", "revert"}, job' = [job EXCEPT ![t] = j],
         file' = Having(text), Met(t) \subseteq blame', UNCHANGED << kind, backups, before >>,
         j.pc \in {"done", "end"},
         j.pc = "done" => j.left = text /\ j.res = "failed" /\ j.bak # 0,
         \E i \in DOMAIN backups : text = backups[i],
         Clean /\ j.pc = "done" => text = j.old,
         Careful /\ Alone(t) => Last(backups) = text
  PROVE  FileInv'
<1>0. FileTypeOK /\ backups # << >>
  BY DEF FileInv, FileTypeOK
<1>1. /\ job' \in [Tasks -> Job \cup {None}]
      /\ job'[t] = j /\ \A u \in Tasks : u # t => job'[u] = job[u]
  BY <1>0, JobStep
<1>2. file'.there /\ file'.text = text /\ file' \in [there : BOOLEAN, text : Text]
  BY DEF Having
<1>3. FileTypeOK' /\ BackupsOfFile'
  BY <1>0, <1>1, <1>2 DEF FileInv, FileTypeOK, BackupsOfFile, At, Writing
<1>4. ASSUME Clean'
      PROVE  OneHolder' /\ \A u \in Tasks : InHand(u)'
  <2>1. Clean /\ Alone(t) /\ \A u \in Tasks : InHand(u)
    BY <1>4, CleanWrite DEF FileInv
  <2>2. OneHolder'
    BY <1>1, <2>1, AloneCalm DEF OneHolder, Holds
  <2>3. \A u \in Tasks \ {t} : InHand(u)'
    BY <1>1, <2>1 DEF InHand, Alone, At, Writing
  <2>4. InHand(t)'
    BY <1>1, <2>1 DEF InHand, At, Writing
  <2> QED
    BY <2>2, <2>3, <2>4
<1>5. AllParse'
  <2> SUFFICES ASSUME blame' = {} PROVE AllParse'
    BY DEF AllParse
  <2>1. blame = {} /\ ~ Undoing
    BY CleanWrite, AloneCalm
  <2>2. \A i \in DOMAIN backups : Parses(backups[i])
    BY <2>1 DEF FileInv, AllParse
  <2> QED
    BY <1>2, <2>2 DEF AllParse
<1>6. LatestBackup'
  <2> SUFFICES ASSUME Careful' PROVE LatestBackup'
    BY DEF LatestBackup
  <2>1. Careful /\ Alone(t)
    BY CleanWrite
  <2>2. \A u \in Tasks : ~ Holds(u)' /\ ~ At(u, "open")'
    BY <1>1, <2>1, AloneCalm DEF Holds, At
  <2> QED
    BY <1>2, <2>1, <2>2 DEF LatestBackup
<1> QED
  BY <1>3, <1>4, <1>5, <1>6 DEF FileInv

LEMMA RestoreStep ==
  ASSUME FileInv, NEW t \in Tasks, Restore(t)
  PROVE  FileInv'
<1>0. FileTypeOK /\ job[t].pc = "restore" /\ job[t] \in Job
  BY JobType DEF FileInv, Restore, At
<1>1. Writing(t) /\ Holds(t) /\ At(t, "restore")
  BY <1>0 DEF Writing, Holds, At
<1>2. job[t].bak # 0 /\ job[t].bak \in DOMAIN backups
  BY <1>1 DEF FileInv, BackupsOfFile
<1>3. PICK text \in Text : text = backups[job[t].bak]
  BY <1>0, <1>2 DEF FileTypeOK
<1> DEFINE j == [job[t] EXCEPT !.pc = "done", !.res = "failed", !.left = text]
<1>4. j \in Job /\ j.pc = "done" /\ j.res = "failed" /\ j.left = text /\ j.bak = job[t].bak
      /\ j.old = job[t].old
  BY <1>0 DEF Job
<1>5. file' = Having(text) /\ file'.text = text
  BY <1>3 DEF Restore, Having
<1>6. job' = [job EXCEPT ![t] = j]
  BY <1>0, <1>5 DEF Restore, Report, FileTypeOK
<1> HIDE DEF j
<1>7. Clean => text = job[t].old
  BY <1>1, <1>2, <1>3 DEF FileInv, InHand
<1>8. Careful /\ Alone(t) => Last(backups) = text
  <2> SUFFICES ASSUME Careful, Alone(t) PROVE Last(backups) = text
    OBVIOUS
  <2>1. Clean
    BY DEF Careful, Clean
  <2>2. backups # << >> /\ ~ At(t, "fill")
    BY <1>0, <1>2 DEF At
  <2>3. Last(backups) = job[t].old
    BY <1>1, <2>2 DEF FileInv, LatestBackup, Alone
  <2> QED
    BY <1>7, <2>1, <2>3
<1>9. Met(t) \subseteq blame' /\ UNCHANGED << kind, backups, before >>
  BY DEF Restore
<1> QED
  BY <1>0, <1>2, <1>3, <1>4, <1>5, <1>6, <1>7, <1>8, <1>9, PutBack

LEMMA RevertStep ==
  ASSUME FileInv, NEW t \in Tasks, Revert(t)
  PROVE  FileInv'
<1>0. FileTypeOK /\ job[t].pc = "revert" /\ job[t] \in Job
  BY JobType DEF FileInv, Revert, At
<1>1. backups # << >> /\ backups \in Seq(Text)
  BY <1>0 DEF FileInv, FileTypeOK, BackupsOfFile, At
<1>2. Len(backups) \in DOMAIN backups
  BY <1>1
<1>3. PICK text \in Text : text = Last(backups)
  BY <1>1, <1>2 DEF Last
<1> DEFINE j == [job[t] EXCEPT !.pc = "end"]
<1>4. j \in Job /\ j.pc = "end"
  BY <1>0 DEF Job
<1>5. job' = [job EXCEPT ![t] = j]
  BY <1>0 DEF Revert, Goto, FileTypeOK
<1> HIDE DEF j
<1>6. \E i \in DOMAIN backups : text = backups[i]
  BY <1>2, <1>3 DEF Last
<1>7. file' = Having(text) /\ Met(t) \subseteq blame' /\ UNCHANGED << kind, backups, before >>
  BY <1>3 DEF Revert
<1> QED
  BY <1>0, <1>3, <1>4, <1>5, <1>6, <1>7, PutBack

LEMMA CrashStep ==
  ASSUME FileInv, Crash
  PROVE  FileInv'
<1>1. ~ Clean' /\ ~ Careful' /\ blame' # {}
  BY DEF Crash, Clean, Careful
<1>2. \A u \in Tasks : job'[u] = None \/ (At(u, "end") /\ job'[u] = job[u])
  BY DEF Crash
<1>3. FileTypeOK' /\ BackupsOfFile'
  BY <1>2 DEF Crash, FileInv, FileTypeOK, BackupsOfFile, At, Writing, None
<1>4. AllParse' /\ LatestBackup'
  BY <1>1 DEF AllParse, LatestBackup
<1> QED
  BY <1>1, <1>3, <1>4 DEF FileInv

LEMMA FileNextHolds == FileInv /\ [PatchNext]_pvars => FileInv'
<1> SUFFICES ASSUME FileInv, [PatchNext]_pvars PROVE FileInv'
  OBVIOUS
<1>1. ASSUME NEW t \in Tasks, NEW p \in Plans, Call(t, p[1], p[2]) PROVE FileInv'
  BY <1>1, CallStep
<1>2. ASSUME NEW t \in Tasks, NEW made \in BOOLEAN, Backup(t, made) PROVE FileInv'
  BY <1>2, BackupStep
<1>3. ASSUME NEW t \in Tasks,
             Open(t) \/ Fill(t) \/ Check(t) \/ Restore(t) \/ Verify(t) \/ Revert(t) \/ Skip(t)
      PROVE  FileInv'
  BY <1>3, OpenStep, FillStep, CheckStep, RestoreStep, VerifyStep, RevertStep
<1>4. CASE UNCHANGED pvars
  <2>1. UNCHANGED << kind, file, backups, job, before, blame, faults >>
    BY <1>4 DEF pvars
  <2> QED
    BY <2>1 DEF FileInv, FileTypeOK, BackupsOfFile, Clean, OneHolder, Holds, InHand, AllParse, Undoing,
                LatestBackup, Careful, At, Writing, Accepted, Parses
<1> QED
  BY <1>1, <1>2, <1>3, <1>4, CrashStep DEF PatchNext, Over

-----------------------------------------------------------------------------
(* Theorem *)

\* Whatever tools the plans of any number of tasks call on a file that parses at first:
\* a call that met no other and was not cut is all or nothing, the file parses at rest,
\* and verify_syntax undoes no more than the last change, but for what is to blame
\* (file_patch, file_replace_range, file_copy, verify_syntax).
THEOREM PatchesWhole ==
  ASSUME SoundBase
  PROVE  PatchSpec => []PatchesAreWhole
<1>1. PatchInit => FileInv
  BY FileInitHolds
<1> QED
  BY <1>1, FileNextHolds, FileInvImplies, PTL DEF PatchSpec

-----------------------------------------------------------------------------
(* Memories and patterns *)

\* The books of the memory, and what the call still relies on between its transactions
ExperienceInv ==
  /\ ExperienceAddsUp
  /\ call.pc \in {"miss", "insert"} => SameText(call.note) = {}
  /\ call.pc \in {"next", "absent", "new", "found", "like"} => call.left # << >>

-----------------------------------------------------------------------------
(* Rows *)

\* A row of interaction_patterns whose counts add up
AddsUp(row) ==
  /\ row \in Pattern
  /\ row.hits = row.good + row.bad
  /\ row.rated[1] \in {row.good, row.good - 1}
  /\ row.rated[2] \in {row.bad, row.bad - 1}
  /\ row.rated[1] + row.rated[2] >= row.hits - 1

PatternsAddUp ==
  /\ pattern \in [Slots -> Pattern \cup {NoPattern}]
  /\ \A p \in Slots : Counted(p) => AddsUp(pattern[p])

\* ExperienceAddsUp, row by row
ByRow ==
  /\ memory \in Seq(Memory \cup {Gone}) /\ RememberedOnce
  /\ PatternsAddUp /\ CopyIsCurrent
  /\ call \in {Idle} \cup Recalling \cup Refreshing \cup Recording \cup Counting \cup Merging
  /\ cleaner \in {"off"} \cup DOMAIN Following

LEMMA InvByRow == ExperienceAddsUp <=> ByRow
<1>1. ASSUME pattern \in [Slots -> Pattern \cup {NoPattern}]
      PROVE  HitsAddUp /\ ConfidenceIsRecent <=> \A p \in Slots : Counted(p) => AddsUp(pattern[p])
  <2>1. \A p \in Slots : Counted(p) => pattern[p] \in Pattern
    BY <1>1 DEF Counted, NoPattern
  <2> QED
    BY <2>1 DEF HitsAddUp, ConfidenceIsRecent, AddsUp
<1> QED
  BY <1>1 DEF ExperienceAddsUp, ExperienceTypeOK, PatternsAddUp, ByRow

\* The same after a step
LEMMA InvByRowNext == ExperienceAddsUp' <=> ByRow'
BY InvByRow, PTL

\* What a call holds at each of its places
LEMMA CallShape ==
  ASSUME call \in {Idle} \cup Recalling \cup Refreshing \cup Recording \cup Counting \cup Merging
  PROVE  /\ call.pc \in {"miss", "insert"} => call \in Recalling
         /\ call.pc = "same" => call \in Refreshing
         /\ call.pc \in {"next", "absent", "new"} => call \in Recording
         /\ call.pc = "found" => call \in Counting
         /\ call.pc = "like" => call \in Merging
         /\ call.pc = "idle" => call = Idle
BY DEF Idle, Recalling, Refreshing, Recording, Counting, Merging

\* A sequence with some of its rows replaced is a sequence of rows.
LEMMA RowsAreSeq ==
  ASSUME NEW S, NEW s \in Seq(S), NEW f \in [DOMAIN s -> S]
  PROVE  f \in Seq(S)
<1>1. Len(s) \in Nat /\ DOMAIN s = 1 .. Len(s)
  OBVIOUS
<1> QED
  BY <1>1

\* The slot of the step a call is at
LEMMA SlotIsSlot ==
  ASSUME ExperienceInv, call.pc \in {"next", "absent", "new", "found", "like"}
  PROVE  /\ Slot \in Slots /\ Hit \in {0, 1}
         /\ call.left \in Seq(Result) /\ call.left # << >> /\ call.steps \in Nat
<1>1. call \in Recording \cup Counting \cup Merging
  BY CallShape DEF ExperienceInv, ExperienceAddsUp, ExperienceTypeOK
<1>2. call.left \in Seq(Result) /\ call.left # << >> /\ call.steps \in Nat
  BY <1>1 DEF ExperienceInv, Recording, Counting, Merging
<1>3. Step \in Result
  BY <1>2 DEF Step
<1> QED
  BY <1>2, <1>3 DEF Slot, Slots, Result, Hit, Good

-----------------------------------------------------------------------------
(* Steps that only take away *)

\* Rows keep their text, or go.
RowsOnlyGo ==
  /\ DOMAIN memory' = DOMAIN memory
  /\ memory' \in Seq(Memory \cup {Gone})
  /\ \A i \in DOMAIN memory : memory'[i].there => There(i) /\ memory'[i].note = memory[i].note

LEMMA RowsGone ==
  ASSUME RememberedOnce, RowsOnlyGo
  PROVE  RememberedOnce'
BY DEF RememberedOnce, RowsOnlyGo, There

\* Patterns keep their counts, or go.
PatternsOnlyAge ==
  /\ pattern' \in [Slots -> Pattern \cup {NoPattern}]
  /\ \A p \in Slots : Counted(p)' =>
       /\ Counted(p)
       /\ << pattern'[p].hits, pattern'[p].good, pattern'[p].bad, pattern'[p].rated >>
            = << pattern[p].hits, pattern[p].good, pattern[p].bad, pattern[p].rated >>

LEMMA PatternsAged ==
  ASSUME PatternsAddUp, PatternsOnlyAge
  PROVE  PatternsAddUp'
<1>1. \A p \in Slots : Counted(p)' => pattern'[p] \in Pattern
  BY DEF PatternsOnlyAge, Counted, NoPattern
<1> QED
  BY <1>1 DEF PatternsAddUp, PatternsOnlyAge, AddsUp

\* Such steps keep the invariant wherever the call is.
LEMMA TakingAway ==
  ASSUME ExperienceInv, RowsOnlyGo, PatternsOnlyAge, UNCHANGED call,
         cleaner' \in {"off"} \cup DOMAIN Following
  PROVE  ExperienceInv'
<1>1. RememberedOnce' /\ (call.pc \in {"miss", "insert"} => SameText(call.note)' = {})
  BY RowsGone DEF ExperienceInv, ExperienceAddsUp, RowsOnlyGo, SameText, There
<1>2. PatternsAddUp'
  BY PatternsAged, InvByRow DEF ExperienceInv, ByRow
<1>3. CopyIsCurrent'
  <2> SUFFICES ASSUME call.pc = "found", Counted(Slot)'
               PROVE  << call.seen.hits, call.seen.good, call.seen.bad >>
                        = << pattern'[Slot].hits, pattern'[Slot].good, pattern'[Slot].bad >>
    BY DEF CopyIsCurrent, Slot, Step
  <2>1. Slot \in Slots
    BY SlotIsSlot
  <2> QED
    BY <2>1 DEF PatternsOnlyAge, CopyIsCurrent, ExperienceInv, ExperienceAddsUp, Slot, Step
<1> QED
  BY <1>1, <1>2, <1>3, InvByRow, InvByRowNext DEF ExperienceInv, ByRow, RowsOnlyGo

\* Following has the steps of the clean-up.
LEMMA CleanerGoesOn ==
  ASSUME cleaner \in {"off"} \cup DOMAIN Following, cleaner # "off"
  PROVE  {Following[cleaner], "states"} \subseteq {"off"} \cup DOMAIN Following
BY DEF Following

LEMMA SameRowsGo ==
  ASSUME ExperienceInv, UNCHANGED memory
  PROVE  RowsOnlyGo
BY DEF RowsOnlyGo, There, ExperienceInv, ExperienceAddsUp, ExperienceTypeOK

LEMMA SamePatternsAge ==
  ASSUME ExperienceInv, UNCHANGED pattern
  PROVE  PatternsOnlyAge
BY DEF PatternsOnlyAge, Counted, ExperienceInv, ExperienceAddsUp, ExperienceTypeOK

\* A row that is replaced by one with its text
LEMMA RowChanged ==
  ASSUME ExperienceInv, NEW i \in DOMAIN memory, NEW m \in Memory,
         There(i), m.note = memory[i].note, memory' = [memory EXCEPT ![i] = m]
  PROVE  RowsOnlyGo
<1>1. memory \in Seq(Memory \cup {Gone})
  BY DEF ExperienceInv, ExperienceAddsUp, ExperienceTypeOK
<1>2. DOMAIN memory' = DOMAIN memory /\ \A j \in DOMAIN memory : memory'[j] = IF j = i THEN m ELSE memory[j]
  OBVIOUS
<1>3. memory' \in [DOMAIN memory -> Memory \cup {Gone}]
  BY <1>1, <1>2
<1>4. memory' \in Seq(Memory \cup {Gone})
  BY <1>1, <1>3, RowsAreSeq
<1> QED
  BY <1>2, <1>4 DEF RowsOnlyGo, There, Gone

LEMMA AgeStep ==
  ASSUME ExperienceInv, NEW i \in DOMAIN memory, MemoryAges(i)
  PROVE  ExperienceInv'
<1>1. memory[i] \in Memory
  BY DEF MemoryAges, There, Gone, ExperienceInv, ExperienceAddsUp, ExperienceTypeOK
<1>2. PICK m \in Memory : m.note = memory[i].note /\ memory' = [memory EXCEPT ![i] = m]
  <2>1. [memory[i] EXCEPT !.old = TRUE] \in Memory /\ [memory[i] EXCEPT !.old = TRUE].note = memory[i].note
    BY <1>1 DEF Memory
  <2>2. [memory[i] EXCEPT !.over = TRUE] \in Memory /\ [memory[i] EXCEPT !.over = TRUE].note = memory[i].note
    BY <1>1 DEF Memory
  <2> QED
    BY <2>1, <2>2 DEF MemoryAges
<1>3. RowsOnlyGo
  BY <1>2, RowChanged DEF MemoryAges
<1> QED
  BY <1>3, SamePatternsAge, TakingAway DEF MemoryAges, ExperienceInv, ExperienceAddsUp, ExperienceTypeOK

LEMMA ForgetStep ==
  ASSUME ExperienceInv, NEW i \in DOMAIN memory, Forget(i)
  PROVE  ExperienceInv'
<1>1. memory \in Seq(Memory \cup {Gone})
  BY DEF ExperienceInv, ExperienceAddsUp, ExperienceTypeOK
<1>2. /\ memory' \in [DOMAIN memory -> Memory \cup {Gone}]
      /\ \A j \in DOMAIN memory : memory'[j] = IF j = i THEN Gone ELSE memory[j]
  BY <1>1 DEF Forget
<1>3. memory' \in Seq(Memory \cup {Gone})
  BY <1>1, <1>2, RowsAreSeq
<1>4. RowsOnlyGo
  BY <1>2, <1>3 DEF RowsOnlyGo, There, Gone
<1> QED
  BY <1>4, SamePatternsAge, TakingAway DEF Forget, ExperienceInv, ExperienceAddsUp, ExperienceTypeOK

LEMMA CleanUpStep ==
  ASSUME ExperienceInv, CleanUp \/ CleanFails
  PROVE  ExperienceInv'
<1>1. cleaner' \in {"off"} \cup DOMAIN Following
  BY CleanerGoesOn DEF CleanUp, CleanFails, Following, ExperienceInv, ExperienceAddsUp, ExperienceTypeOK
<1> QED
  BY <1>1, SameRowsGo, SamePatternsAge, TakingAway DEF CleanUp, CleanFails

\* What the clean-up keeps of a pattern has its counts.
LEMMA SweptKeeps ==
  ASSUME NEW row \in Pattern, NEW step
  PROVE  \/ Swept(row, step) = NoPattern
         \/ /\ Swept(row, step) \in Pattern
            /\ << Swept(row, step).hits, Swept(row, step).good, Swept(row, step).bad, Swept(row, step).rated >>
                 = << row.hits, row.good, row.bad, row.rated >>
<1>1. LET gone == [row EXCEPT !.status = "archived"]
      IN  gone \in Pattern /\ gone.hits = row.hits /\ gone.good = row.good
            /\ gone.bad = row.bad /\ gone.rated = row.rated
  BY DEF Pattern
<1> QED
  BY <1>1 DEF Swept

LEMMA CleanStepStep ==
  ASSUME ExperienceInv, CleanStep
  PROVE  ExperienceInv'
<1>0. /\ memory \in Seq(Memory \cup {Gone}) /\ pattern \in [Slots -> Pattern \cup {NoPattern}]
      /\ cleaner \in {"off"} \cup DOMAIN Following
  BY DEF ExperienceInv, ExperienceAddsUp, ExperienceTypeOK
<1>1. RowsOnlyGo
  <2>1. PICK doomed : memory' = [i \in DOMAIN memory |-> IF i \in doomed THEN Gone ELSE memory[i]]
    BY DEF CleanStep, Drop
  <2>2. memory' \in [DOMAIN memory -> Memory \cup {Gone}]
    BY <1>0, <2>1
  <2>3. memory' \in Seq(Memory \cup {Gone})
    BY <1>0, <2>2, RowsAreSeq
  <2> QED
    BY <2>1, <2>2, <2>3 DEF RowsOnlyGo, There, Gone
<1>2. PatternsOnlyAge
  <2>1. \A p \in Slots : pattern'[p] = Swept(pattern[p], cleaner)
    BY DEF CleanStep
  <2>2. Swept(NoPattern, cleaner) = NoPattern
    BY DEF Swept, NoPattern
  <2>3. ASSUME NEW p \in Slots
        PROVE  /\ pattern'[p] \in Pattern \cup {NoPattern}
               /\ Counted(p)' => /\ Counted(p)
                                 /\ << pattern'[p].hits, pattern'[p].good, pattern'[p].bad, pattern'[p].rated >>
                                     = << pattern[p].hits, pattern[p].good, pattern[p].bad, pattern[p].rated >>
    <3>1. CASE pattern[p] = NoPattern
      BY <2>1, <2>2, <3>1 DEF Counted, NoPattern
    <3>2. CASE pattern[p] \in Pattern
      <4>1. Counted(p)
        BY <3>2 DEF Counted, Pattern
      <4> QED
        BY <2>1, <3>2, <4>1, SweptKeeps DEF Counted, NoPattern
    <3> QED
      BY <1>0, <3>1, <3>2
  <2>4. pattern' = [p \in Slots |-> pattern'[p]]
    BY DEF CleanStep
  <2> QED
    BY <2>3, <2>4 DEF PatternsOnlyAge
<1>3. cleaner' \in {"off"} \cup DOMAIN Following
  BY <1>0, CleanerGoesOn DEF CleanStep
<1> QED
  BY <1>1, <1>2, <1>3, TakingAway DEF CleanStep

\* Time and finalize_patterns leave the counts.
LEMMA RowAged ==
  ASSUME ExperienceInv, NEW p \in Slots, NEW row \in Pattern, Counted(p),
         << row.hits, row.good, row.bad, row.rated >>
           = << pattern[p].hits, pattern[p].good, pattern[p].bad, pattern[p].rated >>,
         pattern' = [pattern EXCEPT ![p] = row]
  PROVE  PatternsOnlyAge
BY DEF PatternsOnlyAge, Counted, ExperienceInv, ExperienceAddsUp, ExperienceTypeOK

LEMMA PatternAgesStep ==
  ASSUME ExperienceInv, NEW p \in Slots, PatternAges(p)
  PROVE  ExperienceInv'
<1>1. pattern[p] \in Pattern
  BY DEF PatternAges, Counted, NoPattern, ExperienceInv, ExperienceAddsUp, ExperienceTypeOK
<1>2. \A a \in 0 .. 3 :
        LET new == [pattern[p] EXCEPT !.age = a]
        IN  new \in Pattern /\ << new.hits, new.good, new.bad, new.rated >>
              = << pattern[p].hits, pattern[p].good, pattern[p].bad, pattern[p].rated >>
  BY <1>1 DEF Pattern
<1>3. LET new == [pattern[p] EXCEPT !.idle = TRUE]
      IN  new \in Pattern /\ << new.hits, new.good, new.bad, new.rated >>
              = << pattern[p].hits, pattern[p].good, pattern[p].bad, pattern[p].rated >>
  BY <1>1 DEF Pattern
<1>4. PICK row \in Pattern :
        /\ << row.hits, row.good, row.bad, row.rated >>
             = << pattern[p].hits, pattern[p].good, pattern[p].bad, pattern[p].rated >>
        /\ pattern' = [pattern EXCEPT ![p] = row]
  <2>1. pattern[p].age < 3 => pattern[p].age + 1 \in 0 .. 3
    BY <1>1 DEF Pattern
  <2> QED
    BY <1>2, <1>3, <2>1 DEF PatternAges
<1>5. PatternsOnlyAge
  BY <1>4, RowAged DEF PatternAges
<1> QED
  BY <1>5, SameRowsGo, TakingAway DEF PatternAges, ExperienceInv, ExperienceAddsUp, ExperienceTypeOK

LEMMA FinalizeStep ==
  ASSUME ExperienceInv, Finalize
  PROVE  ExperienceInv'
<1>0. pattern \in [Slots -> Pattern \cup {NoPattern}]
  BY DEF ExperienceInv, ExperienceAddsUp, ExperienceTypeOK
<1>1. \A row \in Pattern :
        LET new == [row EXCEPT !.status = "active"]
        IN  new \in Pattern /\ new.hits = row.hits /\ new.good = row.good
              /\ new.bad = row.bad /\ new.rated = row.rated
  BY DEF Pattern
<1>2. \A p \in Slots : pattern[p].status = "tentative" => pattern[p] \in Pattern
  BY <1>0 DEF NoPattern
<1>3. pattern' = [p \in Slots |-> IF pattern[p].status = "tentative" /\ pattern[p].age >= 1
                                  THEN [pattern[p] EXCEPT !.status = "active"] ELSE pattern[p]]
  BY DEF Finalize
<1>4. PatternsOnlyAge
  BY <1>0, <1>1, <1>2, <1>3 DEF PatternsOnlyAge, Counted
<1> QED
  BY <1>4, SameRowsGo, TakingAway DEF Finalize, ExperienceInv, ExperienceAddsUp, ExperienceTypeOK

-----------------------------------------------------------------------------
(* Steps of the call *)

\* The call goes on and writes nothing.
LEMMA CallGoesOn ==
  ASSUME ExperienceInv, UNCHANGED << memory, pattern, cleaner >>,
         call' \in {Idle} \cup Recalling \cup Refreshing \cup Recording \cup Counting \cup Merging,
         call'.pc \in {"miss", "insert"} => SameText(call'.note) = {},
         call'.pc \in {"next", "absent", "new", "found", "like"} => call'.left # << >>,
         CopyIsCurrent'
  PROVE  ExperienceInv'
<1>1. RememberedOnce'
  BY DEF ExperienceInv, ExperienceAddsUp, RememberedOnce, There
<1>2. PatternsAddUp'
  BY InvByRow DEF ExperienceInv, ByRow, PatternsAddUp, Counted
<1>3. call'.pc \in {"miss", "insert"} => SameText(call.note)' = {}
  BY DEF SameText, There
<1> QED
  BY <1>1, <1>2, <1>3, InvByRow, InvByRowNext DEF ExperienceInv, ByRow

\* The call after its step
LEMMA NextStepShape ==
  ASSUME ExperienceInv, call.pc \in {"next", "absent", "new", "found", "like"}
  PROVE  /\ NextStep \in {Idle} \cup Recording
         /\ NextStep.pc \in {"idle", "next"}
         /\ NextStep.pc = "next" => NextStep.left # << >>
<1>1. call.left \in Seq(Result) /\ call.left # << >> /\ call.steps \in Nat
  BY SlotIsSlot
<1>2. CASE Len(call.left) = 1
  BY <1>2 DEF NextStep, Idle
<1>3. CASE Len(call.left) # 1
  <2>1. PICK s \in Seq(Result), n \in Nat : s = call.left /\ n = call.steps
    BY <1>1
  <2>2. s # << >> /\ Len(s) # 1
    BY <1>1, <1>3, <2>1
  <2>3. Tail(s) \in Seq(Result) /\ Tail(s) # << >>
    <3>1. Tail(s) \in Seq(Result)
      BY <2>2
    <3>2. Len(s) \in Nat /\ Len(s) # 0
      BY <2>2
    <3>3. Len(Tail(s)) = Len(s) - 1
      BY <2>2
    <3>4. Tail(s) # << >>
      BY <2>2, <3>2, <3>3
    <3> QED
      BY <3>1, <3>4
  <2>4. NextStep = [pc |-> "next", left |-> Tail(s), steps |-> n]
    BY <1>3, <2>1 DEF NextStep
  <2> HIDE DEF NextStep
  <2>5. [pc |-> "next", left |-> Tail(s), steps |-> n] \in Recording
    BY <2>3 DEF Recording
  <2> QED
    BY <2>3, <2>4, <2>5
<1> QED
  BY <1>2, <1>3

\* A call that has written its hit goes on.
LEMMA HitWritten ==
  ASSUME ExperienceInv, call.pc \in {"next", "absent", "new", "found", "like"},
         PatternsAddUp', UNCHANGED << memory, cleaner >>, call' = NextStep
  PROVE  ExperienceInv'
<1>1. RememberedOnce'
  BY DEF ExperienceInv, ExperienceAddsUp, RememberedOnce, There
<1>2. CopyIsCurrent'
  BY NextStepShape DEF CopyIsCurrent
<1> QED
  BY <1>1, <1>2, NextStepShape, InvByRow, InvByRowNext DEF ExperienceInv, ByRow

\* One more hit of a row
LEMMA WithHitAddsUp ==
  ASSUME NEW row \in Pattern, AddsUp(row), NEW g \in {0, 1}
  PROVE  /\ WithHit(row, g) \in Pattern
         /\ WithHit(row, g).hits = row.hits + 1
         /\ WithHit(row, g).good = row.good + g
         /\ WithHit(row, g).bad = row.bad + 1 - g
<1>1. row.hits + 1 \in Nat /\ row.good + g \in Nat /\ row.bad + 1 - g \in Nat
  BY DEF Pattern
<1> QED
  BY <1>1 DEF WithHit, Pattern

\* A row that adds up in place of another
LEMMA RowWritten ==
  ASSUME ExperienceInv, NEW p \in Slots, NEW row, AddsUp(row), pattern' = [pattern EXCEPT ![p] = row]
  PROVE  PatternsAddUp'
<1>1. PatternsAddUp
  BY InvByRow DEF ExperienceInv, ByRow
<1>2. row \in Pattern
  BY DEF AddsUp
<1> QED
  BY <1>1, <1>2 DEF PatternsAddUp, Counted

LEMMA WriteHitStep ==
  ASSUME ExperienceInv, WriteHit
  PROVE  ExperienceInv'
<1>0. call.pc = "found" /\ call' = NextStep /\ UNCHANGED << memory, cleaner >>
  BY DEF WriteHit
<1>1. PatternsAddUp /\ CopyIsCurrent /\ call \in Counting
  BY <1>0, InvByRow, CallShape DEF ExperienceInv, ByRow
<1>2. Slot \in Slots /\ Hit \in {0, 1} /\ call.seen \in Pattern
  BY <1>0, <1>1, SlotIsSlot DEF Counting
<1>3. CASE Counted(Slot)
  <2> DEFINE old == pattern[Slot]
             new == WithHit(call.seen, Hit)
             row == [old EXCEPT !.hits = new.hits, !.good = new.good, !.bad = new.bad,
                                !.rated = << new.good, new.bad >>, !.idle = FALSE]
  <2>1. old \in Pattern /\ AddsUp(old)
    BY <1>1, <1>2, <1>3 DEF PatternsAddUp, AddsUp
  <2>2. call.seen.hits = old.hits /\ call.seen.good = old.good /\ call.seen.bad = old.bad
    BY <1>0, <1>1, <1>3 DEF CopyIsCurrent
  <2>3. new.hits = old.hits + 1 /\ new.good = old.good + Hit /\ new.bad = old.bad + 1 - Hit
    BY <1>2, <2>2 DEF WithHit, Pattern
  <2>4. pattern' = [pattern EXCEPT ![Slot] = row]
    BY <1>1, <1>2, <1>3 DEF WriteHit, PatternsAddUp
  <2> HIDE DEF old, new
  <2>0. new.hits \in Nat /\ new.good \in Nat /\ new.bad \in Nat
    BY <1>2, <2>1, <2>3 DEF Pattern
  <2>5. /\ row \in Pattern
        /\ row.hits = new.hits /\ row.good = new.good /\ row.bad = new.bad
        /\ row.rated = << new.good, new.bad >>
    BY <2>0, <2>1 DEF Pattern
  <2>6. old.hits \in Nat /\ old.good \in Nat /\ old.bad \in Nat /\ old.hits = old.good + old.bad
    BY <2>1 DEF Pattern, AddsUp
  <2> HIDE DEF row
  <2>7. AddsUp(row)
    BY <1>2, <2>3, <2>5, <2>6 DEF AddsUp
  <2>8. PatternsAddUp'
    BY <1>2, <2>4, <2>7, RowWritten
  <2> QED
    BY <1>0, <2>8, HitWritten
<1>4. CASE ~Counted(Slot)
  <2>1. PatternsAddUp'
    BY <1>1, <1>4 DEF WriteHit, PatternsAddUp, Counted
  <2> QED
    BY <1>0, <2>1, HitWritten
<1> QED
  BY <1>3, <1>4

LEMMA MergeHitStep ==
  ASSUME ExperienceInv, MergeHit
  PROVE  ExperienceInv'
<1>0. call.pc = "like" /\ call' = NextStep /\ UNCHANGED << memory, cleaner >>
  BY DEF MergeHit
<1>1. PatternsAddUp /\ call \in Merging
  BY <1>0, InvByRow, CallShape DEF ExperienceInv, ByRow
<1>2. Hit \in {0, 1} /\ call.slot \in Slots
  BY <1>0, <1>1, SlotIsSlot DEF Merging
<1>3. PICK p \in Slots : p = call.slot
  BY <1>2
<1>4. CASE Counted(p)
  <2>1. PICK old \in Pattern : old = pattern[p] /\ AddsUp(old)
    BY <1>1, <1>4 DEF PatternsAddUp, AddsUp
  <2> DEFINE row == [WithHit(old, Hit) EXCEPT !.rated = << old.good, old.bad >>]
  <2>2. pattern' = [pattern EXCEPT ![p] = row]
    BY <1>3, <1>4, <2>1 DEF MergeHit
  <2>3. /\ row \in Pattern /\ row.rated = << old.good, old.bad >>
        /\ row.hits = old.hits + 1 /\ row.good = old.good + Hit /\ row.bad = old.bad + 1 - Hit
    <3>1. /\ WithHit(old, Hit) \in Pattern
          /\ WithHit(old, Hit).hits = old.hits + 1
          /\ WithHit(old, Hit).good = old.good + Hit
          /\ WithHit(old, Hit).bad = old.bad + 1 - Hit
      BY <1>2, <2>1, WithHitAddsUp
    <3>2. old.good \in Nat /\ old.bad \in Nat
      BY DEF Pattern
    <3> QED
      BY <3>1, <3>2 DEF Pattern
  <2>4. old.hits \in Nat /\ old.good \in Nat /\ old.bad \in Nat /\ old.hits = old.good + old.bad
    BY <2>1 DEF Pattern, AddsUp
  <2> HIDE DEF row
  <2>5. AddsUp(row)
    BY <1>2, <2>3, <2>4 DEF AddsUp
  <2>6. PatternsAddUp'
    BY <2>2, <2>5, RowWritten
  <2> QED
    BY <1>0, <2>6, HitWritten
<1>5. CASE ~Counted(p)
  <2>1. PatternsAddUp'
    BY <1>1, <1>3, <1>5 DEF MergeHit, PatternsAddUp, Counted
  <2> QED
    BY <1>0, <2>1, HitWritten
<1> QED
  BY <1>4, <1>5

LEMMA NewPatternStep ==
  ASSUME ExperienceInv, NewPattern
  PROVE  ExperienceInv'
<1>0. call.pc = "new" /\ call' = NextStep /\ UNCHANGED << memory, cleaner >>
  BY DEF NewPattern
<1>1. Slot \in Slots /\ Hit \in {0, 1}
  BY <1>0, SlotIsSlot
<1> DEFINE row == [status |-> "tentative", hits |-> 1, good |-> Hit, bad |-> 1 - Hit,
                   rated |-> << Hit, 1 - Hit >>, age |-> 0, idle |-> FALSE]
<1>2. AddsUp(row)
  BY <1>1 DEF AddsUp, Pattern
<1>3. pattern' = [pattern EXCEPT ![Slot] = row]
  BY DEF NewPattern
<1> HIDE DEF row
<1>4. PatternsAddUp'
  BY <1>1, <1>2, <1>3, RowWritten
<1> QED
  BY <1>0, <1>4, HitWritten

\* Storing a text that no row has, or the state of a task
LEMMA Inserted ==
  ASSUME ExperienceInv, NEW n \in Notes, Insert(n), SameText(n) = {} \/ n.type = "task_state"
  PROVE  RememberedOnce' /\ memory' \in Seq(Memory \cup {Gone})
<1> DEFINE m == [there |-> TRUE, note |-> n, old |-> FALSE, over |-> FALSE]
<1>1. memory \in Seq(Memory \cup {Gone}) /\ m \in Memory
  BY DEF ExperienceInv, ExperienceAddsUp, ExperienceTypeOK, Memory
<1>2. /\ memory' \in Seq(Memory \cup {Gone})
      /\ DOMAIN memory = 1 .. Len(memory) /\ DOMAIN memory' = 1 .. (Len(memory) + 1)
      /\ Len(memory) \in Nat
      /\ \A i \in DOMAIN memory : memory'[i] = memory[i]
      /\ memory'[Len(memory) + 1] = m
  BY <1>1 DEF Insert
<1>3. RememberedOnce'
  <2> SUFFICES ASSUME NEW i \in DOMAIN memory', NEW j \in DOMAIN memory',
                      memory'[i].there, memory'[j].there, i # j,
                      memory'[i].note.what = memory'[j].note.what
               PROVE  "task_state" \in {memory'[i].note.type, memory'[j].note.type}
    BY DEF RememberedOnce, There
  <2>1. CASE i \in DOMAIN memory /\ j \in DOMAIN memory
    BY <1>2, <2>1 DEF ExperienceInv, ExperienceAddsUp, RememberedOnce, There
  <2>2. ASSUME NEW k \in DOMAIN memory, There(k), memory[k].note.what = n.what
        PROVE  n.type = "task_state"
    BY <2>2 DEF SameText
  <2>3. CASE i \notin DOMAIN memory
    <3>1. i = Len(memory) + 1 /\ j \in DOMAIN memory /\ memory'[i].note = n
      BY <1>2, <2>3
    <3> QED
      BY <1>2, <2>2, <3>1 DEF There
  <2>4. CASE j \notin DOMAIN memory
    <3>1. j = Len(memory) + 1 /\ i \in DOMAIN memory /\ memory'[j].note = n
      BY <1>2, <2>4
    <3> QED
      BY <1>2, <2>2, <3>1 DEF There
  <2> QED
    BY <2>1, <2>3, <2>4
<1> QED
  BY <1>2, <1>3

LEMMA StoreStep ==
  ASSUME ExperienceInv, NEW n \in Notes, Insert(n), SameText(n) = {} \/ n.type = "task_state",
         call' = Idle, UNCHANGED << pattern, cleaner >>
  PROVE  ExperienceInv'
<1>1. PatternsAddUp'
  BY InvByRow DEF ExperienceInv, ByRow, PatternsAddUp, Counted
<1>2. CopyIsCurrent'
  BY DEF CopyIsCurrent, Idle
<1> QED
  BY <1>1, <1>2, Inserted, InvByRow, InvByRowNext DEF ExperienceInv, ByRow, Idle

LEMMA RememberStep ==
  ASSUME ExperienceInv, NEW n \in Notes, Remember(n)
  PROVE  ExperienceInv'
<1>1. ASSUME NEW i \in SameText(n), call' = [pc |-> "same", note |-> n, id |-> i], UNCHANGED memory
      PROVE  ExperienceInv'
  <2>1. i \in Nat
    BY DEF SameText, ExperienceInv, ExperienceAddsUp, ExperienceTypeOK
  <2>2. call' \in Refreshing /\ call'.pc = "same"
    BY <1>1, <2>1 DEF Refreshing
  <2>3. CopyIsCurrent'
    BY <2>2 DEF CopyIsCurrent
  <2> QED
    BY <1>1, <2>2, <2>3, CallGoesOn DEF Remember
<1>2. ASSUME SameText(n) = {}, call' = [pc |-> "miss", note |-> n], UNCHANGED memory
      PROVE  ExperienceInv'
  <2>1. call' \in Recalling /\ call'.pc = "miss" /\ call'.note = n
    BY <1>2 DEF Recalling
  <2>2. CopyIsCurrent'
    BY <2>1 DEF CopyIsCurrent
  <2> QED
    BY <1>2, <2>1, <2>2, CallGoesOn DEF Remember
<1>3. ASSUME n.type = "task_state", Insert(n), UNCHANGED call
      PROVE  ExperienceInv'
  BY <1>3, StoreStep DEF Remember
<1> QED
  BY <1>1, <1>2, <1>3 DEF Remember

LEMMA LookAlikeStep ==
  ASSUME ExperienceInv, LookAlike
  PROVE  ExperienceInv'
<1>1. call \in Recalling /\ call.note \in Notes
  BY CallShape DEF LookAlike, ExperienceInv, ExperienceAddsUp, ExperienceTypeOK, Recalling
<1>2. \/ call' \in Recalling /\ call'.pc = "insert" /\ call'.note = call.note
      \/ call' \in Refreshing /\ call'.pc = "same"
  <2>1. \A i \in DOMAIN memory : i \in Nat
    BY DEF ExperienceInv, ExperienceAddsUp, ExperienceTypeOK
  <2> QED
    BY <1>1, <2>1 DEF LookAlike, Recalling, Refreshing
<1>3. CopyIsCurrent'
  BY <1>2 DEF CopyIsCurrent
<1>4. SameText(call.note) = {}
  BY DEF LookAlike, ExperienceInv
<1> QED
  BY <1>2, <1>3, <1>4, CallGoesOn DEF LookAlike

LEMMA RefreshStep ==
  ASSUME ExperienceInv, Refresh
  PROVE  ExperienceInv'
<1>1. PatternsAddUp' /\ CopyIsCurrent'
  BY InvByRow DEF Refresh, ExperienceInv, ByRow, PatternsAddUp, Counted, CopyIsCurrent, Idle
<1>2. RowsOnlyGo
  <2>1. CASE There(call.id) /\ call.id \in DOMAIN memory
    <3>1. PICK i \in DOMAIN memory : i = call.id
      BY <2>1
    <3>2. memory[i] \in Memory
      BY <2>1, <3>1 DEF There, Gone, ExperienceInv, ExperienceAddsUp, ExperienceTypeOK
    <3>3. PICK m \in Memory : m.note = memory[i].note /\ memory' = [memory EXCEPT ![i] = m]
      <4>1. [memory[i] EXCEPT !.old = FALSE] \in Memory
            /\ [memory[i] EXCEPT !.old = FALSE].note = memory[i].note
        BY <3>2 DEF Memory
      <4> QED
        BY <2>1, <3>1, <4>1 DEF Refresh
    <3> QED
      BY <2>1, <3>1, <3>3, RowChanged
  <2>2. CASE ~(There(call.id) /\ call.id \in DOMAIN memory)
    <3>1. memory' = memory
      BY <2>2 DEF Refresh, ExperienceInv, ExperienceAddsUp, ExperienceTypeOK
    <3> QED
      BY <3>1, SameRowsGo
  <2> QED
    BY <2>1, <2>2
<1>3. RememberedOnce' /\ memory' \in Seq(Memory \cup {Gone})
  BY <1>2, RowsGone DEF ExperienceInv, ExperienceAddsUp, RowsOnlyGo
<1> QED
  BY <1>1, <1>3, InvByRow, InvByRowNext DEF Refresh, ExperienceInv, ByRow, Idle

LEMMA RecordStep ==
  ASSUME ExperienceInv, NEW results \in Outcomes, Record(results)
  PROVE  ExperienceInv'
<1>1. results \in Seq(Result) /\ results # << >> /\ Len(results) \in Nat
  BY DEF Outcomes
<1>2. call' \in Recording /\ call'.pc = "next" /\ call'.left # << >>
  BY <1>1 DEF Record, Recording
<1>3. CopyIsCurrent'
  BY <1>2 DEF CopyIsCurrent
<1> QED
  BY <1>2, <1>3, CallGoesOn DEF Record

LEMMA ReadPatternStep ==
  ASSUME ExperienceInv, ReadPattern
  PROVE  ExperienceInv'
<1>0. call.pc = "next" /\ call \in Recording
  BY CallShape DEF ReadPattern, ExperienceInv, ExperienceAddsUp, ExperienceTypeOK
<1>1. Slot \in Slots /\ call.left \in Seq(Result) /\ call.left # << >> /\ call.steps \in Nat
  BY <1>0, SlotIsSlot
<1>2. CASE Counted(Slot)
  <2>1. pattern[Slot] \in Pattern
    BY <1>1, <1>2 DEF Counted, NoPattern, ExperienceInv, ExperienceAddsUp, ExperienceTypeOK
  <2>2. call' = [pc |-> "found", left |-> call.left, steps |-> call.steps, seen |-> pattern[Slot]]
    BY <1>2 DEF ReadPattern
  <2>3. call' \in Counting /\ call'.pc = "found" /\ call'.left = call.left /\ call'.seen = pattern[Slot]
    BY <1>1, <2>1, <2>2 DEF Counting
  <2>4. CopyIsCurrent'
    BY <2>3 DEF CopyIsCurrent, ReadPattern, Slot, Step
  <2> QED
    BY <1>1, <2>3, <2>4, CallGoesOn DEF ReadPattern
<1>3. CASE ~Counted(Slot)
  <2>1. call' = [call EXCEPT !.pc = "absent"]
    BY <1>3 DEF ReadPattern
  <2>2. call' \in Recording /\ call'.pc = "absent" /\ call'.left = call.left
    BY <1>0, <2>1 DEF Recording
  <2>3. CopyIsCurrent'
    BY <2>2 DEF CopyIsCurrent
  <2> QED
    BY <1>1, <2>2, <2>3, CallGoesOn DEF ReadPattern
<1> QED
  BY <1>2, <1>3

LEMMA CompareEvidenceStep ==
  ASSUME ExperienceInv, CompareEvidence
  PROVE  ExperienceInv'
<1>0. call.pc = "absent" /\ call \in Recording
  BY CallShape DEF CompareEvidence, ExperienceInv, ExperienceAddsUp, ExperienceTypeOK
<1>1. call.left \in Seq(Result) /\ call.left # << >> /\ call.steps \in Nat
  BY <1>0, SlotIsSlot
<1>2. [call EXCEPT !.pc = "new"] \in Recording
  BY <1>0 DEF Recording
<1>3. /\ call' \in Recording \cup Merging /\ call'.pc \in {"new", "like"}
      /\ call'.left = call.left
  BY <1>0, <1>1, <1>2 DEF CompareEvidence, Recording, Merging
<1>4. CopyIsCurrent'
  BY <1>3 DEF CopyIsCurrent
<1> QED
  BY <1>1, <1>3, <1>4, CallGoesOn DEF CompareEvidence

LEMMA LockedStep ==
  ASSUME ExperienceInv, Locked
  PROVE  ExperienceInv'
<1>0. call \in {Idle} \cup Recalling \cup Refreshing \cup Recording \cup Counting \cup Merging
  BY DEF ExperienceInv, ExperienceAddsUp, ExperienceTypeOK
<1>1. CASE call.pc \in {"miss", "same", "insert"}
  <2>1. call' = Idle
    BY <1>1 DEF Locked
  <2> QED
    BY <2>1, CallGoesOn DEF Locked, Idle, CopyIsCurrent
<1>2. CASE call.pc \in {"absent", "like"}
  <2>1. call.left \in Seq(Result) /\ call.left # << >> /\ call.steps \in Nat
    BY <1>2, SlotIsSlot
  <2>2. call' = [pc |-> "new", left |-> call.left, steps |-> call.steps]
    BY <1>2 DEF Locked
  <2>3. call' \in Recording /\ call'.pc = "new" /\ call'.left # << >>
    BY <2>1, <2>2 DEF Recording
  <2>4. CopyIsCurrent'
    BY <2>3 DEF CopyIsCurrent
  <2> QED
    BY <2>3, <2>4, CallGoesOn DEF Locked
<1>3. CASE call.pc \in {"next", "new", "found"}
  <2>1. call' = NextStep
    BY <1>3 DEF Locked
  <2>2. PatternsAddUp'
    BY InvByRow DEF ExperienceInv, ByRow, PatternsAddUp, Counted, Locked
  <2> QED
    BY <1>3, <2>1, <2>2, HitWritten DEF Locked
<1>4. call.pc \in {"miss", "same", "insert", "absent", "like", "next", "new", "found"}
  BY <1>0 DEF Locked, Idle, Recalling, Refreshing, Recording, Counting, Merging
<1> QED
  BY <1>1, <1>2, <1>3, <1>4

-----------------------------------------------------------------------------
(* Theorem *)

LEMMA ExperienceInitHolds == ExperienceInit => ExperienceInv
<1> SUFFICES ASSUME ExperienceInit PROVE ExperienceInv
  OBVIOUS
<1>1. RememberedOnce /\ CopyIsCurrent /\ memory \in Seq(Memory \cup {Gone})
  BY DEF ExperienceInit, RememberedOnce, CopyIsCurrent, Idle
<1>2. PatternsAddUp
  BY DEF ExperienceInit, PatternsAddUp, Counted, NoPattern
<1> QED
  BY <1>1, <1>2, InvByRow DEF ExperienceInit, ExperienceInv, ByRow, Idle

LEMMA ExperienceNextHolds == ExperienceInv /\ [ExperienceNext]_xvars => ExperienceInv'
<1> SUFFICES ASSUME ExperienceInv, [ExperienceNext]_xvars PROVE ExperienceInv'
  OBVIOUS
<1>1. ASSUME NEW n \in Notes, Remember(n) PROVE ExperienceInv'
  BY <1>1, RememberStep
<1>2. CASE Store
  <2>1. call \in Recalling /\ call.note \in Notes /\ SameText(call.note) = {}
    BY <1>2, CallShape DEF Store, ExperienceInv, ExperienceAddsUp, ExperienceTypeOK, Recalling
  <2> QED
    BY <1>2, <2>1, StoreStep DEF Store
<1>3. ASSUME NEW i \in DOMAIN memory, Forget(i) \/ MemoryAges(i) PROVE ExperienceInv'
  BY <1>3, ForgetStep, AgeStep
<1>4. ASSUME NEW results \in Outcomes, Record(results) PROVE ExperienceInv'
  BY <1>4, RecordStep
<1>5. ASSUME NEW p \in Slots, PatternAges(p) PROVE ExperienceInv'
  BY <1>5, PatternAgesStep
<1>6. CASE UNCHANGED xvars
  BY <1>6, SameRowsGo, SamePatternsAge, TakingAway DEF xvars, ExperienceInv, ExperienceAddsUp, ExperienceTypeOK
<1> QED
  BY <1>1, <1>2, <1>3, <1>4, <1>5, <1>6, LookAlikeStep, RefreshStep, ReadPatternStep, WriteHitStep,
     CompareEvidenceStep, MergeHitStep, NewPatternStep, FinalizeStep, CleanUpStep, CleanStepStep,
     LockedStep DEF ExperienceNext

\* For any notes, results and bounds, and wherever the clean-up comes between reading
\* and writing: a text is in memory once, the hits of a pattern are its successes and
\* failures, its confidence lags by one hit at most, and no hit is overwritten
\* (remember, _upsert_pattern, cleanup_all).
THEOREM ExperienceCorrect == ExperienceSpec => []ExperienceAddsUp
<1>1. ExperienceInv => ExperienceAddsUp
  BY DEF ExperienceInv
<1> QED
  BY <1>1, ExperienceInitHolds, ExperienceNextHolds, PTL DEF ExperienceSpec

-----------------------------------------------------------------------------
(* The project library *)

\* A list without repetitions
List == {l \in Seq(Goals) : Library!IsInjective(l)}

LEMMA ListedGoal ==
  ASSUME NEW l \in List, NEW g \in Goals
  PROVE  Library!ListGoal(l, g) \in List
<1>1. l \in Seq(Goals) /\ Library!IsInjective(l) /\ DOMAIN l = 1 .. Len(l) /\ Len(l) \in Nat
  BY DEF List
<1>2. CASE \E i \in DOMAIN l : l[i] = g
  BY <1>2 DEF Library!ListGoal, Library!ToSet
<1>3. CASE ~ \E i \in DOMAIN l : l[i] = g
  <2> DEFINE m == Append(l, g)
  <2>1. /\ m \in Seq(Goals) /\ Len(m) = Len(l) + 1 /\ m[Len(l) + 1] = g
        /\ \A i \in 1 .. Len(l) : m[i] = l[i]
    BY <1>1, AppendProperties
  <2>2. DOMAIN m = 1 .. Len(l) + 1
    BY <1>1, <2>1
  <2> HIDE DEF m
  <2>3. Library!IsInjective(m)
    <3> SUFFICES ASSUME NEW a \in 1 .. Len(l) + 1, NEW b \in 1 .. Len(l) + 1, m[a] = m[b]
                 PROVE  a = b
      BY <2>2 DEF Library!IsInjective
    <3>1. /\ a \in 1 .. Len(l) \/ a = Len(l) + 1
          /\ b \in 1 .. Len(l) \/ b = Len(l) + 1
      BY <1>1
    <3> QED  BY <1>1, <1>3, <2>1, <3>1 DEF Library!IsInjective
  <2>4. Library!ListGoal(l, g) = m
    BY <1>3 DEF Library!ListGoal, Library!ToSet, m
  <2> QED  BY <2>1, <2>3, <2>4 DEF List
<1> QED  BY <1>2, <1>3

\* The last index of a set of indices
LastIndex(S) == CHOOSE x \in S : \A y \in S : x >= y

LEMMA LastIsIn ==
  ASSUME NEW n \in Nat, NEW S \in SUBSET (1 .. n), S # {}
  PROVE  LastIndex(S) \in S
<1> DEFINE Reached == {T \in SUBSET (1 .. n) : T # {} => \E x \in T : \A y \in T : x >= y}
<1>1. ASSUME NEW T \in SUBSET (1 .. n), \A U \in SUBSET T : U # T => U \in Reached
      PROVE  T \in Reached
  <2> SUFFICES ASSUME T # {} PROVE \E x \in T : \A y \in T : x >= y
    OBVIOUS
  <2>1. PICK x \in T : TRUE
    OBVIOUS
  <2>2. T \ {x} \in Reached
    BY <1>1, <2>1
  <2>3. CASE T \ {x} = {}
    BY <2>1, <2>3
  <2>4. CASE T \ {x} # {}
    <3>1. PICK y \in T \ {x} : \A z \in T \ {x} : y >= z
      BY <2>2, <2>4
    <3>2. \A z \in T : z \in Int
      OBVIOUS
    <3> QED  BY <2>1, <3>1, <3>2
  <2> QED  BY <2>3, <2>4
<1> DEFINE N == 1 .. n
<1>2. IsFiniteSet(N)
  BY FS_Interval
<1>3. SUBSET N \subseteq Reached
  <2>1. \A T \in SUBSET N : (\A U \in SUBSET T : U # T => U \in Reached) => T \in Reached
    BY <1>1
  <2> HIDE DEF Reached, N
  <2> QED  BY <1>2, <2>1, SubsetInduction
<1> QED  BY <1>3 DEF LastIndex

\* The goals at the indices in S are listed one after the other: the recursion of FoldLeft
ListOf(base, goals, g, S) ==
  IF S = {} THEN base ELSE Library!ListGoal(g[S \ {LastIndex(S)}], goals[LastIndex(S)])
Lists(base, goals, g, S) == g = [s \in SUBSET S |-> ListOf(base, goals, g, s)]

LEMMA ListUnfold ==
  ASSUME NEW base, NEW goals
  PROVE  Library!FoldLeft(Library!ListGoal, base, goals)
           = (CHOOSE g : Lists(base, goals, g, DOMAIN goals))[DOMAIN goals]
BY DEF Library!FoldLeft, Library!MapThenFoldSet, Library!Max, Lists, ListOf, LastIndex

LEMMA ListsAreUnique ==
  ASSUME NEW base, NEW goals, NEW n \in Nat, NEW S \in SUBSET (1 .. n),
         NEW g, Lists(base, goals, g, S), NEW h, Lists(base, goals, h, S)
  PROVE  g = h
<1> DEFINE Reached == {s \in SUBSET S : g[s] = h[s]}
<1>1. ASSUME NEW T \in SUBSET S, \A U \in SUBSET T : U # T => U \in Reached
      PROVE  T \in Reached
  <2>1. g[T] = ListOf(base, goals, g, T) /\ h[T] = ListOf(base, goals, h, T)
    BY DEF Lists
  <2>2. T # {} => T \ {LastIndex(T)} \in SUBSET T /\ T \ {LastIndex(T)} # T
    BY LastIsIn
  <2>3. ListOf(base, goals, g, T) = ListOf(base, goals, h, T)
    BY <1>1, <2>2 DEF ListOf
  <2> QED  BY <2>1, <2>3
<1>2. SUBSET S \subseteq Reached
  <2>1. IsFiniteSet(S)
    <3>1. IsFiniteSet(1 .. n)
      BY FS_Interval
    <3> QED  BY <3>1, FS_Subset
  <2> HIDE DEF Reached
  <2> QED  BY <1>1, <2>1, SubsetInduction
<1>3. \A s \in SUBSET S : g[s] = h[s]
  BY <1>2
<1>4. /\ DOMAIN g = SUBSET S /\ g = [s \in DOMAIN g |-> g[s]]
      /\ DOMAIN h = SUBSET S /\ h = [s \in DOMAIN h |-> h[s]]
  BY DEF Lists
<1> QED  BY <1>3, <1>4

\* There is such a recursion, and what it computes is a list.
LEMMA ListsExist ==
  ASSUME NEW base \in List, NEW n \in Nat, NEW goals, \A i \in 1 .. n : goals[i] \in Goals
  PROVE  \E g : Lists(base, goals, g, 1 .. n) /\ g[1 .. n] \in List
<1> DEFINE C(s) == CHOOSE g : Lists(base, goals, g, s)
           V == [s \in SUBSET (1 .. n) |-> C(s)[s]]
           Reached == {s \in SUBSET (1 .. n) : V[s] = ListOf(base, goals, V, s) /\ V[s] \in List}
<1>1. ASSUME NEW T \in SUBSET (1 .. n), \A U \in SUBSET T : U # T => U \in Reached
      PROVE  T \in Reached
  <2> DEFINE h == [s \in SUBSET T |-> IF s = T THEN ListOf(base, goals, V, T) ELSE V[s]]
  <2>1. Lists(base, goals, h, T)
    <3>1. ASSUME NEW s \in SUBSET T
          PROVE  h[s] = ListOf(base, goals, h, s)
      <4>1. s # {} => s \ {LastIndex(s)} \in SUBSET T /\ s \ {LastIndex(s)} # T
        BY LastIsIn
      <4>2. ListOf(base, goals, h, s) = ListOf(base, goals, V, s)
        <5>1. s # {} => h[s \ {LastIndex(s)}] = V[s \ {LastIndex(s)}]
          BY <4>1
        <5> HIDE DEF h, V
        <5> QED  BY <5>1 DEF ListOf
      <4>3. CASE s = T
        BY <4>2, <4>3
      <4>4. CASE s # T
        <5>1. s \in Reached
          BY <1>1, <4>4
        <5> QED  BY <4>2, <4>4, <5>1
      <4> QED  BY <4>3, <4>4
    <3>2. h = [s \in SUBSET T |-> h[s]]
      OBVIOUS
    <3> HIDE DEF h
    <3> QED  BY <3>1, <3>2 DEF Lists
  <2>2. Lists(base, goals, C(T), T)
    <3> HIDE DEF h
    <3> QED  BY <2>1
  <2>3. C(T) = h
    <3> HIDE DEF C, h
    <3> QED  BY <2>1, <2>2, ListsAreUnique
  <2>4. V[T] = C(T)[T] /\ h[T] = ListOf(base, goals, V, T)
    OBVIOUS
  <2>5. V[T] = ListOf(base, goals, V, T)
    <3> HIDE DEF C, V, h
    <3> QED  BY <2>3, <2>4
  <2>6. ListOf(base, goals, V, T) \in List
    <3>1. CASE T = {}
      BY <3>1 DEF ListOf
    <3>2. CASE T # {}
      <4>1. LastIndex(T) \in T /\ T \ {LastIndex(T)} \in SUBSET T /\ T \ {LastIndex(T)} # T
        BY <3>2, LastIsIn
      <4>2. V[T \ {LastIndex(T)}] \in List /\ goals[LastIndex(T)] \in Goals
        BY <1>1, <4>1
      <4> HIDE DEF V
      <4> QED  BY <3>2, <4>2, ListedGoal DEF ListOf
    <3> QED  BY <3>1, <3>2
  <2> QED  BY <2>5, <2>6
<1>2. SUBSET (1 .. n) \subseteq Reached
  <2> DEFINE N == 1 .. n
  <2>1. IsFiniteSet(N)
    BY FS_Interval
  <2>2. \A T \in SUBSET N : (\A U \in SUBSET T : U # T => U \in Reached) => T \in Reached
    BY <1>1
  <2>3. SUBSET N \subseteq Reached
    <3> HIDE DEF Reached, N
    <3> QED  BY <2>1, <2>2, SubsetInduction
  <2> QED  BY <2>3
<1>3. \A s \in SUBSET (1 .. n) : V[s] = ListOf(base, goals, V, s)
  BY <1>2
<1>4. V = [s \in SUBSET (1 .. n) |-> V[s]]
  OBVIOUS
<1>5. V[1 .. n] \in List
  BY <1>2
<1> HIDE DEF V
<1> QED  BY <1>3, <1>4, <1>5 DEF Lists

LEMMA ListedIsList ==
  ASSUME fixes \in List, runs \in Seq(Goals), Newest \in Nat
  PROVE  Library!Listed \in List
<1> DEFINE back == Library!Reverse(runs)
           m == IF Len(runs) < Newest THEN Len(runs) ELSE Newest
<1>1. Len(runs) \in Nat /\ m \in 0 .. Len(runs)
  OBVIOUS
<1>2. back \in Seq(Goals) /\ Len(back) = Len(runs)
  <2>1. back = [i \in 1 .. Len(runs) |-> runs[(Len(runs) - i) + 1]]
    BY DEF Library!Reverse
  <2>2. \A i \in 1 .. Len(runs) : runs[(Len(runs) - i) + 1] \in Goals
    BY <1>1
  <2> HIDE DEF back
  <2> QED  BY <1>1, <2>1, <2>2
<1>3. Library!Recent = SubSeq(back, 1, m)
  BY DEF Library!Recent
<1> HIDE DEF back, m
<1>4. DOMAIN Library!Recent = 1 .. m /\ \A i \in 1 .. m : Library!Recent[i] \in Goals
  <2>1. SubSeq(back, 1, m) \in Seq(Goals) /\ Len(SubSeq(back, 1, m)) = m
    BY <1>1, <1>2
  <2> QED  BY <1>1, <1>3, <2>1
<1>5. m \in Nat
  BY <1>1
<1>6. PICK g : Lists(fixes, Library!Recent, g, 1 .. m) /\ g[1 .. m] \in List
  BY <1>4, <1>5, ListsExist
<1> DEFINE c == CHOOSE h : Lists(fixes, Library!Recent, h, 1 .. m)
<1>7. Lists(fixes, Library!Recent, c, 1 .. m)
  BY <1>6
<1>8. Library!Listed = c[1 .. m]
  BY <1>4, ListUnfold DEF Library!Listed
<1> HIDE DEF c
<1>9. c = g
  BY <1>5, <1>6, <1>7, ListsAreUnique
<1> QED  BY <1>6, <1>8, <1>9

-----------------------------------------------------------------------------
(* Imports *)

\* Texts are cut into finitely many sections, and no user is the system.
IsText(t) == Library!Pieces(t) \in Seq({Library!Pieces(t)[i] : i \in DOMAIN Library!Pieces(t)})
LibraryConstants ==
  /\ \A t \in Documents : IsText(t)
  /\ Library!System \notin Readers /\ Newest \in Nat

Fields == {"pc", "src", "user", "text", "next", "mixed"}
Past(j) == importing[j].pc \in {"insert", "finish"}
Checked(j) == importing[j].pc \in {"replace", "insert", "finish"}
Pieced(j) == Len(Library!Pieces(importing[j].text))

\* What an import is at
Import(j) ==
  LET f == importing[j] IN
  /\ f = [x \in Fields |-> f[x]] /\ f.mixed \in BOOLEAN /\ IsText(f.text)
  /\ f.pc \in {"check", "replace", "insert", "finish"}
  /\ f.pc \in {"check", "replace"} => f.next = 1
  /\ f.pc # "check" => Pieced(j) > 0
  /\ f.pc = "insert" => f.next \in 1 .. Pieced(j)
  /\ j # "loop" => f.user = Library!System

Shapes ==
  /\ importing = [j \in Library!Jobs |-> importing[j]]
  /\ \A j \in Library!Jobs : \/ importing[j] \in {[pc |-> "idle"], [pc |-> "clear"]}
                             \/ Import(j)

\* Imports that meet at a name know of it, those of one text are on record.
Meetings ==
  \A j, i \in Library!Jobs :
    j # i /\ Library!Importing(j) /\ Library!Importing(i) =>
      /\ importing[j].src = importing[i].src => importing[j].mixed
      /\ importing[j].text = importing[i].text => importing[j].text \in raced

\* The rows are the first n sections of a text, from one importer.
Carries(rows, t, n) ==
  /\ {r.index : r \in rows} = 1 .. n
  /\ \A r \in rows : r.piece = Library!Pieces(t)[r.index]
  /\ \A r, q \in rows : r.user = q.user /\ (r.index = q.index => r = q)

\* An import that met no other has the rows of its name to itself.
Progress ==
  \A j \in Library!Jobs :
    Past(j) /\ ~importing[j].mixed =>
      /\ Carries(Library!RowsOf(importing[j].src), importing[j].text,
               IF importing[j].pc = "insert" THEN importing[j].next - 1 ELSE Pieced(j))
      /\ \A r \in Library!RowsOf(importing[j].src) : r.user = importing[j].user

\* Nothing of a name is half replaced.
Steady(src) ==
  src \notin torn /\ \A j \in Library!Jobs : Past(j) => importing[j].src # src

Stands(src) ==
  IF src \in DOMAIN meta
    THEN Carries(Library!RowsOf(src), meta[src], Len(Library!Pieces(meta[src])))
    ELSE Library!RowsOf(src) = {}
StandsWhole == \A src : Steady(src) => Stands(src)

\* A text that is in the library under one name is refused for another.
Twins ==
  \A j \in Library!Jobs, b \in DOMAIN meta :
    Checked(j) /\ b # importing[j].src /\ Steady(b)
      /\ meta[b] = importing[j].text /\ Library!Plain(meta[b]) => meta[b] \in raced

OneName ==
  \A a, b \in DOMAIN meta :
    a # b /\ Steady(a) /\ Steady(b) /\ meta[a] = meta[b] /\ Library!Plain(meta[a]) => meta[a] \in raced

Texts == \A src \in DOMAIN meta : IsText(meta[src])

LibraryInv ==
  /\ Shapes /\ Meetings /\ Progress /\ StandsWhole /\ Twins /\ OneName /\ Texts
  /\ fixes \in List /\ runs \in Seq(Goals)

\* How long a text is
LEMMA PiecesOf ==
  ASSUME NEW t, IsText(t)
  PROVE  /\ Len(Library!Pieces(t)) \in Nat
         /\ DOMAIN Library!Pieces(t) = 1 .. Len(Library!Pieces(t))
         /\ Len(Library!Pieces(t)) = 0 <=> Library!Pieces(t) = << >>
BY DEF IsText

\* A name is whole where all sections of its text are there.
LEMMA WholeIsStands ==
  ASSUME Texts, NEW src
  PROVE  Library!Whole(src) <=> Stands(src)
<1>1. src \in DOMAIN meta => DOMAIN Library!Pieces(meta[src]) = 1 .. Len(Library!Pieces(meta[src]))
  BY PiecesOf DEF Texts
<1> QED  BY <1>1 DEF Library!Whole, Stands, Carries

\* A name at rest is steady, so that the invariant says what is claimed.
LEMMA LibraryClaims ==
  ASSUME LibraryInv
  PROVE  Library!LibraryIsWhole /\ Library!TextOnce /\ Library!FixesListedOnce
<1>1. ASSUME NEW src, Library!Settled(src)
      PROVE  Steady(src)
  BY <1>1 DEF Library!Settled, Library!Importing, Steady, Past
<1>2. Library!LibraryIsWhole
  BY <1>1, WholeIsStands DEF Library!LibraryIsWhole, LibraryInv, StandsWhole
<1>3. Library!TextOnce
  BY <1>1 DEF Library!TextOnce, LibraryInv, OneName
<1>4. Library!FixesListedOnce
  BY DEF Library!FixesListedOnce, LibraryInv, List
<1> QED  BY <1>2, <1>3, <1>4

LEMMA LibraryOpens ==
  ASSUME Library!Init
  PROVE  LibraryInv
<1> USE DEF Library!Init
<1>1. \A j \in Library!Jobs : importing[j].pc = "idle"
  BY DEF Library!Idle
<1>2. Shapes
  BY DEF Shapes, Library!Idle
<1>3. Meetings /\ Progress
  BY <1>1 DEF Meetings, Progress, Library!Importing, Past
<1>4. StandsWhole
  BY DEF StandsWhole, Stands, Library!RowsOf
<1>5. Twins /\ OneName /\ Texts
  BY DEF Twins, OneName, Texts
<1>6. fixes \in List /\ runs \in Seq(Goals)
  BY DEF List, Library!IsInjective
<1> QED  BY <1>2, <1>3, <1>4, <1>5, <1>6 DEF LibraryInv

\* The same import, marked as one that met another
Same(f, g) ==
  /\ g.pc = f.pc /\ g.src = f.src /\ g.user = f.user /\ g.text = f.text /\ g.next = f.next

LEMMA MarkedImport ==
  ASSUME NEW f, f = [x \in Fields |-> f[x]], NEW b \in BOOLEAN
  PROVE  LET g == [f EXCEPT !.mixed = b]
         IN  g = [x \in Fields |-> g[x]] /\ g.mixed = b /\ Same(f, g)
BY DEF Fields, Same

LEMMA NewImport ==
  ASSUME NEW src, NEW user, NEW text, NEW b \in BOOLEAN
  PROVE  LET f == Library!Importer(src, user, text)
             g == [f EXCEPT !.mixed = b]
         IN  /\ g = [x \in Fields |-> g[x]] /\ g.mixed = b /\ Same(f, g)
             /\ f.pc = "check" /\ f.src = src /\ f.user = user /\ f.text = text /\ f.next = 1
BY DEF Fields, Same, Library!Importer

LEMMA PcOfImport ==
  ASSUME Shapes, NEW j \in Library!Jobs
  PROVE  /\ Library!Importing(j) => Import(j)
         /\ Checked(j) => Library!Importing(j)
         /\ Past(j) => Checked(j)
         /\ Library!Importing(j) /\ ~Checked(j) => importing[j].pc = "check"
BY DEF Shapes, Library!Importing, Checked, Past, Import

\* An import begins: who is at the same name or text is told apart, and all others are
\* where they were.
LEMMA BeginMeets ==
  ASSUME Shapes, Meetings, NEW j \in Library!Jobs, ~Library!Importing(j),
         NEW src, NEW user, NEW text, IsText(text), j # "loop" => user = Library!System,
         Library!Begin(j, Library!Importer(src, user, text))
  PROVE  /\ Shapes' /\ Meetings' /\ raced \subseteq raced' /\ ~Checked(j) /\ ~Checked(j)'
         /\ \A i \in Library!Jobs : i # j /\ Library!Importing(i) =>
              /\ Same(importing[i], importing'[i])
              /\ importing[i].mixed \/ importing[i].src = src => importing'[i].mixed
         /\ \A i \in Library!Jobs : i # j /\ ~Library!Importing(i) => importing'[i] = importing[i]
<1> DEFINE f == Library!Importer(src, user, text)
           same == {i \in Library!Jobs \ {j} : Library!Importing(i) /\ importing[i].src = f.src}
           alike == {i \in Library!Jobs \ {j} : Library!Importing(i) /\ importing[i].text = f.text}
           g == [f EXCEPT !.mixed = same # {}]
<1>1. /\ g = [x \in Fields |-> g[x]] /\ g.mixed = (same # {}) /\ Same(f, g)
      /\ f.pc = "check" /\ f.src = src /\ f.user = user /\ f.text = text /\ f.next = 1
  <2> DEFINE b == same # {}
  <2>1. b \in BOOLEAN
    OBVIOUS
  <2>2. g = [f EXCEPT !.mixed = b]
    OBVIOUS
  <2> HIDE DEF b, g
  <2>3. /\ g = [x \in Fields |-> g[x]] /\ g.mixed = b /\ Same(f, g)
        /\ f.pc = "check" /\ f.src = src /\ f.user = user /\ f.text = text /\ f.next = 1
    BY <2>1, <2>2, NewImport
  <2> QED  BY <2>3 DEF b
<1>2. /\ importing' = [i \in Library!Jobs |-> CASE i = j -> g
                                               [] i \in same -> [importing[i] EXCEPT !.mixed = TRUE]
                                               [] OTHER -> importing[i]]
      /\ raced' = IF alike = {} THEN raced ELSE raced \cup {text}
  BY <1>1 DEF Library!Begin
<1>3. importing'[j] = g /\ importing' = [i \in Library!Jobs |-> importing'[i]]
  BY <1>2
<1>4. ASSUME NEW i \in Library!Jobs, i # j, Library!Importing(i)
      PROVE  /\ importing'[i] = [x \in Fields |-> importing'[i][x]]
             /\ Same(importing[i], importing'[i]) /\ importing'[i].mixed \in BOOLEAN
             /\ importing[i].mixed \/ importing[i].src = src => importing'[i].mixed
  <2>1. Import(i)
    BY <1>4, PcOfImport
  <2> DEFINE m == [importing[i] EXCEPT !.mixed = TRUE]
  <2>2. m = [x \in Fields |-> m[x]] /\ m.mixed = TRUE /\ Same(importing[i], m)
    BY <2>1, MarkedImport DEF Import
  <2>3. CASE importing[i].src = src
    <3>1. importing'[i] = m
      BY <1>1, <1>2, <1>4, <2>3
    <3> HIDE DEF m
    <3> QED  BY <2>2, <3>1
  <2>4. CASE importing[i].src # src
    <3>1. importing'[i] = importing[i]
      BY <1>1, <1>2, <1>4, <2>4
    <3> QED  BY <2>1, <2>4, <3>1 DEF Same, Import
  <2> QED  BY <2>3, <2>4
<1>5. \A i \in Library!Jobs : i # j /\ ~Library!Importing(i) => importing'[i] = importing[i]
  BY <1>2
<1> HIDE DEF g
<1>6. \A i \in Library!Jobs : i # j => (Library!Importing(i)' <=> Library!Importing(i))
  BY <1>4, <1>5 DEF Library!Importing, Same
<1>7. Shapes'
  <2>1. ASSUME NEW i \in Library!Jobs
        PROVE  importing'[i] \in {[pc |-> "idle"], [pc |-> "clear"]} \/ Import(i)'
    <3>1. CASE i = j
      BY <1>1, <1>3, <3>1 DEF Import, Same
    <3>2. CASE i # j /\ Library!Importing(i)
      <4>1. Import(i)
        BY <3>2, PcOfImport
      <4>2. /\ importing'[i] = [x \in Fields |-> importing'[i][x]]
            /\ Same(importing[i], importing'[i]) /\ importing'[i].mixed \in BOOLEAN
        BY <1>4, <3>2
      <4> QED  BY <4>1, <4>2 DEF Import, Same, Pieced
    <3>3. CASE i # j /\ ~Library!Importing(i)
      BY <1>5, <3>3 DEF Shapes, Import, Library!Importing
    <3> QED  BY <3>1, <3>2, <3>3
  <2> QED  BY <1>3, <2>1 DEF Shapes
<1>8. Meetings'
  <2> SUFFICES ASSUME NEW i \in Library!Jobs, NEW k \in Library!Jobs, i # k,
                      Library!Importing(i)', Library!Importing(k)'
               PROVE  /\ importing'[i].src = importing'[k].src => importing'[i].mixed
                      /\ importing'[i].text = importing'[k].text => importing'[i].text \in raced'
    BY DEF Meetings
  <2>1. CASE i # j /\ k # j
    BY <1>2, <1>4, <1>6, <2>1 DEF Meetings, Same
  <2>2. CASE i = j
    <3>1. Same(importing[k], importing'[k]) /\ Library!Importing(k)
      BY <1>4, <1>6, <2>2
    <3>2. importing'[i] = g
      BY <1>3, <2>2
    <3>3. importing'[i].src = importing'[k].src => k \in same
      BY <1>1, <2>2, <3>1, <3>2 DEF Same
    <3>4. importing'[i].text = importing'[k].text => k \in alike
      BY <1>1, <2>2, <3>1, <3>2 DEF Same
    <3>5. importing'[i].src = importing'[k].src => importing'[i].mixed
      BY <1>1, <3>2, <3>3
    <3>6. importing'[i].text = text
      BY <1>1, <3>2 DEF Same
    <3>7. importing'[i].text = importing'[k].text => text \in raced'
      BY <1>2, <3>4
    <3> QED  BY <3>5, <3>6, <3>7
  <2>3. CASE k = j
    <3>1. Same(importing[i], importing'[i]) /\ Library!Importing(i)
      BY <1>4, <1>6, <2>3
    <3>2. importing'[k] = g
      BY <1>3, <2>3
    <3>3. importing'[i].src = importing'[k].src => importing[i].src = src
      BY <1>1, <3>1, <3>2 DEF Same
    <3>4. importing'[i].text = importing'[k].text => i \in alike
      BY <1>1, <2>3, <3>1, <3>2 DEF Same
    <3> QED  BY <1>1, <1>2, <1>4, <2>3, <3>1, <3>2, <3>3, <3>4 DEF Same
  <2> QED  BY <2>1, <2>2, <2>3
<1>9. ~Checked(j) /\ ~Checked(j)'
  BY <1>1, <1>3 DEF Checked, Library!Importing, Same
<1> QED  BY <1>2, <1>4, <1>5, <1>7, <1>8, <1>9

\* Rows and meta data of a name are as they were.
AsWas(src) ==
  /\ Library!RowsOf(src)' = Library!RowsOf(src) /\ (src \in DOMAIN meta' <=> src \in DOMAIN meta)
  /\ src \in DOMAIN meta => meta'[src] = meta[src]

LEMMA StandsAsWas ==
  ASSUME NEW src, AsWas(src), Stands(src)
  PROVE  Stands(src)'
BY DEF AsWas, Stands

\* Every name is as it was, or steady no longer, or empty.
LEMMA NamesStand ==
  ASSUME LibraryInv, Shapes', Meetings', Progress', raced \subseteq raced',
         \A src : Steady(src)' =>
           \/ AsWas(src) /\ Steady(src)
           \/ Library!RowsOf(src)' = {} /\ src \notin DOMAIN meta',
         \A src \in DOMAIN meta' : src \in DOMAIN meta /\ meta'[src] = meta[src],
         \A j \in Library!Jobs : Checked(j)' =>
           /\ Checked(j)
           /\ importing'[j].src = importing[j].src /\ importing'[j].text = importing[j].text,
         fixes' \in List, runs' \in Seq(Goals)
  PROVE  LibraryInv'
<1>1. StandsWhole'
  <2> SUFFICES ASSUME NEW src, Steady(src)'
               PROVE  Stands(src)'
    BY DEF StandsWhole
  <2>1. CASE AsWas(src) /\ Steady(src)
    BY <2>1, StandsAsWas DEF LibraryInv, StandsWhole
  <2>2. CASE Library!RowsOf(src)' = {} /\ src \notin DOMAIN meta'
    BY <2>2 DEF Stands
  <2> QED  BY <2>1, <2>2
<1>2. \A src \in DOMAIN meta' : Steady(src)' => Steady(src)
  OBVIOUS
<1>3. Twins'
  BY <1>2 DEF Twins, LibraryInv
<1>4. OneName'
  BY <1>2 DEF OneName, LibraryInv
<1>5. Texts'
  BY DEF Texts, LibraryInv
<1> QED  BY <1>1, <1>3, <1>4, <1>5 DEF LibraryInv

\* Imports begin where names are as they were, or cleared.
LEMMA BeginKeeps ==
  ASSUME LibraryInv, NEW j \in Library!Jobs, ~Library!Importing(j),
         NEW src, NEW user, NEW text, IsText(text), j # "loop" => user = Library!System,
         Library!Begin(j, Library!Importer(src, user, text)),
         \A s : \/ AsWas(s) /\ (s \in torn' <=> s \in torn)
                \/ s = src /\ Library!RowsOf(s)' = {} /\ s \notin DOMAIN meta',
         fixes' \in List, runs' \in Seq(Goals)
  PROVE  LibraryInv'
<1>1. Shapes /\ Meetings
  BY DEF LibraryInv
<1>2. /\ Shapes' /\ Meetings' /\ raced \subseteq raced' /\ ~Checked(j) /\ ~Checked(j)'
      /\ \A i \in Library!Jobs : i # j /\ Library!Importing(i) =>
           /\ Same(importing[i], importing'[i])
           /\ importing[i].mixed \/ importing[i].src = src => importing'[i].mixed
      /\ \A i \in Library!Jobs : i # j /\ ~Library!Importing(i) => importing'[i] = importing[i]
  BY <1>1, BeginMeets
<1>3. \A i \in Library!Jobs : (Checked(i)' <=> Checked(i)) /\ (Past(i)' <=> Past(i))
  BY <1>2 DEF Checked, Past, Same
<1>4. \A i \in Library!Jobs : Checked(i) => i # j /\ Library!Importing(i)
  BY <1>1, <1>2, PcOfImport
<1>5. \A i \in Library!Jobs : Past(i) => Checked(i)
  BY DEF Past, Checked
<1>6. Progress'
  <2> SUFFICES ASSUME NEW i \in Library!Jobs, Past(i)', ~importing'[i].mixed
               PROVE  /\ Carries(Library!RowsOf(importing[i].src)', importing'[i].text,
                               IF importing'[i].pc = "insert" THEN importing'[i].next - 1 ELSE Pieced(i)')
                      /\ \A r \in Library!RowsOf(importing[i].src)' : r.user = importing'[i].user
    BY DEF Progress
  <2>1. Past(i) /\ Same(importing[i], importing'[i]) /\ ~importing[i].mixed /\ importing[i].src # src
    BY <1>2, <1>3, <1>4, <1>5
  <2>2. importing'[i].src = importing[i].src /\ Pieced(i)' = Pieced(i)
    BY <2>1 DEF Same, Pieced
  <2>3. Library!RowsOf(importing[i].src)' = Library!RowsOf(importing[i].src)
    BY <2>1, <2>2 DEF AsWas
  <2> QED  BY <2>1, <2>2, <2>3 DEF LibraryInv, Progress, Same
<1>7. \A s : Steady(s)' => (AsWas(s) /\ Steady(s)) \/ (Library!RowsOf(s)' = {} /\ s \notin DOMAIN meta')
  BY <1>2, <1>3, <1>4, <1>5 DEF Steady, Same
<1>8. \A s \in DOMAIN meta' : s \in DOMAIN meta /\ meta'[s] = meta[s]
  BY DEF AsWas
<1>9. \A i \in Library!Jobs : Checked(i)' =>
        /\ Checked(i) /\ importing'[i].src = importing[i].src /\ importing'[i].text = importing[i].text
  BY <1>2, <1>3, <1>4 DEF Same
<1> QED  BY <1>2, <1>6, <1>7, <1>8, <1>9, NamesStand

LEMMA AllAsWas ==
  ASSUME UNCHANGED << docs, meta, torn >>
  PROVE  \A s : AsWas(s) /\ (s \in torn' <=> s \in torn)
BY DEF AsWas, Library!RowsOf

LEMMA StateIsText == ASSUME NEW list PROVE IsText(Library!StateText(list))
<1> DEFINE t == Library!StateText(list)
           P == {Library!Pieces(t)[i] : i \in DOMAIN Library!Pieces(t)}
<1>1. Library!Pieces(t) = << << "head" >>, t >>
  BY DEF Library!Pieces, Library!StateText
<1> HIDE DEF t
<1>2. Library!Pieces(t)[1] \in P /\ Library!Pieces(t)[2] \in P
  BY <1>1
<1>3. Library!Pieces(t) \in Seq(P)
  <2> HIDE DEF P
  <2> QED  BY <1>1, <1>2
<1> QED  BY <1>3 DEF IsText, t

LEMMA MessageKeeps ==
  ASSUME LibraryConstants, LibraryInv, NEW u \in Readers, NEW k \in Ways, NEW t \in Documents,
         Library!ImportMessage(u, k, t)
  PROVE  LibraryInv'
<1> DEFINE who == IF k = "admin" THEN Library!System ELSE u
<1>1. /\ Library!Begin("loop", Library!Importer(Library!Second(k), who, t))
      /\ importing["loop"].pc = "idle" /\ UNCHANGED << docs, meta, torn, fixes, runs >>
  BY DEF Library!ImportMessage, Library!At
<1>2. "loop" \in Library!Jobs /\ ~Library!Importing("loop") /\ IsText(t)
  BY <1>1 DEF Library!Jobs, Library!Importing, LibraryConstants
<1> HIDE DEF who
<1>3. fixes' \in List /\ runs' \in Seq(Goals)
  BY <1>1 DEF LibraryInv
<1>4. \A s : AsWas(s) /\ (s \in torn' <=> s \in torn)
  BY <1>1, AllAsWas
<1> DEFINE src == Library!Second(k)
<1>5. Library!Begin("loop", Library!Importer(src, who, t))
  BY <1>1
<1> HIDE DEF src
<1> QED  BY <1>2, <1>3, <1>4, <1>5, BeginKeeps

LEMMA FileKeeps ==
  ASSUME LibraryConstants, LibraryInv, NEW src \in Files, NEW t \in Documents, Library!ImportFile(src, t)
  PROVE  LibraryInv'
<1> DEFINE text == IF src = State THEN Library!StateText(fixes) ELSE t
<1>1. /\ Library!Begin("script", Library!Importer(src, Library!System, text))
      /\ importing["script"].pc = "idle" /\ UNCHANGED << docs, meta, torn, fixes, runs >>
  BY DEF Library!ImportFile, Library!At
<1>2. "script" \in Library!Jobs /\ ~Library!Importing("script") /\ IsText(text)
  BY <1>1, StateIsText DEF Library!Jobs, Library!Importing, LibraryConstants
<1>3. fixes' \in List /\ runs' \in Seq(Goals)
  BY <1>1 DEF LibraryInv
<1>4. \A s : AsWas(s) /\ (s \in torn' <=> s \in torn)
  BY <1>1, AllAsWas
<1> HIDE DEF text
<1> QED  BY <1>1, <1>2, <1>3, <1>4, BeginKeeps

LEMMA StateDocKeeps ==
  ASSUME LibraryConstants, LibraryInv, NEW b \in BOOLEAN, Library!SyncStateDoc(b)
  PROVE  LibraryInv'
<1> DEFINE text == Library!StateText(fixes)
<1>1. /\ Library!Begin("sync", Library!Importer(State, Library!System, text))
      /\ importing["sync"].pc = "clear" /\ UNCHANGED << fixes, runs >>
      /\ \/ /\ docs' = Library!Without(State)
            /\ meta' = Library!Restrict(meta, DOMAIN meta \ {State})
            /\ torn' = torn \ {State}
         \/ UNCHANGED << docs, meta, torn >>
  BY DEF Library!SyncStateDoc, Library!At
<1>2. "sync" \in Library!Jobs /\ ~Library!Importing("sync") /\ IsText(text)
  BY <1>1, StateIsText DEF Library!Jobs, Library!Importing
<1>3. fixes' \in List /\ runs' \in Seq(Goals)
  BY <1>1 DEF LibraryInv
<1>4. \A s : \/ AsWas(s) /\ (s \in torn' <=> s \in torn)
             \/ s = State /\ Library!RowsOf(s)' = {} /\ s \notin DOMAIN meta'
  <2>1. CASE UNCHANGED << docs, meta, torn >>
    BY <2>1, AllAsWas
  <2>2. CASE /\ docs' = Library!Without(State)
             /\ meta' = Library!Restrict(meta, DOMAIN meta \ {State})
             /\ torn' = torn \ {State}
    BY <2>2 DEF AsWas, Library!RowsOf, Library!Without, Library!Restrict
  <2> QED  BY <1>1, <2>1, <2>2
<1> HIDE DEF text
<1> QED  BY <1>1, <1>2, <1>3, <1>4, BeginKeeps

\* Jobs that end, and what they leave behind
LEMMA EndsKeep ==
  ASSUME LibraryInv, Shapes', raced \subseteq raced', UNCHANGED << docs, meta >>,
         \A j \in Library!Jobs : \/ importing'[j] = importing[j]
                                 \/ ~Library!Importing(j)',
         torn \subseteq torn',
         \A j \in Library!Jobs : Past(j) /\ ~Past(j)' => importing[j].src \in torn',
         fixes' \in List, runs' \in Seq(Goals)
  PROVE  LibraryInv'
<1>1. \A j \in Library!Jobs : Library!Importing(j)' => importing'[j] = importing[j] /\ Library!Importing(j)
  BY DEF Library!Importing
<1>2. \A j \in Library!Jobs : /\ Checked(j)' => Library!Importing(j)'
                              /\ Past(j)' => Checked(j)'
                              /\ (Checked(j)' /\ importing'[j] = importing[j]) => Checked(j)
                              /\ (Past(j)' /\ importing'[j] = importing[j]) => Past(j)
  BY DEF Checked, Past, Library!Importing
<1>3. Meetings'
  BY <1>1 DEF Meetings, LibraryInv
<1>4. Progress'
  BY <1>1, <1>2 DEF Progress, LibraryInv, Library!RowsOf, Pieced
<1>5. \A s : AsWas(s)
  BY DEF AsWas, Library!RowsOf
<1>6. \A s : Steady(s)' => Steady(s)
  <2> SUFFICES ASSUME NEW s, Steady(s)', NEW j \in Library!Jobs, Past(j), importing[j].src = s
               PROVE  FALSE
    BY DEF Steady
  <2>1. Past(j)'
    BY DEF Steady
  <2>2. importing'[j] = importing[j]
    BY <1>1, <1>2, <2>1
  <2> QED  BY <2>1, <2>2 DEF Steady
<1> QED  BY <1>1, <1>2, <1>3, <1>4, <1>5, <1>6, NamesStand

LEMMA JobsAtRest ==
  ASSUME Shapes, NEW S, NEW q \in {[pc |-> "idle"], [pc |-> "clear"]},
         importing' = [j \in Library!Jobs |-> IF j \in S THEN q ELSE importing[j]]
  PROVE  /\ Shapes'
         /\ \A j \in Library!Jobs : importing'[j] = importing[j] \/ (j \in S /\ ~Library!Importing(j)')
<1>1. \A j \in Library!Jobs : importing'[j] = IF j \in S THEN q ELSE importing[j]
  OBVIOUS
<1>2. \A j \in Library!Jobs : importing'[j] = importing[j] /\ Import(j) => Import(j)'
  BY DEF Import, Pieced
<1>3. Shapes'
  BY <1>1, <1>2 DEF Shapes
<1> QED  BY <1>1, <1>3 DEF Library!Importing

LEMMA FailKeeps ==
  ASSUME LibraryInv, NEW j \in Library!Jobs, Library!Fail(j)
  PROVE  LibraryInv'
<1>1. Shapes
  BY DEF LibraryInv
<1>2. /\ importing' = [i \in Library!Jobs |-> IF i \in {j} THEN [pc |-> "idle"] ELSE importing[i]]
      /\ torn' = torn \cup {importing[i].src : i \in {k \in {j} : importing[k].pc \in {"insert", "finish"}}}
      /\ UNCHANGED << docs, meta, runs, fixes, raced >>
  BY <1>1 DEF Library!Fail, Library!Done, Library!Cut, Library!Idle, Shapes
<1>3. Shapes' /\ \A i \in Library!Jobs : importing'[i] = importing[i] \/ (i \in {j} /\ ~Library!Importing(i)')
  BY <1>1, <1>2, JobsAtRest
<1>4. \A i \in Library!Jobs : Past(i) /\ ~Past(i)' => importing[i].src \in torn'
  BY <1>2, <1>3 DEF Past
<1>5. fixes' \in List /\ runs' \in Seq(Goals)
  BY <1>2 DEF LibraryInv
<1> QED  BY <1>2, <1>3, <1>4, <1>5, EndsKeep

LEMMA CrashKeeps ==
  ASSUME LibraryInv, NEW S \in SUBSET Library!Jobs, Library!Crash(S)
  PROVE  LibraryInv'
<1>1. Shapes
  BY DEF LibraryInv
<1>2. /\ importing' = [i \in Library!Jobs |-> IF i \in S THEN [pc |-> "idle"] ELSE importing[i]]
      /\ torn' = torn \cup {importing[i].src : i \in {k \in S : importing[k].pc \in {"insert", "finish"}}}
      /\ UNCHANGED << docs, meta, runs, fixes, raced >>
  BY DEF Library!Crash, Library!Cut, Library!Idle
<1>3. Shapes' /\ \A i \in Library!Jobs : importing'[i] = importing[i] \/ (i \in S /\ ~Library!Importing(i)')
  BY <1>1, <1>2, JobsAtRest
<1>4. \A i \in Library!Jobs : Past(i) /\ ~Past(i)' => importing[i].src \in torn'
  BY <1>2, <1>3 DEF Past
<1>5. fixes' \in List /\ runs' \in Seq(Goals)
  BY <1>2 DEF LibraryInv
<1> QED  BY <1>2, <1>3, <1>4, <1>5, EndsKeep

LEMMA AppendKeeps ==
  ASSUME LibraryConstants, LibraryInv, Library!AppendFixes
  PROVE  LibraryInv'
<1>1. Shapes /\ importing["sync"].pc = "idle" /\ "sync" \in Library!Jobs
  BY DEF LibraryInv, Library!AppendFixes, Library!At, Library!Jobs
<1>2. importing["sync"] = [pc |-> "idle"]
  BY <1>1 DEF Shapes, Import
<1>3. importing' = [i \in Library!Jobs |-> IF i \in {"sync"} THEN [pc |-> "clear"] ELSE importing[i]]
  BY <1>1, <1>2 DEF Library!AppendFixes, Library!Goto, Shapes
<1>4. UNCHANGED << docs, meta, runs, torn, raced >> /\ fixes' = Library!Listed
  BY DEF Library!AppendFixes
<1>5. Shapes' /\ \A i \in Library!Jobs : importing'[i] = importing[i] \/ (i \in {"sync"} /\ ~Library!Importing(i)')
  BY <1>1, <1>3, JobsAtRest
<1>6. \A i \in Library!Jobs : Past(i) /\ ~Past(i)' => importing[i].src \in torn'
  BY <1>1, <1>5 DEF Past
<1>7. fixes' \in List /\ runs' \in Seq(Goals)
  BY <1>4, ListedIsList DEF LibraryInv, LibraryConstants
<1> QED  BY <1>4, <1>5, <1>6, <1>7, EndsKeep

LEMMA LibraryIdles ==
  ASSUME LibraryInv, UNCHANGED << docs, meta, importing, torn, raced, fixes >>, runs' \in Seq(Goals)
  PROVE  LibraryInv'
<1>1. Shapes'
  BY DEF LibraryInv, Shapes, Import, Pieced
<1>2. \A i \in Library!Jobs : Past(i) /\ ~Past(i)' => importing[i].src \in torn'
  BY DEF Past
<1>3. fixes' \in List
  BY DEF LibraryInv
<1> QED  BY <1>1, <1>2, <1>3, EndsKeep

\* An import goes a step further.
LEMMA GoesOn ==
  ASSUME Shapes, Meetings, NEW j \in Library!Jobs, Library!Importing(j), NEW g,
         importing' = [importing EXCEPT ![j] = g], Import(j)', raced \subseteq raced',
         g.src = importing[j].src, g.text = importing[j].text, g.mixed = importing[j].mixed
  PROVE  /\ Shapes' /\ Meetings' /\ importing'[j] = g
         /\ \A i \in Library!Jobs : i # j => importing'[i] = importing[i]
<1>1. importing'[j] = g /\ \A i \in Library!Jobs : i # j => importing'[i] = importing[i]
  BY DEF Shapes
<1>2. Shapes'
  <2>1. ASSUME NEW i \in Library!Jobs
        PROVE  importing'[i] \in {[pc |-> "idle"], [pc |-> "clear"]} \/ Import(i)'
    BY <1>1 DEF Shapes, Import, Pieced
  <2>2. importing' = [i \in Library!Jobs |-> importing'[i]]
    BY DEF Shapes
  <2> QED  BY <2>1, <2>2 DEF Shapes
<1>3. \A i \in Library!Jobs : Library!Importing(i)' => Library!Importing(i)
  BY <1>1 DEF Library!Importing
<1>4. Meetings'
  BY <1>1, <1>3 DEF Meetings
<1> QED  BY <1>1, <1>2, <1>4

\* The record of an import at another point
LEMMA PcMoved ==
  ASSUME NEW f, f = [x \in Fields |-> f[x]], NEW p, NEW n
  PROVE  LET g == [f EXCEPT !.pc = p]
             h == [f EXCEPT !.next = n]
         IN  /\ g = [x \in Fields |-> g[x]] /\ g.pc = p /\ g.src = f.src /\ g.user = f.user
             /\ g.text = f.text /\ g.next = f.next /\ g.mixed = f.mixed
             /\ h = [x \in Fields |-> h[x]] /\ h.pc = f.pc /\ h.src = f.src /\ h.user = f.user
             /\ h.text = f.text /\ h.next = n /\ h.mixed = f.mixed
BY DEF Fields

LEMMA GotoRecord ==
  ASSUME Shapes, NEW j \in Library!Jobs, Library!Importing(j), NEW p, Library!Goto(j, p)
  PROVE  \E g : /\ importing' = [importing EXCEPT ![j] = g] /\ importing'[j] = g
                /\ g = [x \in Fields |-> g[x]] /\ g.pc = p /\ g.src = importing[j].src
                /\ g.user = importing[j].user /\ g.text = importing[j].text
                /\ g.next = importing[j].next /\ g.mixed = importing[j].mixed
<1> DEFINE f == importing[j]
           g == [f EXCEPT !.pc = p]
<1>1. Import(j)
  BY PcOfImport
<1>2. f = [x \in Fields |-> f[x]]
  BY <1>1 DEF Import
<1>3. /\ g = [x \in Fields |-> g[x]] /\ g.pc = p /\ g.src = f.src /\ g.user = f.user
      /\ g.text = f.text /\ g.next = f.next /\ g.mixed = f.mixed
  <2> HIDE DEF f
  <2> QED  BY <1>2, PcMoved
<1>4. importing' = [importing EXCEPT ![j] = g]
  BY DEF Library!Goto
<1> HIDE DEF g
<1>5. importing'[j] = g
  BY <1>4 DEF Shapes
<1> QED  BY <1>3, <1>4, <1>5

LEMMA CheckKeeps ==
  ASSUME LibraryInv, NEW j \in Library!Jobs, Library!Check(j)
  PROVE  LibraryInv'
<1>1. /\ Shapes /\ Meetings /\ importing[j].pc = "check" /\ UNCHANGED << docs, meta, torn, raced, fixes, runs >>
      /\ Library!Importing(j)
  BY DEF LibraryInv, Library!Check, Library!At, Library!Importing
<1>2. fixes' \in List /\ runs' \in Seq(Goals) /\ Import(j)
  BY <1>1, PcOfImport DEF LibraryInv
<1>3. CASE Library!Done(j)
  <2>1. importing' = [i \in Library!Jobs |-> IF i \in {j} THEN [pc |-> "idle"] ELSE importing[i]]
    BY <1>1, <1>3 DEF Library!Done, Library!Idle, Shapes
  <2>2. Shapes' /\ \A i \in Library!Jobs : importing'[i] = importing[i] \/ (i \in {j} /\ ~Library!Importing(i)')
    BY <1>1, <2>1, JobsAtRest
  <2>3. \A i \in Library!Jobs : Past(i) /\ ~Past(i)' => importing[i].src \in torn'
    BY <1>1, <2>2 DEF Past
  <2> QED  BY <1>1, <1>2, <2>2, <2>3, EndsKeep
<1>4. CASE ~Library!Refused(importing[j]) /\ Library!Goto(j, "replace")
  <2>1. PICK g : /\ importing' = [importing EXCEPT ![j] = g] /\ importing'[j] = g
                 /\ g = [x \in Fields |-> g[x]] /\ g.pc = "replace" /\ g.src = importing[j].src
                 /\ g.user = importing[j].user /\ g.text = importing[j].text
                 /\ g.next = importing[j].next /\ g.mixed = importing[j].mixed
    BY <1>1, <1>4, GotoRecord
  <2>2. Pieced(j) > 0
    <3>1. Library!Pieces(importing[j].text) # << >>
      BY <1>4 DEF Library!Refused
    <3> QED  BY <1>2, <3>1, PiecesOf DEF Import, Pieced
  <2>3. Import(j)'
    BY <1>1, <1>2, <2>1, <2>2 DEF Import, Pieced
  <2>4. /\ Shapes' /\ Meetings' /\ \A i \in Library!Jobs : i # j => importing'[i] = importing[i]
    BY <1>1, <2>1, <2>3, GoesOn
  <2>5. \A i \in Library!Jobs : Past(i)' => i # j /\ Past(i)
    BY <1>1, <2>1, <2>4 DEF Past
  <2>6. Progress'
    BY <1>1, <2>4, <2>5 DEF Progress, LibraryInv, Library!RowsOf, Pieced
  <2>7. \A s : AsWas(s) /\ (Steady(s)' <=> Steady(s))
    <3>1. \A i \in Library!Jobs : Past(i) => Past(i)' /\ importing'[i].src = importing[i].src
      BY <1>1, <2>1, <2>4 DEF Past
    <3> QED  BY <1>1, <2>4, <2>5, <3>1, AllAsWas DEF Steady
  <2>8. StandsWhole'
    BY <2>7, StandsAsWas DEF StandsWhole, LibraryInv
  <2>9. Twins'
    <3> SUFFICES ASSUME NEW i \in Library!Jobs, NEW b \in DOMAIN meta, Checked(i)', b # importing'[i].src,
                        Steady(b), meta[b] = importing'[i].text, Library!Plain(meta[b])
                 PROVE  meta[b] \in raced
      BY <1>1, <2>7 DEF Twins
    <3>1. CASE i # j
      BY <2>4, <3>1 DEF Twins, LibraryInv, Checked
    <3>2. CASE i = j
      <4>1. Carries(Library!RowsOf(b), meta[b], Len(Library!Pieces(meta[b])))
        BY DEF LibraryInv, StandsWhole, Stands
      <4>2. Library!Pieces(meta[b]) = << meta[b] >>
        BY DEF Library!Plain
      <4>3. PICK r \in Library!RowsOf(b) : r.index = 1
        BY <4>1, <4>2 DEF Carries
      <4>4. r.piece = meta[b] /\ r \in docs
        BY <4>1, <4>2, <4>3 DEF Carries, Library!RowsOf
      <4> QED  BY <1>4, <2>1, <3>2, <4>4 DEF Library!Refused
    <3> QED  BY <3>1, <3>2
  <2>10. OneName' /\ Texts'
    BY <1>1, <2>7 DEF OneName, Texts, LibraryInv
  <2> QED  BY <1>2, <2>4, <2>6, <2>8, <2>9, <2>10 DEF LibraryInv
<1> QED  BY <1>3, <1>4 DEF Library!Check

\* Steps after which an import still has the rows of its name in hand
LEMMA HandKeeps ==
  ASSUME LibraryInv, NEW j \in Library!Jobs, Checked(j), Past(j)', Import(j)', NEW g,
         importing' = [importing EXCEPT ![j] = g],
         g.src = importing[j].src, g.text = importing[j].text, g.mixed = importing[j].mixed,
         UNCHANGED << meta, torn, raced, fixes, runs >>,
         \A s : s # importing[j].src => Library!RowsOf(s)' = Library!RowsOf(s),
         ~g.mixed => /\ Carries(Library!RowsOf(importing[j].src)', g.text,
                              IF g.pc = "insert" THEN g.next - 1 ELSE Pieced(j))
                     /\ \A r \in Library!RowsOf(importing[j].src)' : r.user = g.user
  PROVE  LibraryInv'
<1>1. Shapes /\ Meetings /\ Library!Importing(j)
  BY PcOfImport DEF LibraryInv
<1>2. /\ Shapes' /\ Meetings' /\ importing'[j] = g
      /\ \A i \in Library!Jobs : i # j => importing'[i] = importing[i]
  BY <1>1, GoesOn
<1>3. \A i \in Library!Jobs : i # j => (Past(i)' <=> Past(i)) /\ (Checked(i)' <=> Checked(i))
  BY <1>2 DEF Past, Checked
<1>4. Progress'
  <2> SUFFICES ASSUME NEW i \in Library!Jobs, Past(i)', ~importing'[i].mixed
               PROVE  /\ Carries(Library!RowsOf(importing[i].src)', importing'[i].text,
                               IF importing'[i].pc = "insert" THEN importing'[i].next - 1 ELSE Pieced(i)')
                      /\ \A r \in Library!RowsOf(importing[i].src)' : r.user = importing'[i].user
    BY DEF Progress
  <2>1. CASE i = j
    <3>1. Pieced(j)' = Pieced(j)
      BY <1>2 DEF Pieced
    <3> QED  BY <1>2, <2>1, <3>1
  <2>2. CASE i # j
    <3>1. Past(i) /\ importing'[i] = importing[i] /\ ~importing[i].mixed /\ Library!Importing(i)
      BY <1>1, <1>2, <1>3, <2>2, PcOfImport
    <3>2. importing[i].src # importing[j].src
      BY <1>1, <2>2, <3>1 DEF Meetings
    <3>3. Library!RowsOf(importing[i].src)' = Library!RowsOf(importing[i].src)
      BY <3>1, <3>2
    <3>4. Pieced(i)' = Pieced(i)
      BY <3>1 DEF Pieced
    <3> QED  BY <3>1, <3>3, <3>4 DEF LibraryInv, Progress
  <2> QED  BY <2>1, <2>2
<1>5. \A s : Steady(s)' => AsWas(s) /\ Steady(s)
  <2> SUFFICES ASSUME NEW s, Steady(s)'
               PROVE  AsWas(s) /\ Steady(s)
    OBVIOUS
  <2>1. s # importing[j].src
    BY <1>2 DEF Steady
  <2>2. AsWas(s)
    BY <2>1 DEF AsWas
  <2>3. Steady(s)
    BY <1>2, <1>3, <2>1 DEF Steady
  <2> QED  BY <2>2, <2>3
<1>6. \A i \in Library!Jobs : Checked(i)' =>
        /\ Checked(i) /\ importing'[i].src = importing[i].src /\ importing'[i].text = importing[i].text
  BY <1>2, <1>3
<1>7. fixes' \in List /\ runs' \in Seq(Goals) /\ \A s \in DOMAIN meta' : s \in DOMAIN meta /\ meta'[s] = meta[s]
  BY DEF LibraryInv
<1> QED  BY <1>2, <1>4, <1>5, <1>6, <1>7, NamesStand

LEMMA ReplaceKeeps ==
  ASSUME LibraryInv, NEW j \in Library!Jobs, Library!Replace(j)
  PROVE  LibraryInv'
<1>1. /\ Shapes /\ Meetings /\ importing[j].pc = "replace" /\ UNCHANGED << meta, torn, raced, fixes, runs >>
      /\ docs' = Library!Without(importing[j].src) /\ Library!Goto(j, "insert")
  BY DEF LibraryInv, Library!Replace, Library!At
<1>2. Checked(j) /\ Library!Importing(j) /\ Import(j)
  BY <1>1, PcOfImport DEF Checked
<1>3. PICK g : /\ importing' = [importing EXCEPT ![j] = g] /\ importing'[j] = g
               /\ g = [x \in Fields |-> g[x]] /\ g.pc = "insert" /\ g.src = importing[j].src
               /\ g.user = importing[j].user /\ g.text = importing[j].text
               /\ g.next = importing[j].next /\ g.mixed = importing[j].mixed
  BY <1>1, <1>2, GotoRecord
<1>4. g.next = 1 /\ Pieced(j) > 0 /\ Pieced(j) \in Nat
  BY <1>1, <1>2, <1>3, PiecesOf DEF Import, Pieced
<1>5. Import(j)' /\ Past(j)'
  BY <1>2, <1>3, <1>4 DEF Import, Pieced, Past
<1>6. \A s : s # importing[j].src => Library!RowsOf(s)' = Library!RowsOf(s)
  BY <1>1 DEF Library!RowsOf, Library!Without
<1>7. Library!RowsOf(importing[j].src)' = {}
  BY <1>1, <1>3 DEF Library!RowsOf, Library!Without
<1>8. Carries({}, g.text, 0)
  BY DEF Carries
<1> QED  BY <1>1, <1>2, <1>3, <1>4, <1>5, <1>6, <1>7, <1>8, HandKeeps

LEMMA InsertKeeps ==
  ASSUME LibraryInv, NEW j \in Library!Jobs, NEW emb \in BOOLEAN, Library!Insert(j, emb)
  PROVE  LibraryInv'
<1> DEFINE f == importing[j]
           row == [src |-> f.src, user |-> f.user, index |-> f.next,
                   piece |-> Library!Pieces(f.text)[f.next], emb |-> emb, by |-> j]
<1>1. /\ Shapes /\ Meetings /\ importing[j].pc = "insert" /\ UNCHANGED << meta, torn, raced, fixes, runs >>
      /\ docs' = docs \cup {row}
  BY DEF LibraryInv, Library!Insert, Library!At
<1>2. Checked(j) /\ Past(j) /\ Library!Importing(j) /\ Import(j)
  BY <1>1, PcOfImport DEF Checked, Past
<1>3. f.next \in 1 .. Pieced(j) /\ Pieced(j) \in Nat /\ f = [x \in Fields |-> f[x]]
  BY <1>1, <1>2, PiecesOf DEF Import, Pieced
<1>4. \E g : /\ importing' = [importing EXCEPT ![j] = g] /\ importing'[j] = g
             /\ g = [x \in Fields |-> g[x]] /\ g.src = f.src /\ g.user = f.user /\ g.text = f.text
             /\ g.mixed = f.mixed
             /\ \/ g.pc = "finish" /\ f.next = Pieced(j)
                \/ g.pc = "insert" /\ g.next = f.next + 1 /\ f.next # Pieced(j)
  <2>1. CASE f.next = Pieced(j)
    <3>1. Library!Goto(j, "finish")
      BY <2>1 DEF Library!Insert, Pieced
    <3> QED  BY <1>1, <1>2, <2>1, <3>1, GotoRecord
  <2>2. CASE f.next # Pieced(j)
    <3> DEFINE n == f.next + 1
               h == [f EXCEPT !.next = n]
    <3>1. importing' = [importing EXCEPT ![j] = h]
      BY <2>2 DEF Library!Insert, Pieced
    <3>2. /\ h = [x \in Fields |-> h[x]] /\ h.pc = f.pc /\ h.src = f.src /\ h.user = f.user
          /\ h.text = f.text /\ h.next = n /\ h.mixed = f.mixed
      <4> HIDE DEF f, n
      <4> QED  BY <1>3, PcMoved
    <3> HIDE DEF h
    <3>3. importing'[j] = h
      BY <1>1, <3>1 DEF Shapes
    <3> QED  BY <1>1, <2>2, <3>1, <3>2, <3>3
  <2> QED  BY <2>1, <2>2
<1>5. PICK g : /\ importing' = [importing EXCEPT ![j] = g] /\ importing'[j] = g
               /\ g = [x \in Fields |-> g[x]] /\ g.src = f.src /\ g.user = f.user /\ g.text = f.text
               /\ g.mixed = f.mixed
               /\ \/ g.pc = "finish" /\ f.next = Pieced(j)
                  \/ g.pc = "insert" /\ g.next = f.next + 1 /\ f.next # Pieced(j)
  BY <1>4
<1>6. Import(j)' /\ Past(j)'
  BY <1>2, <1>3, <1>5 DEF Import, Pieced, Past
<1>7. /\ row.src = f.src /\ row.user = f.user /\ row.index = f.next
      /\ row.piece = Library!Pieces(f.text)[f.next]
  OBVIOUS
<1> DEFINE rows == Library!RowsOf(f.src)
<1>8. \A s : s # f.src => Library!RowsOf(s)' = Library!RowsOf(s)
  <2> HIDE DEF row, f
  <2> QED  BY <1>1, <1>7 DEF Library!RowsOf
<1>9. Library!RowsOf(importing[j].src)' = rows \cup {row}
  <2>1. importing'[j].src = f.src
    BY <1>5
  <2> HIDE DEF row
  <2> QED  BY <1>1, <1>7, <2>1 DEF Library!RowsOf
<1>10. ~f.mixed => Carries(rows \cup {row}, f.text, f.next) /\ \A r \in rows \cup {row} : r.user = f.user
  <2> SUFFICES ASSUME ~f.mixed
               PROVE  Carries(rows \cup {row}, f.text, f.next) /\ \A r \in rows \cup {row} : r.user = f.user
    OBVIOUS
  <2>1. Carries(rows, f.text, f.next - 1) /\ \A r \in rows : r.user = f.user
    BY <1>1, <1>2 DEF LibraryInv, Progress
  <2> HIDE DEF row, rows, f
  <2>2. \A r \in rows : r.index \in 1 .. f.next - 1
    BY <2>1 DEF Carries
  <2>3. f.next \in Int /\ f.next >= 1 /\ \A r \in rows : r.index # row.index
    BY <1>3, <1>7, <2>2
  <2>4. {r.index : r \in rows \cup {row}} = 1 .. f.next
    <3>1. {r.index : r \in rows \cup {row}} = {r.index : r \in rows} \cup {f.next}
      BY <1>7
    <3>2. {r.index : r \in rows} = 1 .. f.next - 1
      BY <2>1 DEF Carries
    <3>3. (1 .. f.next - 1) \cup {f.next} = 1 .. f.next
      BY <2>3
    <3> QED  BY <3>1, <3>2, <3>3
  <2> QED  BY <1>7, <2>1, <2>3, <2>4 DEF Carries
<1>11. (IF g.pc = "insert" THEN g.next - 1 ELSE Pieced(j)) = f.next
  BY <1>3, <1>5
<1> HIDE DEF row, rows
<1> QED  BY <1>1, <1>2, <1>5, <1>6, <1>8, <1>9, <1>10, <1>11, HandKeeps

LEMMA FinishKeeps ==
  ASSUME LibraryInv, NEW j \in Library!Jobs, Library!Finish(j)
  PROVE  LibraryInv'
<1>0. PICK src, text : src = importing[j].src /\ text = importing[j].text
  OBVIOUS
<1>1. /\ Shapes /\ Meetings /\ importing[j].pc = "finish" /\ UNCHANGED << docs, raced, fixes, runs >>
      /\ meta' = [s \in DOMAIN meta \cup {src} |-> IF s = src THEN text ELSE meta[s]]
      /\ torn' = IF importing[j].mixed THEN torn \cup {src} ELSE torn \ {src}
      /\ Library!Done(j)
  BY <1>0 DEF LibraryInv, Library!Finish, Library!At
<1>2. Checked(j) /\ Past(j) /\ Library!Importing(j) /\ Import(j)
  BY <1>1, PcOfImport DEF Checked, Past
<1>3. importing' = [i \in Library!Jobs |-> IF i \in {j} THEN [pc |-> "idle"] ELSE importing[i]]
  BY <1>1 DEF Library!Done, Library!Idle, Shapes
<1>4. Shapes' /\ \A i \in Library!Jobs : importing'[i] = importing[i] \/ (i \in {j} /\ ~Library!Importing(i)')
  BY <1>1, <1>3, JobsAtRest
<1>5. importing'[j].pc = "idle" /\ \A i \in Library!Jobs : i # j => importing'[i] = importing[i]
  BY <1>3
<1>6. \A i \in Library!Jobs :
        /\ Library!Importing(i)' => i # j /\ importing'[i] = importing[i] /\ Library!Importing(i)
        /\ Checked(i)' => i # j /\ importing'[i] = importing[i] /\ Checked(i) /\ Library!Importing(i)
        /\ Past(i)' => i # j /\ importing'[i] = importing[i] /\ Past(i) /\ Library!Importing(i)
        /\ Past(i) => i = j \/ Past(i)'
  BY <1>1, <1>5, PcOfImport DEF Library!Importing, Checked, Past
<1>7. Meetings'
  BY <1>1, <1>6 DEF Meetings
<1>8. \A s : Library!RowsOf(s)' = Library!RowsOf(s)
  BY <1>1 DEF Library!RowsOf
<1>9. Progress'
  <2> SUFFICES ASSUME NEW i \in Library!Jobs, Past(i)', ~importing'[i].mixed
               PROVE  /\ Carries(Library!RowsOf(importing[i].src), importing[i].text,
                               IF importing[i].pc = "insert" THEN importing[i].next - 1 ELSE Pieced(i))
                      /\ \A r \in Library!RowsOf(importing[i].src) : r.user = importing[i].user
    BY <1>6, <1>8 DEF Progress, Pieced
  <2> QED  BY <1>6 DEF LibraryInv, Progress
<1>10. \A s : s # src => AsWas(s) /\ (Steady(s)' => Steady(s))
  <2> SUFFICES ASSUME NEW s, s # src
               PROVE  AsWas(s) /\ (Steady(s)' => Steady(s))
    OBVIOUS
  <2>1. AsWas(s)
    BY <1>1, <1>8 DEF AsWas
  <2>2. s \in torn => s \in torn'
    BY <1>1
  <2> QED  BY <1>0, <1>6, <2>1, <2>2 DEF Steady
<1>11. Steady(src)' => Stands(src)'
  <2> SUFFICES ASSUME Steady(src)'
               PROVE  Stands(src)'
    OBVIOUS
  <2>1. ~importing[j].mixed
    BY <1>1 DEF Steady
  <2>2. Carries(Library!RowsOf(src), text, Pieced(j))
    BY <1>0, <1>1, <1>2, <2>1 DEF LibraryInv, Progress
  <2>3. src \in DOMAIN meta' /\ meta'[src] = text
    BY <1>1
  <2> QED  BY <1>0, <1>8, <2>2, <2>3 DEF Stands, Pieced
<1>12. src \in DOMAIN meta' /\ meta'[src] = text
  BY <1>1
<1>13. StandsWhole'
  <2> SUFFICES ASSUME NEW s, Steady(s)'
               PROVE  Stands(s)'
    BY DEF StandsWhole
  <2>1. CASE s = src
    BY <1>11, <2>1
  <2>2. CASE s # src
    BY <1>10, <2>2, StandsAsWas DEF LibraryInv, StandsWhole
  <2> QED  BY <2>1, <2>2
<1>14. \A b \in DOMAIN meta' : b # src /\ Steady(b)' => b \in DOMAIN meta /\ Steady(b) /\ meta'[b] = meta[b]
  BY <1>10 DEF AsWas
<1>15. Twins'
  <2> SUFFICES ASSUME NEW i \in Library!Jobs, NEW b \in DOMAIN meta', Checked(i)', b # importing'[i].src,
                      Steady(b)', meta'[b] = importing'[i].text, Library!Plain(meta'[b])
               PROVE  meta'[b] \in raced
    BY <1>1 DEF Twins
  <2>1. CASE b = src
    BY <1>1, <1>2, <1>6, <1>12, <2>1, <1>0 DEF Meetings
  <2>2. CASE b # src
    BY <1>6, <1>14, <2>2 DEF LibraryInv, Twins
  <2> QED  BY <2>1, <2>2
<1>16. \A b \in DOMAIN meta' : b # src /\ Steady(b)' /\ meta'[b] = text /\ Library!Plain(meta'[b]) => meta'[b] \in raced
  BY <1>0, <1>2, <1>14 DEF LibraryInv, Twins
<1>17. OneName'
  <2> SUFFICES ASSUME NEW a \in DOMAIN meta', NEW b \in DOMAIN meta', a # b, Steady(a)', Steady(b)',
                      meta'[a] = meta'[b], Library!Plain(meta'[a])
               PROVE  meta'[a] \in raced
    BY <1>1 DEF OneName
  <2>1. CASE a = src \/ b = src
    BY <1>12, <1>16, <2>1
  <2>2. CASE a # src /\ b # src
    BY <1>14, <2>2 DEF LibraryInv, OneName
  <2> QED  BY <2>1, <2>2
<1>18. Texts'
  <2>1. IsText(text)
    BY <1>0, <1>2 DEF Import
  <2> QED  BY <1>1, <2>1 DEF LibraryInv, Texts
<1>19. fixes' \in List /\ runs' \in Seq(Goals)
  BY <1>1 DEF LibraryInv
<1> QED  BY <1>4, <1>7, <1>9, <1>13, <1>15, <1>17, <1>18, <1>19 DEF LibraryInv

LEMMA DeleteKeeps ==
  ASSUME LibraryConstants, LibraryInv, NEW u \in Readers, NEW src, Library!DeleteUserDocument(u, src)
  PROVE  LibraryInv'
<1> DEFINE own == {r \in Library!RowsOf(src) : r.user = u}
           rest == docs \ own
<1>1. /\ importing["loop"].pc = "idle" /\ UNCHANGED << importing, fixes, torn, raced, runs >>
      /\ docs' = rest
      /\ meta' = IF Library!Gone(rest, src) THEN Library!Restrict(meta, DOMAIN meta \ {src}) ELSE meta
      /\ u # Library!System
  BY DEF Library!DeleteUserDocument, Library!At, LibraryConstants
<1>2. /\ \A s : s # src => Library!RowsOf(s)' = Library!RowsOf(s)
      /\ Library!RowsOf(src)' = Library!RowsOf(src) \ own
  BY <1>1 DEF Library!RowsOf
<1>3. Library!Gone(rest, src) <=> Library!RowsOf(src)' = {}
  BY <1>1 DEF Library!Gone, Library!RowsOf
<1>4. /\ \A s \in DOMAIN meta' : s \in DOMAIN meta /\ meta'[s] = meta[s]
      /\ \A s \in DOMAIN meta : s # src => s \in DOMAIN meta'
      /\ Library!RowsOf(src)' = {} => src \notin DOMAIN meta'
      /\ Library!RowsOf(src)' # {} => meta' = meta
  BY <1>1, <1>3 DEF Library!Restrict
<1>5. /\ \A i \in Library!Jobs : /\ (Checked(i)' <=> Checked(i)) /\ (Past(i)' <=> Past(i))
                                 /\ Pieced(i)' = Pieced(i)
      /\ \A s : Steady(s)' <=> Steady(s)
  BY <1>1 DEF Checked, Past, Pieced, Steady
<1>6. Shapes' /\ Meetings'
  BY <1>1 DEF LibraryInv, Shapes, Import, Pieced, Meetings, Library!Importing
<1>7. ASSUME NEW i \in Library!Jobs, Past(i), ~importing[i].mixed
      PROVE  Library!RowsOf(importing[i].src)' = Library!RowsOf(importing[i].src)
  <2>1. importing[i].user = Library!System
    <3>1. i # "loop"
      BY <1>1, <1>7 DEF Past
    <3>2. Import(i)
      BY <1>7 DEF LibraryInv, Shapes, Past
    <3> QED  BY <3>1, <3>2 DEF Import
  <2>2. \A r \in Library!RowsOf(importing[i].src) : r.user # u
    BY <1>1, <1>7, <2>1 DEF LibraryInv, Progress
  <2> QED
    <3>1. PICK s : s = importing[i].src /\ importing'[i].src = s
      BY <1>1
    <3>2. CASE s = src
      BY <1>2, <2>2, <3>1, <3>2
    <3>3. CASE s # src
      BY <1>2, <3>1, <3>3
    <3> QED  BY <3>2, <3>3
<1>8. Progress'
  BY <1>1, <1>5, <1>7 DEF LibraryInv, Progress
<1>9. Steady(src) => AsWas(src) \/ (Library!RowsOf(src)' = {} /\ src \notin DOMAIN meta')
  <2> SUFFICES ASSUME Steady(src), Library!RowsOf(src)' # {}
               PROVE  AsWas(src)
    BY <1>4
  <2>1. Stands(src)
    BY DEF LibraryInv, StandsWhole
  <2>2. \A r, q \in Library!RowsOf(src) : r.user = q.user
    BY <2>1 DEF Stands, Carries
  <2>3. own = {}
    BY <1>2, <2>2
  <2> HIDE DEF own
  <2> QED  BY <1>2, <1>4, <2>3 DEF AsWas
<1>10. \A s : s # src => AsWas(s)
  BY <1>2, <1>4 DEF AsWas
<1>11. \A s : Steady(s)' => \/ AsWas(s) /\ Steady(s)
                            \/ Library!RowsOf(s)' = {} /\ s \notin DOMAIN meta'
  BY <1>5, <1>9, <1>10
<1>12. fixes' \in List /\ runs' \in Seq(Goals)
  BY <1>1 DEF LibraryInv
<1>13. \A i \in Library!Jobs : Checked(i)' =>
        /\ Checked(i) /\ importing'[i].src = importing[i].src /\ importing'[i].text = importing[i].text
  BY <1>1, <1>5
<1> HIDE DEF own, rest
<1> QED  BY <1>1, <1>4, <1>6, <1>8, <1>11, <1>12, <1>13, NamesStand

LEMMA LibraryStep ==
  ASSUME LibraryConstants, LibraryInv, [Library!Next]_Library!lvars
  PROVE  LibraryInv'
<1> USE DEF Library!Jobs
<1>1. CASE \E u \in Readers, k \in Ways, t \in Documents : Library!ImportMessage(u, k, t)
  BY <1>1, MessageKeeps
<1>2. CASE \E src \in Files, t \in Documents : Library!ImportFile(src, t)
  BY <1>2, FileKeeps
<1>3. ASSUME NEW j \in Library!Jobs,
             \/ Library!Check(j) \/ Library!Replace(j) \/ Library!Finish(j) \/ Library!Fail(j)
             \/ \E b \in BOOLEAN : Library!Insert(j, b)
      PROVE  LibraryInv'
  BY <1>3, CheckKeeps, ReplaceKeeps, FinishKeeps, FailKeeps, InsertKeeps
<1>4. CASE Library!AppendFixes
  BY <1>4, AppendKeeps
<1>5. CASE \E b \in BOOLEAN : Library!SyncStateDoc(b)
  BY <1>5, StateDocKeeps
<1>6. CASE \E u \in Readers : \E src \in Library!Names : Library!DeleteUserDocument(u, src)
  BY <1>6, DeleteKeeps
<1>7. CASE \E g \in Goals : Library!CompleteRun(g)
  <2>1. PICK g \in Goals : Library!CompleteRun(g)
    BY <1>7
  <2>2. runs' \in Seq(Goals)
    BY <2>1, AppendProperties DEF LibraryInv, Library!CompleteRun
  <2> QED  BY <2>1, <2>2, LibraryIdles DEF Library!CompleteRun
<1>8. CASE Library!Tick
  <2>1. runs' \in Seq(Goals)
    BY <1>8 DEF LibraryInv, Library!Tick
  <2> QED  BY <1>8, <2>1, LibraryIdles DEF Library!Tick
<1>9. CASE Library!Crash({"loop", "sync"}) \/ Library!Crash({"script"})
  <2>1. {"loop", "sync"} \in SUBSET Library!Jobs /\ {"script"} \in SUBSET Library!Jobs
    OBVIOUS
  <2> QED  BY <1>9, <2>1, CrashKeeps
<1>10. CASE UNCHANGED Library!lvars
  <2>1. runs' \in Seq(Goals)
    BY <1>10 DEF LibraryInv, Library!lvars
  <2> QED  BY <1>10, <2>1, LibraryIdles DEF Library!lvars
<1> QED  BY <1>1, <1>2, <1>3, <1>4, <1>5, <1>6, <1>7, <1>8, <1>9, <1>10 DEF Library!Next

\* Through imports that are refused, cut off and meet each other, replacements, deletions
\* by users, synchronisations of the state document and restarts: meta data and rows of a
\* name at rest tell the same; a text without headings is there under one name, unless two
\* imports checked for it at once; and the state document lists a goal once
\* (services/project_service.py, state_service.py).
THEOREM LibraryStaysWhole ==
  LibraryConstants =>
    (Library!Spec => []LibraryInOrder)
<1> SUFFICES ASSUME LibraryConstants
             PROVE  Library!Spec => []LibraryInOrder
  OBVIOUS
<1>1. Library!Init => LibraryInv
  BY LibraryOpens
<1>2. LibraryInv /\ [Library!Next]_Library!lvars => LibraryInv'
  BY LibraryStep
<1>3. LibraryInv => LibraryInOrder
  BY LibraryClaims DEF LibraryInOrder, Library!LibraryInOrder
<1> QED  BY <1>1, <1>2, <1>3, PTL DEF Library!Spec
=============================================================================
