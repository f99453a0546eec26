--------------------------- MODULE ProjectLibrary ---------------------------
(***************************************************************************)
(* The project library (services/project_service.py): documents cut into   *)
(* pieces, one row each, and one row of meta data per document.            *)
(*                                                                         *)
(* An import checks, deletes, inserts and signs off in transactions of its *)
(* own.  Three of them can be under way at once: that of a message, on the *)
(* event loop; that of the state document, in a thread (state_service.py); *)
(* and that of the script an administrator starts (import_project_docs.py).*)
(* A document imported by message is named after the second it came in.    *)
(***************************************************************************)
EXTENDS Integers, Sequences, FiniteSets, SequencesExt, Functions

CONSTANTS
  Users, Admins,   \* who imports by message; some into the project itself
  Kinds,           \* how: "chat", "admin" (into the project), "image"
  Documents,           \* what is imported, and
  Sections,        \*   its sections; a text without headings is its only one
  Like,            \* pairs of a text and a section that is nearly the same
  Files,           \* names the script imports; State is that of the state document
  State, Goals,    \* goals of completed runs, which the state document lists
  Newest,          \* how many of them it takes up at once
  MaxSeconds, MaxImports, MaxRuns, MaxFaults

VARIABLES
  docs,    \* project_docs: rows, told apart by who inserted them
  meta,    \* project_docs_meta: the text whose hash each name has
  job,     \* the import each of the three is at
  clock, imports,
  runs,    \* goals of the completed runs, in order
  fixes,   \* goals the state document lists
  torn,    \* history: names whose last import stopped halfway or met another
  raced,   \* history: texts two imports checked at once
  faults

lvars == << docs, meta, job, clock, imports, runs, fixes, torn, raced, faults >>

-----------------------------------------------------------------------------
(* Documents *)

Jobs == {"loop", "sync", "script"}
Second(k) == << k, clock >>
System == 0

\* The state document as a text: its head and its list of recent fixes
StateText(list) == << "state", list >>
Pieces(t) == IF t[1] = "state" THEN << << "head" >>, t >> ELSE Sections[t]
Plain(t) == Pieces(t) = << t >>

RowsOf(src) == {r \in docs : r.src = src}
Without(src) == docs \ RowsOf(src)

Idle == [pc |-> "idle"]
Importing(j) == job[j].pc \notin {"idle", "clear"}
At(j, pc) == job[j].pc = pc

\* What refuses an import: its name has this text, a row is it (whoever owns it), or it
\* has no section; or a row its user may read is nearly it, if both have an embedding.
Refused(f) ==
  \/ f.src \in DOMAIN meta /\ meta[f.src] = f.text
  \/ \E r \in docs : r.piece = f.text
  \/ Pieces(f.text) = << >>
NearlySame(f) ==
  \E r \in docs : r.emb /\ r.user \in {System, f.user} /\ << f.text, r.piece >> \in Like

-----------------------------------------------------------------------------
(* Imports *)

Importer(src, user, text) == [pc |-> "check", src |-> src, user |-> user, text |-> text, next |-> 1, mixed |-> FALSE]

\* j takes up f; whoever is at the same name or text is told apart.
Begin(j, f) ==
  LET same == {i \in Jobs \ {j} : Importing(i) /\ job[i].src = f.src}
      alike == {i \in Jobs \ {j} : Importing(i) /\ job[i].text = f.text}
  IN  /\ job' = [i \in Jobs |-> CASE i = j -> [f EXCEPT !.mixed = same # {}]
                                  [] i \in same -> [job[i] EXCEPT !.mixed = TRUE]
                                  [] OTHER -> job[i]]
      /\ raced' = IF alike = {} THEN raced ELSE raced \cup {f.text}

\* '*1', an inline prefix or an image: a name of this second.  The administrator's
\* go to the project.  The event loop is held until the import is over.
ImportMessage(u, k, t) ==
  /\ At("loop", "idle") /\ imports < MaxImports
  /\ k = "admin" => u \in Admins
  /\ Begin("loop", Importer(Second(k), IF k = "admin" THEN System ELSE u, t))
  /\ imports' = imports + 1
  /\ UNCHANGED << docs, meta, clock, runs, fixes, torn, faults >>

ImportFile(src, t) ==
  /\ At("script", "idle") /\ imports < MaxImports
  /\ Begin("script", Importer(src, System, IF src = State THEN StateText(fixes) ELSE t))
  /\ imports' = imports + 1
  /\ UNCHANGED << docs, meta, clock, runs, fixes, torn, faults >>

Goto(j, pc) == job' = [job EXCEPT ![j].pc = pc]
Done(j) == job' = [job EXCEPT ![j] = Idle]

\* Without an embedding of the text its likes are not looked for.
Check(j) ==
  /\ At(j, "check")
  /\ \/ (Refused(job[j]) \/ NearlySame(job[j])) /\ Done(j) /\ UNCHANGED faults
     \/ ~ Refused(job[j]) /\ ~ NearlySame(job[j]) /\ Goto(j, "replace") /\ UNCHANGED faults
     \/ ~ Refused(job[j]) /\ NearlySame(job[j]) /\ faults < MaxFaults
        /\ Goto(j, "replace") /\ faults' = faults + 1
  /\ UNCHANGED << docs, meta, clock, imports, runs, fixes, torn, raced >>

\* Everything of this name goes, whoever owns it.
Replace(j) ==
  /\ At(j, "replace")
  /\ docs' = Without(job[j].src)
  /\ Goto(j, "insert")
  /\ UNCHANGED << meta, clock, imports, runs, fixes, torn, raced, faults >>

\* A section whose embedding fails is stored without one.
Insert(j, emb) ==
  LET f == job[j] IN
  /\ At(j, "insert") /\ (emb \/ faults < MaxFaults)
  /\ docs' = docs \cup {[src |-> f.src, user |-> f.user, index |-> f.next,
                         piece |-> Pieces(f.text)[f.next], emb |-> emb, by |-> j]}
  /\ IF f.next = Len(Pieces(f.text))
       THEN Goto(j, "finish")
       ELSE job' = [job EXCEPT ![j].next = @ + 1]
  /\ faults' = faults + (IF emb THEN 0 ELSE 1)
  /\ UNCHANGED << meta, clock, imports, runs, fixes, torn, raced >>

Finish(j) ==
  /\ At(j, "finish")
  /\ meta' = [src \in DOMAIN meta \cup {job[j].src} |->
                IF src = job[j].src THEN job[j].text ELSE meta[src]]
  /\ torn' = IF job[j].mixed THEN torn \cup {job[j].src} ELSE torn \ {job[j].src}
  /\ Done(j)
  /\ UNCHANGED << docs, clock, imports, runs, fixes, raced, faults >>

\* A name whose import of j stops here is torn once its old rows are gone.
Cut(S) == torn \cup {job[j].src : j \in {i \in S : job[i].pc \in {"insert", "finish"}}}

\* A transaction fails: the import ends with the exception, which its caller reports.
Fail(j) ==
  /\ job[j].pc \in {"replace", "insert", "finish"} /\ faults < MaxFaults
  /\ Done(j)
  /\ torn' = Cut({j})
  /\ faults' = faults + 1
  /\ UNCHANGED << docs, meta, clock, imports, runs, fixes, raced >>

-----------------------------------------------------------------------------
(* The state document *)

\* A goal is listed unless the section has it, also from this very pass.
ListGoal(list, g) == IF g \in ToSet(list) THEN list ELSE Append(list, g)

\* The newest completed runs, newest first
Recent == SubSeq(Reverse(runs), 1, IF Len(runs) < Newest THEN Len(runs) ELSE Newest)

Listed == FoldLeft(ListGoal, fixes, Recent)

\* periodic_state_sync, once a day: the list is brought up to date, ...
AppendFixes ==
  /\ At("sync", "idle") /\ imports < MaxImports
  /\ fixes' = Listed
  /\ Goto("sync", "clear")
  /\ imports' = imports + 1
  /\ UNCHANGED << docs, meta, clock, runs, torn, raced, faults >>

\* ... all of the old document is deleted and the new one imported.  If the deletion
\* fails the import goes on.
SyncStateDoc(clears) ==
  /\ At("sync", "clear") /\ (clears \/ faults < MaxFaults)
  /\ IF clears
       THEN /\ docs' = Without(State)
            /\ meta' = Restrict(meta, DOMAIN meta \ {State})
            /\ torn' = torn \ {State}
            /\ UNCHANGED faults
       ELSE faults' = faults + 1 /\ UNCHANGED << docs, meta, torn >>
  /\ Begin("sync", Importer(State, System, StateText(fixes)))
  /\ UNCHANGED << clock, imports, runs, fixes >>

-----------------------------------------------------------------------------
(* Everything else *)

\* Mutant of Gone: meta data stay behind.
GoneNever(rows, src) == FALSE

\* No row of this name is left.
Gone(rows, src) == \A r \in rows : r.src # src

\* DELETE /knowledge/my-docs: a user's own rows, and the meta data of a name without any.
DeleteUserDocument(u, src) ==
  LET rest == docs \ {r \in RowsOf(src) : r.user = u} IN
  /\ At("loop", "idle")
  /\ rest # docs \/ (src \in DOMAIN meta /\ Gone(rest, src))
  /\ docs' = rest
  /\ meta' = IF Gone(rest, src) THEN Restrict(meta, DOMAIN meta \ {src}) ELSE meta
  /\ UNCHANGED << job, clock, imports, runs, fixes, torn, raced, faults >>

CompleteRun(g) ==
  /\ Len(runs) < MaxRuns
  /\ runs' = Append(runs, g)
  /\ UNCHANGED << docs, meta, job, clock, imports, fixes, torn, raced, faults >>

Tick ==
  /\ clock < MaxSeconds
  /\ clock' = clock + 1
  /\ UNCHANGED << docs, meta, job, imports, runs, fixes, torn, raced, faults >>

\* The server stops and starts, or the script does.
Crash(S) ==
  /\ faults < MaxFaults /\ \E j \in S : job[j] # Idle
  /\ job' = [j \in Jobs |-> IF j \in S THEN Idle ELSE job[j]]
  /\ torn' = Cut(S)
  /\ faults' = faults + 1
  /\ UNCHANGED << docs, meta, clock, imports, runs, fixes, raced >>

Names == DOMAIN meta \cup {r.src : r \in docs}

Init ==
  /\ docs = {} /\ meta = << >>
  /\ job = [j \in Jobs |-> Idle]
  /\ clock = 0 /\ imports = 0 /\ faults = 0
  /\ runs = << >> /\ fixes = << >>
  /\ torn = {} /\ raced = {}

Next ==
  \/ \E u \in Users, k \in Kinds, t \in Documents : ImportMessage(u, k, t)
  \/ \E src \in Files, t \in Documents : ImportFile(src, t)
  \/ \E j \in Jobs : Check(j) \/ Replace(j) \/ Finish(j) \/ Fail(j) \/ \E b \in BOOLEAN : Insert(j, b)
  \/ AppendFixes
  \/ \E b \in BOOLEAN : SyncStateDoc(b)
  \/ \E u \in Users : \E src \in Names : DeleteUserDocument(u, src)
  \/ \E g \in Goals : CompleteRun(g)
  \/ Tick
  \/ Crash({"loop", "sync"}) \/ Crash({"script"})

Spec == Init /\ [][Next]_lvars

-----------------------------------------------------------------------------
(* Properties *)

\* No import of the name is under way, and its last neither stopped halfway nor met another.
Settled(src) == src \notin torn /\ \A j \in Jobs : Importing(j) => job[j].src # src

\* A signed-off name has every section of its text once, at its index, from one importer;
\* any other name has no row.
Whole(src) ==
  IF src \in DOMAIN meta
    THEN /\ {r.index : r \in RowsOf(src)} = DOMAIN Pieces(meta[src])
         /\ \A r \in RowsOf(src) : r.piece = Pieces(meta[src])[r.index]
         /\ \A r, q \in RowsOf(src) : r.user = q.user /\ (r.index = q.index => r = q)
    ELSE RowsOf(src) = {}

\* Meta data and rows tell the same through deletions, replacements, refusals and
\* synchronisations, except while a name is being imported and after an import of it
\* stopped halfway or met another.
LibraryIsWhole == \A src \in Names : Settled(src) => Whole(src)

\* A text without headings is in the library under one name only, whoever imported it,
\* unless two imports checked for it at the same time.
TextOnce ==
  \A a, b \in DOMAIN meta :
    a # b /\ Settled(a) /\ Settled(b) /\ meta[a] = meta[b] /\ Plain(meta[a]) => meta[a] \in raced

\* The state document lists a goal once, though several runs had it.
FixesListedOnce == IsInjective(fixes)

\* The library and the state document keep one of everything, whole.
LibraryInOrder == LibraryIsWhole /\ TextOnce /\ FixesListedOnce
=============================================================================
