------------------------------ MODULE MCEconomy ------------------------------
(* What the services keep for users: money that is transferred, orders of the  *)
(* market, pets and their base, the project library, files that tools patch,   *)
(* memories and patterns, the page on which they read a group, a task whose    *)
(* steps two executors report on.  The parts share no state; the initial state *)
(* chooses which moves.                                                        *)
EXTENDS Transfers, FilePatch, Experience, EconomyParts, PageParts, TLC

CONSTANTS u1, u2, g1, g2, t1, t2, t3, c1, k1, r1, NoRun

VARIABLES
  part,
  pend, obj, row, run, balance, signals, frame, request, boot, restarts, replans   \* the swarm

swarmVars == << pend, obj, row, run, balance, signals, frame, request, boot, restarts, replans >>

\* Two calls on a file of two lines
TwoLines == << [by |-> "first", is |-> "fine"], [by |-> "second", is |-> "fine"] >>
SomeCalls == {<< "anchor", "broken" >>, << "anchor", "undefined" >>, << "snippet", "fine" >>,
              << "overwrite", "fine" >>, << "create", "broken" >>, << "range", "broken" >>,
              << "copy", "fine" >>}
MCSymmetry == Permutations({t1, t2}) \cup Permutations({g1, g2})

TwoUsers == {u1, u2}
ThreeTxs == 1 .. 3
SomeAmounts == {-1, 0, 1, 2}

\* Two pets of two camps, one facility, three hours of which two are paid at most
OutputOf == "home" :> "stone"
UpgradeWith == "home" :> "sun"
CaptainsOf == "home" :> {"plant"}
SlotsByRank == << 1, 2 >>
SomeMeals == {-1, 1}

\* Two users with the means for one or two orders of three
TwoTraders == {u1, u2}

\* Documents: a line, a text of which it is the second section, and one that is only a
\* heading.  Two imports, by message or script, of one second or two, a run completed
\* twice, one failure or crash
Memo == << "line", "a note" >>
Parts == << "parts", "a report" >>
Bare == << "line", "a heading" >>
SomeDocuments == {Memo, Parts, Bare}
SectionsOf == Memo :> << Memo >> @@ Parts :> << << "head" >>, Memo >> @@ Bare :> << >>
NearlyAlike == {<< Memo, Memo >>, << Parts, Memo >>}
StateFile == << "state", 0 >>
SomeFiles == {StateFile, << "file", 0 >>}

\* Two groups opened twice or loaded again, over two connections, and one text; or two
\* texts in one group, of which a load returns the older, over one connection.
TwoGroups == {g1, g2}
OneText == Len(said') <= 1
OneGroup ==
  /\ Len(socks') <= 1 /\ loads' <= 1 /\ asked'[3] = Page!Idle
  /\ Cardinality({g \in Groups : g = cur' \/ store'[g] # << >>}) <= 1

\* A text as memory of little worth and as a task's result, and a state of a task
Fact == [what |-> "text", type |-> "fact", task |-> 0, low |-> TRUE, ends |-> FALSE]
Done == [what |-> "text", type |-> "task_result", task |-> 0, low |-> TRUE, ends |-> TRUE]
Standing == [what |-> "state", type |-> "task_state", task |-> 1, low |-> FALSE, ends |-> FALSE]

SomeNotes == {Fact, Done, Standing}

\* A task in the background executor's hands that a client executor reports on as well
Reports == INSTANCE SwarmProperties WITH
  Tasks <- {t3}, Convs <- {c1}, Runs <- {}, Requests <- {r1}, Clients <- {k1},
  Plans <- {<< 1 >>, << 1, 2 >>}, WorkerOutcomes <- {{"ok"}, {"fail"}},
  ClientOutcomes <- {{"ok"}, {"fail"}, {"blocked"}}, MaxRetry <- 2, MaxConcurrent <- 1,
  MaxRounds <- 4, CreditsPerRound <- 2, BudgetStop <- 4, LoopWindow <- 3, NoProgressWindow <- 5,
  InitBalance <- 3, StorageFaults <- FALSE, RoundCap <- 6, MaxRestarts <- 0

PartsInit ==
  /\ part \in {"transfers", "both", "cut", "base", "market", "library", "memories", "patterns",
              "group", "texts", "reports"}
  /\ Init /\ Camp!Init /\ Orders!Init /\ Library!Init /\ PatchInit /\ ExperienceInit /\ Page!Init /\ Reports!Init
  /\ part \notin {"both", "cut"} => kind = "doc" /\ file.there

\* Calls of two tasks meet, or one is hit by a fault.  Memories and patterns have no
\* state in common but the clean-up.
PartsNext ==
  \/ part = "transfers" /\ Next
     /\ UNCHANGED << part, pvars, petVars, marketVars, libraryVars, xvars, groupVars, swarmVars >>
  \/ part = "both" /\ PatchNext
     /\ UNCHANGED << part, faults, tvars, petVars, marketVars, libraryVars, xvars, groupVars, swarmVars >>
  \/ part = "cut" /\ PatchNext /\ job'[t2] = job[t2]
     /\ UNCHANGED << part, tvars, petVars, marketVars, libraryVars, xvars, groupVars, swarmVars >>
  \/ part = "base" /\ Camp!Next
     /\ UNCHANGED << part, tvars, pvars, marketVars, libraryVars, xvars, groupVars, swarmVars >>
  \/ part = "market" /\ Orders!Next
     /\ UNCHANGED << part, tvars, pvars, petVars, libraryVars, xvars, groupVars, swarmVars >>
  \/ part = "library" /\ Library!Next
     /\ UNCHANGED << part, tvars, pvars, petVars, marketVars, xvars, groupVars, swarmVars >>
  \/ part = "memories" /\ ExperienceNext
     /\ UNCHANGED << part, pattern, records, tvars, pvars, petVars, marketVars, libraryVars, groupVars, swarmVars >>
  \/ part = "patterns" /\ ExperienceNext
     /\ UNCHANGED << part, memory, tvars, pvars, petVars, marketVars, libraryVars, groupVars, swarmVars >>
  \/ part = "group" /\ Page!Next /\ OneText
     /\ UNCHANGED << part, tvars, pvars, petVars, marketVars, libraryVars, xvars, swarmVars >>
  \/ part = "texts" /\ Page!Next /\ OneGroup
     /\ UNCHANGED << part, tvars, pvars, petVars, marketVars, libraryVars, xvars, swarmVars >>
  \/ part = "reports" /\ Reports!Next
     /\ UNCHANGED << part, tvars, pvars, petVars, marketVars, libraryVars, xvars, groupVars >>

PartsSpec ==
  PartsInit /\ [][PartsNext]_<< part, tvars, pvars, petVars, marketVars, libraryVars, xvars, groupVars, swarmVars >>

\* A client's reports leave the task in memory and its row in agreement and
\* grant no retry beyond the limit.
ReportsKeepRows == part = "reports" => Reports!StoreMatchesMemory /\ Reports!ReplanLimit
=============================================================================
