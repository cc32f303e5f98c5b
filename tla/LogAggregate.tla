---------------------------- MODULE LogAggregate ----------------------------
(***************************************************************************)
(* LogOptimizationChecker.scan_directory and get_summary of               *)
(* scripts/check_log_optimization.py, with the Path Classifier            *)
(* (is_hot_path, is_test_file) and the part of check_file that wraps the  *)
(* line loop: the path classification, the read, and the `if stats.logs`  *)
(* return.  What the line loop finds in a file is that file's outcome,    *)
(* chosen at Init: Unreadable, or the levels of its findings in line      *)
(* order (the line loop itself is LogScan).                               *)
(*                                                                         *)
(* A path is the sequence of its '/'-separated segments.  Segments never  *)
(* contain '/', so a fragment test `pat in path` on the joined string is  *)
(* a test for a run of whole segments; a fragment starting (ending) with  *)
(* '/' needs a segment before (after) the run.  The fragments '/test_'    *)
(* and '_test.rs' match inside a segment: the segments they match are the *)
(* constants TestPrefixed and TestSuffixed.                               *)
(***************************************************************************)
EXTENDS Integers, Sequences, FiniteSets

CONSTANTS
  Levels,        \* the five log macro names
  Unreadable,    \* check_file's read raises
  Root,          \* the segments of --dir as str() prints them
  RootAbsolute,  \* --dir starts with '/'
  Tree,          \* the relative paths of the *.rs files rglob finds
  Outcomes,      \* the outcomes a file's line loop may have
  HotPatterns,   \* HOT_PATH_PATTERNS as [segs, lead, trail] fragments
  SkipPatterns,  \* the whole-segment entries of SKIP_PATTERNS
  TestPrefixed,  \* segments starting with 'test_'
  TestSuffixed   \* segments ending with '_test.rs'

ASSUME OutcomesAssumption == Outcomes \subseteq {Unreadable} \cup Seq(Levels)

\* rglob lists finitely many files; a path and the root are sequences of
\* segment names.
ASSUME TreeAssumption ==
  /\ IsFiniteSet(Tree) /\ Tree \subseteq Seq(STRING)
  /\ Root \in Seq(STRING) /\ RootAbsolute \in BOOLEAN

VARIABLES
  result,      \* what check_file's line loop finds in each file
  todo,        \* the paths of rust_files the for loop has still to visit
  files,       \* self.files: relative path -> FileStats
  total_logs,  \* self.total_logs
  pc           \* "scan" while scan_directory runs, then "done"

vars == <<result, todo, files, total_logs, pc>>

-----------------------------------------------------------------------------
(***************************************************************************)
(* The Path Classifier.                                                    *)
(***************************************************************************)

\* `pat in path`, for a fragment of whole segments.
PathHas(p, pat) ==
  \E k \in 1..Len(p) :
    LET last == k + Len(pat.segs) - 1 IN
    /\ last <= Len(p)
    /\ SubSeq(p, k, last) = pat.segs
    /\ pat.lead => k > 1
    /\ pat.trail => last < Len(p)

is_hot_path(p) == \E pat \in HotPatterns : PathHas(p, pat)

is_test_file(p) ==
  \/ \E pat \in SkipPatterns : PathHas(p, pat)
  \/ \E k \in 2..Len(p) : p[k] \in TestPrefixed     \* '/test_'
  \/ p[Len(p)] \in TestSuffixed                      \* '_test.rs'

\* str(file_path): the root's segments, then the path's.
FullPath(p) == Root \o p

\* Mutant: the test is made on the relative path.
InTargetRel(p) == \E k \in 2..(Len(p) - 1) : p[k] = "target"

\* '/target/' in str(file_path)
InTarget(p) ==
  \E k \in (IF RootAbsolute THEN 1 ELSE 2)..(Len(FullPath(p)) - 1) :
    FullPath(p)[k] = "target"

\* module = '/'.join(parts[:2]) if len(parts) >= 2 else parts[0]
ModuleKey(p) == IF Len(p) >= 2 THEN SubSeq(p, 1, 2) ELSE p

\* The FileStats check_file returns: every finding carries the file's
\* classification, computed once from its relative path.
Stats(p) ==
  [path |-> p,
   logs |-> [k \in 1..Len(result[p]) |->
               [level |-> result[p][k], hot |-> is_hot_path(p), test |-> is_test_file(p)]]]

-----------------------------------------------------------------------------
Init ==
  /\ result \in [Tree -> Outcomes]
  /\ todo = Tree
  /\ files = [p \in {} |-> {}]
  /\ total_logs = 0
  /\ pc = "scan"

\* Mutant: `break` instead of `continue`.
SkipTargetBreak ==
  \E p \in todo :
    /\ pc = "scan"
    /\ InTarget(p)
    /\ todo' = {}
    /\ UNCHANGED <<result, files, total_logs, pc>>

\* A path under a target directory is skipped (`continue`).
SkipTarget ==
  \E p \in todo :
    /\ pc = "scan"
    /\ InTarget(p)
    /\ todo' = todo \ {p}
    /\ UNCHANGED <<result, files, total_logs, pc>>

\* check_file returns None: the read failed or the file has no findings.
NoStats ==
  \E p \in todo :
    /\ pc = "scan"
    /\ ~InTarget(p)
    /\ result[p] \in {Unreadable, << >>}
    /\ todo' = todo \ {p}
    /\ UNCHANGED <<result, files, total_logs, pc>>

\* Mutant: the stats are stored under the file's name instead of its path.
StoreStatsByName ==
  \E p \in todo :
    /\ pc = "scan"
    /\ ~InTarget(p)
    /\ result[p] \notin {Unreadable, << >>}
    /\ todo' = todo \ {p}
    /\ LET key == <<p[Len(p)]>> IN
       files' = [q \in DOMAIN files \cup {key} |-> IF q = key THEN Stats(p) ELSE files[q]]
    /\ total_logs' = total_logs + Len(result[p])
    /\ UNCHANGED <<result, pc>>

\* Mutant: the path stays listed, so the walk may merge a file twice.
StoreStatsKeep ==
  \E p \in todo :
    /\ pc = "scan"
    /\ ~InTarget(p)
    /\ result[p] \notin {Unreadable, << >>}
    /\ todo' = todo
    /\ files' = [q \in DOMAIN files \cup {p} |-> IF q = p THEN Stats(p) ELSE files[q]]
    /\ total_logs' = total_logs + Len(result[p])
    /\ UNCHANGED <<result, pc>>

\* Mutant: the total counts files instead of findings.
StoreStatsFileCount ==
  \E p \in todo :
    /\ pc = "scan"
    /\ ~InTarget(p)
    /\ result[p] \notin {Unreadable, << >>}
    /\ todo' = todo \ {p}
    /\ files' = [q \in DOMAIN files \cup {p} |-> IF q = p THEN Stats(p) ELSE files[q]]
    /\ total_logs' = total_logs + 1
    /\ UNCHANGED <<result, pc>>

\* check_file returns its FileStats: self.files[stats.path] = stats and
\* self.total_logs += stats.count.
StoreStats ==
  \E p \in todo :
    /\ pc = "scan"
    /\ ~InTarget(p)
    /\ result[p] \notin {Unreadable, << >>}
    /\ todo' = todo \ {p}
    /\ files' = [q \in DOMAIN files \cup {p} |-> IF q = p THEN Stats(p) ELSE files[q]]
    /\ total_logs' = total_logs + Len(result[p])
    /\ UNCHANGED <<result, pc>>

\* scan_directory returns to main.
Finish ==
  /\ pc = "scan"
  /\ todo = {}
  /\ pc' = "done"
  /\ UNCHANGED <<result, todo, files, total_logs>>

Next == SkipTarget \/ NoStats \/ StoreStats \/ Finish

Spec == Init /\ [][Next]_vars

-----------------------------------------------------------------------------
(***************************************************************************)
(* get_summary.                                                            *)
(***************************************************************************)

\* Every finding of a map of FileStats, with its file's path.
FindingsOf(F) ==
  UNION {{[path |-> p, idx |-> k, level |-> F[p].logs[k].level,
           hot |-> F[p].logs[k].hot, test |-> F[p].logs[k].test] :
            k \in 1..Len(F[p].logs)} : p \in DOMAIN F}

CountBy(fs, key(_)) ==
  [x \in {key(f) : f \in fs} |-> Cardinality({f \in fs : key(f) = x})]

LevelOf(f) == f.level
ModuleOf(f) == ModuleKey(f.path)

\* The dictionary get_summary builds from a total, a file count and the
\* stored findings.
SummaryOf(total, nfiles, fs) ==
  LET test == Cardinality({f \in fs : f.test}) IN
  [total      |-> total,
   files      |-> nfiles,
   by_level   |-> CountBy(fs, LevelOf),
   by_module  |-> CountBy(fs, ModuleOf),
   hot_path   |-> Cardinality({f \in fs : f.hot}),
   test       |-> test,
   production |-> total - test]

get_summary == SummaryOf(total_logs, Cardinality(DOMAIN files), FindingsOf(files))

-----------------------------------------------------------------------------
(***************************************************************************)
(* What the spec says the summary is (sections 3, 4.6, 6, 7): the findings *)
(* of every readable file outside an excluded directory of the tree, each  *)
(* counted once, whatever the order of the files.                          *)
(***************************************************************************)
ExcludedDirs == {"target"}

\* The directories of test, example and benchmark code (spec section 4.5).
TestDirs == {"tests", "examples", "benches"}

Excluded(p) == \E k \in 1..(Len(p) - 1) : p[k] \in ExcludedDirs

SpecFiles == {p \in Tree : ~Excluded(p) /\ result[p] \notin {Unreadable, << >>}}

SpecSummary ==
  LET F == [p \in SpecFiles |-> Stats(p)] IN
  SummaryOf(Cardinality(FindingsOf(F)), Cardinality(SpecFiles), FindingsOf(F))

-----------------------------------------------------------------------------
(***************************************************************************)
(* scan_directory implements FindingsWalk.  A file contributes the         *)
(* findings of the FileStats check_file returns for it, and none when the  *)
(* loop skips it or check_file returns None; the visited files are those   *)
(* no longer in todo; the report is what self.files holds.                 *)
(***************************************************************************)
Contribution(p) ==
  IF ~InTarget(p) /\ result[p] \notin {Unreadable, << >>}
  THEN FindingsOf([q \in {p} |-> Stats(q)])
  ELSE {}

Walk == INSTANCE FindingsWalk WITH
          found <- [p \in Tree |-> Contribution(p)],
          visited <- Tree \ todo,
          report <- FindingsOf(files),
          total <- total_logs,
          done <- (pc = "done")

-----------------------------------------------------------------------------
(***************************************************************************)
(* Properties.                                                             *)
(***************************************************************************)

\* Every variable holds a value of its type.
TypeOK ==
  /\ result \in [Tree -> Outcomes]
  /\ todo \subseteq Tree
  /\ DOMAIN files \subseteq Tree
  /\ total_logs \in Nat
  /\ pc \in {"scan", "done"}

\* Spec section 3: after every merge the running total_logs equals the
\* number of findings held in self.files, the count get_summary's
\* by_level and by_module are built from (total = sum by_level).
TotalMatchesStored == total_logs = Cardinality(FindingsOf(files))

\* Spec section 6: no file under an excluded directory (target) is scanned.
NoExcludedScanned == \A p \in DOMAIN files : ~Excluded(p)

\* Spec sections 4.5 and 6: a finding of test, example or benchmark code,
\* a file under a directory tests/, examples/ or benches/ of the scanned
\* tree, is counted as test, at the top of the tree as well as deeper down
\* (is_test_file, "Check if file is test code").
TestTagged ==
  \A f \in FindingsOf(files) :
    (\E k \in 1..(Len(f.path) - 1) : f.path[k] \in TestDirs) => f.test

\* Spec sections 4.6 and 7: when scan_directory returns, get_summary is
\* the summary of the findings of every readable file outside the excluded
\* directories, whatever order rglob listed the files in.
CompleteSummary == pc = "done" => get_summary = SpecSummary

\* Spec sections 3 and 4.6: the walk visits each file once, in any order,
\* adds the findings of each file it keeps to self.files and their number
\* to total_logs, and returns only once every file is visited.
ImplementsFindingsWalk == Walk!Spec

=============================================================================
