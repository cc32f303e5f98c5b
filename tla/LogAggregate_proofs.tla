------------------------- MODULE LogAggregate_proofs -------------------------
(***************************************************************************)
(* Proofs about scan_directory and get_summary for every finite tree and   *)
(* every outcome of the line loop in each file.                            *)
(***************************************************************************)
EXTENDS LogAggregate, FiniteSetTheorems, SequenceTheorems, TLAPS

\* The files the loop has visited and kept: outside target/, readable and
\* with at least one finding.
Kept(S) == {p \in S : ~InTarget(p) /\ result[p] \notin {Unreadable, << >>}}

(***************************************************************************)
(* The inductive invariant.  TotalMatchesStored alone is not inductive: a  *)
(* merge adds Len(result[p]) findings only if p was not stored before (the *)
(* visited paths are disjoint from todo) and if what is stored under each  *)
(* path is that path's Stats.                                              *)
(***************************************************************************)
StoreInv ==
  /\ TypeOK
  /\ files = [q \in DOMAIN files |-> files[q]]
  /\ \A q \in DOMAIN files : files[q] = Stats(q)
  /\ DOMAIN files = Kept(Tree \ todo)
  /\ pc = "done" => todo = {}
  /\ IsFiniteSet(FindingsOf(files))
  /\ TotalMatchesStored

\* The findings get_summary counts for one stored path.
PathFindings(F, p) ==
  {[path |-> p, idx |-> k, level |-> F[p].logs[k].level,
    hot |-> F[p].logs[k].hot, test |-> F[p].logs[k].test] :
     k \in 1..Len(F[p].logs)}

LEMMA FindingsOfPaths ==
  ASSUME NEW F
  PROVE  FindingsOf(F) = UNION {PathFindings(F, p) : p \in DOMAIN F}
BY DEF FindingsOf, PathFindings

\* Storing a new path adds that path's findings, disjoint from the others.
LEMMA MergeFindings ==
  ASSUME NEW F, NEW G, NEW p, p \notin DOMAIN F,
         DOMAIN G = DOMAIN F \cup {p},
         \A q \in DOMAIN F : G[q] = F[q]
  PROVE  /\ FindingsOf(G) = FindingsOf(F) \cup PathFindings(G, p)
         /\ FindingsOf(F) \cap PathFindings(G, p) = {}
<1>1. \A q \in DOMAIN F : PathFindings(G, q) = PathFindings(F, q)
  BY DEF PathFindings
<1>2. FindingsOf(G) = FindingsOf(F) \cup PathFindings(G, p)
  BY <1>1, FindingsOfPaths
<1>3. \A f \in FindingsOf(F) : f.path \in DOMAIN F
  BY DEF FindingsOf
<1>4. \A f \in PathFindings(G, p) : f.path = p
  BY DEF PathFindings
<1>. QED
  BY <1>2, <1>3, <1>4

\* A path with n findings contributes n findings: idx tells them apart.
LEMMA PathFindingsCard ==
  ASSUME NEW G, NEW p, NEW n \in Nat, DOMAIN G[p].logs = 1..n, Len(G[p].logs) = n
  PROVE  /\ IsFiniteSet(PathFindings(G, p))
         /\ Cardinality(PathFindings(G, p)) = n
<1> DEFINE rec(k) == [path |-> p, idx |-> k, level |-> G[p].logs[k].level,
                      hot |-> G[p].logs[k].hot, test |-> G[p].logs[k].test]
           T == PathFindings(G, p)
           f == [k \in 1..n |-> rec(k)]
<1>1. T = {rec(k) : k \in 1..n}
  BY DEF PathFindings
<1>2. f \in Bijection(1..n, T)
  <2>1. f \in [1..n -> T]
    BY <1>1
  <2>2. IsInjective(f)
    BY DEF IsInjective
  <2>3. \A t \in T : \E k \in 1..n : f[k] = t
    BY <1>1
  <2>. QED
    BY <2>1, <2>2, <2>3 DEF Bijection, Injection, Surjection
<1>3. IsFiniteSet(1..n) /\ Cardinality(1..n) = n
  BY FS_Interval
<1>. QED
  BY <1>2, <1>3, FS_Bijection DEF ExistsBijection

LEMMA StoreInvInit == Init => StoreInv
<1> SUFFICES ASSUME Init PROVE StoreInv
  OBVIOUS
<1>1. DOMAIN files = {} /\ Tree \ todo = {}
  BY DEF Init
<1>2. FindingsOf(files) = {}
  BY <1>1 DEF FindingsOf
<1>3. IsFiniteSet(FindingsOf(files)) /\ Cardinality(FindingsOf(files)) = 0
  BY <1>2, FS_EmptySet
<1>4. DOMAIN files = Kept(Tree \ todo)
  BY <1>1 DEF Kept
<1>. QED
  BY <1>1, <1>3, <1>4 DEF Init, StoreInv, TypeOK, TotalMatchesStored

\* Stats does not change, for result never does.
LEMMA StatsUnchanged ==
  ASSUME NEW q, result' = result
  PROVE  Stats(q)' = Stats(q)
BY DEF Stats

\* A path the loop visits without storing it.
LEMMA SkipStep ==
  ASSUME StoreInv, NEW p \in todo, pc = "scan", todo' = todo \ {p},
         UNCHANGED <<result, files, total_logs, pc>>,
         InTarget(p) \/ result[p] \in {Unreadable, << >>}
  PROVE  StoreInv'
<1>1. Kept(Tree \ todo') = Kept(Tree \ todo)
  BY DEF Kept
<1>2. \A q \in DOMAIN files : Stats(q)' = Stats(q)
  BY StatsUnchanged
<1>. QED
  BY <1>1, <1>2 DEF StoreInv, TypeOK, TotalMatchesStored, Kept

\* check_file's FileStats is merged.
LEMMA StoreStep == StoreInv /\ StoreStats => StoreInv'
<1> SUFFICES ASSUME StoreInv, NEW p \in todo, pc = "scan", ~InTarget(p),
                    result[p] \notin {Unreadable, << >>},
                    todo' = todo \ {p},
                    files' = [q \in DOMAIN files \cup {p} |-> IF q = p THEN Stats(p) ELSE files[q]],
                    total_logs' = total_logs + Len(result[p]),
                    UNCHANGED <<result, pc>>
             PROVE  StoreInv'
  BY DEF StoreStats
<1> DEFINE n == Len(result[p])
<1>1. p \in Tree /\ result[p] \in Seq(Levels) /\ n \in Nat
  BY OutcomesAssumption DEF StoreInv, TypeOK
<1>2. p \notin DOMAIN files
  BY DEF StoreInv, Kept
<1>3. DOMAIN files' = DOMAIN files \cup {p} /\ \A q \in DOMAIN files : files'[q] = files[q]
  BY <1>2
<1>4. DOMAIN files'[p].logs = 1..n /\ Len(files'[p].logs) = n
  BY <1>1 DEF Stats
<1>5. /\ FindingsOf(files') = FindingsOf(files) \cup PathFindings(files', p)
      /\ FindingsOf(files) \cap PathFindings(files', p) = {}
  BY <1>2, <1>3, MergeFindings
<1>6. IsFiniteSet(PathFindings(files', p)) /\ Cardinality(PathFindings(files', p)) = n
  BY <1>1, <1>4, PathFindingsCard
<1>7. /\ IsFiniteSet(FindingsOf(files'))
      /\ Cardinality(FindingsOf(files')) = Cardinality(FindingsOf(files)) + n
  <2>1. IsFiniteSet(FindingsOf(files)) /\ Cardinality(FindingsOf(files)) \in Nat
    BY FS_CardinalityType DEF StoreInv
  <2>2. Cardinality({}) = 0
    BY FS_EmptySet
  <2> DEFINE A == FindingsOf(files)
             B == PathFindings(files', p)
  <2>3. IsFiniteSet(A \cup B)
        /\ Cardinality(A \cup B) = Cardinality(A) + Cardinality(B) - Cardinality(A \cap B)
    BY <1>6, <2>1, FS_Union
  <2>4. Cardinality(A \cap B) = 0
    BY <1>5, <2>2
  <2>5. FindingsOf(files') = A \cup B
    BY <1>5
  <2>6. IsFiniteSet(A \cup B) /\ Cardinality(A \cup B) = Cardinality(A) + n
    BY <1>6, <2>1, <2>3, <2>4
  <2>. QED
    BY <2>5, <2>6, Zenon
<1>8. TotalMatchesStored'
  BY <1>7 DEF StoreInv, TotalMatchesStored
<1>9. \A q \in DOMAIN files' : files'[q] = Stats(q)'
  BY <1>3, StatsUnchanged DEF StoreInv
<1>10. (DOMAIN files = Kept(Tree \ todo))'
  BY <1>1, <1>3 DEF StoreInv, Kept
<1>11. TypeOK'
  <2>1. result' \in [Tree -> Outcomes] /\ pc' \in {"scan", "done"}
    BY DEF StoreInv, TypeOK
  <2>2. todo' \subseteq Tree /\ DOMAIN files' \subseteq Tree
    BY <1>1, <1>3 DEF StoreInv, TypeOK
  <2>3. total_logs' \in Nat
    BY <1>1 DEF StoreInv, TypeOK
  <2>. QED
    BY <2>1, <2>2, <2>3 DEF TypeOK
<1>12. pc' = "done" => todo' = {}
  OBVIOUS
<1>14. files' = [q \in DOMAIN files' |-> files'[q]]
  OBVIOUS
<1>13. (IsFiniteSet(FindingsOf(files)))'
  BY <1>7 DEF FindingsOf
<1>. QED
  BY <1>8, <1>9, <1>10, <1>11, <1>12, <1>13, <1>14 DEF StoreInv

LEMMA StoreInvStep == StoreInv /\ [Next]_vars => StoreInv'
<1> SUFFICES ASSUME StoreInv, [Next]_vars PROVE StoreInv'
  OBVIOUS
<1>1. CASE SkipTarget
  BY <1>1, SkipStep DEF SkipTarget
<1>2. CASE NoStats
  BY <1>2, SkipStep DEF NoStats
<1>3. CASE StoreStats
  BY <1>3, StoreStep
<1>4. CASE Finish
  <2>1. \A q \in DOMAIN files : Stats(q)' = Stats(q)
    BY <1>4, StatsUnchanged DEF Finish
  <2>. QED
    BY <1>4, <2>1 DEF Finish, StoreInv, TypeOK, TotalMatchesStored, Kept
<1>5. CASE UNCHANGED vars
  <2>1. \A q \in DOMAIN files : Stats(q)' = Stats(q)
    BY <1>5, StatsUnchanged DEF vars
  <2>. QED
    BY <1>5, <2>1 DEF vars, StoreInv, TypeOK, TotalMatchesStored, Kept
<1>. QED
  BY <1>1, <1>2, <1>3, <1>4, <1>5 DEF Next

\* scan_directory keeps total_logs equal to the number of findings stored
\* in self.files, for every finite tree and every outcome of every file
\* (TotalMatchesStored).
THEOREM TotalMatchesStoredThm == Spec => []TotalMatchesStored
<1>1. StoreInv => TotalMatchesStored
  BY DEF StoreInv
<1>. QED
  BY <1>1, StoreInvInit, StoreInvStep, PTL DEF Spec

\* Every variable of scan_directory keeps its type.
THEOREM TypeCorrect == Spec => []TypeOK
<1>1. StoreInv => TypeOK
  BY DEF StoreInv
<1>. QED
  BY <1>1, StoreInvInit, StoreInvStep, PTL DEF Spec

-----------------------------------------------------------------------------
(***************************************************************************)
(* The '/target/' test against the spec's excluded directories.           *)
(***************************************************************************)

\* With an absolute --dir, a path with a target directory of its own has
\* '/target/' in its full path.
LEMMA ExcludedIsInTarget ==
  ASSUME RootAbsolute, NEW p \in Seq(STRING), Excluded(p)
  PROVE  InTarget(p)
<1> PICK k \in 1..(Len(p) - 1) : p[k] \in ExcludedDirs
  BY DEF Excluded
<1>1. Root \in Seq(STRING) /\ Len(Root) \in Nat
  BY TreeAssumption
<1>2. Len(FullPath(p)) = Len(Root) + Len(p)
      /\ FullPath(p)[Len(Root) + k] = p[k]
  BY <1>1 DEF FullPath
<1>. QED
  BY <1>1, <1>2 DEF InTarget, ExcludedDirs

\* With an absolute --dir that lies under no directory named target,
\* '/target/' in the full path means a target directory of the tree.
LEMMA InTargetIsExcluded ==
  ASSUME RootAbsolute, \A k \in 1..Len(Root) : Root[k] # "target",
         NEW p \in Seq(STRING), InTarget(p)
  PROVE  Excluded(p)
<1>1. Root \in Seq(STRING) /\ Len(Root) \in Nat
  BY TreeAssumption
<1> PICK k \in 1..(Len(FullPath(p)) - 1) : FullPath(p)[k] = "target"
  BY DEF InTarget
<1>2. Len(FullPath(p)) = Len(Root) + Len(p)
  BY <1>1 DEF FullPath
<1>3. k > Len(Root)
  BY <1>1, <1>2 DEF FullPath
<1>4. FullPath(p)[k] = p[k - Len(Root)]
  BY <1>1, <1>2, <1>3 DEF FullPath
<1>. QED
  BY <1>1, <1>2, <1>3, <1>4 DEF Excluded, ExcludedDirs

\* With an absolute --dir, no file under a target directory of the tree is
\* ever stored (NoExcludedScanned).  The aggregate_dot run shows the
\* hypothesis is needed: with the default --dir . it fails.
THEOREM NoExcludedScannedThm ==
  ASSUME RootAbsolute
  PROVE  Spec => []NoExcludedScanned
<1>1. StoreInv => NoExcludedScanned
  <2> SUFFICES ASSUME StoreInv, NEW p \in DOMAIN files PROVE ~Excluded(p)
    BY DEF NoExcludedScanned
  <2>1. p \in Tree /\ ~InTarget(p)
    BY DEF StoreInv, Kept
  <2>2. p \in Seq(STRING)
    BY <2>1, TreeAssumption
  <2>. QED
    BY <2>1, <2>2, ExcludedIsInTarget
<1>. QED
  BY <1>1, StoreInvInit, StoreInvStep, PTL DEF Spec

\* With an absolute --dir under no directory named target, the summary
\* main prints when scan_directory returns is the spec's summary of every
\* readable file outside the tree's target directories, whatever order
\* rglob lists the files in (CompleteSummary).  aggregate_dot and the
\* root under /srv/target show that each hypothesis is needed.
THEOREM CompleteSummaryThm ==
  ASSUME RootAbsolute, \A k \in 1..Len(Root) : Root[k] # "target"
  PROVE  Spec => []CompleteSummary
<1>1. StoreInv => CompleteSummary
  <2> SUFFICES ASSUME StoreInv, pc = "done" PROVE get_summary = SpecSummary
    BY DEF CompleteSummary
  <2>1. todo = {}
    BY DEF StoreInv
  <2>2. \A p \in Tree : InTarget(p) <=> Excluded(p)
    BY TreeAssumption, ExcludedIsInTarget, InTargetIsExcluded
  <2>3. DOMAIN files = SpecFiles
    BY <2>1, <2>2 DEF StoreInv, Kept, SpecFiles
  <2>4. files = [p \in SpecFiles |-> Stats(p)]
    BY <2>3 DEF StoreInv
  <2>5. total_logs = Cardinality(FindingsOf(files))
    BY DEF StoreInv, TotalMatchesStored
  <2>. QED
    BY <2>3, <2>4, <2>5 DEF get_summary, SpecSummary
<1>. QED
  BY <1>1, StoreInvInit, StoreInvStep, PTL DEF Spec

-----------------------------------------------------------------------------
(***************************************************************************)
(* The refinement of FindingsWalk.                                         *)
(***************************************************************************)

\* The findings of a path depend only on what is stored under it.
LEMMA PathFindingsAt ==
  ASSUME NEW G, NEW H, NEW p, G[p] = H[p]
  PROVE  PathFindings(G, p) = PathFindings(H, p)
BY DEF PathFindings

\* A kept file contributes the findings of its FileStats, as many as the
\* line loop found.
LEMMA ContributionKept ==
  ASSUME TypeOK, NEW p \in Tree, ~InTarget(p), result[p] \notin {Unreadable, << >>}
  PROVE  /\ Contribution(p) = PathFindings([q \in {p} |-> Stats(q)], p)
         /\ IsFiniteSet(Contribution(p))
         /\ Cardinality(Contribution(p)) = Len(result[p])
<1> DEFINE S == [q \in {p} |-> Stats(q)]
           n == Len(result[p])
<1>1. Contribution(p) = PathFindings(S, p)
  <2>1. FindingsOf(S) = UNION {PathFindings(S, q) : q \in {p}}
    BY FindingsOfPaths
  <2>. QED
    BY <2>1 DEF Contribution
<1>2. result[p] \in Seq(Levels) /\ n \in Nat
  BY OutcomesAssumption DEF TypeOK
<1>3. DOMAIN S[p].logs = 1..n /\ Len(S[p].logs) = n
  BY <1>2 DEF Stats
<1>4. IsFiniteSet(PathFindings(S, p)) /\ Cardinality(PathFindings(S, p)) = n
  BY <1>2, <1>3, PathFindingsCard
<1>. QED
  BY <1>1, <1>4

\* A file the loop skips, or for which check_file returns None, contributes
\* nothing.
LEMMA ContributionSkipped ==
  ASSUME NEW p, InTarget(p) \/ result[p] \in {Unreadable, << >>}
  PROVE  Contribution(p) = {}
BY DEF Contribution

\* Every finding a file contributes carries that file's path.
LEMMA ContributionOwn ==
  ASSUME NEW p
  PROVE  \A f \in Contribution(p) : f.path = p
BY DEF Contribution, FindingsOf

LEMMA ContributionFinite ==
  ASSUME TypeOK, NEW p \in Tree
  PROVE  IsFiniteSet(Contribution(p))
<1>1. CASE ~InTarget(p) /\ result[p] \notin {Unreadable, << >>}
  BY <1>1, ContributionKept
<1>2. CASE InTarget(p) \/ result[p] \in {Unreadable, << >>}
  BY <1>2, ContributionSkipped, FS_EmptySet
<1>. QED
  BY <1>1, <1>2

\* The mapped contributions: no step of scan_directory changes them.
Found == [q \in Tree |-> Contribution(q)]

LEMMA FoundUnchanged == result' = result => Found' = Found
BY DEF Found, Contribution, Stats

\* FindingsWalk's FiniteSets, seen through the instance, is this one.
LEMMA WalkFiniteSets ==
  /\ \A S : Walk!IsFiniteSet(S) = IsFiniteSet(S)
  /\ \A S : Walk!Cardinality(S) = Cardinality(S)
BY DEF Walk!IsFiniteSet, IsFiniteSet, Walk!Cardinality, Cardinality

LEMMA WalkInit == Init => Walk!Init
<1> SUFFICES ASSUME Init PROVE Walk!Init
  OBVIOUS
<1>1. TypeOK
  BY StoreInvInit DEF StoreInv
<1>2. \A p \in Tree : IsFiniteSet(Found[p])
  BY <1>1, ContributionFinite DEF Found
<1>3. \A p, q \in Tree : p # q => Found[p] \cap Found[q] = {}
  BY ContributionOwn DEF Found
<1>4. FindingsOf(files) = {}
  BY DEF Init, FindingsOf
<1>5. DOMAIN Found = Tree /\ Found = [q \in Tree |-> Found[q]]
  BY DEF Found
<1>6. Tree \ todo = {} /\ total_logs = 0 /\ (pc = "done") = FALSE
  BY DEF Init
<1>. QED
  BY <1>2, <1>3, <1>4, <1>5, <1>6, WalkFiniteSets DEF Walk!Init, Found

\* The abstract Visit of p, in terms of the concrete variables.
VisitOf(p) ==
  /\ pc # "done"
  /\ p \in Tree \ (Tree \ todo)
  /\ Tree \ todo' = (Tree \ todo) \cup {p}
  /\ FindingsOf(files') = FindingsOf(files) \cup Found[p]
  /\ total_logs' = total_logs + Cardinality(Found[p])
  /\ Found' = Found
  /\ (pc' = "done") = (pc = "done")

LEMMA VisitOfVisit == ASSUME NEW p, VisitOf(p) PROVE Walk!Visit
BY WalkFiniteSets DEF VisitOf, Walk!Visit, Found

\* One step of scan_directory for a path p the loop does not keep.
LEMMA WalkSkip ==
  ASSUME StoreInv, NEW p \in todo, pc = "scan", todo' = todo \ {p},
         UNCHANGED <<result, files, total_logs, pc>>,
         InTarget(p) \/ result[p] \in {Unreadable, << >>}
  PROVE  VisitOf(p)
<1>1. p \in Tree
  BY DEF StoreInv, TypeOK
<1>2. Found[p] = {} /\ Cardinality(Found[p]) = 0
  BY <1>1, ContributionSkipped, FS_EmptySet DEF Found
<1>3. FindingsOf(files') = FindingsOf(files) \cup Found[p]
  BY <1>2
<1>4. p \in Tree \ (Tree \ todo) /\ Tree \ todo' = (Tree \ todo) \cup {p}
  BY <1>1
<1>5. total_logs' = total_logs + Cardinality(Found[p])
  BY <1>2 DEF StoreInv, TypeOK
<1>6. Found' = Found
  BY FoundUnchanged
<1>. QED
  BY <1>3, <1>4, <1>5, <1>6 DEF VisitOf

LEMMA WalkStore ==
  ASSUME StoreInv, NEW p \in todo, pc = "scan", ~InTarget(p),
         result[p] \notin {Unreadable, << >>},
         todo' = todo \ {p},
         files' = [q \in DOMAIN files \cup {p} |->
                     IF q = p THEN Stats(p) ELSE files[q]],
         total_logs' = total_logs + Len(result[p]),
         UNCHANGED <<result, pc>>
  PROVE  VisitOf(p)
<1>1. p \in Tree /\ TypeOK
  BY DEF StoreInv, TypeOK
<1>2. p \notin DOMAIN files
  BY DEF StoreInv, Kept
<1>3. FindingsOf(files') = FindingsOf(files) \cup PathFindings(files', p)
  BY <1>2, MergeFindings
<1>4. /\ Found[p] = PathFindings([q \in {p} |-> Stats(q)], p)
      /\ Cardinality(Found[p]) = Len(result[p])
  BY <1>1, ContributionKept DEF Found
<1>5. PathFindings(files', p) = PathFindings([q \in {p} |-> Stats(q)], p)
  BY PathFindingsAt
<1>. QED
  BY <1>1, <1>3, <1>4, <1>5, FoundUnchanged DEF VisitOf

LEMMA WalkStep == StoreInv /\ [Next]_vars => [Walk!Next]_Walk!vars
<1> SUFFICES ASSUME StoreInv, [Next]_vars PROVE [Walk!Next]_Walk!vars
  OBVIOUS
<1>1. CASE SkipTarget
  BY <1>1, WalkSkip, VisitOfVisit DEF SkipTarget, Walk!Next
<1>2. CASE NoStats
  BY <1>2, WalkSkip, VisitOfVisit DEF NoStats, Walk!Next
<1>3. CASE StoreStats
  BY <1>3, WalkStore, VisitOfVisit DEF StoreStats, Walk!Next
<1>4. CASE Finish
  <2>1. Found' = Found
    BY <1>4, FoundUnchanged DEF Finish
  <2>. QED
    BY <1>4, <2>1 DEF Finish, Walk!Next, Walk!Finish, Found
<1>5. CASE UNCHANGED vars
  <2>1. Found' = Found
    BY <1>5, FoundUnchanged DEF vars
  <2>. QED
    BY <1>5, <2>1 DEF vars, Walk!vars, Found
<1>. QED
  BY <1>1, <1>2, <1>3, <1>4, <1>5 DEF Next

\* scan_directory implements FindingsWalk for every finite tree and root:
\* each step of the loop visits one file, adding exactly the findings
\* check_file returned for it, and returning is the walk's Finish.
THEOREM WalkRefinement == Spec => ImplementsFindingsWalk
<1>. QED
  BY WalkInit, WalkStep, StoreInvInit, StoreInvStep, PTL
     DEF Spec, ImplementsFindingsWalk, Walk!Spec

WalkProofs == INSTANCE FindingsWalk_proofs WITH
                found <- [p \in Tree |-> Contribution(p)],
                visited <- Tree \ todo,
                report <- FindingsOf(files),
                total <- total_logs,
                done <- (pc = "done")

\* Through the refinement, for every finite tree and every root: once
\* scan_directory returns, self.files holds the findings check_file returned
\* for every file of the tree it did not skip (Complete of FindingsWalk).
THEOREM WalkCompleteThm == Spec => []Walk!Complete
<1>1. Walk!Spec => []Walk!Complete
  <2>1. WalkProofs!Spec => []WalkProofs!Complete
    BY WalkProofs!CompleteThm
  <2>2. WalkProofs!Init <=> Walk!Init
    BY DEF WalkProofs!Init, Walk!Init, WalkProofs!IsFiniteSet, Walk!IsFiniteSet
  <2>3. [WalkProofs!Next]_WalkProofs!vars <=> [Walk!Next]_Walk!vars
    BY DEF WalkProofs!Next, Walk!Next, WalkProofs!vars, Walk!vars,
           WalkProofs!Visit, Walk!Visit, WalkProofs!Finish, Walk!Finish,
           WalkProofs!Cardinality, Walk!Cardinality
  <2>4. WalkProofs!Complete <=> Walk!Complete
    BY DEF WalkProofs!Complete, Walk!Complete
  <2>. QED
    BY <2>1, <2>2, <2>3, <2>4, PTL DEF WalkProofs!Spec, Walk!Spec
<1>. QED
  BY <1>1, WalkRefinement, PTL DEF ImplementsFindingsWalk
====
