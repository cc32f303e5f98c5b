---------------------------- MODULE FindingsWalk ----------------------------
(***************************************************************************)
(* What scan_directory promises get_summary (spec sections 3 and 4.6),    *)
(* without the path classification or the FileStats records: each file of *)
(* the tree is visited once, in any order; a visit adds the file's         *)
(* findings to the report and their number to the total; the walk ends     *)
(* when every file has been visited.  What a file contributes, found[p],   *)
(* is fixed from the start, and no finding belongs to two files.           *)
(***************************************************************************)
EXTENDS Integers, FiniteSets

CONSTANT Tree   \* the files of the walk

VARIABLES
  found,     \* found[p]: the findings visiting p contributes
  visited,   \* the files visited so far
  report,    \* the findings reported so far
  total,     \* the running count of findings
  done       \* the walk has returned

vars == <<found, visited, report, total, done>>

Init ==
  /\ DOMAIN found = Tree
  /\ \A p \in Tree : IsFiniteSet(found[p])
  /\ \A p, q \in Tree : p # q => found[p] \cap found[q] = {}
  /\ found = [p \in Tree |-> found[p]]
  /\ visited = {}
  /\ report = {}
  /\ total = 0
  /\ done = FALSE

\* One file, not yet visited, is visited.
Visit ==
  /\ ~done
  /\ \E p \in Tree \ visited :
       /\ visited' = visited \cup {p}
       /\ report' = report \cup found[p]
       /\ total' = total + Cardinality(found[p])
  /\ UNCHANGED <<found, done>>

\* The walk returns once every file has been visited.
Finish ==
  /\ ~done
  /\ visited = Tree
  /\ done' = TRUE
  /\ UNCHANGED <<found, visited, report, total>>

Next == Visit \/ Finish

Spec == Init /\ [][Next]_vars

\* The running total is the number of findings reported.
Counted == total = Cardinality(report)

\* When the walk has returned, the report holds the findings of every file.
Complete == done => report = UNION {found[p] : p \in Tree}

=============================================================================
