------------------------- MODULE FindingsWalk_proofs -------------------------
(***************************************************************************)
(* Counted and Complete of FindingsWalk, for every finite or infinite set  *)
(* of files with finite, pairwise disjoint contributions.                  *)
(***************************************************************************)
EXTENDS FindingsWalk, FiniteSetTheorems, TLAPS

(***************************************************************************)
(* The inductive invariant.  Counted alone is not inductive: a visit adds  *)
(* Cardinality(found[p]) only if found[p] is disjoint from the report,     *)
(* which holds because the report is the union of the other files'         *)
(* contributions and these are disjoint from p's.                          *)
(***************************************************************************)
WalkInv ==
  /\ DOMAIN found = Tree
  /\ \A p \in Tree : IsFiniteSet(found[p])
  /\ \A p, q \in Tree : p # q => found[p] \cap found[q] = {}
  /\ visited \subseteq Tree
  /\ report = UNION {found[p] : p \in visited}
  /\ IsFiniteSet(report)
  /\ total \in Nat
  /\ Counted
  /\ done => visited = Tree

LEMMA WalkInvInit == Init => WalkInv
<1> SUFFICES ASSUME Init PROVE WalkInv
  OBVIOUS
<1>1. Cardinality({}) = 0 /\ IsFiniteSet({})
  BY FS_EmptySet
<1>. QED
  BY <1>1 DEF Init, WalkInv, Counted

\* A visit of an unvisited file adds a disjoint, finite set.
LEMMA VisitStep ==
  ASSUME WalkInv, NEW p \in Tree \ visited,
         visited' = visited \cup {p},
         report' = report \cup found[p],
         total' = total + Cardinality(found[p]),
         UNCHANGED <<found, done>>, ~done
  PROVE  WalkInv'
<1>1. report \cap found[p] = {}
  BY DEF WalkInv
<1>2. IsFiniteSet(found[p]) /\ Cardinality(found[p]) \in Nat
  BY FS_CardinalityType DEF WalkInv
<1>3. Cardinality(report) \in Nat
  BY FS_CardinalityType DEF WalkInv
<1>4. /\ IsFiniteSet(report \cup found[p])
      /\ Cardinality(report \cup found[p])
           = Cardinality(report) + Cardinality(found[p]) - Cardinality(report \cap found[p])
  BY <1>2, FS_Union DEF WalkInv
<1>5. Cardinality(report \cap found[p]) = 0
  BY <1>1, FS_EmptySet
<1>6. Cardinality(report') = total'
  BY <1>2, <1>3, <1>4, <1>5 DEF WalkInv, Counted
<1>7. report' = UNION {found'[q] : q \in visited'}
  BY DEF WalkInv
<1>. QED
  BY <1>2, <1>4, <1>6, <1>7 DEF WalkInv, Counted

LEMMA WalkInvStep == WalkInv /\ [Next]_vars => WalkInv'
<1> SUFFICES ASSUME WalkInv, [Next]_vars PROVE WalkInv'
  OBVIOUS
<1>1. CASE Visit
  BY <1>1, VisitStep DEF Visit
<1>2. CASE Finish
  BY <1>2 DEF Finish, WalkInv, Counted
<1>3. CASE UNCHANGED vars
  BY <1>3 DEF vars, WalkInv, Counted
<1>. QED
  BY <1>1, <1>2, <1>3 DEF Next

\* The running total always equals the number of findings reported.
THEOREM CountedThm == Spec => []Counted
<1>1. WalkInv => Counted
  BY DEF WalkInv
<1>. QED
  BY <1>1, WalkInvInit, WalkInvStep, PTL DEF Spec

\* Once the walk has returned, the report holds every file's findings.
THEOREM CompleteThm == Spec => []Complete
<1>1. WalkInv => Complete
  BY DEF WalkInv, Complete
<1>. QED
  BY <1>1, WalkInvInit, WalkInvStep, PTL DEF Spec

=============================================================================
