--------------------------- MODULE LogScan_proofs ---------------------------
(***************************************************************************)
(* Proofs about LogScan for every set of levels and every set of files.    *)
(***************************************************************************)
EXTENDS LogScan, SequenceTheorems, TLAPS

(***************************************************************************)
(* TypeOK is not inductive by itself: JoinDone reads lines[i] and records *)
(* its level, so a state in the joiner must have i within the file and     *)
(* lines[i] must be the log line that started the join.                    *)
(***************************************************************************)
TypeInv ==
  /\ TypeOK
  /\ pc = "join" => i \in 1..Len(lines) /\ lines[i].log # None

\* What the reference step leaves in blocks and pending has their types.
LEMMA RefStepType ==
  ASSUME TypeOK, NEW l \in Line, RefStep(l)
  PROVE  blocks' \in Seq(Level) /\ pending' \in Level
<1> DEFINE kept  == Len(blocks) - (IF l.closes < Len(blocks) THEN l.closes ELSE Len(blocks))
           first == IF l.guard # None THEN l.guard ELSE pending
           pushed == [p \in 1..l.opens |-> IF p = 1 THEN first ELSE None]
<1>1. kept \in 0..Len(blocks)
  BY DEF TypeOK, Line
<1>2. SubSeq(blocks, 1, kept) \in Seq(Level)
  BY <1>1 DEF TypeOK
<1>3. first \in Level
  BY DEF TypeOK, Line, Level
<1>4. pushed \in Seq(Level)
  BY <1>3 DEF Line, Level
<1>5. blocks' = SubSeq(blocks, 1, kept) \o pushed /\ pending' = IF l.opens > 0 THEN None ELSE first
  BY DEF RefStep
<1>. QED
  BY <1>2, <1>3, <1>4, <1>5 DEF Level

\* The tracker's update keeps brace_depth an integer and the level a level.
LEMMA TrackBracesType ==
  ASSUME TypeOK, NEW l \in Line, TrackBraces(l)
  PROVE  in_block' \in BOOLEAN /\ brace_depth' \in Int /\ enabled_level' \in Level
<1>1. LBraces(l) \in Nat /\ RBraces(l) \in Nat
  BY DEF Line, LBraces, RBraces
<1>2. CASE in_block
  BY <1>1, <1>2 DEF TrackBraces, TypeOK, Level
<1>3. CASE ~in_block
  <2>1. UNCHANGED <<in_block, brace_depth, enabled_level>>
    BY <1>3 DEF TrackBraces
  <2>. QED
    BY <2>1 DEF TypeOK
<1>. QED
  BY <1>2, <1>3

LEMMA TypeInvInit == Init => TypeInv
<1> SUFFICES ASSUME Init PROVE TypeInv
  OBVIOUS
<1>1. lines \in Seq(Line)
  BY FilesAssumption DEF Init
<1>2. i \in 1..(Len(lines) + 1)
  BY <1>1 DEF Init
<1>3. logs \in Seq(Finding) /\ blocks \in Seq(Level)
  BY DEF Init
<1>4. enabled_level \in Level /\ pending \in Level
  BY DEF Init, Level
<1>5. /\ pc \in {"open", "scan", "join", "done", "failed"}
      /\ brace_depth \in Int /\ j \in Nat \ {0} /\ paren_depth \in Int
  BY DEF Init
<1>7. /\ in_block \in BOOLEAN /\ stmt_open \in BOOLEAN /\ stmt_ph \in BOOLEAN
      /\ wasGuarded \in BOOLEAN
  BY Zenon DEF Init
<1>6. owed \subseteq Nat \ {0} /\ pc # "join"
  BY DEF Init
<1>. QED
  BY <1>1, <1>2, <1>3, <1>4, <1>5, <1>6, <1>7 DEF TypeInv, TypeOK

LEMMA TypeInvStep == TypeInv /\ [Next]_vars => TypeInv'
<1> SUFFICES ASSUME TypeInv, [Next]_vars PROVE TypeInv'
  OBVIOUS
<1>. USE DEF TypeInv, TypeOK
<1>1. CASE Open \/ ReadFail \/ Finish
  BY <1>1 DEF Open, ReadFail, Finish, ref
<1>2. CASE GuardLine
  <2>1. lines[i] \in Line /\ i \in 1..Len(lines)
    BY <1>2 DEF GuardLine
  <2>2. blocks' \in Seq(Level) /\ pending' \in Level
    BY <1>2, <2>1, RefStepType DEF GuardLine
  <2>3. brace_depth' \in Int
    BY <1>2, <2>1 DEF GuardLine, Line, LBraces, RBraces
  <2>4. enabled_level' \in Level
    BY <1>2, <2>1 DEF GuardLine, Line
  <2>5. i' \in 1..(Len(lines') + 1) /\ owed' \subseteq Nat \ {0}
    BY <1>2, <2>1 DEF GuardLine
  <2>. QED
    BY <1>2, <2>2, <2>3, <2>4, <2>5 DEF GuardLine
<1>3. CASE ScanLine
  <2>1. lines[i] \in Line /\ i \in 1..Len(lines)
    BY <1>3 DEF ScanLine
  <2>2. blocks' \in Seq(Level) /\ pending' \in Level
    BY <1>3, <2>1, RefStepType DEF ScanLine
  <2>3. in_block' \in BOOLEAN /\ brace_depth' \in Int /\ enabled_level' \in Level
    BY <1>3, <2>1, TrackBracesType DEF ScanLine
  <2>4. i' \in 1..(Len(lines') + 1)
    BY <1>3, <2>1 DEF ScanLine
  <2>. QED
    BY <1>3, <2>2, <2>3, <2>4 DEF ScanLine
<1>4. CASE LogLine
  <2>1. lines[i] \in Line /\ i \in 1..Len(lines)
    BY <1>4 DEF LogLine
  <2>2. blocks' \in Seq(Level) /\ pending' \in Level
    BY <1>4, <2>1, RefStepType DEF LogLine
  <2>3. in_block' \in BOOLEAN /\ brace_depth' \in Int /\ enabled_level' \in Level
    BY <1>4, <2>1, TrackBracesType DEF LogLine
  <2>20. lines[i].lpar \in Nat /\ lines[i].rpar \in Nat
    BY <2>1, Zenon DEF Line
  <2>21. j' = i + 1 /\ paren_depth' = lines[i].lpar - lines[i].rpar
    BY <1>4 DEF LogLine
  <2>4. j' \in Nat \ {0} /\ paren_depth' \in Int
    BY <2>1, <2>20, <2>21
  <2>5. pc' = "join" /\ i' \in 1..Len(lines') /\ lines'[i'].log # None
    BY <1>4, <2>1 DEF LogLine
  <2>7. stmt_open' = (LBraces(lines[i]) > 0) /\ stmt_ph' = lines[i].ph
        /\ wasGuarded' = Guarded(lines[i].log)
    BY <1>4 DEF LogLine
  <2>8. lines[i].ph \in BOOLEAN
    BY <2>1, Zenon DEF Line
  <2>9. stmt_open' \in BOOLEAN
    BY <2>7
  <2>10. stmt_ph' \in BOOLEAN
    BY <2>7, <2>8, Zenon
  <2>11. wasGuarded' \in BOOLEAN
    BY <2>7, Zenon DEF Guarded
  <2>6. stmt_open' \in BOOLEAN /\ stmt_ph' \in BOOLEAN /\ wasGuarded' \in BOOLEAN
    BY <2>9, <2>10, <2>11
  <2>. QED
    BY <1>4, <2>2, <2>3, <2>4, <2>5, <2>6 DEF LogLine
<1>5. CASE JoinLine
  <2>1. lines[j] \in Line
    BY <1>5 DEF JoinLine
  <2>2. paren_depth' = paren_depth + lines[j].lpar - lines[j].rpar /\ j' = j + 1
    BY <1>5 DEF JoinLine
  <2>7. lines[j].lpar \in Nat /\ lines[j].rpar \in Nat
    BY <2>1, Zenon DEF Line
  <2>6. paren_depth' \in Int /\ j' \in Nat \ {0}
    BY <2>2, <2>7
  <2>3. stmt_open' \in BOOLEAN /\ stmt_ph' \in BOOLEAN
    BY <1>5, Zenon DEF JoinLine
  <2>. QED
    BY <1>5, <2>6, <2>3 DEF JoinLine, ref
<1>6. CASE JoinDone
  <2>1. i \in 1..Len(lines) /\ lines[i] \in Line /\ lines[i].log # None
    BY <1>6 DEF JoinDone
  <2>2. lines[i].log \in Levels
    BY <2>1 DEF Line, Level
  <2>3. [line |-> i, level |-> lines[i].log] \in Finding
    BY <2>1, <2>2 DEF Finding
  <2>4. logs' \in Seq(Finding)
    BY <1>6, <2>3 DEF JoinDone
  <2>5. owed' \subseteq Nat \ {0} /\ i' \in 1..(Len(lines') + 1) /\ pc' = "scan"
    BY <1>6, <2>1 DEF JoinDone
  <2>. QED
    BY <1>6, <2>4, <2>5 DEF JoinDone
<1>7. CASE UNCHANGED vars
  BY <1>7 DEF vars, code, ref
<1>. QED
  BY <1>1, <1>2, <1>3, <1>4, <1>5, <1>6, <1>7 DEF Next

-----------------------------------------------------------------------------
(***************************************************************************)
(* NoMissedFinding.  It holds for files whose lines have the shapes rustfmt *)
(* gives them and that the guard tracker was written for: a guard line     *)
(* holds no log call, no other line both closes and opens blocks (no       *)
(* `} else {`), and a log call line opens no block.  The runs              *)
(* MC_LogScan_Else and MC_LogScan_GuardLog show it failing without the     *)
(* first two conditions.                                                   *)
(***************************************************************************)
ShapedLine(l) ==
  /\ l.guard # None => l.log = None
  /\ l.guard = None => l.closes = 0 \/ l.opens = 0
  /\ l.log # None => l.opens = 0

ShapedFiles == \A f \in Files : \A k \in 1..Len(f) : ShapedLine(f[k])

(***************************************************************************)
(* The strengthening.  While the tracker is in a guard block, the guard's  *)
(* block is still open, at least brace_depth deep from the top of the      *)
(* stack, or its '{' is still to come and brace_depth <= 0; and a statement *)
(* being joined that the tracker will treat as wrapped really is inside a  *)
(* guard block of its level.                                               *)
(***************************************************************************)
TrackerInv ==
  in_block =>
    /\ enabled_level \in Levels
    /\ \/ \E p \in 1..Len(blocks) :
            /\ blocks[p] = enabled_level
            /\ brace_depth <= Len(blocks) - p + 1
       \/ /\ pending = enabled_level
          /\ brace_depth <= 0

JoinInv ==
  pc = "join" => (in_block /\ enabled_level = lines[i].log => wasGuarded)

IInv ==
  /\ TypeInv
  /\ lines \in Files
  /\ TrackerInv
  /\ JoinInv
  /\ NoMissedFinding


\* A line of the current file has the shapes of ShapedFiles.
LEMMA ShapedCurrent ==
  ASSUME ShapedFiles, lines \in Files, NEW k \in 1..Len(lines)
  PROVE  ShapedLine(lines[k])
BY DEF ShapedFiles

\* What RefStep does to the stack: it keeps the kept lowest frames, pushes
\* l.opens frames, the first tagged with the guard's level.
LEMMA RefStepFacts ==
  ASSUME TypeOK, NEW l \in Line, RefStep(l)
  PROVE  LET kept  == Len(blocks) - (IF l.closes < Len(blocks) THEN l.closes ELSE Len(blocks))
             first == IF l.guard # None THEN l.guard ELSE pending
         IN  /\ kept \in 0..Len(blocks)
             /\ l.closes < Len(blocks) => kept = Len(blocks) - l.closes
             /\ Len(blocks') = kept + l.opens
             /\ \A p \in 1..kept : blocks'[p] = blocks[p]
             /\ l.opens > 0 => blocks'[kept + 1] = first
             /\ pending' = IF l.opens > 0 THEN None ELSE first
<1> DEFINE kept  == Len(blocks) - (IF l.closes < Len(blocks) THEN l.closes ELSE Len(blocks))
           first == IF l.guard # None THEN l.guard ELSE pending
           pushed == [p \in 1..l.opens |-> IF p = 1 THEN first ELSE None]
<1>1. kept \in 0..Len(blocks) /\ l.opens \in Nat
  BY DEF TypeOK, Line
<1>2. blocks' = SubSeq(blocks, 1, kept) \o pushed
  BY DEF RefStep
<1>3. pending' = IF l.opens > 0 THEN None ELSE first
  BY DEF RefStep
<1>4. SubSeq(blocks, 1, kept) \in Seq(Level) /\ Len(SubSeq(blocks, 1, kept)) = kept
  BY <1>1 DEF TypeOK
<1>9. first \in Level
  BY DEF TypeOK, Line, Level
<1>5. pushed \in Seq(Level) /\ Len(pushed) = l.opens
  BY <1>1, <1>9 DEF Level
<1>10. /\ Len(SubSeq(blocks, 1, kept) \o pushed) = kept + l.opens
       /\ \A p \in 1..(kept + l.opens) :
             (SubSeq(blocks, 1, kept) \o pushed)[p] =
               IF p <= kept THEN SubSeq(blocks, 1, kept)[p] ELSE pushed[p - kept]
  <2> DEFINE s1 == SubSeq(blocks, 1, kept)
  <2>1. s1 \in Seq(Level) /\ pushed \in Seq(Level)
    BY <1>4, <1>5
  <2>2. Len(s1) = kept /\ Len(pushed) = l.opens
    BY <1>4, <1>5
  <2> HIDE DEF s1, pushed, kept
  <2>3. /\ Len(s1 \o pushed) = Len(s1) + Len(pushed)
        /\ \A p \in 1..(Len(s1) + Len(pushed)) :
              (s1 \o pushed)[p] = IF p <= Len(s1) THEN s1[p] ELSE pushed[p - Len(s1)]
    BY <2>1, ConcatProperties
  <2>. QED
    BY <2>2, <2>3
<1>11. \A p \in 1..kept : SubSeq(blocks, 1, kept)[p] = blocks[p]
  BY <1>1
<1>6. Len(blocks') = kept + l.opens
  BY <1>2, <1>10
<1>7. \A p \in 1..kept : blocks'[p] = blocks[p]
  BY <1>1, <1>2, <1>10, <1>11
<1>8. l.opens > 0 => blocks'[kept + 1] = first
  <2>1. l.opens > 0 => pushed[1] = first
    BY <1>1
  <2>2. l.opens > 0 => kept + 1 \in 1..(kept + l.opens) /\ ~(kept + 1 <= kept)
    BY <1>1
  <2>3. l.opens > 0 => blocks'[kept + 1] = pushed[(kept + 1) - kept]
    BY <1>2, <1>10, <2>2
  <2>4. (kept + 1) - kept = 1
    BY <1>1
  <2>. QED
    BY <2>1, <2>3, <2>4
<1>. QED
  BY <1>1, <1>3, <1>6, <1>7, <1>8

\* The depth arithmetic of a line: the '{' and '}' of a placeholder cancel.
LEMMA BraceBalance ==
  ASSUME NEW l \in Line
  PROVE  /\ LBraces(l) - RBraces(l) = l.opens - l.closes
         /\ LBraces(l) \in Nat /\ RBraces(l) \in Nat
<1>1. l.ph \in BOOLEAN /\ l.opens \in Nat /\ l.closes \in Nat
  BY Zenon DEF Line
<1>. QED
  BY <1>1 DEF LBraces, RBraces

\* The depth arithmetic of TrackStep, for a frame p of the stack: a depth
\* still positive after the line's braces leaves frame p on the stack, no
\* deeper than the new depth from its top.
LEMMA DepthBelowFrame ==
  ASSUME NEW L \in Nat, NEW K \in 0..L, NEW o \in Nat, NEW c \in Nat,
         NEW b \in Int, NEW p \in 1..L, NEW M \in Int,
         M = K + o, c < L => K = L - c, c = 0 \/ o = 0,
         b + o - c > 0, b <= L - p + 1
  PROVE  p <= K /\ b + o - c <= M - p + 1
OBVIOUS

\* The same for a guard whose '{' is still to come: the line's first '{'
\* is the guard's, pushed on top of the whole stack.
LEMMA DepthAtPush ==
  ASSUME NEW L \in Nat, NEW K \in 0..L, NEW o \in Nat, NEW c \in Nat,
         NEW b \in Int, NEW M \in Int,
         M = K + o, c < L => K = L - c, c = 0 \/ o = 0,
         b + o - c > 0, b <= 0
  PROVE  o > 0 /\ c = 0 /\ K = L /\ K + 1 \in 1..M /\ b + o - c <= M - (K + 1) + 1
OBVIOUS

\* A line that is not a guard line keeps TrackerInv, and while the tracker
\* stays in its block across a line that opens no block, the block of its
\* level was open before the line: the tracker's depth never outlives the
\* guard's '{'.
LEMMA TrackStep ==
  ASSUME TypeOK, TrackerInv, NEW l \in Line, ShapedLine(l), l.guard = None,
         TrackBraces(l), RefStep(l)
  PROVE  /\ TrackerInv'
         /\ in_block' /\ l.opens = 0 =>
              \E p \in 1..Len(blocks) : blocks[p] = enabled_level'
<1> DEFINE kept  == Len(blocks) - (IF l.closes < Len(blocks) THEN l.closes ELSE Len(blocks))
           first == IF l.guard # None THEN l.guard ELSE pending
           d     == brace_depth + LBraces(l) - RBraces(l)
<1>1. /\ kept \in 0..Len(blocks)
      /\ l.closes < Len(blocks) => kept = Len(blocks) - l.closes
      /\ Len(blocks') = kept + l.opens
      /\ \A p \in 1..kept : blocks'[p] = blocks[p]
      /\ l.opens > 0 => blocks'[kept + 1] = first
  BY RefStepFacts
<1>4. kept \in 0..Len(blocks) /\ Len(blocks') = kept + l.opens
  BY <1>1
<1>5. l.closes < Len(blocks) => kept = Len(blocks) - l.closes
  BY <1>1
<1>6. \A p \in 1..kept : blocks'[p] = blocks[p]
  BY <1>1
<1>7. l.opens > 0 => blocks'[kept + 1] = first
  BY <1>1
<1>8. blocks' \in Seq(Level)
  BY RefStepType
<1>2. CASE ~in_block'
  BY <1>2 DEF TrackerInv
<1>3. CASE in_block'
  <2>1. in_block
    BY <1>3, Zenon DEF TrackBraces
  <2>2. brace_depth' = d /\ enabled_level' = enabled_level
    BY <2>1, <1>3, Zenon DEF TrackBraces
  <2>3. d > 0
    BY <2>1, <1>3, Zenon DEF TrackBraces
  <2>4. d = brace_depth + l.opens - l.closes /\ l.opens \in Nat /\ l.closes \in Nat
    BY BraceBalance DEF TypeOK, Line
  <2>5. l.closes = 0 \/ l.opens = 0
    BY DEF ShapedLine
  <2>9. Len(blocks) \in Nat /\ brace_depth \in Int
    BY DEF TypeOK
  <2>6. enabled_level \in Levels
    BY <2>1 DEF TrackerInv
  <2>7. CASE \E p \in 1..Len(blocks) : /\ blocks[p] = enabled_level
                                       /\ brace_depth <= Len(blocks) - p + 1
    <3>1. PICK p \in 1..Len(blocks) : /\ blocks[p] = enabled_level
                                      /\ brace_depth <= Len(blocks) - p + 1
      BY <2>7
    <3>9. Len(blocks') \in Int
      BY <1>8
    <3>2. p <= kept /\ d <= Len(blocks') - p + 1
      <4>1. Len(blocks') = kept + l.opens /\ kept \in 0..Len(blocks)
        BY <1>4
      <4>2. brace_depth + l.opens - l.closes > 0
        BY <2>3, <2>4
      <4>3. l.opens \in Nat /\ l.closes \in Nat
        BY <2>4
      <4>4. p \in 1..Len(blocks) /\ brace_depth <= Len(blocks) - p + 1
        BY <3>1
      <4>5. p <= kept /\ brace_depth + l.opens - l.closes <= Len(blocks') - p + 1
        BY <4>1, <4>2, <4>3, <4>4, <1>5, <2>5, <2>9, <3>9, DepthBelowFrame
      <4>. QED
        BY <4>5, <2>4
    <3>3. blocks'[p] = enabled_level' /\ p \in 1..Len(blocks')
      <4>1. p \in 1..kept
        BY <3>1, <3>2
      <4>2. blocks'[p] = blocks[p]
        BY <1>6, <4>1
      <4>3. blocks[p] = enabled_level'
        BY <2>2, <3>1
      <4>4. Len(blocks') = kept + l.opens /\ l.opens \in Nat
        BY <1>4, <2>4
      <4>5. p \in 1..Len(blocks')
        BY <1>4, <2>9, <4>1, <4>4
      <4>. QED
        BY <4>2, <4>3, <4>5
    <3>4. TrackerInv'
      BY <2>2, <2>6, <3>2, <3>3 DEF TrackerInv
    <3>5. \E q \in 1..Len(blocks) : blocks[q] = enabled_level'
      BY <2>2, <3>1
    <3>. QED
      BY <3>4, <3>5
  <2>8. CASE pending = enabled_level /\ brace_depth <= 0
    <3>9. Len(blocks') \in Int
      BY <1>8
    <3>10. /\ l.opens > 0 /\ l.closes = 0 /\ kept = Len(blocks)
           /\ kept + 1 \in 1..Len(blocks') /\ d <= Len(blocks') - (kept + 1) + 1
      <4>1. Len(blocks') = kept + l.opens /\ kept \in 0..Len(blocks)
        BY <1>4
      <4>2. brace_depth + l.opens - l.closes > 0
        BY <2>3, <2>4
      <4>3. l.opens \in Nat /\ l.closes \in Nat
        BY <2>4
      <4>4. brace_depth <= 0
        BY <2>8
      <4> HIDE DEF kept
      <4>5. /\ l.opens > 0 /\ l.closes = 0 /\ kept = Len(blocks)
            /\ kept + 1 \in 1..Len(blocks')
            /\ brace_depth + l.opens - l.closes <= Len(blocks') - (kept + 1) + 1
        BY <4>1, <4>2, <4>3, <4>4, <1>5, <2>5, <2>9, <3>9, DepthAtPush
      <4>. QED
        BY <4>5, <2>4
    <3>1. l.opens > 0 /\ l.closes = 0
      BY <3>10
    <3>2. kept = Len(blocks)
      BY <3>10
    <3>5. blocks'[kept + 1] = first
      BY <1>7, <3>1
    <3>6. first = enabled_level'
      BY <2>2, <2>8
    <3>7. kept + 1 \in 1..Len(blocks')
      BY <3>10
    <3>3. blocks'[kept + 1] = enabled_level' /\ kept + 1 \in 1..Len(blocks')
      BY <3>5, <3>6, <3>7
    <3>4. d <= Len(blocks') - (kept + 1) + 1
      BY <3>10
    <3>8. TrackerInv'
      BY <2>2, <2>6, <3>3, <3>4 DEF TrackerInv
    <3>. QED
      BY <3>1, <3>8
  <2>. QED
    BY <2>1, <2>7, <2>8 DEF TrackerInv
<1>. QED
  BY <1>2, <1>3

\* A guard line puts the tracker in the block of the guard's own '{', which
\* is the first block the line opens, or which is still to come.
LEMMA GuardStep ==
  ASSUME TypeOK, NEW l \in Line, l.guard # None,
         in_block' = TRUE, enabled_level' = l.guard,
         brace_depth' = LBraces(l) - RBraces(l), RefStep(l)
  PROVE  TrackerInv'
<1> DEFINE kept  == Len(blocks) - (IF l.closes < Len(blocks) THEN l.closes ELSE Len(blocks))
           first == IF l.guard # None THEN l.guard ELSE pending
<1>1. /\ kept \in 0..Len(blocks)
      /\ Len(blocks') = kept + l.opens
      /\ l.opens > 0 => blocks'[kept + 1] = first
      /\ pending' = IF l.opens > 0 THEN None ELSE first
  BY RefStepFacts
<1>2. first = l.guard /\ l.guard \in Levels
  BY DEF Line, Level
<1>3. brace_depth' = l.opens - l.closes /\ l.opens \in Nat /\ l.closes \in Nat
  BY BraceBalance DEF Line
<1>4. Len(blocks) \in Nat
  BY DEF TypeOK
<1>5. CASE l.opens > 0
  <2>1. blocks'[kept + 1] = enabled_level'
    BY <1>1, <1>2, <1>5
  <2>2. kept + 1 \in 1..Len(blocks') /\ brace_depth' <= Len(blocks') - (kept + 1) + 1
    <3>1. kept \in 0..Len(blocks) /\ Len(blocks') = kept + l.opens
      BY <1>1
    <3> HIDE DEF kept
    <3>. QED
      BY <3>1, <1>3, <1>4, <1>5
  <2>. QED
    BY <1>2, <2>1, <2>2 DEF TrackerInv
<1>6. CASE l.opens = 0
  <2>1. pending' = enabled_level'
    BY <1>1, <1>2, <1>6
  <2>2. brace_depth' <= 0
    BY <1>3, <1>6
  <2>. QED
    BY <1>2, <2>1, <2>2 DEF TrackerInv
<1>. QED
  BY <1>3, <1>5, <1>6

\* Appending a finding adds its line to the reported lines and keeps the
\* others.
LEMMA AppendReported ==
  ASSUME logs \in Seq(Finding), NEW r \in Finding, logs' = Append(logs, r)
  PROVE  ReportedLines' = ReportedLines \cup {r.line}
<1>1. /\ Len(logs') = Len(logs) + 1
      /\ \A k \in 1..Len(logs) : logs'[k] = logs[k]
      /\ logs'[Len(logs) + 1] = r
      /\ logs' \in Seq(Finding)
  BY AppendProperties
<1>2. DOMAIN logs = 1..Len(logs) /\ Len(logs) \in Nat
  BY LenProperties
<1>3. DOMAIN logs' = 1..(Len(logs) + 1)
  BY <1>1, LenProperties
<1>. QED
  BY <1>1, <1>2, <1>3 DEF ReportedLines

LEMMA IInvInit == Init => IInv
<1> SUFFICES ASSUME Init PROVE IInv
  OBVIOUS
<1>1. TypeInv
  BY TypeInvInit
<1>2. lines \in Files /\ TrackerInv /\ JoinInv /\ NoMissedFinding
  BY DEF Init, TrackerInv, JoinInv, NoMissedFinding
<1>. QED
  BY <1>1, <1>2 DEF IInv

\* The steps that leave the tracker, the stack and the report alone.
LEMMA QuietStep ==
  ASSUME IInv, TypeInv',
         UNCHANGED <<lines, in_block, brace_depth, enabled_level, logs,
                     blocks, pending, owed>>,
         pc' # "join" \/ UNCHANGED <<pc, i, wasGuarded>>
  PROVE  IInv'
<1>1. lines' \in Files /\ TrackerInv' /\ NoMissedFinding'
  BY DEF IInv, TrackerInv, NoMissedFinding, ReportedLines
<1>2. JoinInv'
  BY Zenon DEF IInv, JoinInv
<1>. QED
  BY <1>1, <1>2 DEF IInv

\* The inductive step, one case per action of Next.
LEMMA IInvStep ==
  ASSUME ShapedFiles
  PROVE  IInv /\ [Next]_vars => IInv'
<1> SUFFICES ASSUME IInv, [Next]_vars PROVE IInv'
  OBVIOUS
<1>0. TypeInv' /\ TypeOK /\ lines \in Files
  BY TypeInvStep DEF IInv, TypeInv
<1>1. CASE Open \/ ReadFail \/ Finish \/ JoinLine \/ UNCHANGED vars
  <2>1. pc' # "join" \/ UNCHANGED <<pc, i, wasGuarded>>
    BY <1>1 DEF Open, ReadFail, Finish, JoinLine, vars, code, ref
  <2>. QED
    BY <1>0, <1>1, <2>1, QuietStep DEF Open, ReadFail, Finish, JoinLine, vars, code, ref
<1>2. CASE GuardLine
  <2> DEFINE l == lines[i]
  <2>1. i \in 1..Len(lines) /\ l \in Line /\ ShapedLine(l)
    BY <1>0, <1>2, ShapedCurrent DEF GuardLine, TypeOK
  <2>2. l.guard # None /\ l.log = None
    BY <1>2, <2>1 DEF GuardLine, ShapedLine
  <2>3. TrackerInv'
    BY <1>0, <1>2, <2>1, <2>2, GuardStep DEF GuardLine
  <2>4. owed' = owed /\ UNCHANGED <<lines, pc, logs>> /\ pc = "scan"
    BY <1>2, <2>2 DEF GuardLine
  <2>. QED
    BY <1>0, <2>3, <2>4 DEF IInv, JoinInv, NoMissedFinding, ReportedLines
<1>3. CASE ScanLine
  <2> DEFINE l == lines[i]
  <2>1. i \in 1..Len(lines) /\ l \in Line /\ ShapedLine(l)
    BY <1>0, <1>3, ShapedCurrent DEF ScanLine, TypeOK
  <2>2. TrackerInv'
    BY <1>0, <1>3, <2>1, TrackStep DEF ScanLine, IInv
  <2>3. UNCHANGED <<lines, pc, logs, owed>> /\ pc = "scan"
    BY <1>3 DEF ScanLine
  <2>. QED
    BY <1>0, <2>2, <2>3 DEF IInv, JoinInv, NoMissedFinding, ReportedLines
<1>4. CASE LogLine
  <2> DEFINE l == lines[i]
  <2>1. i \in 1..Len(lines) /\ l \in Line /\ ShapedLine(l)
    BY <1>0, <1>4, ShapedCurrent DEF LogLine, TypeOK
  <2>2. l.log # None /\ l.opens = 0 /\ l.guard = None
    BY <1>4, <2>1 DEF LogLine, ShapedLine
  <2>3. /\ TrackerInv'
        /\ in_block' /\ l.opens = 0 =>
             \E p \in 1..Len(blocks) : blocks[p] = enabled_level'
    BY <1>0, <1>4, <2>1, <2>2, TrackStep DEF LogLine, IInv
  <2>4. UNCHANGED <<lines, i, logs, owed>> /\ pc' = "join"
    BY <1>4 DEF LogLine
  <2>5. wasGuarded' = Guarded(l.log)
    BY <1>4 DEF LogLine
  <2>6. JoinInv'
    <3>1. in_block' /\ enabled_level' = l.log => wasGuarded'
      BY <2>2, <2>3, <2>5 DEF Guarded
    <3>. QED
      BY <2>4, <3>1 DEF JoinInv
  <2>. QED
    BY <1>0, <2>3, <2>4, <2>6 DEF IInv, NoMissedFinding, ReportedLines
<1>5. CASE JoinDone
  <2> DEFINE lv      == lines[i].log
             wrapped == in_block /\ enabled_level # None /\ enabled_level = lv
  <2>0. pc = "join"
    BY <1>5 DEF JoinDone
  <2>7. i \in 1..Len(lines) /\ lines[i].log # None /\ lines[i] \in Line
    BY <1>0, <2>0 DEF IInv, TypeInv, TypeOK
  <2>1. i \in 1..Len(lines) /\ lv \in Levels /\ i \in Nat \ {0}
    BY <2>7 DEF Line, Level
  <2>2. wrapped => wasGuarded
    BY <1>5, Zenon DEF IInv, JoinInv, JoinDone
  <2>3. UNCHANGED <<lines, in_block, brace_depth, enabled_level, blocks,
                    pending>> /\ pc' = "scan"
    BY <1>5 DEF JoinDone
  <2>4. TrackerInv' /\ JoinInv'
    BY <2>3 DEF IInv, TrackerInv, JoinInv
  <2>5. CASE stmt_ph /\ ~wrapped
    <3>1. logs' = Append(logs, [line |-> i, level |-> lv])
      BY <1>5, <2>5 DEF JoinDone
    <3>2. [line |-> i, level |-> lv] \in Finding
      BY <2>1 DEF Finding
    <3>3. ReportedLines' = ReportedLines \cup {i}
      BY <1>0, <3>1, <3>2, AppendReported DEF TypeOK
    <3>4. owed' \subseteq owed \cup {i}
      BY <1>5, Zenon DEF JoinDone
    <3>. QED
      BY <1>0, <2>3, <2>4, <3>3, <3>4 DEF IInv, NoMissedFinding
  <2>6. CASE ~(stmt_ph /\ ~wrapped)
    <3>1. logs' = logs
      BY <1>5, <2>6 DEF JoinDone
    <3>2. owed' = owed
      <4>1. ~(stmt_ph /\ ~wasGuarded)
        BY <2>2, <2>6, Zenon
      <4>. QED
        BY <1>5, <4>1, Zenon DEF JoinDone
    <3>. QED
      BY <1>0, <2>3, <2>4, <3>1, <3>2 DEF IInv, NoMissedFinding, ReportedLines
  <2>. QED
    BY <1>0, <2>3, <2>4, <2>5, <2>6 DEF IInv
<1>. QED
  BY <1>1, <1>2, <1>3, <1>4, <1>5 DEF Next

\* check_file never misses a call that must be reported, on every file of
\* rustfmt-shaped lines: no `} else {` line and no log call on the line of a
\* guard.  The runs logscan_else and logscan_guard_log show that both
\* shapes are needed.
THEOREM NoMissedFindingThm ==
  ASSUME ShapedFiles
  PROVE  Spec => []NoMissedFinding
<1>1. Init => IInv
  BY IInvInit
<1>2. IInv /\ [Next]_vars => IInv'
  BY IInvStep
<1>3. IInv => NoMissedFinding
  BY DEF IInv
<1>. QED
  BY <1>1, <1>2, <1>3, PTL DEF Spec

\* Type correctness: every reachable state of check_file satisfies TypeOK.
THEOREM TypeCorrect == Spec => []TypeOK
<1>1. Init => TypeInv
  BY TypeInvInit
<1>2. TypeInv /\ [Next]_vars => TypeInv'
  BY TypeInvStep
<1>3. TypeInv => TypeOK
  BY DEF TypeInv
<1>. QED
  BY <1>1, <1>2, <1>3, PTL DEF Spec
=============================================================================
