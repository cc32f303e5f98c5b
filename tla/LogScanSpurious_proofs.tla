------------------------ MODULE LogScanSpurious_proofs ------------------------
(***************************************************************************)
(* NoSpuriousFinding for every set of levels and every set of files: the   *)
(* guard-block tracker of check_file never loses a guard block that is     *)
(* still open, as long as no guard line is read inside an open guard      *)
(* block and the lines have the shapes rustfmt gives them.                 *)
(***************************************************************************)
EXTENDS LogScan_proofs

(***************************************************************************)
(* The shapes.  A guard line closes no block and opens the guard's own     *)
(* '{' (`if log::log_enabled!(log::Level::X) {`); a line that starts a log *)
(* call closes no block.  `} else if log_enabled!(...) {` is not of this   *)
(* shape: the guard branch sets brace_depth = 1 - 1 = 0, the next line     *)
(* leaves the block, and a call in it is reported although the guard       *)
(* encloses it (TLC shows it on `if a {`, `} else if ... {`, `trace!(..)`).*)
(***************************************************************************)
SpurShapedLine(l) ==
  /\ l.guard # None => l.closes = 0 /\ l.opens > 0
  /\ l.guard = None /\ l.log # None => l.closes = 0

SpurShapedFiles == \A f \in Files : \A k \in 1..Len(f) : SpurShapedLine(f[k])

\* The guard line being read is not inside an open guard block: the files
\* MC_LogScan calls Unnested.  The run logscan_nested shows
\* NoSpuriousFinding failing without it.
GuardsUnnested ==
  pc = "scan" /\ i <= Len(lines) /\ lines[i].guard # None =>
    \A p \in 1..Len(blocks) : blocks[p] = None

(***************************************************************************)
(* The strengthening.  No guard '{' is ever pending; every open guard      *)
(* block has the tracker in a block of its level, with brace_depth at      *)
(* least its height from the top of the stack; and a statement being      *)
(* joined that was inside a guard block of its level is wrapped.           *)
(***************************************************************************)
FrameInv ==
  /\ pending = None
  /\ \A p \in 1..Len(blocks) :
       blocks[p] # None =>
         /\ in_block
         /\ enabled_level = blocks[p]
         /\ brace_depth >= Len(blocks) - p + 1

WrapInv ==
  pc = "join" => (wasGuarded => in_block /\ enabled_level = lines[i].log)

SInv ==
  /\ TypeInv
  /\ lines \in Files
  /\ FrameInv
  /\ WrapInv
  /\ NoSpuriousFinding

\* A line of the current file has the shapes of SpurShapedFiles.
LEMMA SpurShapedCurrent ==
  ASSUME SpurShapedFiles, lines \in Files, NEW k \in 1..Len(lines)
  PROVE  SpurShapedLine(lines[k])
BY DEF SpurShapedFiles

\* Every frame of the stack after RefStep: a kept frame, the first pushed
\* frame with the guard's level (or the pending one), or an untagged frame.
LEMMA RefStepFrames ==
  ASSUME TypeOK, NEW l \in Line, RefStep(l)
  PROVE  LET kept  == Len(blocks) - (IF l.closes < Len(blocks) THEN l.closes ELSE Len(blocks))
             first == IF l.guard # None THEN l.guard ELSE pending
         IN  \A p \in 1..Len(blocks') :
               blocks'[p] = IF p <= kept THEN blocks[p]
                            ELSE IF p = kept + 1 THEN first ELSE None
<1> DEFINE kept  == Len(blocks) - (IF l.closes < Len(blocks) THEN l.closes ELSE Len(blocks))
           first == IF l.guard # None THEN l.guard ELSE pending
           s1 == SubSeq(blocks, 1, kept)
           pushed == [p \in 1..l.opens |-> IF p = 1 THEN first ELSE None]
<1>1. kept \in 0..Len(blocks) /\ l.opens \in Nat
  BY DEF TypeOK, Line
<1>2. blocks' = s1 \o pushed
  BY DEF RefStep
<1>3. s1 \in Seq(Level) /\ Len(s1) = kept /\ \A p \in 1..kept : s1[p] = blocks[p]
  BY <1>1 DEF TypeOK
<1>4. first \in Level
  BY DEF TypeOK, Line, Level
<1>5. pushed \in Seq(Level) /\ Len(pushed) = l.opens
  BY <1>1, <1>4 DEF Level
<1>6. /\ Len(s1 \o pushed) = kept + l.opens
      /\ \A p \in 1..(kept + l.opens) :
           (s1 \o pushed)[p] = IF p <= kept THEN s1[p] ELSE pushed[p - kept]
  <2> HIDE DEF s1, pushed, kept
  <2>1. /\ Len(s1 \o pushed) = Len(s1) + Len(pushed)
        /\ \A p \in 1..(Len(s1) + Len(pushed)) :
             (s1 \o pushed)[p] = IF p <= Len(s1) THEN s1[p] ELSE pushed[p - Len(s1)]
    BY <1>3, <1>5, ConcatProperties
  <2>. QED
    BY <1>3, <1>5, <2>1
<1>7. \A q \in 1..l.opens : pushed[q] = IF q = 1 THEN first ELSE None
  OBVIOUS
<1>. QED
  <2> SUFFICES ASSUME NEW p \in 1..Len(blocks')
               PROVE  blocks'[p] = IF p <= kept THEN blocks[p]
                                   ELSE IF p = kept + 1 THEN first ELSE None
    OBVIOUS
  <2>1. p \in 1..(kept + l.opens)
    BY <1>2, <1>6
  <2>2. CASE p <= kept
    BY <1>2, <1>3, <1>6, <2>1, <2>2
  <2>3. CASE ~(p <= kept)
    <3>1. p - kept \in 1..l.opens /\ (p - kept = 1 <=> p = kept + 1)
      BY <1>1, <2>1, <2>3
    <3>. QED
      BY <1>2, <1>6, <1>7, <2>1, <2>3, <3>1
  <2>. QED
    BY <2>2, <2>3

\* A line that is not a guard line keeps every open guard block in the
\* tracker: a kept frame p stays at least Len(blocks') - p + 1 deep, so the
\* new depth stays positive; the frames it pushes are untagged.  A line
\* that closes no block keeps every frame where it was.
LEMMA FrameStep ==
  ASSUME TypeOK, FrameInv, NEW l \in Line, l.guard = None,
         TrackBraces(l), RefStep(l)
  PROVE  /\ FrameInv'
         /\ l.closes = 0 =>
              \A p \in 1..Len(blocks) : p \in 1..Len(blocks') /\ blocks'[p] = blocks[p]
<1> DEFINE kept  == Len(blocks) - (IF l.closes < Len(blocks) THEN l.closes ELSE Len(blocks))
           first == IF l.guard # None THEN l.guard ELSE pending
<1>1. /\ kept \in 0..Len(blocks)
      /\ l.closes < Len(blocks) => kept = Len(blocks) - l.closes
      /\ Len(blocks') = kept + l.opens
      /\ pending' = IF l.opens > 0 THEN None ELSE first
  BY RefStepFacts
<1>2. \A p \in 1..Len(blocks') :
        blocks'[p] = IF p <= kept THEN blocks[p]
                     ELSE IF p = kept + 1 THEN first ELSE None
  BY RefStepFrames
<1>3. first = None /\ pending' = None
  BY <1>1 DEF FrameInv
<1>4. l.opens \in Nat /\ l.closes \in Nat /\ Len(blocks) \in Nat /\ brace_depth \in Int
  BY DEF TypeOK, Line
<1>5. \A p \in 1..Len(blocks') : blocks'[p] # None =>
        /\ in_block' /\ enabled_level' = blocks'[p]
        /\ brace_depth' >= Len(blocks') - p + 1
  <2> SUFFICES ASSUME NEW p \in 1..Len(blocks'), blocks'[p] # None
               PROVE  /\ in_block' /\ enabled_level' = blocks'[p]
                      /\ brace_depth' >= Len(blocks') - p + 1
    OBVIOUS
  <2>1. p <= kept /\ blocks'[p] = blocks[p]
    BY <1>2, <1>3
  <2>2. p \in 1..Len(blocks) /\ blocks[p] # None
    BY <1>1, <2>1
  <2>3. in_block /\ enabled_level = blocks[p] /\ brace_depth >= Len(blocks) - p + 1
    BY <2>2 DEF FrameInv
  <2>4. l.closes < Len(blocks) /\ kept = Len(blocks) - l.closes
    BY <1>1, <1>4, <2>1, <2>2
  <2>5. brace_depth + l.opens - l.closes >= Len(blocks') - p + 1
        /\ Len(blocks') - p + 1 > 0
    <3>1. Len(blocks') = kept + l.opens /\ p <= kept
      BY <1>1, <2>1
    <3>2. kept = Len(blocks) - l.closes
      BY <2>4
    <3>3. brace_depth >= Len(blocks) - p + 1
      BY <2>3
    <3> HIDE DEF kept
    <3>4. kept \in Int /\ Len(blocks') \in Int
      BY <1>4, <3>1, <3>2
    <3>. QED
      BY <1>4, <3>1, <3>2, <3>3, <3>4, SMTT(30)
  <2>6. /\ LBraces(l) - RBraces(l) = l.opens - l.closes
        /\ LBraces(l) \in Nat /\ RBraces(l) \in Nat
    BY BraceBalance
  <2>7. brace_depth + LBraces(l) - RBraces(l) > 0
    BY <1>4, <2>5, <2>6
  <2>8. /\ brace_depth' = brace_depth + LBraces(l) - RBraces(l)
        /\ in_block'
        /\ enabled_level' = enabled_level
    BY <2>3, <2>7, Zenon DEF TrackBraces
  <2>. QED
    BY <2>1, <2>3, <2>5, <2>6, <2>8
<1>6. l.closes = 0 =>
        \A p \in 1..Len(blocks) : p \in 1..Len(blocks') /\ blocks'[p] = blocks[p]
  <2> SUFFICES ASSUME l.closes = 0, NEW p \in 1..Len(blocks)
               PROVE  p \in 1..Len(blocks') /\ blocks'[p] = blocks[p]
    OBVIOUS
  <2>1. kept = Len(blocks)
    BY <1>4
  <2>2. p \in 1..Len(blocks') /\ p <= kept
    <3> HIDE DEF kept
    <3>. QED
      BY <1>1, <1>4, <2>1
  <2>. QED
    BY <1>2, <2>2
<1>. QED
  BY <1>3, <1>5, <1>6 DEF FrameInv

\* A guard line read outside every guard block pushes the only tagged
\* frame, with the guard's level, and the tracker's depth is the number of
\* blocks the line opens.
LEMMA GuardFrame ==
  ASSUME TypeOK, NEW l \in Line, l.guard # None, l.closes = 0, l.opens > 0,
         \A p \in 1..Len(blocks) : blocks[p] = None,
         in_block' = TRUE, enabled_level' = l.guard,
         brace_depth' = LBraces(l) - RBraces(l), RefStep(l)
  PROVE  FrameInv'
<1> DEFINE kept  == Len(blocks) - (IF l.closes < Len(blocks) THEN l.closes ELSE Len(blocks))
           first == IF l.guard # None THEN l.guard ELSE pending
<1>1. /\ kept \in 0..Len(blocks)
      /\ Len(blocks') = kept + l.opens
      /\ pending' = IF l.opens > 0 THEN None ELSE first
  BY RefStepFacts
<1>2. \A p \in 1..Len(blocks') :
        blocks'[p] = IF p <= kept THEN blocks[p]
                     ELSE IF p = kept + 1 THEN first ELSE None
  BY RefStepFrames
<1>3. kept = Len(blocks) /\ first = l.guard /\ pending' = None
  BY <1>1 DEF TypeOK
<1>4. brace_depth' = l.opens /\ l.opens \in Nat
  BY BraceBalance DEF Line
<1>5. \A p \in 1..Len(blocks') : blocks'[p] # None =>
        /\ in_block' /\ enabled_level' = blocks'[p]
        /\ brace_depth' >= Len(blocks') - p + 1
  <2> SUFFICES ASSUME NEW p \in 1..Len(blocks'), blocks'[p] # None
               PROVE  /\ in_block' /\ enabled_level' = blocks'[p]
                      /\ brace_depth' >= Len(blocks') - p + 1
    OBVIOUS
  <2>1. p = kept + 1 /\ blocks'[p] = l.guard
    BY <1>2, <1>3
  <2>2. Len(blocks') - p + 1 = l.opens
    <3> HIDE DEF kept
    <3>. QED
      BY <1>1, <1>4, <2>1
  <2>. QED
    BY <1>4, <2>1, <2>2
<1>. QED
  BY <1>3, <1>5 DEF FrameInv

LEMMA SInvInit == Init => SInv
<1> SUFFICES ASSUME Init PROVE SInv
  OBVIOUS
<1>1. TypeInv
  BY TypeInvInit
<1>2. lines \in Files /\ FrameInv /\ WrapInv
  BY DEF Init, FrameInv, WrapInv
<1>3. NoSpuriousFinding
  BY DEF Init, NoSpuriousFinding, ReportedLines
<1>. QED
  BY <1>1, <1>2, <1>3 DEF SInv

\* The inductive step, one case per action of Next; a guard line is read
\* outside every guard block.
LEMMA SInvStep ==
  ASSUME SpurShapedFiles
  PROVE  SInv /\ GuardsUnnested /\ [Next]_vars => SInv'
<1> SUFFICES ASSUME SInv, GuardsUnnested, [Next]_vars PROVE SInv'
  OBVIOUS
<1>0. TypeInv' /\ TypeOK /\ lines \in Files
  BY TypeInvStep DEF SInv, TypeInv
<1>1. CASE Open \/ ReadFail \/ Finish \/ JoinLine \/ UNCHANGED vars
  <2>1. UNCHANGED <<lines, in_block, brace_depth, enabled_level, logs,
                    blocks, pending, owed>>
    BY <1>1 DEF Open, ReadFail, Finish, JoinLine, vars, code, ref
  <2>2. pc' # "join" \/ UNCHANGED <<pc, i, wasGuarded>>
    BY <1>1 DEF Open, ReadFail, Finish, JoinLine, vars, code, ref
  <2>3. FrameInv' /\ NoSpuriousFinding'
    BY <2>1 DEF SInv, FrameInv, NoSpuriousFinding, ReportedLines
  <2>4. WrapInv'
    BY <2>1, <2>2, Zenon DEF SInv, WrapInv
  <2>. QED
    BY <1>0, <2>1, <2>3, <2>4 DEF SInv
<1>2. CASE GuardLine
  <2> DEFINE l == lines[i]
  <2>1. i \in 1..Len(lines) /\ l \in Line /\ SpurShapedLine(l) /\ pc = "scan"
    BY <1>0, <1>2, SpurShapedCurrent DEF GuardLine, TypeOK
  <2>2. l.guard # None /\ l.closes = 0 /\ l.opens > 0
    BY <1>2, <2>1 DEF GuardLine, SpurShapedLine
  <2>3. \A p \in 1..Len(blocks) : blocks[p] = None
    BY <2>1, <2>2 DEF GuardsUnnested
  <2>4. FrameInv'
    BY <1>0, <1>2, <2>1, <2>2, <2>3, GuardFrame DEF GuardLine
  <2>5. UNCHANGED <<lines, pc, logs>> /\ owed \subseteq owed'
    BY <1>2 DEF GuardLine
  <2>. QED
    BY <1>0, <2>1, <2>4, <2>5 DEF SInv, WrapInv, NoSpuriousFinding, ReportedLines
<1>3. CASE ScanLine
  <2> DEFINE l == lines[i]
  <2>1. i \in 1..Len(lines) /\ l \in Line /\ l.guard = None
    BY <1>0, <1>3 DEF ScanLine, TypeOK
  <2>2. FrameInv'
    BY <1>0, <1>3, <2>1, FrameStep DEF ScanLine, SInv
  <2>3. UNCHANGED <<lines, pc, logs, owed>> /\ pc = "scan"
    BY <1>3 DEF ScanLine
  <2>. QED
    BY <1>0, <2>2, <2>3 DEF SInv, WrapInv, NoSpuriousFinding, ReportedLines
<1>4. CASE LogLine
  <2> DEFINE l == lines[i]
  <2>1. i \in 1..Len(lines) /\ l \in Line /\ SpurShapedLine(l)
    BY <1>0, <1>4, SpurShapedCurrent DEF LogLine, TypeOK
  <2>2. l.guard = None /\ l.log # None /\ l.closes = 0
    BY <1>4, <2>1 DEF LogLine, SpurShapedLine
  <2>3. /\ FrameInv'
        /\ \A p \in 1..Len(blocks) : p \in 1..Len(blocks') /\ blocks'[p] = blocks[p]
    BY <1>0, <1>4, <2>1, <2>2, FrameStep DEF LogLine, SInv
  <2>4. UNCHANGED <<lines, i, logs, owed>> /\ pc' = "join"
    BY <1>4 DEF LogLine
  <2>5. wasGuarded' = Guarded(l.log)
    BY <1>4 DEF LogLine
  <2>6. WrapInv'
    <3> SUFFICES ASSUME wasGuarded' PROVE in_block' /\ enabled_level' = l.log
      BY <2>4 DEF WrapInv
    <3>1. PICK p \in 1..Len(blocks) : blocks[p] = l.log
      BY <2>5 DEF Guarded
    <3>2. p \in 1..Len(blocks') /\ blocks'[p] = l.log /\ l.log # None
      BY <2>2, <2>3, <3>1
    <3>. QED
      BY <2>3, <3>2 DEF FrameInv
  <2>. QED
    BY <1>0, <2>3, <2>4, <2>6 DEF SInv, NoSpuriousFinding, ReportedLines
<1>5. CASE JoinDone
  <2> DEFINE lv      == lines[i].log
             wrapped == in_block /\ enabled_level # None /\ enabled_level = lv
  <2>0. pc = "join"
    BY <1>5 DEF JoinDone
  <2>7. i \in 1..Len(lines) /\ lines[i].log # None /\ lines[i] \in Line
    BY <2>0 DEF SInv, TypeInv, TypeOK
  <2>1. i \in 1..Len(lines) /\ lv \in Levels /\ i \in Nat \ {0}
    BY <2>7 DEF Line, Level
  <2>8. wasGuarded => in_block /\ enabled_level = lv
    BY <2>0 DEF SInv, WrapInv
  <2>2. wasGuarded => wrapped
    BY <2>1, <2>8, NoneAssumption
  <2>3. UNCHANGED <<lines, in_block, brace_depth, enabled_level, blocks,
                    pending>> /\ pc' = "scan"
    BY <1>5 DEF JoinDone
  <2>4. FrameInv' /\ WrapInv'
    BY <2>3 DEF SInv, FrameInv, WrapInv
  <2>5. CASE stmt_ph /\ ~wrapped
    <3>1. logs' = Append(logs, [line |-> i, level |-> lv])
      BY <1>5, <2>5 DEF JoinDone
    <3>2. [line |-> i, level |-> lv] \in Finding
      BY <2>1 DEF Finding
    <3>3. ReportedLines' = ReportedLines \cup {i}
      BY <1>0, <3>1, <3>2, AppendReported DEF TypeOK
    <3>4. stmt_ph /\ ~wasGuarded
      BY <2>2, <2>5
    <3>5. owed' = owed \cup {i}
      BY <1>5, <3>4, Zenon DEF JoinDone
    <3>. QED
      BY <1>0, <2>3, <2>4, <3>3, <3>5 DEF SInv, NoSpuriousFinding
  <2>6. CASE ~(stmt_ph /\ ~wrapped)
    <3>1. logs' = logs
      BY <1>5, <2>6 DEF JoinDone
    <3>2. owed \subseteq owed'
      BY <1>5 DEF JoinDone
    <3>. QED
      BY <1>0, <2>3, <2>4, <3>1, <3>2 DEF SInv, NoSpuriousFinding, ReportedLines
  <2>. QED
    BY <2>5, <2>6
<1>. QED
  BY <1>1, <1>2, <1>3, <1>4, <1>5 DEF Next

\* check_file reports only calls that no open guard block of their level
\* encloses (NoSpuriousFinding), on every file of rustfmt-shaped lines, as
\* long as no guard line is read inside an open guard block.  The run
\* logscan_nested shows the last condition is needed: a nested guard
\* overwrites the tracker's level and depth.
THEOREM NoSpuriousFindingThm ==
  ASSUME SpurShapedFiles
  PROVE  Spec /\ []GuardsUnnested => []NoSpuriousFinding
<1>1. Init => SInv
  BY SInvInit
<1>2. SInv /\ GuardsUnnested /\ [Next]_vars => SInv'
  BY SInvStep
<1>3. SInv => NoSpuriousFinding
  BY DEF SInv
<1>. QED
  BY <1>1, <1>2, <1>3, PTL DEF Spec

\* check_file reports exactly the calls the spec says it must (spec section
\* 3, both ways), on every file of rustfmt-shaped lines with no guard line
\* inside an open guard block.
THEOREM ExactReportThm ==
  ASSUME ShapedFiles, SpurShapedFiles
  PROVE  Spec /\ []GuardsUnnested => [](ReportedLines = owed)
<1>1. Spec => []NoMissedFinding
  BY NoMissedFindingThm
<1>2. Spec /\ []GuardsUnnested => []NoSpuriousFinding
  BY NoSpuriousFindingThm
<1>3. NoMissedFinding /\ NoSpuriousFinding => ReportedLines = owed
  BY DEF NoMissedFinding, NoSpuriousFinding
<1>. QED
  BY <1>1, <1>2, <1>3, PTL
====
