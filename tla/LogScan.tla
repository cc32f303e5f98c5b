------------------------------ MODULE LogScan ------------------------------
(***************************************************************************)
(* LogOptimizationChecker.check_file of scripts/check_log_optimization.py: *)
(* the single pass over the lines of one Rust file that drives the         *)
(* log_enabled guard-block tracker (in_log_enabled_block, brace_depth,     *)
(* log_enabled_level) and, at each line opening a log macro call, the      *)
(* statement joiner (full_statement, paren_depth, j).                      *)
(*                                                                         *)
(* A line is abstracted to what the three regular expressions and the      *)
(* str.count calls of the code can tell apart:                             *)
(*   guard   the level X of a match of `if (log::)?log_enabled!(           *)
(*           log::Level::X)` on the line, lower-cased, or None;            *)
(*   log     the macro name of a match of `^\s*(trace|...|error)!\s*\(`,   *)
(*           or None;                                                      *)
(*   closes, opens  the block braces of the line: rustfmt puts the '}'     *)
(*           that close blocks before the '{' that open them;              *)
(*   ph      the line holds a format placeholder "{...}" inside a string   *)
(*           literal, between the closing and the opening block braces;    *)
(*   lpar, rpar  the counts of '(' and ')'.                                *)
(* The characters the code counts follow: line.count('{') = opens + ph,    *)
(* line.count('}') = closes + ph.                                          *)
(*                                                                         *)
(* Besides the variables of the code, the module keeps a reference view of *)
(* the file (blocks, pending, wasGuarded, owed): the true stack of open    *)
(* blocks, each tagged with the level of the guard that opened it, and the *)
(* set of lines that the spec says must be reported.  These are history    *)
(* variables: no action of the code reads them.                            *)
(***************************************************************************)
EXTENDS Integers, Sequences

CONSTANTS
  Levels,   \* the five log macro names: trace, debug, info, warn, error
  None,     \* Python's None
  Files     \* the files the scan may be given, as sequences of lines

ASSUME NoneAssumption == None \notin Levels

Level == Levels \cup {None}

Line == [guard : Level, log : Level, closes : Nat, opens : Nat,
         ph : BOOLEAN, lpar : Nat, rpar : Nat]

ASSUME FilesAssumption == Files \subseteq Seq(Line)

\* line.count('{') and line.count('}')
LBraces(l) == l.opens + (IF l.ph THEN 1 ELSE 0)
RBraces(l) == l.closes + (IF l.ph THEN 1 ELSE 0)

VARIABLES
  lines,          \* lines = f.readlines()
  i,              \* the line index of the outer loop, 1-based (= line_num)
  pc,             \* "open", "scan", "join", "done" or "failed"
  in_block,       \* in_log_enabled_block
  brace_depth,    \* brace_depth
  enabled_level,  \* log_enabled_level
  j,              \* the joiner's index into lines, 1-based
  paren_depth,    \* paren_depth
  stmt_open,      \* full_statement holds a '{'
  stmt_ph,        \* format_arg_pattern.search(full_statement) succeeds
  logs,           \* stats.logs: the findings, as [line, level] records
  blocks,         \* reference: the open blocks, innermost last
  pending,        \* reference: level of a guard whose '{' is still to come
  wasGuarded,     \* reference: the statement being joined is in a guard block
  owed            \* reference: the lines the spec says must be reported

code == <<lines, i, pc, in_block, brace_depth, enabled_level,
          j, paren_depth, stmt_open, stmt_ph, logs>>
ref == <<blocks, pending, wasGuarded, owed>>
vars == <<code, ref>>

Finding == [line : Nat \ {0}, level : Levels]

-----------------------------------------------------------------------------
(***************************************************************************)
(* The reference view.  A block is guarded at level L when the '{' that    *)
(* opened it is the first one after `if log_enabled!(log::Level::L)`.      *)
(***************************************************************************)
Guarded(lv) == \E p \in 1..Len(blocks) : blocks[p] = lv

RefStep(l) ==
  LET kept  == Len(blocks) - (IF l.closes < Len(blocks) THEN l.closes ELSE Len(blocks))
      first == IF l.guard # None THEN l.guard ELSE pending
  IN  /\ blocks' = SubSeq(blocks, 1, kept)
                     \o [p \in 1..l.opens |-> IF p = 1 THEN first ELSE None]
      /\ pending' = IF l.opens > 0 THEN None ELSE first

-----------------------------------------------------------------------------
Init ==
  /\ lines \in Files
  /\ i = 1
  /\ pc = "open"
  /\ in_block = FALSE
  /\ brace_depth = 0
  /\ enabled_level = None
  /\ j = 1
  /\ paren_depth = 0
  /\ stmt_open = FALSE
  /\ stmt_ph = FALSE
  /\ logs = << >>
  /\ blocks = << >>
  /\ pending = None
  /\ wasGuarded = FALSE
  /\ owed = {}

\* open(file_path).readlines() succeeds.
Open ==
  /\ pc = "open"
  /\ pc' = "scan"
  /\ UNCHANGED <<lines, i, in_block, brace_depth, enabled_level, j,
                 paren_depth, stmt_open, stmt_ph, logs, ref>>

\* Reading raises: a warning is printed and check_file returns None.
ReadFail ==
  /\ pc = "open"
  /\ pc' = "failed"
  /\ UNCHANGED <<lines, i, in_block, brace_depth, enabled_level, j,
                 paren_depth, stmt_open, stmt_ph, logs, ref>>

\* Mutant: the guard line's own braces are not counted (brace_depth = 0).
GuardLineNoCount ==
  LET l == lines[i] IN
  /\ pc = "scan"
  /\ i <= Len(lines)
  /\ l.guard # None
  /\ in_block' = TRUE
  /\ enabled_level' = l.guard
  /\ brace_depth' = 0
  /\ i' = i + 1
  /\ RefStep(l)
  /\ owed' = IF l.log # None /\ l.ph /\ ~Guarded(l.log)
               THEN owed \cup {i} ELSE owed
  /\ UNCHANGED <<lines, pc, j, paren_depth, stmt_open, stmt_ph, logs, wasGuarded>>

\* A line matching log_enabled_pattern opens a guard block; `continue`
\* skips the rest of the loop body, the log macro check included.  The
\* reference owes the line when it also starts a log call with a
\* placeholder outside any guard of its level.
GuardLine ==
  LET l == lines[i] IN
  /\ pc = "scan"
  /\ i <= Len(lines)
  /\ l.guard # None
  /\ in_block' = TRUE
  /\ enabled_level' = l.guard
  /\ brace_depth' = LBraces(l) - RBraces(l)
  /\ i' = i + 1
  /\ RefStep(l)
  /\ owed' = IF l.log # None /\ l.ph /\ ~Guarded(l.log)
               THEN owed \cup {i} ELSE owed
  /\ UNCHANGED <<lines, pc, j, paren_depth, stmt_open, stmt_ph, logs, wasGuarded>>

\* Mutant: the block is closed only when brace_depth < 0.
TrackBracesLt(l) ==
  IF in_block
    THEN LET d == brace_depth + LBraces(l) - RBraces(l) IN
         /\ brace_depth' = d
         /\ in_block' = (d >= 0)
         /\ enabled_level' = IF d >= 0 THEN enabled_level ELSE None
    ELSE UNCHANGED <<in_block, brace_depth, enabled_level>>

\* The brace-depth update of a line that is not a guard line.
TrackBraces(l) ==
  IF in_block
    THEN LET d == brace_depth + LBraces(l) - RBraces(l) IN
         /\ brace_depth' = d
         /\ in_block' = (d > 0)
         /\ enabled_level' = IF d > 0 THEN enabled_level ELSE None
    ELSE UNCHANGED <<in_block, brace_depth, enabled_level>>

\* A line that is neither a guard line nor the start of a log call.
ScanLine ==
  LET l == lines[i] IN
  /\ pc = "scan"
  /\ i <= Len(lines)
  /\ l.guard = None
  /\ l.log = None
  /\ TrackBraces(l)
  /\ i' = i + 1
  /\ RefStep(l)
  /\ UNCHANGED <<lines, pc, j, paren_depth, stmt_open, stmt_ph, logs,
                 wasGuarded, owed>>

\* A line matching log_pattern: after the brace update, the joiner starts
\* with full_statement = line and paren_depth = its '(' minus ')'.
LogLine ==
  LET l == lines[i] IN
  /\ pc = "scan"
  /\ i <= Len(lines)
  /\ l.guard = None
  /\ l.log # None
  /\ TrackBraces(l)
  /\ pc' = "join"
  /\ j' = i + 1
  /\ paren_depth' = l.lpar - l.rpar
  /\ stmt_open' = (LBraces(l) > 0)
  /\ stmt_ph' = l.ph
  /\ wasGuarded' = Guarded(l.log)
  /\ RefStep(l)
  /\ UNCHANGED <<lines, i, logs, owed>>

\* One iteration of `while paren_depth > 0 and j < len(lines)`: the
\* placeholder pattern `\{[^}]*\}` matches the longer text when it matched
\* before, when the new line holds a placeholder, or when a '{' seen before
\* is followed by a '}' of the new line.
JoinLine ==
  LET l == lines[j] IN
  /\ pc = "join"
  /\ paren_depth > 0
  /\ j <= Len(lines)
  /\ stmt_ph' = (stmt_ph \/ l.ph \/ (stmt_open /\ RBraces(l) > 0))
  /\ stmt_open' = (stmt_open \/ LBraces(l) > 0)
  /\ paren_depth' = paren_depth + l.lpar - l.rpar
  /\ j' = j + 1
  /\ UNCHANGED <<lines, i, pc, in_block, brace_depth, enabled_level, logs, ref>>

\* Mutant: the joiner waits for the parentheses to balance, also at EOF.
JoinDoneNoEof ==
  LET lv      == lines[i].log
      wrapped == in_block /\ enabled_level # None /\ enabled_level = lv
  IN
  /\ pc = "join"
  /\ paren_depth <= 0
  /\ logs' = IF stmt_ph /\ ~wrapped
               THEN Append(logs, [line |-> i, level |-> lv]) ELSE logs
  /\ owed' = IF stmt_ph /\ ~wasGuarded THEN owed \cup {i} ELSE owed
  /\ i' = i + 1
  /\ pc' = "scan"
  /\ UNCHANGED <<lines, in_block, brace_depth, enabled_level, j, paren_depth,
                 stmt_open, stmt_ph, blocks, pending, wasGuarded>>

\* Mutant: the finding records the 0-based index i instead of line_num.
JoinDoneIndex ==
  LET lv      == lines[i].log
      wrapped == in_block /\ enabled_level # None /\ enabled_level = lv
  IN
  /\ pc = "join"
  /\ (paren_depth <= 0 \/ j > Len(lines))
  /\ logs' = IF stmt_ph /\ ~wrapped
               THEN Append(logs, [line |-> i - 1, level |-> lv]) ELSE logs
  /\ owed' = IF stmt_ph /\ ~wasGuarded THEN owed \cup {i} ELSE owed
  /\ i' = i + 1
  /\ pc' = "scan"
  /\ UNCHANGED <<lines, in_block, brace_depth, enabled_level, j, paren_depth,
                 stmt_open, stmt_ph, blocks, pending, wasGuarded>>

\* The joiner stops; a statement with a format argument that is not
\* is_wrapped is appended to stats.logs; then i += 1.
JoinDone ==
  LET lv      == lines[i].log
      wrapped == in_block /\ enabled_level # None /\ enabled_level = lv
  IN
  /\ pc = "join"
  /\ (paren_depth <= 0 \/ j > Len(lines))
  /\ logs' = IF stmt_ph /\ ~wrapped
               THEN Append(logs, [line |-> i, level |-> lv]) ELSE logs
  /\ owed' = IF stmt_ph /\ ~wasGuarded THEN owed \cup {i} ELSE owed
  /\ i' = i + 1
  /\ pc' = "scan"
  /\ UNCHANGED <<lines, in_block, brace_depth, enabled_level, j, paren_depth,
                 stmt_open, stmt_ph, blocks, pending, wasGuarded>>

\* The outer loop ends.
Finish ==
  /\ pc = "scan"
  /\ i > Len(lines)
  /\ pc' = "done"
  /\ UNCHANGED <<lines, i, in_block, brace_depth, enabled_level, j,
                 paren_depth, stmt_open, stmt_ph, logs, ref>>

Next ==
  \/ Open \/ ReadFail
  \/ GuardLine \/ ScanLine \/ LogLine
  \/ JoinLine \/ JoinDone
  \/ Finish

\* The scan is one sequential loop with no blocking call: every enabled
\* step is eventually taken.
Spec == Init /\ [][Next]_vars /\ WF_vars(Next)

\* check_file's return value: the FileStats when it has logs, else None.
Result == IF pc = "done" /\ logs # << >> THEN logs ELSE None

ReportedLines == {logs[k].line : k \in DOMAIN logs}

-----------------------------------------------------------------------------
(***************************************************************************)
(* Properties.                                                             *)
(***************************************************************************)

\* Every variable holds a value of its type.
TypeOK ==
  /\ lines \in Seq(Line)
  /\ i \in 1..(Len(lines) + 1)
  /\ pc \in {"open", "scan", "join", "done", "failed"}
  /\ in_block \in BOOLEAN
  /\ brace_depth \in Int
  /\ enabled_level \in Level
  /\ j \in Nat \ {0}
  /\ paren_depth \in Int
  /\ stmt_open \in BOOLEAN
  /\ stmt_ph \in BOOLEAN
  /\ logs \in Seq(Finding)
  /\ blocks \in Seq(Level)
  /\ pending \in Level
  /\ wasGuarded \in BOOLEAN
  /\ owed \subseteq Nat \ {0}

\* Spec section 3: a log call whose statement has a placeholder and that
\* no open guard block of its own level encloses is reported by check_file
\* (the tracker in check_file never wrongly excuses a call).
NoMissedFinding == owed \subseteq ReportedLines

\* Spec section 3, the converse: check_file reports only calls that no open
\* guard block of their level encloses (the tracker never loses a guard
\* block that is still open).
NoSpuriousFinding == ReportedLines \subseteq owed

\* check_file returns for every file it can read, a log statement left
\* open at end of file included (the joiner stops at EOF).
Termination == <>(pc \in {"done", "failed"})

=============================================================================
