---------------------------- MODULE MC_LogScan -----------------------------
(***************************************************************************)
(* Instances of LogScan for TLC.  Every file of up to MaxLines lines over  *)
(* a small alphabet of rustfmt-shaped lines is scanned.                    *)
(***************************************************************************)
EXTENDS LogScan, TLC

CONSTANTS
  trace, debug,   \* two log levels: the tracker only compares them
  MaxLines        \* longest file scanned

\* Line shapes.  The comment of each gives the Rust text it stands for.
Ln(g, lv, c, o, ph, lp, rp) ==
  [guard |-> g, log |-> lv, closes |-> c, opens |-> o, ph |-> ph,
   lpar |-> lp, rpar |-> rp]

GuardL(L)   == Ln(L, None, 0, 1, FALSE, 1, 1)     \* if log::log_enabled!(log::Level::L) {
CallPh(L)   == Ln(None, L, 0, 0, TRUE, 1, 1)      \* L!("x={}", x);
CallNoPh(L) == Ln(None, L, 0, 0, FALSE, 1, 1)     \* L!("static");
CallOpen(L) == Ln(None, L, 0, 0, FALSE, 1, 0)     \* L!(
ArgPh       == Ln(None, None, 0, 0, TRUE, 0, 0)   \*     "x={}",
CallClose   == Ln(None, None, 0, 0, FALSE, 0, 1)  \* );
BlockOpen   == Ln(None, None, 0, 1, FALSE, 0, 0)  \* for x in xs {
BlockClose  == Ln(None, None, 1, 0, FALSE, 0, 0)  \* }
Plain       == Ln(None, None, 0, 0, FALSE, 0, 0)  \* let a = b;
ElseLine    == Ln(None, None, 1, 1, FALSE, 0, 0)  \* } else {
\* L!("x={}", x); if log::log_enabled!(log::Level::G) {
CallThenGuard(L, G) == Ln(G, L, 0, 1, TRUE, 2, 2)

BaseLines ==
  UNION {{GuardL(L), CallPh(L), CallNoPh(L), CallOpen(L)} : L \in Levels}
  \cup {ArgPh, CallClose, BlockOpen, BlockClose, Plain}

\* The guard-tagged block stack before each line, for files whose lines
\* open and close at most one block.
StacksOf(f) ==
  LET S[k \in 0..Len(f)] ==
        IF k = 0 THEN << >>
        ELSE LET st == S[k - 1]
                 l  == f[k]
                 kept == IF l.closes <= Len(st) THEN Len(st) - l.closes ELSE 0
             IN  SubSeq(st, 1, kept)
                 \o (IF l.opens > 0 THEN <<l.guard>> ELSE << >>)
  IN S

\* Compilable files: no '}' without its '{'.
Balanced(f) ==
  LET S == StacksOf(f) IN \A k \in 1..Len(f) : f[k].closes <= Len(S[k - 1])

\* No guard line inside an open guard block.
Unnested(f) ==
  LET S == StacksOf(f) IN
  \A k \in 1..Len(f) :
    f[k].guard # None => \A p \in 1..Len(S[k - 1]) : S[k - 1][p] = None

FilesOver(A) == UNION {[1..n -> A] : n \in 0..MaxLines}

\* Files of the passing run: rustfmt-shaped, compilable, no nested guards.
MCFilesBase == {f \in FilesOver(BaseLines) : Balanced(f) /\ Unnested(f)}

\* Files with an `} else {` line.
MCFilesElse == {f \in FilesOver(BaseLines \cup {ElseLine}) : Balanced(f) /\ Unnested(f)}

\* Files with a log call and a guard on one line.
MCFilesGuardLog ==
  {f \in FilesOver(BaseLines \cup {CallThenGuard(L, G) : L, G \in Levels}) :
     Balanced(f) /\ Unnested(f)}

\* Files with nested guard blocks.
MCFilesNested == {f \in FilesOver(BaseLines) : Balanced(f)}

MCLevels == {trace, debug}

MCSymmetry == Permutations({trace, debug})
=============================================================================
