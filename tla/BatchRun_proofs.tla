--------------------------- MODULE BatchRun_proofs ---------------------------
(***************************************************************************)
(* BatchRun's promise that main runs its calls in order, each once, proved *)
(* for every sequence of calls.                                            *)
(***************************************************************************)
EXTENDS BatchRun, SequenceTheorems, TLAPS

\* The completed calls, as records over main's own modes and commands.
RunRec == [mode : {Steps[k].mode : k \in 1..Len(Steps)},
           cmd : {Steps[k].cmd : k \in 1..Len(Steps)},
           status : {"ok", "error"}]

\* InOrder together with the type of the log it speaks of.
OrderInv == InOrder /\ runs \in Seq(RunRec)

LEMMA OrderInvInit ==
  ASSUME NEW S, Steps \in Seq(S)
  PROVE  Init => OrderInv
<1> SUFFICES ASSUME Init PROVE OrderInv
  OBVIOUS
<1>1. Len(Steps) \in Nat
  BY LenProperties
<1>2. runs \in Seq(RunRec) /\ Len(runs) = 0
  BY EmptySeq DEF Init
<1>. QED
  BY <1>1, <1>2 DEF Init, OrderInv, InOrder

\* A completed call is appended at the position of main's current call.
LEMMA OrderInvStep ==
  ASSUME NEW S, Steps \in Seq(S)
  PROVE  OrderInv /\ [Next]_vars => OrderInv'
<1> SUFFICES ASSUME OrderInv, [Next]_vars PROVE OrderInv'
  OBVIOUS
<1>0. Len(Steps) \in Nat
  BY LenProperties
<1>1. CASE \E status \in {"ok", "error"} : Complete(status)
  <2>1. PICK status \in {"ok", "error"} : Complete(status)
    BY <1>1
  <2> DEFINE r == [mode |-> Steps[pc].mode, cmd |-> Steps[pc].cmd,
                   status |-> status]
  <2>2. pc \in 1..Len(Steps) /\ runs' = Append(runs, r) /\ pc' = pc + 1
    BY <2>1, <1>0 DEF Complete, Running, OrderInv, InOrder
  <2>3. r \in RunRec
    BY <2>2 DEF RunRec
  <2>4. /\ runs' \in Seq(RunRec)
        /\ Len(runs') = Len(runs) + 1
        /\ \A k \in 1..Len(runs) : runs'[k] = runs[k]
        /\ runs'[Len(runs) + 1] = r
    BY <2>2, <2>3, AppendProperties DEF OrderInv
  <2>5. Len(runs) = pc - 1 /\ Len(runs) \in Nat
    BY DEF OrderInv, InOrder
  <2>6. \A k \in 1..Len(runs') :
          runs'[k].mode = Steps[k].mode /\ runs'[k].cmd = Steps[k].cmd
    BY <2>4, <2>5 DEF OrderInv, InOrder
  <2>. QED
    BY <1>0, <2>2, <2>4, <2>5, <2>6 DEF OrderInv, InOrder
<1>2. CASE Abort
  BY <1>2 DEF Abort, OrderInv, InOrder
<1>3. CASE UNCHANGED vars
  BY <1>3 DEF vars, OrderInv, InOrder
<1>. QED
  BY <1>1, <1>2, <1>3 DEF Next

\* For every sequence of calls, the log of completed calls is a prefix of
\* main's calls, in their order, ending just before the current one
\* (InOrder): no call is skipped, repeated or run out of turn.
THEOREM InOrderThm ==
  ASSUME NEW S, Steps \in Seq(S)
  PROVE  Spec => []InOrder
<1>1. OrderInv => InOrder
  BY DEF OrderInv
<1>. QED
  BY <1>1, OrderInvInit, OrderInvStep, PTL DEF Spec
====
