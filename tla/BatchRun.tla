------------------------------ MODULE BatchRun ------------------------------
(***************************************************************************)
(* What main of wallet/examples/batch_operations.py promises, without the  *)
(* temporary files: it runs its calls in order, each at most once; a call  *)
(* whose wallet run ends (with exit 0 or with an error status) is logged   *)
(* with that status and main goes on; an exception ends main at the call   *)
(* it came from.                                                           *)
(***************************************************************************)
EXTENDS Integers, Sequences

CONSTANT Steps   \* main's calls: a sequence of [mode, cmd]

VARIABLES
  pc,      \* index of main's current call
  raised,  \* an exception has left main
  runs     \* the completed calls: [mode, cmd, status]

vars == <<pc, raised, runs>>

Init ==
  /\ pc = 1
  /\ raised = FALSE
  /\ runs = << >>

Running == pc <= Len(Steps) /\ ~raised

\* The call returns: the wallet ran and exited with the given status.
Complete(status) ==
  /\ Running
  /\ runs' = Append(runs, [mode |-> Steps[pc].mode, cmd |-> Steps[pc].cmd,
                           status |-> status])
  /\ pc' = pc + 1
  /\ UNCHANGED raised

\* The call raises, and the exception leaves main.
Abort ==
  /\ Running
  /\ raised' = TRUE
  /\ UNCHANGED <<pc, runs>>

Next == (\E status \in {"ok", "error"} : Complete(status)) \/ Abort

Spec == Init /\ [][Next]_vars

\* The log is main's calls in order, each once: the k-th completed call is
\* the k-th call of main, and every call before the current one completed.
InOrder ==
  /\ pc \in 1..(Len(Steps) + 1)
  /\ Len(runs) = pc - 1
  /\ \A k \in 1..Len(runs) : runs[k].mode = Steps[k].mode /\ runs[k].cmd = Steps[k].cmd
=============================================================================
