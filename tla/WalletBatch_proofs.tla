-------------------------- MODULE WalletBatch_proofs --------------------------
(***************************************************************************)
(* Proofs that the wallet batch driver removes every temporary config file *)
(* that reached the try, and never runs the wallet on a removed one, for   *)
(* every sequence of calls of main.                                        *)
(***************************************************************************)
EXTENDS WalletBatch, SequenceTheorems, TLAPS

(***************************************************************************)
(* TempFileRemoved is not inductive: a state with main ended and a file    *)
(* left in phase "call" satisfies it but never arises.  The strengthening  *)
(* ties the number of files to the phase of execute_json_file: one file    *)
(* exists exactly while a --json-file call is between its write and its    *)
(* finally, or after its write failed.                                     *)
(***************************************************************************)
FileInv ==
  /\ tmp = IF phase \in {"file", "write_failed"} THEN 1 ELSE 0
  /\ phase = "file" => Running /\ Mode = "jsonfile"
  /\ phase = "write_failed" => raised

IInv == TypeOK /\ FileInv /\ ConfigThereWhenRun

\* The record main's current call stands for.
LEMMA StepFields ==
  ASSUME pc \in 1..Len(Steps)
  PROVE  /\ Mode \in {"exec", "json", "jsonfile"}
         /\ Steps[pc].cmd \in STRING
<1>1. Steps[pc] \in [mode : {"exec", "json", "jsonfile"}, cmd : STRING]
  BY StepsAssumption, ElementOfSeq
<1>. QED
  BY <1>1, Zenon DEF Mode

LEMMA IInvInit == Init => IInv
<1> SUFFICES ASSUME Init PROVE IInv
  OBVIOUS
<1>1. Len(Steps) \in Nat
  BY StepsAssumption
<1>2. log \in Seq([mode : {"exec", "json", "jsonfile"}, cmd : STRING,
                  status : {"ok", "error"}, file_there : BOOLEAN])
  BY EmptySeq DEF Init
<1>3. pc \in 1..(Len(Steps) + 1)
  BY <1>1 DEF Init
<1>6. raised \in BOOLEAN /\ phase \in {"call", "file", "write_failed"} /\ tmp \in Nat
  BY Zenon DEF Init
<1>4. TypeOK
  BY <1>2, <1>3, <1>6, Zenon DEF TypeOK
<1>5. FileInv /\ ConfigThereWhenRun
  BY DEF Init, FileInv, ConfigThereWhenRun
<1>. QED
  BY <1>4, <1>5 DEF IInv

\* A --json-file call writes its file.
LEMMA WriteFileStep == IInv /\ WriteFile => IInv'
<1> SUFFICES ASSUME IInv, WriteFile PROVE IInv'
  OBVIOUS
<1>1. tmp = 0 /\ tmp' = 1 /\ UNCHANGED <<pc, log>> /\ Running /\ Mode = "jsonfile"
  BY DEF WriteFile, IInv, FileInv
<1>2. CASE phase' = "file" /\ UNCHANGED raised
  <2>1. Running' /\ Mode' = "jsonfile"
    BY <1>1, <1>2 DEF Running, Mode
  <2>. QED
    BY <1>1, <1>2, <2>1 DEF IInv, TypeOK, FileInv, ConfigThereWhenRun
<1>3. CASE WriteCanFail /\ phase' = "write_failed" /\ raised' = TRUE
  BY <1>1, <1>3 DEF IInv, TypeOK, FileInv, ConfigThereWhenRun
<1>. QED
  BY <1>2, <1>3 DEF WriteFile

\* The wallet runs; main goes on or ends, and the finally removes the file.
LEMMA RunStepInv == IInv /\ Run => IInv'
<1> SUFFICES ASSUME IInv, NEW o \in Outcomes, ReadyToRun,
                    RunStep(o, Mode = "jsonfile" /\ tmp > 0),
                    tmp' = IF Mode = "jsonfile" THEN tmp - 1 ELSE tmp
             PROVE  IInv'
  BY DEF Run
<1>1. pc \in 1..Len(Steps) /\ ~raised /\ Len(Steps) \in Nat
  BY StepsAssumption DEF ReadyToRun, Running, IInv, TypeOK
<1>2. Mode \in {"exec", "json", "jsonfile"} /\ Steps[pc].cmd \in STRING
  BY <1>1, StepFields
<1>3. phase = IF Mode = "jsonfile" THEN "file" ELSE "call"
  BY DEF ReadyToRun
<1>4. tmp' = 0 /\ phase' = "call"
  BY <1>3 DEF IInv, FileInv, RunStep
<1>5. (Mode = "jsonfile" /\ tmp > 0) = (Mode = "jsonfile")
  BY <1>3 DEF IInv, FileInv
<1>6. CASE o = "oserror"
  <2>1. log' = log /\ raised' = TRUE /\ pc' = pc
    BY <1>6 DEF RunStep
  <2>. QED
    BY <1>1, <1>4, <2>1 DEF IInv, TypeOK, FileInv, ConfigThereWhenRun
<1>7. CASE o # "oserror"
  <2> DEFINE entry == [mode |-> Mode, cmd |-> Steps[pc].cmd, status |-> o,
                       file_there |-> Mode = "jsonfile" /\ tmp > 0]
  <2>1. log' = Append(log, entry) /\ pc' = pc + 1 /\ raised' = raised
    BY <1>7 DEF RunStep
  <2>2. entry \in [mode : {"exec", "json", "jsonfile"}, cmd : STRING,
                   status : {"ok", "error"}, file_there : BOOLEAN]
    BY <1>2, <1>7 DEF Outcomes
  <2>3. entry.mode = "jsonfile" => entry.file_there
    BY <1>5
  <2>4. log' \in Seq([mode : {"exec", "json", "jsonfile"}, cmd : STRING,
                      status : {"ok", "error"}, file_there : BOOLEAN])
    BY <2>1, <2>2, AppendProperties DEF IInv, TypeOK
  <2>6. TypeOK'
    BY <1>1, <1>4, <2>1, <2>4 DEF IInv, TypeOK
  <2>5. ConfigThereWhenRun'
    BY <2>1, <2>3 DEF IInv, TypeOK, ConfigThereWhenRun
  <2>. QED
    BY <1>4, <2>6, <2>5 DEF IInv, FileInv
<1>. QED
  BY <1>6, <1>7

LEMMA IInvStep == IInv /\ [Next]_vars => IInv'
<1> SUFFICES ASSUME IInv, [Next]_vars PROVE IInv'
  OBVIOUS
<1>1. CASE WriteFile
  BY <1>1, WriteFileStep
<1>2. CASE Run
  BY <1>2, RunStepInv
<1>3. CASE UNCHANGED vars
  BY <1>3 DEF vars, IInv, TypeOK, FileInv, ConfigThereWhenRun, Running, Mode
<1>. QED
  BY <1>1, <1>2, <1>3 DEF Next

\* The finally of execute_json_file: for every sequence of calls, once
\* main has ended (normally, or by a wallet that cannot be started) no
\* temporary config file is left, unless writing it failed (TempFileRemoved).
THEOREM TempFileRemovedThm == Spec => []TempFileRemoved
<1>1. IInv => TempFileRemoved
  BY DEF IInv, FileInv, TempFileRemoved, Ended
<1>. QED
  BY <1>1, IInvInit, IInvStep, PTL DEF Spec

\* For every sequence of calls, every --json-file run of the wallet finds
\* its config file on disk (ConfigThereWhenRun).
THEOREM ConfigThereWhenRunThm == Spec => []ConfigThereWhenRun
<1>1. IInv => ConfigThereWhenRun
  BY DEF IInv
<1>. QED
  BY <1>1, IInvInit, IInvStep, PTL DEF Spec

\* main's state keeps its type for every sequence of calls: in particular a
\* wallet that could not be started is never logged as a run.
THEOREM TypeCorrect == Spec => []TypeOK
<1>1. IInv => TypeOK
  BY DEF IInv
<1>. QED
  BY <1>1, IInvInit, IInvStep, PTL DEF Spec
-----------------------------------------------------------------------------
(***************************************************************************)
(* Refinement: main implements BatchRun under the mapping Runs, which      *)
(* forgets whether a --json-file run found its file.  A written file is a  *)
(* step BatchRun does not see; a failing write and a wallet that cannot be *)
(* started are its Abort; a wallet run that exits, with any status, is its *)
(* Complete.                                                               *)
(***************************************************************************)
RunsOf(L) == [k \in 1..Len(L) |->
               [mode |-> L[k].mode, cmd |-> L[k].cmd, status |-> L[k].status]]

\* Forgetting a field commutes with appending a run to the log.
LEMMA RunsOfAppend ==
  ASSUME NEW S, NEW L \in Seq(S), NEW e \in S
  PROVE  RunsOf(Append(L, e)) =
           Append(RunsOf(L), [mode |-> e.mode, cmd |-> e.cmd, status |-> e.status])
<1> DEFINE Fst(x) == [mode |-> x.mode, cmd |-> x.cmd, status |-> x.status]
           T == {Fst(x) : x \in S}
           R == RunsOf(L)
<1>1. /\ Append(L, e) \in Seq(S)
      /\ Len(Append(L, e)) = Len(L) + 1
      /\ \A k \in 1..Len(L) : Append(L, e)[k] = L[k]
      /\ Append(L, e)[Len(L) + 1] = e
  BY AppendProperties
<1>2. Len(L) \in Nat /\ \A k \in 1..Len(L) : L[k] \in S
  BY LenProperties, ElementOfSeq
<1>3. R \in [1..Len(L) -> T]
  BY <1>2 DEF RunsOf
<1>4. R \in Seq(T) /\ Len(R) = Len(L)
  BY <1>2, <1>3, SeqDef
<1>5. Fst(e) \in T
  OBVIOUS
<1>6. /\ Append(R, Fst(e)) \in Seq(T)
      /\ Len(Append(R, Fst(e))) = Len(L) + 1
      /\ \A k \in 1..Len(L) : Append(R, Fst(e))[k] = R[k]
      /\ Append(R, Fst(e))[Len(L) + 1] = Fst(e)
  BY <1>4, <1>5, AppendProperties
<1>7. RunsOf(Append(L, e)) \in Seq(T)
  <2>1. \A k \in 1..(Len(L) + 1) : Append(L, e)[k] \in S
    BY <1>1, <1>2
  <2>2. RunsOf(Append(L, e)) \in [1..(Len(L) + 1) -> T]
    BY <1>1, <2>1 DEF RunsOf
  <2>. QED
    BY <1>2, <2>2, SeqDef
<1>8. Len(RunsOf(Append(L, e))) = Len(L) + 1
  BY <1>1, <1>2, <1>7 DEF RunsOf
<1>9. \A k \in 1..(Len(L) + 1) : RunsOf(Append(L, e))[k] = Append(R, Fst(e))[k]
  BY <1>1, <1>2, <1>6 DEF RunsOf
<1>. QED
  BY <1>6, <1>7, <1>8, <1>9, SeqEqual

LogRec == [mode : {"exec", "json", "jsonfile"}, cmd : STRING,
           status : {"ok", "error"}, file_there : BOOLEAN]

LEMMA RunsIsRunsOf == Runs = RunsOf(log)
  BY DEF Runs, RunsOf

\* main starts at its first call with nothing run: BatchRun's start.
LEMMA RefineInit == Init => Batch!Init
<1> SUFFICES ASSUME Init PROVE Batch!Init
  OBVIOUS
<1>1. Runs = << >>
  BY EmptySeq DEF Init, Runs
<1>. QED
  BY <1>1 DEF Init, Batch!Init

\* Each step of main is a step of BatchRun or leaves its state alone.
LEMMA RefineStep == IInv /\ [Next]_vars => [Batch!Next]_Batch!vars
<1> SUFFICES ASSUME IInv, [Next]_vars PROVE [Batch!Next]_Batch!vars
  OBVIOUS
<1>0. Batch!vars = <<pc, raised, Runs>> /\ Batch!Running = Running
  BY DEF Batch!vars, Batch!Running, Running
<1>1. CASE WriteFile /\ phase' = "file" /\ UNCHANGED raised
  <2>1. UNCHANGED <<pc, raised, Runs>>
    BY <1>1 DEF WriteFile, Runs
  <2>. QED
    BY <2>1 DEF Batch!vars
<1>2. CASE WriteFile /\ WriteCanFail /\ phase' = "write_failed" /\ raised' = TRUE
  <2>1. Running /\ raised' = TRUE /\ UNCHANGED <<pc, Runs>>
    BY <1>2 DEF WriteFile, Runs
  <2>. QED
    BY <1>0, <2>1 DEF Batch!Next, Batch!Abort
<1>3. CASE Run
  <2> SUFFICES ASSUME NEW o \in Outcomes, ReadyToRun,
                      RunStep(o, Mode = "jsonfile" /\ tmp > 0)
               PROVE  [Batch!Next]_Batch!vars
    BY <1>3 DEF Run
  <2>1. Running
    BY DEF ReadyToRun
  <2>2. CASE o = "oserror"
    <3>1. raised' = TRUE /\ UNCHANGED <<pc, Runs>>
      BY <2>2 DEF RunStep, Runs
    <3>. QED
      BY <1>0, <2>1, <3>1 DEF Batch!Next, Batch!Abort
  <2>3. CASE o # "oserror"
    <3> DEFINE entry == [mode |-> Mode, cmd |-> Steps[pc].cmd, status |-> o,
                         file_there |-> Mode = "jsonfile" /\ tmp > 0]
    <3>1. log' = Append(log, entry) /\ pc' = pc + 1 /\ UNCHANGED raised
      BY <2>3 DEF RunStep
    <3>2. pc \in 1..Len(Steps)
      BY <2>1 DEF Running, IInv, TypeOK
    <3>3. entry \in LogRec
      BY <3>2, <2>3, StepFields DEF Outcomes, LogRec
    <3>4. log \in Seq(LogRec)
      BY DEF IInv, TypeOK, LogRec
    <3>5. Runs' = Append(Runs, [mode |-> Steps[pc].mode, cmd |-> Steps[pc].cmd,
                                status |-> o])
      <4>1. RunsOf(Append(log, entry)) =
              Append(RunsOf(log), [mode |-> entry.mode, cmd |-> entry.cmd,
                                   status |-> entry.status])
        BY <3>3, <3>4, RunsOfAppend
      <4>2. Runs' = RunsOf(Append(log, entry))
        BY <3>1 DEF Runs, RunsOf
      <4>. QED
        BY <4>1, <4>2, RunsIsRunsOf DEF Mode
    <3>6. o \in {"ok", "error"}
      BY <2>3 DEF Outcomes
    <3>. QED
      BY <1>0, <2>1, <3>1, <3>5, <3>6 DEF Batch!Next, Batch!Complete
  <2>. QED
    BY <2>2, <2>3
<1>4. CASE UNCHANGED vars
  <2>1. UNCHANGED <<pc, raised, Runs>>
    BY <1>4 DEF vars, Runs
  <2>. QED
    BY <2>1 DEF Batch!vars
<1>. QED
  BY <1>1, <1>2, <1>3, <1>4 DEF Next, WriteFile

\* main implements BatchRun (ImplementsBatchRun): for every sequence of
\* calls it runs them in order, each exactly once with the status the
\* wallet exited with, goes on after a failed run, and stops at the first
\* exception, with the temporary files of --json-file and the write that
\* precedes them hidden.
THEOREM Refinement == Spec => ImplementsBatchRun
<1>1. Spec => []IInv
  BY IInvInit, IInvStep, PTL DEF Spec
<1>. QED
  BY <1>1, RefineInit, RefineStep, PTL DEF Spec, ImplementsBatchRun, Batch!Spec

BatchProofs == INSTANCE BatchRun_proofs WITH runs <- Runs

\* Through the refinement: for every sequence of calls, main's logged runs
\* are its calls in order, each once, up to the current one (InOrder of
\* BatchRun, on the mapped log).
THEOREM RunsInOrderThm == Spec => []Batch!InOrder
<1>1. Steps \in Seq([mode : {"exec", "json", "jsonfile"}, cmd : STRING])
  BY StepsAssumption
<1>2. Batch!Spec => []Batch!InOrder
  <2>1. BatchProofs!Spec => []BatchProofs!InOrder
    BY <1>1, BatchProofs!InOrderThm
  <2>. QED
    BY <2>1 DEF BatchProofs!Spec, Batch!Spec, BatchProofs!InOrder, Batch!InOrder,
              BatchProofs!Init, Batch!Init, BatchProofs!Next, Batch!Next,
              BatchProofs!vars, Batch!vars, BatchProofs!Complete, Batch!Complete,
              BatchProofs!Abort, Batch!Abort, BatchProofs!Running, Batch!Running
<1>. QED
  BY <1>2, Refinement, PTL DEF ImplementsBatchRun
====
