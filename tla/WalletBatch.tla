---------------------------- MODULE WalletBatch ----------------------------
(***************************************************************************)
(* wallet/examples/batch_operations.py: main's sequence of wallet commands *)
(* and the three TOSWalletBatch methods that run them as subprocesses      *)
(* (--exec, --json, --json-file).  subprocess.run with check=True ends in  *)
(* one of three ways: the wallet exits 0; it exits non-zero, and the       *)
(* CalledProcessError is caught and the method returns None; or the        *)
(* binary cannot be started, and the OSError leaves the method and main.   *)
(* execute_json_file first writes the config to a NamedTemporaryFile       *)
(* created with delete=False and removes it in a finally.                  *)
(***************************************************************************)
EXTENDS Integers, Sequences

CONSTANTS
  Steps,         \* main's calls: a sequence of [mode, cmd]
  WriteCanFail   \* json.dump or the close may raise OSError (disk full)

ASSUME StepsAssumption ==
  /\ Steps \in Seq([mode : {"exec", "json", "jsonfile"}, cmd : STRING])
  /\ WriteCanFail \in BOOLEAN

Outcomes == {"ok", "error", "oserror"}

VARIABLES
  pc,     \* index of main's current call; Len(Steps) + 1 once all are done
  raised, \* an exception has left main
  phase,  \* "call"; "file" once execute_json_file has written its file;
          \* "write_failed" when the write raised
  tmp,    \* the number of temporary JSON files on disk
  log     \* the wallet runs so far: [mode, cmd, status, file_there]

vars == <<pc, raised, phase, tmp, log>>

Init ==
  /\ pc = 1
  /\ raised = FALSE
  /\ phase = "call"
  /\ tmp = 0
  /\ log = << >>

Mode == Steps[pc].mode

\* main is still running a call.
Running == pc <= Len(Steps) /\ ~raised

\* The with block of execute_json_file: the file is created, then the
\* config is dumped into it and it is closed.  A failing write leaves the
\* method before the try, with the file on disk.
WriteFile ==
  /\ Running /\ phase = "call" /\ Mode = "jsonfile"
  /\ tmp' = tmp + 1
  /\ UNCHANGED <<pc, log>>
  /\ \/ phase' = "file" /\ UNCHANGED raised
     \/ WriteCanFail /\ phase' = "write_failed" /\ raised' = TRUE

\* The wallet run and main's step: an OSError is not caught and ends main;
\* otherwise the run is logged and main goes on to its next call.
RunStep(o, there) ==
  /\ log' = IF o = "oserror" THEN log
            ELSE Append(log, [mode |-> Mode, cmd |-> Steps[pc].cmd,
                              status |-> o, file_there |-> there])
  /\ IF o = "oserror" THEN raised' = TRUE /\ UNCHANGED pc
     ELSE pc' = pc + 1 /\ UNCHANGED raised
  /\ phase' = "call"

\* The call is ready to run its command: a --json-file call once its file is
\* written.
ReadyToRun == Running /\ phase = IF Mode = "jsonfile" THEN "file" ELSE "call"

\* Mutant: an except Exception also catches the OSError, and main goes on.
RunCatchAll ==
  /\ ReadyToRun
  /\ \E o \in Outcomes :
       /\ log' = Append(log, [mode |-> Mode, cmd |-> Steps[pc].cmd,
                              status |-> o, file_there |-> tmp > 0])
       /\ pc' = pc + 1
  /\ tmp' = IF Mode = "jsonfile" THEN tmp - 1 ELSE tmp
  /\ UNCHANGED raised /\ phase' = "call"

\* Mutant: os.unlink after subprocess.run inside the try, not in a finally.
RunNoFinally ==
  /\ ReadyToRun
  /\ \E o \in Outcomes :
       /\ RunStep(o, tmp > 0)
       /\ tmp' = IF Mode = "jsonfile" /\ o = "ok" THEN tmp - 1 ELSE tmp

\* Mutant: a call whose wallet run failed is retried instead of main
\* going on.
RunRetry ==
  /\ ReadyToRun
  /\ \E o \in Outcomes :
       /\ log' = IF o = "oserror" THEN log
                 ELSE Append(log, [mode |-> Mode, cmd |-> Steps[pc].cmd,
                                   status |-> o, file_there |-> tmp > 0])
       /\ raised' = (o = "oserror")
       /\ pc' = IF o = "ok" THEN pc + 1 ELSE pc
  /\ tmp' = IF Mode = "jsonfile" THEN tmp - 1 ELSE tmp
  /\ phase' = "call"

\* Mutant: the file is removed before the wallet runs.
RunUnlinkFirst ==
  /\ ReadyToRun
  /\ \E o \in Outcomes :
       /\ RunStep(o, Mode = "jsonfile" /\ tmp > 1)
       /\ tmp' = IF Mode = "jsonfile" THEN tmp - 1 ELSE tmp

\* subprocess.run of the wallet, the except, and for --json-file the
\* finally that removes the file.
Run ==
  /\ ReadyToRun
  /\ \E o \in Outcomes :
       /\ RunStep(o, Mode = "jsonfile" /\ tmp > 0)
       /\ tmp' = IF Mode = "jsonfile" THEN tmp - 1 ELSE tmp

Next == WriteFile \/ Run

Spec == Init /\ [][Next]_vars

Ended == ~Running

\* The runs main has made, as BatchRun sees them: the log without the
\* file's presence.
Runs == [k \in 1..Len(log) |->
          [mode |-> log[k].mode, cmd |-> log[k].cmd, status |-> log[k].status]]

Batch == INSTANCE BatchRun WITH runs <- Runs

-----------------------------------------------------------------------------
(***************************************************************************)
(* Properties.                                                             *)
(***************************************************************************)

\* Every variable holds a value of its type; a wallet that could not be
\* started is not logged as a run.
TypeOK ==
  /\ pc \in 1..(Len(Steps) + 1)
  /\ raised \in BOOLEAN
  /\ phase \in {"call", "file", "write_failed"}
  /\ tmp \in Nat
  /\ log \in Seq([mode : {"exec", "json", "jsonfile"}, cmd : STRING,
                  status : {"ok", "error"}, file_there : BOOLEAN])

\* The finally of execute_json_file: once main has ended, normally, by a
\* wallet that cannot be started, or with any exit status of the wallet,
\* no temporary config file is left on disk, unless main ended because
\* writing that file failed.
TempFileRemoved == Ended /\ phase # "write_failed" => tmp = 0

\* A temporary config file, which holds the command's parameters, is
\* never left on disk once main has ended.
NoTempFileLeft == Ended => tmp = 0

\* Every --json-file run of the wallet finds its config file on disk: the
\* file is removed only after subprocess.run returns.
ConfigThereWhenRun ==
  \A k \in 1..Len(log) : log[k].mode = "jsonfile" => log[k].file_there

\* main, with its three methods and the temporary files of --json-file,
\* implements BatchRun: it runs its calls in order, each exactly once,
\* goes on after a failed wallet run and stops at the first exception.
ImplementsBatchRun == Batch!Spec

=============================================================================
