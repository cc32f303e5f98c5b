# TLA+ models of the log-optimization checker and the repository's scripts

This directory holds a verification project for `src/scripts/check_log_optimization.py`, the repository's core, and for three smaller programs beside it:
- the two economic-model demos of `src/ai_miner/`;
- the wallet batch driver of `src/wallet/examples/`.

The core script scans a Rust source tree for log macro calls (`trace!`, `debug!`, `info!`, `warn!`, `error!`) whose message has a format placeholder and that are not inside an `if log_enabled!(log::Level::X) { ... }` block of their own level.

The project contains:
- TLA+ modules of the script's components;
- TLC configurations that model-check them on small instances;
- TLAPS proofs of the main properties, for every instance.

## The system

`spec.md` names six parts. Their code is all in one class, `LogOptimizationChecker`:

| Part (spec) | Code | Role |
|---|---|---|
| Pattern Set | `LOG_LEVELS`, the three `re.compile` in `check_file` (l. 23-29, 135-140) | data |
| Guard-Block Tracker | `in_log_enabled_block`, `brace_depth`, `log_enabled_level` (l. 130-162) | per-file state machine |
| Statement Joiner | `full_statement`, `paren_depth`, `j` (l. 169-176) | joins a multi-line call |
| Format-Placeholder Detector | `format_arg_pattern.search` (l. 178-179) | regex on the joined text |
| File Analyzer | `check_file` (l. 115-200) | drives the above over one file |
| Path Classifier | `is_hot_path`, `is_test_file` (l. 101-113) | substring tests on the path |
| Aggregator | `scan_directory`, `get_summary` (l. 202-248) | per-file loop and summary counts |

How they interact:
- `main` builds one checker and calls `scan_directory` once.
- `scan_directory` walks every `*.rs` file and calls `check_file` on each file whose path does not contain `/target/`.
- `check_file` classifies the path once. It then runs one sequential pass over the lines, in which the tracker and the joiner interleave.
- Each finding is tagged with the file's flags. The file's stats are stored in `files[path]`, and `total_logs` grows by their count.
- `get_summary` folds the stored findings into counts.
- The report renderers print the summary.

The rest of `src/` is out of the spec's scope and is listed in `PROJECT.json` with the reason. It contains:
- RPC test clients and test suites;
- wallet helpers driving a binary through subprocesses;
- AI-miner demo calculators.

### The other programs

- `SecureTOSAIMiningDemo` (`ai_miner/secure_ai_mining_demo.py`) has three calculators, and `run_security_analysis` chains them for each account:
  - `calculate_anti_sybil_measures` turns age, history and stake into a reputation and a set of access levels;
  - `calculate_secure_gas_pricing` prices a task from its content length and difficulty, the reputation and the stake;
  - `calculate_rate_limiting` derives a cooldown from the reputation.
- `ImprovedTOSAIMiningDemo` (`ai_miner/improved_ai_mining_demo.py`) has a tiered gas price and a reward model.
- `TOSWalletBatch` (`wallet/examples/batch_operations.py`): `main` runs eight wallet commands in order, each as a subprocess. A `--json-file` command first writes its config to a temporary file, which a `finally` removes.

## What is hard about this code

The checker has no concurrency. What is hard is the single pass: a per-line state machine whose state (guard level and brace depth) has to follow the real block structure of the file. Several sequences of lines make it go wrong:
- a line that closes and reopens a block;
- a guard nested in another guard;
- a log call on a guard line;
- a call left open at the end of the file.

A unit test writes down a handful of files. The model checker enumerates every file up to a length over an alphabet of line shapes.

## Modules

### `LogScan` — check_file (File Analyzer, Tracker, Joiner, Detector)

A file is a sequence of abstract lines, the constant `Files`. A line keeps exactly what the three regular expressions and the `str.count` calls can tell apart:

- `guard`: the level of a `log_enabled!` match on the line, or `None`;
- `log`: the macro name matched by `log_pattern`, or `None`;
- `closes`, `opens`: the block braces, with the `}` before the `{` as rustfmt writes them;
- `ph`: a placeholder `{...}` inside a string, between the closing and the opening braces;
- `lpar`, `rpar`: the counts of `(` and `)`.

`line.count('{')` is `opens + ph` (`LBraces`), and `line.count('}')` is `closes + ph` (`RBraces`).

The variables are the code's own: `i`, `in_block`, `brace_depth`, `enabled_level`, `j`, `paren_depth`, and `logs` (stats.logs). There is also `pc` for the control point. The joined text is abstracted to two booleans:
- `stmt_open`: the text has a `{`;
- `stmt_ph`: `\{[^}]*\}` matches the text.

`stmt_ph` is updated incrementally: the regex matches iff some `{` comes before some `}`.

Each action is one branch of one iteration of the `while` loop:

| Action | Code |
|---|---|
| `Open` / `ReadFail` | the `try` around `readlines` (l. 121-126) |
| `GuardLine` | the guard branch, through its `continue` (l. 147-155) |
| `TrackBraces` (used by the next two) | the depth update (l. 157-162) |
| `ScanLine` | a line that matches neither pattern |
| `LogLine` | the log match and the joiner's initialisation (l. 164-172) |
| `JoinLine` | one iteration of the joiner loop (l. 173-176) |
| `JoinDone` | the placeholder test, `is_wrapped`, the append, `i += 1` (l. 178-196) |
| `Finish` | the loop exit |

Alongside the code's state, the module keeps a reference view made of history variables that no action of the code reads:
- `blocks`: the true stack of open blocks, each tagged with the level of the guard whose `{` opened it;
- `pending`: a guard whose `{` is still to come;
- `wasGuarded`;
- `owed`: the lines the spec (sections 3 and 8) says must be reported.

The properties compare `logs` with `owed`:

- `NoMissedFinding`: `owed ⊆ ReportedLines`. Every placeholder call that no open guard of its level encloses is reported.
- `NoSpuriousFinding`: `ReportedLines ⊆ owed`. Nothing else is reported.
- `Termination`: `check_file` returns, also on a call left open at end of file.
- `TypeOK`.

`MC_LogScan` builds the file sets from eleven line shapes, each commented with the Rust text it stands for. It keeps the compilable files (`Balanced`: no `}` without its `{`), and it can drop files with nested guards (`Unnested`).

### `LogAggregate`: scan_directory, get_summary and the Path Classifier

A path is the sequence of its `/`-separated segments. `Root` holds the segments of `--dir` as `str()` prints them (`<<>>` for `.`), and `RootAbsolute` tells whether it starts with `/`. `Tree` is the set of relative paths `rglob('*.rs')` finds.

Segments never contain `/`, so the code's substring tests become tests on runs of whole segments:
- `InTarget` is `'/target/' in str(file_path)`. It needs a segment `target` with a `/` on both sides, and the first segment has one before it only when the root is absolute.
- `PathHas` is `pat in rel_path` for the fragments of `HOT_PATH_PATTERNS` and of `SKIP_PATTERNS`. The fragments `/test_` and `_test.rs` match inside a segment, so they are given by the sets of segments they match.
- `ModuleKey` is `parts[:2]`.

What the line loop finds in a file is that file's outcome, chosen at `Init` for every file: `Unreadable`, or the levels of its findings. The loop itself is `LogScan`.

The actions are the three branches of one iteration of `scan_directory`'s `for` loop, plus its return:
- `SkipTarget`;
- `NoStats`: `check_file` returns `None`;
- `StoreStats`: `files[path] = stats` and `total_logs += count`;
- `Finish`.

A step picks any listed path. This covers every order the file system may list the files in. `get_summary` is an operator (`SummaryOf`) over the stored findings, each with its path, level and flags.

The properties compare the code's state with `SpecSummary`, the summary of the readable files of the tree outside an excluded directory (spec sections 3, 4.6, 6 and 7):
- `TotalMatchesStored`: after every merge, the running `total_logs` equals the number of stored findings, which is what `by_level` and `by_module` count.
- `NoExcludedScanned`: no file under `target/` is stored.
- `CompleteSummary`: when `scan_directory` returns, `get_summary` is `SpecSummary`, whatever the order.
- `TestTagged`: every stored finding of a file under a `tests/`, `examples/` or `benches/` directory is tagged test (spec section 4.5), at the top of the tree as well. It holds on `aggregate_core`, whose test file is `daemon/tests/a_test.rs`, and fails on `aggregate_top_tests`.

`MC_LogAggregate` has five files:
- a hot-path `mod.rs`;
- a second `mod.rs` in another directory;
- a test file;
- a build output under `target/`;
- a top-level `main.rs`.

Each file has one of four outcomes: unreadable, no findings, one finding, or two findings of two levels.

### `SecureMining`: the secure economic model

The code computes in floats. The model holds every quantity as an exact integer:
- a multiplier in tenths (`StakeMultiplier`, `ReputationDiscount`, `DifficultyMultiplier`);
- a reputation in units of 10^-7 (`Reputation`), the step of its three weighted scores.

The fee is `int(raw_cost * stake_multiplier * reputation_discount)`, which the model computes as an integer quotient. `MulDiv` keeps TLC's 32-bit integers from overflowing.

The float computation can differ from the exact one in the last place:
- a fee is one nanoTOS short in 32 of the 1,920 inputs of the run;
- at age 7, no history and stake 100,000, the reputation is exactly 0.1 but the float sum is 0.09999999999999999, which denies Basic access.

Every float step is monotone (division by a constant, `min`, multiplication by a positive constant, addition, `int()`). So the code orders two calls exactly as the model does, and the properties only compare two calls. The run's inputs avoid the sums that round below a threshold. These cases are listed as hazards.

The variable `call` holds the arguments of one iteration of `run_security_analysis`'s loop, whose body is `AnalyseAttacker`. The action `Analyse` moves to an account that differs in one argument. The properties are action properties that compare two consecutive calls. Any two ordered inputs are linked by a chain of such steps, so comparing consecutive calls covers every pair.

- `StandingNeverHurts`: more age, history or stake, for the same task, never raises the fee, never lengthens the cooldown and never removes an access level. The stake enters twice (the reputation and the stake multiplier), and the reputation enters three threshold ladders.
- `LongerContentNeverCheaper`: the "progressive pricing" of the comment. It is violated: the 50-byte floor tier costs more than 51 bytes.

### `ImprovedMining`: the improved economic model

`calculate_improved_gas_pricing` and `calculate_improved_rewards` are modelled over exact integers, with the same harness as above. The gas is exact, because content costs are multiples of 50,000. The code's reward is one nanoTOS short for scores 29, 57 and 58, where `score / 100.0` is inexact.

- `GasNeverFallsWithLength`: across the free, 100-500 and 500+ tiers.
- `RewardNeverFallsWithScore`: across the 80 and 90 bonus steps.

### `WalletBatch`: the wallet batch driver

The variables:
- `pc`: the index of `main`'s call;
- `raised`: an exception has left `main`;
- `phase`: where `execute_json_file` is;
- `tmp`: the number of temporary files on disk;
- `log`: the wallet runs.

The actions:
- `WriteFile`: the `with NamedTemporaryFile(delete=False)` block. The write may raise (disk full) when `WriteCanFail` holds.
- `Run`: `subprocess.run(check=True)` with its three endings. Exit 0, or a non-zero exit whose `CalledProcessError` is caught, lets `main` go on. An `OSError` when the binary cannot be started ends `main`. The `finally` removes a `--json-file` call's file.

The properties:
- `TempFileRemoved`: a file that reached the `try` never outlives `main`.
- `ConfigThereWhenRun`: the wallet never runs on a removed file.
- `NoTempFileLeft`: no file is ever left behind. It is violated when the write fails.
- `ImplementsBatchRun`: `main` implements the abstract specification `BatchRun` (below).

### `FindingsWalk`: what `scan_directory` promises

`FindingsWalk` states what `scan_directory` promises `get_summary` (spec sections 3 and 4.6), without the path tests or the `FileStats` records. Its variables are:
- `found[p]`: the findings a visit of file `p` contributes. It is fixed at `Init`, each set is finite, and no finding belongs to two files.
- `visited`, `report`, `total` and `done`.

It has two actions:
- `Visit`: a file not yet visited is visited. Its findings join `report`, and their number is added to `total`.
- `Finish`: the walk returns, once every file has been visited.

`Counted` (`total = Cardinality(report)`) and `Complete` (when done, `report` is the union of every `found[p]`) are its promises.

`LogAggregate` maps onto it with `Walk == INSTANCE FindingsWalk WITH ...`:
- `found[p]` is `Contribution(p)`: the findings of the `FileStats` that `check_file` returns for `p`, or none when the loop skips `p` or gets `None`;
- `visited` is `Tree \ todo`;
- `report` is `FindingsOf(files)`;
- `total` is `total_logs`;
- `done` is `pc = "done"`.

Each of `SkipTarget`, `NoStats` and `StoreStats` is a `Visit`, and the return is `Finish`. The `aggregate_core` run checks `ImplementsFindingsWalk == Walk!Spec` as a `PROPERTY`. Its mutant `StoreStatsFileCount` adds 1 per file to `total_logs` instead of the file's count, and TLC rejects it.

### `BatchRun`: what `main` promises

`BatchRun` states `main`'s promise without the temporary files. It has three variables:
- `pc`: the current call;
- `raised`: an exception has left `main`;
- `runs`: the completed calls, as `[mode, cmd, status]`.

It has two actions:
- `Complete(status)`: a call ends with exit status `ok` or `error`. It is logged, and `main` goes on.
- `Abort`: an exception ends `main` at its current call.

`InOrder` says the log is the prefix of `main`'s calls before the current one, in order, each once.

`WalletBatch` maps onto it with `Batch == INSTANCE BatchRun WITH runs <- Runs`. `Runs` is the log without the `file_there` field; `pc` and `raised` map to themselves. Under this mapping:
- a written file is a stutter;
- a failing write is `Abort`, and so is a binary that cannot be started;
- a wallet run with either exit status is `Complete`.

The `wallet_batch` run checks `ImplementsBatchRun == Batch!Spec` as a `PROPERTY`. Its mutant `RunRetry` retries a call whose wallet run failed instead of going on, and TLC rejects it.

### Fairness

`Spec` has `WF_vars(Next)`. `check_file` is one sequential loop with no blocking call and no other thread, so a step that stays enabled is taken. The scan really stops, so the runs set `CHECK_DEADLOCK FALSE`: the final states `done` and `failed` have no successor.

## Runs

| Run | Files | Checks | Result |
|---|---|---|---|
| `logscan_core` (`MC_LogScan.cfg`) | every compilable, unnested file of ≤ 5 lines over the base shapes, two levels | TypeOK, NoMissedFinding, NoSpuriousFinding, Termination | pass (3.3 M distinct states, about 75 s) |
| `logscan_else` (`MC_LogScan_Else.cfg`) | base shapes plus `} else {`, ≤ 4 lines | NoMissedFinding | violation |
| `logscan_guard_log` (`MC_LogScan_GuardLog.cfg`) | base shapes plus `L!("{}"); if log_enabled!(G) {` on one line, ≤ 4 lines | NoMissedFinding | violation |
| `logscan_nested` (`MC_LogScan_Nested.cfg`) | base shapes, nested guards allowed, ≤ 4 lines | NoSpuriousFinding | violation |
| `aggregate_core` (`MC_LogAggregate.cfg`) | `--dir /home/dev/tos`, five files, four outcomes each, every order | TypeOK, TotalMatchesStored, NoExcludedScanned, CompleteSummary, ImplementsFindingsWalk | pass (33,792 distinct states) |
| `aggregate_dot` (`MC_LogAggregate_Dot.cfg`) | `--dir .` (the default) | NoExcludedScanned | violation |
| `aggregate_top_tests` (`MC_LogAggregate_TopTests.cfg`) | as `aggregate_core`, plus `tests/sync.rs` at the top of the tree | TestTagged | violation |
| `secure_pricing` (`MC_SecureMining.cfg`) | ages 0/3/30/90, histories 0/5/100/150, six stakes around 10,000, 100,000 and 1,000,000, lengths 50/51/200/1001, five difficulties | TypeOK, StandingNeverHurts | pass (3,840 distinct states) |
| `secure_progressive` (`MC_SecureMining_Progressive.cfg`) | as above | LongerContentNeverCheaper | violation |
| `improved_pricing` (`MC_ImprovedMining.cfg`) | lengths 0/100/101/500/501/2000, five difficulties, scores 0/50/79/80/89/90/100 | TypeOK, GasNeverFallsWithLength, RewardNeverFallsWithScore | pass (210 distinct states) |
| `wallet_batch` (`MC_WalletBatch.cfg`) | `main`'s eight calls, three endings per run, a failing write | TypeOK, TempFileRemoved, ConfigThereWhenRun, ImplementsBatchRun | pass (1,086 distinct states) |
| `wallet_leak` (`MC_WalletBatch_Leak.cfg`) | as above | NoTempFileLeft | violation |

Why the bounds are enough:
- Two levels are enough to tell a matching guard from a mismatched one. The tracker only compares levels for equality.
- Five lines hold every pattern of the core run: a guard, a block inside it, a multi-line call (opener, argument, closer), and the closing brace.
- Each violation needs at most four lines.

Symmetry over the levels would be sound for the invariants, but it is not used because the core run also checks a liveness property.

For the aggregator, five files cover every case:
- a skipped file;
- an unreadable file and a file with no findings;
- two files with the same name, which would collide if the map were keyed by name;
- a hot-path file and a test file, for the flags;
- a one-segment path, for the module key.

Every order of the five is explored.

The LogScan violations are three of the findings in `PROJECT.json`:
1. `} else {` keeps the tracker in the guard block, and a call in the else branch is missed (line 159).
2. A call on a guard line is skipped by `continue` (line 155).
3. A nested guard of another level overwrites the tracker's level and depth, and a call guarded by the still-open outer block is reported (line 151).

The other two findings come from the aggregator:
4. With the default `--dir .`, paths are relative (`target/debug/...`), so `'/target/'` never matches and the build output is scanned (line 208).
5. With a root under a directory named `target`, every path matches and the report is empty (line 208). It shares line 208 with finding 4 and has no run of its own. Setting `Root <- MCRootInTarget` and `RootAbsolute = TRUE` in `MC_LogAggregate.cfg` makes TLC report `CompleteSummary` violated.

Three more findings come from the other runs:
6. A file of a `tests/` directory at the top of the scanned tree (`tests/sync.rs`, where Cargo keeps integration tests) is counted as production code. The fragment `'/tests/'` (line 46) needs a `/` before `tests` in the relative path; `/examples/` and `/benches/` miss the same way. Spec section 4.5 counts such files as test.
7. A 50-byte task costs more than a 51-byte one: a new account pays 525,000 nanoTOS against 280,000, despite the "progressive pricing" comment (`secure_ai_mining_demo.py` line 45).
8. A failing write of the temporary config leaves the file, with the call's JSON config (in TLC's trace, the `set_nonce` of call 3a), on disk: it is created with `delete=False` before the `try` (`batch_operations.py` line 50).

For the pricing runs, the inputs sit on both sides of every threshold of the code: the stake steps, the reputation ladders at 0.1, 0.3, 0.5, 0.7, 0.8 and 0.9, the content tiers and the bonus steps. The batch run has `main`'s own eight calls.

The core run excludes exactly these shapes, and it shows that on every other file the tracker is exact.

## Proofs

### `LogScan_proofs`

Checked by `tlapm LogScan_proofs.tla`.

- `TypeCorrect`: `Spec => []TypeOK`, for every set of levels and every set of files.
  - TypeOK alone is not inductive. `TypeInv` adds that in the joiner `i` is within the file and `lines[i]` is a log line, because `JoinDone` reads `lines[i].log` and records it.
- `NoMissedFindingThm`: `ASSUME ShapedFiles PROVE Spec => []NoMissedFinding`.
  - `ShapedFiles` says that every line of every file has one of these shapes:
    - a guard line has no log call;
    - a line that is not a guard line does not both close and open blocks;
    - a log line opens no block.
  - The violation runs show that each of the first two conditions is needed.
  - The inductive invariant `IInv` is `TypeInv` plus:
    - `TrackerInv`: while the tracker is in a block, its level is a real level, and either some frame `p` of the reference stack has that level with `brace_depth <= Len(blocks) - p + 1` (the guard's block is still open, no shallower than the depth), or the guard's `{` is still to come (`pending`) and `brace_depth <= 0`;
    - `JoinInv`: while joining, a statement the tracker will treat as wrapped was inside a guard block of its level when its line was read.
  - `JoinDone` then appends every owed line.
  - The lemmas are:
    - `RefStepFacts` (what the stack update does);
    - `TrackStep` and `GuardStep` (`TrackerInv` across a line);
    - `DepthBelowFrame` and `DepthAtPush` (the depth arithmetic);
    - `AppendReported`.
  - `IInv` was checked with TLC as an invariant on the base, nested and a wider three-line alphabet before it was proved.

### `LogScanSpurious_proofs`

Checked by `tlapm LogScanSpurious_proofs.tla`.

- `NoSpuriousFindingThm`: `ASSUME SpurShapedFiles PROVE Spec /\ []GuardsUnnested => []NoSpuriousFinding`.
  - `SpurShapedFiles`: a guard line closes no block and opens at least one (the guard's own `{`); a line that starts a log call closes no block.
  - `GuardsUnnested`: no guard line is read while a guard block is open. It is the run's `Unnested` restriction, stated on the state instead of by a recursive computation over the file. The `logscan_nested` run shows that the property fails without it.
  - The guard-line shape is needed too. With `} else if log_enabled!(..) {`, the guard branch sets `brace_depth = 1 - 1 = 0`, the next line leaves the block, and a call inside it is reported. TLC finds this on the three lines `if a {`, `} else if ... {`, `trace!(..)` when the shape is dropped. There is no run for it: the run list is full and the hazard at line 155 names it.
  - The inductive invariant `SInv` is `TypeInv` plus:
    - `FrameInv`: no guard `{` is pending, and every open guard frame `p` of the reference stack has the tracker in a block of its level with `brace_depth >= Len(blocks) - p + 1`;
    - `WrapInv`: a statement being joined that was inside a guard block of its level is treated as wrapped.
  - `NoSpuriousFinding` alone is not inductive, because it says nothing of the tracker. `FrameInv` is the converse of `LogScan_proofs`' `TrackerInv`: the depth can fall to 0 only when the guard's frame closes.
  - Lemmas:
    - `RefStepFrames`: which frames survive a line of the reference stack;
    - `FrameStep`: a non-guard line keeps `FrameInv`;
    - `GuardFrame`: a guard line pushes its frame at depth `opens`.
  - `SInv` with `GuardsUnnested` was checked by TLC as an invariant of the `logscan_core` configuration before it was proved.
- `ExactReportThm`: under `ShapedFiles` and `SpurShapedFiles`, `Spec /\ []GuardsUnnested => [](ReportedLines = owed)`. It chains the two inclusions.

### `SecureMining_proofs` and `ImprovedMining_proofs`

These prove the monotonicity properties of the two economic models for every value of the constants. The only assumption is that the arguments are naturals (`InputsAssumption`, `ArgumentsAssumption`). The invariant is just `call \in Requests`; each step is then a statement about the operators alone.

`StandingNeverHurtsThm` (`Spec => StandingNeverHurts`) rests on these lemmas:
- `ReputationMonotone`;
- `LaddersAntitone`: the discount, cooldown and access ladders read the reputation the right way round;
- `StakeMultiplierAntitone`;
- `MulDivIsQuotient`: `MulDiv(x, r, 1000) = (x * r) \div 1000` for the four discounts. Each case is linear, so SMT decides it;
- `FeeAntitone`: the product of two non-increasing non-negative factors, then the quotient, then the floor at `MIN_COST_PER_TX`;
- `AnalyseAttackerFields`: what the loop body returns.

`GasNeverFallsWithLengthThm` and `RewardNeverFallsWithScoreThm` rest on:
- `ContentCostMonotone` (the tiers join up);
- `ScarcityBonusMonotone`;
- the positivity of the multipliers, which splits each nonlinear product into two steps that each grow one factor.

`TypeCorrect` (`Spec => []TypeOK`) is proved in both modules:
- In `SecureMining_proofs`, it shows that the fee, the cooldown and the remaining quota are natural numbers and that the access levels are levels of the ladder. It goes through the reputation, the stake multiplier, `MulDivIsQuotient` and `AnalyseAttackerFields`.
- In `ImprovedMining_proofs`, it shows that the gas price and the reward are natural numbers.

The proofs are about the exact-integer model. The float rounding edges listed under hazards stay outside them.

### `WalletBatch_proofs`

`TempFileRemovedThm` and `ConfigThereWhenRunThm` hold for every sequence `Steps` of calls, under `StepsAssumption` only. `TempFileRemoved` alone is not inductive: a state where `main` has ended with a file still counted satisfies it but is unreachable. The strengthening is `FileInv`:
- exactly one file exists while the phase is `file` or `write_failed`, and none otherwise;
- phase `file` means a `--json-file` call is running;
- phase `write_failed` means `main` has raised.

`IInv` is `TypeOK /\ FileInv /\ ConfigThereWhenRun`. TLC checked it as an invariant of the `wallet_batch` run before it was proved. The proof has one lemma per action (`WriteFileStep`, `RunStepInv`). `RunStepInv` uses `FileInv` to see that the file is there when the wallet runs.

`TypeCorrect` follows from `IInv` for every sequence of calls.

### `BatchRun_proofs` and the refinement

- `InOrderThm` (`BatchRun_proofs`): `ASSUME NEW S, Steps \in Seq(S) PROVE Spec => []InOrder`.
  - `InOrder` alone does not say that `runs` is a sequence, and `Append` needs one.
  - The inductive invariant `OrderInv` adds `runs \in Seq(RunRec)`, over `main`'s own modes and commands.
  - `Complete` appends the record of call `pc` at position `pc`.
- `Refinement` (`WalletBatch_proofs`): `Spec => ImplementsBatchRun`.
  - `RefineInit` maps `Init` to `Batch!Init`.
  - `RefineStep` maps each step under `IInv`: one case per disjunct of `WriteFile`, and per ending of `Run`.
  - `RunsOfAppend` is the lemma behind the `Complete` case: dropping a field commutes with `Append`.
  - The run was TLC-checked as the `ImplementsBatchRun` property before it was proved.
- `RunsInOrderThm` (`WalletBatch_proofs`): `Spec => []Batch!InOrder`, for `main` itself.
  - It instantiates `BatchRun_proofs` with `runs <- Runs`, and chains `InOrderThm` with `Refinement`.
  - Whatever its files do, `main` runs its calls in order, each once.

### `LogAggregate_proofs`

`TreeAssumption` says that the tree is finite and that paths are sequences of names. Under it, the four properties of the `aggregate_core` run are proved for every tree and root.

`TypeCorrect` and `TotalMatchesStoredThm` rest on the inductive invariant `StoreInv`, which adds to `TypeOK`:
- the stored entries are exactly `Stats(p)`;
- the stored paths are exactly the kept files among those visited (`Kept(Tree \ todo)`): readable, with findings, and not in `target`;
- `todo` is empty once the walk is done;
- the set of stored findings is finite.

`TotalMatchesStored` is not inductive alone: the step needs to know that the file being merged is new, and what its entry holds. TLC checked `StoreInv` on the three roots of the `aggregate_core`, `aggregate_dot` and in-target configurations before it was proved.

The counting argument:
- `PathFindingsCard`: the findings of one path are in bijection with `1..Len(logs)`.
- `MergeFindings`: adding a new path adds a disjoint set.
- `StoreStep`: the count then grows by the cardinality of a disjoint union (`FS_Union`).

The other two theorems carry hypotheses, and the findings show that each is needed:
- `NoExcludedScannedThm` assumes `RootAbsolute`. With the default `--dir .` the property fails (finding 4), so the theorem does not cover the default.
- `CompleteSummaryThm` assumes in addition that no component of the root is `target`. Finding 5 shows that otherwise the report is empty.
- Under these hypotheses, `ExcludedIsInTarget` and `InTargetIsExcluded` show that the code's `'/target/' in str(path)` and the spec's excluded-directory test agree.

`FindingsWalk_proofs` proves `CountedThm` and `CompleteThm` for every set of files. The inductive invariant `WalkInv` keeps the `Init` facts about `found`, and says that `report` is the union of the contributions of the visited files. `Counted` needs it: a visit adds `Cardinality(found[p])` only because `found[p]` is disjoint from that union.

`LogAggregate_proofs` then proves the refinement and uses it:
- `WalkRefinement`: `Spec => ImplementsFindingsWalk`, under `StoreInv`.
  - `WalkInit` maps `Init` to `Walk!Init`.
  - `WalkSkip` and `WalkStore` show that each iteration of the loop is a `Visit` of its path. `ContributionKept` proves that a stored file adds exactly the findings of its `FileStats`, as many as `Len(result[p])`.
  - The instance has its own copy of `FiniteSets`. `WalkFiniteSets` states that its `Cardinality` and `IsFiniteSet` are this module's.
  - TLC checked the refinement as the `ImplementsFindingsWalk` property, and checked `WalkInv` through the mapping on `aggregate_core`, before the proof.
- `WalkCompleteThm`: `Spec => []Walk!Complete`. It chains `CompleteThm`, instantiated as `WalkProofs`, with `WalkRefinement`. It has no hypothesis on the root: once the walk returns, every file the code did not skip has all its findings stored. That holds even for the roots where `CompleteSummary` fails. There the fault is in which files the code skips (findings 4 and 5), not in the walk.

### Only model-checked

TLC alone checks:
- `NoSpuriousFinding` on nested guards or `} else if` guard lines. It is false there (the `logscan_nested` run), so the theorem keeps `GuardsUnnested` and `SpurShapedFiles`.
- `Termination`. Liveness is out of TLAPS's reach here.
- The properties of the seven violation runs (`TestTagged`, `NoTempFileLeft` and the others). They are false of the code, and TLC's counterexamples are their result.
- `NoExcludedScanned` and `CompleteSummary` with a relative root, or a root under `target`. There they are false (findings 4 and 5), so the theorems keep those hypotheses.

## Plan

1. Done: `LogScan` (check_file) with its runs, violations and proofs.
2. Done: `LogAggregate` (scan_directory, get_summary, Path Classifier), with its runs.
3. Done: proofs of the four `LogAggregate` properties for every finite tree.
4. Partly done: `ExactReportThm` proves that `check_file` reports exactly the owed lines on unnested, shaped files. Still open: an abstract File Analyzer that computes the owed lines with a pure function of the file, and a refinement of `LogScan` onto it. The obstacle is that the owed set is defined through the reference stack, which is recursive over the file.
5. Done: `SecureMining`, `ImprovedMining` and `WalletBatch`, with their runs and proofs of every passing property. `WalletBatch` is also proved to refine `BatchRun`, and `LogAggregate` to refine `FindingsWalk`.
6. Bounded checks of the other arithmetic helpers outside the spec's core. One is `words_to_key` in `src/tests/api/lib/wallet.py`: its value can exceed 2^32 before `to_bytes(4)`.

## Not modelled

- The report renderers and `main`: formatting only.
- The content truncation to 200 characters: cosmetic, per spec section 3.
- The text of a line beyond its shape. Braces inside string literals other than placeholder pairs are the imprecision that spec section 9 accepts.
- Outside the modelled programs:
  - the RPC clients, test suites and wallet signer: blocking I/O against a running daemon or wallet, with no state of their own;
  - `rpc_call` and the comparison loop of `run_improved_demo`: the loop is a fixed computation over four literal scenarios.
  `PROJECT.json` gives the reason for each component.
