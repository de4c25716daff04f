# Formal models of the recovery program

TLA+ models of the Android recovery program in `src/`. They cover the recovery command state machine (`recovery.c`), the install pipeline (`install.c`), the directory listing behind the sdcard browser (`extra.c`) and the partition menu (`recovery.c` with `recovery_ui.c`). They are checked with TLC on small instances. TLAPS proves, for every value of the constants, the main invariants of the state machine (resumption and the firmware/cache hand-off), its refinement of the abstract command slot of the spec, the layout invariants of the partition menu, the firmware and success invariants of the install pipeline, the type invariant of the directory passes, and that the failure report of an update script names the literal source line.

## The system and its parts

| Part | Source | What it does |
|---|---|---|
| Command state machine | `recovery.c`: `get_args`, `main`, `finish_recovery`, `prompt_and_wait`, `wipe_data`, `install_zip_file`, `erase_root` | Resolves a command from the bootloader control block (BCB) or `CACHE:recovery/command`, and persists it to the BCB before acting. It then runs the command, clears the BCB and the command file, and reboots or waits in a menu. |
| Firmware hand-off | `firmware.c` and the bootloader (not in the repository) | Described by the OTA comment at `recovery.c:85-111`. It arms the BCB with `boot-recovery --wipe_cache`, writes the image over the cache partition and sets `update-firmware`. The bootloader flashes the image and sets `boot-recovery` again. |
| Install pipeline | `install.c`: `install_package`, `try_update_binary`, `handle_update_package`, `handle_firmware_update` | Mounts the package root, loads keys, opens and verifies the archive. It then runs the update binary as a child process that reports over a pipe, or falls back to the update script. |
| Script failure report | `install.c`: `handle_update_script` | Finds the source line at which the amend interpreter stopped. |
| Key loading | `install.c`: `load_keys` | Parses the RSA keys. |
| File browser, command runner | `extra.c`: `enumerate_files_in_directory`, `choose_file_menu`, `execute` | Support for the sdcard browser and the partition and USB menus. The listing reads the directory twice: once to count, once to fill. |
| Partition menu | `recovery.c`: `process_partition` | Lets the user split the card into vfat, ext3 and swap, then runs `/sbin/partsdc.sh` with the three sizes. |
| Splash images | `extra.c`: `bmp_*`; `recovery.c`: `install_bmp_file` | Converts BMP images to RGB565 splash images. |
| Device UI | `recovery_ui.c` | Maps keys to menu actions. HOME toggles the text display, and keys are ignored while it is hidden. |

How the parts interact:

- The main system writes a command file and reboots into recovery.
- `main()` calls `get_args()`, which persists the command to the BCB.
- `main()` then runs `install_package()` or the wipes. Failures go to `prompt_and_wait()`, whose every round starts with `finish_recovery()`. Otherwise `main()` goes on to `maybe_install_firmware_update()` and `finish_recovery()`, then reboots.
- `install_package()` reports a pending firmware image through `remember_firmware_update()`. That request lives only in memory until `maybe_install_firmware_update()` hands it to the bootloader.

## Modules

- **`RecoverySession`** models the command state machine across power losses.
  - Persistent state: `bcb` (command, the "recovery" marker and the argument lines), `cmdFile` and `cache` (`"fs"`, or `"raw"` during a firmware hand-off).
  - Volatile state: `pc` (where `main()` is), `argv`, `status`, `fwPending` and `finishNext`.
  - History variables: `issued` and `pending` (the last command of the main system, not yet carried out) and `fileDone` (the command file holds a finished command).
  - An argument is a record `[opt, whole]`. Its length is `ArgLen[opt]`.
  - `Persist` computes what the `strlcat()` loop of `get_args()` leaves of the arguments in the `RecCap` characters of `boot.recovery`. `RecCap` is the field size minus `"recovery\n"` and the NUL.
  - Actions:
    - `GetArgs` is the whole of `get_args()`: read, resolve, write back.
    - `Dispatch`, `Install`, `WipeData`, `WipeDataCache` and `WipeCache` are `main()`'s command branches.
    - `AfterCmd` covers lines 725-726.
    - `FinishClearBcb` and `FinishUnlink` are `finish_recovery()`, split at its two persistent writes so that a power loss can fall between them.
    - The `Menu*` actions are the `prompt_and_wait()` items.
    - The `Fw*` actions are the firmware hand-off, modelled from the spec.
    - `Boot` is the bootloader; `SystemIssue` and `ManualRecovery` are the main system and the user.
    - `Crash` is a power loss, bounded by `MaxCrashes`.
  - A cut argument is modelled as rejected by `getopt_long()`. The findings about cut arguments do not depend on this choice.
- **`CommandSlot`** is the abstract specification of the command state machine, taken from spec 4.8.
  - The slot goes NO_COMMAND → PENDING → EXECUTING → CLEARED.
  - `Interrupt` is a hard reboot: it puts an executing command back to PENDING.
  - `Execute` runs exactly the command in the slot.
  - `RecoverySession` maps onto it through `SlotOf`, `issued` and `RunningOf`:
    - a pending command is EXECUTING while `pc` is in one of `main()`'s command branches or `after_cmd`, and PENDING elsewhere;
    - a command that is no longer pending is CLEARED;
    - what runs is `argv`.
  - `ImplementsCommandSlot` is `Slot!Spec`.
- **`InstallPackage`** models one call of `install_package()` as two processes.
  - The parent is recovery. `PreChecks`, `OpenArchive`, `Verify`, `FindBinary`, `Fork`, `ReadLine`, `ReadEOF`, `WaitChild`, `FirmwareUpdate`, `UpdateScript` and `CloseArchive` follow the code's control flow and its early returns.
  - The child is the update binary (`ChildWrite`, `ChildExit`).
  - The pipe holds at most `PipeCap` lines: `write()` blocks while it is full.
  - A protocol line is a record `[verb, arg]`. `arg = "none"` is a line that ends after its verb.
  - `Fatal` is the `strtof(NULL)` case. `Records` is the first-firmware-wins test.
  - `PowerCycle` is the operator's way out of a hung update binary.
- **`ScriptLine`** models the newline scan of `handle_update_script()` as a loop. `Scan` is one round of `while (next != NULL && ret-- > 0)`, and `Report` is the `LOGE()`.
  - Pointers are indices: 0 is NULL and `Len(buf)+1` is the end of the buffer.
  - `Expected` is a reference definition: the `num`-th line of the buffer, computed from the positions of its newlines.
- **`DirEnum`** models one call of `enumerate_files_in_directory()` (`extra.c:159-241`).
  - State: the directory `dir` in `readdir()` order, and the stream position `pos`. Also the `pass` counter, the first pass's count `total`, the second pass's index `i`, `*numFiles` and the array `files`.
  - An array slot that was never written is the model value `Garbage`. The terminator is `NULL`.
  - Actions:
    - `Open` is `opendir()`.
    - `ReadSkip`, `ReadFile` and `ReadForStat` are one `readdir()` with the hidden-entry and extension filters.
    - `Stat` is the unchecked `stat()`. When the entry is gone, `S_ISDIR()` reads an uninitialised `struct stat`, which is either answer.
    - `ReadEnd` with `EndOfPass` is the end of a pass: `rewinddir()` and the `malloc()` of `total + 1` slots, or the return.
  - `Create`, `Delete`, `ReadFail` and `OpenFail` model the card being written by the USB host, or failing. The card is exported by `umstgl.sh` while recovery still has it mounted. `StableSpec` leaves these actions out.
  - `Matching` is the reference definition: the entries that pass the filter, in directory order. It is written without recursion: element `j` is the entry at the wanted index of rank `j` (`Rank` and `NthOf` of the module `Ranks`). An `ASSUME` in `MCDirEnum` checks that it equals `SelectSeq` of the directory by the filter, for every directory of the runs and both modes.
- **`PartitionMenu`** models `process_partition()` (`recovery.c:463-591`) with `device_handle_key()` and `device_toggle_display()` (`recovery_ui.c:39-79`).
  - State: `pc`, the card size `mbsd`, the three sizes `mbvf`, `mbex` and `mbsw`, `selected` and `visible`. `partsdc` holds the sizes handed to `partsdc.sh`, and is `NoRun` before.
  - Actions:
    - `Start` covers `get_sdcard_size()` and the 70/30 split.
    - `Highlight`, `Ignored`, `Back`, `SelectItem` and `Adjust` are the branches of the key loop. `Adjust`'s `Resize` has the code's two clamps, in their order.
    - `Confirm` is the second key after SELECT.
  - Every key of `device_handle_key()` is an input. While the text is hidden, every key maps to `NO_ACTION`.
  - `ui_menu_select()` lives in `ui.c`, which is not in the repository. It is modelled as a clamp to the three items.
- **`MCRecoverySession`**, **`MCRecoverySessionLong`**, **`MCInstallPackage`**, **`MCScriptLine`**, **`MCDirEnum`** and **`MCPartitionMenu`** give the constants for TLC.
- **`RecoverySession_proofs`**, **`PartitionMenu_proofs`**, **`InstallPackage_proofs`**, **`DirEnum_proofs`** and **`ScriptLine_proofs`** hold the TLAPS proofs. Each extends its component's module and `TLAPS`.
- **`Ranks`** defines `Rank(S, p)`, the number of indices of `S` at or before `p`, and `NthOf(S, j)`, the index of rank `j`. **`Ranks_proofs`** proves the lemmas about them that `DirEnum_proofs` uses.

## Runs

| Run | Expect | Checks | Shows |
|---|---|---|---|
| recovery | pass | TypeOK, ResumeAnchor, CacheSane, NoBootLoop, ImplementsCommandSlot | Commands resume through two power losses anywhere. The system never boots on a raw cache. The device always gets back to the system or the menu. Every step is a step of the abstract command slot. |
| recovery_faults | pass | ResumeAnchor, NoBootLoop | The same holds when cache formats fail. |
| recovery_bcbread | violation | ResumeAnchor | `--wipe_data` erases the cache, then power is lost, then `get_bootloader_message()` fails: the command is lost (`recovery.c:155`). |
| recovery_stale | violation | StaleCommandNeverRead | A power loss between `recovery.c:263` and `:269` leaves the command file. Booting recovery by hand runs the finished command again. |
| recovery_longarg | violation | ResumeAnchor | An argument longer than `boot.recovery` is cut by `strlcat()` (`recovery.c:207`). |
| install | pass | TypeOK, SuccessMeansInstalled, FirstFirmwareWins, InstallReturns | In every interleaving of writes, reads and exit over a two-line pipe, with well-formed and malformed protocol lines: SUCCESS means the binary exited 0 and its first firmware request was stored; a second `firmware` line never wins; the install returns. |
| install_fork | violation | SuccessMeansInstalled | `fork()` returning -1 is unchecked. `waitpid()` leaves `status` unwritten (or reaps a zombie of `execute()`), so the result can be SUCCESS with nothing run. |
| scriptline | pass | TypeOK, ReportsLiteralLine | Every script of up to 4 characters that ends in a newline, and every command number 1..4: the report is the literal line. |
| scriptline_lastline | violation | ReportsLiteralLine | The script `"x"` failing at command 1 reports "(未找到)". |
| direnum | pass | TypeOK, EnumeratesMatches | On every directory of up to three entries that nobody else changes, both listings (by extension, and of directories) return exactly the matching entries in `readdir()` order, NULL-terminated, with the right count. |
| direnum_changes | violation | ArrayMatchesCount | An entry created, deleted, or a `readdir()` that fails between or during the two passes. The second pass then writes past the `total` slots of the first (`extra.c:216`), or leaves slots unwritten that the caller copies and frees. |
| partition | pass | TypeOK, LayoutFits, RepartitionFits | For cards of 0, 0.5, 100, 200 and 300 MB, and every sequence of keys: no partition goes negative, the three never exceed the card, and `partsdc.sh` runs only with vfat > 0. |

Every property of a passing run has a mutant in `PROJECT.json`: a variant of the code's definition, with a plausible bug, that TLC must then catch.

- `GetArgsNoWriteBack` drops the write-back. It breaks `ResumeAnchor`, and it also breaks the refinement: after a wipe and a power loss, `main()` executes an empty command.
- `FinishKeepBcb` never clears the BCB.
- `FwCheckUnarmed` writes the image before arming the BCB.
- `MenuInstallMisspelt` has a typo in the BCB command.
- `WaitChildNoStatus` ignores the exit status.
- `RecordsEvery` makes the last firmware line win.
- `ReadEOFBeforeDrain` calls `waitpid()` before draining the pipe, which deadlocks the two processes.
- `CloseArchiveTwice` closes the archive twice.
- `AfterNewlineSkip` is an off-by-one in the pointer step.
- `ScanOneMore` is an off-by-one in the loop test.
- `EndOfPassNoRewind` forgets `rewinddir()`. `EndOfPassShort` mallocs `total` slots with no terminator.
- `MenuSelectUnclamped` lets the highlight leave the menu.
- `ResizeSwapCap` clamps swap without subtracting ext3.
- `SelectItemUnchecked` drops the `mbvf == 0` check.

### Bounds and why they suffice

- **RecoverySession.**
  - Three one-option commands cover all three branches of `main()`.
  - `ArgLen` is 3 for the package and 2 for the wipes, so `RecCap = 4` fits every command. `MCShortRecCap = 2` cuts the package argument but keeps a wipe.
  - `MaxArgs = 3` is above every command of the runs, so the cut at `MAX_ARGS - 1` (`TakeType`) never happens in them. The main system writes one option per command. A command of `MAX_ARGS` options or more would be cut and would break `ResumeAnchor`; `CommandsFit` excludes such commands from the proofs.
  - `MaxCrashes = 2` allows one power loss inside `finish_recovery()` and another before the next resolve. That is the depth the violations need: their traces are 6-12 steps.
- **InstallPackage.** `PipeCap = 2` with scripts of 3 and 4 lines makes the child block on a full pipe. That is the case the drain-before-wait order exists for. The two firmware types show first-wins.
- **ScriptLine.** All buffers of up to 4 characters over `x`, `y` and newline include empty lines, consecutive newlines and last lines with and without a newline. Command numbers run up to one past the line count.

- **DirEnum.** Five names over `x` and `z`, with the extension `.z`: a hidden name, a name that is only the extension, a name shorter than it, a name without it, and two that match. Each can be a file or a directory, behind `.` and `..`. Up to three entries give listings of zero to three names in either order. The changes run uses two entries, with one creation, one deletion and one failure: each bug needs a single event.
- **PartitionMenu.** The card sizes hit each branch. 0 returns at once. Half a megabyte gives `mbsd = 0`, where SELECT must be refused. 100, 200 and 300 MB make every clamp bind, since 128 MB steps overshoot those cards.

### Fairness

- **RecoverySession** assumes `WF_vars(DeviceStep)`: the bootloader and recovery keep taking their own steps. The user, the main system and power loss get no fairness: nobody has to pick a menu item, and power loss is bounded.
- **InstallPackage** assumes weak fairness of the parent and of the child. The scheduler runs both processes, and an update binary is assumed to terminate; the spec accepts a hung binary and lets the operator power-cycle. `PowerCycle` gets no fairness.
- `CHECK_DEADLOCK FALSE` is set in the install, script-line, directory and partition runs only. There, the modelled function returns and the model really stops.

## What is proved

`RecoverySession_proofs.tla` is checked by `tlapm`:

- **`TypeCorrect`**: `Spec => []TypeOK`, for every value of the constants satisfying `ConstantsAssumption`. It rests on lemmas about the helpers:
  - `TakeType` is the `MAX_ARGS` cut.
  - `KeptRange` shows that `strlcat()` keeps between 0 and `Len(x)` arguments. It uses `FS_Subset` and `FS_Interval`.
  - `PersistType` and `ResolveType` follow.
  - `AsArgsType` is the last of the helper lemmas.
- **`ResumeAnchorHolds`**: `Spec => []ResumeAnchor`, under two assumptions:
  - `CommandsFit`: every command is non-empty, shorter than `MAX_ARGS` and fits `boot.recovery`.
  - `~BcbReadMayFail`.

  These are exactly the conditions whose failure the `recovery_longarg` and `recovery_bcbread` runs exhibit. `ResumeAnchor` is not inductive on its own. The proof uses `ResumeInv`, which adds:
  - the type invariant;
  - a BCB with no command is the zero block;
  - the system runs only with a zero BCB;
  - while a command is pending:
    - the device is in the system, the bootloader, or `main()` before `AfterCmd`;
    - the BCB is either zero, and then the command file holds the command and `get_args()` has not yet written the BCB, or exactly the block `get_args()` wrote for the command (`IssuedBcb`);
    - in `main()`, `argv` is the command.

  `ResumeInv` was checked with TLC before it was proved. The step lemma `ResumeStep` has one case per action.
- **`RefinesCommandSlot`**: `Spec => ImplementsCommandSlot`, under the same two assumptions.
  - The initial state maps to NO_COMMAND.
  - The step lemma `SlotStep` uses `ResumeInv` in both states. It shows that every step is an `Issue`, `Execute`, `Interrupt` or `Complete` of the slot, or a stutter of it.
  - The argument turns on `GetArgs`. When a command is pending, `ResumeInv'` gives `argv' = issued`, so the step is `Execute` with exactly the issued command.
  - In `AfterCmd`, `argv = issued` makes `CommandDone` clear `pending`, which is `Complete`.
  - Steps outside the busy places find nothing pending. `SlotStutter` discharges them.
  - Under `BcbReadMayFail` the refinement fails: the `recovery_bcbread` configuration violates it too.
- **`CacheSaneHolds`**: `Spec => []CacheSane`, under `~BcbReadMayFail`, `~FormatMayFail` and `ArgLen["wipe_cache"] < RecCap`. The first two are the faults of `MCRecoverySession_faults.cfg`, which does not check `CacheSane` because a failed format breaks it (see "Known defects"). The third says the `--wipe_cache` argument fits `boot.recovery`. The inductive invariant `CacheInv` (in `RecoverySession.tla`, checked by TLC on the `recovery` run's instance before it was proved) adds to the type invariant:
  - while the image is written and committed, the control block holds `FwBcb`, a recovery command of `--wipe_cache`;
  - while the cache is raw, the device is at one of `RawPcs` (image write, bootloader, `get_args()`, dispatch, the wipe itself), the control block is `FwBcb` or, in the bootloader, its `update-firmware` form, and a recovery that has dispatched holds `argv = <<--wipe_cache>>`.

  The step lemma `CacheStep` has one case per action. `FwResolve` shows that `get_args()` resolves `FwBcb` to `--wipe_cache`, and `FwArgsKept` that the strlcat cut keeps it.

`PartitionMenu_proofs.tla` is also checked by `tlapm`:

- **`LayoutFitsHolds`**, **`RepartitionFitsHolds`** and **`TypeCorrect`** hold for every set of card sizes that satisfies `PartitionAssumption`.
- The inductive invariant `IInv` adds three facts to the type invariant:
  - `Fits` holds in every state, not only in the menu. It holds trivially before `Start`, which is how the induction gets started.
  - `confirm` is only reached with `mbvf > 0`.
  - Once `partsdc` is set, it equals the sizes on the screen and the menu is done.
- The step proof has one case per action. The resize case is split by the highlighted partition.
- It rests on the lemma `ClampRange`: with a non-negative bound, the code's two clamps give a value in `0..hi`. That bound is non-negative exactly because `Fits` held before the step.

`InstallPackage_proofs.tla`:

- **`TypeCorrect`**: `Spec => []TypeOK` for every script and every `PipeCap`.
- **`FirstFirmwareWinsHolds`**: `Spec => []FirstFirmwareWins`. It needs two facts about the channel:
  - `PipeInv`: the pipe holds exactly the script lines from the read position `ReadPos = cpos - Len(pipe)` to the write position `cpos`, in order. The child writes at the end and recovery reads at the head, so nothing is lost, duplicated or reordered.
  - `FwSeen`: `fwReq` is the argument of the first valid `firmware` line among the lines already read, or `"none"` when there is none. Reading a line either keeps it or, for the first firmware line, sets it.

  The lemmas `FirstFwIsWitness`, `FirstFwNone` and `FwIdxStep` relate `FwSeen` to the `CHOOSE` of the least index in `FirstFw`. `IInv` also ties the pipe to the child's existence and `closes` to the `done` state.
- **`SuccessMeansInstalledHolds`**: `Spec => []SuccessMeansInstalled`, under `~ForkMayFail`. The `install_fork` run shows the fork-failure case on its own. `SInv` adds `SExtra` to `IInv`:
  - `wait` and `firmware` are only reached with an empty pipe and a child that is no longer running;
  - a child that exited 0 wrote its whole script;
  - the firmware is staged only after a clean exit;
  - a success is either a script run or a clean exit with the request staged.

`DirEnum_proofs.tla`:

- **`StableTypeCorrect`** (the spec of the `direnum` run) and **`TypeCorrect`** (host writes included): the readdir position stays inside the directory, and `files` is `NoArray` in the counting pass and an array over `0..total` in the filling pass.
- Both rest on `DirEnumAssumption`, which says that `Entries` is non-empty: every directory holds `.` and `..`. `Init` takes `cur` from `Entries`.
- `RemoveAtType` shows that a deletion by another process keeps the directory a sequence one shorter.
- **`EnumeratesMatchesHolds`**: `StableSpec => []EnumeratesMatches`, for every directory, extension and mode, under one hypothesis: the names in an initial directory are unique (`DistinctNames`), as the filesystem makes them. Without it `stat()` may find another entry of the same name. The runs' directories satisfy it.

  The inductive invariant `EInv` was checked by TLC on the `direnum` instance first. `Done` is the number of entries the loop has finished with: a visible entry whose `stat()` is pending does not count yet. `EInv` adds to `IInv`:
  - `StatPending`: a pending `stat()` is for `dir[pos - 1]`, a visible entry read while gathering directories;
  - `AtEnd`: the loop is left only at the end of the stream, and in the first pass only when it counted nothing;
  - `Progress`: the first pass has counted the wanted entries among the first `Done`, so `total = Rank(W, Done)`. In the second pass, `total` is all of them, `i` counts those among the first `Done`, slots `0..i-1` hold their names in order, and the rest is still `Garbage` with `NULL` at `total`.

  There is one lemma per kind of step, and `EInvStep` applies them to each action:
  - `ProgressSkip`: an entry that is not wanted;
  - `ProgressTake`: a wanted entry, whose slot `i` is below `total` because its rank is at most the number of wanted entries;
  - `ProgressKeep`: a step that moves nothing the counts depend on;
  - `ProgressRewind`: `rewinddir()`;
  - `StatExact`: with unique names, `stat()` answers for the entry just read.

`Ranks_proofs.tla` proves the lemmas about ranks. They take the place of an induction over the directory:
- `RankStep`: reading index `p` adds one exactly when `p` is selected;
- `RankBelow` and `RankAbove`: the rank is 0 before the first index and the whole count after the last;
- `RankStrict`, `NthOfIs` and `RankOfMember`: the rank is one-to-one on the selected indices and ranges over `1..Cardinality(S)`;

  `FiniteSetTheorems` supplies the facts about cardinality.

`ScriptLine_proofs.tla`:

- **`TypeCorrect`**: for every buffer and every value of `execCommandList()`, `line` and `next` stay in `0..Len(buf) + 1`, and the printed line is a `SubSeq` inside the buffer.
  - `AfterNewlineValue` shows that `memchr()` gives NULL or the index after the least newline from `next` on.
  - `NatHasLeast` supplies that least newline, from the well-foundedness of `<` on `Nat` (`WFMin`).
- **`ReportsLiteralLineHolds`**: `Spec => []ReportsLiteralLine`, under two hypotheses:
  - `Nums \subseteq Nat \ {0}`: a failed command has a 1-based number, as the spec says.
  - Every buffer ends with a newline. The `scriptline_lastline` run shows the violation when the last line has no newline.

  The inductive invariant `LInv` (checked by TLC on the `scriptline` instance first) counts the newlines. `Cnt(b, i)` is the number of newlines of `b` at or before `i`. After `k = num - ret` rounds:
  - `next - 1` is the newline counted `k` (`next = 1` when `k = 0`), or `next` is NULL and `k` is one more than the number of newlines;
  - `line - 1` is the newline counted `k - 1`.

  The counting lemmas use `FiniteSetTheorems`:
  - `CntStep`: the least newline from `next` is counted one more than those before `next`;
  - `CntAll`: when there is none, every newline lies before `next`;
  - `CntStrict` and `CntInjective`: `Cnt` is one-to-one on newlines;
  - `NthNewlineIs`: a newline counted `k` is the reference's `NthNewline(buf, k)`.

Only model-checked:

- The liveness properties `NoBootLoop` and `InstallReturns`: the prover does not handle fairness and ENABLED.
- That `Matching` equals `SelectSeq` of the directory, the library's recursive filter. An `ASSUME` of `MCDirEnum` checks it for every directory of up to five entries. For every directory it would need induction over sequences, and the library's induction theorems take an operator parameter that the installed provers cannot instantiate. `tlapm` also cannot expand `SelectSeq`.
- `EnumeratesMatches` while the USB host writes the card: it is false then. TLC finds a violation within a few steps on the `direnum_changes` instance. That run checks the weaker `ArrayMatchesCount`, which fails too.
- `SuccessMeansInstalled` when `fork()` may fail: it is false then, which is what the `install_fork` run shows.
- `RecoverySession` has no action property of its own. Its step-level guarantee is the refinement `RefinesCommandSlot`, which makes every step a step of the command slot or a stutter.

## Not modelled

- `load_keys()` (text parsing).
- The splash BMP conversion (byte-level decoding).
- `process_ums_toggle()`: it only runs `umstgl.sh` and prints the result.
- `get_menu_selection()` and `choose_file_menu()`: in the session models, the menu choice is the user's nondeterministic choice.
- `execute()`: it forks a shell and never waits for it. Its zombies matter only to `try_update_binary()`'s `waitpid()`, which the `install_fork` run covers.
- `--send_intent`, `--previous_runs` and the log copy of `finish_recovery()`: no property tells them apart.
- The progress bar values: `ui.c` is not in the repository.

## Known defects without a run

These were shown by TLC while modelling. They are listed in `PROJECT.json` as hazards, and there is no run for them:

- `install_package()` returns on a signature failure without `mzCloseZipArchive()` (`install.c:465`).
- A `progress` or `set_progress` line without numbers hands NULL to `strtof()` (`install.c:264`).
- `MCRecoverySession_faults.cfg` does not check `CacheSane`, and with reason. Suppose a cache format fails after a firmware hand-off: `main()` goes to the menu, `finish_recovery()` clears the BCB, and the user reboots into a system with a raw cache.

## Plan for the following sittings

1. **`choose_file_menu()`** over `DirEnum`: the recursion into subdirectories and the self-overlapping `strcpy()` at `extra.c:291`.
2. **The command file's lines**: add empty lines (the `strdup(NULL)` boot loop at `recovery.c:193`) and `MAX_ARGS` cuts to `RecoverySession`.
3. **`InstallPackage` in `RecoverySession`**: use it as the detail of `Install` and `MenuInstallDone`, relating `InstallPackage`'s results to the abstract `r`.
4. **More proofs**: `StaleCommandNeverRead` of `RecoverySession`. Also, `ScriptLine_proofs` could be rebased on `Ranks_proofs`: its `Cnt` is `Rank` of the newline indices.
