# TLA+ models of btcrecover's batch runner, success alert, beep back end and aezeed decoder

This directory holds TLA+ models of the parts of btcrecover that have state, concurrency or subtle arithmetic. The TLC model checker checks them. Every definition is translated from the Python source, and `PROJECT.json` maps each one to the lines it models.

## The system and how its parts interact

- **`seedrecover_batch.py`, the batch seed runner.** It reads a batch file of seed phrases and runs `btcrseed.main` once per seed.
  - It logs each result (`CHECKED`, `MATCHED`, `ERROR`) to a progress file.
  - Several OS processes can share one batch file and one progress file. `--batch-worker ID(/ID2..)/TOTAL` gives each process the seed indices `i` with `i % TOTAL` in its IDs.
  - A killed process is run again. With `--batch-skip-completed` it reloads the progress file and skips the seeds already `CHECKED` or `MATCHED`.
  - Every process stops once any process has logged `MATCHED`.
  - At the end it calls `success_alert.stop_success_beep()` and exits with `retval`.
- **`utilities/batch_progress_report.py`, the progress report.** It reads the batch file and the progress file the runner wrote. It counts each batch position as processed when the file holds enough lines for that seed, whatever their status. It then prints the farthest processed position and the positions before it with no line ("appear to have been skipped").
- **`btcrecover/success_alert.py`, the success beep.**
  - `start_success_beep` creates a `threading.Event` and a daemon thread running `_beep_loop`.
  - `stop_success_beep` sets the event, joins the thread for at most 0.1 s, and clears both module globals.
  - The batch runner starts the beep on a match and stops it before exiting.
  - Each beep of `_emit_beeps` runs under `_write_lock`. It tries the PC speaker first (a KDMKTONE ioctl on a console device) and then the external `beep` utility. After that it writes BEL to the tty streams and the console. Module globals cache which of these worked.
  - `configure_pc_speaker(enable, console_paths)` forces or unforces the PC speaker and resets those caches. Its only caller is `utilities/test_beeper.py`, before any beep.
- **`btcrecover/aezeed.py`, the lnd aezeed decoder.**
  - `mnemonic_to_bytes` turns 24 words into 33 bytes.
  - The CRC-32C and the version byte are checked.
  - `decode_mnemonic` derives a key by scrypt and deciphers with AEZ (`_aez_decrypt` → `aez_hash`, `aez_prf`, `aez_tiny`, `aez_core`). These are built on AES4/AES10 round functions.

## Modules

| Module | Models | State / actions |
|---|---|---|
| `BatchRun` | `seedrecover_batch.py` main loop, `_load_completed_seeds`, `_progress_contains_match`, `_append_progress`, the worker test | Variables: `progress` (the shared file), and per process `pc`, `pos`, `seedIndex`, `completed`, `retval`, `matchFound`, `exitCode`, `launches`; history variables `runErrors`, `unlogged` (seeds whose line failed to be written) and `missed` (success lines a failed reload did not see). Actions: `Launch`, `LaunchFails`, `StopOnMatch`, `SkipComment`, `SkipCompletedSeed`, `SkipOtherWorker`, `BeginSeed`, `FinishSeed` (with `SeedRaised`/`SeedMatched`/`SeedFailed`/`SeedChecked`), `EndOfBatch`, `Crash` |
| `ProgressLog` | the promise of the shared progress file (abstract) | Variables `log` and `missed`. `Record(s, status)`: append a line with an outcome `btcrseed.main` can have for `s`, and, with skip-completed, no second success for `s` unless `s` is in `missed`. `MissOnReload(S)`: a read of the file stops early and does not see the success lines of `S` |
| `ProgressReport` | `batch_progress_report.py`: `_load_batch_seeds`, the tab split of `_load_progress`, `_determine_processed_positions`, the totals, farthest position and skipped list of `main` | Pure operators over the batch lines and the progress lines |
| `MCBatchRun` | constants: 2 processes, 3 seeds, a batch file `s1, #, s2, s3`, the match being the last seed read (`s3` forward, `s1` with `--batch-reverse`); for the reload run a batch file `s1, #, s2, s1` that lists `s1` twice at indices of process 1, the match being `s2`; for the tabs run `MCTabbed = {s1}` | — |
| `SuccessAlert` | `set_beep_on_find`, `start_success_beep`, `stop_success_beep` (split at the join), `_beep_loop` per thread | Variables: the globals `beepEnabled`, `stopEvent`, `beepThread`; the event flags `evSet`; per-thread `tpc`, `waitOn`; main-thread `mpc` |
| `MCSuccessAlert` | instantiation used by the SuccessAlert runs | — |
| `BeepBackend` | `_emit_beeps` (one round), `_emit_pc_speaker_beep`, `_emit_beep_command`, `_beep_command`, `_ensure_console_bell_stream`, `_console_bell_fd`, `_bell_streams`, `configure_pc_speaker`, `_close_console_bell_stream` | Variable `g`, a record of the globals (`_console_bell_paths`, `_pcspeaker_forced`, `_pcspeaker_available`, `_beep_command_available`, `_beep_command_path`, `_console_bell_stream`, `_console_open_attempted`). History variables: `last` (what the last beep did) and `cfg` (the last configure call, its result, and the beeps since). Actions: `Beep`, `ConfigurePcSpeaker(enable, cps)` |
| `MCBeepBackend` | three console paths (the default order c1, c2, of which only c2 opens, and a caller-supplied c3), the properties | — |
| `AezCipher` | AES tables and rounds, `_AESRound`, `_AEZState.init/aez_hash/aez_prf/aez_tiny/aez_core(+pass1/pass2)/encipher/decipher`, `_aez_decrypt` | Pure operators on byte sequences (RECURSIVE where the code loops) |
| `MCAezCipher` | AEZ encryption built from the same operators, bounded message sets, the properties | Variables `msg`, the message under test, and `ct`, its ciphertext |
| `MnemonicCodec` | `_crc32c_table`, `_crc32c`, `mnemonic_to_bytes`, `validate_mnemonic`, `decode_mnemonic` | Pure operators; scrypt + blake2b are the constant operator `Kdf` |
| `MCMnemonicCodec` | an lnd-layout encoder, bit-serial reference CRC and packing, damaged mnemonics | Variables `in` (the entropy, salt, version, passphrases and damage under test), `cb` (its 33 bytes), `W` (its damaged words) and `dec` (what `decode_mnemonic` returns) |

### How BatchRun corresponds to the code

- One iteration of `for mnemonic in batch_seed_list` is one of `StopOnMatch` / `SkipComment` / `SkipCompletedSeed` / `SkipOtherWorker` / `BeginSeed`. Their guards follow the code's `if`/`continue` chain in order.
- The call of `btcrseed.main` is split in two: `BeginSeed` marks it running, and `FinishSeed(p, o)` completes it. Other processes interleave with a seed's run, as they do in reality.
  - The outcome `o` is chosen among "found" (only for seeds in `Match`), "notfound", "none" (an error or Ctrl-C inside main) and "exception".
  - Each outcome is the whole corresponding branch: its `_append_progress`, its `completed_seeds.add`, and its `retval` assignment.
- `Launch` is the script start: the batch list, optionally reversed, and `_load_completed_seeds` when `--batch-skip-completed` is given. `LaunchFails` is the `sys.exit(1)` when the batch file cannot be opened.
- `Crash` is a kill at any point.
- Each progress line is one `write` of one line in append mode. It is modelled as atomic: a kill leaves whole lines.
- With `AppendMayFail`, each `_append_progress` may raise `OSError` in `makedirs`, `open` or `write`. The code only prints it, so the line is missing, and the model records the seed in `unlogged`. The rest of the branch still runs: `completed_seeds.add`, `retval`, and leaving the loop on a match.
- With `ReadMayFail`, every read of the progress file may raise `OSError` part way through; both readers print it and go on.
  - `Launch` then loads the completed seeds of a prefix of whole lines (`LoadResults`: none when `open` fails). The seeds whose success line it did not see are added to `missed`.
  - The loop-top `_progress_contains_match` may return False although a `MATCHED` line is logged (`MayReadNoMatch`). The process then goes on through its seeds.
- `ProgressLog` is instantiated with `log <- progress`, `missed <- missed` and the seeds of the batch file. `ImplementsProgressLog` checks that every behaviour of the runners is one of `ProgressLog!Spec`.
- `ProgressReport` is instantiated with the runner's `Comment`. Its `Report` is evaluated on the progress file of every reachable state.
- Argument parsing is the `ASSUME ParsedWorkerArguments`: TOTAL ≥ 2, and the IDs already shifted to 0-based.

### How SuccessAlert corresponds to the code

- `stop_success_beep` is two steps:
  - `StopBegin`: set the event.
  - `JoinReturns`: the join returns, either because the thread ended or because the 0.1 s timeout expired, and both globals are cleared.
- `_beep_loop` is `EmitDone` (the two beeps), then `CheckEvent`, where the global is read. `None` raises `AttributeError`, which ends the thread. `WaitWakes` or `WaitTimesOut` follows.
- Time is not modelled, so any join or wait may time out whenever its condition has not happened yet.
- `ExitProgram` is the final `stop_success_beep()` of the batch runner.

### How BeepBackend corresponds to the code

- Each helper is an operator from the globals to the new globals and the helper's result. A beep composes them in the code's order: `EmitPcSpeakerBeep`, then `BellState`/`BellTargets` with `skip_console` = the tone's result, then the writes.
- The environment decides each system call:
  - `Openable` lists the devices `open` succeeds on.
  - `HasFcntl` says whether `fcntl` imported.
  - `BeepInstalled` is what `shutil.which` finds.
  - `Ttys` lists the streams whose `isatty()` holds.
  - Per beep, the model chooses whether the ioctl and the beep run fail, and which writes raise.
- The positive duration and frequency constants make the `duration_ms <= 0` exit dead. `fileno()` of an open file never raises, so the fd exists exactly when the stream does.
- `None` and `console_paths=None` are model values.

### Notes on the AEZ operators

- TLC integers are 32-bit signed, so 32-bit words (AES table entries, the CRC) are kept as 4-byte tuples.
- Several RECURSIVE operators (`Rounds`, `TinyRounds`, `CrcLoop`, `SerialShift`, `SerialCrc`) test the length of their accumulator in the base case. This makes TLC evaluate the accumulator at every step instead of building a deep lazy chain that overflows its stack. The test never changes the result.
- State, delta and intermediate blocks are passed between operators as arguments, and never bound by `LET` and used several times. Each operator therefore corresponds to one step of the Python code, and TLC evaluates each value once.

## Runs

| Run | Result | What it shows |
|---|---|---|
| `BatchRun_workers` | pass | Two workers with IDs 1/2 and 2/2, both with `--batch-reverse` and skip-completed, 2 launches each, interleaved, killed and restarted, and progress writes that may fail. `OwnerRunsSeed`: the seed a process runs is always its own under the reference numbering of seed lines. `CoveredWhenOwnerFinished`: no seed is lost, except by a failed write. `LoadCompletedMatchesReference`: the fold of `_load_completed_seeds` equals "seeds with a success line" on every reachable file. `ReportShowsFinishedBatch`: once all processes ran to the end of the batch without a match, `batch_progress_report` counts every position as processed, except seeds whose write failed and a repeated seed whose earlier occurrence already succeeded (skipped as completed, so it has no line of its own). `ImplementsProgressLog` (refinement): the shared file is append-only, holds only outcomes `btcrseed.main` can return for the seed, and never records a completed seed's success twice. |
| `BatchRun_reload` | pass | The same two workers and launches, on the batch file `s1, #, s2, s1`, with writes that succeed and reads of the progress file that may stop early. A failed reload makes a restarted worker run seeds it had completed, and a failed match check makes a worker run on after `MATCHED`. Neither loses a seed (`CoveredWhenOwnerFinished`) or misleads the report (`ReportShowsFinishedBatch`); the run reaches finished batches whose second `s1` was skipped as completed and is listed by the report as skipped, the one exception the property states. `ImplementsProgressLog`: a success is recorded twice only for a seed whose success line a reload missed. |
| `BatchRun_tabs` | **violation** | `ImplementsProgressLog`: the help of `--batch-skip-completed` says it skips seeds already marked CHECKED or MATCHED. A batch line whose words are separated by tabs is logged in full, but `_load_completed_seeds` splits the line on tabs and reads back only its first word (line 136), so a restarted worker runs the seed again and logs a second CHECKED line (8 states). |
| `BatchRun_exitcode` | **violation** | `ExitStatusReportsErrors`: a run in which `btcrseed.main` raised (line 297 leaves `retval` alone) or returned None and then a later seed was CHECKED (line 378 resets `retval = 0`) exits 0. |
| `SuccessAlert` | pass | `NoThreadOrphanedAfterStop`: after every completed stop, every waiting beep thread waits on an event that is set. |
| `SuccessAlert_noneread` | **violation** | `NoStopEventNoneRead`: the join times out and the global is set to None. The thread, back from `_emit_beeps`, calls `None.wait` and dies of AttributeError. |
| `SuccessAlert_restart` | **violation** | `StoppedThreadStaysStopped` (action property): after a timed-out stop and a new start, the old thread reads the new event and beeps again. |
| `BeepBackend` | pass | Up to 3 configure calls (enable or not, default or caller paths) and 3 beeps, with failing opens, ioctls, beep runs and writes. `PreparedSpeakerIsTried`: after `configure_pc_speaker(True)` returns True, the next beep issues the ioctl or runs `beep`, whatever earlier beeps cached. This depends on the reset of `_beep_command_available` at line 178. `ConfigureFalseRestoresImportState`: after `configure_pc_speaker(False)` every global is as at import, except the cached path of `beep`. The run fixes `HasFcntl = TRUE`. With `HasFcntl = FALSE` and no `beep`, `configure_pc_speaker(True)` returns True once a console path opens, yet no beep reaches the speaker: `PreparedSpeakerIsTried` fails in 2 steps (see the hazards in `PROJECT.json`). |
| `AezCipher_tiny` | pass | Messages of 0..27 bytes (ciphertexts 4..31, through `aez_prf` and every `aez_tiny` length from 5 to 31 bytes, odd and even, below and above 16; lengths 1 to 4 are never reached, since every ciphertext carries a 4-byte tag). Decryption inverts encryption, and every one-bit forgery is rejected. |
| `AezCipher_core_roundtrip` | **violation** | `DecryptInvertsEncrypt` for ciphertexts of 32..35 bytes: `aez_core` writes its final pair through `dst_tail = dst[...]`, a copy (aezeed.py:619, also 639, 681), so the output is wrong. For the same reason the tag bytes are always zero, and `_aez_decrypt` accepts forged ciphertexts: with `ForgeryRejected` in place of `DecryptInvertsEncrypt` in this cfg, TLC reports the violation in the initial state. |
| `AezCipher_fragment` | **violation** | `CoreFragmentXMatchesSpec`: for a fragment of 16 bytes or more, aezeed.py:605 hashes `tail[16:32]` where spec §4.6 says `frag[0..16]`. |
| `MnemonicCodec` | pass | 256 mnemonics (2 entropies × 2 salts × version 0/1 × 2 passphrases × decode passphrase × 8 damages). The decoded seed has the DecipheredCipherSeed shape; packing matches the bit stream; the table CRC matches the bit-serial CRC-32C; intact mnemonics round-trip or report a wrong passphrase; damage is reported as InvalidMnemonic; `validate_mnemonic` agrees with `decode_mnemonic`. |

Every property of a passing run has a mutant in `PROJECT.json`: a plausible bug in the mapped code, defined just before the definition it replaces, which TLC must then catch.

## Bounds and why they are enough

- **BatchRun.**
  - 3 seeds and a comment line cover: seed_index drifting over a comment, both workers owning a seed, and a seed owned by worker 1 after one owned by worker 2.
  - BatchRun_workers allows 2 launches per process: a kill and a restart that reloads the progress file. A third launch multiplies the states by 19 (7.6M, 13 minutes) and adds no new kind of step; BatchRun_exitcode keeps 3.
  - The workers run's batch file lists each seed once. The reload run's lists `s1` twice, both at indices of process 1: the refinement holds there, and `ReportShowsFinishedBatch` states the report's one exception, the second occurrence skipped as completed with no progress line. A seed listed at indices of two workers is a hazard in `PROJECT.json`: both run it and the single-success promise of `ImplementsProgressLog` fails, so no run uses such a file.
  - The match is the last seed read, so the stop-on-match path competes with unfinished work.
  - Append failures and read failures are checked in separate runs (BatchRun_workers, 0.4M states, and BatchRun_reload, 0.23M states with the repeat batch). With both faults there are 2.9M states. All the invariants and the refinement of both runs were checked once on that product, with a batch file listing each seed once, without coverage, and they hold (72 s). As a standing run, with coverage, it takes several minutes.
  - BatchRun_workers reads the file reversed and BatchRun_exitcode reads it forward. Both orders are therefore checked, and the comment line comes before or after the seeds it separates.
- **SuccessAlert.**
  - 2 threads and 6 calls reach start → stop (timed out) → start → stop, the shortest sequence with two live threads.
- **BeepBackend.**
  - Three paths, of which one opens, cover three cases: a default order whose first device fails, a caller path that fails, and one that opens.
  - 3 configure calls and 3 beeps reach a failed `beep` run followed by a reconfiguration and another beep, which is the case the `_beep_command_available` reset is for.
  - The bounds end every behaviour, so the runs say `CHECK_DEADLOCK FALSE`.
- **AezCipher.**
  - `aez_tiny` is checked at every length from 5 to 31 bytes, which are all the lengths the decoder can give it: the ciphertext always carries the 4-byte tag, so lengths 1 to 4 never occur.
  - `aez_core` is checked only where it already fails (32..35 and fragments up to 19 bytes).
  - A run over 64 bytes or more (pass 1 and 2) would add nothing while the copy bug makes every core length fail.
  - 4 message seeds differ in the bits the whitening and nibble shift use.
- **MnemonicCodec.**
  - The two entropies and salts give different bytes at all 33 positions.
  - Corruptions at words 1, 2, 12, 20 and 24 hit the version byte, the ciphertext, the salt and the checksum.
  - Dropping a word and adding an unknown one hit the early errors.

## Fairness

- **BatchRun.**
  - No fairness: only safety is checked. The main loop is a `for` over the list read at start, so a started process always leaves it unless `btcrseed.main` or the `input()` of `wait_for_user_to_stop` blocks, and both are outside the model. Termination is therefore not a question the model can answer.
  - Processes may stop for good once their launches are used up, so these runs say `CHECK_DEADLOCK FALSE`.
- **BeepBackend.** No fairness: only safety is checked.
- **SuccessAlert.** No fairness: only safety is checked, and the program really stops after its final `stop_success_beep`.

## What is not modelled, and why

- **`btcrseed.main`** (the actual recovery) is a nondeterministic outcome per seed.
- **Progress-file details.**
  - Timestamps and argument columns are left out; no property reads them.
  - A failed `_append_progress` is modelled by its effect: the line is missing. The printed message is left out.
  - A seed is a model value. Splitting a line on tabs is modelled by `ReadSeed` (in `BatchRun` and in `ProgressReport`): it gives the seed back, or, for a seed in the constant `Tabbed` (words separated by tabs), a distinct value standing for its first word. Only BatchRun_tabs has a tabbed seed. Two cases outside the abstraction are listed as hazards in `PROJECT.json`: a line torn by a concurrent read, and a progress file that is the batch file through a link.
  - The rest of the report's `_load_progress` is not a definition of its own. Every line the runner writes has a status and a seed, so it keeps them all.
- **`success_alert.py` helpers.**
  - `wait_for_user_to_stop` changes no state: it reads two globals and blocks on stdin. `beep_failure_once` is one `Beep` of BeepBackend.
  - The `atexit` close of the console stream happens at exit only. The 1.5 s and 0.2 s sleeps between beeps are left out.
- **`_extract_key` (blake2b) and scrypt** are abstracted to a key function. Hash functions are out of TLC's reach.
- **Other parts.** The other `utilities/` scripts, `trezor_common_mistakes.py`, `enru.py`, the pylibscrypt shim and the test harnesses have no state or concurrency worth model checking (see `components` in `PROJECT.json`).

## Later work

- Add a run of `aez_core` over 64+ bytes once the copy bug is fixed (pass 1 and 2, and the doubling cadence).
- Compose SuccessAlert's threads with BeepBackend's `_write_lock`, if `configure_pc_speaker` ever gets a caller that runs while a beep thread is alive.
