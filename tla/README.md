# A specification of fc2-systemdetection

`fc2-systemdetection` is a 32-bit Windows DLL, written in Rust, that stands in
for Far Cry 2's `systemdetection.dll`. The game loads it and asks it for two
C++ objects, one describing the hardware and one scoring it. On the first such
call the DLL also patches the game's `Dunia.dll` in memory.

This directory holds TLA+ modules that model that program, configurations with
which TLC checks them on small instances, and proofs that TLAPS checks. Line
numbers below are of the files under `src/` of the repository.

## 1. The system

| Part | Source | State it keeps | Operations | Talks to |
|---|---|---|---|---|
| guarded write | `patches/memory.rs` | none of its own; the bytes and page protections of the process | `write_checked`, `read_bytes`, `classify_bytes`, `validate_readable_range` | the operating system; every other thread of the game |
| patch engine | `patches/mod.rs` | the prepared patches, the writes applied so far, the report | `run`, `prepare_patch`, `PatchPlan::apply` | configuration, planning, guarded write, log |
| search and planning | `patches/sigscan.rs`, `patches/mod.rs` | the image: copies of the sections | `scan`, `contains_relative_target`, `address_from_rva`, `find_signature_target`, `checked_known_signature_write`, the `plan_*` functions | the image, memory |
| section snapshot | `patches/sigscan.rs` | the section table, the mapping of a file | `from_module`, `from_pe_file`, `validate_pe_sections` | portex (headers), memory |
| offline validation | `patches/offline.rs` | the file's mapping, the plans | `validate_dunia_file`, `validate_known_rvas` | section snapshot, planning, guarded write |
| module path, build | `patches/mod.rs` | a buffer | `module_path`, `detect_build` | Windows |
| configuration | `patches/config.rs` | the options, the warnings | `ConfigLoad::load`, `parse` | a file |
| entry points | `lib.rs` | `SELF_MODULE` and three `OnceLock`s | `DllMain`, `GetHardwareInstance`, `GetScoreInstance`, `ensure_runtime_initialized` | the loader, the patch engine |
| hardware and score objects | `gear/hardware.rs`, `gear/score.rs` | `m_cpu`, `m_graphics`, the two scores | the virtual methods the game calls | CPU and graphics objects |
| CPU object | `gear/cpu.rs` | counts of processors and cores, the clock rate; the thread's affinity | `GearCPU::new` with `get_cpu_topology_fixed` and `get_cpu_mhz` | Windows |
| graphics object | `gear/graphics.rs` | none | three queries, the destructor | Windows |
| initialization and log | `patches/mod.rs` | the report | `initialize`, `emit_report` | all the parts above, files, the debugger |
| debug console | `lib.rs` | none | `init_console` | Windows |

How a start goes: the loader runs `DllMain`, which only stores the module
handle. The first export call runs `patches::initialize` behind a `OnceLock`:
the configuration is read, the sections of `Dunia.dll` are copied, every enabled
patch is planned, the plans are applied one after another through
`write_checked`, and a report is written. Then the export makes its object,
once, and returns it; the game calls its methods from whichever threads it
likes.

What is hard to get right here, and to test:

- the bytes and pages that are patched belong to a process whose other threads
  run (and store, and change protections) between any two of the patcher's
  system calls, each of which may also fail;
- a patch of several writes fails in the middle, its rollback fails too, or a
  write fails after its bytes are there;
- a game that is patched already, in part, or by someone else;
- a signature that fits several places, near the end of a section, or is
  itself changed by the patch it leads to;
- the loader lock against the `OnceLock`s, with threads starting meanwhile;
- pages of `Dunia.dll`, to which no reference is held, that are taken away
  between the inspection and the copy, or between the plan and the write;
- lazily made members that two threads ask for at once, without a lock, and
  destructors that leave pointers to what they have freed;
- a path that can be had at one moment and not at another, and a file that cannot
  be written, with a report that must come out nevertheless;
- integers at the border of a word: affinity masks, section tables of a file.

`PROJECT.json` lists each of these as a hazard with its line, and the properties
that would be violated if the code got it wrong.

## 2. The modules

### `GuardedWrite`, `CheckedWrite`

`CheckedWrite` is `write_checked` with one action per call it makes: `Query`
(a round of `validate_readable_range`), `Read` (compare), `Region`
(`writable_protection_for_single_region`), `Unprotect`, `Copy`, `Restore`,
`Flush`, and `Query` and `Read`-back again as `Verify`. A page has one of the
protections the code tells apart. `ForeignWrite` and `ForeignProtect` are
another thread, a debugger or another mod, and may happen between any two of
these; `ForeignWrite` does not heed the protection, since whoever stores may
have changed it for that moment. Touching a page that does not allow it ends the
process (`Fault`).

The history variables `wrote`, `stale`, `meddled` and `entry` record what
happened during the call; no guard reads them.

`GuardedWrite` is what the callers rely on: the bytes are compared, then
replaced in one step if they were the expected ones, and the result says what was
found, with the errors that may come before and after the copy kept apart.
`CheckedWrite!KeepsPromise` states that the one implements the other under the
mapping `Phase` of program counters to phases.

### `PatchRun`, `AtomicPatches`

`PatchRun` is `run` with everything it calls, built on `GuardedWrite`: it
extends that module and makes its requests with `Apply` and `Rollback`.
`Inspect` stands for the early returns of `run`, in which every enabled patch is
failed; `PlanWrite` and `RefusePlan` for planning, which may refuse any patch
for reasons `SignatureTarget` has the detail of; `BeginWrite`, `WriteReturned`,
`Undo`, `UndoReturned`, `PlanApplied` and `PlanFailed` for `PatchPlan::apply`.
A rollback that returns an error counts as failed even where the bytes are back
(`RestoreProtection`), as in the code. Two patches may share a target, because
`run` does not compare the plans.

Others store to the targets at any step (`Disturb`); `before` and `disturbed`
remember the bytes each turn began with and which targets others have stored to
since, for the properties only.

`AtomicPatches` decides one patch per step: nothing changes, or all of it does,
or (after a late error or a failed rollback) what the outcome allows. Others
store there too, and it promises nothing of a target they have stored to since
the patch before was decided. `PatchesAreAtomic` states that every run implements
it, under a mapping that shows a target as it was until the patch is decided or
somebody else stores to it.

### `SignatureTarget`, `KnownPatches`

How a plan finds the place it writes. `from_module` goes through the sections
in two steps each: `CheckSection` (`validate_readable_range`), which refuses the
module when the pages cannot be read, and `CopySection`, which ends the process
when they no longer can. The signatures are searched for in that `snapshot`; the
bytes at a target are read from `memory`. Others may store to the memory
(`Store`) or take a section's pages away (`TakeAway`) between any two steps, also
between the copies of two sections. A recipe is one search of one plan. `Again` is
a second patcher in the same process, or the next start on a game that is patched
already.

`KnownPatches` has the `plan_*` functions: for each patch and build, the searches
it makes (`FindSignatureTarget`, `CheckedKnownSignature`, `KnownRva`) with the
code's signatures, offsets, places and bytes. `MCSignatureTarget` uses the same
three with small values: a signature with the target in it, one with the target
behind it, a known RVA with its signature around it, and a known RVA alone
(`plan_predecessor_tapes` in the Retail build).

A game that is patched already is recognized only if a replacement neither breaks
the match that led to it nor completes one elsewhere. The comments at `mod.rs:42-53`
say the first of the signatures ("Mutation bytes are wildcards so already-patched
strings remain discoverable"), the second is a fact about the literals. `DistinctiveAssumption` states both as a condition on
each recipe alone: what is patched is a wildcard or already what it becomes
(`KeepsMatch`), and where the patch writes a byte that the signature has in another
position, two bytes of the signature contradict a match there (`MakesNoMatch`).
TLC evaluates the condition on every search of `KnownPatches`, in every build
(`SearchesDistinctive`).

### `ImageSections`

`validate_pe_sections` and the two ways an image comes of it, in words of
`Width` bits, with `checked_add` where the code has it and wrapping sums where
it has `+`. A slice out of range is the result `"panic"`, which `NoPanic`
excludes, together with a read of the loaded headers beyond the module.

### `OfflineValidation`

`validate_dunia_file`: plan all, compare with the known places, apply all to
the copy, and plan and apply all again. `leadsTo` says where the signatures of
each patch lead in this file; the copy is heap memory nobody else stores to.
Every call the system may refuse has an action that refuses it.

### `DllRuntime`

`DllMain`, the exports and the `OnceLock`s, for any set of threads. The loader
lock is taken by loading, by a thread that starts, and for a moment in each of
the four places where `initialize` asks Windows for a module or a path.
`GetOrInit` is `OnceLock::get_or_init`.

### `GearObjects`

`get_cpu`, `get_graphics` (check, allocate, store, load, without a lock),
`get_score` with its sentinel and `compute_score`, from several threads, with
the exports that hand out the two objects. `DestroyHardware` and `Delete` are the
destructors. The game may call them on any object it was given, with the flag
that frees it or without, and the hardware object's more than once; the members
then point at freed parts and the getters hand those out. The C++ rules that
remain are assumed: nobody calls a method of an object that has been freed, and no
destructor runs beside a call on its own object. The hardware object and the
score object share nothing, so `about` fixes which of the two a behaviour calls.

### `Initialize`, `LoadConfig`, `ModulePath`, `ConfigParse`

`ModulePath` is `module_path` with the buffer that doubles up to the limit of a
path; `ConfigParse` is `ConfigLoad::load` and `parse` over whole files, a line
abstracted to the kinds the parser tells apart; `LoadConfig` composes them as
`load_patch_config` does, with the defaults as the way out. `Initialize` goes on
from there: `Dunia.dll` is found or not, its build is detected from the size of
its file, which needs its path, and `emit_report` tells the debugger, looks for
its own path once more, and writes the log. The variables of the path loop serve
all the calls, reset by `AskPath`, which also says whose path is asked for
(`whose`). Windows answers each call for the DLL's own path with its length or
with a failure (`OwnAnswers`), whatever it answered before, so that the
configuration and the log may each be without it; the history variable `missed`
says which of them was. What lies between the build and the report is `PatchRun`. The order of these calls is also the `After` of
`DllRuntime`, where only the loader lock they take matters.

### `CpuTopology`

`GearCPU::new`: `get_cpu_topology_fixed` in words of `W` bits while the affinity
of the process changes, and the clock rate with its width. A word is the set of
its bits, so that a mask is the set of processors it names; the comparison of two
masks and the shift are defined on sets, and `WordsAreNumbers` of `MCCpuTopology`
has TLC compare them with `<=` and `2 * n % 2^W` on all words of the run. A
thread the game had pinned itself comes back with all the processors of its
process, which the code does to every thread.

## 3. What is checked

Each run is a `.cfg` of an `MC` module. Properties are stated at the end of the
module they are about, each with a comment that names the code.

| Run | Question | Bounds, and why they are enough |
|---|---|---|
| `checked_write` | What may a guarded write do to bytes, to pages and to its caller, with others meddling? | one target on two pages (calls do not share state, and two pages give every way a range can lie in protection regions); three values of bytes: original, patched, neither |
| `patch_run` | Are outcomes, rollback and report right while others store to the targets, and is a patch all or nothing? | a patch of one write and one of three (a rollback of two writes) that share a target; `MaxDisturbed` = 1: others store to one target in each turn, any of the three, as often as they like and at any step. One is enough to make a write or a rollback of it fail, and any call may fail for reasons of its own, so that several rollbacks fail too |
| `patch_run_failed` | Does FAILED mean that the patch is not in the game? It does not (finding 1) | one and two writes, and nobody else stores |
| `signature_target` | Is the place right, also for who comes second, and is nothing touched that cannot be read? | all images of six bytes over three byte values in two adjacent sections of different class, one of them perhaps unreadable from the start; `MaxMeddling` = 1: one store or one section taken away by others, at any step (two properties are about no interference, and for the others one is enough to make snapshot and memory differ, or a copy fault) |
| `image_sections` | No panic, sections apart, laid out as loaded? | words of three bits, where sums wrap as at 32; none, two or three sections |
| `offline_validation` | What is a file that was found valid? | all files of three places, patches of one and two writes that may share places, all places they may be led to |
| `offline_replan` | Does the second round plan on the patched copy? It does not (finding 2) | the same |
| `dll_runtime` | One initialization before any use, no deadlock with the loader lock? | three threads: one initializes, one waits for it, one starts or loads |
| `gear_objects` | What do the unlocked creation and the destructors guarantee? | two threads: a race is between two; `MaxDestructions` = 2: the second finds what the first has left |
| `cpu_topology` | Does the loop end with the right count and put the thread back? | words of four bits, every set of processors including the full word |
| `cpu_clock` | Do the two frequency words hold the rate in Hz? They do not (finding 3) | `Million` and `FreqBits` scaled down to 4, rates on both sides of the one whose product leaves the word |
| `initialize` | Is a path whole or refused, does the last valid line decide, is each bad line warned of, and does a report come out, in the right place? | paths just below and at the first and the last size of the buffer, for the DLL and for `Dunia.dll`, and each call that asks for one may fail; all files of up to four lines of nine kinds |

A type invariant is checked of `CheckedWrite`. Those of the other modules are part
of their proofs and proved there; in a run, a value of a wrong kind would violate
the properties themselves.

Deadlock is checked in `dll_runtime` and `gear_objects`, where threads go on
for ever. Elsewhere the modelled operation ends, or the process does, so the
configuration turns it off; that it does end is part of `KeepsPromise`, and
`RunTerminates`, `DetectionEnds` and `InitializationReports`.

Fairness. The steps of one call, run, detection or initialization are those of one
thread that waits for nothing in between (`WF` of their disjunction): it goes on
because Windows schedules it. In `DllRuntime` each thread that has entered the
DLL or `DllMain` goes on when it can, by weak fairness per thread, which is
enough for the loader lock because initialization takes it a bounded number of
times. Nothing that the game or another thread decides to do (load, start a
thread, call, store, change a protection) is assumed ever to happen.

### Findings

1. *A patch that is reported FAILED may be in the game.* `write_checked` may
   fail after its copy (`RestoreProtection`, `FlushInstructionCache`, a read-back
   that fails). `PatchPlan::apply` rolls back the writes before that one
   (`mod.rs:442-447`), not the write itself, and the report says FAILED. Run
   `patch_run_failed`. What holds instead is `FailureUndone`: the write that
   failed is the only exception.
2. *The second round of offline validation plans on the original bytes.*
   `make_plans` is called on the same `ModuleImage` (`offline.rs:105`), whose
   sections were copied before anything was patched (`sigscan.rs:365`). Message
   and README speak of planning on the patched copy. Run `offline_replan`. It is
   the reason why `OnceIsEnough` holds: the second round can refuse nothing.

3. *`cpu_freq_low` is not always MHz * 1000000.* The product saturates at line
   102 of `cpu.rs` from 4295 MHz on, and `cpu_freq_high` is always 0, although
   lines 6 and 59 document the product. Run `cpu_clock`.

## 4. What is proved

Each `*_proofs` module extends the module it is about. A theorem holds for every
value of the constants that the named assumptions allow: any set of threads,
patches, targets, pages or options, images and files of any size, words of any
width. The runs check the same properties on the instances of section 3, and
each inductive invariant was checked on those instances before it was proved.
Every proofs module begins with a type invariant, proved as `TypeCorrect`, and
continues with the parts of its inductive invariant, one lemma per part with one
step per action, and what the invariant means for the properties.

| Module | Inductive invariant, beside `TypeOK` | Theorems |
|---|---|---|
| `CheckedWrite_proofs` | `BytesInv`, `PagesInv` | `HonestResultHolds`, `GuardHolds`, `CrashNeedsMeddlingHolds`, `ProtectionComesBackHolds`, `CodeStaysExecutableHolds`, `PromiseKept`, `CallAdvancesHolds` |
| `PatchRun_proofs` | `RunInv` == `OrderInv`, `CallInv`, `PlanInv`, `MemoryInv` | `ReportCompleteHolds`, `PlansComeFirstHolds`, `FailureUndoneHolds`, `SuccessMeansPatchedHolds`, `NoOtherBytesTouchedHolds`, `SuccessLastsHolds` (with `QuietInv`), `PatchesAreAtomicHolds`, `RunAdvances` |
| `SignatureTarget_proofs` | `ScanInv` == `ImageInv`, `PlaceInv`, `ContextInv`, `SnapshotInv`, `SearchInv`, `RepeatInv` | `FaultNeedsTakingHolds`, `ContextWasThereHolds`, `OnePlaceOnlyHolds`, `WritesInScopeHolds`, `SecondFindsFirstHolds` |
| `ImageSections_proofs` | `ImageInv` == `RangeInv`, `OrderInv` | `NoPanicHolds`, `SectionsApartHolds`, `LaidOutAsLoadedHolds` |
| `OfflineValidation_proofs` | `OffInv` == `TurnInv`, `FirstInv`, `ApplyInv`, `AgainInv`, `ResultInv` | `ValidMeansPatchableHolds`, `FailuresFirstHolds`, `OnceIsEnoughHolds` |
| `DllRuntime_proofs` | `LibInv` == `LoaderInv`, `RuntimeInv`, `ObjectInv`; and `RunnerInv` | `PatchedBeforeUseHolds`, `OneInstanceHolds`, `NoWaitHolds`, `NoDeadlockHolds`, `CallsAdvance` |
| `GearObjects_proofs` | `GearInv` == `CallInv`, `HeapInv`, `ReturnInv`, `RaceInv`, `GoneInv` | `ReturnedLivesHolds`, `OnePartHolds`, `PartsFreedHolds`, `NoSentinelHolds` |
| `GearObjects_proofs`, about `CpuTopology` | `CpuInv` == `MaskInv`, `AffinityInv`, `CountInv`, `PhysicalInv`; and `CpuTypeOK` | `ProcessorsCountedHolds`, `ThreadReleasedHolds`, `DetectionAdvances` |
| `Initialize_proofs` | `InitializeInv` == `PathInv`, `ParseInv`, `OwnInv`; and `ToldInv` | `PathWholeHolds`, `LastLineWinsHolds`, `BadLinesWarnedHolds`, `LogBesideConfigurationHolds`, `ReportMadeHolds`, `InitializationAdvances` |

A theorem `XHolds` states that the specification has the property `X`
(`GuardHolds` is about `NoBlindOverwrite`, `NoWaitHolds` about
`NoWaitUnderLoaderLock`). Every safety property of a passing run is stated by a
theorem. Some theorems state a property that no run has and that is defined in the
proofs module: `NoOtherBytesTouched`, `SuccessLasts`, `NoDeadlock`, `ReportMade`,
and the measures described under *Ends*. They were checked on the instances of
the runs like the rest.

### Why the properties need an invariant, and the arguments

*Guarded write.* That the bytes at the copy are the expected ones follows only if
they were when the call passed `Read` and nobody has stored since; `BytesInv` says,
for each program counter, what is known of the target's bytes as long as `stale`
is false, and how `wrote` and `result` go with the program counter. That the
protection that `Restore` puts back is that of all pages needs that, after
`Region`, all pages of the target have one protection, that `writable` was chosen
for it and `old` will be it, as long as `meddled` is false (`PagesInv`). Without
meddling every page between the first and the cursor has been found readable,
so nothing faults. `PromiseKept` maps each action to one of `GuardedWrite` or to a
stutter.

*Patch run.* The hard part is `MemoryInv`: what a target holds, in terms of what
it held when the turn began, for a target with an applied write, one whose write
is in progress forth or back, one that has been given up, and all others; with
plans that share targets and others storing meanwhile. It holds for the targets
nobody else has stored to since the turn began. It needs that `applied` holds
each write once and only those the plan has come to (`PlanInv`), and which write
`write_checked` is running on behalf of (`CallInv`). From these, one lemma
(`DecisionFits`) says how the bytes stand to the outcome when a turn ends:
`FailureUndone`, `SuccessMeansPatched` and the refinement all rest on it.

Two consequences are about more than one turn. `NoOtherBytesTouched` says what the
game is left with at any moment, a crash in `write_checked` or in a rollback
included: where nobody else has stored since the turn began, a target holds what
it held then, or the patch at hand has replaced the game's own bytes. Bytes of a
mod, or of an earlier patch on the same target, are never overwritten, nor
"restored" to the game's. It follows from the cases of `MemoryInv`, which cover
the crash too. `SuccessLasts`, for a run nobody else interferes with, says that a
success stays in the game until the end of the run: a later patch that shares a
target finds it patched, so the write is not among those it would take back.

*`PatchesAreAtomic`* is the refinement of `AtomicPatches`. Its mapping shows a
target as it was when the turn began until somebody else stores to it; a store of
others maps to `Meddle`, an early return of `run` to `FailAll`, the step that ends a
patch's turn to the one `Decide` of that patch, and every other step, those of
`write_checked` and of a rollback included, to a stutter.

*Search.* A target a plan is ready for has been accepted for a match in the
`snapshot` and lies in the match's section (`PlaceInv`, `ContextInv`): that is all
that is needed against others who store at any time. That there was no second
place needs that the search has looked at all matches, and, since the targets'
bytes are read from memory, that snapshot and memory agree as long as nobody else
has stored (`SnapshotInv`, `SearchInv`).

`SecondFindsFirst` compares two searches in images that differ by the patch:
`RepeatInv` says that the place that was patched is still where the search leads,
and the only one (`Settled`). A patch changes bytes of one target, and by
`DistinctiveAssumption` the matches of the signature are the same before and after,
so the second search goes through the same matches. Without the assumption this is
false: with the signature `<<patched, Any>>` and the target behind the first byte,
patching a target completes a second match.

*Sections.* A sum that `checked_add` let through does not wrap, so `rva + size`
is below the limit of the image for every section looked at so far (`RangeInv`).
The overlap check then makes the bytes of two sections disjoint, from which laying
out one leaves what has been laid out of the others (`OrderInv` with
`LaidOut(next)`, one fact for all earlier sections).

*Offline validation.* In the first round the copy holds the patched bytes exactly
at the places of the patches before the turn and of the writes before the one at
hand (`ApplyInv`), whichever places patches share; `changed` is related to the
writes of the plan alone, because an earlier patch may have written a shared place.
When the round is over, every place is patched, so every patch can be planned
again and nothing changes (`AgainInv`).

*Threads.* In `DllRuntime` at most one thread is in `initialize`, and then
`RUNTIME_INITIALIZED` is being initialized: whoever is past it has found it full
(`RuntimeInv`, and `ObjectInv` for the two singletons). In `GearObjects` only a thread
that found the member null creates a part, and once the member is not null no
more join them: the parts made and those still to be made of a kind never exceed
the number of threads (`RaceInv`, with the cardinality theorems of the library).
One part at least is freed by the destructor, hence the strict bound of
`PartsFreed`.

That a closure is running means that some thread runs it (`RunnerInv`). Who waits
for `RUNTIME_INITIALIZED` then waits for the thread in `initialize`; who waits
there for the loader lock waits for its holder, which is not in `initialize`,
since there is one such thread, and so is in `DllMain`, by
`NoWaitUnderLoaderLock`. `DllMain` waits for nothing, so nobody waits in a circle
(`NoDeadlockHolds`). This is what the comment at `lib.rs:36` is for: with the
initialization in `DllMain` the last step of the argument fails.

*CPU.* While the loop runs the mask has one bit, or none once it has left the word
(`MaskInv`), and the processors of the process below that bit are those counted so
far (`CountInv`). The loop leaves when the mask has passed the highest processor
of the system, and the process has none above it; so all have been counted.

*Configuration.* `LastLineWins` is proved as an invariant of the loop, stated for
the lines before `next` (`Settled`), as is `BadLinesWarned`; no induction over the
file is needed. `OwnInv` says that what becomes of the configuration and of the log
depends on the answer each of the two calls for the DLL's own path got
(`Answer("config")`, `Answer("log")`), and on nothing in between: the last call is
for the DLL again and not for `Dunia.dll`. Log and file then part only where the
two answers differ, and that is where one of the calls failed.

*Ends.* `KeepsPromise`, `RunTerminates`, `ExportsReturn`, `DetectionEnds` and
`InitializationReports` promise that something ends. What can be proved of that
without fairness is that there is only so much to do. `CallAdvancesHolds`,
`RunAdvances`, `CallsAdvance`, `DetectionAdvances` and `InitializationAdvances`
each give natural numbers that every step of the operation's own makes smaller
(lexicographically, where there are several) and that no step of others makes
larger: the pages a query has before it, the writes to make or to take back, the
bits before the mask, the room the path's buffer has to grow. What is left to
fairness is that a step that is enabled is taken, and to TLC that one is enabled.

### Assumptions

The constants' named assumptions, and nothing else:

- `CheckedWrite`, `GuardedWrite`: there is a target, each lies on one page or
  more, original and patched bytes differ, protections are protections.
- `PatchRun`: every patch is listed once; a plan writes at least once and no
  target twice. Two patches may share targets.
- `SignatureTarget`: `ApartAssumption`, the sections are apart and inside the
  image, which is what `SectionsApartHolds` proves of `ImageSections`; a recipe's
  signature is not empty, and its two sequences of bytes have one length and
  differ; `DistinctiveAssumption` (section 2), which only `SecondFindsFirstHolds`
  needs and which TLC evaluates on the searches of the code.
- `ImageSections`: words have at least one bit; what the headers hold is words.
- `OfflineValidation`: every patch is listed once, and no plan is empty. Patches
  may share places and be led anywhere.
- `CpuTopology`: a word has at least one bit; rates and numbers of processors are
  natural numbers.
- `GearObjects`: finitely many threads. `DllRuntime`: none but that `NoThread` is
  no thread.
- `Initialize`, `LoadConfig`, `ModulePath`, `ConfigParse`: paths have a length, any
  call for one may fail, and files are sequences of lines; no option is called
  `"unknown"`.

`MaxDisturbed`, `MaxMeddling` and `MaxDestructions`, which bound what others do,
are constants like the others: the theorems hold for every value of them.

### What stays with TLC

- All liveness: `RunTerminates`, `ExportsReturn`, `DetectionEnds`,
  `InitializationReports` and the liveness part of `KeepsPromise`. It rests on
  fairness and `ENABLED`, which the prover does not do. Of each the part that
  needs neither is proved (*Ends*, above).
- That the sets of bits of `CpuTopology` behave as numbers do (`WordsAreNumbers`):
  a number is the sum of its bits, which takes an induction over the word.
- That the searches of the code are distinctive: they are literals, so there is
  nothing but to evaluate it.
- The three properties that are violated (section 3).

## 5. What is not modelled

- *Parsing of PE headers* (portex): only that the headers are those of a 32-bit
  x86 DLL or not (`dll`). Of `ValidatedModuleReader` under it the bound is
  modelled (`ReadAt`); its window between check and copy is the one
  `SignatureTarget` has for the sections. *`Pattern::parse`*: the signatures are
  literals.
- *Pages of one section taken away one by one*: in `SignatureTarget` a section's
  pages are one region, so its check is one step. The loop over regions is in
  `CheckedWrite`.
- *Other threads executing* the bytes that are being patched. That the page stays
  executable is checked; that a thread fetches half an instruction is not
  expressible without a model of the processor.
- *A page taken away between the check and the read of a target's bytes* while a
  plan is made: `read_bytes` is one step in `SignatureTarget`. Its window is that
  of `CheckedWrite` and of `CopySection`.
- The constant fields of the CPU object, the graphics object's queries, which
  keep no state, the debug console, the wording of report and log.
- `FreeLibrary` of the DLL itself, and panics other than slices out of range: a
  `OnceLock` is never emptied.
- A call on an object that has been freed, and a destructor beside another call
  on its object: the caller's undefined behaviour.

## 6. Plan

The order of the work, most important first; all of it is done.

1. `GuardedWrite`, `CheckedWrite`: the one place where the game is changed.
2. Its proofs: type, guard, honest result, pages, refinement.
3. `PatchRun` on `GuardedWrite`, and `AtomicPatches`: rollback and report.
4. `DllRuntime`, `GearObjects`: threads of the game.
5. `SignatureTarget`, `ImageSections`, `OfflineValidation`: what is patched.
6. `CpuTopology`, `LoadConfig`: boundaries.
7. The CPU object's clock rate, with its width; the destructors of all objects.
8. `from_module` section by section inside `SignatureTarget`, `AtomicPatches`
   with others storing, and `Initialize` from the path to the log.
9. Proofs about `PatchRun`, up to the step simulation to `AtomicPatches`.
10. Proofs about `DllRuntime` and `GearObjects` for any set of threads.
11. Proofs about `SignatureTarget`, `ImageSections`, `OfflineValidation` and
    `Initialize` with the modules it composes.
12. Patched twice, counted once, and no deadlock: `SecondFindsFirst` with the
    condition on the signatures, `CpuTopology` with words as sets, what a crash
    leaves of a patch, and the measures by which everything ends.

What could come next: the parsing of PE headers, if portex were modelled, and the
windows between check and read that section 5 names.
