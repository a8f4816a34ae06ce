------------------------------ MODULE PatchRun ------------------------------
(***************************************************************************)
(* run of src/patches/mod.rs: every enabled patch is planned, then the     *)
(* plans are applied in order, each write through write_checked            *)
(* (GuardedWrite), and a plan whose write fails undoes the writes it made. *)
(* Other threads of the game may store to the targets meanwhile.           *)
(***************************************************************************)
EXTENDS Naturals, Sequences, FiniteSets, GuardedWrite

CONSTANTS
  Patch,           \* the patches
  Order,           \* the order in which run lists them
  Writes,          \* Writes[p]: the targets of p's plan; patches may share one
  MaxDisturbed     \* bound: of the targets others store to in one turn

Listed == {Order[i] : i \in DOMAIN Order}
TargetsOf(p) == {Writes[p][i] : i \in DOMAIN Writes[p]}

\* PatchPlan::new refuses an empty plan; no plan writes one place twice.
ASSUME OrderAssumption ==
  /\ Order \in Seq(Patch)
  /\ Listed = Patch
  /\ \A i, j \in DOMAIN Order : Order[i] = Order[j] => i = j
ASSUME WritesAssumption ==
  /\ Writes \in [Patch -> Seq(Target)]
  /\ \A p \in Patch :
       /\ Writes[p] # <<>>
       /\ \A i, j \in DOMAIN Writes[p] : Writes[p][i] = Writes[p][j] => i = j

VARIABLES
  config,          \* PatchConfig
  stage,           \* where run is
  turn,            \* index in Order of the patch being planned or applied
  write,           \* index in its plan of the write being planned or applied
  prepared,        \* the PreparedPatch of each patch
  applied,         \* applied_writes of the plan in progress
  alreadyApplied,  \* already_applied, likewise
  undoing,         \* a write failed, the applied ones are being rolled back
  rollbackFailed,  \* rollback_errors is not empty
  status,          \* the report's outcomes
  \* History, read by the properties only:
  before,          \* the memory when the turn of the patch began
  disturbed        \* targets others have stored to since

planVars == <<write, applied, alreadyApplied, undoing, rollbackFailed>>
seenVars == <<before, disturbed>>
runVars  == <<guardVars, config, stage, turn, planVars, prepared, status,
              seenVars>>

Now == Order[turn]
ItsWrite == Writes[Now][write]
-----------------------------------------------------------------------------
\* (Fault) Disabled patches are reported as failed as well.
FailedAll == [p \in Patch |-> "Failed"]

FailedEnabled == [p \in Patch |-> IF config[p] THEN "Failed" ELSE "Disabled"]

\* fail_enabled: Dunia.dll is not loaded, or its image cannot be inspected.
FailEnabled ==
  /\ stage = "start"
  /\ status' = FailedEnabled
  /\ stage' = "done"
  /\ UNCHANGED <<guardVars, config, turn, planVars, prepared, seenVars>>

Inspect ==
  /\ stage = "start"
  /\ stage' = "plan"
  /\ UNCHANGED <<guardVars, config, turn, planVars, prepared, status, seenVars>>

\* prepare_patch, for the patches in order.  A plan is refused when a signature
\* does not lead to exactly one target, or a target holds neither its expected
\* nor its patched bytes.
Planned(p, kind) ==
  /\ prepared' = [prepared EXCEPT ![p] = kind]
  /\ turn' = turn + 1
  /\ write' = 1
  /\ UNCHANGED <<guardVars, config, stage, applied, alreadyApplied, undoing,
                 rollbackFailed, status, seenVars>>

Planning == stage = "plan" /\ turn \in DOMAIN Order

SkipDisabled == Planning /\ ~config[Now] /\ Planned(Now, "Disabled")

RefusePlan == Planning /\ config[Now] /\ Planned(Now, "Failed")

\* CheckedWrite::validated, for one write of the plan.
PlanWrite ==
  /\ Planning
  /\ config[Now]
  /\ memory[ItsWrite] \in {Expected[ItsWrite], Replacement[ItsWrite]}
  /\ \/ write = Len(Writes[Now]) /\ Planned(Now, "Ready")
     \/ /\ write < Len(Writes[Now])
        /\ write' = write + 1
        /\ UNCHANGED <<guardVars, config, stage, turn, applied, alreadyApplied,
                       undoing, rollbackFailed, prepared, status, seenVars>>

\* PreparedPatch::apply is called on the first patch, then on the next.
BeginTurn(i) ==
  /\ turn' = i
  /\ write' = 1
  /\ applied' = <<>>
  /\ alreadyApplied' = 0
  /\ undoing' = FALSE
  /\ rollbackFailed' = FALSE
  /\ before' = memory
  /\ disturbed' = {}

\* (Fault) Plans are applied while others are still to be made.
SomeTried == TRUE

AllTried == turn \notin DOMAIN Order

AllPlanned ==
  /\ stage = "plan"
  /\ AllTried
  /\ stage' = "apply"
  /\ BeginTurn(1)
  /\ UNCHANGED <<guardVars, config, prepared, status>>

Outcome(p, s) ==
  /\ status' = [status EXCEPT ![p] = s]
  /\ BeginTurn(turn + 1)
  /\ UNCHANGED <<guardVars, config, stage, prepared>>

Applying(kind) ==
  /\ stage = "apply"
  /\ turn \in DOMAIN Order
  /\ prepared[Now] = kind

ReportUnplanned ==
  \/ Applying("Disabled") /\ Outcome(Now, "Disabled")
  \/ Applying("Failed") /\ Outcome(Now, "Failed")

\* PatchPlan::apply: the loop over the writes.
BeginWrite ==
  /\ Applying("Ready")
  /\ ~undoing
  /\ write \in DOMAIN Writes[Now]
  /\ Apply(ItsWrite)
  /\ UNCHANGED <<config, stage, turn, planVars, prepared, status, seenVars>>

WriteReturned ==
  /\ Applying("Ready")
  /\ ~undoing
  /\ Accept
  /\ \/ /\ result = "Applied"
        /\ applied' = Append(applied, address)
        /\ write' = write + 1
        /\ UNCHANGED <<alreadyApplied, undoing>>
     \/ /\ result = "AlreadyApplied"
        /\ alreadyApplied' = alreadyApplied + 1
        /\ write' = write + 1
        /\ UNCHANGED <<applied, undoing>>
     \/ /\ result \notin Succeeded
        /\ undoing' = TRUE
        /\ UNCHANGED <<applied, alreadyApplied, write>>
  /\ UNCHANGED <<config, stage, turn, rollbackFailed, prepared, status,
                 seenVars>>

\* (Fault) The original and the patched bytes are not exchanged.
ApplyAgain(t) == Apply(t)

TakeBack(t) == Rollback(t)

\* The writes that were applied are rolled back, the last one first; one that
\* cannot be does not keep the others from being tried.
Undo ==
  /\ Applying("Ready")
  /\ undoing
  /\ applied # <<>>
  /\ TakeBack(applied[Len(applied)])
  /\ UNCHANGED <<config, stage, turn, planVars, prepared, status, seenVars>>

\* (Fault) The same write is rolled back again and again.
All(ts) == ts

AllButLast(ts) == SubSeq(ts, 1, Len(ts) - 1)

UndoReturned ==
  /\ Applying("Ready")
  /\ undoing
  /\ Accept
  /\ applied' = AllButLast(applied)
  /\ rollbackFailed' = (rollbackFailed \/ result \notin Succeeded)
  /\ UNCHANGED <<config, stage, turn, write, alreadyApplied, undoing, prepared,
                 status, seenVars>>

\* (Fault) One write that had been applied before speaks for the whole plan.
VerdictOfOne == IF alreadyApplied # 0 THEN "AlreadyApplied" ELSE "Applied"

Verdict == IF applied = <<>> /\ alreadyApplied # 0 THEN "AlreadyApplied"
                                                   ELSE "Applied"

\* (Fault) The writes that were applied are left in place.
NotUndone == undoing

Undone == undoing /\ applied = <<>>

\* The three ways a plan ends.  "Partial" is a failure with PartialWrite for
\* its error.
PlanApplied ==
  /\ Applying("Ready")
  /\ ~undoing
  /\ phase = "idle"
  /\ write \notin DOMAIN Writes[Now]
  /\ Outcome(Now, Verdict)

PlanFailed ==
  /\ Applying("Ready")
  /\ phase = "idle"
  /\ Undone
  /\ Outcome(Now, IF rollbackFailed THEN "Partial" ELSE "Failed")

Finish ==
  /\ stage = "apply"
  /\ turn \notin DOMAIN Order
  /\ stage' = "done"
  /\ UNCHANGED <<guardVars, config, turn, planVars, prepared, status, seenVars>>

\* write_checked runs.
Write ==
  /\ GuardStep
  /\ UNCHANGED <<config, stage, turn, planVars, prepared, status, seenVars>>

\* Another thread stores to a target.
Disturb ==
  /\ stage # "done"
  /\ \E t \in Target, b \in Bytes :
       /\ disturbed' = disturbed \cup {t}
       /\ Cardinality(disturbed') <= MaxDisturbed
       /\ memory[t] # b
       /\ Store(t, b)
  /\ UNCHANGED <<config, stage, turn, planVars, prepared, status, before>>

RunStep ==
  \/ FailEnabled \/ Inspect
  \/ SkipDisabled \/ RefusePlan \/ PlanWrite \/ AllPlanned
  \/ ReportUnplanned
  \/ BeginWrite \/ Write \/ WriteReturned
  \/ Undo \/ UndoReturned
  \/ PlanApplied \/ PlanFailed \/ Finish

RunInit ==
  /\ GuardInit
  /\ config \in [Patch -> BOOLEAN]
  /\ stage = "start"
  /\ turn = 1
  /\ write = 1
  /\ prepared = [p \in Patch |-> "Unprepared"]
  /\ applied = <<>>
  /\ alreadyApplied = 0
  /\ undoing = FALSE
  /\ rollbackFailed = FALSE
  /\ status = [p \in Patch |-> "none"]
  /\ before = memory
  /\ disturbed = {}

RunNext == RunStep \/ Disturb

RunSpec == RunInit /\ [][RunNext]_runVars /\ WF_runVars(RunStep)

\* Nobody else stores to the targets while the patches are applied.
QuietSpec == RunInit /\ [][RunStep]_runVars /\ WF_runVars(RunStep)
-----------------------------------------------------------------------------
(* Properties. *)

\* "Build and validate every enabled plan before applying any plan"
\* (mod.rs:142): when the run changes a byte, no plan is outstanding, and the
\* byte belongs to a patch that is enabled and was planned in full.
PlansComeFirst ==
  [][RunStep /\ memory' # memory =>
       /\ \A p \in Patch : prepared[p] # "Unprepared"
       /\ \E p \in Patch :
            /\ config[p] /\ prepared[p] = "Ready"
            /\ \A t \in Target \ TargetsOf(p) : memory'[t] = memory[t]]_runVars

Decided(p) == status[p] = "none" /\ status'[p] # "none"

\* A patch that fails without PartialWrite leaves every target as it was when
\* its turn came, whether it belonged to the plan, was already patched or is
\* another patch's; others' stores are left alone.  The write that failed is the
\* exception: it may have failed after its bytes were copied.
FailureUndone ==
  [][\A p \in Patch : Decided(p) /\ status'[p] = "Failed" =>
       \A t \in Target \ disturbed :
         \/ memory'[t] = before[t]
         \/ prepared[p] = "Ready" /\ t = ItsWrite
              /\ memory'[t] = Replacement[t]]_runVars

\* A patch reported as applied, or as applied already, is in place whole; in
\* the second case it had been before its turn came.
SuccessMeansPatched ==
  [][\A p \in Patch : Decided(p) /\ status'[p] \in Succeeded =>
       /\ \A t \in TargetsOf(p) \ disturbed : memory'[t] = Replacement[t]
       /\ status'[p] = "AlreadyApplied" =>
            \A t \in Target \ disturbed : memory'[t] = before[t]
       /\ status'[p] = "Applied" =>
            \E t \in TargetsOf(p) : t \in disturbed
                                    \/ before[t] # Replacement[t]]_runVars

\* The report has one outcome for every patch, and it says disabled exactly of
\* those the configuration turns off (README.md:66-68).
ReportComplete ==
  stage = "done" =>
    \A p \in Patch : /\ status[p] # "none"
                     /\ (status[p] = "Disabled") = ~config[p]

\* Initialization comes to an end: no failure or rollback keeps run from
\* reporting.
RunTerminates == <>(stage = "done" \/ phase = "crashed")

\* A turn is one step of AtomicPatches: the game's bytes change when its outcome
\* is decided, to what that outcome allows.  Until then a target is seen as it
\* was when the turn began, unless somebody else has stored to it.
InTurn == stage = "apply" /\ turn \in DOMAIN Order

Visible ==
  [t \in Target |-> IF InTurn /\ t \notin disturbed THEN before[t]
                                                     ELSE memory[t]]

Atomic == INSTANCE AtomicPatches WITH memory <- Visible

PatchesAreAtomic == Atomic!AtomicSpec

\* What the log line suggests (README.md:66-68 tells applied from rejected, and
\* mod.rs:615 reports an incomplete rollback apart): a patch whose outcome is
\* FAILED without PartialWrite is not in the game.
FailedMeansUnpatched ==
  [][\A p \in Patch : Decided(p) /\ status'[p] = "Failed" =>
       \A t \in TargetsOf(p) : memory'[t] = before[t]]_runVars
=============================================================================
