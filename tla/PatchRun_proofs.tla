--------------------------- MODULE PatchRun_proofs ---------------------------
(***************************************************************************)
(* Proofs about run, for any patches, plans, bytes and stores of others,   *)
(* up to the refinement of AtomicPatches.                                  *)
(***************************************************************************)
EXTENDS PatchRun, TLAPS

TypeOK ==
  /\ memory \in [Target -> Bytes]
  /\ phase \in Phases
  /\ address \in Target
  /\ replacement \in Bytes
  /\ result \in Results \cup {"none"}
  /\ config \in [Patch -> BOOLEAN]
  /\ stage \in {"start", "plan", "apply", "done"}
  /\ turn \in Nat \ {0}
  /\ write \in Nat \ {0}
  /\ prepared \in [Patch -> {"Unprepared", "Disabled", "Failed", "Ready"}]
  /\ applied \in Seq(Target)
  /\ alreadyApplied \in Nat
  /\ undoing \in BOOLEAN
  /\ rollbackFailed \in BOOLEAN
  /\ status \in [Patch -> {"none", "Disabled", "Applied", "AlreadyApplied",
                           "Failed", "Partial"}]
  /\ before \in [Target -> Bytes]
  /\ disturbed \subseteq Target

\* The patches before the turn have been planned, then decided, and only the
\* disabled ones are reported so.
OrderInv ==
  /\ stage \in {"start", "plan"} =>
       /\ \A p \in Patch : status[p] = "none"
       /\ \A i \in DOMAIN Order : i < turn => prepared[Order[i]] # "Unprepared"
  /\ stage = "start" => turn = 1
  /\ stage = "apply" =>
       /\ \A p \in Patch : prepared[p] # "Unprepared"
       /\ \A i \in DOMAIN Order : (status[Order[i]] = "none") = (turn <= i)
  /\ \A p \in Patch :
       prepared[p] # "Unprepared" => (prepared[p] = "Disabled") = ~config[p]
  /\ stage = "done" => \A p \in Patch : status[p] # "none"
  /\ \A p \in Patch :
       status[p] # "none" => (status[p] = "Disabled") = ~config[p]

\* write_checked runs on behalf of a plan only, for the write it has come to, or
\* for the last one it has to undo.
CallInv ==
  phase # "idle" =>
    /\ InTurn
    /\ prepared[Now] = "Ready"
    /\ IF undoing
         THEN /\ applied # <<>>
              /\ address = applied[Len(applied)]
              /\ expected = Replacement[address]
              /\ replacement = Expected[address]
         ELSE /\ write \in DOMAIN Writes[Now]
              /\ address = ItsWrite
              /\ expected = Expected[address]
              /\ replacement = Replacement[address]

Holds(t) == \E k \in DOMAIN applied : applied[k] = t
Tried(t) == \E i \in DOMAIN Writes[Now] : i < write /\ Writes[Now][i] = t

\* applied_writes are among the writes the plan has come to, each once.
PlanInv ==
  InTurn =>
    /\ \A t \in Target : Holds(t) => Tried(t)
    /\ \A j, k \in DOMAIN applied : applied[j] = applied[k] => j = k
    /\ undoing => write \in DOMAIN Writes[Now]
    /\ ~undoing => /\ write = Len(applied) + alreadyApplied + 1
                   /\ ~rollbackFailed
    /\ prepared[Now] # "Ready" => write = 1 /\ ~undoing

Kept(t)    == memory[t] = before[t]
Changed(t) == memory[t] = Replacement[t] /\ before[t] = Expected[t]

\* The bytes of the write in progress, while the plan goes on and while it is
\* being undone.
Forth(t) ==
  /\ phase = "asked" => Kept(t)
  /\ phase = "granted" => Kept(t) /\ memory[t] = Expected[t]
  /\ phase = "written" => Changed(t)
  /\ phase = "returned" =>
       /\ result = "Applied" => Changed(t)
       /\ result = "AlreadyApplied" => Kept(t) /\ memory[t] = Replacement[t]
       /\ result \notin Succeeded => Kept(t) \/ Changed(t)
  /\ phase = "crashed" => Kept(t) \/ Changed(t)

Back(t) ==
  /\ phase \in {"asked", "granted"} => Changed(t)
  /\ phase = "written" => Kept(t)
  /\ phase = "returned" => Kept(t) \/ (Changed(t) /\ result \notin Succeeded)
  /\ phase = "crashed" => Kept(t) \/ Changed(t)
  /\ before[t] = Expected[t]

\* What a target that nobody else has stored to holds, compared to what it held
\* when the turn began.
TargetInv(t) ==
  IF phase # "idle" /\ t = address
    THEN IF undoing THEN Back(t) ELSE Forth(t)
    ELSE /\ Holds(t) => Changed(t)
         /\ ~Holds(t) =>
              \/ /\ Kept(t)
                 /\ Tried(t) /\ ~undoing => memory[t] = Replacement[t]
              \/ /\ undoing
                 /\ Changed(t)
                 /\ t = ItsWrite \/ (rollbackFailed /\ t \in TargetsOf(Now))

MemoryInv ==
  \A t \in Target \ disturbed : IF InTurn THEN TargetInv(t) ELSE Kept(t)

RunInv == OrderInv /\ CallInv /\ PlanInv /\ MemoryInv
-----------------------------------------------------------------------------
(* The steps. *)

\* What the assumptions on the constants say of the patch whose turn it is.
LEMMA Turns ==
  ASSUME NEW i \in DOMAIN Order
  PROVE  /\ Order[i] \in Patch
         /\ i \in Nat \ {0}
         /\ Len(Writes[Order[i]]) \in Nat \ {0}
         /\ DOMAIN Writes[Order[i]] = 1..Len(Writes[Order[i]])
         /\ \A j \in DOMAIN Writes[Order[i]] : Writes[Order[i]][j] \in Target
<1>1. Order[i] \in Patch /\ i \in Nat \ {0}
  <2>1. Order \in Seq(Patch) /\ DOMAIN Order = 1..Len(Order)
    BY OrderAssumption
  <2> QED BY <2>1
<1>2. Writes[Order[i]] \in Seq(Target) /\ Writes[Order[i]] # <<>>
  BY <1>1, WritesAssumption
<1> QED BY <1>1, <1>2

\* make_plans lists every patch.
LEMMA EveryPatchListed == \A p \in Patch : \E i \in DOMAIN Order : Order[i] = p
  BY OrderAssumption DEF Listed

\* The steps of write_checked, seen from the plan.
LEMMA WriteSteps ==
  ASSUME TypeOK, Write
  PROVE  /\ UNCHANGED <<request, config, stage, turn, planVars, prepared,
                        status, seenVars>>
         /\ phase' \in Phases /\ result' \in Results \cup {"none"}
         /\ memory' \in [Target -> Bytes]
         /\ phase \in {"asked", "granted", "written"}
         /\ memory' # memory =>
              /\ phase = "granted"
              /\ memory' = [memory EXCEPT ![address] = replacement]
<1> USE DEF TypeOK, Write
<1>1. CASE Refuse
  BY <1>1 DEF Refuse, Return, Phases, Results, Succeeded
<1>2. CASE Grant
  BY <1>2 DEF Grant, Phases
<1>3. CASE GiveUp
  BY <1>3 DEF GiveUp, Return, Phases, Results
<1>4. CASE Put
  BY <1>4 DEF Put, Phases
<1>5. CASE Report
  BY <1>5 DEF Report, Return, Phases, Results, Succeeded
<1>6. CASE Crash
  BY <1>6 DEF Crash, Phases
<1> QED BY <1>1, <1>2, <1>3, <1>4, <1>5, <1>6 DEF GuardStep

\* Every step of run and every store of others keeps the types.
LEMMA TypePreserved == TypeOK /\ [RunNext]_runVars => TypeOK'
<1> SUFFICES ASSUME TypeOK, [RunNext]_runVars PROVE TypeOK'
  OBVIOUS
<1> USE DEF TypeOK, guardVars, request, planVars, seenVars
<1>0. <<>> \in Seq(Target)
  OBVIOUS
<1>1. CASE FailEnabled
  BY <1>1 DEF FailEnabled, FailedEnabled
<1>2. CASE Inspect
  BY <1>2 DEF Inspect
<1>3. ASSUME NEW k \in {"Disabled", "Failed", "Ready"}, Planning,
             Planned(Now, k)
      PROVE  TypeOK'
  <2>1. Now \in Patch
    BY <1>3, Turns DEF Planning, Now
  <2> QED BY <1>3, <2>1 DEF Planned
<1>4. CASE SkipDisabled \/ RefusePlan
  BY <1>3, <1>4 DEF SkipDisabled, RefusePlan
<1>5. CASE PlanWrite
  BY <1>3, <1>5 DEF PlanWrite
<1>6. CASE AllPlanned
  <2>1. applied' \in Seq(Target)
    BY <1>0, <1>6 DEF AllPlanned, BeginTurn
  <2>2. undoing' \in BOOLEAN /\ rollbackFailed' \in BOOLEAN
    BY <1>6 DEF AllPlanned, BeginTurn
  <2>3. /\ UNCHANGED <<guardVars, config, prepared, status>>
        /\ stage' = "apply" /\ turn' = 1 /\ write' = 1 /\ alreadyApplied' = 0
        /\ before' = memory
    BY <1>6 DEF AllPlanned, BeginTurn
  <2>4. disturbed' \subseteq Target
    BY <1>6 DEF AllPlanned, BeginTurn
  <2> QED BY <2>1, <2>2, <2>3, <2>4
<1>7. ASSUME NEW s \in {"Disabled", "Applied", "AlreadyApplied", "Failed",
                        "Partial"},
             turn \in DOMAIN Order, Outcome(Now, s)
      PROVE  TypeOK'
  <2>1. Now \in Patch
    BY <1>7, Turns DEF Now
  <2>2. applied' \in Seq(Target)
    BY <1>0, <1>7 DEF Outcome, BeginTurn
  <2>3. undoing' \in BOOLEAN /\ rollbackFailed' \in BOOLEAN
    BY <1>7 DEF Outcome, BeginTurn
  <2>4. /\ UNCHANGED <<guardVars, config, stage, prepared>>
        /\ status' = [status EXCEPT ![Now] = s]
        /\ turn' = turn + 1 /\ write' = 1 /\ alreadyApplied' = 0
        /\ before' = memory
    BY <1>7 DEF Outcome, BeginTurn
  <2>5. disturbed' \subseteq Target
    BY <1>7 DEF Outcome, BeginTurn
  <2> QED BY <2>1, <2>2, <2>3, <2>4, <2>5
<1>8. CASE ReportUnplanned \/ PlanApplied \/ PlanFailed
  BY <1>7, <1>8 DEF ReportUnplanned, PlanApplied, PlanFailed, Applying, Verdict
<1>9. CASE BeginWrite
  <2>1. ItsWrite \in Target
    BY <1>9, Turns DEF BeginWrite, Applying, ItsWrite, Now
  <2> QED BY <1>9, <2>1, BytesAssumption DEF BeginWrite, Apply, Ask, Phases
<1>10. CASE Write
  BY <1>10, WriteSteps
<1>11. CASE WriteReturned
  <2>1. Append(applied, address) \in Seq(Target)
    OBVIOUS
  <2>2. /\ applied' \in {applied, Append(applied, address)}
        /\ alreadyApplied' \in {alreadyApplied, alreadyApplied + 1}
        /\ write' \in {write, write + 1}
        /\ undoing' \in BOOLEAN
    BY <1>11 DEF WriteReturned
  <2>3. /\ applied' \in Seq(Target) /\ alreadyApplied' \in Nat
        /\ write' \in Nat \ {0}
    BY <2>1, <2>2
  <2> QED BY <1>11, <2>2, <2>3 DEF WriteReturned, Accept, Phases
<1>12. CASE Undo
  <2>1. applied[Len(applied)] \in Target
    BY <1>12 DEF Undo
  <2> QED BY <1>12, <2>1, BytesAssumption DEF Undo, TakeBack, Rollback, Ask,
             Phases
<1>13. CASE UndoReturned
  BY <1>13 DEF UndoReturned, Accept, AllButLast, Phases
<1>14. CASE Finish
  BY <1>14 DEF Finish
<1>15. CASE Disturb
  BY <1>15 DEF Disturb, Store
<1>16. CASE UNCHANGED runVars
  BY <1>16 DEF runVars
<1> QED BY <1>1, <1>2, <1>4, <1>5, <1>6, <1>8, <1>9, <1>10, <1>11, <1>12, <1>13,
           <1>14, <1>15, <1>16 DEF RunNext, RunStep
-----------------------------------------------------------------------------
(* The order. *)

\* Planning, deciding and ending leave the order of the patches intact; nothing
\* else touches it.
LEMMA OrderPreserved ==
  TypeOK /\ OrderInv /\ [RunNext]_runVars => OrderInv'
<1> SUFFICES ASSUME TypeOK, OrderInv, [RunNext]_runVars PROVE OrderInv'
  OBVIOUS
<1>0. /\ turn \in Nat \ {0}
      /\ \A i \in DOMAIN Order : i \in Nat \ {0} /\ Order[i] \in Patch
      /\ \A i, j \in DOMAIN Order : Order[i] = Order[j] => i = j
  BY Turns, OrderAssumption DEF TypeOK
<1>a. turn \notin DOMAIN Order => \A i \in DOMAIN Order : i < turn
  <2>1. Order \in Seq(Patch) /\ Len(Order) \in Nat
        /\ DOMAIN Order = 1..Len(Order)
    BY OrderAssumption
  <2> QED BY <1>0, <2>1
<1>1. CASE FailEnabled
  <2>1. \A p \in Patch : /\ status'[p] = IF config[p] THEN "Failed"
                                                     ELSE "Disabled"
                         /\ config[p] \in BOOLEAN
    BY <1>1 DEF FailEnabled, FailedEnabled, TypeOK
  <2> QED BY <1>1, <2>1 DEF FailEnabled, OrderInv
<1>2. CASE Inspect
  BY <1>0, <1>2 DEF Inspect, OrderInv
<1>3. ASSUME NEW k \in {"Disabled", "Failed", "Ready"}, Planning,
             (k = "Disabled") = ~config[Now], Planned(Now, k)
      PROVE  OrderInv'
  <2>1. /\ UNCHANGED <<config, stage, status>>
        /\ stage = "plan" /\ turn \in DOMAIN Order /\ turn' = turn + 1
        /\ prepared' = [prepared EXCEPT ![Order[turn]] = k]
    BY <1>3 DEF Planned, Planning, Now
  <2>2. \A p \in Patch :
          prepared'[p] = IF p = Order[turn] THEN k ELSE prepared[p]
    BY <2>1 DEF TypeOK
  <2>3. \A i \in DOMAIN Order :
          i < turn + 1 => prepared'[Order[i]] # "Unprepared"
    BY <1>0, <2>1, <2>2 DEF OrderInv
  <2>4. \A p \in Patch : prepared'[p] # "Unprepared" =>
                            (prepared'[p] = "Disabled") = ~config[p]
    BY <1>3, <2>2 DEF OrderInv, Now
  <2> QED BY <2>1, <2>3, <2>4 DEF OrderInv
<1>4. CASE SkipDisabled \/ RefusePlan
  <2>1. Planning => config[Now] \in BOOLEAN
    BY <1>0 DEF Planning, Now, TypeOK
  <2> QED BY <1>3, <1>4, <2>1 DEF SkipDisabled, RefusePlan
<1>5. CASE PlanWrite
  <2>1. CASE Planned(Now, "Ready")
    BY <1>3, <1>5, <2>1 DEF PlanWrite
  <2>2. CASE ~Planned(Now, "Ready")
    BY <1>5, <2>2 DEF PlanWrite, OrderInv
  <2> QED BY <2>1, <2>2
<1>6. CASE AllPlanned
  <2>1. \A p \in Patch : prepared[p] # "Unprepared"
    BY <1>6, <1>a, EveryPatchListed DEF AllPlanned, AllTried, OrderInv
  <2> QED BY <1>0, <1>6, <2>1 DEF AllPlanned, BeginTurn, OrderInv
<1>7. ASSUME NEW s \in {"Disabled", "Applied", "AlreadyApplied", "Failed",
                        "Partial"},
             stage = "apply", turn \in DOMAIN Order,
             (s = "Disabled") = (prepared[Now] = "Disabled"), Outcome(Now, s)
      PROVE  OrderInv'
  <2>1. /\ UNCHANGED <<config, stage, prepared>>
        /\ turn' = turn + 1
        /\ status' = [status EXCEPT ![Order[turn]] = s]
    BY <1>7 DEF Outcome, BeginTurn, Now
  <2>2. \A p \in Patch : status'[p] = IF p = Order[turn] THEN s ELSE status[p]
    BY <2>1 DEF TypeOK
  <2>3. \A i \in DOMAIN Order : (status'[Order[i]] = "none") = (turn + 1 <= i)
    BY <1>0, <1>7, <2>2 DEF OrderInv
  <2>4. (s = "Disabled") = ~config[Order[turn]]
    BY <1>0, <1>7 DEF OrderInv, Now
  <2>5. \A p \in Patch :
          status'[p] # "none" => (status'[p] = "Disabled") = ~config[p]
    BY <2>2, <2>4 DEF OrderInv
  <2> QED BY <1>7, <2>1, <2>3, <2>5 DEF OrderInv
<1>8. CASE ReportUnplanned \/ PlanApplied \/ PlanFailed
  BY <1>7, <1>8 DEF ReportUnplanned, PlanApplied, PlanFailed, Applying, Verdict
<1>9. CASE Finish
  <2>1. \A p \in Patch : status[p] # "none"
    BY <1>0, <1>9, <1>a, EveryPatchListed DEF Finish, OrderInv
  <2> QED BY <1>9, <2>1 DEF Finish, OrderInv
<1>10. CASE UNCHANGED <<config, stage, turn, prepared, status>>
  BY <1>10 DEF OrderInv
<1>11. CASE BeginWrite \/ Write \/ WriteReturned \/ Undo \/ UndoReturned
            \/ Disturb \/ UNCHANGED runVars
  BY <1>10, <1>11 DEF BeginWrite, Write, WriteReturned, Undo, UndoReturned,
     Disturb, runVars
<1> QED BY <1>1, <1>2, <1>4, <1>5, <1>6, <1>8, <1>9, <1>11 DEF RunNext, RunStep
-----------------------------------------------------------------------------
(* The plan in progress. *)

\* The turns themselves: none of these steps is taken during a call, and each
\* leaves the bytes alone.
BetweenCalls ==
  \/ FailEnabled \/ Inspect \/ SkipDisabled \/ RefusePlan \/ PlanWrite
  \/ AllPlanned \/ ReportUnplanned \/ PlanApplied \/ PlanFailed \/ Finish

\* Between two calls of write_checked nothing of one is left over.
LEMMA NoCallBetween ==
  CallInv /\ BetweenCalls => phase = "idle" /\ UNCHANGED guardVars
<1> SUFFICES ASSUME CallInv, BetweenCalls
             PROVE  phase = "idle" /\ UNCHANGED guardVars
  OBVIOUS
<1> USE DEF CallInv, InTurn
<1>1. CASE FailEnabled \/ Inspect \/ Finish
  BY <1>1 DEF FailEnabled, Inspect, Finish
<1>2. CASE SkipDisabled \/ RefusePlan \/ PlanWrite
  BY <1>2 DEF SkipDisabled, RefusePlan, PlanWrite, Planning, Planned
<1>3. CASE AllPlanned
  BY <1>3 DEF AllPlanned
<1>4. CASE ReportUnplanned \/ PlanApplied \/ PlanFailed
  BY <1>4 DEF ReportUnplanned, PlanApplied, PlanFailed, Applying, Outcome
<1> QED BY <1>1, <1>2, <1>3, <1>4 DEF BetweenCalls

\* A call begins and ends within the turn of a plan that is ready.
LEMMA CallPreserved == TypeOK /\ CallInv /\ [RunNext]_runVars => CallInv'
<1> SUFFICES ASSUME TypeOK, CallInv, [RunNext]_runVars PROVE CallInv'
  OBVIOUS
<1> USE DEF InTurn, Now, ItsWrite, planVars, request
<1>1. CASE BetweenCalls
  BY <1>1, NoCallBetween DEF CallInv, guardVars
<1>2. CASE BeginWrite
  BY <1>2 DEF BeginWrite, Applying, Apply, Ask, CallInv
<1>3. CASE Write
  BY <1>3, WriteSteps DEF CallInv
<1>4. CASE WriteReturned \/ UndoReturned
  BY <1>4 DEF WriteReturned, UndoReturned, Accept, CallInv
<1>5. CASE Undo
  BY <1>5 DEF Undo, Applying, TakeBack, Rollback, Ask, CallInv
<1>6. CASE Disturb
  BY <1>6 DEF Disturb, Store, CallInv
<1>7. CASE UNCHANGED runVars
  BY <1>7 DEF runVars, guardVars, CallInv
<1> QED BY <1>1, <1>2, <1>3, <1>4, <1>5, <1>6, <1>7
        DEF RunNext, RunStep, BetweenCalls

\* A new turn, or none, satisfies whatever is said of a plan in progress.
LEMMA NewTurn ==
  ASSUME NEW i \in Nat \ {0}, BeginTurn(i)
  PROVE  PlanInv'
<1>1. write' = 1 /\ ~undoing' /\ ~rollbackFailed' /\ alreadyApplied' = 0
  BY DEF BeginTurn
<1>2. applied' = <<>>
  BY DEF BeginTurn
<1>3. Len(applied') = 0 /\ DOMAIN applied' = {}
  BY <1>2
<1>4. \A t \in Target : ~Holds(t)'
  BY <1>3 DEF Holds
<1> QED BY <1>1, <1>3, <1>4 DEF PlanInv

\* What a write that succeeded, and one that was rolled back, add to
\* applied_writes and take from it.
LEMMA OneMore ==
  ASSUME NEW ts \in Seq(Target), NEW t \in Target
  PROVE  /\ Append(ts, t) \in Seq(Target)
         /\ Len(Append(ts, t)) = Len(ts) + 1
         /\ DOMAIN Append(ts, t) = 1..(Len(ts) + 1)
         /\ \A k \in 1..Len(ts) : Append(ts, t)[k] = ts[k]
         /\ Append(ts, t)[Len(ts) + 1] = t
  OBVIOUS

\* What is still to be undone after one write has been undone.
LEMMA OneLess ==
  ASSUME NEW ts \in Seq(Target), ts # <<>>
  PROVE  /\ AllButLast(ts) \in Seq(Target)
         /\ DOMAIN AllButLast(ts) = 1..(Len(ts) - 1)
         /\ \A k \in 1..(Len(ts) - 1) : AllButLast(ts)[k] = ts[k]
         /\ Len(ts) \in DOMAIN ts /\ DOMAIN ts = 1..Len(ts)
  BY DEF AllButLast

\* Where the turn passes on, a new one begins.
LEMMA TurnPasses ==
  ASSUME TypeOK,
         AllPlanned \/ ReportUnplanned \/ PlanApplied \/ PlanFailed
  PROVE  \E i \in Nat \ {0} : BeginTurn(i)
<1>1. turn + 1 \in Nat \ {0} /\ 1 \in Nat \ {0}
  BY DEF TypeOK
<1>2. BeginTurn(1) \/ BeginTurn(turn + 1)
  BY DEF AllPlanned, ReportUnplanned, PlanApplied, PlanFailed, Outcome
<1> QED BY <1>1, <1>2

\* A write is recorded once, when the plan has come to it.
LEMMA PlanPreserved ==
  TypeOK /\ CallInv /\ PlanInv /\ [RunNext]_runVars => PlanInv'
<1> SUFFICES ASSUME TypeOK, CallInv, PlanInv, [RunNext]_runVars
             PROVE  PlanInv'
  OBVIOUS
<1>1. CASE FailEnabled \/ Inspect \/ SkipDisabled \/ RefusePlan \/ PlanWrite
           \/ Finish
  <2>1. ~InTurn'
    BY <1>1 DEF FailEnabled, Inspect, SkipDisabled, RefusePlan, PlanWrite,
       Planning, Planned, Finish, InTurn
  <2> QED BY <2>1 DEF PlanInv
<1>2. CASE AllPlanned \/ ReportUnplanned \/ PlanApplied \/ PlanFailed
  BY <1>2, TurnPasses, NewTurn
<1>3. CASE BeginWrite \/ Write \/ Undo \/ Disturb \/ UNCHANGED runVars
  <2>1. UNCHANGED <<stage, turn, planVars, prepared>>
    BY <1>3 DEF BeginWrite, Write, Undo, Disturb, runVars
  <2> QED BY <2>1 DEF PlanInv, InTurn, Now, planVars, Holds, Tried
<1>4. CASE WriteReturned
  <2>1. /\ InTurn /\ prepared[Now] = "Ready" /\ ~undoing
        /\ write \in DOMAIN Writes[Now] /\ address = ItsWrite
        /\ UNCHANGED <<stage, turn, prepared, rollbackFailed>>
    BY <1>4 DEF WriteReturned, Accept, CallInv
  <2>2. /\ write \in Nat \ {0} /\ applied \in Seq(Target)
        /\ alreadyApplied \in Nat /\ address \in Target /\ Len(applied) \in Nat
    BY DEF TypeOK
  <2>3. /\ DOMAIN Writes[Now] \subseteq Nat
        /\ \A i, j \in DOMAIN Writes[Now] :
              Writes[Now][i] = Writes[Now][j] => i = j
    BY <2>1, Turns, WritesAssumption DEF InTurn, Now
  <2>4. \A t \in Target : Tried(t) => t # address
    BY <2>1, <2>2, <2>3 DEF Tried, ItsWrite
  <2>5. Now' = Now /\ InTurn'
    BY <2>1 DEF Now, InTurn
  <2>6. CASE result = "Applied"
    <3>1. /\ applied' = Append(applied, address) /\ write' = write + 1
          /\ UNCHANGED <<alreadyApplied, undoing>>
      BY <1>4, <2>6 DEF WriteReturned, Succeeded
    <3>2. \A t \in Target : Holds(t)' => Holds(t) \/ t = address
      BY <2>2, <3>1, OneMore DEF Holds
    <3>3. \A t \in Target : Tried(t) \/ t = address => Tried(t)'
      BY <2>1, <2>2, <2>3, <2>5, <3>1 DEF Tried, ItsWrite
    <3>4. ASSUME NEW j \in DOMAIN applied', NEW k \in DOMAIN applied',
                 applied'[j] = applied'[k]
          PROVE  j = k
      <4>1. \A i \in DOMAIN applied : applied[i] # address
        BY <2>1, <2>2, <2>4 DEF PlanInv, Holds
      <4>2. \A i, l \in DOMAIN applied : applied[i] = applied[l] => i = l
        BY <2>1 DEF PlanInv
      <4>3. DOMAIN applied = 1..Len(applied)
        BY <2>2
      <4> QED BY <2>2, <3>1, <3>4, <4>1, <4>2, <4>3, OneMore
    <3>5. Len(applied') = Len(applied) + 1
      BY <2>2, <3>1, OneMore
    <3> QED BY <2>1, <2>2, <2>5, <3>1, <3>2, <3>3, <3>4, <3>5 DEF PlanInv
  <2>7. CASE result = "AlreadyApplied"
    <3>1. /\ write' = write + 1 /\ alreadyApplied' = alreadyApplied + 1
          /\ UNCHANGED <<applied, undoing>>
      BY <1>4, <2>7 DEF WriteReturned, Succeeded
    <3>2. \A t \in Target : Tried(t) => Tried(t)'
      BY <2>1, <2>2, <2>3, <2>5, <3>1 DEF Tried
    <3>3. \A t \in Target : Holds(t)' = Holds(t)
      BY <3>1 DEF Holds
    <3> QED BY <2>1, <2>2, <2>5, <3>1, <3>2, <3>3 DEF PlanInv
  <2>8. CASE result \notin Succeeded
    <3>1. undoing' = TRUE /\ UNCHANGED <<applied, alreadyApplied, write>>
      BY <1>4, <2>8 DEF WriteReturned, Succeeded
    <3> QED BY <2>1, <2>5, <3>1 DEF PlanInv, Holds, Tried
  <2> QED BY <2>6, <2>7, <2>8 DEF Succeeded
<1>5. CASE UndoReturned
  <2>1. /\ InTurn /\ undoing /\ applied # <<>> /\ prepared[Now] = "Ready"
        /\ applied' = AllButLast(applied)
        /\ UNCHANGED <<stage, turn, prepared, write, undoing>>
    BY <1>5 DEF UndoReturned, Accept, CallInv
  <2>2. applied \in Seq(Target) /\ Len(applied) \in Nat
    BY DEF TypeOK
  <2>3. DOMAIN applied' \subseteq DOMAIN applied
        /\ \A k \in DOMAIN applied' : applied'[k] = applied[k]
    BY <2>1, <2>2, OneLess
  <2>4. \A t \in Target : Holds(t)' => Holds(t)
    BY <2>3 DEF Holds
  <2>5. Now' = Now /\ InTurn' /\ \A t \in Target : Tried(t)' = Tried(t)
    BY <2>1 DEF Now, InTurn, Tried
  <2> QED BY <2>1, <2>3, <2>4, <2>5 DEF PlanInv
<1> QED BY <1>1, <1>2, <1>3, <1>4, <1>5 DEF RunNext, RunStep
-----------------------------------------------------------------------------
(* The bytes. *)

Undisturbed(t) == IF InTurn THEN TargetInv(t) ELSE Kept(t)

\* What write_checked makes of its target: a step of it that keeps the promise
\* to a plan that goes on, and to one that is being undone.
LEMMA WriteGoesForth ==
  ASSUME TypeOK, CallInv, ~undoing, Write, Forth(address)
  PROVE  Forth(address)'
<1>1. /\ address' = address /\ before' = before
      /\ expected = Expected[address] /\ replacement = Replacement[address]
  BY WriteSteps DEF CallInv, request, seenVars
<1>2. memory' = [memory EXCEPT ![address] = replacement] =>
        memory'[address] = replacement
  BY DEF TypeOK
<1> USE DEF Forth, Kept, Changed, Succeeded
<1>3. CASE Refuse
  BY <1>1, <1>3 DEF Refuse, Return, EarlyError
<1>4. CASE Grant
  BY <1>1, <1>4 DEF Grant
<1>5. CASE GiveUp
  BY <1>1, <1>5 DEF GiveUp, Return, GrantError
<1>6. CASE Put
  BY <1>1, <1>2, <1>6 DEF Put
<1>7. CASE Report
  BY <1>1, <1>7 DEF Report, Return, LateError
<1>8. CASE Crash
  BY <1>1, <1>8 DEF Crash
<1> QED BY <1>3, <1>4, <1>5, <1>6, <1>7, <1>8 DEF Write, GuardStep

\* A rollback leaves what it has put back as it was before the patch.
LEMMA WriteGoesBack ==
  ASSUME TypeOK, CallInv, undoing, Write, Back(address)
  PROVE  Back(address)'
<1>1. /\ address' = address /\ before' = before
      /\ expected = Replacement[address] /\ replacement = Expected[address]
      /\ Expected[address] # Replacement[address]
  BY WriteSteps, BytesAssumption DEF CallInv, request, seenVars, TypeOK
<1>2. memory' = [memory EXCEPT ![address] = replacement] =>
        memory'[address] = replacement
  BY DEF TypeOK
<1> USE DEF Back, Kept, Changed, Succeeded
<1>3. CASE Refuse
  BY <1>1, <1>3 DEF Refuse, Return, EarlyError
<1>4. CASE Grant
  BY <1>1, <1>4 DEF Grant
<1>5. CASE GiveUp
  BY <1>1, <1>5 DEF GiveUp, Return, GrantError
<1>6. CASE Put
  BY <1>1, <1>2, <1>6 DEF Put
<1>7. CASE Report
  BY <1>1, <1>7 DEF Report, Return, LateError
<1>8. CASE Crash
  BY <1>1, <1>8 DEF Crash
<1> QED BY <1>3, <1>4, <1>5, <1>6, <1>7, <1>8 DEF Write, GuardStep

\* A step of write_checked leaves the other targets alone.
LEMMA WriteLeavesOthers ==
  ASSUME TypeOK, Write, NEW t \in Target, t # address
  PROVE  memory'[t] = memory[t]
  BY WriteSteps DEF TypeOK

\* A write whose result the plan takes joins the applied ones, the ones that
\* were there already, or is the one that failed.
LEMMA ForthEnds ==
  ASSUME TypeOK, CallInv, PlanInv, WriteReturned,
         NEW t \in Target, TargetInv(t)
  PROVE  TargetInv(t)'
<1>1. /\ InTurn /\ ~undoing /\ write \in DOMAIN Writes[Now]
      /\ address = ItsWrite /\ phase = "returned" /\ phase' = "idle"
      /\ UNCHANGED <<memory, before, stage, turn, prepared, rollbackFailed>>
  BY DEF WriteReturned, Accept, CallInv, seenVars
<1>2. /\ write \in Nat \ {0} /\ applied \in Seq(Target) /\ address \in Target
      /\ Len(applied) \in Nat /\ DOMAIN applied = 1..Len(applied)
  BY DEF TypeOK
<1>3. /\ DOMAIN Writes[Now] \subseteq Nat
      /\ \A i, j \in DOMAIN Writes[Now] :
           Writes[Now][i] = Writes[Now][j] => i = j
  BY <1>1, Turns, WritesAssumption DEF InTurn, Now
<1>4. ~Tried(address) /\ ~Holds(address)
  BY <1>1, <1>2, <1>3 DEF Tried, ItsWrite, PlanInv
<1>5. Now' = Now
  BY <1>1 DEF Now
<1>6. t = address => Forth(t)
  BY <1>1 DEF TargetInv
<1>7. t # address => /\ Holds(t) => Changed(t)
                     /\ ~Holds(t) => /\ Kept(t)
                                     /\ Tried(t) => memory[t] = Replacement[t]
  BY <1>1 DEF TargetInv
<1>8. Kept(t)' = Kept(t) /\ Changed(t)' = Changed(t)
  BY <1>1 DEF Kept, Changed
<1>9. CASE result = "Applied"
  <2>1. applied' = Append(applied, address) /\ write' = write + 1 /\ ~undoing'
    BY <1>1, <1>9 DEF WriteReturned, Succeeded
  <2>2. Holds(t)' = (Holds(t) \/ t = address)
    <3>1. DOMAIN applied' = 1..(Len(applied) + 1)
          /\ applied'[Len(applied) + 1] = address
          /\ \A k \in DOMAIN applied : applied'[k] = applied[k]
      BY <1>2, <2>1, OneMore
    <3>2. Len(applied) + 1 \in DOMAIN applied'
          /\ DOMAIN applied \subseteq DOMAIN applied'
      BY <1>2, <3>1
    <3>3. Holds(t) \/ t = address => Holds(t)'
      BY <3>1, <3>2 DEF Holds
    <3>4. \A k \in DOMAIN applied' :
            k \in DOMAIN applied \/ k = Len(applied) + 1
      BY <1>2, <3>1
    <3>5. Holds(t)' => Holds(t) \/ t = address
      BY <3>1, <3>4 DEF Holds
    <3> QED BY <3>3, <3>5 DEF Holds
  <2>3. Tried(t)' => Tried(t) \/ t = address
    BY <1>1, <1>2, <1>3, <1>5, <2>1 DEF Tried, ItsWrite
  <2>4. t = address => Changed(t)
    BY <1>1, <1>6, <1>9 DEF Forth
  <2> QED BY <1>1, <1>7, <1>8, <2>1, <2>2, <2>3, <2>4 DEF TargetInv
<1>10. CASE result = "AlreadyApplied"
  <2>1. UNCHANGED <<applied, undoing>> /\ write' = write + 1
    BY <1>1, <1>10 DEF WriteReturned, Succeeded
  <2>2. Holds(t)' = Holds(t)
    BY <2>1 DEF Holds
  <2>3. Tried(t)' => Tried(t) \/ t = address
    BY <1>1, <1>2, <1>3, <1>5, <2>1 DEF Tried, ItsWrite
  <2>4. t = address => Kept(t) /\ memory[t] = Replacement[t]
    BY <1>1, <1>6, <1>10 DEF Forth
  <2> QED BY <1>1, <1>4, <1>7, <1>8, <2>1, <2>2, <2>3, <2>4 DEF TargetInv
<1>11. CASE result \notin Succeeded
  <2>1. undoing' = TRUE /\ UNCHANGED <<applied, write>>
    BY <1>11 DEF WriteReturned, Succeeded
  <2>2. Holds(t)' = Holds(t) /\ ItsWrite' = ItsWrite
    BY <1>5, <2>1 DEF Holds, ItsWrite
  <2>3. t = address => Kept(t) \/ Changed(t)
    BY <1>1, <1>6, <1>11 DEF Forth
  <2> QED BY <1>1, <1>4, <1>7, <1>8, <2>1, <2>2, <2>3 DEF TargetInv
<1> QED BY <1>9, <1>10, <1>11 DEF Succeeded

\* A write that is taken back is as it was, or the rollback is known to have
\* failed.
LEMMA BackEnds ==
  ASSUME TypeOK, CallInv, PlanInv, UndoReturned,
         NEW t \in Target, TargetInv(t)
  PROVE  TargetInv(t)'
<1>1. /\ InTurn /\ undoing /\ applied # <<>> /\ address = applied[Len(applied)]
      /\ phase = "returned" /\ phase' = "idle"
      /\ applied' = AllButLast(applied)
      /\ rollbackFailed' = (rollbackFailed \/ result \notin Succeeded)
      /\ UNCHANGED <<memory, address, before, stage, turn, write, undoing>>
  BY DEF UndoReturned, Accept, CallInv, seenVars, request
<1>2. /\ applied \in Seq(Target) /\ address \in Target /\ Len(applied) \in Nat
      /\ Len(applied) \in DOMAIN applied /\ DOMAIN applied = 1..Len(applied)
      /\ DOMAIN applied' = 1..(Len(applied) - 1)
      /\ \A k \in 1..(Len(applied) - 1) : applied'[k] = applied[k]
  BY <1>1, OneLess DEF TypeOK
<1>3. Now' = Now /\ ItsWrite' = ItsWrite
  BY <1>1 DEF Now, ItsWrite
<1>4. Kept(t)' = Kept(t) /\ Changed(t)' = Changed(t)
  BY <1>1 DEF Kept, Changed
<1>5. CASE t = address
  <2>1. ~Holds(t)'
    <3>1. \A k \in DOMAIN applied' : applied'[k] # applied[Len(applied)]
      BY <1>1, <1>2 DEF PlanInv
    <3> QED BY <1>1, <1>5, <3>1 DEF Holds
  <2>2. t \in TargetsOf(Now)
    <3>1. Holds(t)
      BY <1>1, <1>2, <1>5 DEF Holds
    <3> QED BY <1>1, <3>1 DEF PlanInv, Tried, TargetsOf
  <2>3. Kept(t) \/ (Changed(t) /\ rollbackFailed')
    BY <1>1, <1>5 DEF TargetInv, Back
  <2> QED BY <1>1, <1>3, <1>4, <2>1, <2>2, <2>3 DEF TargetInv
<1>6. CASE t # address
  <2>1. \A k \in DOMAIN applied :
          applied[k] = t => k \in DOMAIN applied' /\ applied'[k] = t
    BY <1>1, <1>2, <1>6
  <2>2. Holds(t)' <=> Holds(t)
    BY <1>2, <2>1 DEF Holds
  <2> QED BY <1>1, <1>3, <1>4, <1>6, <2>2 DEF TargetInv
<1> QED BY <1>5, <1>6

\* A plan comes to its next write, or begins to take one back, with the target
\* as it was when the turn began, or as the plan left it.
LEMMA CallBegins ==
  ASSUME TypeOK, CallInv, PlanInv, BeginWrite \/ Undo,
         NEW t \in Target, TargetInv(t)
  PROVE  TargetInv(t)'
<1>1. /\ InTurn /\ phase = "idle" /\ phase' = "asked"
      /\ UNCHANGED <<memory, before, turn, write, applied, undoing,
                     rollbackFailed>>
  BY DEF BeginWrite, Undo, Applying, InTurn, Apply, TakeBack, Rollback, Ask,
     planVars, seenVars
<1>2. /\ Now' = Now /\ ItsWrite' = ItsWrite
      /\ Holds(t)' = Holds(t) /\ Tried(t)' = Tried(t)
      /\ Kept(t)' = Kept(t) /\ Changed(t)' = Changed(t)
  BY <1>1 DEF Now, ItsWrite, Holds, Tried, Kept, Changed
<1>3. CASE t # address'
  BY <1>1, <1>2, <1>3 DEF TargetInv
<1>4. CASE t = address' /\ BeginWrite
  <2>1. ~undoing /\ write \in DOMAIN Writes[Now] /\ t = ItsWrite
    BY <1>4 DEF BeginWrite, Apply, Ask
  <2>2. /\ write \in Nat /\ DOMAIN Writes[Now] \subseteq Nat
        /\ \A i, j \in DOMAIN Writes[Now] :
             Writes[Now][i] = Writes[Now][j] => i = j
    BY <1>1, Turns, WritesAssumption DEF InTurn, Now, TypeOK
  <2>3. ~Tried(t) /\ ~Holds(t)
    BY <1>1, <2>1, <2>2 DEF Tried, ItsWrite, PlanInv
  <2>4. Kept(t)
    BY <1>1, <2>1, <2>3 DEF TargetInv
  <2> QED BY <1>1, <1>2, <1>4, <2>1, <2>4 DEF TargetInv, Forth
<1>5. CASE t = address' /\ Undo
  <2>1. undoing /\ applied # <<>> /\ t = applied[Len(applied)]
    BY <1>5 DEF Undo, TakeBack, Rollback, Ask
  <2>2. Len(applied) \in DOMAIN applied
    BY <2>1, OneLess DEF TypeOK
  <2>3. Changed(t)
    BY <1>1, <2>1, <2>2 DEF TargetInv, Holds
  <2> QED BY <1>1, <1>2, <1>5, <2>1, <2>3 DEF TargetInv, Back, Changed
<1> QED BY <1>3, <1>4, <1>5

\* What every step, of the run or of others, leaves true of the targets nobody
\* else has stored to.
LEMMA MemoryPreserved ==
  TypeOK /\ CallInv /\ PlanInv /\ MemoryInv /\ [RunNext]_runVars => MemoryInv'
<1> SUFFICES ASSUME TypeOK, CallInv, PlanInv, MemoryInv, [RunNext]_runVars,
                    NEW t \in Target, t \notin disturbed'
             PROVE  Undisturbed(t)'
  BY DEF MemoryInv, Undisturbed
<1>1. t \notin disturbed => Undisturbed(t)
  BY DEF MemoryInv, Undisturbed
<1>2. CASE FailEnabled \/ Inspect \/ SkipDisabled \/ RefusePlan \/ PlanWrite
           \/ Finish
  <2>1. ~InTurn /\ ~InTurn' /\ UNCHANGED <<memory, before, disturbed>>
    BY <1>2 DEF FailEnabled, Inspect, SkipDisabled, RefusePlan, PlanWrite,
       Planning, Planned, Finish, InTurn, guardVars, seenVars
  <2> QED BY <1>1, <2>1 DEF Undisturbed, Kept
<1>3. CASE AllPlanned \/ ReportUnplanned \/ PlanApplied \/ PlanFailed
  <2>1. phase' = "idle" /\ memory' = memory
    BY <1>3, NoCallBetween DEF BetweenCalls, guardVars
  <2>2. before' = memory /\ write' = 1 /\ ~undoing'
    BY <1>3, TurnPasses DEF BeginTurn
  <2>3. applied' = <<>>
    BY <1>3, TurnPasses DEF BeginTurn
  <2>4. ~Holds(t)'
    BY <2>3 DEF Holds
  <2>5. InTurn' => ~Tried(t)'
    <3>1. ASSUME InTurn' PROVE DOMAIN Writes[Now'] \subseteq Nat \ {0}
      <4>1. turn' \in DOMAIN Order
        BY <3>1 DEF InTurn
      <4> QED BY <4>1, Turns DEF Now
    <3> QED BY <2>2, <3>1 DEF Tried
  <2> QED BY <2>1, <2>2, <2>4, <2>5 DEF Undisturbed, TargetInv, Kept
<1>4. ASSUME BeginWrite \/ Undo \/ Write \/ WriteReturned \/ UndoReturned
      PROVE  InTurn /\ InTurn' /\ disturbed' = disturbed /\ TargetInv(t)
  <2>1. InTurn
    BY <1>4, WriteSteps DEF BeginWrite, Undo, WriteReturned, UndoReturned,
       Applying, CallInv, InTurn
  <2>2. UNCHANGED <<stage, turn, disturbed>>
    BY <1>4 DEF BeginWrite, Undo, Write, WriteReturned, UndoReturned, seenVars
  <2> QED BY <1>1, <2>1, <2>2 DEF InTurn, Undisturbed
<1>5. CASE BeginWrite \/ Undo
  BY <1>4, <1>5, CallBegins DEF Undisturbed
<1>6. CASE Write
  <2>1. UNCHANGED <<address, turn, planVars, before>> /\ phase # "idle"
        /\ phase' # "idle"
    BY <1>6, WriteSteps DEF request, seenVars, Write, GuardStep, Refuse, Grant,
       GiveUp, Put, Report, Crash, Return
  <2>2. CASE t = address
    BY <1>4, <1>6, <2>1, <2>2, WriteGoesForth, WriteGoesBack
       DEF Undisturbed, TargetInv, planVars
  <2>3. CASE t # address
    <3>1. memory'[t] = memory[t]
      BY <1>6, <2>3, WriteLeavesOthers
    <3> QED BY <1>4, <1>6, <2>1, <2>3, <3>1 DEF Undisturbed, TargetInv,
               planVars, Holds, Tried, Kept, Changed, Now, ItsWrite
  <2> QED BY <2>2, <2>3
<1>7. CASE WriteReturned
  BY <1>4, <1>7, ForthEnds DEF Undisturbed
<1>8. CASE UndoReturned
  BY <1>4, <1>8, BackEnds DEF Undisturbed
<1>9. CASE Disturb \/ UNCHANGED runVars
  <2>1. /\ UNCHANGED <<phase, address, result, stage, turn, planVars, before>>
        /\ memory'[t] = memory[t] /\ t \notin disturbed
    BY <1>9 DEF Disturb, Store, runVars, guardVars, request, seenVars, TypeOK
  <2> QED BY <1>1, <2>1 DEF Undisturbed, TargetInv, Forth, Back, planVars,
             Holds, Tried, Kept, Changed, InTurn, Now, ItsWrite
<1> QED BY <1>2, <1>3, <1>5, <1>6, <1>7, <1>8, <1>9 DEF RunNext, RunStep
-----------------------------------------------------------------------------
(* The theorems. *)

\* The invariant holds when the patches are about to be applied.
LEMMA InitiallyTrue == RunInit => TypeOK /\ RunInv
<1> SUFFICES ASSUME RunInit PROVE TypeOK /\ RunInv
  OBVIOUS
<1>1. TypeOK
  <2>1. <<>> \in Seq(Target)
    OBVIOUS
  <2>2. applied \in Seq(Target) /\ disturbed \subseteq Target
        /\ undoing \in BOOLEAN /\ rollbackFailed \in BOOLEAN
    BY <2>1 DEF RunInit
  <2>3. /\ memory \in [Target -> Bytes] /\ phase \in Phases
        /\ address \in Target /\ replacement \in Bytes
        /\ result \in Results \cup {"none"} /\ before \in [Target -> Bytes]
    BY BytesAssumption DEF RunInit, GuardInit, Phases
  <2>4. /\ config \in [Patch -> BOOLEAN] /\ stage = "start" /\ turn = 1
        /\ write = 1 /\ alreadyApplied = 0
        /\ prepared \in [Patch -> {"Unprepared", "Disabled", "Failed", "Ready"}]
        /\ status \in [Patch -> {"none", "Disabled", "Applied",
                                 "AlreadyApplied", "Failed", "Partial"}]
    BY DEF RunInit
  <2> QED BY <2>2, <2>3, <2>4 DEF TypeOK
<1>2. OrderInv
  <2>1. \A i \in DOMAIN Order : ~(i < 1)
    BY Turns
  <2> QED BY <2>1 DEF RunInit, OrderInv
<1>3. CallInv /\ PlanInv /\ MemoryInv
  BY DEF RunInit, GuardInit, CallInv, PlanInv, MemoryInv, InTurn, Kept
<1> QED BY <1>1, <1>2, <1>3 DEF RunInv

\* Every variable of the run and of write_checked under it keeps its type,
\* whatever fails and whatever others store.
THEOREM TypeCorrect == RunSpec => []TypeOK
  BY InitiallyTrue, TypePreserved, PTL DEF RunSpec

\* The parts of the invariant are inductive together.
LEMMA RunKnown == RunSpec => [](TypeOK /\ RunInv)
<1>1. TypeOK /\ RunInv /\ [RunNext]_runVars => TypeOK' /\ RunInv'
  BY TypePreserved, OrderPreserved, CallPreserved, PlanPreserved,
     MemoryPreserved DEF RunInv
<1> QED BY <1>1, InitiallyTrue, PTL DEF RunSpec

\* The report of a run that ends has one outcome for every patch, and Disabled
\* for those the configuration turns off and no others.
THEOREM ReportCompleteHolds == RunSpec => []ReportComplete
<1>1. TypeOK /\ RunInv => ReportComplete
  BY DEF RunInv, OrderInv, ReportComplete
<1> QED BY <1>1, RunKnown, PTL

\* No byte is written before every plan has been made, and then only those of an
\* enabled patch whose plan was made in full.
THEOREM PlansComeFirstHolds == RunSpec => PlansComeFirst
<1> DEFINE First ==
      RunStep /\ memory' # memory =>
        /\ \A p \in Patch : prepared[p] # "Unprepared"
        /\ \E p \in Patch :
             /\ config[p] /\ prepared[p] = "Ready"
             /\ \A t \in Target \ TargetsOf(p) : memory'[t] = memory[t]
<1>1. TypeOK /\ RunInv /\ [RunNext]_runVars => [First]_runVars
  <2> SUFFICES ASSUME TypeOK, RunInv, RunStep, memory' # memory PROVE First
    OBVIOUS
  <2>1. Write
    BY NoCallBetween DEF RunInv, RunStep, BetweenCalls, guardVars, BeginWrite,
       Apply, WriteReturned, Undo, TakeBack, Rollback, UndoReturned, Ask, Accept
  <2>2. /\ InTurn /\ prepared[Now] = "Ready" /\ phase # "idle"
        /\ memory' = [memory EXCEPT ![address] = replacement]
    BY <2>1, WriteSteps DEF RunInv, CallInv
  <2>3. Now \in Patch
    BY <2>2, Turns DEF InTurn, Now
  <2>4. address \in TargetsOf(Now)
    <3>1. CASE undoing
      <4>1. Len(applied) \in DOMAIN applied
        BY <2>2, <3>1, OneLess DEF TypeOK, RunInv, CallInv
      <4>2. Holds(address)
        BY <2>2, <3>1, <4>1 DEF RunInv, CallInv, Holds
      <4> QED BY <2>2, <4>2 DEF TypeOK, RunInv, PlanInv, Tried, TargetsOf
    <3>2. CASE ~undoing
      BY <2>2, <3>2 DEF RunInv, CallInv, TargetsOf, ItsWrite
    <3> QED BY <3>1, <3>2
  <2>5. \A t \in Target \ TargetsOf(Now) : memory'[t] = memory[t]
    BY <2>2, <2>4 DEF TypeOK
  <2>6. config[Now]
    BY <2>2, <2>3 DEF TypeOK, RunInv, OrderInv
  <2>7. \A p \in Patch : prepared[p] # "Unprepared"
    BY <2>2 DEF RunInv, OrderInv, InTurn
  <2> QED BY <2>2, <2>3, <2>5, <2>6, <2>7
<1>2. [][First]_runVars => PlansComeFirst
  BY PTL DEF PlansComeFirst
<1> QED BY <1>1, <1>2, RunKnown, PTL DEF RunSpec
-----------------------------------------------------------------------------
(* The outcomes. *)

Ends == ReportUnplanned \/ PlanApplied \/ PlanFailed

\* How the bytes stand to the outcome when the turn of a patch ends: what the
\* three properties of the outcomes, and the refinement, have in common.
OutcomeFits(p, s) ==
  /\ \A t \in Target \ disturbed :
       Kept(t) \/ (Changed(t) /\ t \in TargetsOf(p))
  /\ s \in {"Disabled", "AlreadyApplied"} =>
       \A t \in Target \ disturbed : Kept(t)
  /\ s = "Failed" =>
       \A t \in Target \ disturbed :
         Kept(t) \/ (Changed(t) /\ prepared[p] = "Ready" /\ t = ItsWrite)
  /\ s \in Succeeded =>
       \A t \in TargetsOf(p) \ disturbed : memory[t] = Replacement[t]
  /\ s = "Applied" => \E t \in TargetsOf(p) : t \in disturbed \/ Changed(t)

\* The turn of a patch ends with a state that fits what its plan has done.
LEMMA TurnEnds ==
  ASSUME TypeOK, RunInv, Ends
  PROVE  \E s \in {"Disabled", "Applied", "AlreadyApplied", "Failed",
                  "Partial"} :
           /\ InTurn /\ Now \in Patch /\ status[Now] = "none"
           /\ Outcome(Now, s)
           /\ memory' = memory
           /\ (s = "Disabled") = ~config[Now]
           /\ OutcomeFits(Now, s)
<1>1. InTurn /\ phase = "idle" /\ memory' = memory
  BY NoCallBetween DEF RunInv, BetweenCalls, guardVars, Ends, ReportUnplanned,
     PlanApplied, PlanFailed, Applying, InTurn
<1>2. /\ Now \in Patch /\ Writes[Now] \in Seq(Target)
      /\ DOMAIN Writes[Now] = 1..Len(Writes[Now])
      /\ Len(Writes[Now]) \in Nat \ {0} /\ turn \in Nat
      /\ TargetsOf(Now) \subseteq Target
  BY <1>1, Turns, WritesAssumption DEF InTurn, Now, TypeOK, TargetsOf
<1>3. status[Now] = "none" /\ (prepared[Now] = "Disabled") = ~config[Now]
  BY <1>1, <1>2 DEF RunInv, OrderInv, InTurn, Now
<1>4. ASSUME NEW t \in Target, t \notin disturbed
      PROVE  /\ Holds(t) => Changed(t) /\ t \in TargetsOf(Now)
             /\ ~Holds(t) =>
                  \/ /\ Kept(t)
                     /\ Tried(t) /\ ~undoing => memory[t] = Replacement[t]
                  \/ /\ undoing /\ Changed(t) /\ t \in TargetsOf(Now)
                     /\ t = ItsWrite \/ rollbackFailed
  <2>1. TargetInv(t)
    BY <1>1, <1>4 DEF RunInv, MemoryInv
  <2>2. Holds(t) => t \in TargetsOf(Now)
    BY <1>1, <1>4 DEF RunInv, PlanInv, Tried, TargetsOf
  <2>3. undoing => ItsWrite \in TargetsOf(Now)
    BY <1>1 DEF RunInv, PlanInv, ItsWrite, TargetsOf
  <2> QED BY <1>1, <2>1, <2>2, <2>3 DEF TargetInv
<1>5. CASE ReportUnplanned
  <2>1. prepared[Now] \in {"Disabled", "Failed"} /\ Outcome(Now, prepared[Now])
    BY <1>5 DEF ReportUnplanned, Applying
  <2>2. write = 1 /\ ~undoing
    BY <1>1, <2>1 DEF RunInv, PlanInv
  <2>3. \A t \in Target : ~Tried(t) /\ ~Holds(t)
    BY <1>1, <1>2, <2>2 DEF Tried, RunInv, PlanInv
  <2>4. OutcomeFits(Now, prepared[Now])
    BY <1>4, <2>1, <2>2, <2>3 DEF OutcomeFits, Succeeded
  <2> QED BY <1>1, <1>2, <1>3, <2>1, <2>4
<1>6. CASE PlanApplied
  <2>1. /\ ~undoing /\ write \notin DOMAIN Writes[Now]
        /\ Outcome(Now, Verdict) /\ prepared[Now] = "Ready"
        /\ write = Len(applied) + alreadyApplied + 1
    BY <1>1, <1>6 DEF PlanApplied, Applying, RunInv, PlanInv
  <2>2. /\ write \in Nat \ {0} /\ applied \in Seq(Target)
        /\ alreadyApplied \in Nat /\ DOMAIN applied = 1..Len(applied)
    BY DEF TypeOK
  <2>3. \A t \in TargetsOf(Now) : Tried(t)
    BY <1>2, <2>1, <2>2 DEF Tried, TargetsOf
  <2>4. CASE Verdict = "AlreadyApplied"
    <3>1. applied = <<>>
      BY <2>4 DEF Verdict
    <3>2. \A t \in Target : ~Holds(t)
      BY <3>1 DEF Holds
    <3>3. OutcomeFits(Now, "AlreadyApplied")
      BY <1>2, <1>4, <2>1, <2>3, <3>2 DEF OutcomeFits
    <3> QED BY <1>1, <1>2, <1>3, <2>1, <2>4, <3>3
  <2>5. CASE Verdict = "Applied"
    <3>1. applied # <<>>
      BY <1>2, <2>1, <2>2, <2>5 DEF Verdict
    <3>2. 1 \in DOMAIN applied /\ applied[1] \in Target
      BY <2>2, <3>1
    <3>3. Holds(applied[1]) /\ applied[1] \in TargetsOf(Now)
      BY <1>1, <3>2 DEF Holds, RunInv, PlanInv, Tried, TargetsOf
    <3>4. applied[1] \in disturbed \/ Changed(applied[1])
      BY <1>4, <3>2, <3>3
    <3>5. \A t \in Target \ disturbed :
            Kept(t) \/ (Changed(t) /\ t \in TargetsOf(Now))
      BY <1>4
    <3>6. \A t \in TargetsOf(Now) \ disturbed : memory[t] = Replacement[t]
      BY <1>2, <1>4, <2>1, <2>3 DEF Changed
    <3>7. OutcomeFits(Now, "Applied")
      BY <3>3, <3>4, <3>5, <3>6 DEF OutcomeFits
    <3> QED BY <1>1, <1>2, <1>3, <2>1, <2>5, <3>7
  <2> QED BY <2>4, <2>5 DEF Verdict
<1>7. CASE PlanFailed
  <2>1. /\ undoing /\ prepared[Now] = "Ready"
        /\ Outcome(Now, IF rollbackFailed THEN "Partial" ELSE "Failed")
    BY <1>7 DEF PlanFailed, Applying, Undone
  <2>2. applied = <<>>
    BY <1>7 DEF PlanFailed, Undone
  <2>3. \A t \in Target : ~Holds(t)
    BY <2>2 DEF Holds
  <2>4. OutcomeFits(Now, IF rollbackFailed THEN "Partial" ELSE "Failed")
    BY <1>4, <2>1, <2>3 DEF OutcomeFits, Succeeded
  <2> QED BY <1>1, <1>2, <1>3, <2>1, <2>4
<1> QED BY <1>5, <1>6, <1>7 DEF Ends

\* The state of a patch is given at the end of its turn and nowhere else.
LEMMA WhoDecides == RunNext /\ status' # status => FailEnabled \/ Ends
  BY DEF RunNext, RunStep, Inspect, SkipDisabled, RefusePlan, PlanWrite,
     Planned, AllPlanned, BeginWrite, Write, WriteReturned, Undo,
     UndoReturned, Finish, Disturb, Ends

\* The step that decides a patch: the whole run has failed and nothing was
\* touched, or its turn ends with what fits the bytes.
LEMMA DecisionFits ==
  ASSUME TypeOK, RunInv, RunNext, NEW p \in Patch, Decided(p)
  PROVE  \/ /\ status'[p] \in {"Disabled", "Failed"}
            /\ \A t \in Target \ disturbed : memory'[t] = before[t]
         \/ p = Now /\ memory' = memory /\ OutcomeFits(p, status'[p])
<1>1. FailEnabled \/ Ends
  BY WhoDecides DEF Decided
<1>2. CASE FailEnabled
  <2>1. ~InTurn /\ memory' = memory /\ status'[p] \in {"Disabled", "Failed"}
    BY <1>2 DEF FailEnabled, FailedEnabled, InTurn, guardVars
  <2> QED BY <2>1 DEF RunInv, MemoryInv, Kept
<1>3. CASE Ends
  <2>1. PICK s \in {"Disabled", "Applied", "AlreadyApplied", "Failed",
                    "Partial"} :
               /\ Outcome(Now, s) /\ memory' = memory /\ OutcomeFits(Now, s)
               /\ Now \in Patch
    BY <1>3, TurnEnds
  <2>2. p = Now /\ status'[p] = s
    BY <2>1 DEF Outcome, Decided, TypeOK
  <2> QED BY <2>1, <2>2
<1> QED BY <1>1, <1>2, <1>3

\* A patch that fails without PartialWrite leaves the game as it was, but for
\* the bytes of the write that failed.
THEOREM FailureUndoneHolds == RunSpec => FailureUndone
<1> DEFINE Left ==
      \A p \in Patch : Decided(p) /\ status'[p] = "Failed" =>
        \A t \in Target \ disturbed :
          \/ memory'[t] = before[t]
          \/ prepared[p] = "Ready" /\ t = ItsWrite
               /\ memory'[t] = Replacement[t]
<1>1. TypeOK /\ RunInv /\ [RunNext]_runVars => [Left]_runVars
  <2> SUFFICES ASSUME TypeOK, RunInv, RunNext, NEW p \in Patch, Decided(p),
                      status'[p] = "Failed", NEW t \in Target \ disturbed
               PROVE  \/ memory'[t] = before[t]
                      \/ prepared[p] = "Ready" /\ t = ItsWrite
                           /\ memory'[t] = Replacement[t]
    OBVIOUS
  <2> QED BY DecisionFits DEF OutcomeFits, Kept, Changed
<1>2. [][Left]_runVars => FailureUndone
  BY PTL DEF FailureUndone
<1> QED BY <1>1, <1>2, RunKnown, PTL DEF RunSpec

\* A patch reported as applied is in the game whole, whether the run wrote it or
\* found it there.
THEOREM SuccessMeansPatchedHolds == RunSpec => SuccessMeansPatched
<1> DEFINE Fits(p) ==
             /\ \A t \in TargetsOf(p) \ disturbed : memory'[t] = Replacement[t]
             /\ status'[p] = "AlreadyApplied" =>
                  \A t \in Target \ disturbed : memory'[t] = before[t]
             /\ status'[p] = "Applied" =>
                  \E t \in TargetsOf(p) : t \in disturbed
                                          \/ before[t] # Replacement[t]
           There ==
             \A p \in Patch : Decided(p) /\ status'[p] \in Succeeded => Fits(p)
<1>1. TypeOK /\ RunInv /\ [RunNext]_runVars => [There]_runVars
  <2> SUFFICES ASSUME TypeOK, RunInv, RunNext, NEW p \in Patch, Decided(p),
                      status'[p] \in Succeeded
               PROVE  Fits(p)
    OBVIOUS
  <2>1. memory' = memory /\ OutcomeFits(p, status'[p])
    BY DecisionFits DEF Succeeded
  <2>2. TargetsOf(p) \subseteq Target
    BY WritesAssumption DEF TargetsOf
  <2>3. ASSUME NEW t \in TargetsOf(p), Changed(t)
        PROVE  before[t] # Replacement[t]
    BY <2>2, <2>3, BytesAssumption DEF Changed
  <2> QED BY <2>1, <2>2, <2>3 DEF OutcomeFits, Kept
<1>2. [][There]_runVars => SuccessMeansPatched
  BY PTL DEF SuccessMeansPatched
<1> QED BY <1>1, <1>2, RunKnown, PTL DEF RunSpec
-----------------------------------------------------------------------------
(* What a run may leave, and when it ends. *)

\* At every moment, also when the process ends in the middle of a write or of a
\* rollback, a target nobody else has stored to holds what it held when the turn
\* began, or the patch whose turn it is has its bytes there in the place of the
\* game's own.  What a mod or an earlier patch has put there is never written
\* over, and never "restored".
NoOtherBytesTouched ==
  \A t \in Target \ disturbed :
    \/ memory[t] = before[t]
    \/ /\ InTurn /\ t \in TargetsOf(Now)
       /\ before[t] = Expected[t] /\ memory[t] = Replacement[t]

\* The second case is a write that was made, one being made or taken back, or
\* one that could not be taken back: all of the patch whose turn it is.
LEMMA OthersUntouched ==
  ASSUME TypeOK, RunInv
  PROVE  NoOtherBytesTouched
<1> SUFFICES ASSUME NEW t \in Target \ disturbed
             PROVE  Kept(t) \/ (InTurn /\ t \in TargetsOf(Now) /\ Changed(t))
  BY DEF NoOtherBytesTouched, Kept, Changed
<1>1. CASE ~InTurn
  BY <1>1 DEF RunInv, MemoryInv
<1>2. CASE InTurn
  <2>1. TargetInv(t)
    BY <1>2 DEF RunInv, MemoryInv
  <2>2. Holds(t) => t \in TargetsOf(Now)
    BY <1>2 DEF RunInv, PlanInv, Tried, TargetsOf
  <2>3. undoing => ItsWrite \in TargetsOf(Now)
    BY <1>2 DEF RunInv, PlanInv, ItsWrite, TargetsOf
  <2>4. CASE phase # "idle" /\ t = address
    <3>1. t \in TargetsOf(Now)
      <4>1. CASE undoing
        <5>1. Len(applied) \in DOMAIN applied /\ applied[Len(applied)] = t
          BY <2>4, <4>1, OneLess DEF TypeOK, RunInv, CallInv
        <5> QED BY <2>2, <5>1 DEF Holds
      <4>2. CASE ~undoing
        BY <2>4, <4>2 DEF RunInv, CallInv, ItsWrite, TargetsOf
      <4> QED BY <4>1, <4>2
    <3>2. CASE undoing
      BY <1>2, <2>1, <2>4, <3>1, <3>2 DEF TargetInv, Back, TypeOK, Phases
    <3>3. CASE ~undoing
      BY <1>2, <2>1, <2>4, <3>1, <3>3
         DEF TargetInv, Forth, TypeOK, Phases, Succeeded
    <3> QED BY <3>2, <3>3
  <2>5. CASE ~(phase # "idle" /\ t = address)
    BY <1>2, <2>1, <2>2, <2>3, <2>5 DEF TargetInv
  <2> QED BY <2>4, <2>5
<1> QED BY <1>1, <1>2

\* No byte but the game's own is replaced, whatever fails and whoever stores.
THEOREM NoOtherBytesTouchedHolds == RunSpec => []NoOtherBytesTouched
<1>1. TypeOK /\ RunInv => NoOtherBytesTouched
  BY OthersUntouched
<1> QED BY <1>1, RunKnown, PTL

\* A patch that was reported as applied stays applied for the rest of the run,
\* also when a later patch that shares a target with it fails and is undone.
SuccessLasts ==
  \A p \in Patch : status[p] \in Succeeded =>
    \A t \in TargetsOf(p) : memory[t] = Replacement[t]

\* What a success means for the turns that follow, when nobody else stores.
QuietInv ==
  /\ disturbed = {}
  /\ \A p \in Patch : status[p] \in Succeeded =>
       \A t \in TargetsOf(p) : before[t] = Replacement[t]

\* A turn leaves the targets alone that were patched when it began.
LEMMA PatchedStay ==
  ASSUME TypeOK, RunInv, QuietInv
  PROVE  SuccessLasts
<1> SUFFICES ASSUME NEW p \in Patch, status[p] \in Succeeded,
                    NEW t \in TargetsOf(p)
             PROVE  memory[t] = Replacement[t]
  BY DEF SuccessLasts
<1>1. t \in Target
  BY WritesAssumption DEF TargetsOf
<1>2. before[t] = Replacement[t] /\ t \notin disturbed
  BY DEF QuietInv
<1>3. Expected[t] # Replacement[t]
  BY <1>1, BytesAssumption
<1> QED BY <1>1, <1>2, <1>3, OthersUntouched DEF NoOtherBytesTouched

\* Where a turn ends well, the next one finds its targets patched.
LEMMA QuietPreserved ==
  TypeOK /\ RunInv /\ QuietInv /\ [RunStep]_runVars => QuietInv'
<1> SUFFICES ASSUME TypeOK, RunInv, QuietInv, [RunStep]_runVars
             PROVE  QuietInv'
  OBVIOUS
<1>1. CASE FailEnabled
  <2>1. \A p \in Patch : status'[p] \in {"Failed", "Disabled"}
    BY <1>1 DEF FailEnabled, FailedEnabled
  <2> QED BY <1>1, <2>1 DEF FailEnabled, seenVars, QuietInv, Succeeded
<1>2. CASE AllPlanned
  <2>1. before' = memory /\ disturbed' = {} /\ status' = status
    BY <1>2 DEF AllPlanned, BeginTurn
  <2> QED BY <2>1, PatchedStay DEF QuietInv, SuccessLasts
<1>3. CASE Ends
  <2>1. PICK s \in {"Disabled", "Applied", "AlreadyApplied", "Failed",
                    "Partial"} :
               /\ Now \in Patch /\ Outcome(Now, s) /\ OutcomeFits(Now, s)
    BY <1>3, TurnEnds
  <2>2. /\ before' = memory /\ disturbed' = {}
        /\ status' = [status EXCEPT ![Now] = s]
    BY <2>1 DEF Outcome, BeginTurn
  <2>3. s \in Succeeded => \A t \in TargetsOf(Now) : memory[t] = Replacement[t]
    BY <2>1 DEF OutcomeFits, QuietInv
  <2>4. \A p \in Patch : status'[p] = IF p = Now THEN s ELSE status[p]
    BY <2>2 DEF TypeOK
  <2> QED BY <2>2, <2>3, <2>4, PatchedStay DEF QuietInv, SuccessLasts
<1>4. CASE UNCHANGED <<status, seenVars>>
  BY <1>4 DEF seenVars, QuietInv
<1> QED BY <1>1, <1>2, <1>3, <1>4
        DEF RunStep, Ends, runVars, Inspect, SkipDisabled, RefusePlan, Planned,
            PlanWrite, BeginWrite, Write, WriteReturned, Undo, UndoReturned,
            Finish

\* If nobody else stores, what was reported as applied is in the game when the
\* run ends.
THEOREM SuccessLastsHolds == QuietSpec => []SuccessLasts
<1>1. RunInit => QuietInv
  BY DEF RunInit, QuietInv, Succeeded
<1>2. [RunStep]_runVars => [RunNext]_runVars
  BY DEF RunNext
<1>3. TypeOK /\ RunInv /\ [RunNext]_runVars => TypeOK' /\ RunInv'
  BY TypePreserved, OrderPreserved, CallPreserved, PlanPreserved,
     MemoryPreserved DEF RunInv
<1>4. TypeOK /\ RunInv /\ QuietInv => SuccessLasts
  BY PatchedStay
<1>5. QuietSpec => [](TypeOK /\ RunInv /\ QuietInv)
  BY <1>1, <1>2, <1>3, InitiallyTrue, QuietPreserved, PTL DEF QuietSpec
<1> QED BY <1>4, <1>5, PTL

\* How much of a run is left: stages, turns, whether the plan may still have to
\* be undone, writes to make or to take back, and steps of write_checked.
StagesLeft ==
  CASE stage = "start" -> 3 [] stage = "plan" -> 2 [] stage = "apply" -> 1
    [] OTHER -> 0
TurnsLeft == IF turn \in DOMAIN Order THEN Len(Order) + 1 - turn ELSE 0
MayFail   == IF undoing THEN 0 ELSE 1
WritesLeft ==
  IF InTurn /\ undoing THEN Len(applied)
  ELSE IF turn \in DOMAIN Order /\ write \in DOMAIN Writes[Now]
         THEN Len(Writes[Now]) + 1 - write ELSE 0
CallLeft ==
  CASE phase = "idle" -> 4 [] phase = "asked" -> 3 [] phase = "granted" -> 2
    [] phase = "written" -> 1 [] OTHER -> 0

RunLeft == <<StagesLeft, TurnsLeft, MayFail, WritesLeft, CallLeft>>

\* Less of it is left: the first of the numbers to change has become smaller.
RunShorter ==
  \/ StagesLeft' < StagesLeft
  \/ /\ StagesLeft' = StagesLeft
     /\ \/ TurnsLeft' < TurnsLeft
        \/ /\ TurnsLeft' = TurnsLeft
           /\ \/ MayFail' < MayFail
              \/ /\ MayFail' = MayFail
                 /\ \/ WritesLeft' < WritesLeft
                    \/ WritesLeft' = WritesLeft /\ CallLeft' < CallLeft

LeftInNat == RunLeft \in Nat \X Nat \X Nat \X Nat \X Nat

\* Five natural numbers cannot become less for ever.
LEMMA LeftAreNumbers == TypeOK => LeftInNat
<1> SUFFICES ASSUME TypeOK PROVE LeftInNat
  OBVIOUS
<1>1. Len(Order) \in Nat /\ DOMAIN Order = 1..Len(Order)
  BY OrderAssumption
<1>2. TurnsLeft \in Nat
  BY <1>1 DEF TurnsLeft
<1>3. Len(applied) \in Nat
  BY DEF TypeOK
<1>4. ASSUME turn \in DOMAIN Order, write \in DOMAIN Writes[Now]
      PROVE  Len(Writes[Now]) + 1 - write \in Nat
  <2>1. /\ Len(Writes[Now]) \in Nat
        /\ DOMAIN Writes[Now] = 1..Len(Writes[Now])
    BY <1>4, Turns DEF Now
  <2> QED BY <1>4, <2>1
<1>5. WritesLeft \in Nat
  BY <1>3, <1>4 DEF WritesLeft
<1>6. StagesLeft \in Nat /\ MayFail \in Nat /\ CallLeft \in Nat
  BY DEF StagesLeft, MayFail, CallLeft
<1> QED BY <1>2, <1>5, <1>6 DEF RunLeft, LeftInNat

\* One of n is done with when the next one's turn comes, or none is left.
LEMMA OneFewer ==
  ASSUME NEW n \in Nat, NEW k \in 1..n
  PROVE  /\ n + 1 - k \in Nat
         /\ (IF k + 1 \in 1..n THEN n + 1 - (k + 1) ELSE 0) < n + 1 - k
  OBVIOUS

\* The same when there is a next one.
LEMMA OneMoreDone ==
  ASSUME NEW n \in Nat, NEW k \in 1..n
  PROVE  n + 1 - (k + 1) < n + 1 - k
  OBVIOUS

\* Every step of the run leaves less of it, and what others store adds nothing:
\* what RunTerminates needs besides fairness.
THEOREM RunAdvances ==
  RunSpec => [][/\ LeftInNat'
                /\ RunStep => RunShorter
                /\ Disturb => RunLeft' = RunLeft]_runVars
<1> DEFINE Advances == /\ LeftInNat'
                       /\ RunStep => RunShorter
                       /\ Disturb => RunLeft' = RunLeft
<1>0. TypeOK' => LeftInNat'
  BY LeftAreNumbers, PTL
<1>1. ASSUME TypeOK, RunInv, RunNext PROVE Advances
  <2>1. LeftInNat'
    BY <1>0, <1>1, TypePreserved
  <2>2. ASSUME Disturb PROVE RunLeft' = RunLeft
    BY <2>2 DEF Disturb, Store, RunLeft, StagesLeft, TurnsLeft, MayFail,
       WritesLeft, CallLeft, planVars, Now, InTurn
  <2>3. ASSUME RunStep PROVE RunShorter
    <3>0. /\ Len(Order) \in Nat /\ DOMAIN Order = 1..Len(Order)
          /\ turn \in Nat \ {0} /\ write \in Nat \ {0}
          /\ applied \in Seq(Target) /\ Len(applied) \in Nat
          /\ undoing \in BOOLEAN /\ phase \in Phases
      BY <1>1, OrderAssumption DEF TypeOK
    <3>1. CASE FailEnabled \/ Inspect \/ AllPlanned \/ Finish
      <4>1. StagesLeft' < StagesLeft
        BY <3>1 DEF FailEnabled, Inspect, AllPlanned, Finish, StagesLeft
      <4> QED BY <4>1 DEF RunShorter
    <3>2. CASE SkipDisabled \/ RefusePlan \/ (PlanWrite /\ turn' # turn) \/ Ends
      <4>1. /\ stage' = stage /\ turn' = turn + 1 /\ turn \in DOMAIN Order
        BY <3>2 DEF SkipDisabled, RefusePlan, PlanWrite, Planning, Planned,
           Ends, ReportUnplanned, PlanApplied, PlanFailed, Applying, Outcome,
           BeginTurn
      <4>2. TurnsLeft' < TurnsLeft
        BY <3>0, <4>1 DEF TurnsLeft
      <4> QED BY <4>1, <4>2 DEF RunShorter, StagesLeft
    <3>3. CASE PlanWrite /\ turn' = turn
      <4>1. /\ stage = "plan" /\ turn \in DOMAIN Order
            /\ write < Len(Writes[Now]) /\ write' = write + 1
            /\ UNCHANGED <<stage, turn, undoing, applied>>
        BY <3>0, <3>3 DEF PlanWrite, Planning, Planned
      <4>2. Len(Writes[Now]) \in Nat /\ DOMAIN Writes[Now] = 1..Len(Writes[Now])
        BY <4>1, Turns DEF Now
      <4>3. /\ write \in 1..Len(Writes[Now])
            /\ write' \in DOMAIN Writes[Now] /\ write \in DOMAIN Writes[Now]
        <5>1. \A n \in Nat, w \in Nat \ {0} :
                w < n => w \in 1..n /\ w + 1 \in 1..n
          OBVIOUS
        <5> QED BY <3>0, <4>1, <4>2, <5>1
      <4>4. ~InTurn /\ ~InTurn' /\ Now' = Now /\ turn' \in DOMAIN Order
        BY <4>1 DEF Now, InTurn
      <4>5. WritesLeft = Len(Writes[Now]) + 1 - write
        BY <4>1, <4>3, <4>4 DEF WritesLeft
      <4>6. WritesLeft' = Len(Writes[Now]) + 1 - write'
        BY <4>3, <4>4 DEF WritesLeft
      <4>7. Len(Writes[Now]) + 1 - (write + 1) < Len(Writes[Now]) + 1 - write
        BY <4>2, <4>3, OneMoreDone
      <4>8. WritesLeft' < WritesLeft
        BY <4>1, <4>5, <4>6, <4>7
      <4> QED BY <4>1, <4>8 DEF RunShorter, StagesLeft, TurnsLeft, MayFail
    <3>4. CASE BeginWrite \/ Undo
      <4>1. /\ phase = "idle" /\ phase' = "asked"
            /\ UNCHANGED <<stage, turn, planVars>>
        BY <3>4 DEF BeginWrite, Undo, Apply, TakeBack, Rollback, Ask
      <4>2. CallLeft' < CallLeft
        BY <4>1 DEF CallLeft
      <4> QED BY <4>1, <4>2
              DEF RunShorter, StagesLeft, TurnsLeft, MayFail, WritesLeft,
                  planVars, Now, InTurn
    <3>5. CASE Write
      <4>1. UNCHANGED <<stage, turn, planVars>>
        BY <3>5 DEF Write
      <4>2. CallLeft' < CallLeft
        BY <3>5 DEF Write, GuardStep, Refuse, Grant, GiveUp, Put, Report, Crash,
           Return, CallLeft
      <4> QED BY <4>1, <4>2
              DEF RunShorter, StagesLeft, TurnsLeft, MayFail, WritesLeft,
                  planVars, Now, InTurn
    <3>6. CASE WriteReturned
      <4>1. /\ turn \in DOMAIN Order /\ ~undoing /\ write \in DOMAIN Writes[Now]
            /\ UNCHANGED <<stage, turn>>
        BY <1>1, <3>6 DEF WriteReturned, Accept, RunInv, CallInv, InTurn
      <4>2. Len(Writes[Now]) \in Nat /\ DOMAIN Writes[Now] = 1..Len(Writes[Now])
        BY <4>1, Turns DEF Now
      <4>3. UNCHANGED <<StagesLeft, TurnsLeft>>
        BY <4>1 DEF StagesLeft, TurnsLeft
      <4>4. CASE undoing'
        BY <4>1, <4>3, <4>4 DEF RunShorter, MayFail
      <4>5. CASE ~undoing'
        <5>1. write' = write + 1
          BY <3>6, <4>5 DEF WriteReturned
        <5>2. Now' = Now /\ turn' \in DOMAIN Order
          BY <4>1 DEF Now
        <5>3. WritesLeft = Len(Writes[Now]) + 1 - write
          BY <4>1 DEF WritesLeft
        <5>4. WritesLeft' = IF write' \in DOMAIN Writes[Now]
                              THEN Len(Writes[Now]) + 1 - write' ELSE 0
          BY <4>5, <5>2 DEF WritesLeft
        <5>5. WritesLeft' < WritesLeft
          BY <4>1, <4>2, <5>1, <5>3, <5>4, OneFewer
        <5> QED BY <4>1, <4>3, <4>5, <5>5 DEF RunShorter, MayFail
      <4> QED BY <4>4, <4>5
    <3>7. CASE UndoReturned
      <4>1. /\ InTurn /\ InTurn' /\ undoing /\ applied # <<>>
            /\ applied' = AllButLast(applied)
            /\ UNCHANGED <<stage, turn, undoing>>
        BY <1>1, <3>7 DEF UndoReturned, Accept, RunInv, CallInv, InTurn
      <4>2. Len(applied') < Len(applied)
        <5>1. /\ Len(applied) >= 1
              /\ Len(SubSeq(applied, 1, Len(applied) - 1)) = Len(applied) - 1
          BY <3>0, <4>1
        <5> QED BY <3>0, <4>1, <5>1 DEF AllButLast
      <4> QED BY <4>1, <4>2
              DEF RunShorter, StagesLeft, TurnsLeft, MayFail, WritesLeft
    <3> QED BY <2>3, <3>1, <3>2, <3>3, <3>4, <3>5, <3>6, <3>7
            DEF RunStep, Ends
  <2> QED BY <2>1, <2>2, <2>3
<1> HIDE DEF Advances
<1>2. TypeOK /\ RunInv /\ [RunNext]_runVars => [Advances]_runVars
  BY <1>1
<1>3. RunSpec => [][Advances]_runVars
  BY <1>2, RunKnown, PTL DEF RunSpec
<1> QED BY <1>3 DEF Advances
-----------------------------------------------------------------------------
(* The refinement. *)

\* A turn that ends is Decide: the bytes that differ from those the turn began
\* with are the ones its outcome allows.
LEMMA EndDecides ==
  ASSUME TypeOK, RunInv, Ends
  PROVE  \E p \in Patch : Atomic!Decide(p)
<1> DEFINE New == {t \in Target \ disturbed : ~Kept(t)}
<1>1. PICK s \in {"Disabled", "Applied", "AlreadyApplied", "Failed",
                  "Partial"} :
             /\ InTurn /\ Now \in Patch /\ status[Now] = "none"
             /\ Outcome(Now, s) /\ memory' = memory
             /\ (s = "Disabled") = ~config[Now]
             /\ OutcomeFits(Now, s)
  BY TurnEnds
<1>2. /\ status' = [status EXCEPT ![Now] = s]
      /\ config' = config /\ before' = memory
  BY <1>1 DEF Outcome, BeginTurn
<1>3. disturbed' = {}
  BY <1>1 DEF Outcome, BeginTurn
<1>4. Visible = [t \in Target |-> IF t \notin disturbed THEN before[t]
                                                       ELSE memory[t]]
  BY <1>1 DEF Visible
<1>5. Visible' = [t \in Target |-> memory[t]]
  BY <1>1, <1>2, <1>3 DEF Visible
<1>6. TargetsOf(Now) \subseteq Target
  BY <1>1, WritesAssumption DEF TargetsOf
<1>7. \A t \in New : /\ t \in TargetsOf(Now) /\ before[t] # Replacement[t]
                     /\ memory[t] = Replacement[t]
  BY <1>1, BytesAssumption DEF OutcomeFits, Changed
<1>8. Atomic!Missing(Now) \ disturbed
        = {t \in TargetsOf(Now) \ disturbed : before[t] # Replacement[t]}
  BY <1>4, <1>6 DEF Atomic!Missing
<1>9. New \in SUBSET (Atomic!Missing(Now) \ disturbed)
  BY <1>7, <1>8
<1>10. Atomic!Place(New)
  <2>1. \A t \in Target :
          memory[t] = IF t \in New THEN Replacement[t] ELSE Visible[t]
    BY <1>4, <1>7 DEF Kept
  <2> QED BY <1>5, <2>1 DEF Atomic!Place
<1>11. s \in {"Disabled", "AlreadyApplied"} => New = {}
  BY <1>1 DEF OutcomeFits
<1>12. s \in Succeeded => Atomic!Missing(Now) \ disturbed \subseteq New
  BY <1>1, <1>6, <1>8 DEF OutcomeFits, Kept
<1>13. s = "AlreadyApplied" => Atomic!Missing(Now) \subseteq disturbed
  BY <1>11, <1>12 DEF Succeeded
<1>14. s = "Applied" => New = Atomic!Missing(Now) \ disturbed
  BY <1>9, <1>12 DEF Succeeded
<1>15. s = "Applied" => New # {} \/ TargetsOf(Now) \cap disturbed # {}
  <2> SUFFICES ASSUME s = "Applied", TargetsOf(Now) \cap disturbed = {}
               PROVE  New # {}
    OBVIOUS
  <2>1. PICK t \in TargetsOf(Now) : Changed(t) /\ t \notin disturbed
    BY <1>1 DEF OutcomeFits
  <2>2. before[t] # Replacement[t]
    BY <1>6, <2>1, BytesAssumption DEF Changed
  <2> QED BY <1>6, <2>1, <2>2 DEF Kept, Changed
<1>16. s = "Failed" => \A t, u \in New : t = u
  BY <1>1 DEF OutcomeFits
<1> HIDE DEF New
<1>17. Atomic!Decide(Now)
  <2>1. \E ts \in SUBSET (Atomic!Missing(Now) \ disturbed) :
          /\ status' = [status EXCEPT ![Now] = s]
          /\ (s = "Disabled") = ~config[Now]
          /\ Atomic!Place(ts)
          /\ s \in {"Disabled", "AlreadyApplied"} => ts = {}
          /\ s = "AlreadyApplied" => Atomic!Missing(Now) \subseteq disturbed
          /\ s = "Applied" => /\ ts = Atomic!Missing(Now) \ disturbed
                              /\ ts # {} \/ TargetsOf(Now) \cap disturbed # {}
          /\ s = "Failed" => \A t, u \in ts : t = u
    <3> WITNESS New \in SUBSET (Atomic!Missing(Now) \ disturbed)
    <3>1. s = "Applied" => /\ New = Atomic!Missing(Now) \ disturbed
                           /\ New # {} \/ TargetsOf(Now) \cap disturbed # {}
      BY <1>14, <1>15, Zenon
    <3> QED BY <1>1, <1>2, <1>10, <1>11, <1>13, <1>16, <3>1, Zenon
  <2> QED BY <1>1, <1>2, <1>3, <2>1, Zenon DEF Atomic!Decide
<1> QED BY <1>1, <1>17

\* What a step within the turn of a patch shows of the game: nothing, save of a
\* target that somebody else has stored to.
LEMMA StepsHide ==
  ASSUME TypeOK, RunInv,
         BeginWrite \/ Write \/ WriteReturned \/ Undo \/ UndoReturned
  PROVE  \/ UNCHANGED <<Visible, config, status, disturbed>>
         \/ \E t \in Target : Atomic!Meddle(t)
<1>1. /\ InTurn /\ InTurn'
      /\ UNCHANGED <<config, status, disturbed, before>>
  BY WriteSteps DEF RunInv, BeginWrite, Undo, Write, WriteReturned,
     UndoReturned, Applying, CallInv, InTurn, seenVars
<1>2. CASE memory' = memory
  BY <1>1, <1>2 DEF Visible
<1>3. CASE memory' # memory
  <2>1. Write
    BY <1>3 DEF BeginWrite, Apply, WriteReturned, Undo, TakeBack, Rollback,
       UndoReturned, Ask, Accept
  <2>2. memory' = [memory EXCEPT ![address] = replacement]
    BY <1>3, <2>1, WriteSteps
  <2>3. address \in Target /\ replacement \in Bytes
        /\ memory \in [Target -> Bytes]
    BY DEF TypeOK
  <2>4. CASE address \in disturbed
    <3>1. Visible' = [Visible EXCEPT ![address] = replacement]
      BY <1>1, <2>2, <2>3, <2>4 DEF Visible
    <3>2. disturbed' = disturbed \cup {address}
      BY <1>1, <2>4
    <3> QED BY <1>1, <2>3, <3>1, <3>2 DEF Atomic!Meddle
  <2>5. CASE address \notin disturbed
    <3>1. Visible' = Visible
      BY <1>1, <2>2, <2>3, <2>5 DEF Visible
    <3> QED BY <1>1, <3>1
  <2> QED BY <2>4, <2>5
<1> QED BY <1>2, <1>3

\* Another thread's store is seen at once.
LEMMA DisturbMeddles ==
  ASSUME TypeOK, Disturb
  PROVE  \E t \in Target : Atomic!Meddle(t)
<1>1. PICK t \in Target, b \in Bytes :
             /\ disturbed' = disturbed \cup {t}
             /\ memory' = [memory EXCEPT ![t] = b]
  BY DEF Disturb, Store
<1>2. /\ UNCHANGED <<config, status, before>> /\ InTurn' = InTurn
      /\ memory \in [Target -> Bytes]
  BY DEF Disturb, InTurn, TypeOK
<1>3. Visible' = [Visible EXCEPT ![t] = b]
  BY <1>1, <1>2 DEF Visible
<1> QED BY <1>1, <1>2, <1>3 DEF Atomic!Meddle

\* Every step is a step of AtomicPatches, or changes nothing it shows.
LEMMA StepIsAtomic ==
  TypeOK /\ RunInv /\ [RunNext]_runVars
    => [Atomic!AtomicNext]_(Atomic!atomicVars)
<1> SUFFICES ASSUME TypeOK, RunInv, [RunNext]_runVars
             PROVE  \/ Atomic!AtomicNext
                    \/ UNCHANGED <<Visible, config, status, disturbed>>
  BY DEF Atomic!atomicVars
<1>1. CASE FailEnabled
  <2>1. ~InTurn /\ ~InTurn' /\ UNCHANGED <<memory, config, disturbed>>
    BY <1>1 DEF FailEnabled, InTurn, guardVars, seenVars
  <2>2. Visible' = Visible
    BY <2>1 DEF Visible
  <2>3. \A p \in Patch : status[p] = "none"
    BY <1>1 DEF RunInv, OrderInv, FailEnabled
  <2>4. Atomic!FailAll
    BY <1>1, <2>1, <2>2, <2>3 DEF FailEnabled, FailedEnabled, Atomic!FailAll
  <2> QED BY <2>4 DEF Atomic!AtomicNext
<1>2. CASE Inspect \/ SkipDisabled \/ RefusePlan \/ PlanWrite \/ Finish
  <2>1. /\ ~InTurn /\ ~InTurn'
        /\ UNCHANGED <<memory, config, status, disturbed>>
    BY <1>2 DEF Inspect, SkipDisabled, RefusePlan, PlanWrite, Planning, Planned,
       Finish, InTurn, guardVars, seenVars
  <2> QED BY <2>1 DEF Visible
<1>3. CASE AllPlanned
  <2>1. /\ ~InTurn /\ UNCHANGED <<memory, config, status>> /\ before' = memory
    BY <1>3 DEF AllPlanned, BeginTurn, InTurn, guardVars
  <2>2. disturbed' = {}
    BY <1>3 DEF AllPlanned, BeginTurn
  <2>3. Visible' = Visible
    BY <2>1, <2>2 DEF Visible
  <2>4. Atomic!Begin
    BY <2>1, <2>2, <2>3 DEF Atomic!Begin
  <2> QED BY <2>4 DEF Atomic!AtomicNext
<1>4. CASE Ends
  BY <1>4, EndDecides DEF Atomic!AtomicNext
<1>5. CASE BeginWrite \/ Write \/ WriteReturned \/ Undo \/ UndoReturned
  BY <1>5, StepsHide DEF Atomic!AtomicNext
<1>6. CASE Disturb
  BY <1>6, DisturbMeddles DEF Atomic!AtomicNext
<1>7. CASE UNCHANGED runVars
  BY <1>7 DEF runVars, guardVars, seenVars, Visible, InTurn
<1> QED BY <1>1, <1>2, <1>3, <1>4, <1>5, <1>6, <1>7 DEF RunNext, RunStep, Ends

\* Seen from the game, run is a series of patches that are each decided in one
\* step, together with what that does to the bytes.
THEOREM PatchesAreAtomicHolds == RunSpec => PatchesAreAtomic
<1>1. RunInit => Atomic!AtomicInit
  BY DEF RunInit, GuardInit, Atomic!AtomicInit, Visible, InTurn
<1> QED BY <1>1, StepIsAtomic, RunKnown, PTL
        DEF RunSpec, PatchesAreAtomic, Atomic!AtomicSpec
=============================================================================
