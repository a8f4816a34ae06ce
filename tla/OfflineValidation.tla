------------------------- MODULE OfflineValidation -------------------------
(***************************************************************************)
(* validate_dunia_file of src/patches/offline.rs: a Dunia.dll is laid out  *)
(* in ordinary memory, every patch is planned on that copy, the plans are  *)
(* compared with the places known for the build and applied, and then      *)
(* everything is planned and applied once more.                            *)
(*                                                                         *)
(* The planners look for signatures in bytes that ModuleImage copied when  *)
(* the image was made (SignatureTarget); they read the bytes at a target,  *)
(* and write them, in the copy.  Nobody else stores to it.                 *)
(***************************************************************************)
EXTENDS Naturals, Sequences

CONSTANTS
  Patch,
  Order,           \* make_plans lists the patches in this order
  Place,           \* places of an image a signature may lead to
  Writes,          \* the plans a patch may get: sets of sequences of places
  Known            \* Known[p]: the plan it has in the build; devmode has none

ASSUME OrderAssumption ==
  /\ Order \in Seq(Patch)
  /\ {Order[i] : i \in DOMAIN Order} = Patch
  /\ \A i, j \in DOMAIN Order : Order[i] = Order[j] => i = j
ASSUME WritesAssumption ==
  /\ Writes \subseteq Seq(Place)
  /\ \A w \in Writes : w # <<>>
ASSUME KnownAssumption == Known \in [Patch -> Writes \cup {<<>>}]

Contents == {"original", "patched", "other"}

VARIABLES
  file,            \* what the file holds, place by place
  snapshot,        \* the bytes that signatures are searched for in
  copy,            \* the mapping the patches are applied to
  leadsTo,         \* the places the signatures of each patch lead to, or <<>>
  known,           \* the build is Steam, Ubisoft or Retail
  pc,
  round,           \* 1, or 2 when everything is done once more
  turn,            \* index in Order of the patch at hand
  write,           \* index in its plan of the write at hand
  changed,         \* the plan at hand has changed a byte
  prepared,        \* the plans that were made
  failures,        \* the patches that could not be planned
  state,           \* OfflinePatchState
  result,
  refused          \* history: the system has refused one of its calls

offVars   == <<file, snapshot, copy, leadsTo, known, pc, round, turn, write,
               changed, prepared, failures, state,
                 result, refused>>
inputVars == <<file, snapshot, leadsTo, known>>

Now == Order[turn]
Targets(p) == {prepared[p][i] : i \in DOMAIN prepared[p]}
-----------------------------------------------------------------------------
Stop(r) ==
  /\ pc' = "done"
  /\ result' = r
  /\ UNCHANGED <<inputVars, copy, round, turn, write, changed, prepared,
                 failures, state>>

End(r) == Stop(r) /\ UNCHANGED refused

\* from_pe_file refuses the file, or it cannot be read.
Refuse == pc = "map" /\ End("unreadable")

Map ==
  /\ pc = "map"
  /\ pc' = "plan"
  /\ UNCHANGED <<inputVars, copy, round, turn, write, changed, prepared,
                 failures, state, result, refused>>

\* (Fault) Only original bytes are accepted at a target.
PlannableOnce(p) ==
  /\ leadsTo[p] # <<>>
  /\ \A i \in DOMAIN leadsTo[p] : copy[leadsTo[p][i]] = "original"

\* The plan_* functions: the signatures lead to one place each, and each holds
\* its original or its patched bytes.
Plannable(p) ==
  /\ leadsTo[p] # <<>>
  /\ \A i \in DOMAIN leadsTo[p] :
       copy[leadsTo[p][i]] \in {"original", "patched"}

\* (Fault) One failure is kept.
NoteOnly(failed) == IF failed THEN {Now} ELSE failures

Note(failed) == IF failed THEN failures \cup {Now} ELSE failures

Planned(failed) ==
  /\ prepared' = [prepared EXCEPT ![Now] =
                    IF failed THEN <<>> ELSE leadsTo[Now]]
  /\ failures' = Note(failed)
  /\ turn' = turn + 1
  /\ UNCHANGED <<inputVars, copy, pc, round, write, changed, state, result>>

\* The first time, all plans are made before any is applied and all failures
\* are collected; the second time, each plan is made before all are tried.
Plan ==
  /\ pc = "plan"
  /\ turn \in DOMAIN Order
  /\ Planned(~Plannable(Now))
  /\ UNCHANGED refused

\* A target cannot be read: the system refuses the query.
PlanFails ==
  /\ pc = "plan"
  /\ turn \in DOMAIN Order
  /\ leadsTo[Now] # <<>>
  /\ Planned(TRUE)
  /\ refused' = TRUE

\* The bytes at a target, which the report quotes, cannot be read.
ReadFails ==
  /\ pc = "plan"
  /\ round = 1
  /\ turn \in DOMAIN Order
  /\ Plannable(Now)
  /\ Stop("unreadable")
  /\ refused' = TRUE

\* validate_known_rvas.
AtKnown(p) == Known[p] # <<>> => prepared[p] = Known[p]

BeginApplying ==
  /\ pc' = "apply"
  /\ turn' = 1
  /\ write' = 1
  /\ changed' = FALSE
  /\ UNCHANGED <<inputVars, copy, round, prepared, failures, state,
                 result, refused>>

\* The second round goes through the plans in order and stops at the first that
\* could not be made; those before it have been applied, and found in place.
AllPlanned ==
  /\ pc = "plan"
  /\ turn \notin DOMAIN Order
  /\ \/ round = 1 /\ failures # {} /\ End("planFailed")
     \/ /\ round = 1 /\ failures = {}
        /\ known /\ \E p \in Patch : ~AtKnown(p)
        /\ End("unknownRvas")
     \/ /\ round = 1 /\ failures = {}
        /\ known => \A p \in Patch : AtKnown(p)
        /\ BeginApplying
     \/ round = 2 /\ BeginApplying

\* (Fault) The last write of a plan alone decides what is reported of it.
LastChanged(was) == copy[prepared[Now][write]] # "patched"

Changed(was) == was \/ copy[prepared[Now][write]] # "patched"

\* write_checked of one write of the plan.  The copy is heap memory, nobody else
\* changes its bytes or its protection.
Write ==
  /\ pc = "apply"
  /\ turn \in DOMAIN Order
  /\ write \in DOMAIN prepared[Now]
  /\ copy[prepared[Now][write]] # "other"
  /\ changed' = Changed(changed)
  /\ copy' = [copy EXCEPT ![prepared[Now][write]] = "patched"]
  /\ write' = write + 1
  /\ UNCHANGED <<inputVars, pc, round, turn, prepared, failures, state,
                 result, refused>>

\* The system may refuse any of its calls.
WriteFails ==
  /\ pc = "apply"
  /\ turn \in DOMAIN Order
  /\ write \in DOMAIN prepared[Now]
  /\ Stop("applyFailed")
  /\ refused' = TRUE

\* A patch that could not be planned the second time.
Unplanned ==
  /\ pc = "apply"
  /\ turn \in DOMAIN Order
  /\ prepared[Now] = <<>>
  /\ End("replanFailed")

\* A plan is through: the first time its state is noted, the second time it
\* must have found everything in place.
Applied ==
  /\ pc = "apply"
  /\ turn \in DOMAIN Order
  /\ prepared[Now] # <<>>
  /\ write \notin DOMAIN prepared[Now]
  /\ \/ round = 2 /\ changed /\ End("notIdempotent")
     \/ /\ round = 2 => ~changed
        /\ state' = IF round = 2 THEN state
                    ELSE [state EXCEPT ![Now] =
                            IF changed THEN "AppliedToCopy"
                            ELSE "AlreadyPresent"]
        /\ turn' = turn + 1
        /\ write' = 1
        /\ changed' = FALSE
        /\ UNCHANGED <<inputVars, copy, pc, round, prepared, failures, result,
                       refused>>

\* Everything is planned again, on the same image.
Again ==
  /\ pc = "apply"
  /\ turn \notin DOMAIN Order
  /\ round = 1
  /\ round' = 2
  /\ pc' = "plan"
  /\ turn' = 1
  /\ UNCHANGED <<inputVars, copy, write, changed, prepared, failures, state,
                 result, refused>>

Finish ==
  /\ pc = "apply"
  /\ turn \notin DOMAIN Order
  /\ round = 2
  /\ End("valid")

OffInit ==
  /\ file \in [Place -> Contents]
  /\ snapshot = file
  /\ copy = file
  /\ leadsTo \in [Patch -> Writes \cup {<<>>}]
  /\ known \in BOOLEAN
  /\ pc = "map"
  /\ round = 1
  /\ turn = 1
  /\ write = 1
  /\ changed = FALSE
  /\ prepared = [p \in Patch |-> <<>>]
  /\ failures = {}
  /\ state = [p \in Patch |-> "none"]
  /\ result = "none"
  /\ refused = FALSE

OffNext ==
  \/ Refuse \/ Map \/ Plan \/ PlanFails \/ ReadFails \/ AllPlanned
  \/ Write \/ WriteFails \/ Unplanned \/ Applied
  \/ Again \/ Finish

OffSpec == OffInit /\ [][OffNext]_offVars
-----------------------------------------------------------------------------
(* Properties. *)

\* A file that is declared valid can be patched: every patch has its plan, at
\* the known places when the build is known, and what is reported of a patch is
\* what the game's file holds.
ValidMeansPatchable ==
  result = "valid" =>
    \A p \in Patch :
      /\ leadsTo[p] # <<>> /\ prepared[p] = leadsTo[p]
      /\ known /\ Known[p] # <<>> => leadsTo[p] = Known[p]
      /\ \A t \in Targets(p) : file[t] # "other" /\ copy[t] = "patched"
      /\ (\E t \in Targets(p) : file[t] = "original"
            /\ \A q \in Patch \ {p} : t \notin Targets(q))
           => state[p] = "AppliedToCopy"
      /\ (\A t \in Targets(p) : file[t] = "patched")
           => state[p] = "AlreadyPresent"

\* Nothing is applied, not even to the copy, while one of the patches cannot be
\* planned; and the message names all that cannot.
FailuresFirst ==
  /\ result \in {"planFailed", "unknownRvas"} => copy = file
  /\ result = "planFailed" => {p \in Patch : ~Plannable(p)} \subseteq failures
  /\ result = "planFailed" /\ ~refused =>
       failures = {p \in Patch : ~Plannable(p)}

\* A file that could be planned and applied once is never refused for what the
\* second round finds, unless the system refuses a call: applying a patch makes
\* no other patch unplannable, and leaves nothing to be applied again.
OnceIsEnough ==
  /\ result # "notIdempotent"
  /\ result = "replanFailed" => refused

\* "could not re-plan patched copy" (offline.rs:107), "applies each patch twice
\* to that copy to verify idempotency" (README.md:117): what is planned the
\* second time is planned on the copy that has been patched.
ReplanReadsCopy == round = 2 => snapshot = copy
=============================================================================
