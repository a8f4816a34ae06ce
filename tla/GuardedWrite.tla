---------------------------- MODULE GuardedWrite ----------------------------
(***************************************************************************)
(* What write_checked of src/patches/memory.rs promises its callers,       *)
(* without the system calls it makes: the bytes are compared, they are     *)
(* replaced in one step if they were the expected ones, and the result     *)
(* reports what was found.  CheckedWrite implements this module;           *)
(* PatchRun is built on it.                                                *)
(*                                                                         *)
(* A call may end in an error at any point, and may end the whole process  *)
(* by touching a page it is not allowed to touch.  Other threads store to  *)
(* the targets at any time, also between the comparison and the copy.      *)
(***************************************************************************)
CONSTANTS
  Target,          \* the places the patches write
  Bytes,           \* what a target may hold
  Expected,        \* Expected[t]: the game's own bytes at t
  Replacement      \* Replacement[t]: the patched bytes at t

ASSUME TargetAssumption == Target # {}
ASSUME BytesAssumption ==
  /\ Expected \in [Target -> Bytes]
  /\ Replacement \in [Target -> Bytes]
  /\ \A t \in Target : Expected[t] # Replacement[t]

VARIABLES
  memory,          \* the bytes at each target
  phase,           \* how far the call in progress is
  address,         \* write_checked's parameters
  expected,
  replacement,
  result           \* what the call returned

request   == <<address, expected, replacement>>
guardVars == <<memory, phase, request, result>>

Phases    == {"idle", "asked", "granted", "written", "returned", "crashed"}
Succeeded == {"Applied", "AlreadyApplied"}
\* The errors a call can end with before it has compared the bytes, once they
\* have been found to be the expected ones, and after the copy.
EarlyError == {"Unreadable"}
GrantError == {"Unreadable", "CrossesProtectionRegion", "Protect"}
LateError  == {"Unreadable", "RestoreProtection", "FlushInstructionCache"}
Results    == Succeeded \cup EarlyError \cup GrantError \cup LateError
                \cup {"UnexpectedBytes", "WriteVerification"}
-----------------------------------------------------------------------------
\* The outcomes of a call that changes no bytes.
Return(r) ==
  /\ phase' = "returned"
  /\ result' = r
  /\ UNCHANGED <<memory, request>>

\* write_checked(t, from, to) is called.
Ask(t, from, to) ==
  /\ phase = "idle"
  /\ phase' = "asked"
  /\ address' = t
  /\ expected' = from
  /\ replacement' = to
  /\ result' = "none"
  /\ UNCHANGED memory

\* The bytes are compared with the replacement first.
Refuse ==
  /\ phase = "asked"
  /\ \/ memory[address] = replacement /\ Return("AlreadyApplied")
     \/ memory[address] \notin {replacement, expected}
          /\ Return("UnexpectedBytes")
     \/ \E r \in EarlyError : Return(r)

Grant ==
  /\ phase = "asked"
  /\ memory[address] = expected
  /\ phase' = "granted"
  /\ UNCHANGED <<memory, request, result>>

GiveUp ==
  /\ phase = "granted"
  /\ \E r \in GrantError : Return(r)

Put ==
  /\ phase = "granted"
  /\ memory' = [memory EXCEPT ![address] = replacement]
  /\ phase' = "written"
  /\ UNCHANGED <<request, result>>

\* Read back: success only when the bytes are there.  The late errors leave the
\* bytes where the copy put them.
Report ==
  /\ phase = "written"
  /\ \/ memory[address] = replacement /\ Return("Applied")
     \/ memory[address] # replacement /\ Return("WriteVerification")
     \/ \E r \in LateError : Return(r)

Crash ==
  /\ phase \in {"asked", "granted", "written"}
  /\ phase' = "crashed"
  /\ UNCHANGED <<memory, request, result>>

GuardStep == Refuse \/ Grant \/ GiveUp \/ Put \/ Report \/ Crash

\* The caller takes the result.
Accept ==
  /\ phase = "returned"
  /\ phase' = "idle"
  /\ UNCHANGED <<memory, request, result>>

\* Another thread stores to a target.
Store(t, b) ==
  /\ phase # "crashed"
  /\ memory' = [memory EXCEPT ![t] = b]
  /\ UNCHANGED <<phase, request, result>>

\* CheckedWrite::apply and CheckedWrite::rollback, the two callers.
Apply(t)    == Ask(t, Expected[t], Replacement[t])
Rollback(t) == Ask(t, Replacement[t], Expected[t])
-----------------------------------------------------------------------------
GuardInit ==
  /\ memory \in [Target -> Bytes]
  /\ phase = "idle"
  /\ address \in Target
  /\ expected = Expected[address]
  /\ replacement = Replacement[address]
  /\ result = "none"

GuardNext ==
  \/ \E t \in Target : Apply(t) \/ Rollback(t)
  \/ GuardStep
  \/ Accept
  \/ \E t \in Target, b \in Bytes : Store(t, b)

GuardSafety == GuardInit /\ [][GuardNext]_guardVars
GuardSpec   == GuardSafety /\ WF_guardVars(GuardStep)
=============================================================================
