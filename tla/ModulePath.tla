----------------------------- MODULE ModulePath -----------------------------
(***************************************************************************)
(* module_path of src/patches/mod.rs: GetModuleFileNameW is called with a  *)
(* buffer that grows until the path fits.  It has found room for the path  *)
(* when it returns less than the buffer's length; else it has cut the path *)
(* short to fill the buffer.                                               *)
(***************************************************************************)
EXTENDS Naturals

CONSTANTS PathLengths   \* how long a path may be, in UTF-16 units, without NUL

ASSUME PathLengthsAssumption == PathLengths \subseteq Nat

\* Any call may fail.
ASSUME NoPathAssumption == 0 \in PathLengths

First == 260
Limit == 32768

VARIABLES
  path,            \* how long the path is; 0 when the calls for it fail
  capacity,        \* the buffer's
  pathStep,
  pathLength       \* the length of the path returned; 0 is an error

pathVars == <<path, capacity, pathStep, pathLength>>
-----------------------------------------------------------------------------
\* GetModuleFileNameW: the terminating NUL needs room as well.
GetModuleFileName(n) == IF path < n THEN path ELSE n

Least(a, b) == IF a < b THEN a ELSE b

Done(r) ==
  /\ pathStep' = "done"
  /\ pathLength' = r
  /\ UNCHANGED <<path, capacity>>

Fail == pathStep = "call" /\ GetModuleFileName(capacity) = 0 /\ Done(0)

\* (Fault) A path that fills the buffer is taken for whole.
WholeOrCut(n) == n <= capacity

Whole(n) == n < capacity

Fits ==
  /\ pathStep = "call"
  /\ LET n == GetModuleFileName(capacity) IN n # 0 /\ Whole(n) /\ Done(n)

Cut == pathStep = "call" /\ ~Whole(GetModuleFileName(capacity))

\* (Fault) The buffer that is large enough for any path is not the last.
LastIsNot == capacity > Limit

Last == capacity >= Limit

TooLong == Cut /\ Last /\ Done(0)

Grow ==
  /\ Cut
  /\ ~Last
  /\ capacity' = Least(capacity * 2, Limit)
  /\ UNCHANGED <<path, pathStep, pathLength>>

PathInit ==
  /\ path \in PathLengths
  /\ capacity = First
  /\ pathStep = "call"
  /\ pathLength = 0

PathNext == Fail \/ Fits \/ TooLong \/ Grow
-----------------------------------------------------------------------------
(* Properties. *)

\* A path is returned whole or not at all: no module is ever looked for under a
\* path cut short, and every path Windows can have is returned.
PathWhole ==
  pathStep = "done" => pathLength = IF path \in 1..(Limit - 1) THEN path ELSE 0
=============================================================================
