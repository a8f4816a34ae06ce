---------------------------- MODULE MCDllRuntime ----------------------------
(* Three threads; they are interchangeable, and ids are finite because no   *)
(* OnceLock is ever emptied.                                                *)
EXTENDS DllRuntime
CONSTANTS a, b, c
MCThread == {a, b, c}
=============================================================================
