----------------------------- MODULE MCPatchRun -----------------------------
(***************************************************************************)
(* A patch of several writes and one of a single write, one of whose       *)
(* targets they share: run does not compare the targets of its plans.      *)
(***************************************************************************)
EXTENDS PatchRun, TLC

CONSTANTS single, multi, t1, t2, t3, original, patched, junk

MCBytes == {original, patched, junk}
MCPatch == {single, multi}
MCOrder == <<single, multi>>

MCTarget2 == {t1, t2}
MCWrites2 == (single :> <<t2>>) @@ (multi :> <<t1, t2>>)

MCTarget3 == {t1, t2, t3}
MCWrites3 == (single :> <<t2>>) @@ (multi :> <<t1, t2, t3>>)

MCExpected == [t \in Target |-> original]
MCReplacement == [t \in Target |-> patched]
=============================================================================
