------------------------- MODULE MCSignatureTarget -------------------------
(***************************************************************************)
(* Six addresses in two sections, and the searches of KnownPatches cut     *)
(* down to them: the target inside its signature as a wildcard             *)
(* (jackal_tapes and most others), two bytes long (predecessor_tapes),     *)
(* behind its signature (machetes), at a known RVA with and without its    *)
(* signature; and known RVAs that an image of another build does not have. *)
(***************************************************************************)
EXTENDS KnownPatches

CONSTANTS mark, original, patched

MCByte == {mark, original, patched}

MCSections == <<[rva |-> 0, size |-> 4, scope |-> "Code"],
                [rva |-> 4, size |-> 2, scope |-> "ReadOnlyData"]>>

MCRecipe ==
  {FindSignatureTarget(<<mark, Any>>, "Code", 1, <<original>>, <<patched>>),
   FindSignatureTarget(<<mark, Any, Any>>, "Code", 1,
                       <<original, original>>, <<patched, original>>),
   FindSignatureTarget(<<mark>>, "Code", 2, <<original>>, <<patched>>)}
  \cup {CheckedKnownSignature(<<mark, Any>>, "ReadOnlyData", rva, 1,
                              <<original>>, <<patched>>) : rva \in {4, 5}}
  \cup {CheckedKnownSignature(<<mark, Any>>, "Code", rva, 1,
                              <<original>>, <<patched>>) : rva \in {0, 6}}
  \cup {KnownRva("Code", rva, <<original, mark>>, <<patched, mark>>) :
           rva \in {2, 3, 5}}
=============================================================================
