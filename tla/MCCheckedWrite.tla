--------------------------- MODULE MCCheckedWrite ---------------------------
(***************************************************************************)
(* A target across the border of two pages, which may differ in protection *)
(* or not; its bytes are original, patched or what neither side knows.     *)
(***************************************************************************)
EXTENDS CheckedWrite

CONSTANTS border, code, data, original, patched, junk

MCTarget == {border}
MCPage == {code, data}
MCSpan == [t \in MCTarget |-> <<code, data>>]
MCBytes == {original, patched, junk}
MCExpected == [t \in MCTarget |-> original]
MCReplacement == [t \in MCTarget |-> patched]
MCPageStates == {"ExecuteRead", "ReadOnly", "Guarded"}
=============================================================================
