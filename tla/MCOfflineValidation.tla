------------------------ MODULE MCOfflineValidation ------------------------
(* A patch of one write, one of two, and one that has no known place; each    *)
(* may be led elsewhere, and to a place that another patch writes too.        *)
EXTENDS OfflineValidation, TLC

CONSTANTS jackal, noBlinking, devmode

MCPatch == {jackal, noBlinking, devmode}
MCOrder == <<jackal, devmode, noBlinking>>
MCPlace == 1..3
MCWrites == {<<1>>, <<2, 3>>, <<3, 2>>, <<3>>}
MCKnown == (jackal :> <<1>>) @@ (noBlinking :> <<2, 3>>) @@ (devmode :> <<>>)
=============================================================================
