---------------------------- MODULE KnownPatches ----------------------------
(***************************************************************************)
(* What the plan_* functions of src/patches/mod.rs give to the searches of *)
(* SignatureTarget: the signatures, offsets, known RVAs and bytes of each  *)
(* patch in each build of Dunia.dll.  A plan is the sequence of its        *)
(* searches, each of which leads to one write.                             *)
(***************************************************************************)
EXTENDS SignatureTarget

Build == {"Steam", "Retail", "Ubisoft", "Unknown"}
-----------------------------------------------------------------------------
(* The ways to ask for a target. *)

Search(method, signature, scope, offset, rva, expected, replacement) ==
  [method |-> method, signature |-> signature, scope |-> scope,
   offset |-> offset, rva |-> rva,
   expected |-> expected, replacement |-> replacement]

FindSignatureTarget(signature, scope, offset, expected, replacement) ==
  Search("signature", signature, scope, offset, 0, expected, replacement)

CheckedKnownSignature(signature, scope, rva, offset, expected, replacement) ==
  Search("knownSignature", signature, scope, offset, rva, expected,
         replacement)

\* An RVA with nothing around it to recognize it by.
KnownRva(scope, rva, expected, replacement) ==
  Search("knownRva", <<Any>>, scope, 0, rva, expected, replacement)
-----------------------------------------------------------------------------
(* The signatures, and the places known without one. *)

JACKAL_TAPES == <<\H80, \H7E, \H74, \H00, \H75, Any, \H3B, \HCA, \H75>>
DEVMODE_ALWAYS_ON == <<\H80, \H79, Any, \H00, \H8B, \H54, \H24, Any, Any>>
PREDECESSOR_TAPES_STEAM ==
  <<\H8B, \H49, \H0C, \H85, \HC9, Any, Any, \H8B, \H44, \H24>>
MACHETES == <<\H83, \HEC, Any, \H53, \H8D, \H44, \H24, Any, \H50, \H68>>
MESH_HIGHLIGHT ==
  <<\H4D, \H65, \H73, \H68, Any, \H48, \H69, \H67, \H68, \H6C, \H69, \H67,
    \H68, \H74>>
ARCH_BLINK == <<\H61, \H72, \H63, \H68, \H42, \H6C, \H69, \H6E, Any>>
SAVE_DISK ==
  <<\H67, \H61, \H64, \H67, \H65, \H74, \H73, \H2E, \H4F, \H62, \H6A, \H65,
    \H63, \H74, \H69, \H76, \H65, \H49, \H63, \H6F, \H6E, \H73, \H2E, \H53,
    \H61, \H76, \H65, \H44, \H69, \H73, \H6B, Any>>

RETAIL_PREDECESSOR_RVA == \H48987

\* None of an unknown build.
NoBlinkRvas(build) ==
  CASE build \in {"Steam", "Ubisoft"} -> <<\HE49D08, \HE115B8, \HE933B3>>
    [] build = "Retail" -> <<\HDC1A94, \HD8B3B0, \HE0AFC2>>
    [] build = "Unknown" -> <<>>
-----------------------------------------------------------------------------
(* The plans. *)

PlanJackalTapes ==
  <<FindSignatureTarget(JACKAL_TAPES, "Code", 5, <<\H0A>>, <<\H14>>)>>

PlanDevmodeAlwaysOn ==
  <<FindSignatureTarget(DEVMODE_ALWAYS_ON, "Code", 8, <<\H75>>, <<\HEB>>)>>

PlanPredecessorTapes(build) ==
  IF build = "Retail"
    THEN <<KnownRva("Code", RETAIL_PREDECESSOR_RVA,
                    <<\H8A, \HC3>>, <<\HB0, \H01>>)>>
    ELSE <<FindSignatureTarget(PREDECESSOR_TAPES_STEAM, "Code", 5,
                               <<\H74, \H16>>, <<\HEB, \H0E>>)>>

PlanMachetes ==
  <<FindSignatureTarget(MACHETES, "Code", \H69,
                        <<\H8A, \HC3>>, <<\HB0, \H01>>)>>

\* Each of three strings gets a dot in place of one of its bytes.
PlanNoBlinkingItems(build) ==
  LET rvas == NoBlinkRvas(build)
      Dot(i, signature, offset, expected) ==
        IF rvas = <<>>
          THEN FindSignatureTarget(signature, "ReadOnlyData", offset,
                                   expected, <<\H2E>>)
          ELSE CheckedKnownSignature(signature, "ReadOnlyData", rvas[i], offset,
                                     expected, <<\H2E>>)
  IN  <<Dot(1, MESH_HIGHLIGHT, 4, <<\H5F>>), Dot(2, ARCH_BLINK, 8, <<\H6B>>),
        Dot(3, SAVE_DISK, 31, <<\H00>>)>>

Plans(build) ==
  <<PlanJackalTapes, PlanDevmodeAlwaysOn, PlanPredecessorTapes(build),
    PlanMachetes, PlanNoBlinkingItems(build)>>

\* What DistinctiveAssumption asks of a search holds of every search the code
\* makes, in every build.
ASSUME SearchesDistinctive ==
  \A build \in Build :
    \A p \in DOMAIN Plans(build) : \A i \in DOMAIN Plans(build)[p] :
      Distinctive(Plans(build)[p][i])

\* No search for a known place starts before the image (mod.rs:309-318).
ASSUME KnownPlacesInside ==
  \A build \in Build :
    \A p \in DOMAIN Plans(build) : \A i \in DOMAIN Plans(build)[p] :
      LET r == Plans(build)[p][i]
      IN  r.method = "knownSignature" => r.rva >= r.offset
=============================================================================
