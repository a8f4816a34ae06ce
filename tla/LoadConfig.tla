----------------------------- MODULE LoadConfig -----------------------------
(***************************************************************************)
(* load_patch_config of src/patches/mod.rs: the DLL finds its own path     *)
(* (ModulePath) and reads the configuration beside it (ConfigParse).       *)
(* Whatever is missing on the way leaves the defaults.  The path of a      *)
(* module is a file's, so it always has a directory.                       *)
(***************************************************************************)
EXTENDS ModulePath, ConfigParse

loadVars == <<pathVars, parseVars>>

FindPath == PathNext /\ UNCHANGED parseVars

NoPath ==
  /\ pathStep = "done" /\ pathLength = 0
  /\ pc = "load"
  /\ pc' = "done"
  /\ source' = "PathUnavailable"
  /\ UNCHANGED <<pathVars, file, next, inPatches, config, warnings>>

LoadFile ==
  /\ pathStep = "done" /\ pathLength # 0
  /\ ParseNext
  /\ UNCHANGED pathVars

LoadInit == PathInit /\ ParseInit
LoadNext == FindPath \/ NoPath \/ LoadFile
=============================================================================
