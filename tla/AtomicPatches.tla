---------------------------- MODULE AtomicPatches ----------------------------
(***************************************************************************)
(* What run of src/patches/mod.rs promises while others store to the       *)
(* targets: the outcomes in the report are decided patch by patch, each in *)
(* one step together with what it does to the game.  Applied patches are   *)
(* in place whole.  A failed one changes nothing, save that the bytes of   *)
(* the write that failed may have been put in place before the failure was *)
(* noticed (memory.rs:228-242); only a patch reported as partially written *)
(* may leave more.  Nothing is promised of a target that somebody else has *)
(* stored to since the patch before was decided.                           *)
(***************************************************************************)
CONSTANTS Target, Bytes, Replacement, Patch, TargetsOf(_)

VARIABLES memory, config, status, disturbed

atomicVars == <<memory, config, status, disturbed>>

Place(ts) == memory' = [t \in Target |-> IF t \in ts THEN Replacement[t]
                                                     ELSE memory[t]]
Missing(p) == {t \in TargetsOf(p) : memory[t] # Replacement[t]}

\* The whole run fails before any patch is planned.
FailAll ==
  /\ \A p \in Patch : status[p] = "none"
  /\ status' = [p \in Patch |-> IF config[p] THEN "Failed" ELSE "Disabled"]
  /\ UNCHANGED <<memory, config, disturbed>>

Decide(p) ==
  /\ status[p] = "none"
  /\ \E s \in {"Disabled", "Applied", "AlreadyApplied", "Failed", "Partial"},
        ts \in SUBSET (Missing(p) \ disturbed) :
       /\ status' = [status EXCEPT ![p] = s]
       /\ (s = "Disabled") = ~config[p]
       /\ Place(ts)
       /\ s \in {"Disabled", "AlreadyApplied"} => ts = {}
       /\ s = "AlreadyApplied" => Missing(p) \subseteq disturbed
       /\ s = "Applied" => /\ ts = Missing(p) \ disturbed
                           /\ ts # {} \/ TargetsOf(p) \cap disturbed # {}
       /\ s = "Failed" => \A t, u \in ts : t = u
  /\ disturbed' = {}
  /\ UNCHANGED config

\* Somebody stores to a target; it may change again until the next decision.
Meddle(t) ==
  /\ \E b \in Bytes : memory' = [memory EXCEPT ![t] = b]
  /\ disturbed' = disturbed \cup {t}
  /\ UNCHANGED <<config, status>>

\* The patches are about to be applied: what was stored until now counts as the
\* game's.
Begin == disturbed' = {} /\ UNCHANGED <<memory, config, status>>

AtomicInit ==
  /\ memory \in [Target -> Bytes]
  /\ config \in [Patch -> BOOLEAN]
  /\ status = [p \in Patch |-> "none"]
  /\ disturbed = {}

AtomicNext ==
  \/ FailAll
  \/ \E p \in Patch : Decide(p)
  \/ \E t \in Target : Meddle(t)
  \/ Begin

AtomicSpec == AtomicInit /\ [][AtomicNext]_atomicVars
=============================================================================
