---------------------------- MODULE MCInitialize ----------------------------
(***************************************************************************)
(* Paths around the first and the last size of the buffer; two options with *)
(* different defaults, and every file of up to four of the lines that       *)
(* matter for them.                                                         *)
(***************************************************************************)
EXTENDS Initialize

MCPathLengths == {0, 259, 260, 32767, 32768}

MCOption == {"machetes", "no_blinking_items"}
MCDefault == [o \in MCOption |-> o = "machetes"]
Say(k, v) == [kind |-> "entry", key |-> k, value |-> v]
MCLines ==
  {Say("machetes", "false"), Say("machetes", "true"),
   Say("machetes", "invalid"), Say("no_blinking_items", "true"),
   Say("unknown", "true"), [kind |-> "header", patches |-> TRUE],
   [kind |-> "header", patches |-> FALSE], [kind |-> "skip"],
   [kind |-> "malformed"]}
MCFiles == UNION {[1..n -> MCLines] : n \in 0..4}
=============================================================================
