---------------------------- MODULE MCCpuTopology ----------------------------
(***************************************************************************)
(* Words of four bits: every set of processors, the full word included.    *)
(* Rates below and above the one at which the product leaves its word: 3   *)
(* to 4 here, 4294 to 4295 MHz in the code.                                *)
(***************************************************************************)
EXTENDS CpuTopology, FiniteSetsExt

\* The number a word stands for, and what the code does with it.
Number(word) == SumSet({2^i : i \in word})

\* CpuTopology's operators on words are those of the numbers.
ASSUME WordsAreNumbers ==
  \A a, b \in SUBSET Cpu :
    /\ LessEq(a, b) <=> Number(a) <= Number(b)
    /\ Number(ShiftLeft(a)) = (Number(a) * 2) % 2^W
    /\ a = b <=> Number(a) = Number(b)
=============================================================================
