----------------------------- MODULE CpuTopology -----------------------------
(***************************************************************************)
(* GearCPU::new of src/gear/cpu.rs.  get_cpu_topology_fixed moves the      *)
(* thread to each processor in turn to count those it may run on, and puts *)
(* it back.  Masks are words of W bits (usize, 32 on the target), written  *)
(* as the set of their bits, so that a mask is the set of the processors   *)
(* it names; the loop ends when the mask has passed the last processor or  *)
(* has been shifted out of the word.  Then get_cpu_mhz reads the clock     *)
(* rate, which is stored in Hz, in a word of FreqBits bits.                *)
(***************************************************************************)
EXTENDS Naturals, FiniteSets

CONSTANTS
  W,               \* bits in a mask
  Processors,      \* dwNumberOfProcessors: what GetSystemInfo may answer
  Rates,           \* what the registry may hold as ~MHz
  DefaultRate,     \* 3000
  Million,         \* Hz in a MHz, scaled as FreqBits is
  FreqBits         \* bits of cpu_freq_low, 32

ASSUME WAssumption == W \in Nat \ {0}
ASSUME RatesAssumption ==
  /\ Rates \subseteq Nat
  /\ {DefaultRate, Million, FreqBits} \subseteq Nat \ {0}
ASSUME ProcessorsAssumption == Processors \subseteq Nat

Cpu == 0..(W - 1)

\* The order of two words, as numbers: the highest bit in which they differ
\* decides.
LessEq(a, b) == \A i \in a \ b : \E j \in b \ a : j > i

\* wrapping_shl(1): the bit that leaves the word is lost.
ShiftLeft(word) == {i + 1 : i \in word} \cap Cpu

VARIABLES
  system,          \* the processors of the machine
  process,         \* those the process may run on
  thread,          \* those the thread may run on
  systemAffinity,  \* the code's variables
  processAffinity,
  mask,
  logical,
  physical,
  mhz,             \* the clock rate
  freq,            \* cpu_freq_low and cpu_freq_high
  pc,
  changed          \* history: someone changed the process's affinity after the
                   \* code had asked for it

osVars  == <<system, process, thread>>
affinityVars == <<systemAffinity, processAffinity>>
clockVars    == <<mhz, freq>>
cpuVars == <<osVars, affinityVars, mask, logical, physical, clockVars, pc,
             changed>>
-----------------------------------------------------------------------------
\* GetProcessAffinityMask; when it fails both masks stay 0, the empty set.
Query ==
  /\ pc = "query"
  /\ \/ /\ systemAffinity' = system
        /\ processAffinity' = process
     \/ UNCHANGED affinityVars
  /\ pc' = "probe"
  /\ UNCHANGED <<osVars, mask, logical, physical, clockVars, changed>>

\* SetThreadAffinityMask moves the thread to processors of its process only.
Allowed(cpus) == cpus # {} /\ cpus \subseteq process

\* (Fault) The last processor is not looked at; a mask of 0 goes on.
BelowLast ==
  mask # {} /\ LessEq(mask, systemAffinity) /\ mask # systemAffinity
NeverZero == LessEq(mask, systemAffinity)

InWord == mask # {} /\ LessEq(mask, systemAffinity)

Probe ==
  /\ pc = "probe"
  /\ InWord
  /\ IF Allowed(mask)
       THEN thread' = mask /\ logical' = logical + 1
       ELSE UNCHANGED <<thread, logical>>
  /\ mask' = ShiftLeft(mask)
  /\ UNCHANGED <<system, process, affinityVars, physical, clockVars, pc,
                 changed>>

\* (Fault) The thread is left where it is.
WhereItIs == thread

\* What SetThreadAffinityMask makes of the mask the process had when it was
\* queried; a mask that is refused changes nothing.
Before == IF Allowed(processAffinity) THEN processAffinity ELSE thread

\* The thread is given back to them; the call's result is ignored.
Restore ==
  /\ pc = "probe"
  /\ ~InWord
  /\ thread' = Before
  /\ pc' = "count"
  /\ UNCHANGED <<system, process, affinityVars, mask, logical, physical,
                 clockVars, changed>>

AtLeastOne(n) == IF n = 0 THEN 1 ELSE n

\* GetSystemInfo is the fallback; two logical processors are taken to make a
\* physical one.
Count ==
  /\ pc = "count"
  /\ \E n \in IF logical = 0 THEN Processors ELSE {logical} :
       /\ logical' = AtLeastOne(n)
       /\ physical' = AtLeastOne((n + 1) \div 2)
  /\ pc' = "clock"
  /\ UNCHANGED <<osVars, affinityVars, mask, clockVars, changed>>

\* get_cpu_mhz: a key or a value that cannot be read leaves 0, for which the
\* default is taken, as for a 0 that was read.
Rate(read) == IF read = 0 THEN DefaultRate ELSE read

\* saturating_mul.
InHertz(rate) ==
  LET largest == 2^FreqBits - 1
  IN  IF rate * Million > largest THEN largest ELSE rate * Million

Clock ==
  /\ pc = "clock"
  /\ \E read \in Rates \cup {0} : mhz' = Rate(read)
  /\ freq' = [low |-> InHertz(mhz'), high |-> 0]
  /\ pc' = "done"
  /\ UNCHANGED <<osVars, affinityVars, mask, logical, physical, changed>>

TopologyStep == Query \/ Probe \/ Restore \/ Count \/ Clock

\* Another program changes the process's affinity, as long as that matters here;
\* a thread keeps what it may.
ChangeAffinity ==
  /\ pc \in {"query", "probe", "count"}
  /\ \E cpus \in (SUBSET system) \ {{}, process} :
       /\ process' = cpus
       /\ thread' = IF thread \cap cpus = {} THEN cpus ELSE thread \cap cpus
  /\ changed' = (changed \/ pc # "query")
  /\ UNCHANGED <<system, affinityVars, mask, logical, physical, clockVars, pc>>

CpuInit ==
  /\ system \in (SUBSET Cpu) \ {{}}
  /\ process \in (SUBSET system) \ {{}}
  /\ thread \in (SUBSET process) \ {{}}
  /\ systemAffinity = {}
  /\ processAffinity = {}
  /\ mask = {0}
  /\ logical = 0
  /\ physical = 0
  /\ mhz = 0
  /\ freq = [low |-> 0, high |-> 0]
  /\ pc = "query"
  /\ changed = FALSE

CpuNext == TopologyStep \/ ChangeAffinity

CpuSpec == CpuInit /\ [][CpuNext]_cpuVars /\ WF_cpuVars(TopologyStep)
-----------------------------------------------------------------------------
(* Properties. *)

\* The count is the number of processors the process may use, neither cut short
\* at a processor it may not use nor run past the last; there is always at least
\* one logical and one physical processor (cpu.rs:138-145).
ProcessorsCounted ==
  pc = "done" =>
    /\ logical >= 1
    /\ physical \in 1..logical
    /\ 2 * physical >= logical
    /\ systemAffinity # {} /\ ~changed => logical = Cardinality(process)

\* The thread does not stay pinned to the last processor it was moved to: it may
\* use all of its process's, unless their set was changed after the code had
\* asked for it, which may leave the thread where the loop has put it.  That
\* holds also of a thread the game itself had pinned to some of them.
ThreadReleased ==
  pc = "done" /\ systemAffinity # {} /\ ~changed => thread = process

\* The loop ends, also when the last bit of the word is a processor (cpu.rs:115:
\* "Key fix").
DetectionEnds == <>(pc = "done")

\* "cpu_freq_low (MHz * 1000000)" (cpu.rs:6 and 59), with cpu_freq_high next to
\* it: the two words hold the clock rate in Hz.
FrequencyInHertz ==
  pc = "done" => freq.low + freq.high * 2^FreqBits = mhz * Million
=============================================================================
