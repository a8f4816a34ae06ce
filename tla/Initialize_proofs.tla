--------------------------- MODULE Initialize_proofs ---------------------------
(***************************************************************************)
(* Proofs about initialize, for paths of any length, any set of options    *)
(* and any file.                                                           *)
(***************************************************************************)
EXTENDS Initialize, TLAPS

Sources == {"none", "Loaded", "PathUnavailable", "MissingUsingDefaults",
            "ReadFailedUsingDefaults"}

TypeOK ==
  /\ path \in PathLengths
  /\ capacity \in Nat
  /\ pathStep \in {"call", "done"}
  /\ pathLength \in Nat
  /\ file \in Seq(Line)
  /\ pc \in {"load", "parse", "done"}
  /\ source \in Sources
  /\ next \in Nat
  /\ inPatches \in BOOLEAN
  /\ config \in [Option -> BOOLEAN]
  /\ warnings \in Seq(Nat)
  /\ stage \in {"config", "build", "report", "log", "done"}
  /\ own \in PathLengths \ {0}
  /\ whose \in {"dll", "dunia"}
  /\ build \in Builds \cup {"none"}
  /\ told \subseteq {"report", "complaint"}
  /\ log \in {"none", "dll", "dunia", "exe", "nowhere", "failed"}
  /\ missed \subseteq {"config", "log"}

\* The buffer has room for the shortest path and is never larger than the
\* longest; a path that was returned is the whole of one.
PathInv == capacity \in First..Limit /\ PathWhole

\* What parse has done before the next line.
Settled(o) ==
  \/ /\ config[o] = Default[o]
     /\ \A i \in 1..(next - 1), b \in BOOLEAN : ~Switches(i, o, b)
  \/ \E i \in 1..(next - 1) :
       /\ Switches(i, o, config[o])
       /\ \A j \in (i + 1)..(next - 1), b \in BOOLEAN : ~Switches(j, o, b)

WarnedBefore ==
  /\ \A i \in 1..(next - 1) :
       Counts(i) /\ Warned(file[i])
         <=> \E k \in DOMAIN warnings : warnings[k] = i
  /\ \A k \in DOMAIN warnings : warnings[k] \in 1..(next - 1)
  /\ \A k, m \in DOMAIN warnings : k < m => warnings[k] < warnings[m]

ParseInv ==
  /\ next \in 1..(Len(file) + 1)
  /\ pc = "parse" => source = "Loaded" /\ (inPatches <=> Counts(next))
  /\ pc = "load" => inPatches /\ source = "none"
  /\ source # "Loaded" => file = <<>>
  /\ pc = "done" => next = Len(file) + 1
  /\ \A o \in Option : Settled(o)
  /\ WarnedBefore

\* What Windows answers when the DLL's own path is wanted for w.
Answer(w) == IF w \in missed THEN 0 ELSE own

\* A path that Windows answers with is one that module_path returns.
Found(w) == Answer(w) \in 1..(Limit - 1)

\* module_path is asked for the DLL's own path first and last, and for each
\* purpose what comes of it depends on the answer to that call alone.
OwnInv ==
  /\ stage = "config" => whose = "dll" /\ path = Answer("config")
  /\ stage = "log"    => whose = "dll" /\ path = Answer("log")
  /\ stage \in {"config", "build", "report"} => "log" \notin missed
  /\ stage # "config" => pc = "done"
  /\ pc # "load" => (source = "PathUnavailable" <=> ~Found("config"))
  /\ log # "dunia"
  /\ log = "dll" => Found("log")
  /\ log \in {"exe", "nowhere"} => ~Found("log")
  /\ log # "none" => stage = "done"

InitializeInv == PathInv /\ ParseInv /\ OwnInv
-----------------------------------------------------------------------------
(* The path. *)

\* A buffer that is filled is too small, and one that cannot be filled by the
\* longest path is the last.
LEMMA PathPreserved ==
  ASSUME TypeOK, PathInv, PathNext
  PROVE  PathInv' /\ path' = path /\ capacity' \in Nat /\ pathLength' \in Nat
         /\ pathStep' \in {"call", "done"}
<1>0. First \in Nat /\ Limit \in Nat /\ 0 < First /\ First <= Limit
  BY DEF First, Limit
<1>1. /\ path \in Nat /\ capacity \in Nat /\ pathLength \in Nat
      /\ First <= capacity /\ capacity <= Limit
  BY <1>0, PathLengthsAssumption DEF TypeOK, PathInv
<1>2. pathStep = "call"
  BY DEF PathNext, Fail, Fits, TooLong, Grow, Cut
<1> DEFINE n == GetModuleFileName(capacity)
<1>3. n \in Nat /\ n = IF path < capacity THEN path ELSE capacity
  BY <1>1 DEF GetModuleFileName
<1> HIDE DEF n
<1>4. CASE Fail \/ Fits \/ TooLong
  <2>1. UNCHANGED <<path, capacity>> /\ pathStep' = "done"
    BY <1>4 DEF Fail, Fits, TooLong, Done
  <2>2. \/ n = 0 /\ pathLength' = 0
        \/ n # 0 /\ n < capacity /\ pathLength' = n
        \/ ~(n < capacity) /\ capacity >= Limit /\ pathLength' = 0
    BY <1>4 DEF Fail, Fits, TooLong, Done, Cut, Last, Whole, n
  <2>3. /\ path \in 1..(Limit - 1) => pathLength' = path
        /\ path \notin 1..(Limit - 1) => pathLength' = 0
    BY <1>0, <1>1, <1>3, <2>2
  <2>4. capacity' \in First..Limit
    BY <1>0, <1>1, <2>1
  <2>5. PathWhole'
    BY <2>1, <2>3 DEF PathWhole
  <2> QED BY <1>1, <1>3, <2>1, <2>2, <2>4, <2>5 DEF PathInv
<1>5. CASE Grow
  <2>1. /\ capacity' = (IF capacity * 2 < Limit THEN capacity * 2 ELSE Limit)
        /\ UNCHANGED <<path, pathStep, pathLength>>
    BY <1>5 DEF Grow, Least
  <2>2. capacity' \in Nat /\ First <= capacity' /\ capacity' <= Limit
    BY <1>0, <1>1, <2>1
  <2>3. capacity' \in First..Limit
    BY <1>0, <2>2
  <2>4. PathWhole'
    BY <1>2, <2>1 DEF PathWhole
  <2> QED BY <1>1, <1>2, <2>1, <2>2, <2>3, <2>4 DEF PathInv
<1> QED BY <1>4, <1>5 DEF PathNext
-----------------------------------------------------------------------------
(* The file. *)

\* A header decides what the lines behind it are worth; no other line does.
LEMMA CountsNext ==
  ASSUME TypeOK, next \in DOMAIN file
  PROVE  Counts(next + 1) <=> IF file[next].kind = "header"
                                THEN file[next].patches ELSE Counts(next)
<1>1. next \in Nat \ {0}
  BY DEF TypeOK
<1>2. 1..next = (1..(next - 1)) \cup {next}
  BY <1>1
<1>3. CASE file[next].kind = "header" /\ file[next].patches
  <2>1. \A h \in 1..(next - 1) : next \in (h + 1)..next
    BY <1>1
  <2> QED BY <1>1, <1>2, <1>3, <2>1 DEF Counts
<1>4. CASE file[next].kind = "header" /\ ~file[next].patches
  <2>1. (next + 1)..next = {}
    BY <1>1
  <2>2. (next + 1) - 1 = next /\ next \in 1..next
    BY <1>1
  <2> QED BY <1>4, <2>1, <2>2 DEF Counts
<1>5. CASE file[next].kind # "header"
  <2>1. \A h \in 1..(next - 1) :
          (h + 1)..next = ((h + 1)..(next - 1)) \cup {next}
    BY <1>1
  <2>2. (next + 1) - 1 = next
    BY <1>1
  <2> QED BY <1>2, <1>5, <2>1, <2>2 DEF Counts
<1> QED BY <1>3, <1>4, <1>5

\* What a line switches.
LEMMA WhatSwitches ==
  ASSUME TypeOK, NEW i \in DOMAIN file, NEW o \in Option, NEW b \in BOOLEAN
  PROVE  Switches(i, o, b) <=>
           /\ Counts(i)
           /\ file[i].kind = "entry" /\ file[i].key = o
           /\ file[i].value # "invalid" /\ b = (file[i].value = "true")
<1>1. file[i] \in Line
  BY DEF TypeOK
<1>2. file[i].kind = "entry" => file[i] \in Entry
  BY <1>1 DEF Line, Header, Entry
<1>3. file[i].kind = "entry" =>
        /\ file[i].value \in Values
        /\ file[i] = [kind |-> "entry", key |-> file[i].key,
                      value |-> file[i].value]
  BY <1>2 DEF Entry
<1> DEFINE said == [kind |-> "entry", key |-> o,
                    value |-> IF b THEN "true" ELSE "false"]
<1>4. /\ said.kind = "entry" /\ said.key = o
      /\ said.value = IF b THEN "true" ELSE "false"
  OBVIOUS
<1>5. file[i] = said <=> /\ file[i].kind = "entry" /\ file[i].key = o
                         /\ file[i].value = IF b THEN "true" ELSE "false"
  BY <1>3, <1>4
<1>6. file[i].kind = "entry" =>
        (file[i].value = (IF b THEN "true" ELSE "false")
           <=> file[i].value # "invalid" /\ b = (file[i].value = "true"))
  BY <1>3 DEF Values
<1>7. Switches(i, o, b) <=> Counts(i) /\ file[i] = said
  BY DEF Switches
<1> HIDE DEF said
<1> QED BY <1>5, <1>6, <1>7

\* No line is skipped and none is read twice; a line changes the value of its
\* option or is warned of, and only if it counts.
LEMMA LinePreserved ==
  ASSUME TypeOK, ParseInv, ParseLine
  PROVE  ParseInv'
<1> DEFINE l == file[next]
<1>1. /\ pc = "parse" /\ next \in DOMAIN file /\ next' = next + 1
      /\ UNCHANGED <<file, pc, source>>
      /\ Skip(l) \/ Section(l) \/ OtherSection(l) \/ Warn(l) \/ Set(l)
  BY DEF ParseLine, Round
<1>2. /\ next \in Nat /\ next \in 1..Len(file) /\ source = "Loaded"
      /\ inPatches <=> Counts(next)
  BY <1>1 DEF ParseInv, TypeOK
<1>3. /\ l.kind \in {"entry", "header", "skip", "malformed"}
      /\ l.kind = "entry" => l.key \in Keys /\ l.value \in Values
      /\ l.kind = "header" => l.patches \in BOOLEAN
  <2>1. l \in Line
    BY <1>1 DEF TypeOK
  <2> QED BY <2>1 DEF Line, Entry, Header
<1>4. \A i, o, b : Switches(i, o, b)' <=> Switches(i, o, b)
  BY <1>1 DEF Switches, Counts
<1>5. \A i : Counts(i)' <=> Counts(i)
  BY <1>1 DEF Counts
<1>6. inPatches' <=> Counts(next + 1)
  <2>1. l.kind = "header" => inPatches' = l.patches
    BY <1>1 DEF Skip, Section, OtherSection, Warn, Set, Warned
  <2>2. l.kind # "header" => inPatches' = inPatches
    BY <1>1 DEF Skip, Section, OtherSection, Warn, Set
  <2> QED BY <1>1, <1>2, <2>1, <2>2, CountsNext
<1>7. \A o \in Option :
        \/ Switches(next, o, config'[o])
        \/ config'[o] = config[o] /\ \A b \in BOOLEAN : ~Switches(next, o, b)
  <2>1. CASE Set(l)
    <3>1. /\ Counts(next) /\ l.kind = "entry" /\ l.key \in Option
          /\ l.value # "invalid"
          /\ config' = [config EXCEPT ![l.key] = (l.value = "true")]
      BY <1>2, <2>1 DEF Set
    <3>2. \A o \in Option \ {l.key} : config'[o] = config[o]
      BY <3>1 DEF TypeOK
    <3>3. config'[l.key] = (l.value = "true")
      BY <3>1 DEF TypeOK
    <3>4. Switches(next, l.key, (l.value = "true"))
      BY <1>1, <3>1, WhatSwitches
    <3>5. \A o \in Option \ {l.key}, b \in BOOLEAN : ~Switches(next, o, b)
      BY <1>1, WhatSwitches
    <3> QED BY <3>2, <3>3, <3>4, <3>5
  <2>2. CASE Skip(l) \/ Section(l) \/ OtherSection(l) \/ Warn(l)
    <3>1. config' = config
      BY <2>2 DEF Skip, Section, OtherSection, Warn
    <3>2. \/ ~Counts(next) \/ l.kind # "entry"
          \/ l.value = "invalid" \/ l.key \notin Option
      BY <1>2, <2>2, OptionAssumption
         DEF Skip, Section, OtherSection, Warn, Warned
    <3>3. \A o \in Option, b \in BOOLEAN : ~Switches(next, o, b)
      BY <1>1, <3>2, WhatSwitches
    <3> QED BY <3>1, <3>3
  <2> QED BY <1>1, <2>1, <2>2
<1>8. /\ Counts(next) /\ Warned(l) => warnings' = Append(warnings, next)
      /\ ~(Counts(next) /\ Warned(l)) => warnings' = warnings
  BY <1>1, <1>2, <1>3, OptionAssumption
     DEF Skip, Section, OtherSection, Warn, Set, Warned, Keys
<1>9. next' - 1 = next /\ 1..next = (1..(next - 1)) \cup {next}
  BY <1>1, <1>2
<1>10. ASSUME NEW o \in Option PROVE Settled(o)'
  <2>1. CASE Switches(next, o, config'[o])
    <3>1. (next + 1)..next = {}
      BY <1>2
    <3> QED BY <1>4, <1>9, <2>1, <3>1 DEF Settled
  <2>2. CASE /\ config'[o] = config[o]
             /\ \A b \in BOOLEAN : ~Switches(next, o, b)
    <3>1. CASE /\ config[o] = Default[o]
               /\ \A i \in 1..(next - 1), b \in BOOLEAN : ~Switches(i, o, b)
      <4>1. \A i \in 1..next, b \in BOOLEAN : ~Switches(i, o, b)
        BY <1>9, <2>2, <3>1
      <4> QED BY <1>4, <1>9, <2>2, <3>1, <4>1 DEF Settled
    <3>2. ASSUME NEW i \in 1..(next - 1), Switches(i, o, config[o]),
                 \A j \in (i + 1)..(next - 1), b \in BOOLEAN :
                   ~Switches(j, o, b)
          PROVE  Settled(o)'
      <4>1. (i + 1)..next = ((i + 1)..(next - 1)) \cup {next} /\ i \in 1..next
        BY <1>2, <3>2
      <4>2. \A j \in (i + 1)..next, b \in BOOLEAN : ~Switches(j, o, b)
        BY <2>2, <3>2, <4>1
      <4> QED BY <1>4, <1>9, <2>2, <3>2, <4>1, <4>2 DEF Settled
    <3> QED BY <3>1, <3>2 DEF ParseInv, Settled
  <2> QED BY <1>7, <2>1, <2>2
<1>11. WarnedBefore'
  <2>1. /\ \A i \in 1..(next - 1) :
             Counts(i) /\ Warned(file[i])
               <=> \E k \in DOMAIN warnings : warnings[k] = i
        /\ \A k \in DOMAIN warnings : warnings[k] \in 1..(next - 1)
        /\ \A k, m \in DOMAIN warnings : k < m => warnings[k] < warnings[m]
        /\ warnings \in Seq(Nat)
    BY DEF ParseInv, WarnedBefore, TypeOK
  <2>2. SUFFICES
          /\ \A i \in 1..next :
               Counts(i) /\ Warned(file[i])
                 <=> \E k \in DOMAIN warnings' : warnings'[k] = i
          /\ \A k \in DOMAIN warnings' : warnings'[k] \in 1..next
          /\ \A k, m \in DOMAIN warnings' :
               k < m => warnings'[k] < warnings'[m]
    BY <1>1, <1>5, <1>9 DEF WarnedBefore
  <2>3. CASE Counts(next) /\ Warned(l)
    <3>1. /\ warnings' = Append(warnings, next)
          /\ DOMAIN warnings = 1..Len(warnings) /\ Len(warnings) \in Nat
          /\ DOMAIN warnings' = 1..(Len(warnings) + 1)
          /\ warnings'[Len(warnings) + 1] = next
          /\ \A k \in 1..Len(warnings) : warnings'[k] = warnings[k]
      <4>1. warnings' = Append(warnings, next)
        BY <1>8, <2>3
      <4>2. warnings \in Seq(Nat) /\ next \in Nat
        BY <1>2, <2>1
      <4> QED BY <4>1, <4>2
    <3>2. \A k \in 1..Len(warnings) : warnings[k] \in 1..(next - 1)
      BY <2>1, <3>1
    <3>3. \A k \in DOMAIN warnings' :
            k \in 1..Len(warnings) \/ k = Len(warnings) + 1
      BY <3>1
    <3>4. \A i \in 1..(next - 1) :
            (\E k \in DOMAIN warnings' : warnings'[k] = i)
              <=> \E k \in DOMAIN warnings : warnings[k] = i
      BY <1>2, <3>1, <3>3
    <3>5. \E k \in DOMAIN warnings' : warnings'[k] = next
      BY <3>1
    <3>6. \A k, m \in DOMAIN warnings' :
            k < m => warnings'[k] < warnings'[m]
      <4> SUFFICES ASSUME NEW k \in DOMAIN warnings',
                          NEW m \in DOMAIN warnings', k < m
                   PROVE  warnings'[k] < warnings'[m]
        OBVIOUS
      <4>1. k \in 1..Len(warnings)
        BY <3>1
      <4>2. warnings'[k] = warnings[k] /\ warnings[k] \in 1..(next - 1)
        BY <3>1, <3>2, <4>1
      <4>3. CASE m = Len(warnings) + 1
        BY <1>2, <3>1, <4>2, <4>3
      <4>4. CASE m \in 1..Len(warnings)
        BY <2>1, <3>1, <4>1, <4>4
      <4> QED BY <3>3, <4>3, <4>4
    <3>7. \A k \in DOMAIN warnings' : warnings'[k] \in 1..next
      BY <1>2, <3>1, <3>2, <3>3
    <3>8. \A i \in 1..next : Counts(i) /\ Warned(file[i])
            <=> \E k \in DOMAIN warnings' : warnings'[k] = i
      BY <1>9, <2>1, <2>3, <3>4, <3>5
    <3> QED BY <3>6, <3>7, <3>8
  <2>4. CASE ~(Counts(next) /\ Warned(l))
    <3>1. warnings' = warnings
      BY <1>8, <2>4
    <3>2. ~\E k \in DOMAIN warnings : warnings[k] = next
      BY <1>2, <2>1
    <3>3. \A k \in DOMAIN warnings : warnings[k] \in 1..next
      BY <1>9, <2>1
    <3> QED BY <1>9, <2>1, <2>4, <3>1, <3>2, <3>3
  <2> QED BY <2>3, <2>4
<1>12. next' \in 1..(Len(file) + 1)
  BY <1>1, <1>2
<1> QED BY <1>1, <1>2, <1>6, <1>10, <1>11, <1>12 DEF ParseInv, Counts

\* The other steps of the parser.
LEMMA ParsePreserved ==
  ASSUME TypeOK, ParseInv, ParseNext
  PROVE  ParseInv'
<1>1. CASE Missing
  <2>1. /\ pc = "load" /\ pc' = "done" /\ source' # "Loaded"
        /\ UNCHANGED <<file, next, inPatches, config, warnings>>
    BY <1>1 DEF Missing
  <2>2. file = <<>> /\ Len(file) = 0 /\ next = 1
    BY <2>1 DEF ParseInv, TypeOK
  <2>3. (\A o \in Option : Settled(o))' /\ WarnedBefore'
    BY <2>1 DEF ParseInv, Settled, WarnedBefore, Switches, Counts
  <2>4. next' \in 1..(Len(file') + 1) /\ next' = Len(file') + 1
    BY <2>1, <2>2
  <2> QED BY <2>1, <2>2, <2>3, <2>4 DEF ParseInv
<1>2. CASE Read
  <2>1. /\ pc = "load" /\ pc' = "parse" /\ source' = "Loaded"
        /\ UNCHANGED <<next, inPatches, config, warnings>>
        /\ file' \in Files
    BY <1>2 DEF Read
  <2>2. next = 1 /\ inPatches
    <3>1. file = <<>> /\ Len(file) = 0
      BY <2>1 DEF ParseInv
    <3> QED BY <2>1, <3>1 DEF ParseInv
  <2>3. 1..(next - 1) = {}
    BY <2>2
  <2>4. (\A o \in Option : Settled(o))' /\ WarnedBefore'
    BY <2>1, <2>3 DEF ParseInv, Settled, WarnedBefore
  <2>5. next' \in 1..(Len(file') + 1)
    <3>1. file' \in Seq(Line)
      BY <2>1, FilesAssumption
    <3>2. Len(file') \in Nat
      BY <3>1
    <3> QED BY <2>1, <2>2, <3>2
  <2>6. Counts(next)'
    BY <2>1, <2>3 DEF Counts
  <2> QED BY <2>1, <2>2, <2>4, <2>5, <2>6 DEF ParseInv
<1>3. CASE ParseLine
  BY <1>3, LinePreserved
<1>4. CASE EndOfFile
  <2>1. /\ pc = "parse" /\ pc' = "done" /\ next \notin DOMAIN file
        /\ UNCHANGED <<file, source, next, inPatches, config, warnings>>
    BY <1>4 DEF EndOfFile
  <2>2. next = Len(file) + 1
    BY <2>1 DEF ParseInv, TypeOK
  <2>3. (\A o \in Option : Settled(o))' /\ WarnedBefore'
    BY <2>1 DEF ParseInv, Settled, WarnedBefore, Switches, Counts
  <2> QED BY <2>1, <2>2, <2>3 DEF ParseInv
<1> QED BY <1>1, <1>2, <1>3, <1>4 DEF ParseNext

\* What leaves the parser alone leaves what it has done as it is.
LEMMA ParseStays == ParseInv /\ UNCHANGED parseVars => ParseInv'
BY DEF parseVars, ParseInv, Settled, WarnedBefore, Switches, Counts

\* The parser keeps its types.
LEMMA ParseTypes ==
  ASSUME TypeOK, ParseNext
  PROVE  /\ file' \in Seq(Line)
         /\ pc' \in {"load", "parse", "done"}
         /\ source' \in Sources \ {"PathUnavailable"}
              \/ source' = source
         /\ next' \in Nat
         /\ inPatches' \in BOOLEAN
         /\ config' \in [Option -> BOOLEAN]
         /\ warnings' \in Seq(Nat)
<1>1. CASE Missing \/ EndOfFile
  BY <1>1 DEF TypeOK, Missing, EndOfFile, Sources
<1>2. CASE Read
  BY <1>2, FilesAssumption DEF TypeOK, Read, Sources
<1>3. CASE ParseLine
  <2> DEFINE l == file[next]
  <2>1. /\ pc = "parse" /\ next \in DOMAIN file /\ next' = next + 1
        /\ UNCHANGED <<file, pc, source>>
        /\ Skip(l) \/ Section(l) \/ OtherSection(l) \/ Warn(l) \/ Set(l)
    BY <1>3 DEF ParseLine, Round
  <2>2. l.kind = "header" => l.patches \in BOOLEAN
    <3>1. l \in Line
      BY <2>1 DEF TypeOK
    <3> QED BY <3>1 DEF Line, Entry, Header
  <2>3. inPatches' \in BOOLEAN
    BY <2>1, <2>2 DEF TypeOK, Skip, Section, OtherSection, Warn, Set
  <2>4. warnings' \in Seq(Nat)
    <3>1. warnings' = warnings \/ warnings' = Append(warnings, next)
      BY <2>1 DEF Skip, Section, OtherSection, Warn, Set
    <3>2. warnings \in Seq(Nat) /\ next \in Nat
      BY DEF TypeOK
    <3> QED BY <3>1, <3>2
  <2>5. config' \in [Option -> BOOLEAN]
    BY <2>1 DEF TypeOK, Skip, Section, OtherSection, Warn, Set
  <2> QED BY <2>1, <2>3, <2>4, <2>5 DEF TypeOK
<1> QED BY <1>1, <1>2, <1>3 DEF ParseNext
-----------------------------------------------------------------------------
(* Initialization. *)

\* Every step keeps the types.
LEMMA TypePreserved ==
  TypeOK /\ PathInv /\ [InitializeNext]_initVars => TypeOK'
<1> SUFFICES ASSUME TypeOK, PathInv, [InitializeNext]_initVars PROVE TypeOK'
  OBVIOUS
<1> USE DEF ownVars, loadVars, pathVars, parseVars
<1>1. CASE LoadPatchConfig
  <2>1. UNCHANGED ownVars
    BY <1>1 DEF LoadPatchConfig
  <2>2. CASE FindPath
    <3>1. PathNext /\ UNCHANGED parseVars
      BY <2>2 DEF FindPath
    <3>2. path' = path /\ capacity' \in Nat /\ pathLength' \in Nat
          /\ pathStep' \in {"call", "done"}
      BY <3>1, PathPreserved
    <3> QED BY <2>1, <3>1, <3>2 DEF TypeOK
  <2>3. CASE NoPath
    BY <2>1, <2>3 DEF TypeOK, NoPath, Sources
  <2>4. CASE LoadFile
    <3>1. ParseNext /\ UNCHANGED pathVars
      BY <2>4 DEF LoadFile
    <3>2. /\ file' \in Seq(Line)
          /\ pc' \in {"load", "parse", "done"}
          /\ source' \in Sources
          /\ next' \in Nat
          /\ inPatches' \in BOOLEAN
          /\ config' \in [Option -> BOOLEAN]
          /\ warnings' \in Seq(Nat)
      <4>1. source \in Sources
        BY DEF TypeOK
      <4> QED BY <3>1, <4>1, ParseTypes
    <3> QED BY <2>1, <3>1, <3>2 DEF TypeOK
  <2> QED BY <1>1, <2>2, <2>3, <2>4 DEF LoadPatchConfig, LoadNext
<1>2. CASE NoDunia \/ DetectBuild
  <2>1. UNCHANGED <<loadVars, own, whose, told, log, missed>>
        /\ stage' \in {"build", "report"}
    BY <1>2 DEF NoDunia, DetectBuild
  <2>2. build' \in Builds \cup {"none"}
    BY <1>2 DEF TypeOK, NoDunia, DetectBuild, Builds
  <2> QED BY <2>1, <2>2 DEF TypeOK
<1>3. CASE FoundDunia \/ ReportToDebugger
  <2>1. \E m \in {"dll", "dunia"}, n \in PathLengths : AskPath(m, n)
    BY <1>3, NoPathAssumption
       DEF FoundDunia, ReportToDebugger, OwnAnswers, TypeOK
  <2>2. path' \in PathLengths /\ capacity' \in Nat /\ pathStep' = "call"
        /\ pathLength' \in Nat /\ whose' \in {"dll", "dunia"}
    BY <2>1 DEF AskPath, First
  <2>3. told' \subseteq {"report", "complaint"} /\ stage' \in {"build", "log"}
    BY <1>3 DEF TypeOK, FoundDunia, ReportToDebugger
  <2>4. UNCHANGED <<parseVars, own, build, log>>
    BY <1>3 DEF FoundDunia, ReportToDebugger
  <2>5. missed' \subseteq {"config", "log"}
    BY <1>3 DEF TypeOK, FoundDunia, ReportToDebugger, Missed
  <2> QED BY <2>2, <2>3, <2>4, <2>5 DEF TypeOK
<1>4. CASE FollowPath
  <2>1. PathNext /\ UNCHANGED <<parseVars, ownVars>>
    BY <1>4 DEF FollowPath
  <2>2. path' = path /\ capacity' \in Nat /\ pathLength' \in Nat
        /\ pathStep' \in {"call", "done"}
    BY <2>1, PathPreserved
  <2> QED BY <2>1, <2>2 DEF TypeOK
<1>5. CASE WriteLog
  <2>1. told' \subseteq {"report", "complaint"}
    BY <1>5 DEF TypeOK, WriteLog
  <2>2. log' \in {"none", "dll", "dunia", "exe", "nowhere", "failed"}
        /\ stage' = "done" /\ UNCHANGED <<loadVars, own, whose, build, missed>>
    BY <1>5 DEF WriteLog, Directories, TypeOK
  <2> QED BY <2>1, <2>2 DEF TypeOK
<1>6. CASE UNCHANGED initVars
  BY <1>6 DEF TypeOK, initVars
<1> QED BY <1>1, <1>2, <1>3, <1>4, <1>5, <1>6 DEF InitializeNext

\* The path that module_path was asked for last is whole, or there is none.
LEMMA PathStays ==
  TypeOK /\ PathInv /\ [InitializeNext]_initVars => PathInv'
<1> SUFFICES ASSUME TypeOK, PathInv, [InitializeNext]_initVars PROVE PathInv'
  OBVIOUS
<1> USE DEF ownVars, loadVars, pathVars
<1>1. CASE PathNext
  BY <1>1, PathPreserved
<1>2. CASE UNCHANGED pathVars
  BY <1>2 DEF PathInv, PathWhole
<1>3. ASSUME NEW m, NEW n, AskPath(m, n) PROVE PathInv'
  <2>1. capacity' = First /\ pathStep' = "call"
    BY <1>3 DEF AskPath
  <2>2. First \in First..Limit
    BY DEF First, Limit
  <2> QED BY <2>1, <2>2 DEF PathInv, PathWhole
<1>4. PathNext \/ UNCHANGED pathVars \/ \E m, n : AskPath(m, n)
  BY DEF InitializeNext, LoadPatchConfig, LoadNext, FindPath, NoPath, LoadFile,
     NoDunia, FoundDunia, FollowPath, DetectBuild, ReportToDebugger, WriteLog,
     initVars
<1> QED BY <1>1, <1>2, <1>3, <1>4

\* Whatever is asked for afterwards, the configuration stays as it was parsed.
LEMMA ConfigStays ==
  TypeOK /\ ParseInv /\ [InitializeNext]_initVars => ParseInv'
<1> SUFFICES ASSUME TypeOK, ParseInv, [InitializeNext]_initVars
             PROVE  ParseInv'
  OBVIOUS
<1>1. CASE ParseNext
  BY <1>1, ParsePreserved
<1>2. CASE UNCHANGED parseVars
  BY <1>2, ParseStays
<1>3. CASE NoPath
  <2>1. /\ pc = "load" /\ pc' = "done" /\ source' = "PathUnavailable"
        /\ UNCHANGED <<file, next, inPatches, config, warnings>>
    BY <1>3 DEF NoPath
  <2>2. file = <<>> /\ Len(file) = 0 /\ next = 1
    BY <2>1 DEF ParseInv, TypeOK
  <2>3. (\A o \in Option : Settled(o))' /\ WarnedBefore'
    BY <2>1 DEF ParseInv, Settled, WarnedBefore, Switches, Counts
  <2>4. next' \in 1..(Len(file') + 1) /\ next' = Len(file') + 1
    BY <2>1, <2>2
  <2> QED BY <2>1, <2>2, <2>3, <2>4 DEF ParseInv
<1>4. ParseNext \/ UNCHANGED parseVars \/ NoPath
  BY DEF InitializeNext, LoadPatchConfig, LoadNext, FindPath, LoadFile,
     NoDunia, FoundDunia, FollowPath, DetectBuild, ReportToDebugger, WriteLog,
     initVars, loadVars, ownVars
<1> QED BY <1>1, <1>2, <1>3, <1>4

\* What comes of the configuration and of the log goes with the answer each got.
LEMMA OwnStays ==
  TypeOK /\ PathInv /\ ParseInv /\ OwnInv /\ [InitializeNext]_initVars
    => OwnInv'
<1> SUFFICES ASSUME TypeOK, PathInv, ParseInv, OwnInv,
                    [InitializeNext]_initVars
             PROVE  OwnInv'
  OBVIOUS
<1>1. pathStep = "done" => (pathLength # 0 <=> path \in 1..(Limit - 1))
  BY DEF PathInv, PathWhole
<1> USE DEF ownVars, loadVars, pathVars, parseVars
<1>2. ASSUME UNCHANGED <<own, missed>>
      PROVE  \A w : Answer(w)' = Answer(w) /\ (Found(w)' <=> Found(w))
  BY <1>2 DEF Answer, Found
<1>3. CASE LoadPatchConfig
  <2>1. stage = "config" /\ UNCHANGED ownVars /\ path = Answer("config")
    BY <1>3 DEF LoadPatchConfig, OwnInv
  <2>2. path' = path
    BY <1>3, PathPreserved
       DEF LoadPatchConfig, LoadNext, FindPath, NoPath, LoadFile
  <2>3. \A w : Answer(w)' = Answer(w) /\ (Found(w)' <=> Found(w))
    BY <1>2, <2>1
  <2>4. CASE FindPath
    BY <2>1, <2>2, <2>3, <2>4 DEF FindPath, OwnInv
  <2>5. CASE NoPath
    <3>1. ~Found("config") /\ source' = "PathUnavailable" /\ pc' = "done"
      BY <1>1, <2>1, <2>5 DEF NoPath, Found
    <3> QED BY <2>1, <2>2, <2>3, <3>1 DEF OwnInv
  <2>6. CASE LoadFile
    <3>1. Found("config") /\ pc \in {"load", "parse"}
      BY <1>1, <2>1, <2>6 DEF LoadFile, ParseNext, Missing, Read, ParseLine,
         Round, EndOfFile, Found
    <3>2. source # "PathUnavailable"
      BY <3>1 DEF ParseInv
    <3>3. source' # "PathUnavailable"
      BY <2>6, <3>2, ParseTypes DEF LoadFile
    <3> QED BY <2>1, <2>2, <2>3, <3>1, <3>3 DEF OwnInv
  <2> QED BY <1>3, <2>4, <2>5, <2>6 DEF LoadPatchConfig, LoadNext
<1>4. CASE NoDunia
  BY <1>4, <1>2 DEF NoDunia, OwnInv
<1>5. CASE FoundDunia
  BY <1>5, <1>2 DEF FoundDunia, OwnInv
<1>6. CASE FollowPath
  <2>1. path' = path /\ UNCHANGED <<parseVars, ownVars>>
    BY <1>6, PathPreserved DEF FollowPath
  <2> QED BY <1>2, <2>1 DEF OwnInv
<1>7. CASE DetectBuild
  BY <1>7, <1>2 DEF DetectBuild, OwnInv
<1>8. CASE ReportToDebugger
  <2>1. PICK n \in OwnAnswers :
          AskPath("dll", n) /\ missed' = missed \cup Missed(n, "log")
    BY <1>8 DEF ReportToDebugger
  <2>2. /\ stage = "report" /\ stage' = "log"
        /\ UNCHANGED <<parseVars, own, log>>
        /\ whose' = "dll" /\ path' = n
    BY <1>8, <2>1 DEF ReportToDebugger, AskPath
  <2>3. "log" \notin missed /\ own # 0
    BY <2>2 DEF OwnInv, TypeOK
  <2>4. n = Answer("log")'
    BY <2>1, <2>2, <2>3 DEF OwnAnswers, Missed, Answer
  <2>5. Answer("config")' = Answer("config")
    BY <2>1, <2>2 DEF Missed, Answer
  <2>6. log' = "none"
    BY <2>2 DEF OwnInv
  <2> QED BY <2>2, <2>4, <2>5, <2>6 DEF OwnInv, Found
<1>9. CASE WriteLog
  <2>1. stage = "log" /\ path = Answer("log") /\ whose = "dll"
        /\ pathStep = "done" /\ stage' = "done"
        /\ UNCHANGED <<loadVars, own, whose, missed>>
    BY <1>9 DEF WriteLog, OwnInv
  <2>2. /\ log' # "dunia"
        /\ log' = "dll" => Found("log")
        /\ log' \in {"exe", "nowhere"} => ~Found("log")
    BY <1>1, <1>9, <2>1 DEF WriteLog, Directories, Found
  <2> QED BY <1>2, <2>1, <2>2 DEF OwnInv
<1>10. CASE UNCHANGED initVars
  BY <1>10, <1>2 DEF initVars, OwnInv
<1> QED BY <1>3, <1>4, <1>5, <1>6, <1>7, <1>8, <1>9, <1>10 DEF InitializeNext

\* Everything holds when the library is loaded.
LEMMA InitiallyTrue == InitializeInit => TypeOK /\ InitializeInv
<1> SUFFICES ASSUME InitializeInit PROVE TypeOK /\ InitializeInv
  OBVIOUS
<1> USE DEF InitializeInit, LoadInit, PathInit, ParseInit
<1>1. PathInv
  BY DEF PathInv, PathWhole, First, Limit
<1>2. Len(file) = 0 /\ file \in Seq(Line) /\ warnings \in Seq(Nat)
      /\ told \subseteq {"report", "complaint"}
  OBVIOUS
<1>3. TypeOK
  <2>1. capacity \in Nat
    BY DEF First
  <2>2. /\ path \in PathLengths /\ own \in PathLengths /\ pathStep = "call"
        /\ pathLength = 0 /\ pc = "load" /\ source = "none" /\ next = 1
        /\ inPatches = TRUE /\ config \in [Option -> BOOLEAN]
        /\ stage = "config" /\ build = "none" /\ log = "none"
    BY DefaultAssumption
  <2>3. own \in PathLengths \ {0} /\ whose = "dll"
        /\ missed \subseteq {"config", "log"}
    BY DEF Missed
  <2> QED BY <1>2, <2>1, <2>2, <2>3 DEF TypeOK, Sources
<1>4. ParseInv
  <2>1. next = 1 /\ 1..(next - 1) = {} /\ DOMAIN warnings = {}
    OBVIOUS
  <2>2. \A o \in Option : Settled(o)
    BY <2>1 DEF Settled
  <2>3. WarnedBefore
    BY <2>1 DEF WarnedBefore
  <2> QED BY <1>2, <2>1, <2>2, <2>3 DEF ParseInv
<1>5. OwnInv
  BY DEF OwnInv, Answer, OwnAnswers, Missed
<1> QED BY <1>1, <1>3, <1>4, <1>5 DEF InitializeInv

\* The invariant holds of every behaviour.
LEMMA InitializeCorrect == InitializeSpec => [](TypeOK /\ InitializeInv)
<1>1. TypeOK /\ InitializeInv /\ [InitializeNext]_initVars
        => (TypeOK /\ InitializeInv)'
  BY TypePreserved, PathStays, ConfigStays, OwnStays DEF InitializeInv
<1> QED BY InitiallyTrue, <1>1, PTL DEF InitializeSpec
-----------------------------------------------------------------------------
(* What the invariant means for the DLL. *)

\* The fields of initialize keep their types, whatever is missing.
THEOREM TypeCorrect == InitializeSpec => []TypeOK
BY InitializeCorrect, PTL

\* module_path returns a path whole or not at all, for paths of any length.
THEOREM PathWholeHolds == InitializeSpec => []PathWhole
<1>1. InitializeInv => PathWhole
  BY DEF InitializeInv, PathInv
<1> QED BY <1>1, InitializeCorrect, PTL

\* parse gives an option the value of the last line that switches it, in any
\* file.
THEOREM LastLineWinsHolds == InitializeSpec => []LastLineWins
<1>1. ASSUME TypeOK, ParseInv, pc = "done", NEW o \in Option
      PROVE  \/ /\ config[o] = Default[o]
                /\ source = "Loaded" =>
                     \A i \in DOMAIN file, b \in BOOLEAN : ~Switches(i, o, b)
             \/ /\ source = "Loaded"
                /\ \E i \in DOMAIN file :
                     /\ Switches(i, o, config[o])
                     /\ \A j \in (i + 1)..Len(file), b \in BOOLEAN :
                          ~Switches(j, o, b)
  <2>1. next - 1 = Len(file) /\ DOMAIN file = 1..Len(file)
        /\ Len(file) \in Nat
    BY <1>1 DEF TypeOK, ParseInv
  <2>2. source # "Loaded" => Len(file) = 0
    BY <1>1 DEF ParseInv
  <2> QED BY <1>1, <2>1, <2>2 DEF ParseInv, Settled
<1>2. TypeOK /\ InitializeInv => LastLineWins
  BY <1>1 DEF InitializeInv, LastLineWins
<1> QED BY <1>2, InitializeCorrect, PTL

\* parse warns of every line it does not understand in the patches' sections,
\* once and in order, in any file.
THEOREM BadLinesWarnedHolds == InitializeSpec => []BadLinesWarned
<1>1. ASSUME TypeOK, ParseInv, pc = "done" PROVE BadLinesWarned
  <2>1. next - 1 = Len(file) /\ DOMAIN file = 1..Len(file)
    BY <1>1 DEF TypeOK, ParseInv
  <2>2. source # "Loaded" => file = <<>>
    BY <1>1 DEF ParseInv
  <2>3. \A i \in DOMAIN file : source = "Loaded"
    BY <2>2
  <2> QED BY <1>1, <2>1, <2>3 DEF ParseInv, WarnedBefore, BadLinesWarned
<1>2. pc # "done" => BadLinesWarned
  BY DEF BadLinesWarned
<1>3. TypeOK /\ InitializeInv => BadLinesWarned
  BY <1>1, <1>2 DEF InitializeInv
<1> QED BY <1>3, InitializeCorrect, PTL

\* emit_report writes the log into the directory load_patch_config looked into,
\* unless one of their two calls for the DLL's own path failed by itself.
THEOREM LogBesideConfigurationHolds ==
  InitializeSpec => []LogBesideConfiguration
<1>1. TypeOK /\ InitializeInv => LogBesideConfiguration
  <2> SUFFICES ASSUME TypeOK, OwnInv PROVE LogBesideConfiguration
    BY DEF InitializeInv
  <2>1. log # "none" => (source = "PathUnavailable" <=> ~Found("config"))
    BY DEF OwnInv
  <2>2. ASSUME log = "dll", source = "PathUnavailable" PROVE "config" \in missed
    <3>1. Found("log") /\ ~Found("config")
      BY <2>1, <2>2 DEF OwnInv
    <3> QED BY <3>1 DEF Found, Answer
  <2>3. ASSUME log \in {"exe", "nowhere"}, source # "PathUnavailable"
        PROVE  "log" \in missed
    <3>1. ~Found("log") /\ Found("config")
      BY <2>1, <2>3 DEF OwnInv
    <3> QED BY <3>1 DEF Found, Answer
  <2> QED BY <2>2, <2>3 DEF OwnInv, LogBesideConfiguration
<1> QED BY <1>1, InitializeCorrect, PTL
-----------------------------------------------------------------------------
(* The end of the initialization: what InitializationReports needs besides   *)
(* fairness.                                                                 *)

\* A run of initialize that is over has told the debugger, and has written the
\* log, had nowhere to write it to, or has complained.
ReportMade ==
  stage = "done" => /\ "report" \in told
                    /\ log \in {"dll", "exe", "nowhere"} \/ "complaint" \in told

ToldInv ==
  ReportMade /\ (stage = "log" => "report" \in told /\ whose = "dll")

\* No way through initialize leaves the report out.
THEOREM ReportMadeHolds == InitializeSpec => []ReportMade
<1>1. InitializeInit => ToldInv
  BY DEF InitializeInit, ToldInv, ReportMade
<1>2. ToldInv /\ [InitializeNext]_initVars => ToldInv'
  <2> SUFFICES ASSUME ToldInv, [InitializeNext]_initVars PROVE ToldInv'
    OBVIOUS
  <2> USE DEF ToldInv, ReportMade
  <2>1. CASE WriteLog
    <3>1. stage = "log" /\ stage' = "done" /\ "report" \in told
          /\ whose = "dll"
      BY <2>1 DEF WriteLog
    <3>2. \/ log' \in {"dll", "exe", "nowhere"} /\ told' = told
          \/ told' = told \cup {"complaint"}
      BY <2>1, <3>1 DEF WriteLog, Directories
    <3> QED BY <3>1, <3>2
  <2>2. CASE ReportToDebugger
    BY <2>2 DEF ReportToDebugger, AskPath
  <2>3. CASE UNCHANGED ownVars
    BY <2>3 DEF ownVars
  <2>4. CASE NoDunia \/ FoundDunia \/ DetectBuild
    BY <2>4 DEF NoDunia, FoundDunia, DetectBuild
  <2> QED BY <2>1, <2>2, <2>3, <2>4
          DEF InitializeNext, LoadPatchConfig, FollowPath, initVars
<1> QED BY <1>1, <1>2, PTL DEF InitializeSpec, ToldInv

\* How much is left: of initialize, of the search for a path, of the growth of
\* its buffer, of the configuration, and of its file.
StagesLeft ==
  CASE stage = "config" -> 4 [] stage = "build" -> 3 [] stage = "report" -> 2
    [] stage = "log" -> 1 [] OTHER -> 0
PathLeft  == IF pathStep = "call" THEN 1 ELSE 0
RoomLeft  == Limit - capacity
ParseLeft == CASE pc = "load" -> 2 [] pc = "parse" -> 1 [] OTHER -> 0
LinesLeft == Len(file) + 1 - next

LeftInNat ==
  <<StagesLeft, PathLeft, RoomLeft, ParseLeft, LinesLeft>>
    \in Nat \X Nat \X Nat \X Nat \X Nat

\* Less is left: the first of the numbers to change has become smaller.
Shorter ==
  \/ StagesLeft' < StagesLeft
  \/ /\ StagesLeft' = StagesLeft
     /\ \/ PathLeft' < PathLeft
        \/ /\ PathLeft' = PathLeft
           /\ \/ RoomLeft' < RoomLeft
              \/ /\ RoomLeft' = RoomLeft
                 /\ \/ ParseLeft' < ParseLeft
                    \/ ParseLeft' = ParseLeft /\ LinesLeft' < LinesLeft

\* Five natural numbers cannot become less for ever.
LEMMA LeftAreNumbers == TypeOK /\ InitializeInv => LeftInNat
<1> SUFFICES ASSUME TypeOK, PathInv, ParseInv PROVE LeftInNat
  BY DEF InitializeInv
<1>1. RoomLeft \in Nat
  <2>1. capacity \in First..Limit
    BY DEF PathInv
  <2>2. First \in Nat /\ Limit \in Nat
    BY DEF First, Limit
  <2>3. \A a, b \in Nat : \A c \in a..b : b - c \in Nat
    OBVIOUS
  <2> QED BY <2>1, <2>2, <2>3 DEF RoomLeft
<1>2. LinesLeft \in Nat
  <2>1. Len(file) \in Nat /\ next \in 1..(Len(file) + 1)
    BY DEF TypeOK, ParseInv
  <2> QED BY <2>1 DEF LinesLeft
<1>3. StagesLeft \in Nat /\ PathLeft \in Nat /\ ParseLeft \in Nat
  BY DEF StagesLeft, PathLeft, ParseLeft
<1> QED BY <1>1, <1>2, <1>3 DEF LeftInNat

\* A buffer that doubles, or goes to its limit, has less room to grow.
LEMMA LessRoom ==
  ASSUME NEW first \in Nat \ {0}, NEW limit \in Nat, NEW c \in first..limit,
         ~(c >= limit)
  PROVE  limit - (IF c * 2 < limit THEN c * 2 ELSE limit) < limit - c
  OBVIOUS

\* module_path comes to an end: the buffer grows, but not beyond its limit.
LEMMA PathShortens ==
  ASSUME TypeOK, PathInv, PathNext
  PROVE  PathLeft' < PathLeft \/ (PathLeft' = PathLeft /\ RoomLeft' < RoomLeft)
<1>1. pathStep = "call"
  BY DEF PathNext, Fail, Fits, TooLong, Grow, Cut
<1>2. CASE Fail \/ Fits \/ TooLong
  <2>1. pathStep' = "done"
    BY <1>2 DEF Fail, Fits, TooLong, Done
  <2> QED BY <1>1, <2>1 DEF PathLeft
<1>3. CASE Grow
  <2>1. capacity \in First..Limit
    BY DEF PathInv
  <2>2. First \in Nat \ {0} /\ Limit \in Nat
    BY DEF First, Limit
  <2>3. /\ ~(capacity >= Limit)
        /\ capacity' = IF capacity * 2 < Limit THEN capacity * 2 ELSE Limit
    BY <1>3 DEF Grow, Last, Least
  <2>4. RoomLeft' < RoomLeft
    <3>1. RoomLeft' = Limit - capacity'
      BY DEF RoomLeft, Limit
    <3> QED BY <2>1, <2>2, <2>3, <3>1, LessRoom DEF RoomLeft
  <2> QED BY <1>3, <2>4 DEF Grow, PathLeft
<1> QED BY <1>2, <1>3 DEF PathNext

\* So does the parser, with every line it looks at.
LEMMA ParseShortens ==
  ASSUME TypeOK, ParseInv, ParseNext \/ NoPath
  PROVE  \/ ParseLeft' < ParseLeft
         \/ ParseLeft' = ParseLeft /\ LinesLeft' < LinesLeft
<1>1. CASE Missing \/ Read \/ EndOfFile \/ NoPath
  BY <1>1 DEF Missing, Read, EndOfFile, NoPath, ParseLeft
<1>2. CASE ParseLine
  <2>1. next' = next + 1 /\ pc' = pc /\ file' = file
    BY <1>2 DEF ParseLine, Round
  <2>2. next \in Nat /\ Len(file) \in Nat
    BY DEF TypeOK
  <2> QED BY <2>1, <2>2 DEF ParseLeft, LinesLeft
<1> QED BY <1>1, <1>2 DEF ParseNext

\* Every step of initialize leaves less to do, for paths and files of any
\* length.
THEOREM InitializationAdvances ==
  InitializeSpec => [][LeftInNat' /\ Shorter]_initVars
<1> DEFINE Advances == LeftInNat' /\ Shorter
<1>0. (TypeOK /\ InitializeInv)' => LeftInNat'
  BY LeftAreNumbers, PTL
<1>1. ASSUME TypeOK, InitializeInv, InitializeNext PROVE Advances
  <2>1. LeftInNat'
    <3>1. TypeOK' /\ InitializeInv'
      BY <1>1, TypePreserved, PathStays, ConfigStays, OwnStays
         DEF InitializeInv
    <3> QED BY <1>0, <3>1
  <2>2. PathInv /\ ParseInv
    BY <1>1 DEF InitializeInv
  <2> USE DEF ownVars, loadVars, pathVars, parseVars
  <2>3. ASSUME PathNext, stage' = stage PROVE Shorter
    BY <1>1, <2>2, <2>3, PathShortens DEF Shorter, StagesLeft
  <2>4. ASSUME LoadPatchConfig PROVE Shorter
    <3>1. UNCHANGED ownVars /\ (FindPath \/ NoPath \/ LoadFile)
      BY <2>4 DEF LoadPatchConfig, LoadNext
    <3>2. CASE FindPath
      BY <2>3, <3>1, <3>2 DEF FindPath
    <3>3. CASE NoPath \/ LoadFile
      <4>1. UNCHANGED <<StagesLeft, PathLeft, RoomLeft>>
        BY <3>1, <3>3
           DEF NoPath, LoadFile, StagesLeft, PathLeft, RoomLeft
      <4>2. ParseNext \/ NoPath
        BY <3>3 DEF LoadFile
      <4> QED BY <1>1, <2>2, <4>1, <4>2, ParseShortens DEF Shorter
    <3> QED BY <3>1, <3>2, <3>3
  <2>5. ASSUME FollowPath PROVE Shorter
    BY <2>3, <2>5 DEF FollowPath
  <2>6. ASSUME NoDunia \/ FoundDunia \/ DetectBuild \/ ReportToDebugger
                \/ WriteLog
        PROVE  Shorter
    <3>1. StagesLeft' < StagesLeft
      BY <2>6 DEF NoDunia, FoundDunia, DetectBuild, ReportToDebugger, WriteLog,
         StagesLeft
    <3> QED BY <3>1 DEF Shorter
  <2> QED BY <1>1, <2>1, <2>4, <2>5, <2>6 DEF InitializeNext
<1> HIDE DEF Advances
<1>2. TypeOK /\ InitializeInv /\ [InitializeNext]_initVars
        => [Advances]_initVars
  BY <1>1
<1>3. InitializeSpec => [][Advances]_initVars
  BY <1>2, InitializeCorrect, PTL DEF InitializeSpec
<1> QED BY <1>3 DEF Advances
=============================================================================
