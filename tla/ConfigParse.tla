----------------------------- MODULE ConfigParse -----------------------------
(***************************************************************************)
(* ConfigLoad::load and parse of src/patches/config.rs: the ini file is    *)
(* read, or is missing, and its lines are interpreted one after the other. *)
(* A line is what parse tells apart: one to skip, a section header, a key  *)
(* with a value, or neither.                                               *)
(***************************************************************************)
EXTENDS Naturals, Sequences

CONSTANTS
  Option,          \* the patches a file can switch
  Default,         \* PatchConfig::default
  Files            \* the files, as sequences of lines

Keys   == Option \cup {"unknown"}
Values == {"true", "false", "invalid"}     \* parse_bool: Some(_) or None
Entry  == [kind : {"entry"}, key : Keys, value : Values]
Header == [kind : {"header"}, patches : BOOLEAN]
Line   == Entry \cup Header \cup [kind : {"skip", "malformed"}]

ASSUME OptionAssumption == "unknown" \notin Option
ASSUME DefaultAssumption == Default \in [Option -> BOOLEAN]
ASSUME FilesAssumption == Files \subseteq Seq(Line)

VARIABLES
  file,            \* the lines of the file, once it is read
  pc,
  source,          \* ConfigSource
  next,            \* the line parse is about to look at
  inPatches,       \* in_patches_section
  config,
  warnings         \* numbers of the lines warned of, in order

parseVars == <<file, pc, source, next, inPatches, config, warnings>>
-----------------------------------------------------------------------------
\* load: a file that is missing or cannot be read leaves the defaults.
Missing ==
  /\ pc = "load"
  /\ pc' = "done"
  /\ source' \in {"MissingUsingDefaults", "ReadFailedUsingDefaults"}
  /\ UNCHANGED <<file, next, inPatches, config, warnings>>

Read ==
  /\ pc = "load"
  /\ pc' = "parse"
  /\ source' = "Loaded"
  /\ file' \in Files
  /\ UNCHANGED <<next, inPatches, config, warnings>>

\* One round of parse's loop, for line l.
Round == pc = "parse" /\ next \in DOMAIN file /\ next' = next + 1

Skip(l) ==
  /\ l.kind = "skip"
  /\ UNCHANGED <<inPatches, config, warnings>>

\* (Fault) Every section is taken for the patches'.
AnySection(l) ==
  /\ l.kind = "header"
  /\ inPatches' = TRUE
  /\ UNCHANGED <<config, warnings>>

Section(l) ==
  /\ l.kind = "header"
  /\ inPatches' = l.patches
  /\ UNCHANGED <<config, warnings>>

OtherSection(l) ==
  /\ l.kind \in {"entry", "malformed"}
  /\ ~inPatches
  /\ UNCHANGED <<inPatches, config, warnings>>

Warned(l) ==
  \/ l.kind = "malformed"
  \/ l.kind = "entry" /\ (l.value = "invalid" \/ l.key = "unknown")

WarnEverywhere(l) ==
  /\ Warned(l)
  /\ warnings' = Append(warnings, next)
  /\ UNCHANGED <<inPatches, config>>

Warn(l) ==
  /\ inPatches
  /\ Warned(l)
  /\ warnings' = Append(warnings, next)
  /\ UNCHANGED <<inPatches, config>>

Set(l) ==
  /\ inPatches
  /\ l.kind = "entry"
  /\ l.key \in Option
  /\ l.value # "invalid"
  /\ config' = [config EXCEPT ![l.key] = (l.value = "true")]
  /\ UNCHANGED <<inPatches, warnings>>

ParseLine ==
  /\ Round
  /\ LET l == file[next] IN
       Skip(l) \/ Section(l) \/ OtherSection(l) \/ Warn(l) \/ Set(l)
  /\ UNCHANGED <<file, pc, source>>

EndOfFile ==
  /\ pc = "parse"
  /\ next \notin DOMAIN file
  /\ pc' = "done"
  /\ UNCHANGED <<file, source, next, inPatches, config, warnings>>

ParseInit ==
  /\ file = <<>>
  /\ pc = "load"
  /\ source = "none"
  /\ next = 1
  /\ inPatches = TRUE
  /\ config = Default
  /\ warnings = <<>>

ParseNext == Missing \/ Read \/ ParseLine \/ EndOfFile
-----------------------------------------------------------------------------
(* Properties. *)

\* The lines that count: those before the first header, and those of every
\* section called patches.
Counts(i) ==
  \A h \in 1..(i - 1) :
    file[h].kind = "header" /\ ~file[h].patches =>
      \E g \in (h + 1)..(i - 1) : file[g].kind = "header"

Switches(i, o, b) ==
  /\ Counts(i)
  /\ file[i] = [kind |-> "entry", key |-> o,
                value |-> IF b THEN "true" ELSE "false"]

\* An option has the value of the last line that counts and switches it, and its
\* default if there is none, or no file: lines of other sections, lines warned
\* of and the order of different options do not matter.
LastLineWins ==
  pc = "done" =>
    \A o \in Option :
      \/ /\ config[o] = Default[o]
         /\ source = "Loaded" =>
              \A i \in DOMAIN file, b \in BOOLEAN : ~Switches(i, o, b)
      \/ /\ source = "Loaded"
         /\ \E i \in DOMAIN file :
              /\ Switches(i, o, config[o])
              /\ \A j \in (i + 1)..Len(file), b \in BOOLEAN : ~Switches(j, o, b)

\* Each line that counts and says nothing parse understands is warned of once,
\* in the order of the file, and no other line is (README.md:67).
BadLinesWarned ==
  pc = "done" =>
    /\ \A i \in DOMAIN file :
         source = "Loaded" /\ Counts(i) /\ Warned(file[i])
           <=> \E k \in DOMAIN warnings : warnings[k] = i
    /\ \A k, m \in DOMAIN warnings : k < m => warnings[k] < warnings[m]
=============================================================================
