----------------------------- MODULE Initialize -----------------------------
(***************************************************************************)
(* initialize of src/patches/mod.rs, from the DLL's own path to the log:   *)
(* load_patch_config (LoadConfig), run as far as the build of Dunia.dll,   *)
(* whose patches PatchRun has, and emit_report.  GetModuleFileNameW is     *)
(* asked two or three times, of two modules; each time it may fail,        *)
(* whatever it answered before, and a path that cannot be had must cost no *)
(* more than what it was wanted for.                                       *)
(***************************************************************************)
EXTENDS LoadConfig

Builds == {"Steam", "Retail", "Ubisoft", "Unknown"}

VARIABLES
  stage,           \* what initialize is at
  own,             \* how long the DLL's own path is
  whose,           \* the module whose path was asked for last
  build,           \* DuniaBuild, "none" when Dunia.dll was not inspected
  told,            \* what OutputDebugStringW was given
  log,             \* where the log was written: a module's directory or the
                   \* program's; "failed" or "nowhere" otherwise
  \* History, read by the properties only:
  missed           \* what the DLL's own path was wanted for when asking for
                   \* it failed

ownVars  == <<stage, own, whose, build, told, log, missed>>
initVars == <<loadVars, ownVars>>
-----------------------------------------------------------------------------
\* module_path is called again, for module m; n is what Windows has to answer.
AskPath(m, n) ==
  /\ whose' = m
  /\ path' = n
  /\ capacity' = First
  /\ pathStep' = "call"
  /\ pathLength' = 0

LoadPatchConfig == stage = "config" /\ LoadNext /\ UNCHANGED ownVars

\* Dunia.dll is not loaded, or not an image that can be patched.
NoDunia ==
  /\ stage = "config" /\ pc = "done"
  /\ stage' = "report"
  /\ UNCHANGED <<loadVars, own, whose, build, told, log, missed>>

FoundDunia ==
  /\ stage = "config" /\ pc = "done"
  /\ stage' = "build"
  /\ \E n \in PathLengths : AskPath("dunia", n)
  /\ UNCHANGED <<parseVars, own, build, told, log, missed>>

FollowPath ==
  /\ stage \in {"build", "log"}
  /\ PathNext
  /\ UNCHANGED <<parseVars, ownVars>>

\* The size of the file, if its path and then its metadata can be had, names
\* the build.
DetectBuild ==
  /\ stage = "build" /\ pathStep = "done"
  /\ build' \in (IF pathLength = 0 THEN {"Unknown"} ELSE Builds)
  /\ stage' = "report"
  /\ UNCHANGED <<loadVars, own, whose, told, log, missed>>

\* (Fault) The directory of Dunia.dll will do.
ReportLeavesPath ==
  /\ stage = "report"
  /\ told' = told \cup {"report"}
  /\ stage' = "log"
  /\ UNCHANGED <<loadVars, own, whose, build, log, missed>>

\* What Windows answers to a call for the DLL's own path: its length, or 0 when
\* the call fails.
OwnAnswers == {own, 0}

Missed(n, wanted) == IF n = 0 THEN {wanted} ELSE {}

\* emit_report: the debugger first, and then the DLL's own path once more, which
\* may be had now although it was not before, and the other way round.
ReportToDebugger ==
  /\ stage = "report"
  /\ told' = told \cup {"report"}
  /\ stage' = "log"
  /\ \E n \in OwnAnswers :
       AskPath("dll", n) /\ missed' = missed \cup Missed(n, "log")
  /\ UNCHANGED <<parseVars, own, build, log>>

\* The directory of the path found, or else the program's, if that can be had.
Directories == IF pathLength # 0 THEN {whose} ELSE {"exe", "nowhere"}

\* A log that cannot be written is complained of to the debugger.
WriteLog ==
  /\ stage = "log" /\ pathStep = "done"
  /\ \E directory \in Directories :
       \/ log' = directory /\ UNCHANGED told
       \/ /\ directory # "nowhere"
          /\ log' = "failed"
          /\ told' = told \cup {"complaint"}
  /\ stage' = "done"
  /\ UNCHANGED <<loadVars, own, whose, build, missed>>

InitializeInit ==
  /\ LoadInit
  /\ stage = "config"
  /\ own \in PathLengths \ {0}
  /\ path \in OwnAnswers
  /\ whose = "dll"
  /\ missed = Missed(path, "config")
  /\ build = "none"
  /\ told = {}
  /\ log = "none"

InitializeNext ==
  \/ LoadPatchConfig
  \/ NoDunia \/ FoundDunia
  \/ FollowPath \/ DetectBuild
  \/ ReportToDebugger \/ WriteLog

\* One thread runs initialize, and nothing it calls waits for another.
InitializeSpec == InitializeInit /\ [][InitializeNext]_initVars
                                 /\ WF_initVars(InitializeNext)
-----------------------------------------------------------------------------
(* Properties. *)

\* The log lies beside the configuration file (README.md:66), and not beside
\* Dunia.dll, whose path was asked for in between.  The DLL's own path is asked
\* for twice, and either call may fail (mod.rs:72, 815): log and file may part,
\* but only where just that call failed.  A path that is too long, or a failure
\* of another call, never parts them.
LogBesideConfiguration ==
  /\ log # "dunia"
  /\ log = "dll" /\ source = "PathUnavailable" => "config" \in missed
  /\ log \in {"exe", "nowhere"} /\ source # "PathUnavailable" =>
       "log" \in missed

\* Whatever is missing on the way, initialization comes to its end, the debugger
\* has had the report by then, and a log that was not written has been
\* complained of unless there was no directory for it.
InitializationReports ==
  <>(/\ stage = "done"
     /\ "report" \in told
     /\ log \in {"dll", "exe", "nowhere"} \/ "complaint" \in told)
=============================================================================
