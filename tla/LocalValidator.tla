--------------------------- MODULE LocalValidator ---------------------------
(***************************************************************************)
(* `validator.sh start` with the setup-geyser.sh it runs before it         *)
(* launches, while the setup script is also run by hand.                   *)
(***************************************************************************)
EXTENDS ValidatorScript

CONSTANTS
  Runs,      \* runs of the setup script, a start's own and those by hand
  MaxInodes  \* bound on the files they ever create

ASSUME LocalAssumption == MaxInodes \in Nat

VARIABLES
  how, file, tmp, content, opened, created, source, pc, writes, cutOff, overlap,
  setup   \* the run the start waits for, or nobody

Plugin == INSTANCE ArtifactCache

pluginVars ==
  <<how, file, tmp, content, opened, created, source, pc, writes, cutOff, overlap>>

localVars == <<scriptVars, pluginVars, setup>>

LocalInit == ScriptInit /\ Plugin!Init /\ setup = Plugin!Nobody

(* The parts of the script that have nothing to do with the plugin. *)
ValidatorStep ==
  /\ \/ \E p \in Pids : BindPort(p) \/ ClosePort(p) \/ ProcessEnds(p)
     \/ LaunchForeign
     \/ Start \/ Check \/ Launch \/ RecordPid \/ Poll \/ Stop
  /\ UNCHANGED <<pluginVars, setup>>

BeginSetup ==
  /\ Guard
  /\ IF script' = "setup" THEN setup' \in {r \in Runs : pc[r] = "idle"} ELSE UNCHANGED setup
  /\ UNCHANGED pluginVars

RunSetup ==
  /\ \E r \in Runs : Plugin!RunStep(r) \/ Plugin!Kill(r)
  /\ UNCHANGED <<scriptVars, setup>>

(* set -e: without the plugin nothing starts. *)
SetupReturns ==
  /\ SetupGeyser
  /\ pc[setup] = IF script' = "launch" THEN "ok" ELSE "failed"
  /\ setup' = Plugin!Nobody
  /\ UNCHANGED pluginVars

(* The signal of the terminal reaches the setup run as well. *)
InterruptAll ==
  /\ Interrupt
  /\ setup' = Plugin!Nobody
  /\ IF setup \in Plugin!Under THEN Plugin!Kill(setup) ELSE UNCHANGED pluginVars

LocalNext ==
  \/ ValidatorStep \/ BeginSetup \/ RunSetup \/ SetupReturns \/ InterruptAll

LocalSpec == LocalInit /\ [][LocalNext]_localVars
-----------------------------------------------------------------------------
(* A start launches a validator with the whole plugin, or with one whose copy
   was cut off or written by two runs at once; none that an earlier start, run
   or interrupt has left half downloaded. *)
LaunchedPluginIsWhole ==
  [][ ours' # ours =>
        content[file] = "whole" \/ overlap \/ "copying" \in cutOff ]_localVars
=============================================================================
