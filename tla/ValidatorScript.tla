-------------------------- MODULE ValidatorScript --------------------------
(***************************************************************************)
(* scripts/validator.sh: start and stop a local validator.                 *)
(*                                                                         *)
(* `start` asks whether anything answers on the RPC port before it         *)
(* launches, and waits for an answer after.  `stop` signals the process    *)
(* of the PID file and does not wait for it to end.  Validators of other   *)
(* projects come and go, and the script may be interrupted between any two *)
(* of its commands.  A process ID is not used twice.                       *)
(***************************************************************************)
EXTENDS Naturals, FiniteSets

CONSTANTS
  MaxPid,   \* bound on the validators ever launched
  MaxPolls  \* the polls of a start; 60 in the code

ASSUME ValidatorAssumption == MaxPid \in Nat \ {0} /\ MaxPolls \in Nat \ {0}

Pids == 1..MaxPid

VARIABLES
  script,     \* "idle", "guard", "check", "setup", "launch", "record" or "poll"
  result,     \* how it ended last: "ready", "reused", "error" or "stopped"; "none"
              \* while it starts
  polls,      \* the polls of this start
  child,      \* what it has just launched, $!; else 0
  torn,       \* this start's Token-2022 is a part of one: downloads overlapped
  intruder,   \* one it did not launch came up during it, with another Token-2022
  pidFile,    \* the PID in the file; 0 for no file
  pids,       \* the processes launched so far
  phase,      \* of each: "starting", "answering", "ending" or "gone"
  signalled,  \* those told to end; they may go on answering for a while
  ours,       \* those this script launched
  unrecorded, \* those of ours whose PID was not written to the file
  sameLength, \* those whose Token-2022 is as long as the released one
  wiped       \* a launch has deleted a ledger that was in use

run == <<polls, child, torn, intruder>>
processes == <<pids, phase, signalled, ours, unrecorded, sameLength>>
scriptVars == <<script, result, run, pidFile, processes, wiped>>

ScriptInit ==
  /\ script = "idle" /\ result = "none" /\ pidFile = 0
  /\ polls = 0 /\ child = 0 /\ torn = FALSE /\ intruder = FALSE
  /\ pids = 0
  /\ phase = [p \in Pids |-> "gone"]
  /\ signalled = {} /\ ours = {} /\ unrecorded = {} /\ sameLength = {}
  /\ wiped = FALSE

Alive == {p \in Pids : phase[p] # "gone"}
Answering == {p \in Pids : phase[p] = "answering"}
-----------------------------------------------------------------------------
(***************************************************************************)
(* The processes.                                                          *)
(***************************************************************************)
(* One process has the port; any other that wants it exits. *)
BindPort(p) ==
  /\ phase[p] = "starting" /\ p \notin signalled
  /\ phase' = [phase EXCEPT ![p] = IF Answering = {} THEN "answering" ELSE "gone"]
  /\ intruder' = (intruder \/ (script # "idle" /\ p # child /\ p \notin sameLength
                                                /\ Answering = {}))
  /\ UNCHANGED <<script, result, polls, child, torn, pidFile, wiped>>
  /\ UNCHANGED <<pids, signalled, ours, unrecorded, sameLength>>

PhaseTo(p, next) ==
  /\ phase' = [phase EXCEPT ![p] = next]
  /\ UNCHANGED <<script, result, run, pidFile, wiped>>
  /\ UNCHANGED <<pids, signalled, ours, unrecorded, sameLength>>

(* A process ends: it crashes, is stopped by its owner, or has shut down. *)
ProcessEnds(p) == p \in Alive /\ PhaseTo(p, "gone")

(* A validator that was told to end closes its port before its ledger. *)
ClosePort(p) == p \in signalled /\ phase[p] = "answering" /\ PhaseTo(p, "ending")

(* A process gets the next ID, and a Token-2022 of some length. *)
Spawn(lengths) ==
  /\ pids < MaxPid
  /\ pids' = pids + 1
  /\ phase' = [phase EXCEPT ![pids'] = "starting"]
  /\ sameLength' \in {IF same THEN sameLength \cup {pids'} ELSE sameLength : same \in lengths}

LaunchForeign ==
  /\ Spawn(BOOLEAN)
  /\ UNCHANGED <<script, result, run, pidFile, signalled, ours, unrecorded, wiped>>
-----------------------------------------------------------------------------
(***************************************************************************)
(* start                                                                   *)
(***************************************************************************)
GoOn(next) == script' = next /\ UNCHANGED <<result, run>>

End(with) ==
  /\ script' = "idle" /\ result' = with
  /\ polls' = 0 /\ child' = 0 /\ torn' = FALSE /\ intruder' = FALSE

(* setup-token-2022.sh comes first; without the program nothing starts.  Runs of
   it that overlap may move a file into place that is still being written. *)
Start ==
  /\ script = "idle"
  /\ \/ /\ script' = "guard" /\ result' = "none" /\ torn' \in BOOLEAN
        /\ UNCHANGED <<polls, child, intruder>>
     \/ End("error")
  /\ UNCHANGED <<pidFile, processes, wiped>>

(* Mutant: without the guard, a launch whatever answers. *)
GuardLaunches ==
  /\ script = "guard"
  /\ GoOn("setup")
  /\ UNCHANGED <<pidFile, processes, wiped>>

(* Does anything answer? *)
Guard ==
  /\ script = "guard"
  /\ GoOn(IF Answering = {} THEN "setup" ELSE "check")
  /\ UNCHANGED <<pidFile, processes, wiped>>

(* Reuse what answers now if its Token-2022 is as long as the one at hand: length
   is all that is compared.  The question fails if nobody answers any more. *)
Check ==
  /\ script = "check"
  /\ \/ Answering # {} /\ (Answering \subseteq sameLength \/ torn) /\ End("reused")
     \/ (Answering = {} \/ ~(Answering \subseteq sameLength) \/ torn) /\ End("error")
  /\ UNCHANGED <<pidFile, processes, wiped>>

(* setup-geyser.sh may take minutes. *)
SetupGeyser ==
  /\ script = "setup"
  /\ GoOn("launch") \/ End("error")
  /\ UNCHANGED <<pidFile, processes, wiped>>

(* --reset deletes the ledger, whoever has it open. *)
Launch ==
  /\ script = "launch"
  /\ Spawn(IF torn THEN BOOLEAN ELSE {TRUE})
  /\ wiped' = (wiped \/ ours \cap Alive # {})
  /\ ours' = ours \cup {pids'} /\ unrecorded' = unrecorded \cup {pids'}
  /\ child' = pids'
  /\ script' = "record"
  /\ UNCHANGED <<result, polls, torn, intruder, pidFile, signalled>>

(* Mutant: a PID file that is there is left as it is. *)
RecordIfAbsent ==
  /\ script = "record"
  /\ pidFile' = IF pidFile = 0 THEN child ELSE pidFile
  /\ unrecorded' = unrecorded \ {child}
  /\ GoOn("poll")
  /\ UNCHANGED <<pids, phase, signalled, ours, sameLength, wiped>>

(* The PID is written by a command of its own.  When that fails the start ends,
   what the file held is gone, and the validator goes on. *)
RecordPid ==
  /\ script = "record"
  /\ \/ pidFile' = child /\ unrecorded' = unrecorded \ {child} /\ GoOn("poll")
     \/ pidFile' \in {pidFile, 0} /\ UNCHANGED unrecorded /\ End("error")
  /\ UNCHANGED <<pids, phase, signalled, ours, sameLength, wiped>>

(* One question a second; after the last the start fails, and leaves what it
   launched to itself. *)
Poll ==
  /\ script = "poll"
  /\ IF polls = MaxPolls THEN End("error")
     ELSE IF Answering # {} THEN End("ready")
     ELSE polls' = polls + 1 /\ UNCHANGED <<script, result, child, torn, intruder>>
  /\ UNCHANGED <<pidFile, processes, wiped>>

(* The person at the terminal interrupts, or something kills the script; a
   validator it has launched goes on, its PID written or not. *)
Interrupt ==
  /\ script # "idle"
  /\ End("error")
  /\ UNCHANGED <<pidFile, processes, wiped>>
-----------------------------------------------------------------------------
(* stop: signal the process, if it is alive; without a file leave everything
   alone. *)
Stop ==
  /\ script = "idle"
  /\ result' = "stopped"
  /\ pidFile' = 0
  /\ signalled' = signalled \cup ({pidFile} \cap Alive)
  /\ UNCHANGED <<script, run, pids, phase, ours, unrecorded, sameLength, wiped>>

ScriptNext ==
  \/ \E p \in Pids : BindPort(p) \/ ClosePort(p) \/ ProcessEnds(p)
  \/ LaunchForeign
  \/ Start \/ Guard \/ Check \/ SetupGeyser \/ Launch \/ RecordPid \/ Poll \/ Interrupt
  \/ Stop

ScriptSpec == ScriptInit /\ [][ScriptNext]_scriptVars
-----------------------------------------------------------------------------
(* A start that succeeds leaves a validator that answers with a Token-2022 of the
   released one's length, unless one it did not launch came up meanwhile or the
   file it compared with, or launched, was itself a part of the released one. *)
SuccessMeansToken2022 ==
  [][ result' \in {"ready", "reused"} /\ result' # result =>
        Answering' # {} /\ (Answering' \subseteq sameLength' \/ intruder \/ torn) ]_scriptVars

(* While no launch has run over a validator that had not ended, there is at most
   one of ours, and `stop` reaches it or has: all but one whose start was
   interrupted, or failed, after it launched and before it wrote the PID. *)
OursCanBeStopped ==
  wiped \/ \A p \in ours \cap Alive :
             /\ p \in signalled \/ p = pidFile \/ p \in unrecorded
             /\ ours \cap Alive = {p}
=============================================================================
