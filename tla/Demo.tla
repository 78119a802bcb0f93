-------------------------------- MODULE Demo --------------------------------
(***************************************************************************)
(* scripts/demo-indexers.sh, run_indexer: an indexer with a limit of one   *)
(* is started in the background, given four seconds to open its            *)
(* subscription, and handed one v1 transaction by send-decode; the script  *)
(* then waits for it to exit.  The script, send-decode's transaction, the  *)
(* indexer, the plugin and the person at the terminal act concurrently,    *)
(* and the four seconds are a guess.                                       *)
(*                                                                         *)
(* Lines 37 and 40 name ts/src, which the repository does not have (the    *)
(* indexers are in ts/kit/src): the demos in TypeScript exit 1 at once, as *)
(* Connect does when there is nothing to connect to.                       *)
(***************************************************************************)
EXTENDS Indexer

CONSTANTS
  V1Updates,     \* the updates in which the transaction may be published
  OtherUpdates   \* what else the validator may publish meanwhile

ASSUME DemoAssumption ==
  /\ V1Updates \cup OtherUpdates \subseteq Updates
  /\ \A u \in V1Updates :
       /\ u.kind \in Kinds
       /\ \E k \in DOMAIN u.messages : u.messages[k] # Nil /\ u.messages[k].version = "v1"

VARIABLES
  script,   \* "sleeping", "sending", "waiting"; how it ended: "passed" or "failed"
            \* with the indexer, "aborted" once send-decode had been started,
            \* "interrupted" before
  sent      \* the update the transaction was published in; 0 when in none

demoVars == <<vars, script, sent>>

DemoInit ==
  /\ Init
  /\ limit = 1
  /\ script = "sleeping"
  /\ sent = 0

(* The four seconds are over, wherever the indexer is. *)
Wake ==
  /\ script = "sleeping"
  /\ script' = "sending"
  /\ UNCHANGED <<vars, sent>>

(* The transaction of send-decode lands and the plugin publishes it, whatever
   has become of send-decode, or of the script, since it was sent. *)
Land(update) ==
  /\ script \notin {"sleeping", "interrupted"}
  /\ sent = 0
  /\ update \in V1Updates
  /\ Publish(update)
  /\ sent' = Len(published')
  /\ UNCHANGED script

(* send-decode succeeds.  A closed stream need not have carried its transaction. *)
SendReturns ==
  /\ script = "sending"
  /\ script' = "waiting"
  /\ UNCHANGED <<vars, sent>>

(* send-decode fails, before its transaction landed or in what it reads of it
   afterwards: set -e ends the script there and then. *)
SendFails ==
  /\ script = "sending"
  /\ script' = "aborted"
  /\ UNCHANGED <<vars, sent>>

(* ^C ends the script.  Its background job starts with the signal ignored, so
   whether the indexer hears it is left to Interrupt. *)
InterruptScript ==
  /\ script \in {"sleeping", "sending", "waiting"}
  /\ script' = IF script = "sleeping" THEN "interrupted" ELSE "aborted"
  /\ UNCHANGED <<vars, sent>>

(* Mutant: the script does not look at the exit code. *)
WaitAnyCode ==
  /\ script = "waiting"
  /\ pc = "exited"
  /\ script' = "passed"
  /\ UNCHANGED <<vars, sent>>

Wait ==
  /\ script = "waiting"
  /\ pc = "exited"
  /\ script' = IF exitCode = 0 THEN "passed" ELSE "failed"
  /\ UNCHANGED <<vars, sent>>

(* What the indexer, the plugin and the rest of the chain's traffic do; a signal
   reaches the indexer by its pid, or as a ^C it does not ignore. *)
IndexerStep ==
  /\ \/ \E update \in OtherUpdates : Publish(update)
     \/ Register
     \/ CloseStream
     \/ Interrupt
     \/ Connect
     \/ Handle
  /\ UNCHANGED <<script, sent>>

DemoNext ==
  \/ Wake
  \/ \E update \in V1Updates : Land(update)
  \/ SendReturns
  \/ SendFails
  \/ InterruptScript
  \/ Wait
  \/ IndexerStep

(* send-decode ends one way or the other; nothing makes its transaction land. *)
DemoSpec ==
  /\ DemoInit /\ [][DemoNext]_demoVars
  /\ WF_demoVars(Wake) /\ WF_demoVars(Wait)
  /\ WF_demoVars(SendReturns \/ SendFails)
  /\ Fairness
-----------------------------------------------------------------------------
DemoTypeOK ==
  /\ TypeOK
  /\ script \in {"sleeping", "sending", "waiting", "passed", "failed",
                 "aborted", "interrupted"}
  /\ sent \in 0..Len(published)

(* What "Waits for a backgrounded indexer to observe the transaction" (line 10)
   promises: a demo that passes has had its indexer see v1.  The code does not
   keep it: a Go or Rust indexer whose stream ends exits 0 having seen none. *)
PassedMeansObserved == script = "passed" => V1Seen > 0

(* What it does guarantee: a demo passes without its indexer having seen v1
   only when the stream was closed under a Go or Rust indexer, or a signal
   reached a Go one. *)
PassedUnobservedNeedsClose ==
  script = "passed" /\ V1Seen = 0 =>
    \/ impl \in {"go", "rust"} /\ stream = "ended"
    \/ impl = "go" /\ interrupted

(* Nobody waited for an indexer that runs on to its end, and if it is past the
   demo's transaction, its subscription opened after it: "it will wait forever
   for traffic that has already gone past" (line 20), for no other reason. *)
UnfinishedIndexerWasLate ==
  pc # "exited" =>
    /\ script \notin {"passed", "failed"}
    /\ sent # 0 /\ opened # 0 /\ position > sent => opened > sent

(* Every transaction published after the subscription opened lets the indexer,
   and with it the demo, end; what the script does not guarantee, and what the
   sleep is for, is that order. *)
ObservableDemoEnds ==
  (sent # 0 /\ opened # 0 /\ opened <= sent)
    ~> (pc = "exited" /\ script \in {"passed", "failed", "aborted"})
=============================================================================
