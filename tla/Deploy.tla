-------------------------------- MODULE Deploy --------------------------------
(***************************************************************************)
(* deploy.sh, started without arguments: up to three runs of site.yml, the *)
(* second limited to the hosts of Ansible's retry file if there is one.    *)
(* Arguments, which deploy.sh hands on to Ansible ("$@"), could limit a    *)
(* run to some hosts or to some tasks.                                     *)
(*                                                                         *)
(* site.yml is a sequence of plays.  A host that fails in a play is out of *)
(* the rest of the run, a play all of whose hosts fail ends it, and a run  *)
(* with failures leaves the hosts that failed in the retry file: that is   *)
(* Ansible's doing, modelled from how deploy.sh uses it.                   *)
(***************************************************************************)
EXTENDS Naturals

CONSTANTS
  Hosts,
  Plays,          \* number of plays
  TargetsOf,      \* the hosts of each play
  MaxInvocations  \* bound: times deploy.sh is started

ASSUME SiteAssumption ==
  /\ Plays \in Nat \ {0}
  /\ TargetsOf \in [1 .. Plays -> (SUBSET Hosts) \ {{}}]

ASSUME BoundAssumption == MaxInvocations \in Nat

MaxAttempts == 3

VARIABLES
  result,      \* DEPLOY_RESULT, "unset" before the first invocation
  attempt,     \* i
  repair,      \* this attempt is limited to the retry file
  scope,       \* the hosts of this attempt
  play,        \* the next play; Plays + 1 when the run of site.yml is over
  failed,      \* hosts that have failed in this attempt
  done,        \* the hosts each play has been applied to in this attempt
  retryFile,   \* the hosts in the retry file; {}: no file
  invocations,
  cleanStart   \* history: this invocation found no retry file

sweepVars == <<repair, scope, play, failed, done>>
vars      == <<result, attempt, sweepVars, retryFile, invocations, cleanStart>>

TypeOK ==
  /\ result \in {"unset", "INCOMPLETE", "INTERRUPTED", "SUCCESS", "FAILED"}
  /\ attempt \in 1 .. MaxAttempts
  /\ repair \in BOOLEAN
  /\ scope \subseteq Hosts
  /\ play \in 1 .. Plays + 1
  /\ failed \subseteq scope
  /\ done \in [1 .. Plays -> SUBSET Hosts]
  /\ retryFile \subseteq Hosts
  /\ invocations \in 0 .. MaxInvocations
  /\ cleanStart \in BOOLEAN

Init ==
  /\ result = "unset"
  /\ attempt = 1
  /\ repair = FALSE
  /\ scope = Hosts
  /\ play = 1
  /\ failed = {}
  /\ done = [p \in 1 .. Plays |-> {}]
  /\ retryFile = {}
  /\ invocations = 0
  /\ cleanStart = TRUE

Running == result = "INCOMPLETE"

(***************************************************************************)
(* The beginning of attempt i: `[ $i -eq 2 ] && [ -f "$RETRY_FILE" ]`,     *)
(* where file is what the retry file holds by then.                        *)
(***************************************************************************)
Begin(i, file) ==
  /\ attempt' = i
  /\ repair' = (i = 2 /\ file # {})
  /\ scope' = IF i = 2 /\ file # {} THEN file ELSE Hosts
  /\ play' = 1
  /\ failed' = {}
  /\ done' = [p \in 1 .. Plays |-> {}]
  /\ retryFile' = file

(***************************************************************************)
(* ./deploy.sh, which does not look at a retry file that is already there. *)
(***************************************************************************)
Invoke ==
  /\ ~ Running
  /\ invocations < MaxInvocations
  /\ invocations' = invocations + 1
  /\ result' = "INCOMPLETE"
  /\ Begin(1, retryFile)
  /\ cleanStart' = (retryFile = {})

(***************************************************************************)
(* Ansible runs the next play on the hosts it has left.                    *)
(***************************************************************************)
RunPlay ==
  /\ Running
  /\ play <= Plays
  /\ LET live == (TargetsOf[play] \cap scope) \ failed IN
     \E bad \in SUBSET live :
       /\ done' = [done EXCEPT ![play] = live \ bad]
       /\ failed' = failed \cup bad
       /\ play' = IF live # {} /\ bad = live THEN Plays + 1 ELSE play + 1
  /\ UNCHANGED <<result, attempt, repair, scope, retryFile, invocations, cleanStart>>

(***************************************************************************)
(* ansible-playbook may end without having run a play ("deploy exited on a *)
(* global error"); no host has failed then and no retry file is written.   *)
(***************************************************************************)
GlobalError == play = 1

SweepOver == play = Plays + 1

(***************************************************************************)
(* The retry file as this run of site.yml leaves it.                       *)
(***************************************************************************)
RetryWritten == IF failed = {} THEN retryFile ELSE failed

(***************************************************************************)
(* The loop's counter.  (SameAttempt: a loop that forgets to count.)       *)
(***************************************************************************)
SameAttempt == attempt

NextAttempt == attempt + 1

(***************************************************************************)
(* A repair pass never ends the deployment, however well it goes.          *)
(***************************************************************************)
RepairEnds ==
  /\ Running
  /\ repair
  /\ SweepOver \/ GlobalError
  /\ Begin(NextAttempt, {})
  /\ UNCHANGED <<result, invocations, cleanStart>>

(***************************************************************************)
(* Only a full sweep without failures succeeds.  (TrustsRepair: any run    *)
(* that ended well, as the script did before.)                             *)
(***************************************************************************)
TrustsRepair == SweepOver /\ failed = {}

Confirmed == SweepOver /\ failed = {} /\ ~ repair

Succeed ==
  /\ Running
  /\ Confirmed
  /\ result' = "SUCCESS"
  /\ UNCHANGED <<attempt, sweepVars, retryFile, invocations, cleanStart>>

(***************************************************************************)
(* The retry file survives attempt 1 only.  (ClearedLate: `-gt 2`.)        *)
(***************************************************************************)
ClearedLate(file) == IF attempt > 2 THEN {} ELSE file

Cleared(file) == IF attempt >= 2 THEN {} ELSE file

(***************************************************************************)
(* The last attempt.  (OneMore: an off-by-one in the loop's bound.)        *)
(***************************************************************************)
OneMore == attempt > MaxAttempts

Exhausted == attempt = MaxAttempts

SweepFails ==
  /\ Running
  /\ ~ repair
  /\ GlobalError \/ (SweepOver /\ failed # {})
  /\ \/ /\ Exhausted
        /\ result' = "FAILED"
        /\ retryFile' = Cleared(RetryWritten)
        /\ UNCHANGED <<attempt, sweepVars>>
     \/ /\ ~ Exhausted
        /\ Begin(NextAttempt, Cleared(RetryWritten))
        /\ UNCHANGED result
  /\ UNCHANGED <<invocations, cleanStart>>

(***************************************************************************)
(* INT or TERM: the trap exits at once and Ansible writes nothing.         *)
(***************************************************************************)
Interrupt ==
  /\ Running
  /\ result' = "INTERRUPTED"
  /\ UNCHANGED <<attempt, sweepVars, retryFile, invocations, cleanStart>>

Step == RunPlay \/ RepairEnds \/ Succeed \/ SweepFails

Next == Invoke \/ Step \/ Interrupt

Spec == Init /\ [][Next]_vars

(***************************************************************************)
(* ansible-playbook returns in the end, and the shell goes on.             *)
(***************************************************************************)
FairSpec == Spec /\ WF_vars(Step)

-------------------------------------------------------------------------------
(***************************************************************************)
(* "attempt 3's full sweep is what actually confirms the range"            *)
(* (deploy.sh:431): success is declared only after one sweep that applied  *)
(* every play to every one of its hosts, whatever earlier attempts,        *)
(* repairs, interrupts and invocations left behind.                        *)
(***************************************************************************)
SuccessIsDeployed == result = "SUCCESS" => done = TargetsOf

(***************************************************************************)
(* An invocation that found no retry file and was not interrupted leaves   *)
(* none, so it cannot limit the next one.  (One that was interrupted may.) *)
(***************************************************************************)
LeavesNoRetryFile ==
  cleanStart /\ result \in {"SUCCESS", "FAILED"} => retryFile = {}

(***************************************************************************)
(* deploy.sh ends, though every attempt may fail.                          *)
(***************************************************************************)
DeployEnds == Running ~> ~ Running
===============================================================================
