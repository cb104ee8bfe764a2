----------------------------- MODULE DeployProofs -----------------------------
(***************************************************************************)
(* Proofs about deployment: deploy.sh, for any hosts, any plays and any    *)
(* number of invocations, and the import of the FUXA project that one of   *)
(* its plays starts, for any set of projects.                              *)
(***************************************************************************)
EXTENDS Deploy, FuxaBootstrap, TLAPS

-------------------------------------------------------------------------------
(***************************************************************************)
(* deploy.sh.                                                              *)
(***************************************************************************)

(***************************************************************************)
(* A sweep in which no host has failed so far has applied every play up to *)
(* now to all of its hosts in scope; a full sweep's scope are all hosts.   *)
(***************************************************************************)
SweptSoFar ==
  /\ failed = {} => \A p \in 1 .. Plays : p < play => done[p] = TargetsOf[p] \cap scope
  /\ ~ repair => scope = Hosts

(***************************************************************************)
(* Only attempt 2 repairs, and does so if there is a retry file, which     *)
(* attempt 1 does not clear and attempt 3 does not have.                   *)
(***************************************************************************)
RetryFileByAttempt ==
  Running =>
    /\ repair <=> attempt = 2 /\ retryFile # {}
    /\ attempt = 1 /\ cleanStart => retryFile = {}
    /\ attempt = 3 => retryFile = {}

DeployInv ==
  TypeOK /\ SweptSoFar /\ RetryFileByAttempt /\ SuccessIsDeployed /\ LeavesNoRetryFile

LEMMA BeginTypes ==
  ASSUME TypeOK, NEW i \in 1 .. MaxAttempts, NEW file \in SUBSET Hosts, Begin(i, file)
  PROVE  /\ attempt' \in 1 .. MaxAttempts /\ repair' \in BOOLEAN /\ scope' \subseteq Hosts
         /\ play' \in 1 .. Plays + 1 /\ failed' \subseteq scope' /\ retryFile' \subseteq Hosts
         /\ done' \in [1 .. Plays -> SUBSET Hosts]
         /\ SweptSoFar'
         /\ attempt' = i /\ retryFile' = file
         /\ repair' <=> i = 2 /\ file # {}
<1>1. repair' \in BOOLEAN
  BY Zenon DEF Begin
<1>2. play' \in 1 .. Plays + 1
  BY SiteAssumption DEF Begin
<1>3. SweptSoFar'
  <2>1. \A p \in 1 .. Plays : ~ (p < play')
    BY SiteAssumption DEF Begin
  <2>2. ~ repair' => scope' = Hosts
    BY Zenon DEF Begin
  <2> QED
    BY <2>1, <2>2 DEF SweptSoFar
<1>4. attempt' = i /\ retryFile' = file /\ (repair' <=> i = 2 /\ file # {})
  BY Zenon DEF Begin
<1> QED
  BY <1>1, <1>2, <1>3, <1>4 DEF Begin

LEMMA DeployInvariant == Spec => []DeployInv
<1>1. Init => DeployInv
  <2> SUFFICES ASSUME Init PROVE DeployInv
    OBVIOUS
  <2>1. repair \in BOOLEAN /\ cleanStart \in BOOLEAN
    BY Zenon DEF Init
  <2>2. TypeOK
    BY <2>1, SiteAssumption, BoundAssumption DEF Init, TypeOK, MaxAttempts
  <2> QED
    BY <2>2, SiteAssumption DEF Init, DeployInv, SweptSoFar, RetryFileByAttempt, SuccessIsDeployed,
         LeavesNoRetryFile, Running
<1>2. DeployInv /\ [Next]_vars => DeployInv'
  <2> SUFFICES ASSUME DeployInv, [Next]_vars PROVE DeployInv'
    OBVIOUS
  <2>0. TypeOK /\ SweptSoFar /\ RetryFileByAttempt /\ SuccessIsDeployed /\ LeavesNoRetryFile
    BY DEF DeployInv
  <2>1. CASE Invoke
    <3>1. /\ ~ Running /\ invocations < MaxInvocations /\ invocations' = invocations + 1
          /\ result' = "INCOMPLETE" /\ Begin(1, retryFile) /\ (cleanStart' <=> retryFile = {})
          /\ cleanStart' \in BOOLEAN
      BY <2>1, Zenon DEF Invoke
    <3>2. 1 \in 1 .. MaxAttempts /\ retryFile \in SUBSET Hosts
      BY <2>0 DEF MaxAttempts, TypeOK
    <3>3. invocations' \in 0 .. MaxInvocations
      BY <2>0, <3>1, BoundAssumption DEF TypeOK
    <3>4. TypeOK' /\ SweptSoFar'
      BY <2>0, <3>1, <3>2, <3>3, BeginTypes DEF TypeOK
    <3>5. RetryFileByAttempt'
      BY <2>0, <3>1, <3>2, BeginTypes DEF RetryFileByAttempt
    <3> QED
      BY <3>1, <3>4, <3>5 DEF DeployInv, SuccessIsDeployed, LeavesNoRetryFile
  <2>2. CASE RunPlay
    <3> DEFINE live == (TargetsOf[play] \cap scope) \ failed
    <3>1. PICK bad \in SUBSET live :
            /\ done' = [done EXCEPT ![play] = live \ bad]
            /\ failed' = failed \cup bad
            /\ play' = IF live # {} /\ bad = live THEN Plays + 1 ELSE play + 1
      BY <2>2 DEF RunPlay
    <3>2. UNCHANGED <<result, attempt, repair, scope, retryFile, invocations, cleanStart>>
          /\ play \in 1 .. Plays
      <4>1. play <= Plays /\ play \in 1 .. Plays + 1 /\ Plays \in Nat
        BY <2>0, <2>2, SiteAssumption DEF RunPlay, TypeOK
      <4> QED
        BY <2>2, <4>1 DEF RunPlay
    <3>3. TypeOK'
      <4>1. play' \in 1 .. Plays + 1
        BY <3>1, <3>2, SiteAssumption
      <4>2. live \ bad \subseteq Hosts /\ failed' \subseteq scope
        BY <2>0, <3>1 DEF TypeOK
      <4> QED
        BY <2>0, <3>1, <3>2, <4>1, <4>2 DEF TypeOK
    <3>4. SweptSoFar'
      <4>1. ASSUME failed' = {}, NEW p \in 1 .. Plays, p < play'
            PROVE done'[p] = TargetsOf[p] \cap scope
        <5>1. failed = {} /\ bad = {} /\ play' = play + 1
          BY <3>1, <4>1
        <5>2. CASE p = play
          BY <2>0, <3>1, <3>2, <5>1, <5>2 DEF TypeOK
        <5>3. CASE p < play
          BY <2>0, <3>1, <3>2, <5>1, <5>3 DEF TypeOK, SweptSoFar
        <5> QED
          BY <3>2, <4>1, <5>1, <5>2, <5>3
      <4> QED
        BY <2>0, <3>2, <4>1 DEF SweptSoFar
    <3>5. result' = "INCOMPLETE"
      BY <2>2, <3>2 DEF RunPlay, Running
    <3> QED
      BY <2>0, <3>2, <3>3, <3>4, <3>5 DEF DeployInv, RetryFileByAttempt, Running, SuccessIsDeployed,
           LeavesNoRetryFile
  <2>3. CASE RepairEnds
    <3>1. attempt = 2 /\ result' = "INCOMPLETE"
      BY <2>0, <2>3 DEF RepairEnds, RetryFileByAttempt, Running
    <3>2. Begin(3, {}) /\ 3 \in 1 .. MaxAttempts
      BY <2>3, <3>1 DEF RepairEnds, NextAttempt, MaxAttempts
    <3>3. TypeOK' /\ SweptSoFar'
      <4>1. UNCHANGED <<result, invocations, cleanStart>> /\ {} \in SUBSET Hosts
        BY <2>3 DEF RepairEnds
      <4> QED
        BY <2>0, <3>2, <4>1, BeginTypes DEF TypeOK
    <3>4. RetryFileByAttempt'
      BY <2>0, <3>2, {} \in SUBSET Hosts, BeginTypes DEF RetryFileByAttempt
    <3> QED
      BY <3>1, <3>3, <3>4 DEF DeployInv, SuccessIsDeployed, LeavesNoRetryFile
  <2>4. CASE Succeed
    <3>1. UNCHANGED <<attempt, repair, scope, play, failed, done, retryFile, invocations, cleanStart>>
          /\ result' = "SUCCESS"
      BY <2>4 DEF Succeed, sweepVars
    <3>2. done = TargetsOf
      <4>1. failed = {} /\ play = Plays + 1 /\ scope = Hosts
        BY <2>0, <2>4 DEF Succeed, Confirmed, SweepOver, SweptSoFar
      <4>2. ASSUME NEW p \in 1 .. Plays PROVE done[p] = TargetsOf[p]
        <5>1. done[p] = TargetsOf[p] \cap scope
          <6>1. p < Plays + 1
            BY SiteAssumption
          <6> QED
            BY <2>0, <4>1, <6>1 DEF SweptSoFar
        <5>2. TargetsOf[p] \subseteq Hosts
          BY SiteAssumption
        <5> QED
          BY <4>1, <5>1, <5>2
      <4>3. done \in [1 .. Plays -> SUBSET Hosts] /\ TargetsOf \in [1 .. Plays -> (SUBSET Hosts) \ {{}}]
        BY <2>0, SiteAssumption DEF TypeOK
      <4>4. done = [p \in 1 .. Plays |-> done[p]] /\ TargetsOf = [p \in 1 .. Plays |-> TargetsOf[p]]
        BY <4>3, Zenon
      <4> QED
        BY <4>2, <4>4, Zenon
    <3>3. cleanStart => retryFile = {}
      <4>1. attempt \in 1 .. 3 /\ Running /\ ~ repair
        BY <2>0, <2>4 DEF Succeed, Confirmed, TypeOK, MaxAttempts
      <4> QED
        BY <2>0, <4>1 DEF RetryFileByAttempt
    <3> QED
      BY <2>0, <3>1, <3>2, <3>3 DEF DeployInv, TypeOK, SweptSoFar, RetryFileByAttempt, Running,
           SuccessIsDeployed, LeavesNoRetryFile
  <2>5. CASE SweepFails
    <3>1. attempt \in 1 .. 3 /\ Running /\ ~ repair
      BY <2>0, <2>5 DEF SweepFails, TypeOK, MaxAttempts
    <3>2. Cleared(RetryWritten) \in SUBSET Hosts /\ (attempt >= 2 => Cleared(RetryWritten) = {})
      BY <2>0 DEF Cleared, RetryWritten, TypeOK
    <3>3. CASE attempt = 3
      <4>1. result' = "FAILED" /\ retryFile' = {}
            /\ UNCHANGED <<attempt, repair, scope, play, failed, done, invocations, cleanStart>>
        BY <2>5, <3>2, <3>3 DEF SweepFails, Exhausted, MaxAttempts, sweepVars
      <4> QED
        BY <2>0, <4>1 DEF DeployInv, TypeOK, SweptSoFar, RetryFileByAttempt, Running,
             SuccessIsDeployed, LeavesNoRetryFile
    <3>4. CASE attempt # 3
      <4>1. Begin(attempt + 1, Cleared(RetryWritten)) /\ UNCHANGED <<result, invocations, cleanStart>>
        BY <2>5, <3>4 DEF SweepFails, Exhausted, MaxAttempts, NextAttempt
      <4>2. attempt + 1 \in 1 .. MaxAttempts
        BY <3>1, <3>4 DEF MaxAttempts
      <4>3. TypeOK' /\ SweptSoFar'
        BY <2>0, <3>2, <4>1, <4>2, BeginTypes DEF TypeOK
      <4>4. RetryFileByAttempt'
        BY <2>0, <3>1, <3>2, <3>4, <4>1, <4>2, BeginTypes DEF RetryFileByAttempt
      <4>5. result' = "INCOMPLETE"
        BY <3>1, <4>1 DEF Running
      <4> QED
        BY <4>3, <4>4, <4>5 DEF DeployInv, SuccessIsDeployed, LeavesNoRetryFile
    <3> QED
      BY <3>3, <3>4
  <2>6. CASE Interrupt
    BY <2>0, <2>6
      DEF Interrupt, sweepVars, DeployInv, TypeOK, SweptSoFar, RetryFileByAttempt, Running,
         SuccessIsDeployed, LeavesNoRetryFile
  <2>7. CASE UNCHANGED vars
    BY <2>0, <2>7 DEF vars, sweepVars, DeployInv, TypeOK, SweptSoFar, RetryFileByAttempt, Running,
         SuccessIsDeployed, LeavesNoRetryFile
  <2> QED
    BY <2>1, <2>2, <2>3, <2>4, <2>5, <2>6, <2>7 DEF Next, Step
<1> QED
  BY <1>1, <1>2, PTL DEF Spec

(***************************************************************************)
(* DEPLOY_RESULT, the attempt and the retry file keep their types: there   *)
(* is never a fourth attempt.  (deploy.sh:414, 479)                        *)
(***************************************************************************)
THEOREM DeployTypeCorrect == Spec => []TypeOK
<1>1. DeployInv => TypeOK
  BY DEF DeployInv
<1> QED
  BY <1>1, DeployInvariant, PTL

(***************************************************************************)
(* deploy.sh says SUCCESS only after one sweep has applied every play to   *)
(* every one of its hosts, whatever was repaired, interrupted or left      *)
(* behind before.                                                          *)
(***************************************************************************)
THEOREM SuccessDeploys == Spec => []SuccessIsDeployed
<1>1. DeployInv => SuccessIsDeployed
  BY DEF DeployInv
<1> QED
  BY <1>1, DeployInvariant, PTL

(***************************************************************************)
(* An invocation that began without a retry file and was not interrupted   *)
(* ends without one.                                                       *)
(***************************************************************************)
THEOREM RetryFileCleared == Spec => []LeavesNoRetryFile
<1>1. DeployInv => LeavesNoRetryFile
  BY DEF DeployInv
<1> QED
  BY <1>1, DeployInvariant, PTL

-------------------------------------------------------------------------------
(***************************************************************************)
(* fuxa_bootstrap.py.                                                      *)
(***************************************************************************)

(***************************************************************************)
(* What was fetched is still what the server has, until the upload.        *)
(***************************************************************************)
FetchHolds ==
  pc \in {"settings", "set", "match", "ok", "unchanged"} /\ ~saved /\ current \in Looks
    => stored = current

(***************************************************************************)
(* Past the settings, the setting is there or the warning is out.          *)
(***************************************************************************)
SettingDone ==
  pc \in {"match", "post", "verify", "ok", "unchanged"} => broadcast \/ warned

(***************************************************************************)
(* A run that ended well has fetched a project that looks like ours.       *)
(***************************************************************************)
EndsLookedAt == pc \in Succeeded => current \in Looks

FuxaInv == FuxaTypeOK /\ FetchHolds /\ SettingDone /\ EndsLookedAt

(***************************************************************************)
(* Every reachable state is well typed and has the three parts above: the  *)
(* induction the theorems below rest on.                                   *)
(***************************************************************************)
LEMMA FuxaInvariance == ASSUME Sensible PROVE FuxaSpec => []FuxaInv
<1>1. FuxaInit => FuxaInv
  BY DEF Sensible, FuxaInit, FuxaInv, FuxaTypeOK, FetchHolds, SettingDone, EndsLookedAt,
         Requests, Ended, Succeeded
<1>2. FuxaInv /\ [FuxaNext]_fuxaVars => FuxaInv'
  <2> SUFFICES ASSUME FuxaInv, [FuxaNext]_fuxaVars PROVE FuxaInv'
    OBVIOUS
  <2> USE DEF FuxaInv, FuxaTypeOK, FetchHolds, SettingDone, EndsLookedAt, Requests, Ended, Succeeded
  <2>1. CASE WaitFor
    BY <2>1 DEF WaitFor, Fail
  <2>2. CASE GetUnauthenticated
    BY <2>2, Sensible DEF GetUnauthenticated, Fail, Fetches, Sensible
  <2>3. CASE SignIn
    BY <2>3 DEF SignIn, Fail
  <2>4. CASE GetAgain
    <3>1. CASE Fail /\ UNCHANGED current
      BY <2>4, <3>1 DEF GetAgain, Fail
    <3>2. CASE pc' = "settings" /\ Fetches
      BY <2>4, <3>2, Sensible DEF GetAgain, Fetches, Sensible
    <3> QED
      BY <2>4, <3>1, <3>2 DEF GetAgain
  <2>5. CASE GetSettings
    BY <2>5 DEF GetSettings, Fail
  <2>6. CASE PostSettings
    BY <2>6 DEF PostSettings, Fail
  <2>7. CASE Match
    BY <2>7 DEF Match
  <2>8. CASE PostProject
    BY <2>8, Sensible DEF PostProject, Fail, Sensible
  <2>9. CASE Verify
    BY <2>9, Sensible DEF Verify, Fail, Fetches, Sensible
  <2>10. CASE PlayAgain
    BY <2>10 DEF PlayAgain
  <2>11. CASE EditorSaves
    BY <2>11 DEF EditorSaves
  <2>12. CASE UNCHANGED fuxaVars
    BY <2>12 DEF fuxaVars
  <2> QED
    BY <2>1, <2>2, <2>3, <2>4, <2>5, <2>6, <2>7, <2>8, <2>9, <2>10, <2>11, <2>12 DEF FuxaNext
<1> QED
  BY <1>1, <1>2, PTL DEF FuxaSpec

(***************************************************************************)
(* The variables keep their types, and a secured server is asked for the   *)
(* project's state only with a token.                                      *)
(***************************************************************************)
THEOREM FuxaTypeCorrect == ASSUME Sensible PROVE FuxaSpec => []FuxaTypeOK
<1>1. FuxaInv => FuxaTypeOK
  BY DEF FuxaInv
<1> QED
  BY <1>1, FuxaInvariance, PTL

(***************************************************************************)
(* Success, with or without an upload, leaves a project that looks like    *)
(* ours, whatever the server does with what it acknowledged.               *)
(***************************************************************************)
THEOREM SuccessIsOurs == ASSUME Sensible PROVE FuxaSpec => []SuccessLooksRight
<1>1. FuxaInv => SuccessLooksRight
  BY DEF FuxaInv, FetchHolds, EndsLookedAt, SuccessLooksRight, Succeeded
<1> QED
  BY <1>1, FuxaInvariance, PTL

(***************************************************************************)
(* Success leaves broadcastAll set, or a warning.                          *)
(***************************************************************************)
THEOREM BroadcastSettled == ASSUME Sensible PROVE FuxaSpec => []BroadcastsOrWarns
<1>1. FuxaInv => BroadcastsOrWarns
  BY DEF FuxaInv, SettingDone, BroadcastsOrWarns, Succeeded
<1> QED
  BY <1>1, FuxaInvariance, PTL

(***************************************************************************)
(* Forced and with acknowledged projects kept, the upload is still there   *)
(* at the verification and after it, and a skip does not happen.           *)
(***************************************************************************)
UploadHolds == /\ pc # "unchanged"
               /\ pc \in {"verify", "ok"} /\ ~saved => stored = target

(***************************************************************************)
(* The role's own command line, --force: success leaves the very file.     *)
(***************************************************************************)
THEOREM ForcedInstallsTheFile ==
  ASSUME Forced = TRUE, Durable = TRUE PROVE FuxaSpec => []SuccessIsTarget
<1>1. FuxaInit => UploadHolds
  BY DEF FuxaInit, UploadHolds
<1>2. UploadHolds /\ [FuxaNext]_fuxaVars => UploadHolds'
  <2> SUFFICES ASSUME UploadHolds, [FuxaNext]_fuxaVars PROVE UploadHolds'
    OBVIOUS
  <2> USE DEF UploadHolds
  <2>1. CASE WaitFor \/ GetUnauthenticated \/ SignIn \/ GetAgain \/ GetSettings \/ PostSettings
    BY <2>1 DEF WaitFor, GetUnauthenticated, SignIn, GetAgain, GetSettings, PostSettings, Fail
  <2>2. CASE Match
    BY <2>2, Forced = TRUE DEF Match
  <2>3. CASE PostProject
    BY <2>3, Durable = TRUE DEF PostProject, Fail
  <2>4. CASE Verify
    BY <2>4 DEF Verify, Fail
  <2>5. CASE PlayAgain
    BY <2>5 DEF PlayAgain
  <2>6. CASE EditorSaves
    BY <2>6 DEF EditorSaves
  <2>7. CASE UNCHANGED fuxaVars
    BY <2>7 DEF fuxaVars
  <2> QED
    BY <2>1, <2>2, <2>3, <2>4, <2>5, <2>6, <2>7 DEF FuxaNext
<1>3. UploadHolds => SuccessIsTarget
  BY DEF UploadHolds, SuccessIsTarget, Succeeded
<1> QED
  BY <1>1, <1>2, <1>3, PTL DEF FuxaSpec
===============================================================================
