----------------------------- MODULE FuxaBootstrap -----------------------------
(***************************************************************************)
(* fuxa_bootstrap.py, one action per request: every play of the fuel_hmi   *)
(* role runs it against the FUXA server to import the rendered project.    *)
(* FUXA keeps one project; somebody may save another one from its editor   *)
(* at any moment.  Projects are told apart by their content, and by        *)
(* whether project_matches takes them for ours (device name, device type   *)
(* and the ids of the two views).                                          *)
(***************************************************************************)
EXTENDS Naturals

CONSTANTS
  Projects,    \* contents of a project
  NoProject,   \* no project on the server, or an answer that is not JSON
  Looks,       \* the projects project_matches accepts
  Secured,     \* the server wants a login
  Forced,      \* --force (the role always passes it)
  Durable      \* a project the server acknowledged is the one it keeps

Sensible ==
  /\ Looks \subseteq Projects
  /\ NoProject \notin Projects
  /\ {Secured, Forced, Durable} \subseteq BOOLEAN

VARIABLES
  pc,          \* next request, or how the last run ended
  target,      \* the rendered project file
  token,       \* a JWT was returned
  current,     \* the project as last fetched
  stored,      \* (server) the project
  broadcast,   \* (server) settings.broadcastAll
  warned,      \* this run printed the WARN about it
  saved        \* (history) the editor saved since this run began

fuxaVars == <<pc, target, token, current, stored, broadcast, warned, saved>>

Requests == {"wait", "get", "signin", "again", "settings", "set", "match", "post", "verify"}
Succeeded == {"ok", "unchanged"}
Ended == Succeeded \cup {"failed"}

FuxaTypeOK ==
  /\ pc \in Requests \cup Ended
  /\ target \in Looks
  /\ {current, stored} \subseteq Projects \cup {NoProject}
  /\ {token, broadcast, warned, saved} \subseteq BOOLEAN
  /\ pc \in Requests \ {"wait", "get", "signin"} => (Secured => token)

(***************************************************************************)
(* A fresh server; the first play has rendered the file.                   *)
(***************************************************************************)
FuxaInit ==
  /\ pc = "wait"
  /\ target \in Looks
  /\ stored \in Projects \cup {NoProject}
  /\ broadcast \in BOOLEAN
  /\ current = NoProject
  /\ token = FALSE /\ warned = FALSE /\ saved = FALSE

-------------------------------------------------------------------------------
(***************************************************************************)
(* A request that gets no answer, or one the script does not take, ends    *)
(* the run: SystemExit, HTTPError, RequestException or PermissionError.    *)
(***************************************************************************)
Fail == pc' = "failed"

(***************************************************************************)
(* wait_for: below 500, any answer will do; 60 seconds without one fail.   *)
(***************************************************************************)
WaitFor ==
  /\ pc = "wait"
  /\ (pc' = "get" \/ Fail)
  /\ UNCHANGED <<target, token, current, stored, broadcast, warned, saved>>

(***************************************************************************)
(* get_current_project: no project (404, not JSON) is None.  Without a     *)
(* token a secured server answers 401, with one 401 is not caught.         *)
(***************************************************************************)
Fetches == current' \in {stored, NoProject}

GetUnauthenticated ==
  /\ pc = "get"
  /\ \/ Secured /\ pc' = "signin" /\ UNCHANGED current
     \/ ~Secured /\ pc' = "settings" /\ Fetches
     \/ Fail /\ UNCHANGED current
  /\ UNCHANGED <<target, token, stored, broadcast, warned, saved>>

(***************************************************************************)
(* _signin tries both paths; a token from either will do.                  *)
(***************************************************************************)
SignIn ==
  /\ pc = "signin"
  /\ \/ pc' = "again" /\ token' = TRUE
     \/ Fail /\ UNCHANGED token
  /\ UNCHANGED <<target, current, stored, broadcast, warned, saved>>

GetAgain ==
  /\ pc = "again"
  /\ \/ pc' = "settings" /\ Fetches
     \/ Fail /\ UNCHANGED current
  /\ UNCHANGED <<target, token, stored, broadcast, warned, saved>>

(***************************************************************************)
(* ensure_broadcast_all: nothing to do when the setting is read as true;   *)
(* any other answer leads to the POST.  A refusal is a warning only, a     *)
(* lost connection is fatal, whether or not the server took the setting.   *)
(***************************************************************************)
GetSettings ==
  /\ pc = "settings"
  /\ \/ pc' = "match" /\ broadcast
     \/ pc' = "set"
     \/ Fail
  /\ UNCHANGED <<target, token, current, stored, broadcast, warned, saved>>

PostSettings ==
  /\ pc = "set"
  /\ \/ pc' = "match" /\ broadcast' = TRUE /\ UNCHANGED warned
     \/ pc' = "match" /\ warned' = TRUE /\ UNCHANGED broadcast
     \/ Fail /\ broadcast' \in {broadcast, TRUE} /\ UNCHANGED warned
  /\ UNCHANGED <<target, token, current, stored, saved>>

(***************************************************************************)
(* main: only a project that looks like ours, and no --force, skips.       *)
(***************************************************************************)
Match ==
  /\ pc = "match"
  /\ pc' = IF ~Forced /\ current \in Looks THEN "unchanged" ELSE "post"
  /\ UNCHANGED <<target, token, current, stored, broadcast, warned, saved>>

(***************************************************************************)
(* post_project: acknowledged, or refused, or lost after the server had it.*)
(***************************************************************************)
PostProject ==
  /\ pc = "post"
  /\ \/ pc' = "verify" /\ stored' \in (IF Durable THEN {target} ELSE {stored, target})
     \/ Fail /\ stored' \in {stored, target}
  /\ UNCHANGED <<target, token, current, broadcast, warned, saved>>

(***************************************************************************)
(* The re-fetch: anything that looks like ours passes.                     *)
(***************************************************************************)
Verify ==
  /\ pc = "verify"
  /\ \/ Fetches /\ pc' = IF current' \in Looks THEN "ok" ELSE "failed"
     \/ Fail /\ UNCHANGED current
  /\ UNCHANGED <<target, token, stored, broadcast, warned, saved>>

(***************************************************************************)
(* A later play renders the file anew and runs the script again.           *)
(***************************************************************************)
PlayAgain ==
  /\ pc \in Ended
  /\ pc' = "wait"
  /\ target' \in Looks
  /\ current' = NoProject
  /\ token' = FALSE /\ warned' = FALSE /\ saved' = FALSE
  /\ UNCHANGED <<stored, broadcast>>

EditorSaves ==
  /\ stored' \in Projects
  /\ saved' = TRUE
  /\ UNCHANGED <<pc, target, token, current, broadcast, warned>>

FuxaNext ==
  \/ WaitFor \/ GetUnauthenticated \/ SignIn \/ GetAgain
  \/ GetSettings \/ PostSettings \/ Match \/ PostProject \/ Verify
  \/ PlayAgain \/ EditorSaves

FuxaSpec == FuxaInit /\ [][FuxaNext]_fuxaVars

-------------------------------------------------------------------------------
(***************************************************************************)
(* A run that ends well, with "no change" or "uploaded and verified",      *)
(* leaves a project on the server that looks like ours, unless the editor  *)
(* saved meanwhile: the skip relies on a fetch made before the settings    *)
(* were posted.  (fuxa_bootstrap.py:221-239)                               *)
(***************************************************************************)
SuccessLooksRight == pc \in Succeeded /\ ~saved => stored \in Looks

(***************************************************************************)
(* A forced run that ends well leaves the very file it was given, although *)
(* its verification could not tell it from an older one; so it does only   *)
(* where acknowledged projects are kept.  (fuxa_bootstrap.py:226-238)      *)
(***************************************************************************)
SuccessIsTarget == pc \in Succeeded /\ ~saved => stored = target

(***************************************************************************)
(* A run that ends well has left broadcastAll set or has said so.          *)
(* (fuxa_bootstrap.py:143-177)                                             *)
(***************************************************************************)
BroadcastsOrWarns == pc \in Succeeded => broadcast \/ warned

===============================================================================
