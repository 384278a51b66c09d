--------------------------- MODULE ServiceManager ---------------------------
(***************************************************************************)
(* opengeneral daemon install, uninstall, start and stop against systemd   *)
(* and launchd (src/src/opengeneral/service.py, service_systemd.py,        *)
(* service_launchd.py), while the daemon they supervise ends and comes     *)
(* back on its own.                                                        *)
(*                                                                         *)
(* One command runs at a time; a step is one file operation or one call of *)
(* systemctl or launchctl.  The service managers are external: a call may  *)
(* fail for reasons of its own, and some failures have half of the effect. *)
(***************************************************************************)
CONSTANT None

Systems == {"systemd", "launchd"}
Commands == {"install", "uninstall", "start", "stop"}

\* The unit or the plist: of this program, or of an earlier one at another path.
Definitions == {"old", "new"}

ASSUME NoneIsNoDefinition == None \notin Definitions \cup Commands

VARIABLES
    system,      \* the service manager: systemd or launchd
    tool,        \* systemctl is there (containers have none)
    file,        \* the definition on disk, or None
    loaded,      \* the definition the manager knows
    enabled,     \* systemd starts the unit at boot
    daemon,      \* up, ending (told to), waiting to be restarted, down, or failed
    pc, command, \* the next step of the command under way
    previous,    \* the definition an install found
    answer,      \* what the last command told the user, or none
    \* Ghosts, read by properties only:
    before,      \* what the last command found: file and enabled
    ignored,     \* a failure that nobody checks left the manager behind the disk
    atRest       \* the daemon has stopped for good: as told, or with code 0 or 78

manager == <<loaded, enabled, daemon>>
ghosts == <<before, ignored, atRest>>
vars == <<system, tool, file, manager, pc, command, previous, answer, ghosts>>

Systemd == system = "systemd"
At(step) == pc = step
GoTo(step) == pc' = step /\ UNCHANGED answer

\* The command is over.
Done(a) == pc' = "idle" /\ answer' = a

Init ==
    /\ system \in Systems
    /\ tool \in (IF Systemd THEN BOOLEAN ELSE {TRUE})
    /\ file \in (IF tool THEN {None, "old"} ELSE {None})
    /\ loaded = file
    /\ enabled = (Systemd /\ file # None)
    /\ daemon \in (IF file = None THEN {"down"} ELSE {"down", "up"})
    /\ pc = "idle"
    /\ command = None
    /\ previous = None
    /\ answer = "none"
    /\ before = [file |-> file, enabled |-> enabled]
    /\ ignored = FALSE
    /\ atRest = FALSE

\* Mutant: the uninstall of systemd everywhere.
RunMixed(c) ==
    /\ At("idle")
    /\ command' = c
    /\ answer' = "none"
    /\ before' = [file |-> file, enabled |-> enabled]
    /\ pc' = CASE c = "install" -> "write" [] c = "uninstall" -> "disable" [] OTHER -> "query"
    /\ UNCHANGED <<system, tool, file, manager, previous, ignored, atRest>>

\* service.py hands the command to the backend of the system.
Run(c) ==
    /\ At("idle")
    /\ command' = c
    /\ answer' = "none"
    /\ before' = [file |-> file, enabled |-> enabled]
    /\ pc' = CASE c = "install"   -> "write"
               [] c = "uninstall" -> IF Systemd THEN "disable" ELSE "bootoutLast"
               [] OTHER           -> "query"
    /\ UNCHANGED <<system, tool, file, manager, previous, ignored, atRest>>

-----------------------------------------------------------------------------
(* install: the definition is replaced, then the manager is told.          *)

\* Only root may write.
Write ==
    /\ At("write")
    /\ \/ Done("error") /\ UNCHANGED <<file, previous>>
       \/ /\ previous' = file
          /\ file' = "new"
          /\ GoTo(IF Systemd THEN "reload" ELSE "bootout")
    /\ UNCHANGED <<system, tool, manager, command, ghosts>>

Reload ==
    /\ At("reload")
    /\ \/ tool /\ loaded' = file /\ GoTo("enable")
       \/ GoTo("restore") /\ UNCHANGED loaded
    /\ UNCHANGED <<system, tool, file, enabled, daemon, command, previous, ghosts>>

\* enable makes the link, then has the manager read it: a call that fails may
\* have made the link already.
Enable ==
    /\ At("enable")
    /\ \/ enabled' = TRUE /\ Done("ok")
       \/ enabled' \in {enabled, TRUE} /\ GoTo("restore")
    /\ UNCHANGED <<system, tool, file, loaded, daemon, command, previous, ghosts>>

\* bootout ends the daemon and forgets the definition, fails, or returns before
\* the daemon has ended.  Nobody checks.
Bootout ==
    /\ At("bootout") \/ At("bootoutLast")
    /\ \/ loaded # None /\ loaded' = None /\ daemon' = "down" /\ UNCHANGED ignored
       \/ /\ loaded # None /\ daemon = "up"
          /\ loaded' = None /\ daemon' = "ending" /\ UNCHANGED ignored
       \/ /\ UNCHANGED <<loaded, daemon>>
          /\ ignored' = (ignored \/ (At("bootoutLast") /\ loaded # None))
    /\ GoTo(IF At("bootout") THEN "bootstrap" ELSE "unlink")
    /\ UNCHANGED <<system, tool, file, enabled, command, previous, before, atRest>>

\* bootstrap loads the plist and, RunAtLoad, starts the daemon.  It fails if
\* the service is loaded still, or not gone yet.
Bootstraps ==
    /\ loaded = None /\ daemon # "ending"
    /\ loaded' = file /\ daemon' = "up" /\ atRest' = FALSE

Bootstrap ==
    /\ At("bootstrap")
    /\ \/ Bootstraps /\ Done("ok")
       \/ GoTo("restore") /\ UNCHANGED <<loaded, daemon, atRest>>
    /\ UNCHANGED <<system, tool, file, enabled, command, previous, before, ignored>>

\* Mutant: whatever was written is taken away again.
RestoreNothing ==
    /\ At("restore")
    /\ file' = None
    /\ IF Systemd THEN GoTo("reloadLast") ELSE Done("error")
    /\ UNCHANGED <<system, tool, manager, command, previous, ghosts>>

\* Mutant: the manager keeps the definition it was given.
RestoreSilently ==
    /\ At("restore")
    /\ file' = previous
    /\ Done("error")
    /\ UNCHANGED <<system, tool, manager, command, previous, ghosts>>

\* A failed install puts back the definition it found, and tells the manager.
\* It does not disable what enable may have linked.
Restore ==
    /\ At("restore")
    /\ file' = previous
    /\ IF Systemd THEN GoTo("reloadLast")
       ELSE IF previous # None THEN GoTo("bootstrapLast") ELSE Done("error")
    /\ UNCHANGED <<system, tool, manager, command, previous, ghosts>>

BootstrapLast ==
    /\ At("bootstrapLast")
    /\ \/ Bootstraps /\ UNCHANGED ignored
       \/ ignored' = (ignored \/ loaded # file) /\ UNCHANGED <<loaded, daemon, atRest>>
    /\ Done("error")
    /\ UNCHANGED <<system, tool, file, enabled, command, previous, before>>

-----------------------------------------------------------------------------
(* uninstall.                                                              *)

Running(d) == d \in {"up", "ending", "waiting"}

\* Mutant: no failure of disable is worth a warning.
DisableQuietly ==
    /\ At("disable")
    /\ \/ tool /\ enabled' = FALSE /\ daemon' = "down" /\ GoTo("unlink")
       \/ ~tool /\ Done("error") /\ UNCHANGED <<enabled, daemon>>
       \/ /\ tool /\ GoTo("unlink")
          /\ enabled' \in {enabled, FALSE} /\ UNCHANGED daemon
    /\ UNCHANGED <<system, tool, file, loaded, command, previous, ghosts>>

\* disable --now stops the daemon and removes the link.  Only the answer that
\* nothing is loaded is a failure without a warning.
Disable ==
    /\ At("disable")
    /\ \/ tool /\ enabled' = FALSE /\ daemon' = "down" /\ GoTo("unlink")
       \/ tool /\ loaded = None /\ ~enabled /\ ~Running(daemon) /\ GoTo("unlink")
               /\ UNCHANGED <<enabled, daemon>>
       \/ ~tool /\ Done("error") /\ UNCHANGED <<enabled, daemon>>
       \/ /\ tool /\ pc' = "unlink" /\ answer' = "warned"
          /\ enabled' \in {enabled, FALSE} /\ UNCHANGED daemon
    /\ UNCHANGED <<system, tool, file, loaded, command, previous, ghosts>>

Final == IF answer = "warned" THEN "warned" ELSE "ok"

Unlink ==
    /\ At("unlink")
    /\ file' = None
    /\ IF Systemd THEN GoTo("reloadLast") ELSE Done(Final)
    /\ UNCHANGED <<system, tool, manager, command, previous, ghosts>>

\* The last daemon-reload of an uninstall, and of an install that failed.
ReloadLast ==
    /\ At("reloadLast")
    /\ \/ tool /\ loaded' = file /\ UNCHANGED ignored
       \/ ignored' = (ignored \/ loaded # file) /\ UNCHANGED loaded
    /\ Done(IF command = "install" THEN "error" ELSE Final)
    /\ UNCHANGED <<system, tool, file, enabled, daemon, command, previous, before, atRest>>

-----------------------------------------------------------------------------
(* start and stop.                                                         *)

\* Mutant: a unit that is being stopped still counts as running.
StatusCoarse ==
    IF Systemd
    THEN CASE daemon \in {"up", "ending"} -> "running" [] daemon = "waiting" -> "starting"
           [] daemon = "down" -> "stopped"             [] OTHER -> "failed"
    ELSE IF loaded = None THEN "not installed"
         ELSE IF daemon \in {"up", "ending"} THEN "running" ELSE "stopped"

\* status_state.  launchd tells only whether there is a process.
Status ==
    IF Systemd
    THEN CASE daemon = "up"     -> "running"  [] daemon = "waiting" -> "starting"
           [] daemon = "ending" -> "stopping" [] daemon = "down"    -> "stopped"
           [] OTHER -> "failed"
    ELSE IF loaded = None THEN "not installed"
         ELSE IF daemon \in {"up", "ending"} THEN "running" ELSE "stopped"

\* The states in which a command has nothing to do.
Idempotent == CASE command = "start" -> {"running"}
                [] Systemd           -> {"stopped"}
                [] OTHER             -> {"stopped", "not installed"}

\* start and stop look first.  What stop finds stopped is at rest, except that
\* launchd also calls a daemon stopped that it is about to restart.
Query ==
    /\ At("query")
    /\ \/ tool /\ Status \in Idempotent /\ Done("ok")
          /\ atRest' = (atRest \/ (command = "stop" /\ (Systemd \/ daemon # "waiting")))
       \/ tool /\ Status \notin Idempotent /\ GoTo(command) /\ UNCHANGED atRest
       \/ ~tool /\ Done("error") /\ UNCHANGED atRest
    /\ UNCHANGED <<system, tool, file, manager, command, previous, before, ignored>>

\* systemctl start, after a stop that is under way; launchctl kickstart.
Start ==
    /\ At("start")
    /\ \/ loaded # None /\ daemon # "ending" /\ daemon' = "up" /\ atRest' = FALSE /\ Done("ok")
       \/ Done("error") /\ UNCHANGED <<daemon, atRest>>
    /\ UNCHANGED <<system, tool, file, loaded, enabled, command, previous, before, ignored>>

\* systemctl stop ends the daemon, or its wait for a restart, and comes back
\* when it has; launchctl kill sends the signal, if there is a process.
Stop ==
    /\ At("stop")
    /\ \/ /\ daemon \in {"up", "ending"} \/ Systemd
          /\ daemon' = (CASE daemon \in {"up", "ending"} -> "ending"
                           [] daemon = "waiting"         -> "down"
                           [] OTHER                      -> daemon)
          /\ IF Systemd THEN GoTo("await") /\ UNCHANGED atRest ELSE Done("ok") /\ atRest' = TRUE
       \/ Done("error") /\ UNCHANGED <<daemon, atRest>>
    /\ UNCHANGED <<system, tool, file, loaded, enabled, command, previous, before, ignored>>

Await ==
    /\ At("await")
    /\ daemon # "ending"
    /\ Done("ok")
    /\ atRest' = TRUE
    /\ UNCHANGED <<system, tool, file, manager, command, previous, before, ignored>>

-----------------------------------------------------------------------------
(* The daemon, and the world.                                              *)

Ends == {"stopped", "config", "error", "killed"}   \* codes 0, 78, 1, and a signal

\* Mutant: the unit without RestartPreventExitStatus.
RestartsAll(how) == IF Systemd THEN how # "stopped" ELSE how = "killed"

\* Restart=on-failure but for code 78; KeepAlive Crashed.
Restarts(how) == IF Systemd THEN how \in {"error", "killed"} ELSE how = "killed"

\* A daemon that was told to end does so as told, or is killed: by systemd,
\* which has told it, or by others.  Another ends in any way.
Exit(how) ==
    /\ \/ daemon = "up"
       \/ daemon = "ending" /\ how \in {"stopped", "killed"}
    /\ LET restarts == /\ Restarts(how) /\ loaded # None
                       /\ ~(Systemd /\ daemon = "ending")
       IN  /\ daemon' \in (CASE restarts /\ Systemd             -> {"waiting", "failed"}
                             [] restarts                        -> {"waiting"}
                             [] Systemd /\ how = "config"       -> {"failed"}
                             [] OTHER                           -> {"down"})
           /\ atRest' = (IF ~Systemd /\ restarts THEN FALSE
                         ELSE atRest \/ how \in {"stopped", "config"})
    /\ UNCHANGED <<system, tool, file, loaded, enabled, pc, command, previous, answer, before,
                   ignored>>

\* After RestartSec, or launchd's pause.
Respawn ==
    /\ daemon = "waiting"
    /\ daemon' = (IF loaded # None THEN "up" ELSE "down")
    /\ UNCHANGED <<system, tool, file, loaded, enabled, pc, command, previous, answer, ghosts>>

\* Ctrl-C, which no handler of the command catches.  What was sent stays sent.
Interrupt ==
    /\ ~At("idle")
    /\ Done("interrupted")
    /\ ignored' = (ignored \/ command \in {"install", "uninstall"})
    /\ UNCHANGED <<system, tool, file, manager, command, previous, before, atRest>>

\* What the machine starts at boot.
Boots(f, e) == IF Systemd => e THEN f ELSE None

Reboot ==
    /\ loaded' = file
    /\ daemon' = IF Boots(file, enabled) = None THEN "down" ELSE "up"
    /\ pc' = "idle" /\ answer' = "none"
    /\ ignored' = FALSE
    /\ atRest' = FALSE
    /\ UNCHANGED <<system, tool, file, enabled, command, previous, before>>

CommandStep ==
    \/ \E c \in Commands : Run(c)
    \/ Write \/ Reload \/ Enable \/ Bootout \/ Bootstrap \/ Restore \/ BootstrapLast
    \/ Disable \/ Unlink \/ ReloadLast
    \/ Query \/ Start \/ Stop \/ Await

Next == CommandStep \/ (\E how \in Ends : Exit(how)) \/ Respawn \/ Interrupt \/ Reboot

Spec == Init /\ [][Next]_vars

-----------------------------------------------------------------------------
(* Properties.                                                             *)

InstallSteps == {"write", "reload", "enable", "bootout", "bootstrap", "restore", "bootstrapLast"}
UninstallSteps == {"disable", "bootoutLast", "unlink"}

\* Types; a command is at one of its own steps, of its system.
TypeOK ==
    /\ system \in Systems /\ tool \in BOOLEAN
    /\ {file, loaded, previous} \subseteq Definitions \cup {None}
    /\ enabled \in BOOLEAN
    /\ daemon \in {"up", "ending", "waiting", "down", "failed"}
    /\ command \in Commands \cup {None}
    /\ answer \in {"none", "ok", "error", "warned", "interrupted"}
    /\ before \in [file : Definitions \cup {None}, enabled : BOOLEAN]
    /\ ignored \in BOOLEAN /\ atRest \in BOOLEAN
    /\ pc \in InstallSteps \cup UninstallSteps
             \cup {"idle", "reloadLast", "query", "start", "stop", "await"}
    /\ pc \in InstallSteps => command = "install"
    /\ pc \in UninstallSteps => command = "uninstall"
    /\ pc \in {"start", "stop", "query"} => command \in {"start", "stop"}
    /\ pc = "await" => command = "stop"
    /\ pc \in {"reload", "enable", "disable", "reloadLast", "await"} => Systemd
    /\ pc \in {"bootout", "bootoutLast", "bootstrap", "bootstrapLast"} => ~Systemd

\* An install does all of it, or its definition is gone again: the machine boots
\* the new one, and the manager knows it, or whichever call of the manager failed
\* the disk has the definition, or none, that was there before.  The link is as
\* it was too, or there all the same if it was enable that failed: a link to
\* nothing, if there was no definition (install).
InstallRollsBack ==
    command = "install" =>
        /\ answer = "ok" => Boots(file, enabled) = "new" /\ loaded = "new"
        /\ answer = "error" => file = before.file /\ (before.enabled => enabled)

\* Between commands the manager knows the definition that is on disk, after
\* installs that were rolled back too, unless a call that nobody checks failed
\* or a command was interrupted (install, uninstall).
ManagerInStep == At("idle") /\ ~ignored => loaded = file

\* A daemon that was stopped, ended as asked, or refused its configuration stays
\* down until it is started, installed or booted.  The ghost leaves one case
\* out: under launchd, a daemon that is killed comes back, even between a stop
\* and the end it asked for, and a stop during the pause before that reports
\* it as stopped already (stop, unit_content, plist_content).
AtRestStaysDown == atRest => daemon \notin {"up", "waiting"}

\* Under systemd a start that reports success is not undone by an earlier stop
\* that is still under way (start, _STATE_ALIASES).
StartTakes == Systemd /\ command = "start" /\ answer = "ok" => daemon # "ending"

\* Under systemd an uninstall without a warning leaves nothing: no unit, no link,
\* no daemon (uninstall).
QuietUninstallIsComplete ==
    Systemd /\ command = "uninstall" /\ answer = "ok"
        => file = None /\ ~enabled /\ ~Running(daemon)
=============================================================================
