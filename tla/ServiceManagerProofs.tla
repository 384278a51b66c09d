------------------------ MODULE ServiceManagerProofs ------------------------
(***************************************************************************)
(* Theorems about ServiceManager: what an install, an uninstall, a start   *)
(* and a stop leave behind, whichever calls fail and whatever the daemon   *)
(* does meanwhile.                                                         *)
(***************************************************************************)
EXTENDS ServiceManager, TLAPS

-----------------------------------------------------------------------------
(* The inductive invariant.  The first two parts are TypeOK.               *)

States ==
    /\ system \in {"systemd", "launchd"} /\ tool \in BOOLEAN
    /\ file \in {"old", "new", None} /\ loaded \in {"old", "new", None}
    /\ previous \in {"old", "new", None}
    /\ enabled \in BOOLEAN
    /\ daemon \in {"up", "ending", "waiting", "down", "failed"}
    /\ command \in {"install", "uninstall", "start", "stop", None}
    /\ answer \in {"none", "ok", "error", "warned", "interrupted"}
    /\ before \in [file : {"old", "new", None}, enabled : BOOLEAN]
    /\ ignored \in BOOLEAN /\ atRest \in BOOLEAN

Places ==
    /\ pc \in {"idle", "write", "reload", "enable", "bootout", "bootstrap", "restore",
               "bootstrapLast", "disable", "bootoutLast", "unlink", "reloadLast",
               "query", "start", "stop", "await"}
    /\ pc \in {"write", "reload", "enable", "bootout", "bootstrap", "restore", "bootstrapLast"}
           => command = "install"
    /\ pc \in {"disable", "bootoutLast", "unlink"} => command = "uninstall"
    /\ pc = "query" => command \in {"start", "stop"}
    /\ pc = "start" => command = "start"
    /\ pc \in {"stop", "await"} => command = "stop"
    /\ pc = "reloadLast" => command \in {"install", "uninstall"}
    /\ pc \in {"reload", "enable", "disable", "reloadLast", "await"} => Systemd
    /\ pc \in {"bootout", "bootoutLast", "bootstrap", "bootstrapLast"} => ~Systemd

\* What the user was told is of the last command, and final but for a warning.
Answers ==
    /\ ~At("idle") => answer \in {"none", "warned"}
    /\ answer = "warned" => command = "uninstall"

\* How far an install is: nothing is changed, the definition is, or it is back.
InstallProgress ==
    command = "install" =>
        /\ before.enabled => enabled
        /\ pc \in {"write", "reloadLast", "bootstrapLast"} => file = before.file
        /\ pc \in {"reload", "enable", "bootout", "bootstrap", "restore"}
               => file = "new" /\ previous = before.file
        /\ pc = "enable" => loaded = "new"
        /\ pc = "bootstrapLast" => file # None

\* An uninstall of systemd that has nothing to warn of has disabled the unit.
UninstallProgress ==
    command = "uninstall" /\ Systemd /\ answer = "none" =>
        /\ pc \in {"unlink", "reloadLast"} => ~enabled /\ ~Running(daemon)
        /\ pc = "reloadLast" => file = None

\* Where the manager and the disk differ, the command has yet to tell it.
InStep ==
    ~ignored =>
        /\ pc \in {"idle", "query", "start", "stop", "await", "write", "disable", "enable",
                   "bootoutLast"} => loaded = file
        /\ ~Systemd /\ pc \in {"bootout", "bootstrap", "restore"} /\ previous = None
               => loaded = None
        /\ ~Systemd /\ pc = "unlink" => loaded = None

\* Nothing revives a daemon at rest, one whose stop is awaited, or, under
\* launchd, one whose plist is not loaded.
Resting ==
    atRest \/ pc = "await" \/ (~Systemd /\ loaded = None) => daemon \notin {"up", "waiting"}

ServiceInv ==
    /\ States /\ Places /\ Answers
    /\ InstallProgress /\ InstallRollsBack
    /\ UninstallProgress /\ QuietUninstallIsComplete
    /\ InStep /\ Resting /\ StartTakes

-----------------------------------------------------------------------------
(* Every step preserves it: a lemma for each action, a step for each part. *)

\* Init establishes the invariant, whatever the machine was found with.
LEMMA ServiceInit == Init => ServiceInv
  <1> SUFFICES ASSUME Init PROVE ServiceInv
      OBVIOUS
  <1> USE NoneIsNoDefinition DEF Init, Systemd, Systems, Definitions
  <1>1. States /\ Places
      BY DEF States, Places
  <1>2. Answers /\ InstallProgress /\ InstallRollsBack
      BY DEF Answers, At, InstallProgress, InstallRollsBack
  <1>3. UninstallProgress /\ QuietUninstallIsComplete
      BY DEF UninstallProgress, QuietUninstallIsComplete
  <1>4. InStep /\ Resting /\ StartTakes
      BY DEF InStep, Resting, StartTakes
  <1> QED  BY <1>1, <1>2, <1>3, <1>4 DEF ServiceInv

\* A command begins: Run only records what it finds, and where the command starts.
LEMMA RunKeepsInv ==
    ASSUME ServiceInv, NEW c \in Commands, Run(c) PROVE ServiceInv'
  <1> USE NoneIsNoDefinition
      DEF ServiceInv, States, Places, Run, At, GoTo, Done, Systemd, manager, ghosts, Commands
  <1>1. States'
    <2>1. /\ system' \in {"systemd", "launchd"} /\ tool' \in BOOLEAN
          /\ file' \in {"old", "new", None} /\ previous' \in {"old", "new", None}
        OBVIOUS
    <2>2. loaded' \in {"old", "new", None} /\ daemon' \in {"up", "ending", "waiting", "down", "failed"}
        OBVIOUS
    <2>3. enabled' \in BOOLEAN /\ ignored' \in BOOLEAN /\ atRest' \in BOOLEAN
        OBVIOUS
    <2>4. /\ command' \in {"install", "uninstall", "start", "stop", None}
          /\ answer' \in {"none", "ok", "error", "warned", "interrupted"}
        OBVIOUS
    <2>5. before' \in [file : {"old", "new", None}, enabled : BOOLEAN]
        OBVIOUS
    <2> QED  BY <2>1, <2>2, <2>3, <2>4, <2>5
  <1>2. Places' /\ Answers'
      BY DEF Answers
  <1>3. InstallProgress' /\ InstallRollsBack'
      BY DEF Answers, InstallProgress, InstallRollsBack, Boots
  <1>4. UninstallProgress' /\ QuietUninstallIsComplete'
      BY DEF Answers, UninstallProgress, QuietUninstallIsComplete, Running
  <1>5. InStep'
      BY DEF InStep
  <1>6. Resting'
      BY DEF Resting
  <1>7. StartTakes'
      BY DEF Answers, StartTakes
  <1> QED  BY <1>1, <1>2, <1>3, <1>4, <1>5, <1>6, <1>7

\* Write changes the definition on disk, or nothing.
LEMMA WriteKeepsInv ==
    ASSUME ServiceInv, Write PROVE ServiceInv'
  <1> USE NoneIsNoDefinition
      DEF ServiceInv, States, Places, Write, At, GoTo, Done, Systemd, manager, ghosts
  <1>1. States'
    <2>1. /\ system' \in {"systemd", "launchd"} /\ tool' \in BOOLEAN
          /\ file' \in {"old", "new", None} /\ previous' \in {"old", "new", None}
        OBVIOUS
    <2>2. loaded' \in {"old", "new", None} /\ daemon' \in {"up", "ending", "waiting", "down", "failed"}
        OBVIOUS
    <2>3. enabled' \in BOOLEAN /\ ignored' \in BOOLEAN /\ atRest' \in BOOLEAN
        OBVIOUS
    <2>4. /\ command' \in {"install", "uninstall", "start", "stop", None}
          /\ answer' \in {"none", "ok", "error", "warned", "interrupted"}
        OBVIOUS
    <2>5. before' \in [file : {"old", "new", None}, enabled : BOOLEAN]
        OBVIOUS
    <2> QED  BY <2>1, <2>2, <2>3, <2>4, <2>5
  <1>2. Places' /\ Answers'
      BY DEF Answers
  <1>3. InstallProgress' /\ InstallRollsBack'
      BY DEF Answers, InstallProgress, InstallRollsBack, Boots
  <1>4. UninstallProgress' /\ QuietUninstallIsComplete'
      BY DEF Answers, UninstallProgress, QuietUninstallIsComplete, Running
  <1>5. InStep'
      BY DEF InStep
  <1>6. Resting'
      BY DEF Resting
  <1>7. StartTakes'
      BY DEF Answers, StartTakes
  <1> QED  BY <1>1, <1>2, <1>3, <1>4, <1>5, <1>6, <1>7

\* After daemon-reload the manager knows the new unit, or the install turns back.
LEMMA ReloadKeepsInv ==
    ASSUME ServiceInv, Reload PROVE ServiceInv'
  <1> USE NoneIsNoDefinition
      DEF ServiceInv, States, Places, Reload, At, GoTo, Done, Systemd, manager, ghosts
  <1>1. States'
    <2>1. /\ system' \in {"systemd", "launchd"} /\ tool' \in BOOLEAN
          /\ file' \in {"old", "new", None} /\ previous' \in {"old", "new", None}
        OBVIOUS
    <2>2. loaded' \in {"old", "new", None} /\ daemon' \in {"up", "ending", "waiting", "down", "failed"}
        OBVIOUS
    <2>3. enabled' \in BOOLEAN /\ ignored' \in BOOLEAN /\ atRest' \in BOOLEAN
        OBVIOUS
    <2>4. /\ command' \in {"install", "uninstall", "start", "stop", None}
          /\ answer' \in {"none", "ok", "error", "warned", "interrupted"}
        OBVIOUS
    <2>5. before' \in [file : {"old", "new", None}, enabled : BOOLEAN]
        OBVIOUS
    <2> QED  BY <2>1, <2>2, <2>3, <2>4, <2>5
  <1>2. Places' /\ Answers'
      BY DEF Answers
  <1>3. InstallProgress' /\ InstallRollsBack'
      BY DEF Answers, InstallProgress, InstallRollsBack, Boots
  <1>4. UninstallProgress' /\ QuietUninstallIsComplete'
      BY DEF Answers, UninstallProgress, QuietUninstallIsComplete, Running
  <1>5. InStep'
      BY DEF InStep
  <1>6. Resting'
      BY DEF Resting, InstallProgress
  <1>7. StartTakes'
      BY DEF Answers, StartTakes
  <1> QED  BY <1>1, <1>2, <1>3, <1>4, <1>5, <1>6, <1>7

\* The install of systemd succeeds with the link, or turns back.
LEMMA EnableKeepsInv ==
    ASSUME ServiceInv, Enable PROVE ServiceInv'
  <1> USE NoneIsNoDefinition
      DEF ServiceInv, States, Places, Enable, At, GoTo, Done, Systemd, manager, ghosts
  <1>1. States'
    <2>1. /\ system' \in {"systemd", "launchd"} /\ tool' \in BOOLEAN
          /\ file' \in {"old", "new", None} /\ previous' \in {"old", "new", None}
        OBVIOUS
    <2>2. loaded' \in {"old", "new", None} /\ daemon' \in {"up", "ending", "waiting", "down", "failed"}
        OBVIOUS
    <2>3. enabled' \in BOOLEAN /\ ignored' \in BOOLEAN /\ atRest' \in BOOLEAN
        OBVIOUS
    <2>4. /\ command' \in {"install", "uninstall", "start", "stop", None}
          /\ answer' \in {"none", "ok", "error", "warned", "interrupted"}
        OBVIOUS
    <2>5. before' \in [file : {"old", "new", None}, enabled : BOOLEAN]
        OBVIOUS
    <2> QED  BY <2>1, <2>2, <2>3, <2>4, <2>5
  <1>2. Places' /\ Answers'
      BY DEF Answers
  <1>3. InstallProgress' /\ InstallRollsBack'
      BY DEF Answers, InstallProgress, InstallRollsBack, Boots
  <1>4. UninstallProgress' /\ QuietUninstallIsComplete'
      BY DEF Answers, UninstallProgress, QuietUninstallIsComplete, Running
  <1>5. InStep'
      BY DEF InStep
  <1>6. Resting'
      BY DEF Resting
  <1>7. StartTakes'
      BY DEF Answers, StartTakes
  <1> QED  BY <1>1, <1>2, <1>3, <1>4, <1>5, <1>6, <1>7

\* bootout forgets the plist, or its failure is kept in mind.
LEMMA BootoutKeepsInv ==
    ASSUME ServiceInv, Bootout PROVE ServiceInv'
  <1> USE NoneIsNoDefinition
      DEF ServiceInv, States, Places, Bootout, At, GoTo, Done, Systemd, manager, ghosts
  <1>1. States'
    <2>1. /\ system' \in {"systemd", "launchd"} /\ tool' \in BOOLEAN
          /\ file' \in {"old", "new", None} /\ previous' \in {"old", "new", None}
        OBVIOUS
    <2>2. loaded' \in {"old", "new", None} /\ daemon' \in {"up", "ending", "waiting", "down", "failed"}
        OBVIOUS
    <2>3. enabled' \in BOOLEAN /\ ignored' \in BOOLEAN /\ atRest' \in BOOLEAN
        OBVIOUS
    <2>4. /\ command' \in {"install", "uninstall", "start", "stop", None}
          /\ answer' \in {"none", "ok", "error", "warned", "interrupted"}
        OBVIOUS
    <2>5. before' \in [file : {"old", "new", None}, enabled : BOOLEAN]
        OBVIOUS
    <2> QED  BY <2>1, <2>2, <2>3, <2>4, <2>5
  <1>2. Places' /\ Answers'
      BY DEF Answers
  <1>3. InstallProgress' /\ InstallRollsBack'
      BY DEF Answers, InstallProgress, InstallRollsBack, Boots
  <1>4. UninstallProgress' /\ QuietUninstallIsComplete'
      BY DEF Answers, UninstallProgress, QuietUninstallIsComplete, Running
  <1>5. InStep'
      BY DEF InStep
  <1>6. Resting'
      BY DEF Resting
  <1>7. StartTakes'
      BY DEF Answers, StartTakes
  <1> QED  BY <1>1, <1>2, <1>3, <1>4, <1>5, <1>6, <1>7

\* The install of launchd succeeds with the plist loaded, or turns back.
LEMMA BootstrapKeepsInv ==
    ASSUME ServiceInv, Bootstrap PROVE ServiceInv'
  <1> USE NoneIsNoDefinition
      DEF ServiceInv, States, Places, Bootstrap, Bootstraps, At, GoTo, Done, Systemd, manager, ghosts
  <1>1. States'
    <2>1. /\ system' \in {"systemd", "launchd"} /\ tool' \in BOOLEAN
          /\ file' \in {"old", "new", None} /\ previous' \in {"old", "new", None}
        OBVIOUS
    <2>2. loaded' \in {"old", "new", None} /\ daemon' \in {"up", "ending", "waiting", "down", "failed"}
        OBVIOUS
    <2>3. enabled' \in BOOLEAN /\ ignored' \in BOOLEAN /\ atRest' \in BOOLEAN
        OBVIOUS
    <2>4. /\ command' \in {"install", "uninstall", "start", "stop", None}
          /\ answer' \in {"none", "ok", "error", "warned", "interrupted"}
        OBVIOUS
    <2>5. before' \in [file : {"old", "new", None}, enabled : BOOLEAN]
        OBVIOUS
    <2> QED  BY <2>1, <2>2, <2>3, <2>4, <2>5
  <1>2. Places' /\ Answers'
      BY DEF Answers
  <1>3. InstallProgress' /\ InstallRollsBack'
      BY DEF Answers, InstallProgress, InstallRollsBack, Boots
  <1>4. UninstallProgress' /\ QuietUninstallIsComplete'
      BY DEF Answers, UninstallProgress, QuietUninstallIsComplete, Running
  <1>5. InStep'
      BY DEF InStep
  <1>6. Resting'
    <2>1. file = "new" /\ file # None
        BY DEF InstallProgress, Definitions
    <2>2. CASE Bootstraps /\ Done("ok")
        BY <2>1, <2>2 DEF Resting
    <2>3. CASE GoTo("restore") /\ UNCHANGED <<loaded, daemon, atRest>>
        BY <2>3 DEF Resting
    <2> QED  BY <2>2, <2>3
  <1>7. StartTakes'
      BY DEF Answers, StartTakes
  <1> QED  BY <1>1, <1>2, <1>3, <1>4, <1>5, <1>6, <1>7

\* Restore puts back what the install found.
LEMMA RestoreKeepsInv ==
    ASSUME ServiceInv, Restore PROVE ServiceInv'
  <1> USE NoneIsNoDefinition
      DEF ServiceInv, States, Places, Restore, At, GoTo, Done, Systemd, manager, ghosts
  <1>1. States'
    <2>1. /\ system' \in {"systemd", "launchd"} /\ tool' \in BOOLEAN
          /\ file' \in {"old", "new", None} /\ previous' \in {"old", "new", None}
        OBVIOUS
    <2>2. loaded' \in {"old", "new", None} /\ daemon' \in {"up", "ending", "waiting", "down", "failed"}
        OBVIOUS
    <2>3. enabled' \in BOOLEAN /\ ignored' \in BOOLEAN /\ atRest' \in BOOLEAN
        OBVIOUS
    <2>4. /\ command' \in {"install", "uninstall", "start", "stop", None}
          /\ answer' \in {"none", "ok", "error", "warned", "interrupted"}
        OBVIOUS
    <2>5. before' \in [file : {"old", "new", None}, enabled : BOOLEAN]
        OBVIOUS
    <2> QED  BY <2>1, <2>2, <2>3, <2>4, <2>5
  <1>2. Places' /\ Answers'
      BY DEF Answers
  <1>3. InstallProgress' /\ InstallRollsBack'
      BY DEF Answers, InstallProgress, InstallRollsBack, Boots
  <1>4. UninstallProgress' /\ QuietUninstallIsComplete'
      BY DEF Answers, UninstallProgress, QuietUninstallIsComplete, Running
  <1>5. InStep'
      BY DEF InStep
  <1>6. Resting'
      BY DEF Resting
  <1>7. StartTakes'
      BY DEF Answers, StartTakes
  <1> QED  BY <1>1, <1>2, <1>3, <1>4, <1>5, <1>6, <1>7

\* The plist put back is loaded, or the failure is kept in mind.
LEMMA BootstrapLastKeepsInv ==
    ASSUME ServiceInv, BootstrapLast PROVE ServiceInv'
  <1> USE NoneIsNoDefinition
      DEF ServiceInv, States, Places, BootstrapLast, Bootstraps, At, GoTo, Done, Systemd, manager, ghosts
  <1>1. States'
    <2>1. /\ system' \in {"systemd", "launchd"} /\ tool' \in BOOLEAN
          /\ file' \in {"old", "new", None} /\ previous' \in {"old", "new", None}
        OBVIOUS
    <2>2. loaded' \in {"old", "new", None} /\ daemon' \in {"up", "ending", "waiting", "down", "failed"}
        OBVIOUS
    <2>3. enabled' \in BOOLEAN /\ ignored' \in BOOLEAN /\ atRest' \in BOOLEAN
        OBVIOUS
    <2>4. /\ command' \in {"install", "uninstall", "start", "stop", None}
          /\ answer' \in {"none", "ok", "error", "warned", "interrupted"}
        OBVIOUS
    <2>5. before' \in [file : {"old", "new", None}, enabled : BOOLEAN]
        OBVIOUS
    <2> QED  BY <2>1, <2>2, <2>3, <2>4, <2>5
  <1>2. Places' /\ Answers'
      BY DEF Answers
  <1>3. InstallProgress' /\ InstallRollsBack'
      BY DEF Answers, InstallProgress, InstallRollsBack, Boots
  <1>4. UninstallProgress' /\ QuietUninstallIsComplete'
      BY DEF Answers, UninstallProgress, QuietUninstallIsComplete, Running
  <1>5. InStep'
      BY DEF InStep
  <1>6. Resting'
      BY DEF Resting, InstallProgress
  <1>7. StartTakes'
      BY DEF Answers, StartTakes
  <1> QED  BY <1>1, <1>2, <1>3, <1>4, <1>5, <1>6, <1>7

\* disable --now removes the link and stops the daemon, or the user is warned.
LEMMA DisableKeepsInv ==
    ASSUME ServiceInv, Disable PROVE ServiceInv'
  <1> USE NoneIsNoDefinition
      DEF ServiceInv, States, Places, Disable, Running, At, GoTo, Done, Systemd, manager, ghosts
  <1>1. States'
    <2>1. /\ system' \in {"systemd", "launchd"} /\ tool' \in BOOLEAN
          /\ file' \in {"old", "new", None} /\ previous' \in {"old", "new", None}
        OBVIOUS
    <2>2. loaded' \in {"old", "new", None} /\ daemon' \in {"up", "ending", "waiting", "down", "failed"}
        OBVIOUS
    <2>3. enabled' \in BOOLEAN /\ ignored' \in BOOLEAN /\ atRest' \in BOOLEAN
        OBVIOUS
    <2>4. /\ command' \in {"install", "uninstall", "start", "stop", None}
          /\ answer' \in {"none", "ok", "error", "warned", "interrupted"}
        OBVIOUS
    <2>5. before' \in [file : {"old", "new", None}, enabled : BOOLEAN]
        OBVIOUS
    <2> QED  BY <2>1, <2>2, <2>3, <2>4, <2>5
  <1>2. Places' /\ Answers'
      BY DEF Answers
  <1>3. InstallProgress' /\ InstallRollsBack'
      BY DEF Answers, InstallProgress, InstallRollsBack, Boots
  <1>4. UninstallProgress' /\ QuietUninstallIsComplete'
    <2> USE DEF Answers, UninstallProgress, QuietUninstallIsComplete
    <2>1. CASE enabled' = FALSE /\ daemon' = "down" /\ pc' = "unlink" /\ answer' = answer
        BY <2>1
    <2>2. CASE ~enabled /\ ~Running(daemon) /\ pc' = "unlink" /\ UNCHANGED <<enabled, daemon, answer>>
        BY <2>2
    <2>3. CASE pc' = "idle" /\ answer' = "error"
        BY <2>3
    <2>4. CASE pc' = "unlink" /\ answer' = "warned"
        BY <2>4
    <2> QED  BY <2>1, <2>2, <2>3, <2>4
  <1>5. InStep'
      BY DEF InStep
  <1>6. Resting'
      BY DEF Resting
  <1>7. StartTakes'
      BY DEF Answers, StartTakes
  <1> QED  BY <1>1, <1>2, <1>3, <1>4, <1>5, <1>6, <1>7

\* Unlink removes the definition.
LEMMA UnlinkKeepsInv ==
    ASSUME ServiceInv, Unlink PROVE ServiceInv'
  <1> USE NoneIsNoDefinition
      DEF ServiceInv, States, Places, Unlink, Final, At, GoTo, Done, Systemd, manager, ghosts
  <1>1. States'
    <2>1. /\ system' \in {"systemd", "launchd"} /\ tool' \in BOOLEAN
          /\ file' \in {"old", "new", None} /\ previous' \in {"old", "new", None}
        OBVIOUS
    <2>2. loaded' \in {"old", "new", None} /\ daemon' \in {"up", "ending", "waiting", "down", "failed"}
        OBVIOUS
    <2>3. enabled' \in BOOLEAN /\ ignored' \in BOOLEAN /\ atRest' \in BOOLEAN
        OBVIOUS
    <2>4. /\ command' \in {"install", "uninstall", "start", "stop", None}
          /\ answer' \in {"none", "ok", "error", "warned", "interrupted"}
        OBVIOUS
    <2>5. before' \in [file : {"old", "new", None}, enabled : BOOLEAN]
        OBVIOUS
    <2> QED  BY <2>1, <2>2, <2>3, <2>4, <2>5
  <1>2. Places' /\ Answers'
      BY DEF Answers
  <1>3. InstallProgress' /\ InstallRollsBack'
      BY DEF Answers, InstallProgress, InstallRollsBack, Boots
  <1>4. UninstallProgress' /\ QuietUninstallIsComplete'
      BY DEF Answers, UninstallProgress, QuietUninstallIsComplete, Running
  <1>5. InStep'
      BY DEF InStep
  <1>6. Resting'
      BY DEF Resting
  <1>7. StartTakes'
      BY DEF Answers, StartTakes
  <1> QED  BY <1>1, <1>2, <1>3, <1>4, <1>5, <1>6, <1>7

\* The last daemon-reload tells the manager what is on disk, or its failure is kept in mind.
LEMMA ReloadLastKeepsInv ==
    ASSUME ServiceInv, ReloadLast PROVE ServiceInv'
  <1> USE NoneIsNoDefinition
      DEF ServiceInv, States, Places, ReloadLast, Final, At, GoTo, Done, Systemd, manager, ghosts
  <1>1. States'
    <2>1. /\ system' \in {"systemd", "launchd"} /\ tool' \in BOOLEAN
          /\ file' \in {"old", "new", None} /\ previous' \in {"old", "new", None}
        OBVIOUS
    <2>2. loaded' \in {"old", "new", None} /\ daemon' \in {"up", "ending", "waiting", "down", "failed"}
        OBVIOUS
    <2>3. enabled' \in BOOLEAN /\ ignored' \in BOOLEAN /\ atRest' \in BOOLEAN
        OBVIOUS
    <2>4. /\ command' \in {"install", "uninstall", "start", "stop", None}
          /\ answer' \in {"none", "ok", "error", "warned", "interrupted"}
        OBVIOUS
    <2>5. before' \in [file : {"old", "new", None}, enabled : BOOLEAN]
        OBVIOUS
    <2> QED  BY <2>1, <2>2, <2>3, <2>4, <2>5
  <1>2. Places' /\ Answers'
      BY DEF Answers
  <1>3. InstallProgress' /\ InstallRollsBack'
      BY DEF Answers, InstallProgress, InstallRollsBack, Boots
  <1>4. UninstallProgress' /\ QuietUninstallIsComplete'
      BY DEF Answers, UninstallProgress, QuietUninstallIsComplete, Running
  <1>5. InStep'
      BY DEF InStep
  <1>6. Resting'
      BY DEF Resting
  <1>7. StartTakes'
      BY DEF Answers, StartTakes
  <1> QED  BY <1>1, <1>2, <1>3, <1>4, <1>5, <1>6, <1>7

\* A start finds a running daemon, and a stop a stopped one, and that is all of it.
LEMMA QueryKeepsInv ==
    ASSUME ServiceInv, Query PROVE ServiceInv'
  <1> USE NoneIsNoDefinition
      DEF ServiceInv, States, Places, Query, Idempotent, Status, At, GoTo, Done, Systemd, manager, ghosts
  <1>1. States'
    <2>1. /\ system' \in {"systemd", "launchd"} /\ tool' \in BOOLEAN
          /\ file' \in {"old", "new", None} /\ previous' \in {"old", "new", None}
        OBVIOUS
    <2>2. loaded' \in {"old", "new", None} /\ daemon' \in {"up", "ending", "waiting", "down", "failed"}
        OBVIOUS
    <2>3. enabled' \in BOOLEAN /\ ignored' \in BOOLEAN /\ atRest' \in BOOLEAN
        OBVIOUS
    <2>4. /\ command' \in {"install", "uninstall", "start", "stop", None}
          /\ answer' \in {"none", "ok", "error", "warned", "interrupted"}
        OBVIOUS
    <2>5. before' \in [file : {"old", "new", None}, enabled : BOOLEAN]
        OBVIOUS
    <2> QED  BY <2>1, <2>2, <2>3, <2>4, <2>5
  <1>2. Places' /\ Answers'
      BY DEF Answers
  <1>3. InstallProgress' /\ InstallRollsBack'
      BY DEF Answers, InstallProgress, InstallRollsBack, Boots
  <1>4. UninstallProgress' /\ QuietUninstallIsComplete'
      BY DEF Answers, UninstallProgress, QuietUninstallIsComplete, Running
  <1>5. InStep'
      BY DEF InStep
  <1>6. Resting'
      BY DEF Resting
  <1>7. StartTakes'
      BY DEF Answers, StartTakes
  <1> QED  BY <1>1, <1>2, <1>3, <1>4, <1>5, <1>6, <1>7

\* A start that succeeds leaves a daemon nobody has told to end.
LEMMA StartKeepsInv ==
    ASSUME ServiceInv, Start PROVE ServiceInv'
  <1> USE NoneIsNoDefinition
      DEF ServiceInv, States, Places, Start, At, GoTo, Done, Systemd, manager, ghosts
  <1>1. States'
    <2>1. /\ system' \in {"systemd", "launchd"} /\ tool' \in BOOLEAN
          /\ file' \in {"old", "new", None} /\ previous' \in {"old", "new", None}
        OBVIOUS
    <2>2. loaded' \in {"old", "new", None} /\ daemon' \in {"up", "ending", "waiting", "down", "failed"}
        OBVIOUS
    <2>3. enabled' \in BOOLEAN /\ ignored' \in BOOLEAN /\ atRest' \in BOOLEAN
        OBVIOUS
    <2>4. /\ command' \in {"install", "uninstall", "start", "stop", None}
          /\ answer' \in {"none", "ok", "error", "warned", "interrupted"}
        OBVIOUS
    <2>5. before' \in [file : {"old", "new", None}, enabled : BOOLEAN]
        OBVIOUS
    <2> QED  BY <2>1, <2>2, <2>3, <2>4, <2>5
  <1>2. Places' /\ Answers'
      BY DEF Answers
  <1>3. InstallProgress' /\ InstallRollsBack'
      BY DEF Answers, InstallProgress, InstallRollsBack, Boots
  <1>4. UninstallProgress' /\ QuietUninstallIsComplete'
      BY DEF Answers, UninstallProgress, QuietUninstallIsComplete, Running
  <1>5. InStep'
      BY DEF InStep
  <1>6. Resting'
      BY DEF Resting
  <1>7. StartTakes'
      BY DEF Answers, StartTakes
  <1> QED  BY <1>1, <1>2, <1>3, <1>4, <1>5, <1>6, <1>7

\* A stop has systemd take the daemon down, or sends the signal.
LEMMA StopKeepsInv ==
    ASSUME ServiceInv, Stop PROVE ServiceInv'
  <1> USE NoneIsNoDefinition
      DEF ServiceInv, States, Places, Stop, At, GoTo, Done, Systemd, manager, ghosts
  <1>1. States'
    <2>1. /\ system' \in {"systemd", "launchd"} /\ tool' \in BOOLEAN
          /\ file' \in {"old", "new", None} /\ previous' \in {"old", "new", None}
        OBVIOUS
    <2>2. loaded' \in {"old", "new", None} /\ daemon' \in {"up", "ending", "waiting", "down", "failed"}
        OBVIOUS
    <2>3. enabled' \in BOOLEAN /\ ignored' \in BOOLEAN /\ atRest' \in BOOLEAN
        OBVIOUS
    <2>4. /\ command' \in {"install", "uninstall", "start", "stop", None}
          /\ answer' \in {"none", "ok", "error", "warned", "interrupted"}
        OBVIOUS
    <2>5. before' \in [file : {"old", "new", None}, enabled : BOOLEAN]
        OBVIOUS
    <2> QED  BY <2>1, <2>2, <2>3, <2>4, <2>5
  <1>2. Places' /\ Answers'
      BY DEF Answers
  <1>3. InstallProgress' /\ InstallRollsBack'
      BY DEF Answers, InstallProgress, InstallRollsBack, Boots
  <1>4. UninstallProgress' /\ QuietUninstallIsComplete'
      BY DEF Answers, UninstallProgress, QuietUninstallIsComplete, Running
  <1>5. InStep'
      BY DEF InStep
  <1>6. Resting'
      BY DEF Resting
  <1>7. StartTakes'
      BY DEF Answers, StartTakes
  <1> QED  BY <1>1, <1>2, <1>3, <1>4, <1>5, <1>6, <1>7

\* systemctl stop returns when the daemon has ended.
LEMMA AwaitKeepsInv ==
    ASSUME ServiceInv, Await PROVE ServiceInv'
  <1> USE NoneIsNoDefinition
      DEF ServiceInv, States, Places, Await, At, GoTo, Done, Systemd, manager, ghosts
  <1>1. States'
    <2>1. /\ system' \in {"systemd", "launchd"} /\ tool' \in BOOLEAN
          /\ file' \in {"old", "new", None} /\ previous' \in {"old", "new", None}
        OBVIOUS
    <2>2. loaded' \in {"old", "new", None} /\ daemon' \in {"up", "ending", "waiting", "down", "failed"}
        OBVIOUS
    <2>3. enabled' \in BOOLEAN /\ ignored' \in BOOLEAN /\ atRest' \in BOOLEAN
        OBVIOUS
    <2>4. /\ command' \in {"install", "uninstall", "start", "stop", None}
          /\ answer' \in {"none", "ok", "error", "warned", "interrupted"}
        OBVIOUS
    <2>5. before' \in [file : {"old", "new", None}, enabled : BOOLEAN]
        OBVIOUS
    <2> QED  BY <2>1, <2>2, <2>3, <2>4, <2>5
  <1>2. Places' /\ Answers'
      BY DEF Answers
  <1>3. InstallProgress' /\ InstallRollsBack'
      BY DEF Answers, InstallProgress, InstallRollsBack, Boots
  <1>4. UninstallProgress' /\ QuietUninstallIsComplete'
      BY DEF Answers, UninstallProgress, QuietUninstallIsComplete, Running
  <1>5. InStep'
      BY DEF InStep
  <1>6. Resting'
      BY DEF Resting
  <1>7. StartTakes'
      BY DEF Answers, StartTakes
  <1> QED  BY <1>1, <1>2, <1>3, <1>4, <1>5, <1>6, <1>7

\* The daemon ends, and comes back only where it is not at rest.
LEMMA ExitKeepsInv ==
    ASSUME ServiceInv, NEW how \in Ends, Exit(how) PROVE ServiceInv'
  <1> USE NoneIsNoDefinition
      DEF ServiceInv, States, Places, Exit, Ends, Restarts, At, GoTo, Done, Systemd, manager, ghosts
  <1>1. States'
    <2>1. /\ system' \in {"systemd", "launchd"} /\ tool' \in BOOLEAN
          /\ file' \in {"old", "new", None} /\ previous' \in {"old", "new", None}
        OBVIOUS
    <2>2. loaded' \in {"old", "new", None} /\ daemon' \in {"up", "ending", "waiting", "down", "failed"}
        OBVIOUS
    <2>3. enabled' \in BOOLEAN /\ ignored' \in BOOLEAN /\ atRest' \in BOOLEAN
        OBVIOUS
    <2>4. /\ command' \in {"install", "uninstall", "start", "stop", None}
          /\ answer' \in {"none", "ok", "error", "warned", "interrupted"}
        OBVIOUS
    <2>5. before' \in [file : {"old", "new", None}, enabled : BOOLEAN]
        OBVIOUS
    <2> QED  BY <2>1, <2>2, <2>3, <2>4, <2>5
  <1>2. Places' /\ Answers'
      BY DEF Answers
  <1>3. InstallProgress' /\ InstallRollsBack'
      BY DEF Answers, InstallProgress, InstallRollsBack, Boots
  <1>4. UninstallProgress' /\ QuietUninstallIsComplete'
      BY DEF Answers, UninstallProgress, QuietUninstallIsComplete, Running
  <1>5. InStep'
      BY DEF InStep
  <1>6. Resting'
      BY DEF Resting
  <1>7. StartTakes'
      BY DEF Answers, StartTakes
  <1> QED  BY <1>1, <1>2, <1>3, <1>4, <1>5, <1>6, <1>7

\* What comes back was waiting to.
LEMMA RespawnKeepsInv ==
    ASSUME ServiceInv, Respawn PROVE ServiceInv'
  <1> USE NoneIsNoDefinition
      DEF ServiceInv, States, Places, Respawn, At, GoTo, Done, Systemd, manager, ghosts
  <1>1. States'
    <2>1. /\ system' \in {"systemd", "launchd"} /\ tool' \in BOOLEAN
          /\ file' \in {"old", "new", None} /\ previous' \in {"old", "new", None}
        OBVIOUS
    <2>2. loaded' \in {"old", "new", None} /\ daemon' \in {"up", "ending", "waiting", "down", "failed"}
        OBVIOUS
    <2>3. enabled' \in BOOLEAN /\ ignored' \in BOOLEAN /\ atRest' \in BOOLEAN
        OBVIOUS
    <2>4. /\ command' \in {"install", "uninstall", "start", "stop", None}
          /\ answer' \in {"none", "ok", "error", "warned", "interrupted"}
        OBVIOUS
    <2>5. before' \in [file : {"old", "new", None}, enabled : BOOLEAN]
        OBVIOUS
    <2> QED  BY <2>1, <2>2, <2>3, <2>4, <2>5
  <1>2. Places' /\ Answers'
      BY DEF Answers
  <1>3. InstallProgress' /\ InstallRollsBack'
      BY DEF Answers, InstallProgress, InstallRollsBack, Boots
  <1>4. UninstallProgress' /\ QuietUninstallIsComplete'
      BY DEF Answers, UninstallProgress, QuietUninstallIsComplete, Running
  <1>5. InStep'
      BY DEF InStep
  <1>6. Resting'
      BY DEF Resting
  <1>7. StartTakes'
      BY DEF Answers, StartTakes
  <1> QED  BY <1>1, <1>2, <1>3, <1>4, <1>5, <1>6, <1>7

\* Ctrl-C leaves everything as it is.
LEMMA InterruptKeepsInv ==
    ASSUME ServiceInv, Interrupt PROVE ServiceInv'
  <1> USE NoneIsNoDefinition
      DEF ServiceInv, States, Places, Interrupt, At, GoTo, Done, Systemd, manager, ghosts
  <1>1. States'
    <2>1. /\ system' \in {"systemd", "launchd"} /\ tool' \in BOOLEAN
          /\ file' \in {"old", "new", None} /\ previous' \in {"old", "new", None}
        OBVIOUS
    <2>2. loaded' \in {"old", "new", None} /\ daemon' \in {"up", "ending", "waiting", "down", "failed"}
        OBVIOUS
    <2>3. enabled' \in BOOLEAN /\ ignored' \in BOOLEAN /\ atRest' \in BOOLEAN
        OBVIOUS
    <2>4. /\ command' \in {"install", "uninstall", "start", "stop", None}
          /\ answer' \in {"none", "ok", "error", "warned", "interrupted"}
        OBVIOUS
    <2>5. before' \in [file : {"old", "new", None}, enabled : BOOLEAN]
        OBVIOUS
    <2> QED  BY <2>1, <2>2, <2>3, <2>4, <2>5
  <1>2. Places' /\ Answers'
      BY DEF Answers
  <1>3. InstallProgress' /\ InstallRollsBack'
      BY DEF Answers, InstallProgress, InstallRollsBack, Boots
  <1>4. UninstallProgress' /\ QuietUninstallIsComplete'
      BY DEF Answers, UninstallProgress, QuietUninstallIsComplete, Running
  <1>5. InStep'
      BY DEF InStep
  <1>6. Resting'
      BY DEF Resting
  <1>7. StartTakes'
      BY DEF Answers, StartTakes
  <1> QED  BY <1>1, <1>2, <1>3, <1>4, <1>5, <1>6, <1>7

\* A boot loads what is on disk.
LEMMA RebootKeepsInv ==
    ASSUME ServiceInv, Reboot PROVE ServiceInv'
  <1> USE NoneIsNoDefinition
      DEF ServiceInv, States, Places, Reboot, Boots, At, GoTo, Done, Systemd, manager, ghosts
  <1>1. States'
    <2>1. /\ system' \in {"systemd", "launchd"} /\ tool' \in BOOLEAN
          /\ file' \in {"old", "new", None} /\ previous' \in {"old", "new", None}
        OBVIOUS
    <2>2. loaded' \in {"old", "new", None} /\ daemon' \in {"up", "ending", "waiting", "down", "failed"}
        OBVIOUS
    <2>3. enabled' \in BOOLEAN /\ ignored' \in BOOLEAN /\ atRest' \in BOOLEAN
        OBVIOUS
    <2>4. /\ command' \in {"install", "uninstall", "start", "stop", None}
          /\ answer' \in {"none", "ok", "error", "warned", "interrupted"}
        OBVIOUS
    <2>5. before' \in [file : {"old", "new", None}, enabled : BOOLEAN]
        OBVIOUS
    <2> QED  BY <2>1, <2>2, <2>3, <2>4, <2>5
  <1>2. Places' /\ Answers'
      BY DEF Answers
  <1>3. InstallProgress' /\ InstallRollsBack'
      BY DEF Answers, InstallProgress, InstallRollsBack, Boots
  <1>4. UninstallProgress' /\ QuietUninstallIsComplete'
      BY DEF Answers, UninstallProgress, QuietUninstallIsComplete, Running
  <1>5. InStep'
      BY DEF InStep
  <1>6. Resting'
      BY DEF Resting
  <1>7. StartTakes'
      BY DEF Answers, StartTakes
  <1> QED  BY <1>1, <1>2, <1>3, <1>4, <1>5, <1>6, <1>7

-----------------------------------------------------------------------------
(* The theorems.                                                           *)

\* A step of the specification, a stutter included, preserves the invariant.
LEMMA ServiceStep == ServiceInv /\ [Next]_vars => ServiceInv'
  <1> SUFFICES ASSUME ServiceInv, [Next]_vars PROVE ServiceInv'
      OBVIOUS
  <1>1. ASSUME NEW c \in Commands, Run(c) PROVE ServiceInv'
      BY <1>1, RunKeepsInv
  <1>2. CASE \/ Write \/ Reload \/ Enable \/ Bootout \/ Bootstrap \/ Restore \/ BootstrapLast
      BY <1>2, WriteKeepsInv, ReloadKeepsInv, EnableKeepsInv, BootoutKeepsInv,
         BootstrapKeepsInv, RestoreKeepsInv, BootstrapLastKeepsInv
  <1>3. CASE Disable \/ Unlink \/ ReloadLast
      BY <1>3, DisableKeepsInv, UnlinkKeepsInv, ReloadLastKeepsInv
  <1>4. CASE Query \/ Start \/ Stop \/ Await
      BY <1>4, QueryKeepsInv, StartKeepsInv, StopKeepsInv, AwaitKeepsInv
  <1>5. ASSUME NEW how \in Ends, Exit(how) PROVE ServiceInv'
      BY <1>5, ExitKeepsInv
  <1>6. CASE Respawn \/ Interrupt \/ Reboot
      BY <1>6, RespawnKeepsInv, InterruptKeepsInv, RebootKeepsInv
  <1>7. CASE UNCHANGED vars
      BY <1>7 DEF ServiceInv, vars, manager, ghosts, States, Places, Answers, InstallProgress,
         InstallRollsBack, UninstallProgress, QuietUninstallIsComplete, InStep, Resting,
         StartTakes, Systemd, At, Running, Boots
  <1> QED  BY <1>1, <1>2, <1>3, <1>4, <1>5, <1>6, <1>7 DEF Next, CommandStep

\* The invariant holds in every state the commands, the daemon and the machine
\* can reach.
THEOREM ServiceInvariant == Spec => []ServiceInv
  <1> QED  BY ServiceInit, ServiceStep, PTL DEF Spec

\* Every variable keeps its type, and a command is at one of its own steps, of
\* its system.
THEOREM ServiceTypes == Spec => []TypeOK
  <1>1. ServiceInv => TypeOK
    <2> SUFFICES ASSUME ServiceInv PROVE TypeOK
        OBVIOUS
    <2> QED  BY DEF ServiceInv, States, Places, TypeOK, Systems, Definitions, Commands,
               InstallSteps, UninstallSteps
  <1> QED  BY <1>1, ServiceInvariant, PTL

\* An install does all of it, or the definition that was there before is back,
\* whichever call of the manager fails; of a failed one a link that enable made
\* may stay (install of service_systemd.py and service_launchd.py).
THEOREM InstallsWhole == Spec => []InstallRollsBack
  <1>1. ServiceInv => InstallRollsBack
      BY DEF ServiceInv
  <1> QED  BY <1>1, ServiceInvariant, PTL

\* Between commands the manager knows the definition on disk, but for failures
\* nobody checks and for interrupted commands (install, uninstall).
THEOREM ManagerTold == Spec => []ManagerInStep
  <1>1. ServiceInv => ManagerInStep
      BY DEF ServiceInv, InStep, ManagerInStep, At
  <1> QED  BY <1>1, ServiceInvariant, PTL

\* A daemon at rest stays down until it is started, installed or booted (stop,
\* unit_content, plist_content).
THEOREM RestLasts == Spec => []AtRestStaysDown
  <1>1. ServiceInv => AtRestStaysDown
      BY DEF ServiceInv, Resting, AtRestStaysDown
  <1> QED  BY <1>1, ServiceInvariant, PTL

\* Under systemd a start that reports success outlasts an earlier stop (start,
\* _STATE_ALIASES).
THEOREM StartsTake == Spec => []StartTakes
  <1>1. ServiceInv => StartTakes
      BY DEF ServiceInv
  <1> QED  BY <1>1, ServiceInvariant, PTL

\* Under systemd an uninstall without a warning leaves nothing (uninstall).
THEOREM QuietUninstalls == Spec => []QuietUninstallIsComplete
  <1>1. ServiceInv => QuietUninstallIsComplete
      BY DEF ServiceInv
  <1> QED  BY <1>1, ServiceInvariant, PTL
=============================================================================
