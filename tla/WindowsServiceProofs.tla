------------------------ MODULE WindowsServiceProofs ------------------------
(***************************************************************************)
(* Theorems about WindowsService: a service that has stopped has seen to   *)
(* the child it started, in either program, whenever a stop comes.         *)
(***************************************************************************)
EXTENDS WindowsService, TLAPS

-----------------------------------------------------------------------------
(* The inductive invariant.  The first two parts are TypeOK.               *)

Values ==
    /\ mode \in {"class", "host"}
    /\ cli \in {"idle", "create", "grant", "stopFirst", "remove", "queryStart", "start",
                "queryStop", "stop"}
    /\ answer \in {"none", "ok", "error"}
    /\ stop \in {"none", "begin", "first", "pass", "set"}
    /\ marked \in BOOLEAN /\ stopRequested \in BOOLEAN /\ flag \in BOOLEAN
    /\ shutdown \in BOOLEAN /\ client \in BOOLEAN /\ event \in BOOLEAN
    /\ stray \in BOOLEAN /\ lost \in BOOLEAN

Places ==
    /\ scm \in {"absent", "stopped", "startPending", "running", "stopPending"}
    /\ \/ run \in {"none", "svcRun", "end"}
       \/ mode = "class" /\ run \in {"load", "create", "report", "enter", "announce", "loop", "close"}
       \/ mode = "host" /\ run \in {"pending", "spawn", "reportHost", "wait", "check", "ask",
                                    "wait15", "wait5"}
    /\ run = "none" <=> scm \in {"absent", "stopped"}
    /\ child \in {"none", "starting", "serving", "ending", "dying", "gone"}

\* SvcDoRun is where its host may have a child alive.
Supervising == run \in {"reportHost", "wait", "check", "ask", "wait15", "wait5"}

\* Everywhere else the child has not been started, or it has been seen to.
ChildSeenTo == ~Supervising => child \in {"none", "dying", "gone"}

WindowsInv == Values /\ Places /\ ChildSeenTo

-----------------------------------------------------------------------------
(* Every step preserves it.                                                *)

\* Init establishes the invariant: there is no service yet.
LEMMA WindowsInit == Init => WindowsInv
  <1> QED  BY DEF Init, Modes, WindowsInv, Values, Places, ChildSeenTo

\* A command changes what the manager reports, passes a stop on, or starts a
\* process that has no child yet.
LEMMA CommandKeepsInv ==
    ASSUME WindowsInv, CommandStep PROVE WindowsInv'
  <1> USE DEF WindowsInv, Values, Places, ChildSeenTo, Supervising, service, class, host,
              Done, Report, Proceed
  <1>1. ASSUME NEW c \in {"install", "uninstall", "start", "stop"}, Run(c) PROVE WindowsInv'
      BY <1>1 DEF Run
  <1>2. CASE Create
      BY <1>2 DEF Create
  <1>3. CASE Grant
      BY <1>3 DEF Grant
  <1>4. CASE StopFirst
      BY <1>4 DEF StopFirst, Control, Accepts
  <1>5. CASE Remove
      BY <1>5 DEF Remove
  <1>6. CASE QueryStart \/ QueryStop
      BY <1>6 DEF QueryStart, QueryStop
  <1>7. CASE Start
    <2>1. Values'
      <3>1. /\ cli' \in {"idle"} /\ answer' \in {"ok", "error"}
            /\ UNCHANGED <<mode, stop, marked, stray>>
          BY <1>7 DEF Start
      <3>2. /\ stopRequested' \in BOOLEAN /\ flag' \in BOOLEAN /\ shutdown' \in BOOLEAN
            /\ client' \in BOOLEAN /\ event' \in BOOLEAN /\ lost' \in BOOLEAN
          BY <1>7 DEF Start
      <3> QED  BY <3>1, <3>2
    <2>2. Places'
        BY <1>7 DEF Start
    <2>3. ChildSeenTo'
        BY <1>7 DEF Start
    <2> QED  BY <2>1, <2>2, <2>3
  <1>8. CASE Stop
      BY <1>8 DEF Stop, Control, Accepts
  <1> QED  BY <1>1, <1>2, <1>3, <1>4, <1>5, <1>6, <1>7, <1>8 DEF CommandStep

\* The class has no child; its steps stay its own.
LEMMA ClassKeepsInv ==
    ASSUME WindowsInv,
           Load \/ NewDaemon \/ ReportRunning \/ Enter \/ Announce \/ Loop \/ Close \/ Handlers
    PROVE  WindowsInv'
  <1> USE DEF WindowsInv, Values, Places, ChildSeenTo, Supervising, commands, class,
              host, Report, Proceed, ClassStep
  <1>1. CASE Load \/ NewDaemon
      BY <1>1 DEF Load, NewDaemon
  <1>2. CASE ReportRunning
      BY <1>2 DEF ReportRunning
  <1>3. CASE Enter \/ Announce
      BY <1>3 DEF Enter, Announce
  <1>4. CASE Loop \/ Close
      BY <1>4 DEF Loop, Close
  <1>5. CASE Handlers
    <2>1. Values'
      <3>1. flag' \in BOOLEAN /\ shutdown' \in BOOLEAN /\ client' \in BOOLEAN
          BY <1>5 DEF Handlers, Connect, HandlerEnds, HandlerStops
      <3>2. UNCHANGED <<mode, cli, answer, stop, marked, stopRequested, event, stray, lost>>
          BY <1>5 DEF Handlers, Connect, HandlerEnds, HandlerStops
      <3> QED  BY <3>1, <3>2
    <2>2. UNCHANGED <<mode, scm, run, child>>
        BY <1>5 DEF Handlers, Connect, HandlerEnds, HandlerStops
    <2> QED  BY <2>1, <2>2
  <1> QED  BY <1>1, <1>2, <1>3, <1>4, <1>5

\* The host leaves its supervision only past a child that is gone or dying.
LEMMA HostKeepsInv ==
    ASSUME WindowsInv,
           StartPending \/ Spawn \/ ReportHost \/ Wait \/ Check \/ Ask \/ InTime \/ Timeout
    PROVE  WindowsInv'
  <1> USE DEF WindowsInv, Values, Places, ChildSeenTo, Supervising, commands, class,
              host, Report, Proceed, HostStep
  <1>1. CASE StartPending \/ ReportHost
      BY <1>1 DEF StartPending, ReportHost
  <1>2. CASE Spawn
    <2>1. Values'
        BY <1>2 DEF Spawn
    <2>2. Places'
        BY <1>2 DEF Spawn
    <2>3. ChildSeenTo'
        BY <1>2 DEF Spawn
    <2> QED  BY <2>1, <2>2, <2>3
  <1>3. CASE Wait
    <2>1. Values'
      <3>1. event' \in BOOLEAN
          BY <1>3 DEF Wait
      <3>2. UNCHANGED <<mode, cli, answer, stop, marked, stopRequested, flag, shutdown, client,
                        stray, lost>>
          BY <1>3 DEF Wait
      <3> QED  BY <3>1, <3>2
    <2>2. Places'
        BY <1>3 DEF Wait
    <2>3. ChildSeenTo'
        BY <1>3 DEF Wait
    <2> QED  BY <2>1, <2>2, <2>3
  <1>4. CASE Check
      BY <1>4 DEF Check
  <1>5. CASE Ask
      BY <1>5 DEF Ask, Asked
  <1>6. CASE InTime
      BY <1>6 DEF InTime
  <1>7. CASE Timeout
    <2>1. stray' \in BOOLEAN /\ child' \in {"dying", "gone"} /\ run' \in {"wait5", "end"}
      <3>1. /\ child = "gone" => UNCHANGED <<child, stray>>
            /\ child # "gone" => child' = "dying" /\ stray' \in {stray, TRUE}
          BY <1>7 DEF Timeout
      <3>2. stray' \in BOOLEAN
          BY <3>1
      <3>3. child' \in {"dying", "gone"} /\ run' \in {"wait5", "end"}
          BY <1>7, <3>1 DEF Timeout
      <3> QED  BY <3>2, <3>3
    <2>2. UNCHANGED <<scm, commands, stop, class, event>> /\ run \in {"wait15", "wait5"}
        BY <1>7 DEF Timeout
    <2>3. Values'
        BY <2>1, <2>2
    <2>4. Places' /\ ChildSeenTo'
        BY <2>1, <2>2
    <2> QED  BY <2>3, <2>4
  <1> QED  BY <1>1, <1>2, <1>3, <1>4, <1>5, <1>6, <1>7

\* SvcDoRun begins and ends without a child alive.
LEMMA EndsKeepInv ==
    ASSUME WindowsInv, SvcRun \/ End PROVE WindowsInv'
  <1> USE DEF WindowsInv, Values, Places, ChildSeenTo, Supervising, commands, class, host,
              Report, Proceed
  <1>1. CASE SvcRun
      BY <1>1 DEF SvcRun, First
  <1>2. CASE End
    <2>1. Values'
      <3>1. marked' \in BOOLEAN
          BY <1>2 DEF End
      <3>2. UNCHANGED <<mode, cli, answer, stop, stopRequested, flag, shutdown, client,
                        event, stray, lost>>
          BY <1>2 DEF End
      <3> QED  BY <3>1, <3>2
    <2>2. Places'
        BY <1>2 DEF End
    <2>3. ChildSeenTo'
        BY <1>2 DEF End
    <2> QED  BY <2>1, <2>2, <2>3
  <1> QED  BY <1>1, <1>2

\* SvcStop asks a child to end, and never brings one to life.
LEMMA SvcStopKeepsInv ==
    ASSUME WindowsInv, SvcStop PROVE WindowsInv'
  <1> USE DEF WindowsInv, Values, Places, ChildSeenTo, Supervising, commands, class, host,
              Report, StopStep
  <1>1. CASE StopBegins
      BY <1>1 DEF StopBegins
  <1>2. CASE NoteStop
      BY <1>2 DEF NoteStop, HasDaemon
  <1>3. CASE RequestShutdown
      BY <1>3 DEF RequestShutdown
  <1>4. CASE AskFirst
      BY <1>4 DEF AskFirst, Asked
  <1>5. CASE SetEvent
      BY <1>5 DEF SetEvent
  <1> QED  BY <1>1, <1>2, <1>3, <1>4, <1>5 DEF SvcStop

\* A child that binds was started by a host that supervises it; one that ends
\* ends.
LEMMA ChildKeepsInv ==
    ASSUME WindowsInv, ChildBinds \/ ChildEnds \/ StrayEnds PROVE WindowsInv'
  <1> USE DEF WindowsInv, Values, Places, ChildSeenTo, Supervising, commands, class
  <1>1. CASE ChildBinds
      BY <1>1 DEF ChildBinds
  <1>2. CASE ChildEnds
      BY <1>2 DEF ChildEnds
  <1>3. CASE StrayEnds
    <2>1. stray' \in BOOLEAN
        BY <1>3 DEF StrayEnds
    <2>2. UNCHANGED <<scm, commands, run, stop, class, event, child>>
        BY <1>3 DEF StrayEnds
    <2> QED  BY <2>1, <2>2
  <1> QED  BY <1>1, <1>2, <1>3

\* A step of the specification, a stutter included, preserves the invariant.
LEMMA WindowsStep == WindowsInv /\ [Next]_vars => WindowsInv'
  <1> SUFFICES ASSUME WindowsInv, [Next]_vars PROVE WindowsInv'
      OBVIOUS
  <1>1. CASE CommandStep
      BY <1>1, CommandKeepsInv
  <1>2. CASE SvcDoRun \/ Handlers
      BY <1>2, EndsKeepInv, ClassKeepsInv, HostKeepsInv DEF SvcDoRun
  <1>3. CASE SvcStop
      BY <1>3, SvcStopKeepsInv
  <1>4. CASE ChildBinds \/ ChildEnds \/ StrayEnds
      BY <1>4, ChildKeepsInv
  <1>5. CASE UNCHANGED vars
      BY <1>5 DEF vars, class, host, WindowsInv, Values, Places, ChildSeenTo, Supervising
  <1> QED  BY <1>1, <1>2, <1>3, <1>4, <1>5 DEF Next

-----------------------------------------------------------------------------
(* The theorems.                                                           *)

\* The invariant holds in every reachable state of either program.
THEOREM WindowsInvariant == Spec => []WindowsInv
  <1> QED  BY WindowsInit, WindowsStep, PTL DEF Spec

\* Every variable keeps its type, and SvcDoRun runs exactly while the manager
\* holds the service for active.
THEOREM WindowsTypes == Spec => []TypeOK
  <1>1. WindowsInv => TypeOK
      BY DEF WindowsInv, Values, Places, TypeOK, Modes, ClassSteps, HostSteps
  <1> QED  BY <1>1, WindowsInvariant, PTL

\* A service reported as stopped has seen to the process its host started: it has
\* ended or was terminated, however it took the stop (SvcDoRun of the host).
THEOREM NoChildLeftBehind == Spec => []StoppedMeansGone
  <1>1. WindowsInv => StoppedMeansGone
      BY DEF WindowsInv, ChildSeenTo, Supervising, StoppedMeansGone
  <1> QED  BY <1>1, WindowsInvariant, PTL
=============================================================================
