--------------------------- MODULE WindowsService ---------------------------
(***************************************************************************)
(* The daemon as a Windows service: the commands of service_windows.py     *)
(* (src/src/opengeneral) against the service control manager, and the two  *)
(* programs it may run, the class OpenGeneralService of that file, which   *)
(* serves in its own process, and the host of the packaged build           *)
(* (src/packaging/service_host.py), which supervises a child.              *)
(*                                                                         *)
(* A stop control runs SvcStop in another thread than SvcDoRun, at any     *)
(* moment the service accepts it.  The manager and pywin32 are external;   *)
(* pywin32 reports RUNNING before it calls SvcDoRun.  That the service     *)
(* process itself is killed is left out.                                   *)
(***************************************************************************)
Modes == {"class", "host"}

VARIABLES
    mode,           \* which program the service runs
    scm,            \* the state the manager reports, or absent
    marked,         \* the service is marked for deletion
    cli, answer,    \* the next step of the command under way; what it answered
    run,            \* the next step of SvcDoRun
    stop,           \* the next step of SvcStop
    stopRequested,  \* _stop_requested of the class
    flag,           \* its daemon's _shutdown_requested
    shutdown,       \* somebody shuts its accept loop down
    client,         \* a handler thread of it serves a connection
    event,          \* stop_event of the host
    child,          \* the process the host started: the one-file binary
    stray,          \* the daemon it unpacked and ran goes on, though it was terminated
    \* Ghosts, read by properties only:
    lost            \* this process dropped a stop in the window of serve_forever

class == <<stopRequested, flag, shutdown, client, lost>>
host  == <<event, child, stray>>
vars  == <<mode, scm, marked, cli, answer, run, stop, class, host>>

Report(state) == scm' = state
Proceed(step) == run' = step

Init ==
    /\ mode \in Modes
    /\ scm = "absent" /\ marked = FALSE
    /\ cli = "idle" /\ answer = "none"
    /\ run = "none" /\ stop = "none"
    /\ stopRequested = FALSE /\ flag = FALSE /\ shutdown = FALSE
    /\ client = FALSE /\ lost = FALSE
    /\ event = FALSE /\ child = "none" /\ stray = FALSE

-----------------------------------------------------------------------------
(* The commands.                                                           *)

service == <<mode, run, stop, class, host>>
Done(a) == cli' = "idle" /\ answer' = a

Run(c) ==
    /\ cli = "idle"
    /\ cli' = (CASE c = "install" -> "create" [] c = "uninstall" -> "stopFirst"
                 [] c = "start" -> "queryStart" [] OTHER -> "queryStop")
    /\ answer' = "none"
    /\ UNCHANGED <<scm, marked, service>>

\* A packaged install goes on to grant the account its directory.
Create ==
    /\ cli = "create"
    /\ IF scm = "absent" THEN Report("stopped") ELSE UNCHANGED scm
    /\ \/ scm = "absent" /\ mode = "class" /\ Done("ok")
       \/ scm = "absent" /\ mode = "host" /\ cli' = "grant" /\ UNCHANGED answer
       \/ scm # "absent" /\ Done("error")
    /\ UNCHANGED <<marked, service>>

Grant ==
    /\ cli = "grant"
    /\ Done("ok") \/ Done("error")
    /\ UNCHANGED <<scm, marked, service>>

\* The manager passes a stop on to a service that accepts it, and refuses
\* otherwise: it is absent, not active, or in between two states.  While a SvcStop
\* runs it passes nothing on, and starts nothing.
Free == stop = "none"
Accepts == scm = "running"

Control == IF Accepts THEN stop' = "begin" ELSE UNCHANGED stop

\* Mutant: whatever keeps the service from stopping, it is removed.
StopFirstLoose ==
    /\ cli = "stopFirst" /\ Free
    /\ Control
    /\ cli' = "remove" /\ UNCHANGED answer
    /\ UNCHANGED <<scm, marked, mode, run, class, host>>

StopFirst ==
    /\ cli = "stopFirst" /\ Free
    /\ Control
    /\ IF Accepts \/ scm \in {"absent", "stopped"}
       THEN cli' = "remove" /\ UNCHANGED answer
       ELSE Done("error")
    /\ UNCHANGED <<scm, marked, mode, run, class, host>>

\* A service that has not stopped yet is marked, and goes when it has.
Remove ==
    /\ cli = "remove"
    /\ IF scm = "stopped" THEN Report("absent") ELSE UNCHANGED scm
    /\ marked' = (scm \notin {"absent", "stopped"})
    /\ Done("ok")
    /\ UNCHANGED service

QueryStart ==
    /\ cli = "queryStart"
    /\ IF scm = "running" THEN Done("ok") ELSE cli' = "start" /\ UNCHANGED answer
    /\ UNCHANGED <<scm, marked, service>>

\* A new process, with a new object of the service.
Start ==
    /\ cli = "start" /\ Free
    /\ IF scm = "stopped"
       THEN /\ Report("startPending") /\ Proceed("svcRun") /\ Done("ok")
            /\ stopRequested' = FALSE /\ flag' = FALSE /\ shutdown' = FALSE
            /\ client' = FALSE /\ event' = FALSE /\ child' = "none" /\ lost' = FALSE
            /\ UNCHANGED stray
       ELSE Done("error") /\ UNCHANGED <<scm, run, class, host>>
    /\ UNCHANGED <<marked, mode, stop>>

QueryStop ==
    /\ cli = "queryStop"
    /\ IF scm = "stopped" THEN Done("ok") ELSE cli' = "stop" /\ UNCHANGED answer
    /\ UNCHANGED <<scm, marked, service>>

\* StopService returns before the service has stopped.
Stop ==
    /\ cli = "stop" /\ Free
    /\ Control
    /\ Done(IF Accepts THEN "ok" ELSE "error")
    /\ UNCHANGED <<scm, marked, mode, run, class, host>>

CommandStep ==
    \/ \E c \in {"install", "uninstall", "start", "stop"} : Run(c)
    \/ Create \/ Grant \/ StopFirst \/ Remove \/ QueryStart \/ Start \/ QueryStop \/ Stop

-----------------------------------------------------------------------------
(* Both programs: how SvcDoRun begins and ends.                            *)

commands == <<mode, marked, cli, answer>>

\* Mutant: the service is registered without the host's name.
FirstInProcess == "load"

First == IF mode = "class" THEN "load" ELSE "pending"

SvcRun ==
    /\ run = "svcRun"
    /\ Report("running")
    /\ Proceed(First)
    /\ UNCHANGED <<commands, stop, class, host>>

\* SERVICE_STOPPED; the process is over, but for a SvcStop.
End ==
    /\ run = "end"
    /\ Report(IF marked THEN "absent" ELSE "stopped")
    /\ marked' = FALSE
    /\ Proceed("none")
    /\ UNCHANGED <<mode, cli, answer, stop, class, host>>

-----------------------------------------------------------------------------
(* OpenGeneralService.                                                     *)

ClassStep(from, to) ==
    /\ run = from /\ Proceed(to)
    /\ UNCHANGED <<commands, stop, class, host>>

\* The agents are loaded, or their configuration is refused.
Load == UNCHANGED scm /\ (ClassStep("load", "create") \/ ClassStep("load", "end"))

\* Mutant: the daemon is created without a look at _stop_requested.
NewDaemonAnyway == UNCHANGED scm /\ (ClassStep("create", "report") \/ ClassStep("create", "end"))

\* Under the lock: no daemon after a stop.  Otherwise it binds, or cannot.
NewDaemon ==
    /\ UNCHANGED scm
    /\ (~stopRequested /\ ClassStep("create", "report")) \/ ClassStep("create", "end")

HasDaemon == run \in {"report", "enter", "announce", "loop", "close"}

ReportRunning == Report("running") /\ ClassStep("report", "enter")

\* serve_forever: it checks the flag, and announces that it serves.
Enter ==
    /\ UNCHANGED scm
    /\ ClassStep("enter", IF flag THEN "close" ELSE "announce")

Announce == UNCHANGED scm /\ ClassStep("announce", "loop")

Loop == UNCHANGED scm /\ shutdown /\ ClassStep("loop", "close")

\* server_close joins the handlers.
Close == UNCHANGED scm /\ ~client /\ ClassStep("close", "end")

\* The accept loop hands a connection to a handler thread, which is over when the
\* client has sent a line and got its answer, or goes away.
Connect ==
    /\ run = "loop" /\ client' = TRUE
    /\ UNCHANGED <<scm, commands, run, stop, stopRequested, flag, shutdown, lost, host>>

HandlerEnds ==
    /\ client /\ client' = FALSE
    /\ UNCHANGED <<scm, commands, run, stop, stopRequested, flag, shutdown, lost, host>>

\* The request is daemon.stop.
HandlerStops ==
    /\ client
    /\ flag' = TRUE
    /\ shutdown' = (shutdown \/ (~flag /\ run = "loop"))
    /\ UNCHANGED <<scm, commands, run, stop, stopRequested, client, lost, host>>

-----------------------------------------------------------------------------
(* OpenGeneralServiceHost.                                                 *)

HostStep(from, to) ==
    /\ run = from /\ Proceed(to)
    /\ UNCHANGED <<commands, stop, class>>

\* While START_PENDING no stop is accepted.
StartPending == Report("startPending") /\ HostStep("pending", "spawn") /\ UNCHANGED host

\* The binary is missing, or does not start; or there is a child.
Spawn ==
    /\ UNCHANGED <<scm, event, stray>>
    /\ \/ HostStep("spawn", "end") /\ UNCHANGED child
       \/ HostStep("spawn", "reportHost") /\ child' = "starting"

ReportHost == Report("running") /\ HostStep("reportHost", "wait") /\ UNCHANGED host

\* Mutant: only a stop ends the wait.
WaitForStop ==
    event /\ event' = FALSE /\ HostStep("wait", "check") /\ UNCHANGED <<scm, child, stray>>

\* The event, which is reset by the wait, or the end of the child.
Wait ==
    /\ event \/ child = "gone"
    /\ event' = FALSE
    /\ HostStep("wait", "check")
    /\ UNCHANGED <<scm, child, stray>>

Check ==
    /\ IF child = "gone" THEN HostStep("check", "end") ELSE HostStep("check", "ask")
    /\ UNCHANGED <<scm, host>>

\* _request_daemon_stop: a child that serves ends, sooner or later, unless a
\* stray daemon gets the request; one that starts may not listen yet.
Asked == CASE child = "serving"  -> {"ending"} \cup (IF stray THEN {child} ELSE {})
           [] child = "starting" -> {"starting", "ending"}
           [] OTHER              -> {child}

Ask == child' \in Asked /\ HostStep("ask", "wait15") /\ UNCHANGED <<scm, event, stray>>

\* wait(timeout=15), wait(timeout=5): the child has ended in time.
InTime ==
    /\ child = "gone"
    /\ HostStep("wait15", "end") \/ HostStep("wait5", "end")
    /\ UNCHANGED <<scm, host>>

\* Mutant: after the time-out the host gives up.
TimeoutGivesUp == HostStep("wait15", "end") /\ UNCHANGED <<scm, host>>

\* terminate, then kill: each ends the child without its consent, and neither
\* waits for that.  The second is not waited for at all.  What they end is the
\* one-file binary; the daemon it has unpacked and runs may go on.
Timeout ==
    /\ IF child = "gone" THEN UNCHANGED <<child, stray>>
       ELSE child' = "dying" /\ stray' \in {stray, TRUE}
    /\ HostStep("wait15", "wait5") \/ HostStep("wait5", "end")
    /\ UNCHANGED <<scm, event>>

ChildBinds ==
    /\ child = "starting" /\ child' = "serving"
    /\ UNCHANGED <<scm, commands, run, stop, class, event, stray>>

\* Refused configuration, crash, or the stop it was asked for.
ChildEnds ==
    /\ child \in {"starting", "serving", "ending", "dying"} /\ child' = "gone"
    /\ UNCHANGED <<scm, commands, run, stop, class, event, stray>>

StrayEnds ==
    /\ stray /\ stray' = FALSE
    /\ UNCHANGED <<scm, commands, run, stop, class, event, child>>

-----------------------------------------------------------------------------
(* SvcStop.                                                                *)

StopStep(from, to) == stop = from /\ stop' = to /\ UNCHANGED <<commands, run>>

StopBegins ==
    /\ IF run = "none" THEN UNCHANGED scm ELSE Report("stopPending")
    /\ StopStep("begin", "first")
    /\ UNCHANGED <<class, host>>

\* The class: under the lock, note the stop and look for the daemon; then
\* request_shutdown, which does nothing if the daemon does not serve.
NoteStop ==
    /\ mode = "class"
    /\ stopRequested' = TRUE
    /\ StopStep("first", IF HasDaemon THEN "pass" ELSE "set")
    /\ UNCHANGED <<scm, flag, shutdown, client, lost, host>>

RequestShutdown ==
    /\ flag' = TRUE
    /\ shutdown' = (shutdown \/ (~flag /\ run = "loop"))
    /\ lost' = (lost \/ run = "announce")
    /\ StopStep("pass", "set")
    /\ UNCHANGED <<scm, stopRequested, client, host>>

\* The host: ask whatever daemon listens; then wake SvcDoRun.
AskFirst ==
    /\ mode = "host"
    /\ child' \in Asked
    /\ StopStep("first", "set")
    /\ UNCHANGED <<scm, class, event, stray>>

SetEvent ==
    /\ event' = (event \/ mode = "host")
    /\ StopStep("set", "none")
    /\ UNCHANGED <<scm, class, child, stray>>

-----------------------------------------------------------------------------
SvcDoRun ==
    \/ SvcRun \/ End
    \/ Load \/ NewDaemon \/ ReportRunning \/ Enter \/ Announce \/ Loop \/ Close
    \/ StartPending \/ Spawn \/ ReportHost \/ Wait \/ Check \/ Ask \/ InTime \/ Timeout

SvcStop == StopBegins \/ NoteStop \/ RequestShutdown \/ AskFirst \/ SetEvent

Handlers == Connect \/ HandlerEnds \/ HandlerStops

Next ==
    CommandStep \/ SvcDoRun \/ SvcStop \/ Handlers \/ ChildBinds \/ ChildEnds \/ StrayEnds

\* Threads go on, the host's time-outs expire, the kernel ends what was
\* terminated.  A handler waits without a time-out: that its client sends a line
\* or goes away, and that its request is answered, is assumed.  That a child
\* ends because it was asked to is not, nor that anybody connects.
Fairness ==
    /\ WF_vars(SvcDoRun) /\ WF_vars(SvcStop) /\ WF_vars(HandlerEnds)
    /\ WF_vars(child = "dying" /\ ChildEnds)

Spec == Init /\ [][Next]_vars /\ Fairness

-----------------------------------------------------------------------------
(* Properties.                                                             *)

ClassSteps == {"load", "create", "report", "enter", "announce", "loop", "close"}
HostSteps == {"pending", "spawn", "reportHost", "wait", "check", "ask", "wait15", "wait5"}

\* Types; SvcDoRun is at a step of its program, and runs exactly while the
\* manager holds the service for active.
TypeOK ==
    /\ mode \in Modes
    /\ scm \in {"absent", "stopped", "startPending", "running", "stopPending"}
    /\ run \in {"none", "svcRun", "end"} \cup (IF mode = "class" THEN ClassSteps ELSE HostSteps)
    /\ run = "none" <=> scm \in {"absent", "stopped"}
    /\ cli \in {"idle", "create", "grant", "stopFirst", "remove", "queryStart", "start",
                "queryStop", "stop"}
    /\ answer \in {"none", "ok", "error"}
    /\ stop \in {"none", "begin", "first", "pass", "set"}
    /\ child \in {"none", "starting", "serving", "ending", "dying", "gone"}
    /\ {marked, stopRequested, flag, shutdown, client, event, stray, lost} \subseteq BOOLEAN

\* A service reported as stopped has seen to its child: the process the host
\* started has ended or has been terminated, whenever the stop came and however
\* the child took it.  The daemon inside the one-file binary may outlive only a
\* termination (SvcDoRun of the host).
StoppedMeansGone == run = "none" => child \in {"none", "dying", "gone"}

\* A stop the manager has passed on stops the service, whether it comes while
\* the agents are loaded, while the child starts, or while it hangs; the
\* window of serve_forever aside.  Of the class this rests on its clients: one
\* that stays silent keeps it in STOP_PENDING (SvcStop, SvcDoRun).
StopHonoured == stop # "none" ~> run = "none" \/ lost

\* A service that was removed while it was still active goes when it stops, and
\* does stop, with the same two provisos: uninstall removes nothing it could not
\* stop (uninstall).
RemovalCompletes == marked ~> ~marked \/ lost

\* A child that ends on its own is not reported as a running service for ever
\* (SvcDoRun of the host).
ChildEndReported == child = "gone" ~> scm # "running"
=============================================================================
