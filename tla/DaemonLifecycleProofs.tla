----------------------- MODULE DaemonLifecycleProofs ------------------------
(***************************************************************************)
(* Proofs about DaemonLifecycle for any number of signals and clients.     *)
(***************************************************************************)
EXTENDS DaemonLifecycle, TLAPS

USE DistinctActivations

LEMMA TypeInit == Init => TypeOK
  <1> SUFFICES ASSUME Init PROVE TypeOK
    OBVIOUS
  <1>1. MainOK
    BY DEF Init, MainOK, MainSteps
  <1>2. EventsOK
    BY DEF Init, EventsOK
  <1>3. ActivationsOK
    BY DEF Init, ActivationsOK
  <1>4. ConnectionsOK
    BY DEF Init, ConnectionsOK
  <1> QED BY <1>1, <1>2, <1>3, <1>4 DEF TypeOK

-----------------------------------------------------------------------------
(* Type correctness.                                                       *)

\* An exit code is not None, whatever None is.
LEMMA MainReturns ==
    ASSUME NEW exitCode \in ExitCodes, Return(exitCode)
    PROVE  MainOK'
  BY DEF Return, Proceed, MainOK, MainSteps

LEMMA MainProceeds ==
    ASSUME MainOK, main \notin {"returned", "gone"},
           NEW pc \in MainSteps \ {"returned", "gone"}, Proceed(pc), code' = code
    PROVE  MainOK'
  BY DEF Proceed, MainOK

LEMMA MainType == TypeOK /\ MainStep => TypeOK'
  <1> SUFFICES ASSUME TypeOK, MainStep PROVE TypeOK'
    OBVIOUS
  <1>1. MainOK'
    <2> USE DEF MainAt, MainSteps, ExitCodes, TypeOK
    <2>1. CASE LoadAgents
      BY <2>1, MainReturns, MainProceeds DEF LoadAgents
    <2>2. CASE CheckStop
      BY <2>2, MainReturns, MainProceeds DEF CheckStop
    <2>3. CASE Bind
      BY <2>3, MainReturns, MainProceeds DEF Bind
    <2>4. CASE Publish \/ Recheck \/ RecheckDone
      BY <2>4, MainProceeds DEF Publish, Recheck, RecheckDone
    <2>5. CASE Enter \/ Announce \/ Begin \/ AcceptConnection
      BY <2>5, MainProceeds DEF Enter, Announce, Begin, AcceptConnection
    <2>6. CASE Loop
      BY <2>6, MainProceeds DEF Loop, MainOK
    <2>7. CASE Unwind \/ Retire \/ Close
      BY <2>7, MainProceeds DEF Unwind, Retire, Close
    <2>8. CASE Join
      BY <2>8, MainReturns DEF Join
    <2>9. CASE Exit
      BY <2>9 DEF Exit, Proceed, MainOK
    <2> QED BY <2>1, <2>2, <2>3, <2>4, <2>5, <2>6, <2>7, <2>8, <2>9 DEF MainStep
  <1>2. EventsOK'
    <2> USE DEF TypeOK, EventsOK, requestVars
    <2>1. CASE LoadAgents \/ CheckStop \/ Bind \/ Publish
      BY <2>1 DEF LoadAgents, CheckStop, Bind, Publish
    <2>2. CASE Recheck \/ RecheckDone \/ Enter \/ Announce
      BY <2>2 DEF Recheck, RecheckDone, Enter, Announce
    <2>3. CASE Begin \/ Loop \/ AcceptConnection \/ Unwind
      BY <2>3 DEF Begin, Loop, AcceptConnection, Unwind
    <2>4. CASE Retire \/ Close \/ Join \/ Exit
      BY <2>4 DEF Retire, Close, Join, Exit
    <2> QED BY <2>1, <2>2, <2>3, <2>4 DEF MainStep
  <1>3. ActivationsOK'
    <2>1. CASE Recheck
      BY <2>1 DEF TypeOK, ActivationsOK, Recheck, GoTo, Activations
    <2>2. CASE ~Recheck
      <3>1. UNCHANGED requestVars
        BY <2>2 DEF MainStep, LoadAgents, CheckStop, Bind, Publish, RecheckDone,
           Enter, Announce, Begin, Loop, AcceptConnection, Unwind, Retire, Close, Join, Exit
      <3> QED BY <3>1 DEF TypeOK, ActivationsOK, requestVars
    <2> QED BY <2>1, <2>2
  <1>4. ConnectionsOK'
    <2>1. CASE AcceptConnection \/ Close
      BY <2>1 DEF TypeOK, ConnectionsOK, AcceptConnection, Close
    <2>2. CASE ~AcceptConnection /\ ~Close
      BY <2>2 DEF TypeOK, ConnectionsOK, MainStep, LoadAgents, CheckStop, Bind, Publish, Recheck,
         RecheckDone, Enter, Announce, Begin, Loop, Unwind, Retire, Join, Exit
    <2> QED BY <2>1, <2>2
  <1> QED BY <1>1, <1>2, <1>3, <1>4 DEF TypeOK

\* Nothing but the main thread touches its step and its exit code.
LEMMA MainUntouched == TypeOK /\ UNCHANGED <<main, code>> => MainOK'
  BY DEF TypeOK, MainOK

LEMMA RequestType ==
    ASSUME TypeOK, NEW a \in Activations, RequestStep(a) \/ StopperStep(a)
    PROVE  TypeOK'
  <1> USE DEF GoTo, mainVars
  <1>1. MainOK' /\ ConnectionsOK'
    BY MainUntouched DEF TypeOK, ConnectionsOK, RequestStep, StopperStep, ReadFlag, EnterFlag,
       SetFlag, Decide, StopperAsks, StopperEnds
  <1>2. EventsOK'
    BY DEF TypeOK, EventsOK, RequestStep, StopperStep, ReadFlag, EnterFlag, SetFlag, Decide,
       StopperAsks, StopperEnds, InWindow
  <1>3. ActivationsOK'
    <2> USE DEF TypeOK, ActivationsOK, EventsOK
    <2>1. CASE ReadFlag(a)
      BY <2>1 DEF ReadFlag
    <2>2. CASE EnterFlag(a)
      BY <2>2 DEF EnterFlag
    <2>3. CASE SetFlag(a)
      BY <2>3 DEF SetFlag
    <2>4. CASE Decide(a)
      BY <2>4 DEF Decide
    <2>5. CASE StopperAsks(a) \/ StopperEnds(a)
      BY <2>5 DEF StopperAsks, StopperEnds
    <2> QED BY <2>1, <2>2, <2>3, <2>4, <2>5 DEF RequestStep, StopperStep
  <1> QED BY <1>1, <1>2, <1>3 DEF TypeOK

LEMMA SignalType ==
    ASSUME TypeOK, NEW s \in Signals, Deliver(s) \/ SignalStep(s)
    PROVE  TypeOK'
  <1> USE DEF GoTo, mainVars, SignalStep, Deliver, EnterStop, SetStop, ReadRef
  <1>1. MainOK' /\ ConnectionsOK'
    BY MainUntouched DEF TypeOK, ConnectionsOK
  <1>2. EventsOK'
    BY DEF TypeOK, EventsOK
  <1>3. ActivationsOK'
    BY DEF TypeOK, ActivationsOK, Activations, MainStack
  <1> QED BY <1>1, <1>2, <1>3 DEF TypeOK

LEMMA ClientType ==
    ASSUME TypeOK, NEW c \in Clients, Connect(c) \/ HandlerStep(c)
    PROVE  TypeOK'
  <1> USE DEF GoTo, SetConn, mainVars, requestVars, HandlerStep, Connect, Receive, Execute, Reply
  <1>1. MainOK' /\ EventsOK'
    BY MainUntouched DEF TypeOK, EventsOK
  <1>2. ActivationsOK'
    BY DEF TypeOK, ActivationsOK, Activations
  <1>3. ConnectionsOK'
    BY DEF TypeOK, ConnectionsOK
  <1> QED BY <1>1, <1>2, <1>3 DEF TypeOK

LEMMA TypeNext == TypeOK /\ [Next]_vars => TypeOK'
  <1>1. TypeOK /\ UNCHANGED vars => TypeOK'
    BY DEF TypeOK, MainOK, EventsOK, ActivationsOK, ConnectionsOK, vars, mainVars, requestVars
  <1> QED BY <1>1, MainType, RequestType, SignalType, ClientType DEF Next, Gone, Hung

\* Every reachable state is well typed, and the process has an exit code
\* exactly when serve is over.
THEOREM TypeCorrect == Spec => []TypeOK
  BY TypeInit, TypeNext, PTL DEF Spec

-----------------------------------------------------------------------------
(* Stops that arrive during start-up, and stops while the daemon serves.   *)

\* A signal handler keeps the main thread from running while it runs.
HandlersOnTop == \A s \in Signals : Active(s) => "main" \in under[s]

\* From publish on, a signal handler finds the daemon.
PublishedInTime ==
    main \notin {"load", "checkStop", "bind", "publish", "returned", "gone"} => published

\* What an activation knows of _shutdown_requested, which is never cleared.
FlagKnown ==
    /\ \A a \in Activations : (step[a] = "decide" \/ already[a]) => flag
    /\ step["main"] \in {"decide", "done"} => flag

\* Whoever recorded a stop has told the daemon by now, or is about to.
StopPassedOn ==
    main = "enter" /\ stopRequested
        => flag \/ \E s \in Signals : step[s] \in {"ref", "already", "markFlag", "setFlag"}

\* _serving is set exactly between the announcement and the end of serve_forever.
ServingInTime == serving <=> main \in {"begin", "loop", "accept", "unwind", "retire"}

\* StopNotForgotten, and already between the check and the announcement.
StopPending ==
    main \in {"announce", "begin", "loop", "accept"} /\ flag /\ ~missed => StopUnderWay

\* A handler thread asks for a stop only after it read its request.
FreshHandlers ==
    \A c \in Clients : conn[c] \in {"none", "queued", "reading"} => step[c] = "none"

StopInv == /\ HandlersOnTop /\ PublishedInTime /\ FlagKnown /\ FreshHandlers
           /\ StopPassedOn /\ ServingInTime /\ StopPending

LEMMA StopInvInit == Init => StopInv
  BY DEF Init, StopInv, HandlersOnTop, PublishedInTime, FlagKnown, StopPassedOn, ServingInTime,
     StopPending, FreshHandlers, Active, Activations

\* The main thread runs only when no signal handler does.
LEMMA MainAlone ==
    ASSUME StopInv, CanRun("main"), NEW s \in Signals
    PROVE  step[s] \in {"none", "done"}
  BY DEF StopInv, HandlersOnTop, CanRun, Active

LEMMA StopInvMain == TypeOK /\ StopInv /\ MainStep => StopInv'
  <1> SUFFICES ASSUME TypeOK, StopInv, MainStep PROVE StopInv'
    OBVIOUS
  <1> USE DEF MainAt, Proceed, Return, requestVars, StopInv, TypeOK, EventsOK
  <1>1. CASE Recheck
    <2>1. \A a \in Activations \ {"main"} : step'[a] = step[a]
      BY <1>1 DEF Recheck, GoTo, ActivationsOK
    <2>2. stopRequested => step'["main"] = "already"
      BY <1>1 DEF Recheck, GoTo, ActivationsOK, Activations
    <2>3. HandlersOnTop' /\ FlagKnown' /\ FreshHandlers'
      BY <1>1, <2>1, <2>2
         DEF Recheck, HandlersOnTop, FlagKnown, FreshHandlers, Active, Activations
    <2> QED BY <1>1, <2>3 DEF Recheck, PublishedInTime, StopPassedOn, ServingInTime, StopPending
  <1>2. CASE ~Recheck
    <2>1. HandlersOnTop' /\ FlagKnown'
      <3>1. UNCHANGED requestVars
        BY <1>2 DEF MainStep, LoadAgents, CheckStop, Bind, Publish, RecheckDone,
           Enter, Announce, Begin, Loop, AcceptConnection, Unwind, Retire, Close, Join, Exit
      <3> QED BY <3>1 DEF HandlersOnTop, FlagKnown, Active
    <2>2. PublishedInTime'
      BY <1>2 DEF PublishedInTime, MainStep, LoadAgents, CheckStop, Bind, Publish, RecheckDone,
         Enter, Announce, Begin, Loop, AcceptConnection, Unwind, Retire, Close, Join, Exit
    <2>3. StopPassedOn'
      BY <1>2 DEF StopPassedOn, FlagKnown, MainStep, LoadAgents, CheckStop, Bind, Publish,
         RecheckDone, Enter, Announce, Begin, Loop, AcceptConnection, Unwind, Retire, Close,
         Join, Exit
    <2>4. ServingInTime'
      BY <1>2 DEF ServingInTime, MainStep, LoadAgents, CheckStop, Bind, Publish, RecheckDone,
         Enter, Announce, Begin, Loop, AcceptConnection, Unwind, Retire, Close, Join, Exit
    <2>5. StopPending'
      BY <1>2 DEF StopPending, StopUnderWay, MainStep, LoadAgents, CheckStop, Bind, Publish,
         RecheckDone, Enter, Announce, Begin, Loop, AcceptConnection, Unwind, Retire, Close,
         Join, Exit
    <2>6. FreshHandlers'
      <3>1. CASE AcceptConnection \/ Close
        BY <3>1 DEF AcceptConnection, Close, FreshHandlers, ConnectionsOK
      <3>2. CASE ~AcceptConnection /\ ~Close
        BY <1>2, <3>2 DEF FreshHandlers, MainStep, LoadAgents, CheckStop, Bind, Publish,
           RecheckDone, Enter, Announce, Begin, Loop, Unwind, Retire, Join, Exit
      <3> QED BY <3>1, <3>2
    <2> QED BY <2>1, <2>2, <2>3, <2>4, <2>5, <2>6
  <1> QED BY <1>1, <1>2

\* Everything but the main thread leaves these two alone.
LEMMA MainVarsKept ==
    StopInv /\ UNCHANGED <<main, published, serving>> => PublishedInTime' /\ ServingInTime'
  BY DEF StopInv, PublishedInTime, ServingInTime

LEMMA StopInvRequest ==
    ASSUME TypeOK, StopInv, NEW a \in Activations, RequestStep(a) \/ StopperStep(a)
    PROVE  StopInv'
  <1> USE DEF GoTo, mainVars, StopInv, TypeOK, EventsOK, ActivationsOK
  <1>1. CASE ReadFlag(a)
    <2>1. HandlersOnTop' /\ FlagKnown' /\ StopPassedOn' /\ FreshHandlers'
      BY <1>1 DEF ReadFlag, HandlersOnTop, FlagKnown, StopPassedOn,
         FreshHandlers, Active
    <2>2. StopPending'
      BY <1>1 DEF ReadFlag, StopPending, StopUnderWay
    <2> QED BY <1>1, <2>1, <2>2, MainVarsKept DEF ReadFlag
  <1>2. CASE EnterFlag(a)
    <2>1. HandlersOnTop' /\ FlagKnown' /\ StopPassedOn' /\ FreshHandlers'
      BY <1>2 DEF EnterFlag, HandlersOnTop, FlagKnown, StopPassedOn,
         FreshHandlers, Active
    <2>2. StopPending'
      BY <1>2 DEF EnterFlag, StopPending, StopUnderWay
    <2> QED BY <1>2, <2>1, <2>2, MainVarsKept DEF EnterFlag
  <1>3. CASE SetFlag(a)
    <2>1. HandlersOnTop' /\ FlagKnown' /\ StopPassedOn' /\ FreshHandlers'
      BY <1>3 DEF SetFlag, HandlersOnTop, FlagKnown, StopPassedOn,
         FreshHandlers, Active
    <2>2. StopPending'
      <3>1. CASE flag
        BY <1>3, <3>1 DEF SetFlag, StopPending, StopUnderWay
      <3>2. CASE ~flag
        \* The first request: it found the Event clear and will act.
        BY <1>3, <3>2 DEF SetFlag, StopPending, StopUnderWay, FlagKnown
      <3> QED BY <3>1, <3>2
    <2> QED BY <1>3, <2>1, <2>2, MainVarsKept DEF SetFlag
  <1>4. CASE Decide(a)
    <2>1. HandlersOnTop' /\ FlagKnown' /\ StopPassedOn' /\ FreshHandlers'
      BY <1>4 DEF Decide, HandlersOnTop, FlagKnown, StopPassedOn,
         FreshHandlers, Active
    <2>2. StopPending'
      <3>1. CASE ~already[a] /\ serving
        BY <1>4, <3>1 DEF Decide, StopPending, StopUnderWay
      <3>2. CASE already[a]
        BY <1>4, <3>2 DEF Decide, StopPending, StopUnderWay
      <3>3. CASE ~serving
        BY <1>4, <3>3 DEF Decide, StopPending, StopUnderWay, ServingInTime, InWindow
      <3> QED BY <3>1, <3>2, <3>3
    <2> QED BY <1>4, <2>1, <2>2, MainVarsKept DEF Decide
  <1>5. CASE StopperAsks(a) \/ StopperEnds(a)
    <2>1. HandlersOnTop' /\ FlagKnown' /\ StopPassedOn' /\ FreshHandlers'
      BY <1>5 DEF StopperAsks, StopperEnds, HandlersOnTop, FlagKnown, StopPassedOn,
         FreshHandlers, Active
    <2>2. StopPending'
      BY <1>5 DEF StopperAsks, StopperEnds, StopPending, StopUnderWay
    <2> QED BY <1>5, <2>1, <2>2, MainVarsKept DEF StopperAsks, StopperEnds
  <1> QED BY <1>1, <1>2, <1>3, <1>4, <1>5 DEF RequestStep, StopperStep

LEMMA StopInvSignal ==
    ASSUME TypeOK, StopInv, NEW s \in Signals, Deliver(s) \/ SignalStep(s)
    PROVE  StopInv'
  <1> USE DEF GoTo, mainVars, StopInv, TypeOK, EventsOK, ActivationsOK, Activations
  <1>1. CASE Deliver(s)
    BY <1>1, MainVarsKept DEF Deliver, MainStack, HandlersOnTop, FlagKnown, StopPassedOn,
       StopPending, StopUnderWay, FreshHandlers, Active
  <1>2. CASE EnterStop(s)
    BY <1>2, MainVarsKept DEF EnterStop, HandlersOnTop, FlagKnown, StopPassedOn, StopPending,
       StopUnderWay, FreshHandlers, Active
  <1>3. CASE SetStop(s)
    BY <1>3, MainVarsKept DEF SetStop, HandlersOnTop, FlagKnown, StopPassedOn, StopPending,
       StopUnderWay, FreshHandlers, Active
  <1>4. CASE ReadRef(s)
    BY <1>4, MainVarsKept DEF ReadRef, HandlersOnTop, FlagKnown, StopPassedOn, StopPending,
       StopUnderWay, FreshHandlers, Active, PublishedInTime
  <1> QED BY <1>1, <1>2, <1>3, <1>4 DEF SignalStep

LEMMA StopInvClient ==
    ASSUME TypeOK, StopInv, NEW c \in Clients, Connect(c) \/ HandlerStep(c)
    PROVE  StopInv'
  <1>1. UNCHANGED <<mainVars, stopRequested, flag, already, under, stopper, missed>>
    BY DEF requestVars, HandlerStep, Connect, Receive, Execute, Reply
  <1>2. step' = step \/ (step' = [step EXCEPT ![c] = "already"] /\ conn[c] = "reading")
    BY DEF requestVars, HandlerStep, Connect, Receive, Execute, Reply, GoTo
  <1>3. conn[c] = "reading" => step[c] = "none"
    BY DEF StopInv, FreshHandlers
  <1> USE DEF TypeOK, ActivationsOK, StopInv, Activations
  <1>a. \A a \in Activations \ {c} : step'[a] = step[a]
    BY <1>2
  <1>b. step'[c] = step[c] \/ (step[c] = "none" /\ step'[c] = "already")
    BY <1>2, <1>3
  <1>c. c \in Activations /\ c # "main" /\ c \notin Signals
    OBVIOUS
  <1>4. HandlersOnTop' /\ FlagKnown' /\ StopPassedOn'
    <2>1. HandlersOnTop'
      BY <1>1, <1>a, <1>c DEF mainVars, HandlersOnTop, Active
    <2>2. FlagKnown'
      BY <1>1, <1>a, <1>b, <1>c DEF FlagKnown
    <2>3. StopPassedOn'
      BY <1>1, <1>a, <1>c DEF mainVars, StopPassedOn
    <2> QED BY <2>1, <2>2, <2>3
  <1>5. StopPending'
    BY <1>1, <1>2, <1>3 DEF mainVars, StopPending, StopUnderWay
  <1>6. FreshHandlers'
    <2>1. ASSUME NEW d \in Clients, d # c, conn'[d] \in {"none", "queued", "reading"}
          PROVE  step'[d] = "none"
      <3>1. conn'[d] = conn[d]
        BY <2>1 DEF ConnectionsOK, HandlerStep, Connect, Receive, Execute, Reply, SetConn
      <3> QED BY <1>a, <2>1, <3>1 DEF FreshHandlers
    <2>2. conn'[c] \in {"none", "queued", "reading"} => step'[c] = "none"
      <3>1. CASE Connect(c)
        BY <3>1 DEF FreshHandlers, Connect, requestVars
      <3>2. CASE HandlerStep(c)
        BY <3>2 DEF ConnectionsOK, HandlerStep, Receive, Execute, Reply, SetConn
      <3> QED BY <3>1, <3>2
    <2> QED BY <2>1, <2>2 DEF FreshHandlers
  <1> QED BY <1>1, <1>4, <1>5, <1>6, MainVarsKept DEF mainVars

LEMMA StopInvNext == TypeOK /\ StopInv /\ [Next]_vars => StopInv'
  <1>1. StopInv /\ UNCHANGED vars => StopInv'
    BY DEF StopInv, HandlersOnTop, PublishedInTime, FlagKnown, FreshHandlers, StopPassedOn,
       ServingInTime, StopPending, StopUnderWay, Active, vars, mainVars, requestVars
  <1> QED BY <1>1, StopInvMain, StopInvRequest, StopInvSignal, StopInvClient DEF Next, Gone, Hung

\* The early return of every stop request after the first is right, the window
\* aside: while the daemon serves and a stop was asked for, somebody is on the
\* way to end the accept loop.  For any number of signals and clients.
THEOREM StopsRemembered == Spec => []StopNotForgotten
  <1>1. StopInv => StopNotForgotten
    BY DEF StopInv, StopPending, StopNotForgotten
  <1> QED BY <1>1, TypeInit, TypeNext, StopInvInit, StopInvNext, PTL DEF Spec

LEMMA EarlyStopStep ==
    TypeOK /\ StopInv /\ [Next]_vars
        => [main = "enter" /\ main' = "announce" => ~stopRequested]_vars
  <1> SUFFICES ASSUME TypeOK, StopInv, Next, main = "enter", main' = "announce"
               PROVE  ~stopRequested
    OBVIOUS
  <1>1. main' # main
    OBVIOUS
  <1>2. MainStep
    BY <1>1 DEF Next, Gone, Hung, vars, mainVars, requestVars, Deliver, SignalStep, EnterStop, SetStop,
       ReadRef, RequestStep, StopperStep, ReadFlag, EnterFlag, SetFlag, Decide, StopperAsks,
       StopperEnds, HandlerStep, Connect, Receive, Execute, Reply
  <1>3. Enter
    BY <1>2 DEF MainStep, LoadAgents, CheckStop, Bind, Publish, Recheck, RecheckDone, Announce,
       Begin, Loop, AcceptConnection, Unwind, Retire, Close, Join, Exit, MainAt
  <1>4. ~flag /\ CanRun("main")
    BY <1>3 DEF Enter, MainAt, Proceed
  <1> QED BY <1>4, MainAlone DEF StopInv, StopPassedOn

\* EarlyStopNeverServes: a stop that a signal recorded before serve_forever's check
\* (daemon.py:298) is never overlooked, however many signals interrupt the start-up,
\* and each other.  Nothing is said of one between the check and the announcement.
THEOREM EarlyStopsHonoured == Spec => EarlyStopNeverServes
  BY TypeInit, TypeNext, StopInvInit, StopInvNext, EarlyStopStep, PTL
     DEF Spec, EarlyStopNeverServes
=============================================================================
