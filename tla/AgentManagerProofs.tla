------------------------- MODULE AgentManagerProofs -------------------------
(***************************************************************************)
(* Proofs about AgentManager for any number of clients, agents, keys and   *)
(* Action Planes.                                                          *)
(***************************************************************************)
EXTENDS AgentManager, TLAPS

USE NoneAssumption, NoneIsNoConfig DEF ghosts

-----------------------------------------------------------------------------
(* The documents.                                                          *)

\* A document updated at one of its names is a document.
LEMMA UpdatedDocument ==
    ASSUME NEW names, NEW values, NEW doc \in Documents(names, values),
           NEW n, NEW v \in values \cup {None}
    PROVE  [doc EXCEPT ![n] = v] \in Documents(names, values)
  BY DEF Documents

\* Rewriting a file with a document leaves a file over the same documents.
LEMMA WrittenFile ==
    ASSUME NEW docs, NEW file \in Files(docs), NEW doc \in docs
    PROVE  Written(file, doc) \subseteq Files(docs)
  BY DEF Written, Files, Holding, Torn

LEMMA FileTypes ==
    ASSUME NEW docs, NEW doc \in docs
    PROVE  /\ Holding(doc) \in Files(docs)
           /\ Empty \in Files(docs)
           /\ \A file \in Files(docs) : Readable(file) => file.doc \in docs
  BY DEF Files, Holding, Empty, Readable

\* A request names a file.
LEMMA RequestFile ==
    ASSUME NEW r \in Requests
    PROVE  /\ r.op \in {"spawn", "remove_agent", "add_key", "remove_key", "add_plane",
                        "remove_plane"}
           /\ FileOf(r) \in FileNames
           /\ (FileOf(r) = "agents") <=> (r.op \in AgentOps)
           /\ (FileOf(r) = "keys") <=> (r.op \in KeyOps)
  BY DEF Requests, AgentRequests, KeyRequests, PlaneRequests, FileOf, AgentOps, KeyOps, FileNames

\* What a request adds fits the documents of its file.
LEMMA RequestDocument ==
    ASSUME NEW r \in Requests, NEW doc \in DocsOf(r)
    PROVE  [doc EXCEPT ![r.target] = r.value] \in DocsOf(r)
  <1>1. CASE r \in AgentRequests
    <2>1. r.op \in AgentOps
      BY <1>1 DEF AgentRequests, AgentOps
    <2>2. r.value \in Configs \cup {None}
      BY <1>1 DEF AgentRequests
    <2>3. DocsOf(r) = AgentDocs
      BY <2>1 DEF DocsOf, AgentOps, KeyOps
    <2> QED BY <2>2, <2>3 DEF AgentDocs, Documents
  <1>2. CASE r \in KeyRequests
    <2>1. r.op \in KeyOps /\ r.op \notin AgentOps
      BY <1>2 DEF KeyRequests, KeyOps, AgentOps
    <2>2. r.value \in KeyTypes \cup {None}
      BY <1>2 DEF KeyRequests
    <2>3. DocsOf(r) = KeyDocs
      BY <2>1 DEF DocsOf
    <2> QED BY <2>2, <2>3 DEF KeyDocs, Documents
  <1>3. CASE r \in PlaneRequests
    <2>1. r.op \notin KeyOps /\ r.op \notin AgentOps
      BY <1>3 DEF PlaneRequests, KeyOps, AgentOps
    <2>2. r.value \in {Endpoint} \cup {None}
      BY <1>3 DEF PlaneRequests
    <2>3. DocsOf(r) = PlaneDocs
      BY <2>1 DEF DocsOf
    <2> QED BY <2>2, <2>3 DEF PlaneDocs, Documents
  <1> QED BY <1>1, <1>2, <1>3 DEF Requests

\* The file a request names holds documents the request can change.
LEMMA RequestedFile ==
    ASSUME TypeOK, NEW r \in Requests
    PROVE  files[FileOf(r)] \in Files(DocsOf(r))
  BY DEF TypeOK, FilesOK, FileOf, DocsOf

\* Replacing the file of a request by another over the same documents keeps
\* the files well typed.
LEMMA ReplacedFile ==
    ASSUME TypeOK, NEW r \in Requests, NEW file \in Files(DocsOf(r)),
           files' = [files EXCEPT ![FileOf(r)] = file]
    PROVE  FilesOK'
  BY DEF TypeOK, FilesOK, FileOf, DocsOf

-----------------------------------------------------------------------------
(* The handlers.                                                           *)

\* A handler that is not idle serves a request.
LEMMA BusyHandler ==
    ASSUME HandlersOK, NEW c \in Clients, pc[c] # "idle"
    PROVE  req[c] \in Requests
  BY DEF HandlersOK, HandlerOK, StepsOf, KeyOps, NoRequest

\* Answering leaves the handler in order, and the others alone.
LEMMA AnswerHandlers ==
    ASSUME HandlersOK, NEW c \in Clients, Answer(c)
    PROVE  HandlersOK'
  <1>1. HandlerOK(c)'
    BY DEF HandlersOK, HandlerOK, Answer, StepsOf, KeyOps, NoRequest
  <1>2. ASSUME NEW d \in Clients, d # c PROVE HandlerOK(d)'
    BY <1>2 DEF HandlersOK, HandlerOK, Answer
  <1> QED BY <1>1, <1>2 DEF HandlersOK, Answer, Steps

\* So does moving on to a later step of the operation, with the right snapshot.
LEMMA GoToHandlers ==
    ASSUME HandlersOK, NEW c \in Clients, NEW step \in StepsOf(req[c].op) \ {"idle"},
           step \in Steps, NEW doc, GoTo(c, step), snap' = [snap EXCEPT ![c] = doc],
           IF step \in {"pop", "read"} THEN doc = None ELSE doc \in DocsOf(req[c])
    PROVE  HandlersOK'
  <1>1. HandlerOK(c)'
    BY DEF HandlersOK, HandlerOK, GoTo
  <1>2. ASSUME NEW d \in Clients, d # c PROVE HandlerOK(d)'
    BY <1>2 DEF HandlersOK, HandlerOK, GoTo
  <1>3. doc \in {None} \cup AgentDocs \cup KeyDocs \cup PlaneDocs
    BY DEF DocsOf, AgentOps, KeyOps
  <1> QED BY <1>1, <1>2, <1>3 DEF HandlersOK, GoTo

\* Which operations take which steps.
LEMMA StepOperations ==
    ASSUME NEW r \in Requests
    PROVE  /\ {"read", "truncate", "flush"} \subseteq StepsOf(r.op)
           /\ "pop" \in StepsOf(r.op) <=> r.op = "remove_agent"
           /\ \A step \in {"check", "plane", "key", "secret", "install"} :
                  step \in StepsOf(r.op) <=> r.op = "spawn"
           /\ "secretStore" \in StepsOf(r.op) <=> r.op \in KeyOps
           /\ FirstStep(r) \in StepsOf(r.op)
  <1>1. r.op \in {"spawn", "remove_agent", "add_key", "remove_key", "add_plane", "remove_plane"}
    BY RequestFile
  <1> QED BY <1>1 DEF StepsOf, KeyOps, FirstStep

\* The handler's own view: what it serves and holds at a step past its first.
LEMMA HandlerAt ==
    ASSUME HandlersOK, NEW c \in Clients, pc[c] # "idle"
    PROVE  /\ req[c] \in Requests
           /\ pc[c] \in StepsOf(req[c].op)
           /\ pc[c] \in {"pop", "read"} => snap[c] = None
           /\ pc[c] \notin {"pop", "read"} => snap[c] \in DocsOf(req[c])
           /\ snap' = snap => snap' = [snap EXCEPT ![c] = snap[c]]
  BY BusyHandler DEF HandlersOK, HandlerOK

LEMMA RequestValue ==
    ASSUME NEW r \in Requests
    PROVE  /\ r.op = "spawn" => r.target \in Names /\ r.value \in Configs
           /\ r.op = "remove_agent" => r.target \in Names /\ r.value = None
           /\ r.op = "add_key" => r.target \in Keys /\ r.value \in KeyTypes
           /\ r.op = "remove_key" => r.target \in Keys /\ r.value = None
           /\ r.op = "remove_plane" => r.target \in Planes
  BY DEF Requests, AgentRequests, KeyRequests, PlaneRequests

-----------------------------------------------------------------------------
(* Type correctness.                                                       *)

LEMMA TypeInit == Init => TypeOK
  <1> SUFFICES ASSUME Init PROVE TypeOK
    OBVIOUS
  <1>1. /\ EmptyDocument(Names) \in AgentDocs
        /\ EmptyDocument(Keys) \in KeyDocs
        /\ EmptyDocument(Planes) \in PlaneDocs
    BY DEF EmptyDocument, AgentDocs, KeyDocs, PlaneDocs, Documents
  <1>2. FilesOK
    BY <1>1, FileTypes DEF Init, FilesOK
  <1>3. HandlersOK
    BY DEF Init, HandlersOK, HandlerOK, NoRequest, StepsOf, KeyOps, Steps
  <1> QED BY <1>1, <1>2, <1>3 DEF Init, TypeOK

LEMMA SectionDisturbs ==
    ASSUME TypeOK, NEW c \in Clients, req[c] \in Requests, EnterSection(c)
    PROVE  disturbed' \subseteq FileNames
  BY RequestFile DEF EnterSection, TypeOK

LEMMA TypeStep == ASSUME TypeOK, NEW c \in Clients, Step(c) PROVE TypeOK'
  <1> USE DEF At
  <1>h. HandlersOK
    BY DEF TypeOK
  <1>1. ASSUME NEW r \in Requests, Accept(c, r) PROVE TypeOK'
    <2>1. FirstStep(r) \in StepsOf(r.op) /\ FirstStep(r) \in {"pop", "read"}
      BY StepOperations DEF FirstStep
    <2>2. HandlerOK(c)'
      BY <1>1, <1>h, <2>1 DEF Accept, HandlersOK, HandlerOK
    <2>3. ASSUME NEW d \in Clients, d # c PROVE HandlerOK(d)'
      BY <1>1, <1>h, <2>3 DEF Accept, HandlersOK, HandlerOK
    <2>4. HandlersOK'
      BY <1>1, <1>h, <2>1, <2>2, <2>3 DEF Accept, HandlersOK, Steps
    <2>5. used' \subseteq Ids
      <3>1. CASE r.op = "spawn"
        BY <1>1, <3>1, RequestValue DEF Accept, TypeOK, Configs
      <3>2. CASE r.op # "spawn"
        BY <1>1, <3>2 DEF Accept, TypeOK
      <3> QED BY <3>1, <3>2
    <2> QED BY <1>1, <2>4, <2>5 DEF Accept, TypeOK, FilesOK
  <1>2. CASE Pop(c)
    <2>1. req[c] \in Requests /\ req[c].op = "remove_agent"
      BY <1>2, <1>h, HandlerAt, StepOperations DEF Pop
    <2>2. CASE agents[Target(c)] = None
      BY <1>2, <1>h, <2>2, AnswerHandlers DEF Pop, TypeOK, FilesOK
    <2>3. CASE agents[Target(c)] # None
      <3>1. HandlersOK'
        BY <1>2, <1>h, <2>1, <2>3, HandlerAt, StepOperations, GoToHandlers DEF Pop, Steps
      <3>2. agents' \in AgentDocs
        BY <1>2, <2>3 DEF Pop, TypeOK, AgentDocs, Documents
      <3> QED BY <1>2, <2>1, <2>3, <3>1, <3>2, SectionDisturbs DEF Pop, TypeOK, FilesOK
    <2> QED BY <2>2, <2>3
  <1>3. CASE ReadRefused(c)
    BY <1>3, <1>h, AnswerHandlers DEF ReadRefused, TypeOK, FilesOK
  <1>4. CASE Read(c)
    <2>1. req[c] \in Requests
      BY <1>4, <1>h, HandlerAt DEF Read
    <2>2. files[FileOf(req[c])].doc \in DocsOf(req[c])
      BY <1>4, <2>1, RequestedFile DEF Read, Readable, Files
    <2>3. HandlersOK'
      BY <1>4, <1>h, <2>1, <2>2, StepOperations, GoToHandlers DEF Read, Steps
    <2>4. disturbed' \subseteq FileNames
      BY <1>4, <2>1, SectionDisturbs DEF Read, TypeOK
    <2> QED BY <1>4, <2>3, <2>4 DEF Read, TypeOK, FilesOK
  <1>5. ASSUME NEW ok, NEW step \in {"plane", "key", "secret", "install"}, Continue(c, ok, step),
               pc[c] \in {"check", "plane", "key", "secret"}
        PROVE  TypeOK'
    <2>1. CASE ok
      BY <1>5, <1>h, <2>1, HandlerAt, StepOperations, GoToHandlers
         DEF Continue, TypeOK, FilesOK, Steps
    <2>2. CASE ~ok
      BY <1>5, <1>h, <2>2, AnswerHandlers DEF Continue, TypeOK, FilesOK
    <2> QED BY <2>1, <2>2
  <1>6. CASE CheckName(c) \/ ResolvePlane(c) \/ ResolveKey(c) \/ ResolveSecret(c)
    BY <1>5, <1>6 DEF CheckName, ResolvePlane, ResolveKey, ResolveSecret
  <1>7. CASE Install(c)
    <2>1. HandlersOK'
      BY <1>7, <1>h, HandlerAt, StepOperations, GoToHandlers DEF Install, Steps
    <2>2. agents' \in AgentDocs
      <3>1. req[c] \in Requests /\ req[c].op = "spawn"
        BY <1>7, <1>h, HandlerAt, StepOperations DEF Install
      <3>2. req[c].value \in Configs
        BY <3>1, RequestValue
      <3>3. agents \in Documents(Names, Configs)
        BY DEF TypeOK, AgentDocs
      <3>4. agents' = [agents EXCEPT ![Target(c)] = req[c].value]
        BY <1>7 DEF Install
      <3> QED BY <3>2, <3>3, <3>4, UpdatedDocument DEF AgentDocs
    <2> QED BY <1>7, <2>1, <2>2 DEF Install, TypeOK, FilesOK
  <1>8. CASE Truncate(c)
    <2>1. req[c] \in Requests
      BY <1>8, <1>h, HandlerAt DEF Truncate
    <2>2. HandlersOK'
      BY <1>8, <1>h, <2>1, HandlerAt, StepOperations, GoToHandlers DEF Truncate, Steps
    <2>3. FilesOK'
      BY <1>8, <2>1, ReplacedFile DEF Truncate, Truncated, Empty, Files
    <2> QED BY <1>8, <2>2, <2>3 DEF Truncate, TypeOK
  <1>9. CASE Flush(c)
    <2>1. req[c] \in Requests /\ snap[c] \in DocsOf(req[c])
      BY <1>9, <1>h, HandlerAt DEF Flush
    <2>2. HandlersOK'
      <3>1. CASE req[c].op \in KeyOps
        BY <1>9, <1>h, <2>1, <3>1, HandlerAt, StepOperations, GoToHandlers DEF Flush, Steps
      <3>2. CASE req[c].op \notin KeyOps
        BY <1>9, <1>h, <3>2, AnswerHandlers DEF Flush
      <3> QED BY <3>1, <3>2
    <2>3. FilesOK'
      <3>1. NewDocument(c) \in DocsOf(req[c])
        BY <2>1, RequestDocument DEF NewDocument, Target
      <3>2. Written(files[FileOf(req[c])], NewDocument(c)) \subseteq Files(DocsOf(req[c]))
        BY <2>1, <3>1, RequestedFile, WrittenFile
      <3> QED BY <1>9, <2>1, <3>2, ReplacedFile DEF Flush
    <2>4. removed' \subseteq Keys \cup Planes
      BY <1>9, <2>1, RequestValue DEF Flush, Target, TypeOK
    <2> QED BY <1>9, <2>2, <2>3, <2>4 DEF Flush, TypeOK
  <1>10. CASE StoreSecret(c)
    <2>1. req[c] \in Requests /\ req[c].op \in KeyOps
      BY <1>10, <1>h, HandlerAt, StepOperations DEF StoreSecret
    <2>2. Target(c) \in Keys
      BY <2>1, RequestValue DEF KeyOps, Target
    <2>3. secrets' \subseteq Keys
      BY <1>10, <2>2 DEF StoreSecret, TypeOK
    <2> QED BY <1>10, <1>h, <2>3, AnswerHandlers DEF StoreSecret, TypeOK, FilesOK
  <1> QED BY <1>1, <1>2, <1>3, <1>4, <1>6, <1>7, <1>8, <1>9, <1>10 DEF Step

\* The files and keys that a failed step disturbs are those of its request.
LEMMA TypeFail == ASSUME TypeOK, NEW c \in Clients, Fail(c) PROVE TypeOK'
  <1>1. HandlersOK /\ req[c] \in Requests /\ pc[c] \in StepsOf(req[c].op)
    BY HandlerAt DEF TypeOK, Fail
  <1>2. HandlersOK'
    BY <1>1, AnswerHandlers DEF Fail
  <1>3. FilesOK'
    <2>1. CASE UNCHANGED files
      BY <2>1 DEF TypeOK, FilesOK
    <2>2. CASE files' = [files EXCEPT ![FileOf(req[c])] = Torn]
      <3>1. Torn \in Files(DocsOf(req[c]))
        BY DEF Torn, Files
      <3> QED BY <1>1, <2>2, <3>1, ReplacedFile
    <2> QED BY <2>1, <2>2 DEF Fail
  <1>4. disturbed' \subseteq FileNames
    BY <1>1, RequestFile DEF Fail, TypeOK
  <1>5. pc[c] = "secretStore" => Target(c) \in Keys
    BY <1>1, StepOperations, RequestValue DEF KeyOps, Target
  <1>6. unfinished' \subseteq Keys
    BY <1>5 DEF Fail, TypeOK
  <1> QED BY <1>2, <1>3, <1>4, <1>6 DEF Fail, TypeOK

LEMMA TypeNext == TypeOK /\ [Next]_vars => TypeOK'
  <1> SUFFICES ASSUME TypeOK, [Next]_vars PROVE TypeOK'
    OBVIOUS
  <1>1. CASE \E c \in Clients : Step(c) \/ Fail(c)
    BY <1>1, TypeStep, TypeFail
  <1>2. CASE Crash
    <2>1. HandlersOK'
      BY <1>2 DEF Crash, TypeOK, HandlersOK, HandlerOK, NoRequest, StepsOf, KeyOps, Steps
    <2>2. agents' \in AgentDocs
      BY <1>2 DEF Crash, EmptyDocument, AgentDocs, Documents
    <2>3. disturbed' \subseteq FileNames
      <3>1. \A c \in Clients : pc[c] = "flush" => FileOf(req[c]) \in FileNames
        BY BusyHandler, RequestFile DEF TypeOK
      <3> QED BY <1>2, <3>1 DEF Crash, TypeOK
    <2>4. unfinished' \subseteq Keys
      <3>1. ASSUME NEW c \in Clients, pc[c] = "secretStore" PROVE Target(c) \in Keys
        <4>1. req[c] \in Requests /\ pc[c] \in StepsOf(req[c].op)
          BY <3>1, HandlerAt DEF TypeOK
        <4> QED BY <3>1, <4>1, StepOperations, RequestValue DEF KeyOps, Target
      <3> QED BY <1>2, <3>1 DEF Crash, TypeOK
    <2> QED BY <1>2, <2>1, <2>2, <2>3, <2>4 DEF Crash, TypeOK, FilesOK
  <1>3. CASE Load
    <2> PICK lost \in Outside \cup {None} :
             IF Loadable(lost)
             THEN daemon' = "serving" /\ agents' = files.agents.doc /\ UNCHANGED broken
             ELSE daemon' = "refused" /\ broken' = lost /\ UNCHANGED agents
      BY <1>3 DEF Load
    <2>1. agents' \in AgentDocs
      <3>1. CASE Loadable(lost)
        BY <3>1 DEF Loadable, Readable, Files, TypeOK, FilesOK
      <3>2. CASE ~Loadable(lost)
        BY <3>2 DEF TypeOK
      <3> QED BY <3>1, <3>2
    <2> QED BY <1>3, <2>1 DEF Load, TypeOK, FilesOK, HandlersOK, HandlerOK
  <1>4. CASE StartByHand
    BY <1>4 DEF StartByHand, TypeOK, FilesOK, HandlersOK, HandlerOK
  <1>5. CASE UNCHANGED vars
    BY <1>5 DEF vars, TypeOK, FilesOK, HandlersOK, HandlerOK
  <1> QED BY <1>1, <1>2, <1>3, <1>4, <1>5 DEF Next

\* Every reachable state is well typed: handlers only ever stand at steps of
\* the operation they serve, with a document of the right file in hand.
THEOREM TypeCorrect == Spec => []TypeOK
  BY TypeInit, TypeNext, PTL DEF Spec

-----------------------------------------------------------------------------
(* Agreement of the running agents and agents.json.                        *)
(*                                                                         *)
(* AgentsAgree is not inductive: it says nothing while a spawn or a remove *)
(* is under way.  Progress says what memory, the file and the handler's    *)
(* snapshot are to each other at every step inside the section, and Alone  *)
(* that one handler at most is inside it.                                  *)

OnAgents(c) == InSection(c) /\ req[c].op \in AgentOps

Progress(c) ==
    /\ pc[c] = "read" =>
          /\ Readable(files.agents)
          /\ agents = [files.agents.doc EXCEPT ![Target(c)] = None]
    /\ pc[c] \in {"check", "plane", "key", "secret", "install"} =>
          files.agents = Holding(agents) /\ snap[c] = agents /\ agents[Target(c)] = None
    /\ pc[c] \in {"truncate", "flush"} => agents = NewDocument(c)
    /\ pc[c] = "truncate" => files.agents = Holding(snap[c])
    /\ pc[c] = "flush" => files.agents = Empty

Alone == \A c, d \in Clients : OnAgents(c) /\ OnAgents(d) => c = d

AllIdle == \A c \in Clients : pc[c] = "idle"

AgentsInv ==
    /\ daemon # "serving" => AllIdle /\ agents = EmptyDocument(Names)
    /\ "agents" \notin disturbed =>
          /\ Alone
          /\ \A c \in Clients : OnAgents(c) => Progress(c)
          /\ daemon = "serving" /\ (\A c \in Clients : ~OnAgents(c))
                => files.agents = Holding(agents)

LEMMA AgentsInvInit == Init => AgentsInv
  BY DEF Init, AgentsInv, Alone, OnAgents, InSection, AllIdle, Holding

\* A readable file is the one that holds its document.
LEMMA ReadableFile ==
    ASSUME NEW docs, NEW file \in Files(docs), Readable(file)
    PROVE  file = Holding(file.doc)
  BY DEF Files, Readable, Holding

\* While one handler is inside the section, no other is.
LEMMA OthersOutside ==
    ASSUME AgentsInv, "agents" \notin disturbed, NEW c \in Clients, OnAgents(c)
    PROVE  \A d \in Clients \ {c} : ~OnAgents(d)
  BY DEF AgentsInv, Alone

\* A handler that enters the section and leaves the document undisturbed finds
\* nobody inside.
LEMMA EntersAlone ==
    ASSUME TypeOK, NEW c \in Clients, req[c].op \in AgentOps, EnterSection(c),
           "agents" \notin disturbed'
    PROVE  \A d \in Clients \ {c} : ~OnAgents(d)
  <1>1. FileOf(req[c]) = "agents"
    BY DEF FileOf, AgentOps, KeyOps
  <1>2. ASSUME NEW d \in Clients \ {c}, OnAgents(d) PROVE FALSE
    <2>1. FileOf(req[d]) = "agents"
      BY <1>2 DEF OnAgents, FileOf, AgentOps, KeyOps
    <2> QED BY <1>1, <1>2, <2>1 DEF EnterSection, Overlaps, OnAgents
  <1> QED BY <1>2

\* The three ways a handler's step keeps the invariant: away from the
\* document, inside the section, or on its way out of it.
LEMMA StepKeepsAgentsInv ==
    ASSUME AgentsInv, NEW c \in Clients, daemon = "serving", daemon' = daemon,
           disturbed \subseteq disturbed',
           \A d \in Clients \ {c} : pc'[d] = pc[d] /\ req'[d] = req[d] /\ snap'[d] = snap[d],
           "agents" \notin disturbed' =>
              \/ /\ ~OnAgents(c) /\ ~OnAgents(c)'
                 /\ agents' = agents /\ files'.agents = files.agents
              \/ /\ \A d \in Clients \ {c} : ~OnAgents(d)
                 /\ OnAgents(c)' /\ Progress(c)'
              \/ /\ \A d \in Clients \ {c} : ~OnAgents(d)
                 /\ ~OnAgents(c)' /\ files'.agents = Holding(agents')
    PROVE  AgentsInv'
  <1> SUFFICES ASSUME "agents" \notin disturbed'
               PROVE  /\ Alone'
                      /\ \A d \in Clients : OnAgents(d)' => Progress(d)'
                      /\ (\A d \in Clients : ~OnAgents(d)') => files'.agents = Holding(agents')
    BY DEF AgentsInv
  <1>1. \A d \in Clients \ {c} : OnAgents(d)' = OnAgents(d)
    BY DEF OnAgents, InSection
  <1>2. CASE /\ ~OnAgents(c) /\ ~OnAgents(c)'
             /\ agents' = agents /\ files'.agents = files.agents
    <2>1. \A d \in Clients \ {c} : Progress(d) => Progress(d)'
      BY <1>2 DEF Progress, NewDocument, Target
    <2> QED BY <1>1, <1>2, <2>1 DEF AgentsInv, Alone
  <1>3. CASE /\ \A d \in Clients \ {c} : ~OnAgents(d)
             /\ OnAgents(c)' /\ Progress(c)'
    BY <1>1, <1>3 DEF Alone
  <1>4. CASE /\ \A d \in Clients \ {c} : ~OnAgents(d)
             /\ ~OnAgents(c)' /\ files'.agents = Holding(agents')
    BY <1>1, <1>4 DEF Alone
  <1> QED BY <1>2, <1>3, <1>4

LEMMA AgentsInvStep ==
    ASSUME TypeOK, AgentsInv, NEW c \in Clients, Step(c)
    PROVE  AgentsInv'
  <1> USE DEF At
  <1>h. HandlersOK
    BY DEF TypeOK
  <1>d. files.agents \in Files(AgentDocs)
    BY DEF TypeOK, FilesOK
  <1>1. ASSUME NEW r \in Requests, Accept(c, r) PROVE AgentsInv'
    <2>1. ~OnAgents(c)
      BY <1>1 DEF Accept, OnAgents, InSection
    <2>2. ~OnAgents(c)'
      BY <1>1, <1>h DEF Accept, OnAgents, InSection, HandlersOK
    <2>3. \A d \in Clients \ {c} : pc'[d] = pc[d] /\ req'[d] = req[d] /\ snap'[d] = snap[d]
      BY <1>1, <1>h DEF Accept, HandlersOK
    <2> QED BY <1>1, <2>1, <2>2, <2>3, StepKeepsAgentsInv DEF Accept
  <1>2. CASE Pop(c)
    <2>1. req[c].op = "remove_agent" /\ FirstStep(req[c]) = "pop"
      BY <1>2, <1>h, HandlerAt, StepOperations DEF Pop, FirstStep
    <2>2. ~OnAgents(c)
      BY <1>2, <2>1 DEF Pop, OnAgents, InSection
    <2>3. \A d \in Clients \ {c} : pc'[d] = pc[d] /\ req'[d] = req[d] /\ snap'[d] = snap[d]
      BY <1>2, <1>h DEF Pop, Answer, GoTo, HandlersOK
    <2>4. CASE agents[Target(c)] = None
      <3>1. ~OnAgents(c)'
        BY <1>2, <1>h, <2>4 DEF Pop, Answer, OnAgents, InSection, HandlersOK
      <3> QED BY <1>2, <2>2, <2>3, <2>4, <3>1, StepKeepsAgentsInv DEF Pop
    <2>5. CASE agents[Target(c)] # None
      <3>1. OnAgents(c)'
        BY <1>2, <1>h, <2>1, <2>5
           DEF Pop, GoTo, OnAgents, InSection, FirstStep, AgentOps, HandlersOK
      <3>2. disturbed \subseteq disturbed'
        BY <1>2, <2>5 DEF Pop, EnterSection
      <3>3. ASSUME "agents" \notin disturbed'
            PROVE  (\A d \in Clients \ {c} : ~OnAgents(d)) /\ Progress(c)'
        <4>1. \A d \in Clients \ {c} : ~OnAgents(d)
          BY <1>2, <2>1, <2>5, <3>3, EntersAlone DEF Pop, AgentOps
        <4>2. files.agents = Holding(agents)
          BY <1>2, <2>2, <3>2, <3>3, <4>1 DEF AgentsInv, Pop
        <4>3. files'.agents = Holding(agents) /\ agents' = [agents EXCEPT ![Target(c)'] = None]
          BY <1>2, <2>5, <4>2 DEF Pop, GoTo, Target
        <4>4. pc'[c] = "read"
          BY <1>2, <1>h, <2>5 DEF Pop, GoTo, HandlersOK
        <4> QED BY <4>1, <4>3, <4>4 DEF Progress, Readable, Holding
      <3> QED BY <1>2, <2>3, <2>5, <3>1, <3>2, <3>3, StepKeepsAgentsInv DEF Pop
    <2> QED BY <2>4, <2>5
  <1>3. CASE ReadRefused(c)
    <2>1. ASSUME "agents" \notin disturbed PROVE ~OnAgents(c)
      <3>1. SUFFICES ASSUME OnAgents(c) PROVE FALSE
        OBVIOUS
      <3>2. req[c].op = "remove_agent" /\ FileOf(req[c]) = "agents"
        BY <1>3, <3>1 DEF ReadRefused, OnAgents, InSection, FirstStep, AgentOps, KeyOps, FileOf
      <3> QED BY <1>3, <2>1, <3>1, <3>2 DEF ReadRefused, AgentsInv, Progress, Acceptable
    <2>2. ~OnAgents(c)'
      BY <1>3, <1>h DEF ReadRefused, Answer, OnAgents, InSection, HandlersOK
    <2>3. \A d \in Clients \ {c} : pc'[d] = pc[d] /\ req'[d] = req[d] /\ snap'[d] = snap[d]
      BY <1>3, <1>h DEF ReadRefused, Answer, HandlersOK
    <2> QED BY <1>3, <2>1, <2>2, <2>3, StepKeepsAgentsInv DEF ReadRefused
  <1>4. CASE Read(c)
    <2>1. req[c] \in Requests
      BY <1>4, <1>h, HandlerAt DEF Read
    <2>2. \A d \in Clients \ {c} : pc'[d] = pc[d] /\ req'[d] = req[d] /\ snap'[d] = snap[d]
      BY <1>4, <1>h DEF Read, GoTo, HandlersOK
    <2>3. disturbed \subseteq disturbed'
      BY <1>4 DEF Read, EnterSection
    <2>4. CASE req[c].op \notin AgentOps
      <3>1. ~OnAgents(c) /\ ~OnAgents(c)'
        BY <1>4, <2>4 DEF Read, GoTo, OnAgents
      <3> QED BY <1>4, <2>2, <2>3, <3>1, StepKeepsAgentsInv DEF Read
    <2>5. CASE req[c].op \in AgentOps
      <3>1. /\ FileOf(req[c]) = "agents" /\ Readable(files.agents)
            /\ snap'[c] = files.agents.doc /\ req'[c] = req[c]
            /\ pc'[c] = IF req[c].op = "spawn" THEN "check" ELSE "truncate"
        BY <1>4, <1>h, <2>5 DEF Read, GoTo, FileOf, AgentOps, KeyOps, HandlersOK
      <3>2. files.agents = Holding(snap'[c])
        BY <1>d, <3>1, ReadableFile
      <3>3. OnAgents(c)'
        BY <2>5, <3>1 DEF OnAgents, InSection, FirstStep
      <3>4. ASSUME "agents" \notin disturbed'
            PROVE  (\A d \in Clients \ {c} : ~OnAgents(d)) /\ Progress(c)'
        <4>1. CASE req[c].op = "spawn"
          <5>1. ~OnAgents(c)
            BY <1>4, <4>1 DEF Read, OnAgents, InSection, FirstStep
          <5>2. \A d \in Clients \ {c} : ~OnAgents(d)
            BY <1>4, <2>5, <3>4, <5>1, EntersAlone DEF Read, OnAgents
          <5>3. files.agents = Holding(agents)
            BY <1>4, <2>3, <3>4, <5>1, <5>2 DEF AgentsInv, Read
          <5>4. snap'[c] = agents /\ agents[Target(c)] = None
            BY <1>4, <3>1, <4>1, <5>3 DEF Read, Acceptable, Holding, Target
          <5> QED BY <1>4, <3>1, <4>1, <5>2, <5>3, <5>4 DEF Progress, Read, Target
        <4>2. CASE req[c].op = "remove_agent"
          <5>1. OnAgents(c)
            BY <1>4, <2>5, <4>2 DEF Read, OnAgents, InSection, FirstStep
          <5>2. \A d \in Clients \ {c} : ~OnAgents(d)
            BY <2>3, <3>4, <5>1, OthersOutside
          <5>3. agents = [snap'[c] EXCEPT ![Target(c)] = None]
            BY <1>4, <2>3, <3>1, <3>4, <5>1 DEF AgentsInv, Progress, Read
          <5>4. req[c].value = None
            BY <2>1, <4>2, RequestValue
          <5> QED BY <1>4, <3>1, <3>2, <4>2, <5>2, <5>3, <5>4
                  DEF Progress, Read, Target, NewDocument
        <4> QED BY <2>5, <4>1, <4>2 DEF AgentOps
      <3> QED BY <1>4, <2>2, <2>3, <3>3, <3>4, StepKeepsAgentsInv DEF Read
    <2> QED BY <2>4, <2>5
  <1>5. ASSUME NEW ok, NEW step \in {"plane", "key", "secret", "install"}, Continue(c, ok, step),
               daemon = "serving", pc[c] \in {"check", "plane", "key", "secret"},
               req[c].op = "spawn"
        PROVE  AgentsInv'
    <2>1. OnAgents(c)
      BY <1>5 DEF OnAgents, InSection, FirstStep, AgentOps
    <2>2. \A d \in Clients \ {c} : pc'[d] = pc[d] /\ req'[d] = req[d] /\ snap'[d] = snap[d]
      BY <1>5, <1>h DEF Continue, Answer, GoTo, HandlersOK
    <2>3. "agents" \notin disturbed' =>
             /\ \A d \in Clients \ {c} : ~OnAgents(d)
             /\ files.agents = Holding(agents) /\ snap[c] = agents /\ agents[Target(c)] = None
      BY <1>5, <2>1, OthersOutside DEF AgentsInv, Progress, Continue
    <2>4. CASE ok
      <3>1. pc'[c] = step /\ req'[c] = req[c] /\ UNCHANGED snap
        BY <1>5, <1>h, <2>4 DEF Continue, GoTo, HandlersOK
      <3>2. OnAgents(c)'
        BY <1>5, <3>1 DEF OnAgents, InSection, FirstStep, AgentOps
      <3>3. "agents" \notin disturbed' => Progress(c)'
        BY <1>5, <2>3, <3>1 DEF Progress, Continue, Target
      <3> QED BY <1>5, <2>2, <2>3, <3>2, <3>3, StepKeepsAgentsInv DEF Continue
    <2>5. CASE ~ok
      <3>1. ~OnAgents(c)'
        BY <1>5, <1>h, <2>5 DEF Continue, Answer, OnAgents, InSection, HandlersOK
      <3> QED BY <1>5, <2>2, <2>3, <3>1, StepKeepsAgentsInv DEF Continue
    <2> QED BY <2>4, <2>5
  <1>6. CASE CheckName(c) \/ ResolvePlane(c) \/ ResolveKey(c) \/ ResolveSecret(c)
    <2>1. daemon = "serving" /\ pc[c] \in {"check", "plane", "key", "secret"}
      BY <1>6 DEF CheckName, ResolvePlane, ResolveKey, ResolveSecret
    <2>2. req[c].op = "spawn"
      BY <1>h, <2>1, HandlerAt, StepOperations
    <2> QED BY <1>5, <1>6, <2>1, <2>2 DEF CheckName, ResolvePlane, ResolveKey, ResolveSecret
  <1>7. CASE Install(c)
    <2>1. req[c].op = "spawn"
      BY <1>7, <1>h, HandlerAt, StepOperations DEF Install
    <2>2. OnAgents(c)
      BY <1>7, <2>1 DEF Install, OnAgents, InSection, FirstStep, AgentOps
    <2>3. pc'[c] = "truncate" /\ req'[c] = req[c]
      BY <1>7, <1>h DEF Install, GoTo, HandlersOK
    <2>4. \A d \in Clients \ {c} : pc'[d] = pc[d] /\ req'[d] = req[d] /\ snap'[d] = snap[d]
      BY <1>7, <1>h DEF Install, GoTo, HandlersOK
    <2>5. OnAgents(c)'
      BY <2>1, <2>3 DEF OnAgents, InSection, FirstStep, AgentOps
    <2>6. ASSUME "agents" \notin disturbed' PROVE Progress(c)'
      <3>1. files.agents = Holding(snap[c]) /\ agents = snap[c]
        BY <1>7, <2>2, <2>6 DEF Install, AgentsInv, Progress
      <3> QED BY <1>7, <2>3, <3>1 DEF Install, Progress, NewDocument, Target
    <2> QED BY <1>7, <2>2, <2>4, <2>5, <2>6, OthersOutside, StepKeepsAgentsInv DEF Install
  <1>8. CASE Truncate(c)
    <2>1. pc'[c] = "flush" /\ req'[c] = req[c]
      BY <1>8, <1>h DEF Truncate, GoTo, HandlersOK
    <2>2. \A d \in Clients \ {c} : pc'[d] = pc[d] /\ req'[d] = req[d] /\ snap'[d] = snap[d]
      BY <1>8, <1>h DEF Truncate, GoTo, HandlersOK
    <2>3. CASE req[c].op \notin AgentOps
      <3>1. ~OnAgents(c) /\ ~OnAgents(c)'
        BY <2>1, <2>3 DEF OnAgents
      <3>2. files'.agents = files.agents
        BY <1>8, <2>3 DEF Truncate, FileOf, TypeOK, FilesOK
      <3> QED BY <1>8, <2>2, <3>1, <3>2, StepKeepsAgentsInv DEF Truncate
    <2>4. CASE req[c].op \in AgentOps
      <3>1. OnAgents(c) /\ OnAgents(c)'
        BY <1>8, <2>1, <2>4 DEF Truncate, OnAgents, InSection, FirstStep
      <3>2. files'.agents = Empty
        BY <1>8, <2>4 DEF Truncate, Truncated, FileOf, AgentOps, KeyOps, TypeOK, FilesOK
      <3>3. ASSUME "agents" \notin disturbed' PROVE Progress(c)'
        <4>1. agents = NewDocument(c)
          BY <1>8, <3>1, <3>3 DEF Truncate, AgentsInv, Progress
        <4> QED BY <1>8, <2>1, <3>2, <4>1 DEF Truncate, Progress, NewDocument, Target
      <3> QED BY <1>8, <2>2, <3>1, <3>3, OthersOutside, StepKeepsAgentsInv DEF Truncate
    <2> QED BY <2>3, <2>4
  <1>9. CASE Flush(c)
    <2>1. req[c] \in Requests
      BY <1>9, <1>h, HandlerAt DEF Flush
    <2>2. \A d \in Clients \ {c} : pc'[d] = pc[d] /\ req'[d] = req[d] /\ snap'[d] = snap[d]
      BY <1>9, <1>h DEF Flush, GoTo, Answer, HandlersOK
    <2>3. CASE req[c].op \notin AgentOps
      <3>1. ~OnAgents(c) /\ ~OnAgents(c)'
        BY <1>9, <1>h, <2>3 DEF Flush, GoTo, Answer, OnAgents, InSection, HandlersOK
      <3>2. files'.agents = files.agents
        BY <1>9, <2>3 DEF Flush, FileOf, TypeOK, FilesOK
      <3> QED BY <1>9, <2>2, <3>1, <3>2, StepKeepsAgentsInv DEF Flush
    <2>4. CASE req[c].op \in AgentOps
      <3>1. OnAgents(c)
        BY <1>9, <2>4 DEF Flush, OnAgents, InSection, FirstStep
      <3>2. pc'[c] = "idle"
        BY <1>9, <1>h, <2>4 DEF Flush, Answer, AgentOps, KeyOps, HandlersOK
      <3>3. ~OnAgents(c)'
        BY <3>2 DEF OnAgents, InSection
      <3>4. ASSUME "agents" \notin disturbed' PROVE files'.agents = Holding(agents')
        <4>1. files.agents = Empty /\ agents = NewDocument(c)
          BY <1>9, <3>1, <3>4 DEF Flush, AgentsInv, Progress
        <4>2. Written(files.agents, NewDocument(c)) = {Holding(agents)}
          BY <4>1 DEF Written, Empty
        <4>3. FileOf(req[c]) = "agents"
          BY <2>4 DEF FileOf, AgentOps, KeyOps
        <4> QED BY <1>9, <4>2, <4>3 DEF Flush, TypeOK, FilesOK
      <3> QED BY <1>9, <2>2, <3>1, <3>3, <3>4, OthersOutside, StepKeepsAgentsInv DEF Flush
    <2> QED BY <2>3, <2>4
  <1>10. CASE StoreSecret(c)
    <2>1. req[c].op \notin AgentOps
      BY <1>10, <1>h, HandlerAt, StepOperations DEF StoreSecret, AgentOps, KeyOps
    <2>2. ~OnAgents(c) /\ ~OnAgents(c)'
      BY <1>10, <1>h, <2>1 DEF StoreSecret, Answer, OnAgents, InSection, HandlersOK
    <2>3. \A d \in Clients \ {c} : pc'[d] = pc[d] /\ req'[d] = req[d] /\ snap'[d] = snap[d]
      BY <1>10, <1>h DEF StoreSecret, Answer, HandlersOK
    <2> QED BY <1>10, <2>2, <2>3, StepKeepsAgentsInv DEF StoreSecret
  <1> QED BY <1>1, <1>2, <1>3, <1>4, <1>6, <1>7, <1>8, <1>9, <1>10 DEF Step

\* A failed step ends the operation; if it leaves the document undisturbed it
\* was away from it, or had changed neither memory nor the file.
LEMMA AgentsInvFail ==
    ASSUME TypeOK, AgentsInv, NEW c \in Clients, Fail(c)
    PROVE  AgentsInv'
  <1>h. HandlersOK /\ req[c] \in Requests /\ pc[c] \in StepsOf(req[c].op)
    BY HandlerAt DEF TypeOK, Fail
  <1>1. /\ \A d \in Clients \ {c} : pc'[d] = pc[d] /\ req'[d] = req[d] /\ snap'[d] = snap[d]
        /\ pc'[c] = "idle" /\ disturbed \subseteq disturbed' /\ agents' = agents
        /\ daemon = "serving" /\ daemon' = daemon
    BY <1>h DEF Fail, Answer, HandlersOK
  <1>2. ~OnAgents(c)'
    BY <1>1 DEF OnAgents, InSection
  <1>3. CASE req[c].op \notin AgentOps
    <2>1. ~OnAgents(c) /\ files'.agents = files.agents
      BY <1>3 DEF Fail, OnAgents, FileOf, TypeOK, FilesOK
    <2> QED BY <1>1, <1>2, <2>1, StepKeepsAgentsInv
  <1>4. CASE req[c].op \in AgentOps
    <2>1. FileOf(req[c]) = "agents"
      BY <1>4 DEF FileOf, AgentOps, KeyOps
    <2>2. "agents" \notin disturbed' => files' = files /\ ~HalfDone(c)
      BY <2>1 DEF Fail, HalfDone
    <2>3. CASE ~OnAgents(c)
      BY <1>1, <1>2, <2>2, <2>3, StepKeepsAgentsInv
    <2>4. CASE OnAgents(c)
      <3>1. "agents" \notin disturbed' => pc[c] \in {"plane", "key", "secret", "install"}
        <4>1. pc[c] # "secretStore"
          BY <1>h, <1>4, StepOperations DEF AgentOps, KeyOps
        <4>2. pc[c] = "read" => req[c].op = "remove_agent"
          BY <1>4, <2>4 DEF OnAgents, InSection, FirstStep, AgentOps
        <4> QED BY <1>4, <2>2, <4>1, <4>2 DEF Fail, HalfDone
      <3>2. "agents" \notin disturbed' =>
               (\A d \in Clients \ {c} : ~OnAgents(d)) /\ files.agents = Holding(agents)
        BY <1>1, <2>4, <3>1, OthersOutside DEF AgentsInv, Progress
      <3> QED BY <1>1, <1>2, <2>2, <3>2, StepKeepsAgentsInv
    <2> QED BY <2>3, <2>4
  <1> QED BY <1>3, <1>4

LEMMA AgentsInvNext == TypeOK /\ AgentsInv /\ [Next]_vars => AgentsInv'
  <1> SUFFICES ASSUME TypeOK, AgentsInv, [Next]_vars PROVE AgentsInv'
    OBVIOUS
  <1>1. CASE \E c \in Clients : Step(c) \/ Fail(c)
    BY <1>1, AgentsInvStep, AgentsInvFail
  <1>2. CASE Crash
    BY <1>2 DEF Crash, AgentsInv, AllIdle, Alone, OnAgents, InSection
  <1>3. CASE Load
    <2>1. AllIdle /\ UNCHANGED <<pc, req, files, disturbed>>
      BY <1>3 DEF Load, AgentsInv
    <2>2. \A c \in Clients : ~OnAgents(c)'
      BY <2>1 DEF AllIdle, OnAgents, InSection
    <2> PICK lost \in Outside \cup {None} :
             IF Loadable(lost)
             THEN daemon' = "serving" /\ agents' = files.agents.doc /\ UNCHANGED broken
             ELSE daemon' = "refused" /\ broken' = lost /\ UNCHANGED agents
      BY <1>3 DEF Load
    <2>3. CASE Loadable(lost)
      <3>1. files'.agents = Holding(agents')
        BY <2>1, <2>3, ReadableFile DEF Loadable, TypeOK, FilesOK
      <3> QED BY <2>2, <2>3, <3>1 DEF AgentsInv, Alone
    <2>4. CASE ~Loadable(lost)
      BY <1>3, <2>1, <2>2, <2>4 DEF Load, AgentsInv, Alone, AllIdle
    <2> QED BY <2>3, <2>4
  <1>4. CASE StartByHand
    BY <1>4 DEF StartByHand, AgentsInv, AllIdle, Alone, OnAgents, InSection
  <1>5. CASE UNCHANGED vars
    BY <1>5 DEF vars, AgentsInv, AllIdle, Alone, OnAgents, InSection, Progress, NewDocument, Target
  <1> QED BY <1>1, <1>2, <1>3, <1>4, <1>5 DEF Next

LEMMA AgentsInvImplies == AgentsInv => AgentsAgree
  BY DEF AgentsInv, AgentsAgree, Quiet, OnAgents, FileOf, AgentOps, KeyOps

\* As long as no two operations overlapped on agents.json and no failure or
\* crash cut one short, the file says exactly which agents run whenever no
\* spawn or remove is under way: for any number of clients, agents, failures and
\* crashes.
THEOREM AgentsAgreement == Spec => []AgentsAgree
  BY TypeInit, TypeNext, AgentsInvInit, AgentsInvNext, AgentsInvImplies, PTL DEF Spec

-----------------------------------------------------------------------------
(* A running agent is not replaced.  A spawn installs its agent long after *)
(* it looked the name up: Progress says that the name is still free then.  *)

LEMMA StepReplacesNothing ==
    ASSUME TypeOK, AgentsInv, NEW c \in Clients, Step(c), "agents" \notin disturbed',
           NEW n \in Names
    PROVE  ~Replaced(n)
  <1> USE DEF At
  <1>1. CASE Install(c)
    <2>1. req[c].op = "spawn"
      BY <1>1, HandlerAt, StepOperations DEF Install, TypeOK
    <2>2. OnAgents(c) /\ "agents" \notin disturbed
      BY <1>1, <2>1 DEF Install, OnAgents, InSection, FirstStep, AgentOps
    <2>3. agents[Target(c)] = None
      BY <1>1, <2>2 DEF Install, AgentsInv, Progress
    <2> QED BY <1>1, <2>3 DEF Install, Replaced, TypeOK, AgentDocs, Documents
  <1>2. CASE Pop(c)
    BY <1>2 DEF Pop, Replaced, TypeOK, AgentDocs, Documents
  <1>3. CASE ~Install(c) /\ ~Pop(c)
    <2>1. agents' = agents
      BY <1>3 DEF Step, Accept, ReadRefused, Read, Continue, CheckName, ResolvePlane, ResolveKey,
         ResolveSecret, Truncate, Flush, StoreSecret
    <2> QED BY <2>1 DEF Replaced
  <1> QED BY <1>1, <1>2, <1>3

LEMMA NextReplacesNothing ==
    TypeOK /\ AgentsInv /\ [Next]_vars
        => ["agents" \notin disturbed' => \A n \in Names : ~Replaced(n)]_vars
  <1> SUFFICES ASSUME TypeOK, AgentsInv, Next, "agents" \notin disturbed', NEW n \in Names
               PROVE  ~Replaced(n)
    OBVIOUS
  <1>1. CASE \E c \in Clients : Step(c)
    BY <1>1, StepReplacesNothing
  <1>5. CASE \E c \in Clients : Fail(c)
    BY <1>5 DEF Fail, Replaced
  <1>2. CASE Crash
    BY <1>2 DEF Crash, Replaced, EmptyDocument
  <1>3. CASE Load
    BY <1>3 DEF Load, Replaced, AgentsInv, EmptyDocument
  <1>4. CASE StartByHand
    BY <1>4 DEF StartByHand, Replaced
  <1> QED BY <1>1, <1>2, <1>3, <1>4, <1>5 DEF Next

\* A running agent is never replaced by another of its name, as long as no two
\* operations overlapped on agents.json.
THEOREM RunningAgentsStay == Spec => NoReplacement
  BY TypeInit, TypeNext, AgentsInvInit, AgentsInvNext, NextReplacesNothing, PTL
     DEF Spec, NoReplacement
=============================================================================
