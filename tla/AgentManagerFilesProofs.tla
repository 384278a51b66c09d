---------------------- MODULE AgentManagerFilesProofs -----------------------
(***************************************************************************)
(* Theorems about what AgentManager leaves on the disk, for any number of  *)
(* clients, agents, keys and Action Planes: keys.json and the secret store *)
(* agree, and the daemon refuses to start only for a cause.                *)
(***************************************************************************)
EXTENDS AgentManagerProofs

USE NoneAssumption, NoneIsNoConfig DEF ghosts

-----------------------------------------------------------------------------
(* The inductive invariant, of which AgentsInv is the part on agents.json  *)
(* and memory.                                                             *)

Rewriting(c, f) == InSection(c) /\ FileOf(req[c]) = f

\* What a document is to the handler inside its read-modify-write.
FileAt(c, f) ==
    /\ pc[c] \in {"check", "plane", "key", "secret", "install", "truncate"}
           => files[f] = Holding(snap[c])
    /\ pc[c] = "flush" => files[f] = Empty
    /\ pc[c] = "secretStore" => files[f] = Holding(NewDocument(c))

Flushing(c, f) == Rewriting(c, f) /\ pc[c] = "flush"

\* An undisturbed document has one handler inside at most, which knows what the
\* file holds, and only its last step but one finds the file empty.
RewriteInv(f) ==
    f \notin disturbed =>
        /\ \A c, d \in Clients : Rewriting(c, f) /\ Rewriting(d, f) => c = d
        /\ \A c \in Clients : Rewriting(c, f) => FileAt(c, f)
        /\ (\A c \in Clients : ~Flushing(c, f)) => Readable(files[f])

\* The secret store is what the document says, but for the unfinished keys.
Settled(doc) == \A k \in Keys \ unfinished : k \in secrets <=> doc[k] = "anthropic"

\* The secret store changes last: until then it is what the handler read.
SecretsInv ==
    "keys" \notin disturbed =>
        /\ \A c \in Clients : Rewriting(c, "keys") =>
               /\ Settled(snap[c])
               /\ req[c].op = "add_key" => snap[c][Target(c)] = None
        /\ (\A c \in Clients : ~Rewriting(c, "keys")) => Settled(files.keys.doc)

\* The name is, or is about to be again, in the document, or some request removed it.
Kept(f, n) ==
    \/ n \in removed
    \/ Readable(files[f]) /\ files[f].doc[n] # None
    \/ \E c \in Clients : Flushing(c, f) /\ snap[c][n] # None

\* The key has its secret or needs none, or some request removed it.
Usable(k) ==
    \/ k \in removed \cup secrets
    \/ Readable(files.keys) /\ files.keys.doc[k] = "static"
    \/ \E c \in Clients : Flushing(c, "keys") /\ snap[c][k] = "static"

Known(config) ==
    Kept("keys", config.key) /\ Kept("planes", config.plane) /\ Usable(config.key)

\* The agents that run and those on the disk refer to keys and planes that were
\* there, as does a spawn once it has looked them up; a key whose secret is
\* being deleted is a removed one.
ReferenceInv ==
    disturbed = {} =>
        /\ \A n \in Names : agents[n] # None => Known(agents[n])
        /\ Readable(files.agents) =>
               \A n \in Names : files.agents.doc[n] # None => Known(files.agents.doc[n])
        /\ \A c \in Clients :
               /\ pc[c] \in {"key", "secret", "install"} => Kept("planes", req[c].value.plane)
               /\ pc[c] \in {"secret", "install"} => Kept("keys", req[c].value.key)
               /\ pc[c] = "install" => Usable(req[c].value.key)
               /\ pc[c] = "secretStore" /\ req[c].op = "remove_key" => Target(c) \in removed

DiskInv ==
    /\ TypeOK /\ AgentsInv
    /\ \A f \in FileNames : RewriteInv(f)
    /\ SecretsInv /\ ReferenceInv /\ RefusesOnlyForCause

-----------------------------------------------------------------------------
(* One handler at a time rewrites a document.                              *)

\* A step of a handler leaves the other handlers alone, and all files but its own.
LEMMA OtherHandlers ==
    ASSUME TypeOK, NEW c \in Clients, Step(c)
    PROVE  /\ \A d \in Clients \ {c} : pc'[d] = pc[d] /\ req'[d] = req[d] /\ snap'[d] = snap[d]
           /\ daemon = "serving" /\ daemon' = daemon
           /\ disturbed \subseteq disturbed' /\ removed \subseteq removed'
           /\ \A f \in FileNames : f # FileOf(req[c]) => files'[f] = files[f]
           /\ pc[c] \notin {"truncate", "flush"} => files' = files
  <1> USE DEF At
  <1>h. HandlersOK /\ DOMAIN files = FileNames
    BY DEF TypeOK, FilesOK, FileNames
  <1>1. ASSUME NEW r \in Requests, Accept(c, r)
        PROVE  /\ \A d \in Clients \ {c} :
                      pc'[d] = pc[d] /\ req'[d] = req[d] /\ snap'[d] = snap[d]
               /\ UNCHANGED <<daemon, files, disturbed, removed>> /\ daemon = "serving"
    BY <1>1, <1>h DEF Accept, HandlersOK
  <1>2. CASE Pop(c) \/ Read(c) \/ ReadRefused(c)
    BY <1>2, <1>h DEF Pop, Read, ReadRefused, Answer, GoTo, EnterSection, HandlersOK
  <1>3. CASE CheckName(c) \/ ResolvePlane(c) \/ ResolveKey(c) \/ ResolveSecret(c)
    BY <1>3, <1>h DEF CheckName, ResolvePlane, ResolveKey, ResolveSecret, Continue, Answer, GoTo,
       HandlersOK
  <1>4. CASE Install(c) \/ Truncate(c)
    BY <1>4, <1>h DEF Install, Truncate, GoTo, HandlersOK
  <1>5. CASE Flush(c) \/ StoreSecret(c)
    BY <1>5, <1>h DEF Flush, StoreSecret, Answer, GoTo, HandlersOK
  <1> QED BY <1>1, <1>2, <1>3, <1>4, <1>5 DEF Step

\* A handler that enters the section and leaves the document undisturbed finds
\* nobody inside.
LEMMA EntersFileAlone ==
    ASSUME NEW c \in Clients, NEW f, FileOf(req[c]) = f, EnterSection(c), f \notin disturbed'
    PROVE  \A d \in Clients \ {c} : ~Rewriting(d, f)
  BY DEF EnterSection, Overlaps, Rewriting

\* The three ways a handler's step keeps the invariant: away from the
\* document, inside the section, or on its way out of it.
LEMMA StepKeepsRewriteInv ==
    ASSUME NEW f, RewriteInv(f), NEW c \in Clients, disturbed \subseteq disturbed',
           \A d \in Clients \ {c} : pc'[d] = pc[d] /\ req'[d] = req[d] /\ snap'[d] = snap[d],
           f \notin disturbed' =>
              \/ ~Rewriting(c, f) /\ ~Rewriting(c, f)' /\ files'[f] = files[f]
              \/ /\ \A d \in Clients \ {c} : ~Rewriting(d, f)
                 /\ Rewriting(c, f)' => FileAt(c, f)'
                 /\ ~Flushing(c, f)' => Readable(files'[f])
    PROVE  RewriteInv(f)'
  <1> SUFFICES ASSUME f \notin disturbed'
               PROVE  /\ \A d, e \in Clients : Rewriting(d, f)' /\ Rewriting(e, f)' => d = e
                      /\ \A d \in Clients : Rewriting(d, f)' => FileAt(d, f)'
                      /\ (\A d \in Clients : ~Flushing(d, f)') => Readable(files'[f])
    BY DEF RewriteInv
  <1>1. \A d \in Clients \ {c} : Rewriting(d, f)' = Rewriting(d, f) /\ Flushing(d, f)' = Flushing(d, f)
    BY DEF Rewriting, InSection, Flushing
  <1>2. CASE ~Rewriting(c, f) /\ ~Rewriting(c, f)' /\ files'[f] = files[f]
    <2>1. \A d \in Clients \ {c} : FileAt(d, f) => FileAt(d, f)'
      BY <1>2 DEF FileAt, NewDocument, Target
    <2> QED BY <1>1, <1>2, <2>1 DEF RewriteInv, Flushing
  <1>3. CASE /\ \A d \in Clients \ {c} : ~Rewriting(d, f)
             /\ Rewriting(c, f)' => FileAt(c, f)'
             /\ ~Flushing(c, f)' => Readable(files'[f])
    BY <1>1, <1>3 DEF RewriteInv
  <1> QED BY <1>2, <1>3

\* A handler in the section is at no step but these.
LEMMA RewritingSteps ==
    ASSUME HandlersOK, NEW c \in Clients, pc[c] # "idle"
    PROVE  /\ pc[c] \notin {"pop", "read"} => InSection(c)
           /\ pc[c] = "pop" => ~InSection(c) /\ req[c].op = "remove_agent"
           /\ pc[c] = "read" => (InSection(c) <=> req[c].op = "remove_agent")
  <1>1. req[c] \in Requests /\ pc[c] \in StepsOf(req[c].op)
    BY HandlerAt
  <1> QED BY <1>1, StepOperations DEF InSection, FirstStep

\* A handler that is alone in the section of a document, at a step before the
\* truncation, finds it readable.
LEMMA ReadableInside ==
    ASSUME NEW f, RewriteInv(f), f \notin disturbed, NEW c \in Clients, Rewriting(c, f),
           pc[c] # "flush"
    PROVE  Readable(files[f]) /\ \A d \in Clients \ {c} : ~Rewriting(d, f)
  BY DEF RewriteInv, Flushing

\* Every step of a handler keeps the invariant of every document.
LEMMA RewriteInvStep ==
    ASSUME TypeOK, NEW c \in Clients, Step(c), NEW f \in FileNames, RewriteInv(f)
    PROVE  RewriteInv(f)'
  <1> USE DEF At
  <1>h. HandlersOK /\ DOMAIN files = FileNames
    BY DEF TypeOK, FilesOK, FileNames
  <1>o. /\ \A d \in Clients \ {c} : pc'[d] = pc[d] /\ req'[d] = req[d] /\ snap'[d] = snap[d]
        /\ disturbed \subseteq disturbed'
        /\ f # FileOf(req[c]) => files'[f] = files[f]
        /\ pc[c] \notin {"truncate", "flush"} => files' = files
    BY OtherHandlers
  <1>1. ASSUME NEW r \in Requests, Accept(c, r) PROVE RewriteInv(f)'
    <2>1. ~Rewriting(c, f) /\ ~Rewriting(c, f)' /\ files'[f] = files[f]
      BY <1>1, <1>h DEF Accept, Rewriting, InSection, HandlersOK
    <2> QED BY <1>o, <2>1, StepKeepsRewriteInv
  <1>2. ASSUME pc[c] # "idle", FileOf(req[c]) # f PROVE RewriteInv(f)'
    <2>1. req'[c] = req[c] \/ pc'[c] = "idle"
      <3>1. CASE Pop(c) \/ Read(c) \/ ReadRefused(c)
        BY <3>1, <1>h DEF Pop, Read, ReadRefused, Answer, GoTo, HandlersOK
      <3>2. CASE CheckName(c) \/ ResolvePlane(c) \/ ResolveKey(c) \/ ResolveSecret(c)
        BY <3>2, <1>h DEF CheckName, ResolvePlane, ResolveKey, ResolveSecret, Continue, Answer,
           GoTo, HandlersOK
      <3>3. CASE Install(c) \/ Truncate(c) \/ Flush(c) \/ StoreSecret(c)
        BY <3>3, <1>h DEF Install, Truncate, Flush, StoreSecret, Answer, GoTo, HandlersOK
      <3> QED BY <1>2, <3>1, <3>2, <3>3 DEF Step, Accept
    <2>2. ~Rewriting(c, f) /\ ~Rewriting(c, f)'
      BY <1>2, <2>1 DEF Rewriting, InSection
    <2> QED BY <1>o, <1>2, <2>2, StepKeepsRewriteInv
  <1> SUFFICES ASSUME pc[c] # "idle", FileOf(req[c]) = f PROVE RewriteInv(f)'
    BY <1>1, <1>2 DEF Step, Pop, Read, ReadRefused, CheckName, ResolvePlane, ResolveKey,
       ResolveSecret, Install, Truncate, Flush, StoreSecret
  <1>r. req[c] \in Requests
    BY <1>h, HandlerAt
  <1>3. CASE Pop(c)
    <2>1. ~Rewriting(c, f) /\ files'[f] = files[f]
      BY <1>3, <1>h, <1>o, RewritingSteps DEF Pop, Rewriting
    <2>2. CASE agents[Target(c)] = None
      <3>1. ~Rewriting(c, f)'
        BY <1>3, <1>h, <2>2 DEF Pop, Answer, HandlersOK, Rewriting, InSection
      <3> QED BY <1>o, <2>1, <3>1, StepKeepsRewriteInv
    <2>3. CASE agents[Target(c)] # None
      <3>1. pc'[c] = "read"
        BY <1>3, <1>h, <2>3 DEF Pop, GoTo, HandlersOK
      <3>2. f \notin disturbed' => \A d \in Clients \ {c} : ~Rewriting(d, f)
        BY <1>3, <2>3, EntersFileAlone DEF Pop
      <3>3. f \notin disturbed' => Readable(files'[f])
        BY <1>o, <2>1, <3>2 DEF RewriteInv, Flushing
      <3> QED BY <1>o, <3>1, <3>2, <3>3, StepKeepsRewriteInv DEF FileAt
    <2> QED BY <2>2, <2>3
  <1>4. CASE ReadRefused(c)
    <2>1. ~Rewriting(c, f)' /\ files'[f] = files[f] /\ pc[c] = "read"
      BY <1>4, <1>h DEF ReadRefused, Answer, HandlersOK, Rewriting, InSection
    <2>2. CASE ~Rewriting(c, f)
      BY <1>o, <2>1, <2>2, StepKeepsRewriteInv
    <2>3. CASE Rewriting(c, f)
      BY <1>o, <2>1, <2>3, ReadableInside, StepKeepsRewriteInv
    <2> QED BY <2>2, <2>3
  <1>5. CASE Read(c)
    <2>1. /\ pc[c] = "read" /\ Readable(files[f]) /\ snap'[c] = files[f].doc
          /\ pc'[c] \in {"check", "truncate"} /\ files' = files
      BY <1>5, <1>h DEF Read, GoTo, HandlersOK
    <2>2. files[f] = Holding(files[f].doc)
      BY <1>r, <2>1, RequestedFile, ReadableFile
    <2>3. f \notin disturbed' => \A d \in Clients \ {c} : ~Rewriting(d, f)
      BY <1>5, <1>o, EntersFileAlone DEF Read, Rewriting, RewriteInv
    <2> QED BY <1>o, <2>1, <2>2, <2>3, StepKeepsRewriteInv DEF FileAt
  <1>6. ASSUME NEW ok, NEW step \in {"plane", "key", "secret", "install"}, Continue(c, ok, step),
               pc[c] \in {"check", "plane", "key", "secret"}
        PROVE  RewriteInv(f)'
    <2>1. Rewriting(c, f) /\ files' = files
      BY <1>6, <1>h, RewritingSteps DEF Rewriting, Continue
    <2>2. f \notin disturbed => files[f] = Holding(snap[c])
      BY <1>6, <2>1 DEF RewriteInv, FileAt
    <2>3. CASE ok
      <3>1. pc'[c] = step /\ snap' = snap
        BY <1>6, <1>h, <2>3 DEF Continue, GoTo, HandlersOK
      <3> QED BY <1>6, <1>o, <2>1, <2>2, <3>1, ReadableInside, StepKeepsRewriteInv DEF FileAt
    <2>4. CASE ~ok
      <3>1. ~Rewriting(c, f)'
        BY <1>6, <1>h, <2>4 DEF Continue, Answer, HandlersOK, Rewriting, InSection
      <3> QED BY <1>6, <1>o, <2>1, <3>1, ReadableInside, StepKeepsRewriteInv
    <2> QED BY <2>3, <2>4
  <1>7. CASE CheckName(c) \/ ResolvePlane(c) \/ ResolveKey(c) \/ ResolveSecret(c)
    BY <1>6, <1>7 DEF CheckName, ResolvePlane, ResolveKey, ResolveSecret
  <1>8. CASE Install(c)
    <2>1. pc[c] = "install" /\ pc'[c] = "truncate" /\ snap' = snap /\ files' = files
      BY <1>8, <1>h DEF Install, GoTo, HandlersOK
    <2>2. Rewriting(c, f)
      BY <1>h, <2>1, RewritingSteps DEF Rewriting
    <2>3. f \notin disturbed => files[f] = Holding(snap[c])
      BY <2>1, <2>2 DEF RewriteInv, FileAt
    <2> QED BY <1>o, <2>1, <2>2, <2>3, ReadableInside, StepKeepsRewriteInv DEF FileAt
  <1>9. CASE Truncate(c)
    <2>1. pc[c] = "truncate" /\ pc'[c] = "flush" /\ req'[c] = req[c] /\ files'[f] = Empty
      BY <1>9, <1>h DEF Truncate, GoTo, HandlersOK, Truncated
    <2>2. Rewriting(c, f)
      BY <1>h, <2>1, RewritingSteps DEF Rewriting
    <2>3. FileAt(c, f)' /\ Flushing(c, f)'
      BY <2>1, <2>2 DEF FileAt, Flushing, Rewriting, InSection, FirstStep
    <2> QED BY <1>o, <2>1, <2>2, <2>3, ReadableInside, StepKeepsRewriteInv
  <1>10. CASE Flush(c)
    <2>1. pc[c] = "flush" /\ pc'[c] \in {"secretStore", "idle"}
          /\ (pc'[c] = "secretStore" => UNCHANGED <<req, snap>>)
      BY <1>10, <1>h DEF Flush, GoTo, Answer, HandlersOK
    <2>2. Rewriting(c, f)
      BY <1>h, <2>1, RewritingSteps DEF Rewriting
    <2>3. f \notin disturbed => /\ files[f] = Empty
                                /\ \A d \in Clients \ {c} : ~Rewriting(d, f)
      BY <2>1, <2>2 DEF RewriteInv, FileAt
    <2>4. f \notin disturbed => files'[f] = Holding(NewDocument(c))
      <3>1. Written(Empty, NewDocument(c)) = {Holding(NewDocument(c))}
        BY DEF Written, Empty
      <3> QED BY <1>10, <1>h, <2>3, <3>1 DEF Flush
    <2>5. f \notin disturbed => Readable(files'[f])
      BY <2>4 DEF Readable, Holding
    <2>6. f \notin disturbed => FileAt(c, f)'
      BY <2>1, <2>4 DEF FileAt, NewDocument, Target
    <2> QED BY <1>o, <2>3, <2>5, <2>6, StepKeepsRewriteInv
  <1>11. CASE StoreSecret(c)
    <2>1. pc[c] = "secretStore" /\ pc'[c] = "idle" /\ files' = files
      BY <1>11, <1>h DEF StoreSecret, Answer, HandlersOK
    <2>2. Rewriting(c, f) /\ ~Rewriting(c, f)'
      BY <1>h, <2>1, RewritingSteps DEF Rewriting, InSection
    <2> QED BY <1>o, <2>1, <2>2, ReadableInside, StepKeepsRewriteInv
  <1> QED BY <1>3, <1>4, <1>5, <1>7, <1>8, <1>9, <1>10, <1>11 DEF Step, Accept

-----------------------------------------------------------------------------
(* keys.json and the secret store.                                         *)

\* Requests about keys are those about keys.json.
LEMMA KeyRequest ==
    ASSUME TypeOK, NEW c \in Clients, pc[c] # "idle", FileOf(req[c]) = "keys"
    PROVE  /\ req[c] \in Requests /\ req[c].op \in {"add_key", "remove_key"} /\ Target(c) \in Keys
           /\ req[c].op = "add_key" => req[c].value \in KeyTypes
           /\ req[c].op = "remove_key" => req[c].value = None
           /\ pc[c] \in {"read", "truncate", "flush", "secretStore"}
           /\ pc[c] # "read" => snap[c] \in KeyDocs
           /\ files.keys \in Files(KeyDocs)
  <1>1. req[c] \in Requests /\ HandlersOK
    BY HandlerAt DEF TypeOK
  <1>2. req[c].op \in {"add_key", "remove_key"}
    BY <1>1, RequestFile DEF KeyOps
  <1>3. pc[c] \in {"read", "truncate", "flush", "secretStore"}
    BY <1>1, <1>2, HandlerAt DEF StepsOf, KeyOps
  <1>4. DocsOf(req[c]) = KeyDocs
    BY <1>2 DEF DocsOf, AgentOps, KeyOps
  <1>5. pc[c] # "read" => snap[c] \in KeyDocs
    BY <1>1, <1>3, <1>4, HandlerAt
  <1>6. files.keys \in Files(KeyDocs)
    BY DEF TypeOK, FilesOK
  <1> QED BY <1>1, <1>2, <1>3, <1>5, <1>6, RequestValue DEF Target

\* With the last step of the handler, the store has the secrets the document says.
LEMMA SecretsOfNewDocument ==
    ASSUME TypeOK, NEW c \in Clients, StoreSecret(c), pc[c] # "idle", FileOf(req[c]) = "keys",
           Settled(snap[c]), req[c].op = "add_key" => snap[c][Target(c)] = None
    PROVE  \A k \in Keys \ unfinished' : k \in secrets' <=> NewDocument(c)[k] = "anthropic"
  <1>1. /\ req[c].op \in {"add_key", "remove_key"} /\ Target(c) \in Keys
        /\ req[c].op = "add_key" => req[c].value \in KeyTypes
        /\ req[c].op = "remove_key" => req[c].value = None
        /\ snap[c] \in KeyDocs
    BY KeyRequest DEF StoreSecret, At
  <1>n. /\ secrets' = CASE req[c].op = "remove_key"   -> secrets \ {Target(c)}
                          [] req[c].value = "anthropic" -> secrets \cup {Target(c)}
                          [] OTHER                      -> secrets
        /\ unfinished' = IF req[c].value = "static" THEN unfinished
                         ELSE unfinished \ {Target(c)}
        /\ None \notin {"anthropic", "static"}
    BY DEF StoreSecret, NoneAssumption
  <1>2. \A k \in Keys : NewDocument(c)[k] = IF k = Target(c) THEN req[c].value ELSE snap[c][k]
    BY <1>1 DEF NewDocument, KeyDocs, Documents
  <1>3. CASE req[c].op = "remove_key"
    <2>1. secrets' = secrets \ {Target(c)} /\ unfinished' = unfinished \ {Target(c)}
      BY <1>1, <1>3, <1>n
    <2> QED BY <1>1, <1>2, <1>3, <1>n, <2>1 DEF Settled
  <1>4. CASE req[c].op = "add_key" /\ req[c].value = "anthropic"
    <2>1. secrets' = secrets \cup {Target(c)} /\ unfinished' = unfinished \ {Target(c)}
      BY <1>4, <1>n
    <2> QED BY <1>1, <1>2, <1>4, <2>1 DEF Settled
  <1>5. CASE req[c].op = "add_key" /\ req[c].value = "static"
    <2>1. secrets' = secrets /\ unfinished' = unfinished
      BY <1>5, <1>n
    <2> QED BY <1>1, <1>2, <1>5, <1>n, <2>1 DEF Settled
  <1> QED BY <1>1, <1>3, <1>4, <1>5 DEF KeyTypes

\* Every step of a handler keeps what the secret store is to keys.json.
LEMMA SecretsInvStep ==
    ASSUME TypeOK, RewriteInv("keys"), SecretsInv, NEW c \in Clients, Step(c)
    PROVE  SecretsInv'
  <1> USE DEF At
  <1> DEFINE SettledNext(doc) == \A k \in Keys \ unfinished' : k \in secrets' <=> doc[k] = "anthropic"
  <1> SUFFICES ASSUME "keys" \notin disturbed'
               PROVE  /\ \A d \in Clients : Rewriting(d, "keys")' =>
                             /\ SettledNext(snap'[d])
                             /\ req'[d].op = "add_key" => snap'[d][Target(d)'] = None
                      /\ (\A d \in Clients : ~Rewriting(d, "keys")')
                             => SettledNext(files'.keys.doc)
    BY DEF SecretsInv, Settled
  <1>h. HandlersOK /\ DOMAIN files = FileNames
    BY DEF TypeOK, FilesOK, FileNames
  <1>o. /\ \A d \in Clients \ {c} : pc'[d] = pc[d] /\ req'[d] = req[d] /\ snap'[d] = snap[d]
        /\ "keys" \notin disturbed
        /\ "keys" # FileOf(req[c]) => files'.keys = files.keys
        /\ pc[c] \notin {"truncate", "flush"} => files' = files
    BY OtherHandlers DEF FileNames
  <1>p. \A d \in Clients \ {c} : (Rewriting(d, "keys")' <=> Rewriting(d, "keys"))
                                 /\ Target(d)' = Target(d)
    BY <1>o DEF Rewriting, InSection, Target
  <1>1. ASSUME ~Rewriting(c, "keys"), ~Rewriting(c, "keys")',
               UNCHANGED <<secrets, unfinished>>,
               files'.keys = files.keys
        PROVE  /\ \A d \in Clients : Rewriting(d, "keys")' =>
                      /\ SettledNext(snap'[d])
                      /\ req'[d].op = "add_key" => snap'[d][Target(d)'] = None
               /\ (\A d \in Clients : ~Rewriting(d, "keys")')
                      => SettledNext(files'.keys.doc)
    BY <1>1, <1>o, <1>p DEF SecretsInv, Settled
  <1>2. ASSUME NEW r \in Requests, Accept(c, r)
        PROVE  ~Rewriting(c, "keys") /\ ~Rewriting(c, "keys")' /\ UNCHANGED <<secrets, unfinished>>
               /\ files'.keys = files.keys
    BY <1>2, <1>h DEF Accept, Rewriting, InSection, HandlersOK
  <1>3. ASSUME pc[c] # "idle", FileOf(req[c]) # "keys"
        PROVE  ~Rewriting(c, "keys") /\ ~Rewriting(c, "keys")' /\ UNCHANGED <<secrets, unfinished>>
    <2>1. req'[c] = req[c] \/ pc'[c] = "idle"
      <3>1. CASE Pop(c) \/ Read(c) \/ ReadRefused(c)
        BY <3>1, <1>h DEF Pop, Read, ReadRefused, Answer, GoTo, HandlersOK
      <3>2. CASE CheckName(c) \/ ResolvePlane(c) \/ ResolveKey(c) \/ ResolveSecret(c)
        BY <3>2, <1>h DEF CheckName, ResolvePlane, ResolveKey, ResolveSecret, Continue, Answer,
           GoTo, HandlersOK
      <3>3. CASE Install(c) \/ Truncate(c) \/ Flush(c) \/ StoreSecret(c)
        BY <3>3, <1>h DEF Install, Truncate, Flush, StoreSecret, Answer, GoTo, HandlersOK
      <3> QED BY <1>3, <3>1, <3>2, <3>3 DEF Step, Accept
    <2>2. ~StoreSecret(c)
      <3>1. req[c] \in Requests /\ pc[c] \in StepsOf(req[c].op)
        BY <1>3, <1>h, HandlerAt
      <3> QED BY <1>3, <3>1, StepOperations, RequestFile DEF StoreSecret
    <2>3. UNCHANGED <<secrets, unfinished>>
      BY <2>2 DEF Step, Accept, Pop, Read, ReadRefused, CheckName, ResolvePlane, ResolveKey,
         ResolveSecret, Continue, Install, Truncate, Flush
    <2> QED BY <1>3, <2>1, <2>3 DEF Rewriting, InSection
  <1>4. ASSUME pc[c] # "idle", FileOf(req[c]) = "keys"
        PROVE  /\ \A d \in Clients : Rewriting(d, "keys")' =>
                      /\ SettledNext(snap'[d])
                      /\ req'[d].op = "add_key" => snap'[d][Target(d)'] = None
               /\ (\A d \in Clients : ~Rewriting(d, "keys")')
                      => SettledNext(files'.keys.doc)
    <2>1. pc[c] \in {"read", "truncate", "flush", "secretStore"} /\ req[c].op # "remove_agent"
      BY <1>4, KeyRequest
    <2>2. CASE ReadRefused(c)
      <3>1. ~Rewriting(c, "keys") /\ ~Rewriting(c, "keys")' /\ UNCHANGED <<secrets, unfinished>> /\ files' = files
        BY <1>h, <2>1, <2>2 DEF ReadRefused, Answer, HandlersOK, Rewriting, InSection, FirstStep
      <3> QED BY <1>1, <3>1
    <2>3. CASE Read(c)
      <3>1. /\ ~InSection(c) /\ snap'[c] = files.keys.doc /\ req' = req /\ files' = files
            /\ UNCHANGED <<secrets, unfinished>> /\ Acceptable(req[c], files.keys.doc)
            /\ pc'[c] = "truncate"
        BY <1>4, <1>h, <2>1, <2>3, KeyRequest DEF Read, GoTo, HandlersOK, InSection, FirstStep
      <3>2. \A d \in Clients \ {c} : ~Rewriting(d, "keys")
        BY <1>4, <2>3, <3>1, EntersFileAlone DEF Read
      <3>3. Settled(files.keys.doc)
        BY <1>o, <3>1, <3>2 DEF SecretsInv, Rewriting
      <3>4. req[c].op = "add_key" => files.keys.doc[Target(c)] = None
        BY <3>1 DEF Acceptable, Target
      <3>5. Rewriting(c, "keys")'
        BY <1>4, <2>1, <3>1 DEF Rewriting, InSection, FirstStep
      <3> QED BY <1>p, <3>1, <3>2, <3>3, <3>4, <3>5 DEF Target, Settled
    <2>4. CASE Truncate(c) \/ (Flush(c) /\ pc'[c] # "idle")
      <3>1. /\ Rewriting(c, "keys") /\ UNCHANGED <<secrets, unfinished>> /\ req' = req /\ snap' = snap
            /\ pc'[c] \in {"flush", "secretStore"}
        BY <1>4, <1>h, <2>1, <2>4, KeyRequest
        DEF Truncate, Flush, GoTo, Answer, HandlersOK, Rewriting, InSection, FirstStep
      <3>2. \A d \in Clients \ {c} : ~Rewriting(d, "keys")
        BY <1>o, <3>1 DEF RewriteInv
      <3>3. Rewriting(c, "keys")'
        BY <1>4, <2>1, <3>1 DEF Rewriting, InSection, FirstStep
      <3> QED BY <1>o, <1>p, <3>1, <3>2, <3>3 DEF SecretsInv, Target, Settled
    <2>5. Flush(c) => pc'[c] # "idle"
      BY <1>4, <1>h, KeyRequest DEF Flush, GoTo, HandlersOK, KeyOps
    <2>6. CASE StoreSecret(c)
      <3>1. /\ Rewriting(c, "keys") /\ pc[c] = "secretStore" /\ pc'[c] = "idle" /\ files' = files
        BY <1>4, <1>h, <2>1, <2>6
        DEF StoreSecret, Answer, HandlersOK, Rewriting, InSection, FirstStep
      <3>2. \A d \in Clients \ {c} : ~Rewriting(d, "keys")
        BY <1>o, <3>1 DEF RewriteInv
      <3>3. files.keys = Holding(NewDocument(c))
        BY <1>o, <3>1 DEF RewriteInv, FileAt
      <3>4. SettledNext(NewDocument(c))
        BY <1>4, <1>o, <2>6, <3>1, SecretsOfNewDocument DEF SecretsInv
      <3>5. SettledNext(files'.keys.doc)
        BY <3>1, <3>3, <3>4 DEF Holding
      <3>6. ~Rewriting(c, "keys")'
        BY <3>1 DEF Rewriting, InSection
      <3> QED BY <1>p, <3>2, <3>5, <3>6
    <2> QED BY <1>4, <2>1, <2>2, <2>3, <2>4, <2>5, <2>6 DEF Step, Accept, Pop, CheckName, ResolvePlane,
            ResolveKey, ResolveSecret, Install
  <1> QED BY <1>1, <1>2, <1>3, <1>4, <1>o DEF Step, Pop, Read, ReadRefused, CheckName, ResolvePlane,
          ResolveKey, ResolveSecret, Install, Truncate, Flush, StoreSecret

-----------------------------------------------------------------------------
(* What a document holds stays there until a request removes it.           *)

NamesOf(f) == IF f = "keys" THEN Keys ELSE Planes

\* A request about keys or planes adds something, or is a removal.
LEMMA AddedValue ==
    ASSUME NEW r \in Requests, FileOf(r) \in {"keys", "planes"}
    PROVE  /\ r.target \in NamesOf(FileOf(r))
           /\ r.op \notin {"remove_key", "remove_plane"} => r.value # None
  <1> USE DEF FileOf, AgentOps, KeyOps, NamesOf
  <1>1. CASE r \in AgentRequests
    BY <1>1 DEF AgentRequests
  <1>2. CASE r \in KeyRequests
    BY <1>2 DEF KeyRequests, KeyTypes, NoneAssumption
  <1>3. CASE r \in PlaneRequests
    BY <1>3 DEF PlaneRequests, Endpoint, NoneAssumption
  <1> QED BY <1>1, <1>2, <1>3 DEF Requests

\* Its own document in the hands of such a handler is a mapping of those names.
LEMMA DocumentOf ==
    ASSUME TypeOK, NEW c \in Clients, pc[c] \in {"truncate", "flush"},
           NEW f \in {"keys", "planes"}, FileOf(req[c]) = f
    PROVE  req[c] \in Requests /\ DOMAIN snap[c] = NamesOf(f)
  <1>1. req[c] \in Requests /\ snap[c] \in DocsOf(req[c])
    BY HandlerAt DEF TypeOK
  <1>2. DocsOf(req[c]) = IF f = "keys" THEN KeyDocs ELSE PlaneDocs
    BY DEF DocsOf, FileOf, AgentOps, KeyOps
  <1> QED BY <1>1, <1>2 DEF KeyDocs, PlaneDocs, Documents, NamesOf

\* A step of a handler that is away from the document.
LEMMA KeptAway ==
    ASSUME NEW c \in Clients, NEW f, NEW n, Kept(f, n), removed \subseteq removed',
           \A d \in Clients \ {c} : pc'[d] = pc[d] /\ req'[d] = req[d] /\ snap'[d] = snap[d],
           ~Flushing(c, f), files'[f] = files[f]
    PROVE  Kept(f, n)'
  BY DEF Kept, Flushing, Rewriting, InSection

\* Rewriting a document loses nothing of it but what the request removes.
LEMMA KeptStep ==
    ASSUME TypeOK, NEW c \in Clients, Step(c), NEW f \in {"keys", "planes"}, RewriteInv(f),
           f \notin disturbed', NEW n \in NamesOf(f), Kept(f, n)
    PROVE  Kept(f, n)'
  <1> USE DEF At
  <1>h. HandlersOK /\ DOMAIN files = FileNames /\ f \in FileNames
    BY DEF TypeOK, FilesOK, FileNames
  <1>o. /\ \A d \in Clients \ {c} : pc'[d] = pc[d] /\ req'[d] = req[d] /\ snap'[d] = snap[d]
        /\ f \notin disturbed /\ removed \subseteq removed'
        /\ f # FileOf(req[c]) => files'[f] = files[f]
        /\ pc[c] \notin {"truncate", "flush"} => files' = files
    BY <1>h, OtherHandlers
  <1>1. CASE FileOf(req[c]) # f \/ pc[c] \notin {"truncate", "flush"}
    BY <1>1, <1>o, KeptAway DEF Flushing, Rewriting
  <1> SUFFICES ASSUME FileOf(req[c]) = f, pc[c] \in {"truncate", "flush"} PROVE Kept(f, n)'
    BY <1>1
  <1>2. Rewriting(c, f) /\ \A d \in Clients : Flushing(d, f) => d = c
    BY <1>h, <1>o, RewritingSteps DEF Rewriting, RewriteInv, Flushing
  <1>3. req[c] \in Requests /\ DOMAIN snap[c] = NamesOf(f)
    BY DocumentOf
  <1>4. n \in removed \/ (Readable(files[f]) /\ files[f].doc[n] # None)
        \/ (pc[c] = "flush" /\ snap[c][n] # None)
    BY <1>2 DEF Kept, Flushing
  <1>5. CASE n \in removed
    BY <1>o, <1>5 DEF Kept
  <1>6. CASE pc[c] = "truncate" /\ n \notin removed
    <2>1. Truncate(c)
      BY <1>6 DEF Step, Accept, Pop, Read, ReadRefused, CheckName, ResolvePlane, ResolveKey,
         ResolveSecret, Install, Flush, StoreSecret
    <2>2. snap[c][n] # None
      <3>1. files[f] = Holding(snap[c])
        BY <1>2, <1>6, <1>o DEF RewriteInv, FileAt
      <3> QED BY <1>4, <1>6, <3>1 DEF Holding
    <2>3. pc'[c] = "flush" /\ req' = req /\ snap' = snap
      BY <1>h, <2>1 DEF Truncate, GoTo, HandlersOK
    <2>4. Flushing(c, f)'
      BY <2>3 DEF Flushing, Rewriting, InSection, FirstStep
    <2> QED BY <2>2, <2>3, <2>4 DEF Kept
  <1>7. CASE pc[c] = "flush" /\ n \notin removed
    <2>1. Flush(c)
      BY <1>7 DEF Step, Accept, Pop, Read, ReadRefused, CheckName, ResolvePlane, ResolveKey,
         ResolveSecret, Install, Truncate, StoreSecret
    <2>2. files[f] = Empty
      BY <1>2, <1>7, <1>o DEF RewriteInv, FileAt
    <2>3. snap[c][n] # None
      BY <1>4, <1>7, <2>2 DEF Readable, Empty
    <2>4. files'[f] = Holding(NewDocument(c))
      <3>1. Written(Empty, NewDocument(c)) = {Holding(NewDocument(c))}
        BY DEF Written, Empty
      <3> QED BY <1>h, <2>1, <2>2, <3>1 DEF Flush
    <2>5. CASE n = Target(c) /\ req[c].op \in {"remove_key", "remove_plane"}
      BY <2>1, <2>5 DEF Flush, Kept
    <2>6. CASE ~(n = Target(c) /\ req[c].op \in {"remove_key", "remove_plane"})
      <3>1. NewDocument(c)[n] # None
        BY <1>3, <2>3, <2>6, AddedValue DEF NewDocument, Target
      <3> QED BY <2>4, <3>1 DEF Kept, Readable, Holding
    <2> QED BY <2>5, <2>6
  <1> QED BY <1>5, <1>6, <1>7

\* A key that has its secret, or needs none, keeps to that until it is removed.
LEMMA UsableStep ==
    ASSUME TypeOK, NEW c \in Clients, Step(c), RewriteInv("keys"), SecretsInv,
           pc[c] = "secretStore" /\ req[c].op = "remove_key" => Target(c) \in removed,
           "keys" \notin disturbed', NEW k \in Keys, Usable(k)
    PROVE  Usable(k)'
  <1> USE DEF At
  <1>h. HandlersOK /\ DOMAIN files = FileNames
    BY DEF TypeOK, FilesOK, FileNames
  <1>o. /\ \A d \in Clients \ {c} : pc'[d] = pc[d] /\ req'[d] = req[d] /\ snap'[d] = snap[d]
        /\ "keys" \notin disturbed /\ removed \subseteq removed'
        /\ "keys" # FileOf(req[c]) => files'.keys = files.keys
        /\ pc[c] \notin {"truncate", "flush"} => files' = files
    BY OtherHandlers DEF FileNames
  <1>1. CASE k \in removed
    BY <1>o, <1>1 DEF Usable
  <1>2. CASE k \in secrets /\ k \notin removed
    <2>1. k \in secrets'
      <3>1. CASE StoreSecret(c)
        <4>1. req[c].op = "remove_key" => Target(c) # k
          BY <1>2, <3>1 DEF StoreSecret
        <4> QED BY <1>2, <3>1, <4>1 DEF StoreSecret
      <3>2. CASE ~StoreSecret(c)
        BY <1>2, <3>2 DEF Step, Accept, Pop, Read, ReadRefused, CheckName, ResolvePlane,
           ResolveKey, ResolveSecret, Continue, Install, Truncate, Flush
      <3> QED BY <3>1, <3>2
    <2> QED BY <2>1 DEF Usable
  <1>3. CASE k \notin removed \cup secrets
    <2>1. CASE FileOf(req[c]) # "keys" \/ pc[c] \notin {"truncate", "flush"}
      <3>1. ~Flushing(c, "keys") /\ files'.keys = files.keys
        BY <1>o, <2>1 DEF Flushing, Rewriting
      <3>2. \A d \in Clients \ {c} : Flushing(d, "keys") => Flushing(d, "keys")'
        BY <1>o DEF Flushing, Rewriting, InSection
      <3> QED BY <1>o, <1>3, <3>1, <3>2 DEF Usable
    <2> SUFFICES ASSUME FileOf(req[c]) = "keys", pc[c] \in {"truncate", "flush"}
                 PROVE  Usable(k)'
      BY <2>1
    <2>2. Rewriting(c, "keys") /\ \A d \in Clients : Flushing(d, "keys") => d = c
      BY <1>h, <1>o, RewritingSteps DEF Rewriting, RewriteInv, Flushing
    <2>3. /\ req[c] \in Requests /\ req[c].op \in {"add_key", "remove_key"} /\ snap[c] \in KeyDocs
          /\ req[c].op = "add_key" => snap[c][Target(c)] = None
      BY <1>o, <2>2, KeyRequest DEF SecretsInv
    <2>4. CASE pc[c] = "truncate"
      <3>1. Truncate(c)
        BY <2>4 DEF Step, Accept, Pop, Read, ReadRefused, CheckName, ResolvePlane, ResolveKey,
           ResolveSecret, Install, Flush, StoreSecret
      <3>2. snap[c][k] = "static"
        <4>1. files.keys = Holding(snap[c])
          BY <1>o, <2>2, <2>4 DEF RewriteInv, FileAt
        <4> QED BY <1>3, <2>2, <2>4, <4>1 DEF Usable, Flushing, Holding
      <3>3. pc'[c] = "flush" /\ req' = req /\ snap' = snap
        BY <1>h, <3>1 DEF Truncate, GoTo, HandlersOK
      <3>4. Flushing(c, "keys")'
        BY <3>3 DEF Flushing, Rewriting, InSection, FirstStep
      <3> QED BY <3>2, <3>3, <3>4 DEF Usable
    <2>5. CASE pc[c] = "flush"
      <3>1. Flush(c)
        BY <2>5 DEF Step, Accept, Pop, Read, ReadRefused, CheckName, ResolvePlane, ResolveKey,
           ResolveSecret, Install, Truncate, StoreSecret
      <3>2. files.keys = Empty
        BY <1>o, <2>2, <2>5 DEF RewriteInv, FileAt
      <3>3. snap[c][k] = "static"
        BY <1>3, <2>2, <3>2 DEF Usable, Readable, Empty
      <3>4. files'.keys = Holding(NewDocument(c))
        <4>1. Written(Empty, NewDocument(c)) = {Holding(NewDocument(c))}
          BY DEF Written, Empty
        <4> QED BY <1>h, <3>1, <3>2, <4>1 DEF Flush, FileNames
      <3>5. CASE k = Target(c)
        <4>1. req[c].op = "remove_key"
          BY <2>3, <3>3, <3>5, NoneAssumption
        <4> QED BY <3>1, <3>5, <4>1 DEF Flush, Usable
      <3>6. CASE k # Target(c)
        <4>1. NewDocument(c)[k] = "static"
          BY <2>3, <3>3, <3>6 DEF NewDocument, KeyDocs, Documents
        <4> QED BY <3>4, <4>1 DEF Usable, Readable, Holding
      <3> QED BY <3>5, <3>6
    <2> QED BY <2>4, <2>5
  <1> QED BY <1>1, <1>2, <1>3

-----------------------------------------------------------------------------
(* The agents refer to keys and planes that were there.                    *)

\* Agents and documents of agents are made of configs.
LEMMA ConfigsOf ==
    ASSUME TypeOK
    PROVE  /\ \A n \in Names : agents[n] # None => agents[n] \in Configs
           /\ Readable(files.agents) =>
                 \A n \in Names : files.agents.doc[n] # None => files.agents.doc[n] \in Configs
           /\ \A c \in Clients : pc[c] \in {"check", "plane", "key", "secret", "install"}
                 => req[c].op = "spawn" /\ req[c].value \in Configs
           /\ \A x \in Configs : x.key \in Keys /\ x.plane \in Planes
  <1>1. \A n \in Names : agents[n] # None => agents[n] \in Configs
    BY DEF TypeOK, AgentDocs, Documents
  <1>2. Readable(files.agents) => files.agents.doc \in AgentDocs
    BY FileTypes DEF TypeOK, FilesOK, Readable, Files
  <1>3. ASSUME NEW c \in Clients, pc[c] \in {"check", "plane", "key", "secret", "install"}
        PROVE  req[c].op = "spawn" /\ req[c].value \in Configs
    BY <1>3, HandlerAt, StepOperations, RequestValue DEF TypeOK
  <1>4. \A x \in Configs : x.key \in Keys /\ x.plane \in Planes
    BY DEF Configs
  <1> QED BY <1>1, <1>2, <1>3, <1>4 DEF AgentDocs, Documents

LEMMA ReferenceInvStep ==
    ASSUME TypeOK, AgentsInv, \A f \in FileNames : RewriteInv(f), SecretsInv, ReferenceInv,
           NEW c \in Clients, Step(c)
    PROVE  ReferenceInv'
  <1> USE DEF At
  <1> SUFFICES ASSUME disturbed' = {}
               PROVE  /\ \A n \in Names : agents'[n] # None => Known(agents[n])'
                      /\ Readable(files'.agents) =>
                             \A n \in Names : files'.agents.doc[n] # None
                                                  => Known(files.agents.doc[n])'
                      /\ \A d \in Clients :
                             /\ pc'[d] \in {"key", "secret", "install"}
                                    => Kept("planes", req[d].value.plane)'
                             /\ pc'[d] \in {"secret", "install"}
                                    => Kept("keys", req[d].value.key)'
                             /\ pc'[d] = "install" => Usable(req[d].value.key)'
                             /\ pc'[d] = "secretStore" /\ req'[d].op = "remove_key"
                                    => Target(d)' \in removed'
    BY DEF ReferenceInv
  <1>h. HandlersOK /\ DOMAIN files = FileNames
    BY DEF TypeOK, FilesOK, FileNames
  <1>o. /\ \A d \in Clients \ {c} : pc'[d] = pc[d] /\ req'[d] = req[d]
        /\ disturbed = {}
        /\ "agents" # FileOf(req[c]) => files'.agents = files.agents
        /\ pc[c] \notin {"truncate", "flush"} => files' = files
        /\ removed \subseteq removed'
    BY OtherHandlers DEF FileNames
  <1>k. ASSUME NEW f \in {"keys", "planes"}, NEW n \in NamesOf(f), Kept(f, n) PROVE Kept(f, n)'
    <2>1. f \in FileNames /\ f \notin disturbed'
      BY DEF FileNames
    <2> QED BY <1>k, <2>1, KeptStep
  <1>x. \A x \in Configs : /\ Kept("planes", x.plane) => Kept("planes", x.plane)'
                           /\ Kept("keys", x.key) => Kept("keys", x.key)'
    BY <1>k, ConfigsOf DEF NamesOf
  <1>u. \A k \in Keys : Usable(k) => Usable(k)'
    BY <1>o, UsableStep DEF ReferenceInv, FileNames
  <1>y. \A x \in Configs : Known(x) => Known(x)'
    BY <1>u, <1>x, ConfigsOf DEF Known
  <1>1. \A n \in Names : agents'[n] # None => Known(agents[n])'
    <2>1. CASE Install(c)
      <3>1. agents' = [agents EXCEPT ![Target(c)] = req[c].value] /\ pc[c] = "install"
        BY <2>1 DEF Install
      <3>2. Known(req[c].value) /\ req[c].value \in Configs
        BY <1>o, <3>1, ConfigsOf DEF ReferenceInv, Known
      <3>3. DOMAIN agents = Names
        BY DEF TypeOK, AgentDocs, Documents
      <3>4. ASSUME NEW n \in Names, agents'[n] # None
            PROVE  agents'[n] \in Configs /\ Known(agents'[n])
        BY <1>o, <3>1, <3>2, <3>3, <3>4, ConfigsOf DEF ReferenceInv
      <3> QED BY <1>y, <3>4
    <2>2. CASE ~Install(c)
      <3>1. ASSUME NEW n \in Names, agents'[n] # None PROVE agents'[n] = agents[n]
        <4>1. CASE Pop(c)
          BY <3>1, <4>1 DEF Pop, TypeOK, AgentDocs, Documents
        <4>2. CASE ~Pop(c)
          BY <2>2, <4>2 DEF Step, Accept, ReadRefused, Read, Continue, CheckName, ResolvePlane,
             ResolveKey, ResolveSecret, Truncate, Flush, StoreSecret
        <4> QED BY <4>1, <4>2
      <3> QED BY <1>o, <1>y, <3>1, ConfigsOf DEF ReferenceInv
    <2> QED BY <2>1, <2>2
  <1>2. ASSUME Readable(files'.agents), NEW n \in Names, files'.agents.doc[n] # None
        PROVE  Known(files.agents.doc[n])'
    <2>1. CASE files'.agents = files.agents
      BY <1>o, <1>y, <1>2, <2>1, ConfigsOf DEF ReferenceInv
    <2>2. CASE files'.agents # files.agents
      <3>1. FileOf(req[c]) = "agents" /\ pc[c] \in {"truncate", "flush"}
        BY <1>o, <2>2
      <3>2. ~Truncate(c)
        BY <1>h, <1>2, <3>1 DEF Truncate, Truncated, Readable, Empty, FileNames
      <3>3. Flush(c)
        BY <3>1, <3>2 DEF Step, Accept, Pop, Read, ReadRefused, CheckName, ResolvePlane,
           ResolveKey, ResolveSecret, Install, StoreSecret
      <3>4. OnAgents(c) /\ pc[c] = "flush"
        BY <1>h, <3>1, <3>3, RewritingSteps, HandlerAt, RequestFile DEF OnAgents, Flush
      <3>5. files.agents = Empty /\ agents = NewDocument(c)
        BY <1>o, <3>4 DEF AgentsInv, Progress
      <3>6. Written(Empty, NewDocument(c)) = {Holding(agents)}
        BY <3>5 DEF Written, Empty
      <3>7. files'.agents = Holding(agents) /\ agents' = agents
        BY <1>h, <3>1, <3>3, <3>5, <3>6 DEF Flush, FileNames
      <3>8. files'.agents.doc[n] = agents[n]
        BY <3>7 DEF Holding
      <3> QED BY <1>o, <1>y, <1>2, <3>8, ConfigsOf DEF ReferenceInv
    <2> QED BY <2>1, <2>2
  <1>3. ASSUME NEW d \in Clients \ {c}
        PROVE  /\ pc'[d] \in {"key", "secret", "install"} => Kept("planes", req[d].value.plane)'
               /\ pc'[d] \in {"secret", "install"} => Kept("keys", req[d].value.key)'
               /\ pc'[d] = "install" => Usable(req[d].value.key)'
               /\ pc'[d] = "secretStore" /\ req'[d].op = "remove_key" => Target(d)' \in removed'
    <2>1. req'[d] = req[d] /\ pc'[d] = pc[d]
      BY <1>o
    <2>2. pc'[d] = "install" => Usable(req[d].value.key)'
      BY <1>o, <1>u, <2>1, ConfigsOf DEF ReferenceInv
    <2> QED BY <1>o, <1>x, <2>1, <2>2, ConfigsOf DEF ReferenceInv, Target
  <1>4. /\ pc'[c] \in {"key", "secret", "install"} => Kept("planes", req[c].value.plane)'
        /\ pc'[c] \in {"secret", "install"} => Kept("keys", req[c].value.key)'
    <2>1. ASSUME pc'[c] \in {"key", "secret", "install"}
          PROVE  /\ ResolvePlane(c) \/ ResolveKey(c) \/ ResolveSecret(c)
                 /\ req'[c] = req[c] /\ req[c].value \in Configs
                 /\ ResolvePlane(c) => HasPlane(req[c].value) /\ pc'[c] = "key"
                 /\ ResolveKey(c) => HasKey(req[c].value) /\ pc[c] = "key"
                 /\ ResolveSecret(c) => pc[c] = "secret"
      <3>1. ResolvePlane(c) \/ ResolveKey(c) \/ ResolveSecret(c)
        <4>1. ASSUME NEW r \in Requests PROVE ~Accept(c, r)
          BY <1>h, <2>1 DEF Accept, FirstStep, HandlersOK
        <4>2. ~Pop(c) /\ ~ReadRefused(c) /\ ~Read(c) /\ ~StoreSecret(c)
          BY <1>h, <2>1 DEF Pop, ReadRefused, Read, StoreSecret, Answer, GoTo, HandlersOK
        <4>3. ~CheckName(c) /\ ~Install(c) /\ ~Truncate(c) /\ ~Flush(c)
          BY <1>h, <2>1 DEF CheckName, Continue, Install, Truncate, Flush, Answer, GoTo,
             HandlersOK
        <4> QED BY <4>1, <4>2, <4>3 DEF Step
      <3>2. pc[c] \in {"plane", "key", "secret"}
        BY <3>1 DEF ResolvePlane, ResolveKey, ResolveSecret
      <3>3. req'[c] = req[c]
        BY <1>h, <2>1, <3>1 DEF ResolvePlane, ResolveKey, ResolveSecret, Continue, Answer, GoTo,
           HandlersOK
      <3>4. ResolvePlane(c) => HasPlane(req[c].value) /\ pc'[c] = "key"
        BY <1>h, <2>1 DEF ResolvePlane, Continue, Answer, GoTo, HandlersOK
      <3>5. ResolveKey(c) => HasKey(req[c].value) /\ pc[c] = "key"
        BY <1>h, <2>1 DEF ResolveKey, Continue, Answer, GoTo, HandlersOK
      <3> QED BY <3>1, <3>2, <3>3, <3>4, <3>5, ConfigsOf DEF ResolveSecret
    <2>2. ASSUME pc'[c] \in {"key", "secret", "install"}
          PROVE  Kept("planes", req[c].value.plane)
      BY <1>o, <2>1, <2>2 DEF ReferenceInv, HasPlane, Kept
    <2>3. ASSUME pc'[c] \in {"secret", "install"}
          PROVE  Kept("keys", req[c].value.key)
      BY <1>o, <2>1, <2>3 DEF ReferenceInv, HasKey, Kept
    <2> QED BY <1>x, <2>1, <2>2, <2>3
  <1>5. pc'[c] = "install" => Usable(req[c].value.key)'
    <2> SUFFICES ASSUME pc'[c] = "install" PROVE Usable(req[c].value.key)'
      OBVIOUS
    <2>1. (ResolveKey(c) \/ ResolveSecret(c)) /\ req'[c] = req[c] /\ req[c].value \in Configs
      <3>1. ASSUME NEW r \in Requests PROVE ~Accept(c, r)
        BY <1>h DEF Accept, FirstStep, HandlersOK
      <3>2. ~Pop(c) /\ ~ReadRefused(c) /\ ~Read(c) /\ ~StoreSecret(c)
        BY <1>h DEF Pop, ReadRefused, Read, StoreSecret, Answer, GoTo, HandlersOK
      <3>3. ~CheckName(c) /\ ~ResolvePlane(c) /\ ~Install(c) /\ ~Truncate(c) /\ ~Flush(c)
        BY <1>h DEF CheckName, ResolvePlane, Continue, Install, Truncate, Flush, Answer, GoTo,
           HandlersOK
      <3>4. ResolveKey(c) \/ ResolveSecret(c)
        BY <3>1, <3>2, <3>3 DEF Step
      <3>5. req'[c] = req[c]
        BY <1>h, <3>4 DEF ResolveKey, ResolveSecret, Continue, Answer, GoTo, HandlersOK
      <3> QED BY <3>4, <3>5, ConfigsOf DEF ResolveKey, ResolveSecret
    <2>2. Usable(req[c].value.key)
      <3>1. CASE ResolveKey(c)
        <4>1. HasKey(req[c].value) /\ ~NeedsSecret(req[c].value)
          BY <1>h, <3>1 DEF ResolveKey, Continue, Answer, GoTo, HandlersOK
        <4> QED BY <4>1 DEF HasKey, NeedsSecret, Usable
      <3>2. CASE ResolveSecret(c)
        <4>1. req[c].value.key \in secrets
          BY <1>h, <3>2 DEF ResolveSecret, Continue, Answer, GoTo, HandlersOK
        <4> QED BY <4>1 DEF Usable
      <3> QED BY <2>1, <3>1, <3>2
    <2> QED BY <1>u, <2>1, <2>2, ConfigsOf
  <1>6. pc'[c] = "secretStore" /\ req'[c].op = "remove_key" => Target(c)' \in removed'
    <2> SUFFICES ASSUME pc'[c] = "secretStore", req'[c].op = "remove_key"
                 PROVE  Target(c)' \in removed'
      OBVIOUS
    <2>1. ASSUME NEW r \in Requests PROVE ~Accept(c, r)
      BY <1>h DEF Accept, FirstStep, HandlersOK
    <2>2. ~Pop(c) /\ ~ReadRefused(c) /\ ~Read(c) /\ ~StoreSecret(c)
      BY <1>h DEF Pop, ReadRefused, Read, StoreSecret, Answer, GoTo, HandlersOK
    <2>3. ~CheckName(c) /\ ~ResolvePlane(c) /\ ~ResolveKey(c) /\ ~ResolveSecret(c)
      BY <1>h DEF CheckName, ResolvePlane, ResolveKey, ResolveSecret, Continue, Answer, GoTo,
         HandlersOK
    <2>4. ~Install(c) /\ ~Truncate(c)
      BY <1>h DEF Install, Truncate, GoTo, HandlersOK
    <2>5. Flush(c)
      BY <2>1, <2>2, <2>3, <2>4 DEF Step
    <2>6. req'[c] = req[c]
      BY <1>h, <2>5 DEF Flush, GoTo, Answer, HandlersOK
    <2> QED BY <2>5, <2>6 DEF Flush, Target
  <1> QED BY <1>1, <1>2, <1>3, <1>4, <1>5, <1>6

-----------------------------------------------------------------------------
(* A step that fails, the end of the process and its next start.           *)

\* A failed step ends the operation.  What it leaves undisturbed was as the
\* handler had found it, or as it had finished writing it.
LEMMA DiskInvFail ==
    ASSUME DiskInv, NEW c \in Clients, Fail(c)
    PROVE  /\ \A f \in FileNames : RewriteInv(f)'
           /\ SecretsInv' /\ ReferenceInv' /\ RefusesOnlyForCause'
  <1>h. HandlersOK /\ req[c] \in Requests /\ pc[c] \in StepsOf(req[c].op) /\ TypeOK
    BY HandlerAt DEF TypeOK, Fail, DiskInv
  <1>1. /\ \A d \in Clients \ {c} : pc'[d] = pc[d] /\ req'[d] = req[d] /\ snap'[d] = snap[d]
        /\ pc'[c] = "idle" /\ disturbed \subseteq disturbed' /\ unfinished \subseteq unfinished'
        /\ UNCHANGED <<daemon, agents, secrets, removed, broken>>
        /\ daemon = "serving"
        /\ \A f \in FileNames : f \notin disturbed' => files'[f] = files[f]
        /\ pc[c] = "secretStore" => Target(c) \in unfinished'
    BY <1>h DEF Fail, Answer, HandlersOK, HalfDone, TypeOK, FilesOK, FileNames
  <1>2. \A f \in FileNames : ~Rewriting(c, f)' /\ ~Flushing(c, f)'
    BY <1>1 DEF Rewriting, InSection, Flushing
  <1>3. ASSUME NEW f \in FileNames, f \notin disturbed', Rewriting(c, f)
        PROVE  /\ pc[c] # "flush" /\ f \notin disturbed
               /\ Readable(files[f]) /\ \A d \in Clients \ {c} : ~Rewriting(d, f)
    <2>1. pc[c] # "flush" /\ f \notin disturbed
      BY <1>1, <1>3 DEF Fail, HalfDone, Rewriting
    <2> QED BY <1>3, <2>1, ReadableInside DEF DiskInv
  <1>4. ASSUME NEW f \in FileNames PROVE RewriteInv(f)'
    <2>1. CASE Rewriting(c, f)
      BY <1>1, <1>2, <1>3, <2>1, StepKeepsRewriteInv DEF DiskInv
    <2>2. CASE ~Rewriting(c, f)
      BY <1>1, <1>2, <2>2, StepKeepsRewriteInv DEF DiskInv
    <2> QED BY <2>1, <2>2
  <1>p. \A d \in Clients \ {c} : (Rewriting(d, "keys")' <=> Rewriting(d, "keys"))
                                 /\ Target(d)' = Target(d)
    BY <1>1 DEF Rewriting, InSection, Target
  <1>5. SecretsInv'
    <2> SUFFICES ASSUME "keys" \notin disturbed'
                 PROVE  /\ \A d \in Clients : Rewriting(d, "keys")' =>
                               /\ Settled(snap[d])'
                               /\ req'[d].op = "add_key" => snap'[d][Target(d)'] = None
                        /\ (\A d \in Clients : ~Rewriting(d, "keys")')
                               => Settled(files.keys.doc)'
      BY DEF SecretsInv
    <2>1. "keys" \in FileNames /\ "keys" \notin disturbed /\ files'.keys = files.keys
      BY <1>1 DEF FileNames
    <2>2. \A doc : Settled(doc) =>
              \A k \in Keys \ unfinished' : k \in secrets' <=> doc[k] = "anthropic"
      BY <1>1 DEF Settled
    <2>3. CASE ~Rewriting(c, "keys")
      BY <1>1, <1>2, <1>p, <2>1, <2>2, <2>3 DEF DiskInv, SecretsInv, Settled
    <2>4. CASE Rewriting(c, "keys")
      <3>1. \A d \in Clients : ~Rewriting(d, "keys")'
        BY <1>2, <1>3, <1>p, <2>1, <2>4
      <3>2. /\ pc[c] \in {"read", "truncate", "secretStore"} /\ snap[c] \in KeyDocs
            /\ req[c].op # "remove_agent"
        BY <1>3, <1>h, <2>1, <2>4, KeyRequest DEF Rewriting, InSection, FirstStep
      <3>3. pc[c] \in {"truncate", "secretStore"}
        BY <2>4, <3>2 DEF Rewriting, InSection, FirstStep
      <3>4. Settled(snap[c]) /\ FileAt(c, "keys")
        <4>1. RewriteInv("keys")
          BY <2>1 DEF DiskInv
        <4> QED BY <2>1, <2>4, <4>1 DEF DiskInv, SecretsInv, RewriteInv
      <3>5. CASE pc[c] = "truncate"
        <4>1. files.keys.doc = snap[c]
          BY <3>4, <3>5 DEF FileAt, Holding
        <4> QED BY <2>1, <2>2, <3>1, <3>4, <4>1 DEF Settled
      <3>6. CASE pc[c] = "secretStore"
        <4>1. files.keys.doc = NewDocument(c)
          BY <3>4, <3>6 DEF FileAt, Holding
        <4>2. \A k \in Keys \ unfinished' : files.keys.doc[k] = snap[c][k]
          BY <1>1, <3>2, <3>6, <4>1 DEF NewDocument, KeyDocs, Documents
        <4> QED BY <2>1, <2>2, <3>1, <3>4, <4>2 DEF Settled
      <3> QED BY <3>3, <3>5, <3>6
    <2> QED BY <2>3, <2>4
  <1>6. ASSUME disturbed' = {} PROVE ReferenceInv'
    <2>1. ReferenceInv /\ disturbed = {} /\ files' = files /\ pc[c] # "flush"
      BY <1>1, <1>6 DEF DiskInv, Fail, HalfDone
    <2>2. \A d \in Clients : \A f : Flushing(d, f) => Flushing(d, f)' /\ snap'[d] = snap[d]
      BY <1>1, <2>1 DEF Flushing, Rewriting, InSection
    <2>3. \A f, n : Kept(f, n) => Kept(f, n)'
      BY <1>1, <2>1, <2>2 DEF Kept
    <2>4. \A k : Usable(k) => Usable(k)'
      BY <1>1, <2>1, <2>2 DEF Usable
    <2>5. \A x : Known(x) => Known(x)'
      BY <2>3, <2>4 DEF Known
    <2>6. ASSUME NEW d \in Clients
          PROVE  /\ pc'[d] \in {"key", "secret", "install"} => Kept("planes", req[d].value.plane)'
                 /\ pc'[d] \in {"secret", "install"} => Kept("keys", req[d].value.key)'
                 /\ pc'[d] = "install" => Usable(req[d].value.key)'
                 /\ pc'[d] = "secretStore" /\ req'[d].op = "remove_key" => Target(d)' \in removed'
      <3>1. CASE d = c
        BY <1>1, <3>1
      <3>2. CASE d # c
        <4>1. pc'[d] = pc[d] /\ req'[d] = req[d]
          BY <1>1, <3>2
        <4> QED BY <1>1, <2>1, <2>3, <2>4, <4>1 DEF ReferenceInv, Target
      <3> QED BY <3>1, <3>2
    <2> QED BY <1>1, <2>1, <2>5, <2>6 DEF ReferenceInv
  <1>7. RefusesOnlyForCause'
    BY <1>1 DEF RefusesOnlyForCause
  <1> QED BY <1>4, <1>5, <1>6, <1>7 DEF ReferenceInv

\* A crash ends every handler, and marks what it leaves unfinished.
LEMMA DiskInvCrash ==
    ASSUME DiskInv, Crash
    PROVE  /\ \A f \in FileNames : RewriteInv(f)'
           /\ SecretsInv' /\ ReferenceInv' /\ RefusesOnlyForCause'
  <1>1. /\ \A c \in Clients : pc'[c] = "idle"
        /\ files' = files /\ secrets' = secrets /\ removed' = removed
        /\ disturbed \subseteq disturbed' /\ unfinished \subseteq unfinished'
        /\ \A c \in Clients : pc[c] = "flush" => FileOf(req[c]) \in disturbed'
        /\ \A c \in Clients : pc[c] = "secretStore" => Target(c) \in unfinished'
    BY DEF Crash
  <1>2. \A c \in Clients : \A f : ~Rewriting(c, f)' /\ ~Flushing(c, f)'
    BY <1>1 DEF Rewriting, InSection, Flushing
  <1>3. ASSUME NEW f \in FileNames, f \notin disturbed'
        PROVE  f \notin disturbed /\ \A c \in Clients : ~Flushing(c, f)
    BY <1>1, <1>3 DEF Flushing, Rewriting
  <1>4. ASSUME NEW f \in FileNames PROVE RewriteInv(f)'
    <2>1. f \notin disturbed' => Readable(files'[f])
      BY <1>1, <1>3 DEF DiskInv, RewriteInv
    <2> QED BY <1>2, <2>1 DEF RewriteInv
  <1>5. ASSUME "keys" \notin disturbed'
        PROVE  \A k \in Keys \ unfinished' : k \in secrets <=> files.keys.doc[k] = "anthropic"
    <2>1. "keys" \notin disturbed /\ RewriteInv("keys") /\ SecretsInv /\ TypeOK
      BY <1>1, <1>5 DEF DiskInv, FileNames
    <2>2. CASE \A c \in Clients : ~Rewriting(c, "keys")
      BY <1>1, <2>1, <2>2 DEF SecretsInv, Settled
    <2>3. CASE \E c \in Clients : Rewriting(c, "keys")
      <3>1. PICK c \in Clients : Rewriting(c, "keys")
        BY <2>3
      <3>2. pc[c] \in {"truncate", "secretStore"} /\ snap[c] \in KeyDocs
        <4>1. /\ pc[c] \in {"read", "truncate", "flush", "secretStore"}
              /\ req[c].op \in {"add_key", "remove_key"} /\ (pc[c] # "read" => snap[c] \in KeyDocs)
          BY <2>1, <3>1, KeyRequest DEF Rewriting, InSection
        <4> QED BY <1>1, <1>5, <3>1, <4>1 DEF Rewriting, InSection, FirstStep
      <3>3. FileAt(c, "keys") /\ Settled(snap[c])
        BY <2>1, <3>1 DEF RewriteInv, SecretsInv
      <3>4. \A k \in Keys \ unfinished' : files.keys.doc[k] = snap[c][k]
        BY <1>1, <3>2, <3>3 DEF FileAt, Holding, NewDocument, KeyDocs, Documents
      <3> QED BY <1>1, <3>3, <3>4 DEF Settled
    <2> QED BY <2>2, <2>3
  <1>6. SecretsInv'
    BY <1>1, <1>2, <1>5 DEF SecretsInv, Settled
  <1>7. ASSUME disturbed' = {} PROVE ReferenceInv'
    <2>1. \A f \in {"keys", "planes"} : \A n : Kept(f, n) => Kept(f, n)'
      BY <1>1, <1>3, <1>7 DEF Kept, FileNames
    <2>2. \A k : Usable(k) => Usable(k)'
      BY <1>1, <1>3, <1>7 DEF Usable, FileNames
    <2>3. \A x : Known(x) => Known(x)'
      BY <2>1, <2>2 DEF Known
    <2>4. \A n \in Names : agents'[n] = None
      BY DEF Crash, EmptyDocument
    <2>5. ReferenceInv /\ disturbed = {}
      BY <1>1, <1>7 DEF DiskInv
    <2> QED BY <1>1, <2>3, <2>4, <2>5 DEF ReferenceInv
  <1> QED BY <1>4, <1>6, <1>7 DEF ReferenceInv, RefusesOnlyForCause, Crash

\* An agent on the disk that cannot be started lost its key or its plane to a
\* request, if no document was disturbed, or something outside is out of order.
LEMMA UnstartableForCause ==
    ASSUME DiskInv, disturbed = {}, AllIdle, Readable(files.agents), NEW lost,
           NEW n \in Names, files.agents.doc[n] # None, ~Startable(files.agents.doc[n], lost)
    PROVE  LET config == files.agents.doc[n]
           IN  \/ {config.key, config.plane} \cap removed # {}
               \/ lost \in {"persona", "provider"}
               \/ lost = "keyring" /\ NeedsSecret(config)
  <1> DEFINE config == files.agents.doc[n]
  <1>1. Known(config)
    BY DEF DiskInv, ReferenceInv
  <1> SUFFICES ASSUME config.key \notin removed, config.plane \notin removed,
                      lost \notin {"persona", "provider"}
               PROVE  lost = "keyring" /\ NeedsSecret(config)
    OBVIOUS
  <1>2. \A c \in Clients : \A f : ~Flushing(c, f)
    BY DEF AllIdle, Rewriting, InSection, Flushing
  <1>3. HasKey(config) /\ HasPlane(config)
    BY <1>1, <1>2 DEF Known, Kept, HasKey, HasPlane
  <1>4. NeedsSecret(config) => config.key \in secrets
    BY <1>1, <1>2 DEF Known, Usable, NeedsSecret
  <1> QED BY <1>3, <1>4 DEF Startable

LEMMA DiskInvLoad ==
    ASSUME DiskInv, Load
    PROVE  /\ \A f \in FileNames : RewriteInv(f)'
           /\ SecretsInv' /\ ReferenceInv' /\ RefusesOnlyForCause'
  <1>1. UNCHANGED <<files, secrets, pc, req, snap, disturbed, unfinished, removed>> /\ AllIdle
    BY DEF Load, DiskInv, AgentsInv
  <1>2. ASSUME NEW f \in FileNames PROVE RewriteInv(f)'
    BY <1>1 DEF DiskInv, RewriteInv, Rewriting, InSection, FileAt, Flushing, NewDocument, Target
  <1>3. SecretsInv'
    BY <1>1 DEF DiskInv, SecretsInv, Rewriting, InSection, Settled, Target
  <1>4. \A x : Known(x) => Known(x)'
    BY <1>1 DEF Known, Kept, Usable, Flushing, Rewriting, InSection
  <1>5. PICK lost \in Outside \cup {None} :
            IF Loadable(lost)
            THEN daemon' = "serving" /\ agents' = files.agents.doc /\ UNCHANGED broken
            ELSE daemon' = "refused" /\ broken' = lost /\ UNCHANGED agents
    BY DEF Load
  <1>6. CASE Loadable(lost)
    <2>1. agents' = files.agents.doc /\ Readable(files.agents) /\ daemon' = "serving"
      BY <1>5, <1>6 DEF Loadable
    <2>2. ReferenceInv'
      BY <1>1, <1>4, <2>1 DEF DiskInv, ReferenceInv, AllIdle
    <2> QED BY <1>2, <1>3, <2>1, <2>2 DEF RefusesOnlyForCause
  <1>7. CASE ~Loadable(lost)
    <2>1. agents' = agents /\ broken' = lost
      BY <1>5, <1>7
    <2>2. ReferenceInv'
      BY <1>1, <1>4, <2>1 DEF DiskInv, ReferenceInv, AllIdle
    <2>3. ASSUME disturbed = {}, lost # "disk"
          PROVE  \E n \in Names : LET config == files.agents.doc[n]
                                  IN  /\ config # None
                                      /\ \/ {config.key, config.plane} \cap removed # {}
                                         \/ lost \in {"persona", "provider"}
                                         \/ lost = "keyring" /\ NeedsSecret(config)
      <3>1. Readable(files.agents)
        BY <1>1, <2>3 DEF DiskInv, RewriteInv, FileNames, AllIdle, Flushing
      <3>2. PICK n \in Names :
                files.agents.doc[n] # None /\ ~Startable(files.agents.doc[n], lost)
        BY <1>7, <2>3, <3>1 DEF Loadable
      <3> QED BY <1>1, <2>3, <3>1, <3>2, UnstartableForCause
    <2>4. RefusesOnlyForCause'
      BY <1>1, <2>1, <2>3 DEF RefusesOnlyForCause, NeedsSecret
    <2> QED BY <1>2, <1>3, <2>2, <2>4
  <1> QED BY <1>6, <1>7

-----------------------------------------------------------------------------
(* The invariant holds, and what follows from it.                          *)

LEMMA DiskInit == Init => DiskInv
  <1> SUFFICES ASSUME Init PROVE DiskInv
    OBVIOUS
  <1>1. \A c \in Clients, f \in FileNames : ~Rewriting(c, f)
    BY DEF Init, Rewriting, InSection
  <1>2. \A f \in FileNames : RewriteInv(f)
    BY <1>1 DEF Init, RewriteInv, Flushing, Readable, Holding, FileNames
  <1>3. SecretsInv
    BY <1>1 DEF Init, SecretsInv, Settled, Holding, EmptyDocument, FileNames, NoneAssumption
  <1>4. ReferenceInv
    BY DEF Init, ReferenceInv, EmptyDocument, Holding
  <1> QED BY <1>2, <1>3, <1>4, TypeInit, AgentsInvInit DEF DiskInv, RefusesOnlyForCause, Init

LEMMA DiskNext == DiskInv /\ [Next]_vars => DiskInv'
  <1> SUFFICES ASSUME DiskInv, [Next]_vars PROVE DiskInv'
    OBVIOUS
  <1>1. TypeOK' /\ AgentsInv'
    BY TypeNext, AgentsInvNext DEF DiskInv
  <1>2. ASSUME NEW c \in Clients, Step(c) PROVE DiskInv'
    <2>1. \A f \in FileNames : RewriteInv(f)'
      BY <1>2, RewriteInvStep DEF DiskInv
    <2>2. SecretsInv'
      BY <1>2, SecretsInvStep DEF DiskInv, FileNames
    <2>3. ReferenceInv'
      BY <1>2, ReferenceInvStep DEF DiskInv
    <2>4. RefusesOnlyForCause'
      BY <1>2, OtherHandlers DEF DiskInv, RefusesOnlyForCause
    <2> QED BY <1>1, <2>1, <2>2, <2>3, <2>4 DEF DiskInv
  <1>3. ASSUME NEW c \in Clients, Fail(c) PROVE DiskInv'
    BY <1>1, <1>3, DiskInvFail DEF DiskInv
  <1>4. CASE Crash
    BY <1>1, <1>4, DiskInvCrash DEF DiskInv
  <1>5. CASE Load
    BY <1>1, <1>5, DiskInvLoad DEF DiskInv
  <1>6. CASE StartByHand \/ UNCHANGED vars
    <2>1. /\ UNCHANGED <<agents, files, secrets, pc, req, snap, disturbed, unfinished, removed>>
          /\ daemon' = "refused" => daemon = "refused" /\ broken' = broken
      BY <1>6 DEF StartByHand, vars
    <2>2. ASSUME NEW f \in FileNames PROVE RewriteInv(f)'
      BY <2>1 DEF DiskInv, RewriteInv, Rewriting, InSection, FileAt, Flushing, NewDocument, Target
    <2>3. SecretsInv'
      BY <2>1 DEF DiskInv, SecretsInv, Rewriting, InSection, Settled, Target
    <2>4. \A x : Known(x) => Known(x)'
      BY <2>1 DEF Known, Kept, Usable, Flushing, Rewriting, InSection
    <2>5. ReferenceInv'
      <3>1. \A f, n : Kept(f, n) => Kept(f, n)'
        BY <2>1 DEF Kept, Flushing, Rewriting, InSection
      <3>2. \A k : Usable(k) => Usable(k)'
        BY <2>1 DEF Usable, Flushing, Rewriting, InSection
      <3> QED BY <2>1, <2>4, <3>1, <3>2 DEF DiskInv, ReferenceInv, Target
    <2>6. RefusesOnlyForCause'
      BY <2>1 DEF DiskInv, RefusesOnlyForCause, NeedsSecret
    <2> QED BY <1>1, <2>2, <2>3, <2>5, <2>6 DEF DiskInv
  <1> QED BY <1>2, <1>3, <1>4, <1>5, <1>6 DEF Next

\* The invariant of the disk holds for any number of clients, agents, keys and
\* Action Planes, whatever fails or crashes.
THEOREM DiskInvariant == Spec => []DiskInv
  BY DiskInit, DiskNext, PTL DEF Spec

LEMMA DiskInvKeysAgree == DiskInv => KeysAgree
  <1> SUFFICES ASSUME DiskInv, "keys" \notin disturbed, Quiet("keys")
               PROVE  Readable(files.keys) /\ Settled(files.keys.doc)
    BY DEF KeysAgree, Settled
  <1>1. \A c \in Clients : ~Rewriting(c, "keys") /\ ~Flushing(c, "keys")
    BY DEF Quiet, Rewriting, Flushing
  <1> QED BY <1>1 DEF DiskInv, RewriteInv, SecretsInv, FileNames

\* As long as no two operations overlapped on keys.json and no failure or crash
\* cut its rewrite short, a key that needs a secret has one and no secret
\* outlives its key, but for the single keys whose secret the store failed to
\* set or delete, or a crash left undone (add_key, remove_key).
THEOREM KeysAgreement == Spec => []KeysAgree
  BY DiskInvariant, DiskInvKeysAgree, PTL

\* The daemon refuses to start only for a cause: a disturbed document, a disk
\* that cannot be read, or a stored agent whose key or plane a request removed,
\* or whose persona, provider or keyring is out of order (serve, load_existing).
THEOREM RefusalHasCause == Spec => []RefusesOnlyForCause
  <1>1. DiskInv => RefusesOnlyForCause
    BY DEF DiskInv
  <1> QED BY <1>1, DiskInvariant, PTL
=============================================================================
