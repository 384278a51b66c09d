------------------------- MODULE SecretStoreProofs --------------------------
(***************************************************************************)
(* Theorems about SecretStore, for any number of handlers, keys and        *)
(* secrets: what becomes of a deleted secret, of a read, of secrets.json,  *)
(* and that the store implements the SecretVault.                          *)
(***************************************************************************)
EXTENDS SecretStore, TLAPS

-----------------------------------------------------------------------------
(* The inductive invariant.                                                *)

\* A descriptor that leads to the temporary file leads to a file that is there.
LinksLead == \A c \in Clients : link[c] = "tmp" => tmp # None

\* What is in the section is alone there: what it read is still what the file
\* holds, and the temporary file is its own.
Solo(c) ==
    InSection(c) =>
        /\ \A d \in Clients \ {c} : ~InSection(d)
        /\ snap[c] = file.doc
        /\ pc[c] = "write"   => link[c] = "tmp" /\ tmp = Empty
        /\ pc[c] = "replace" => tmp = Holding(NewSecrets(c))

OneWriter == ~overlapped => Readable(file) /\ \A c \in Clients : Solo(c)

\* The deletion of a key that has left the keyring, and is to leave the file.
Deleting(c, k) == req[c].op = "delete" /\ Key(c) = k /\ (pc[c] = "read" \/ InSection(c))

ErasedInv ==
    \A k \in erased :
        /\ keyring[k] = None
        /\ ~overlapped => Read(file)[k] = None \/ \E c \in Clients : Deleting(c, k)

\* As long as the keyring stays what it was, one of the two stores is empty: a
\* handler gets to the file of a keyring that works only to find nothing there.
OneStore ==
    ~flapped =>
        IF up
        THEN /\ file = Holding(EmptyDocument(Keys))
             /\ \A c \in Clients : ~InSection(c) /\ (pc[c] = "read" => req[c].op = "delete")
        ELSE keyring = EmptyDocument(Keys)

\* What a get_secret is about to find, or has found, was there since it began.
SeenInv ==
    ~overlapped /\ ~flapped =>
        \A c \in Clients :
            /\ pc[c] = "fallback" => Read(file)[Key(c)] \in seen[c]
            /\ pc[c] = "found"    => found[c] \in seen[c]

StoreInv == TypeOK /\ LinksLead /\ OneWriter /\ ErasedInv /\ OneStore /\ SeenInv

Steps == {"idle", "keyring", "fallback", "found", "read", "open", "write", "replace"}

\* TypeOK in three parts, and what the ghost `seen' adds.
StoreTypes ==
    /\ up \in BOOLEAN /\ overlapped \in BOOLEAN /\ flapped \in BOOLEAN
    /\ keyring \in Contents
    /\ file \in Files(Contents)
    /\ tmp \in Files(Contents) \cup {None}
    /\ erased \subseteq Keys

HandlerTypes ==
    /\ pc \in [Clients -> Steps]
    /\ req \in [Clients -> Calls \cup {NoCall}]
    /\ snap \in [Clients -> Contents \cup {None}]
    /\ link \in [Clients -> {"tmp", "file", None}]
    /\ found \in [Clients -> Secrets \cup {None}]

Typed == StoreTypes /\ HandlerTypes /\ \A c \in Clients : HandlerOK(c)

LEMMA TypeParts ==
    TypeOK <=> Typed /\ seen \in [Clients -> SUBSET (Secrets \cup {None})]
  BY DEF TypeOK, Typed, StoreTypes, HandlerTypes, Steps

-----------------------------------------------------------------------------
(* Calls, documents and files.                                             *)

\* A call names a key, and a set_secret a secret; no call is not one.
LEMMA CallFields ==
    /\ \A r \in Calls : /\ r.op \in {"set", "get", "delete"} /\ r.key \in Keys
                        /\ r.secret \in Secrets \cup {None}
                        /\ r.op = "set" => r.secret \in Secrets
                        /\ r.op # "set" => r.secret = None
                        /\ r # NoCall
    /\ NoCall.op = "none" /\ NoCall.key = None /\ None \notin Keys
  <1>1. ASSUME NEW r \in Calls
        PROVE  /\ r.op \in {"set", "get", "delete"} /\ r.key \in Keys
               /\ r.secret \in Secrets \cup {None}
               /\ r.op = "set" => r.secret \in Secrets
               /\ r.op # "set" => r.secret = None
      BY DEF Calls
  <1>2. NoCall.op = "none" /\ NoCall.key = None /\ None \notin Keys
      BY NoneIsNoValue DEF NoCall
  <1>3. \A r \in Calls : r # NoCall
      BY <1>1, <1>2
  <1> QED  BY <1>1, <1>2, <1>3

\* What can be on the disk, and what reading it gives.
LEMMA FileFacts ==
    /\ EmptyDocument(Keys) \in Contents
    /\ Empty \in Files(Contents) /\ Torn \in Files(Contents)
    /\ \A doc \in Contents : /\ Holding(doc) \in Files(Contents)
                             /\ Readable(Holding(doc)) /\ Read(Holding(doc)) = doc
                             /\ Holding(doc).doc = doc
    /\ \A f \in Files(Contents) : Read(f) \in Contents /\ (Readable(f) => f = Holding(f.doc))
    /\ ~Readable(Empty)
    /\ \A k \in Keys : EmptyDocument(Keys)[k] = None
  <1>1. EmptyDocument(Keys) \in Contents
      BY DEF EmptyDocument, Contents, Documents
  <1>2. Empty \in Files(Contents) /\ Torn \in Files(Contents)
      BY DEF Empty, Torn, Files
  <1>3. \A doc \in Contents : /\ Holding(doc) \in Files(Contents)
                              /\ Readable(Holding(doc)) /\ Read(Holding(doc)) = doc
                              /\ Holding(doc).doc = doc
      BY DEF Holding, Files, Readable, Read
  <1>4. ASSUME NEW f \in Files(Contents)
        PROVE  Read(f) \in Contents /\ (Readable(f) => f = Holding(f.doc))
      BY <1>1, <1>4 DEF Files, Readable, Read, Holding
  <1>5. ~Readable(Empty)
      BY DEF Readable, Empty
  <1>6. \A k \in Keys : EmptyDocument(Keys)[k] = None
      BY DEF EmptyDocument
  <1> QED  BY <1>1, <1>2, <1>3, <1>4, <1>5, <1>6

\* A dump leaves the document or a file that cannot be read; after a truncation
\* it leaves the document.
LEMMA WrittenFacts ==
    ASSUME NEW f, NEW doc \in Contents
    PROVE  /\ Written(f, doc) \subseteq Files(Contents)
           /\ Written(Empty, doc) = {Holding(doc)}
  BY FileFacts DEF Written, Empty

\* A document in which a key got a secret, or lost it.
LEMMA NewSecretsFacts ==
    ASSUME Typed, NEW c \in Clients, InSection(c)
    PROVE  /\ NewSecrets(c) \in Contents
           /\ NewSecrets(c)[Key(c)] = req[c].secret
           /\ \A k \in Keys \ {Key(c)} : NewSecrets(c)[k] = snap[c][k]
           /\ Key(c) \in Keys
           /\ req[c] \in Calls /\ req[c].op \in {"set", "delete"}
  <1>1. snap[c] \in Contents /\ req[c] \in Calls /\ req[c].op \in {"set", "delete"}
      BY DEF Typed, HandlerTypes, HandlerOK, InSection
  <1>2. Key(c) \in Keys /\ req[c].secret \in Secrets \cup {None}
      BY <1>1, CallFields DEF Key
  <1> QED  BY <1>1, <1>2 DEF NewSecrets, Contents, Documents

-----------------------------------------------------------------------------
(* Types.                                                                  *)

LEMMA StoreInitTypes == Init => TypeOK /\ LinksLead
  <1> SUFFICES ASSUME Init PROVE TypeOK /\ LinksLead
      OBVIOUS
  <1>1. StoreTypes
      BY FileFacts DEF Init, StoreTypes
  <1>2. HandlerTypes
      BY DEF Init, HandlerTypes, Steps
  <1>3. \A c \in Clients : HandlerOK(c)
      BY DEF Init, HandlerOK, InSection
  <1>4. seen \in [Clients -> SUBSET (Secrets \cup {None})]
      BY DEF Init
  <1>5. LinksLead
      BY NoneIsNoValue DEF Init, LinksLead
  <1> QED  BY <1>1, <1>2, <1>3, <1>4, <1>5, TypeParts DEF Typed

\* A step of a handler that goes to the end of its call, or on to another step.
LEMMA ReturnTypes ==
    ASSUME HandlerTypes, NEW c \in Clients, Return(c)
    PROVE  /\ pc' \in [Clients -> Steps] /\ pc'[c] = "idle"
           /\ req' \in [Clients -> Calls \cup {NoCall}] /\ req'[c] = NoCall
           /\ snap' \in [Clients -> Contents \cup {None}]
           /\ found' \in [Clients -> Secrets \cup {None}]
           /\ \A d \in Clients \ {c} : pc'[d] = pc[d] /\ req'[d] = req[d] /\ snap'[d] = snap[d]
                                       /\ found'[d] = found[d]
  BY DEF HandlerTypes, Return, GoTo, Steps

LEMMA GoToTypes ==
    ASSUME HandlerTypes, NEW c \in Clients, NEW step \in Steps, GoTo(c, step)
    PROVE  /\ pc' \in [Clients -> Steps] /\ pc'[c] = step
           /\ \A d \in Clients \ {c} : pc'[d] = pc[d]
  BY DEF HandlerTypes, GoTo

\* A handler that did nothing is where it was.
LEMMA OtherHandlerOK ==
    ASSUME NEW d, HandlerOK(d), pc'[d] = pc[d], req'[d] = req[d], snap'[d] = snap[d],
           link'[d] \in {link[d], None} \/ (link[d] # None /\ link'[d] # None)
    PROVE  HandlerOK(d)'
  BY DEF HandlerOK, InSection

\* Every step keeps the types, and the temporary file where a descriptor leads to it.
LEMMA BeginTypes ==
    ASSUME Typed, LinksLead, NEW c \in Clients, NEW r \in Calls, Begin(c, r)
    PROVE  Typed' /\ LinksLead'
  <1>1. /\ pc[c] = "idle" /\ GoTo(c, "keyring") /\ req' = [req EXCEPT ![c] = r]
        /\ UNCHANGED <<up, keyring, file, tmp, snap, link, found, overlapped, flapped, erased>>
      BY DEF Begin, At, disk
  <1>2. /\ pc' \in [Clients -> Steps] /\ pc'[c] = "keyring"
        /\ \A d \in Clients \ {c} : pc'[d] = pc[d]
      BY <1>1, GoToTypes DEF Typed, Steps
  <1>3. StoreTypes' /\ HandlerTypes' /\ LinksLead'
      BY <1>1, <1>2 DEF Typed, StoreTypes, HandlerTypes, LinksLead
  <1>4. req'[c] = r /\ \A d \in Clients \ {c} : req'[d] = req[d]
      BY <1>1 DEF Typed, HandlerTypes
  <1>5. ASSUME NEW d \in Clients PROVE HandlerOK(d)'
    <2>1. CASE d = c
        BY <1>1, <1>2, <1>4, <2>1, CallFields DEF Typed, HandlerOK, InSection
    <2>2. CASE d # c
        BY <1>1, <1>2, <1>4, <2>2, OtherHandlerOK DEF Typed
    <2> QED  BY <2>1, <2>2
  <1> QED  BY <1>3, <1>5 DEF Typed

LEMMA SetKeyringTypes ==
    ASSUME Typed, LinksLead, NEW c \in Clients, SetKeyring(c)
    PROVE  Typed' /\ LinksLead'
  <1>1. /\ pc[c] = "keyring" /\ req[c].op = "set" /\ erased' = erased \ {Key(c)}
        /\ UNCHANGED <<up, file, tmp, link, overlapped, flapped>>
      BY DEF SetKeyring, At
  <1>2. HandlerTypes /\ HandlerOK(c) /\ req[c] \in Calls /\ Key(c) \in Keys
        /\ req[c].secret \in Secrets
      BY <1>1, CallFields DEF Typed, HandlerTypes, Key, HandlerOK
  <1>3. CASE keyring' = [keyring EXCEPT ![Key(c)] = req[c].secret] /\ Return(c)
    <2>1. keyring' \in Contents
        BY <1>2, <1>3 DEF Typed, StoreTypes, Contents, Documents
    <2>2. StoreTypes' /\ HandlerTypes' /\ LinksLead'
        BY <1>1, <1>2, <1>3, <2>1, ReturnTypes DEF Typed, StoreTypes, HandlerTypes, LinksLead
    <2>3. HandlerOK(c)'
        BY <1>1, <1>2, <1>3, ReturnTypes DEF HandlerOK, InSection
    <2>4. \A d \in Clients \ {c} : HandlerOK(d)'
        BY <1>1, <1>2, <1>3, ReturnTypes, OtherHandlerOK DEF Typed
    <2> QED  BY <2>2, <2>3, <2>4 DEF Typed
  <1>4. CASE GoTo(c, "read") /\ UNCHANGED <<keyring, req, snap, found>>
    <2>1. StoreTypes' /\ HandlerTypes' /\ LinksLead'
        BY <1>1, <1>2, <1>4, GoToTypes DEF Typed, StoreTypes, HandlerTypes, LinksLead, Steps
    <2>2. HandlerOK(c)'
        BY <1>1, <1>2, <1>4, GoToTypes, CallFields DEF HandlerOK, InSection, Steps
    <2>3. \A d \in Clients \ {c} : HandlerOK(d)'
        BY <1>1, <1>2, <1>4, GoToTypes, OtherHandlerOK DEF Typed, Steps
    <2> QED  BY <2>1, <2>2, <2>3 DEF Typed
  <1> QED  BY <1>3, <1>4 DEF SetKeyring

LEMMA GetKeyringTypes ==
    ASSUME Typed, LinksLead, NEW c \in Clients, GetKeyring(c)
    PROVE  Typed' /\ LinksLead'
  <1>1. /\ pc[c] = "keyring" /\ req[c].op = "get"
        /\ UNCHANGED <<up, keyring, file, tmp, req, snap, link, overlapped, flapped, erased>>
        /\ \/ up /\ keyring[Key(c)] # None
              /\ found' = [found EXCEPT ![c] = keyring[Key(c)]] /\ GoTo(c, "found")
           \/ GoTo(c, "fallback") /\ UNCHANGED found
      BY DEF GetKeyring, At, disk
  <1>2. HandlerTypes /\ HandlerOK(c) /\ req[c] \in Calls /\ Key(c) \in Keys
      BY <1>1, CallFields DEF Typed, HandlerTypes, Key, HandlerOK
  <1>3. keyring[Key(c)] \in Secrets \cup {None}
      BY <1>2 DEF Typed, StoreTypes, Contents, Documents
  <1>4. PICK step \in {"found", "fallback"} : GoTo(c, step)
      BY <1>1
  <1>5. found' \in [Clients -> Secrets \cup {None}]
      BY <1>1, <1>2, <1>3 DEF HandlerTypes
  <1>6. StoreTypes' /\ HandlerTypes' /\ LinksLead'
      BY <1>1, <1>2, <1>4, <1>5, GoToTypes DEF Typed, StoreTypes, HandlerTypes, LinksLead, Steps
  <1>7. HandlerOK(c)'
      BY <1>1, <1>2, <1>4, GoToTypes, CallFields DEF HandlerOK, InSection, Steps
  <1>8. \A d \in Clients \ {c} : HandlerOK(d)'
      BY <1>1, <1>2, <1>4, GoToTypes, OtherHandlerOK DEF Typed, Steps
  <1> QED  BY <1>6, <1>7, <1>8 DEF Typed

LEMMA DeleteKeyringTypes ==
    ASSUME Typed, LinksLead, NEW c \in Clients, DeleteKeyring(c)
    PROVE  Typed' /\ LinksLead'
  <1>1. /\ pc[c] = "keyring" /\ req[c].op = "delete" /\ GoTo(c, "read")
        /\ UNCHANGED <<up, file, tmp, req, snap, link, found, overlapped, flapped>>
        /\ \/ /\ keyring' = [keyring EXCEPT ![Key(c)] = None]
              /\ erased' = erased \cup {Key(c)}
           \/ UNCHANGED <<keyring, erased>>
      BY DEF DeleteKeyring, At
  <1>2. HandlerTypes /\ HandlerOK(c) /\ req[c] \in Calls /\ Key(c) \in Keys
      BY <1>1, CallFields DEF Typed, HandlerTypes, Key, HandlerOK
  <1>3. keyring' \in Contents /\ erased' \subseteq Keys
      BY <1>1, <1>2 DEF Typed, StoreTypes, Contents, Documents
  <1>4. StoreTypes' /\ HandlerTypes' /\ LinksLead'
      BY <1>1, <1>2, <1>3, GoToTypes DEF Typed, StoreTypes, HandlerTypes, LinksLead, Steps
  <1>5. HandlerOK(c)'
      BY <1>1, <1>2, GoToTypes, CallFields DEF HandlerOK, InSection, Steps
  <1>6. \A d \in Clients \ {c} : HandlerOK(d)'
      BY <1>1, <1>2, GoToTypes, OtherHandlerOK DEF Typed, Steps
  <1> QED  BY <1>4, <1>5, <1>6 DEF Typed

LEMMA LookupTypes ==
    ASSUME Typed, LinksLead, NEW c \in Clients, Fallback(c) \/ Found(c)
    PROVE  Typed' /\ LinksLead'
  <1>1. CASE Fallback(c)
    <2>1. /\ pc[c] = "fallback" /\ GoTo(c, "found")
          /\ found' = [found EXCEPT ![c] = Read(file)[Key(c)]]
          /\ UNCHANGED <<up, keyring, file, tmp, req, snap, link, overlapped, flapped, erased>>
        BY <1>1 DEF Fallback, At, disk
    <2>2. HandlerTypes /\ HandlerOK(c) /\ req[c] \in Calls /\ req[c].op = "get" /\ Key(c) \in Keys
        BY <2>1, CallFields DEF Typed, HandlerTypes, Key, HandlerOK
    <2>3. Read(file)[Key(c)] \in Secrets \cup {None}
        BY <2>2, FileFacts DEF Typed, StoreTypes, Contents, Documents
    <2>4. found' \in [Clients -> Secrets \cup {None}]
        BY <2>1, <2>2, <2>3 DEF HandlerTypes
    <2>5. StoreTypes' /\ HandlerTypes' /\ LinksLead'
        BY <2>1, <2>2, <2>4, GoToTypes DEF Typed, StoreTypes, HandlerTypes, LinksLead, Steps
    <2>6. HandlerOK(c)'
        BY <2>1, <2>2, GoToTypes, CallFields DEF HandlerOK, InSection, Steps
    <2>7. \A d \in Clients \ {c} : HandlerOK(d)'
        BY <2>1, <2>2, GoToTypes, OtherHandlerOK DEF Typed, Steps
    <2> QED  BY <2>5, <2>6, <2>7 DEF Typed
  <1>2. CASE Found(c)
    <2>1. /\ pc[c] = "found" /\ Return(c)
          /\ UNCHANGED <<up, keyring, file, tmp, link, overlapped, flapped, erased>>
        BY <1>2 DEF Found, At, disk
    <2>2. HandlerTypes /\ HandlerOK(c)
        BY DEF Typed
    <2>3. StoreTypes' /\ HandlerTypes' /\ LinksLead'
        BY <2>1, <2>2, ReturnTypes DEF Typed, StoreTypes, HandlerTypes, LinksLead
    <2>4. HandlerOK(c)'
        BY <2>1, <2>2, ReturnTypes DEF HandlerOK, InSection
    <2>5. \A d \in Clients \ {c} : HandlerOK(d)'
        BY <2>1, <2>2, ReturnTypes, OtherHandlerOK DEF Typed
    <2> QED  BY <2>3, <2>4, <2>5 DEF Typed
  <1> QED  BY <1>1, <1>2

LEMMA ReadFileTypes ==
    ASSUME Typed, LinksLead, NEW c \in Clients, ReadFile(c)
    PROVE  Typed' /\ LinksLead'
  <1>1. /\ pc[c] = "read" /\ UNCHANGED <<up, keyring, file, tmp, link, flapped, erased>>
      BY DEF ReadFile, At, disk
  <1>2. HandlerTypes /\ HandlerOK(c) /\ req[c] \in Calls /\ req[c].op \in {"set", "delete"}
      BY <1>1 DEF Typed, HandlerTypes, HandlerOK
  <1>3. CASE Return(c) /\ UNCHANGED overlapped
    <2>1. StoreTypes' /\ HandlerTypes' /\ LinksLead'
        BY <1>1, <1>2, <1>3, ReturnTypes DEF Typed, StoreTypes, HandlerTypes, LinksLead
    <2>2. HandlerOK(c)'
        BY <1>1, <1>2, <1>3, ReturnTypes DEF HandlerOK, InSection
    <2>3. \A d \in Clients \ {c} : HandlerOK(d)'
        BY <1>1, <1>2, <1>3, ReturnTypes, OtherHandlerOK DEF Typed
    <2> QED  BY <2>1, <2>2, <2>3 DEF Typed
  <1>4. CASE /\ snap' = [snap EXCEPT ![c] = Read(file)]
             /\ GoTo(c, "open")
             /\ overlapped' = (overlapped \/ \E d \in Clients \ {c} : InSection(d))
             /\ UNCHANGED <<req, found>>
    <2>1. Read(file) \in Contents
        BY FileFacts DEF Typed, StoreTypes
    <2>2. overlapped' \in BOOLEAN
        BY <1>4
    <2>3. StoreTypes'
        BY <1>1, <2>2 DEF Typed, StoreTypes
    <2>4. snap' \in [Clients -> Contents \cup {None}] /\ snap'[c] = Read(file)
          /\ \A d \in Clients \ {c} : snap'[d] = snap[d]
        BY <1>2, <1>4, <2>1 DEF HandlerTypes
    <2>5. HandlerTypes' /\ LinksLead'
        BY <1>1, <1>2, <1>4, <2>4, GoToTypes DEF HandlerTypes, LinksLead, Steps
    <2>6. HandlerOK(c)'
        BY <1>1, <1>2, <1>4, <2>1, <2>4, GoToTypes, CallFields DEF HandlerOK, InSection, Steps
    <2>7. \A d \in Clients \ {c} : HandlerOK(d)'
        BY <1>1, <1>2, <1>4, <2>4, GoToTypes, OtherHandlerOK DEF Typed, Steps
    <2> QED  BY <2>3, <2>5, <2>6, <2>7 DEF Typed
  <1> QED  BY <1>3, <1>4 DEF ReadFile

LEMMA OpenTypes ==
    ASSUME Typed, LinksLead, NEW c \in Clients, Open(c)
    PROVE  Typed' /\ LinksLead'
  <1>1. /\ pc[c] = "open" /\ GoTo(c, "write") /\ tmp' = Empty
        /\ link' = [link EXCEPT ![c] = "tmp"]
        /\ UNCHANGED <<up, keyring, file, req, snap, found, overlapped, flapped, erased>>
      BY DEF Open, At
  <1>2. HandlerTypes /\ HandlerOK(c) /\ InSection(c)
      BY <1>1 DEF Typed, InSection
  <1>3. link' \in [Clients -> {"tmp", "file", None}] /\ link'[c] = "tmp"
        /\ \A d \in Clients \ {c} : link'[d] = link[d]
      BY <1>1, <1>2 DEF HandlerTypes
  <1>4. StoreTypes' /\ HandlerTypes' /\ LinksLead'
      BY <1>1, <1>2, <1>3, GoToTypes, FileFacts, NoneIsNoFile
      DEF Typed, StoreTypes, HandlerTypes, LinksLead, Steps
  <1>5. HandlerOK(c)'
      BY <1>1, <1>2, GoToTypes, CallFields DEF HandlerOK, InSection, Steps
  <1>6. \A d \in Clients \ {c} : HandlerOK(d)'
      BY <1>1, <1>2, <1>3, GoToTypes, OtherHandlerOK DEF Typed, Steps
  <1> QED  BY <1>4, <1>5, <1>6 DEF Typed

LEMMA WriteTypes ==
    ASSUME Typed, LinksLead, NEW c \in Clients, Write(c)
    PROVE  Typed' /\ LinksLead'
  <1>1. /\ pc[c] = "write" /\ GoTo(c, "replace") /\ link' = [link EXCEPT ![c] = None]
        /\ UNCHANGED <<up, keyring, req, snap, found, overlapped, flapped, erased>>
      BY DEF Write, At
  <1>2. HandlerTypes /\ HandlerOK(c) /\ InSection(c)
      BY <1>1 DEF Typed, InSection
  <1>3. link' \in [Clients -> {"tmp", "file", None}] /\ link'[c] = None
        /\ \A d \in Clients \ {c} : link'[d] = link[d]
      BY <1>1, <1>2 DEF HandlerTypes
  <1>4. NewSecrets(c) \in Contents
      BY <1>2, NewSecretsFacts
  <1>5. /\ file' \in Files(Contents) /\ tmp' \in Files(Contents) \cup {None}
        /\ tmp # None => tmp' # None
    <2>1. CASE link[c] = "tmp"
        BY <1>4, <2>1, WrittenFacts, NoneIsNoFile, NoneIsNoValue DEF Write, Typed, StoreTypes
    <2>2. CASE link[c] = "file"
        BY <1>4, <2>2, WrittenFacts, NoneIsNoValue DEF Write, Typed, StoreTypes
    <2>3. CASE link[c] = None
        BY <2>3, NoneIsNoValue DEF Write, Typed, StoreTypes
    <2> QED  BY <1>2, <2>1, <2>2, <2>3 DEF HandlerTypes
  <1>6. StoreTypes' /\ HandlerTypes' /\ LinksLead'
      BY <1>1, <1>2, <1>3, <1>5, GoToTypes, NoneIsNoValue
      DEF Typed, StoreTypes, HandlerTypes, LinksLead, Steps
  <1>7. HandlerOK(c)'
      BY <1>1, <1>2, <1>3, GoToTypes, CallFields DEF HandlerOK, InSection, Steps
  <1>8. \A d \in Clients \ {c} : HandlerOK(d)'
      BY <1>1, <1>2, <1>3, GoToTypes, OtherHandlerOK DEF Typed, Steps
  <1> QED  BY <1>6, <1>7, <1>8 DEF Typed

LEMMA ReplaceTypes ==
    ASSUME Typed, LinksLead, NEW c \in Clients, Replace(c)
    PROVE  Typed' /\ LinksLead'
  <1>1. /\ pc[c] = "replace" /\ Return(c) /\ tmp' = None
        /\ UNCHANGED <<up, keyring, overlapped, flapped>> /\ erased' \subseteq erased
        /\ IF tmp = None
           THEN UNCHANGED <<file, link>>
           ELSE /\ file' = tmp
                /\ link' = [d \in Clients |-> IF link[d] = "tmp" THEN "file" ELSE None]
      BY DEF Replace, At
  <1>2. HandlerTypes /\ HandlerOK(c)
      BY DEF Typed
  <1>3. /\ link' \in [Clients -> {"tmp", "file", None}]
        /\ \A d \in Clients : /\ link'[d] # "tmp" 
                              /\ link'[d] \in {link[d], None} \/ (link[d] # None /\ link'[d] # None)
    <2>1. CASE tmp = None
        BY <1>1, <1>2, <2>1 DEF HandlerTypes, LinksLead
    <2>2. CASE tmp # None
        BY <1>1, <1>2, <2>2, NoneIsNoValue DEF HandlerTypes
    <2> QED  BY <2>1, <2>2
  <1>4. StoreTypes' /\ HandlerTypes' /\ LinksLead'
      BY <1>1, <1>2, <1>3, ReturnTypes DEF Typed, StoreTypes, HandlerTypes, LinksLead
  <1>5. HandlerOK(c)'
      BY <1>1, <1>2, <1>3, ReturnTypes, NoneIsNoValue DEF HandlerOK, InSection
  <1>6. \A d \in Clients \ {c} : HandlerOK(d)'
      BY <1>1, <1>2, <1>3, ReturnTypes, OtherHandlerOK DEF Typed
  <1> QED  BY <1>4, <1>5, <1>6 DEF Typed

LEMMA EnvironmentTypes ==
    ASSUME Typed, LinksLead, Flap \/ Crash
    PROVE  Typed' /\ LinksLead'
  <1>1. CASE Flap
    <2>1. /\ up' \in BOOLEAN /\ flapped' \in BOOLEAN
          /\ UNCHANGED <<keyring, file, tmp, pc, req, snap, link, found, overlapped, erased>>
        BY <1>1 DEF Flap, disk, locals
    <2>2. StoreTypes' /\ HandlerTypes' /\ LinksLead'
        BY <2>1 DEF Typed, StoreTypes, HandlerTypes, LinksLead
    <2>3. \A d \in Clients : HandlerOK(d)'
        BY <2>1, OtherHandlerOK DEF Typed
    <2> QED  BY <2>2, <2>3 DEF Typed
  <1>2. CASE Crash
    <2>1. /\ pc' = [c \in Clients |-> "idle"] /\ req' = [c \in Clients |-> NoCall]
          /\ snap' = [c \in Clients |-> None] /\ link' = [c \in Clients |-> None]
          /\ found' = [c \in Clients |-> None] /\ erased' \subseteq erased
          /\ UNCHANGED <<up, keyring, file, tmp, overlapped, flapped>>
        BY <1>2 DEF Crash, disk
    <2>2. StoreTypes' /\ HandlerTypes' /\ LinksLead'
        BY <2>1, NoneIsNoValue DEF Typed, StoreTypes, HandlerTypes, LinksLead, Steps
    <2>3. \A d \in Clients : HandlerOK(d)'
        BY <2>1 DEF HandlerOK, InSection
    <2> QED  BY <2>2, <2>3 DEF Typed
  <1> QED  BY <1>1, <1>2

\* What each get_secret has seen grows by what its key has now.
LEMMA ObserveSeen ==
    ASSUME Typed', seen \in [Clients -> SUBSET (Secrets \cup {None})], Observe
    PROVE  /\ seen' \in [Clients -> SUBSET (Secrets \cup {None})]
           /\ ~overlapped' /\ ~flapped' =>
                  \A c \in Clients : req'[c].op = "get" =>
                      seen[c] \subseteq seen'[c] /\ Visible(Key(c))' \in seen'[c]
  <1>1. \A k \in Keys : Visible(k)' \in Secrets \cup {None}
      BY FileFacts DEF Typed, StoreTypes, Visible, Contents, Documents
  <1>2. \A c \in Clients : req'[c].op = "get" => req'[c].key \in Keys
      BY CallFields DEF Typed, HandlerTypes
  <1>3. \A c \in Clients :
            seen'[c] = IF req'[c].op = "get" /\ ~overlapped' /\ ~flapped'
                       THEN seen[c] \cup {Visible(k)' : k \in {req'[c].key}} ELSE {}
      BY DEF Observe
  <1>4. ASSUME NEW c \in Clients PROVE seen'[c] \subseteq Secrets \cup {None}
      BY <1>1, <1>2, <1>3
  <1>5. seen' \in [Clients -> SUBSET (Secrets \cup {None})]
    <2>1. seen' = [c \in Clients |-> seen'[c]]
        BY DEF Observe
    <2> QED  BY <1>4, <2>1
  <1>6. ASSUME NEW c \in Clients, ~overlapped', ~flapped', req'[c].op = "get"
        PROVE  seen[c] \subseteq seen'[c] /\ Visible(Key(c))' \in seen'[c]
      BY <1>3, <1>6 DEF Key
  <1> QED  BY <1>5, <1>6

LEMMA TypesStep == TypeOK /\ LinksLead /\ [Next]_vars => TypeOK' /\ LinksLead'
  <1> SUFFICES ASSUME TypeOK, LinksLead, [Next]_vars PROVE TypeOK' /\ LinksLead'
      OBVIOUS
  <1>1. Typed /\ seen \in [Clients -> SUBSET (Secrets \cup {None})]
      BY TypeParts
  <1>2. CASE Next
    <2>1. ASSUME NEW c \in Clients, HandlerStep(c) PROVE Typed' /\ LinksLead'
        BY <1>1, <2>1, BeginTypes, SetKeyringTypes, GetKeyringTypes, DeleteKeyringTypes,
           LookupTypes, ReadFileTypes, OpenTypes, WriteTypes, ReplaceTypes DEF HandlerStep
    <2>2. Typed' /\ LinksLead' /\ Observe
        BY <1>1, <1>2, <2>1, EnvironmentTypes DEF Next
    <2>3. seen' \in [Clients -> SUBSET (Secrets \cup {None})]
        BY <1>1, <2>2, ObserveSeen
    <2>4. TypeOK'
        BY <2>2, <2>3 DEF TypeOK, Typed, StoreTypes, HandlerTypes, Steps
    <2> QED  BY <2>2, <2>4
  <1>3. CASE UNCHANGED vars
      BY <1>3 DEF vars, disk, locals, TypeOK, LinksLead, HandlerOK, InSection
  <1> QED  BY <1>2, <1>3

-----------------------------------------------------------------------------
(* One writer of secrets.json at a time.                                   *)

\* A step of a handler leaves the others alone, and the events that spoil the store.
LEMMA OtherHandlers ==
    ASSUME Typed, NEW c \in Clients, HandlerStep(c)
    PROVE  /\ \A d \in Clients \ {c} : /\ pc'[d] = pc[d] /\ req'[d] = req[d]
                                       /\ snap'[d] = snap[d] /\ found'[d] = found[d]
           /\ overlapped => overlapped'
           /\ UNCHANGED <<up, flapped>>
  <1>1. HandlerTypes
      BY DEF Typed
  <1>2. ASSUME NEW r \in Calls, Begin(c, r)
        PROVE  /\ \A d \in Clients \ {c} : /\ pc'[d] = pc[d] /\ req'[d] = req[d]
                                           /\ snap'[d] = snap[d] /\ found'[d] = found[d]
               /\ UNCHANGED <<up, overlapped, flapped>>
      BY <1>1, <1>2 DEF Begin, GoTo, HandlerTypes
  <1>3. CASE SetKeyring(c)
      BY <1>1, <1>3 DEF SetKeyring, GoTo, Return, HandlerTypes
  <1>4. CASE GetKeyring(c) \/ DeleteKeyring(c) \/ Fallback(c)
      BY <1>1, <1>4 DEF GetKeyring, DeleteKeyring, Fallback, GoTo, HandlerTypes
  <1>5. CASE Found(c) \/ ReadFile(c)
      BY <1>1, <1>5 DEF Found, ReadFile, GoTo, Return, HandlerTypes
  <1>6. CASE Open(c) \/ Write(c)
      BY <1>1, <1>6 DEF Open, Write, GoTo, HandlerTypes
  <1>7. CASE Replace(c)
      BY <1>1, <1>7 DEF Replace, GoTo, Return, HandlerTypes
  <1> QED  BY <1>2, <1>3, <1>4, <1>5, <1>6, <1>7 DEF HandlerStep

\* A handler that is outside of the section, before and after, does not touch the files.
LEMMA OutsideStep ==
    ASSUME Typed, NEW c \in Clients, HandlerStep(c), ~InSection(c), pc[c] # "read"
    PROVE  UNCHANGED <<file, tmp, link, overlapped>> /\ ~InSection(c)'
  <1>1. HandlerTypes
      BY DEF Typed
  <1>2. \A r \in Calls : Begin(c, r) => UNCHANGED <<file, tmp, link, overlapped>> /\ ~InSection(c)'
      BY <1>1 DEF Begin, GoTo, HandlerTypes, InSection, disk
  <1>3. CASE SetKeyring(c)
      BY <1>1, <1>3 DEF SetKeyring, GoTo, Return, HandlerTypes, InSection
  <1>4. CASE GetKeyring(c) \/ DeleteKeyring(c)
      BY <1>1, <1>4 DEF GetKeyring, DeleteKeyring, GoTo, HandlerTypes, InSection, disk
  <1>5. CASE Fallback(c) \/ Found(c)
      BY <1>1, <1>5 DEF Fallback, Found, Return, GoTo, HandlerTypes, InSection, disk
  <1> QED  BY <1>2, <1>3, <1>4, <1>5 DEF HandlerStep, ReadFile, Open, Write, Replace, At, InSection

\* The section is entered alone, or the store counts as overlapped; inside, the
\* file is what was read and the temporary file is the handler's own.
LEMMA OneWriterKept ==
    ASSUME Typed, OneWriter, NEW c \in Clients, HandlerStep(c)
    PROVE  OneWriter'
  <1> SUFFICES ASSUME ~overlapped' PROVE Readable(file)' /\ \A d \in Clients : Solo(d)'
      BY DEF OneWriter
  <1>1. HandlerTypes /\ Readable(file) /\ \A d \in Clients : Solo(d)
      BY OtherHandlers DEF OneWriter, Typed
  <1>2. \A d \in Clients \ {c} : /\ pc'[d] = pc[d] /\ snap'[d] = snap[d] /\ req'[d] = req[d]
                                 /\ InSection(d)' <=> InSection(d)
                                 /\ NewSecrets(d)' = NewSecrets(d)
      BY OtherHandlers DEF InSection, NewSecrets, Key
  <1>3. CASE ~InSection(c) /\ pc[c] # "read"
    <2>1. UNCHANGED <<file, tmp, link>> /\ ~InSection(c)'
        BY <1>3, OutsideStep
    <2>2. ASSUME NEW d \in Clients \ {c} PROVE Solo(d)'
        BY <1>1, <1>2, <2>1, <2>2 DEF Solo
    <2> QED  BY <1>1, <2>1, <2>2 DEF Solo, Readable
  <1>4. CASE pc[c] = "read"
    <2>1. ReadFile(c) /\ UNCHANGED <<file, tmp, link>>
        BY <1>4 DEF HandlerStep, Begin, SetKeyring, GetKeyring, DeleteKeyring, Fallback, Found,
           ReadFile, Open, Write, Replace, At, disk
    <2>2. CASE Return(c) /\ UNCHANGED overlapped
      <3>1. ~InSection(c)' /\ ~InSection(c)
          BY <1>1, <1>4, <2>2, ReturnTypes DEF InSection
      <3>2. ASSUME NEW d \in Clients \ {c} PROVE Solo(d)'
          BY <1>1, <1>2, <2>1, <3>1, <3>2 DEF Solo
      <3> QED  BY <1>1, <2>1, <3>1, <3>2 DEF Solo, Readable
    <2>3. CASE /\ snap' = [snap EXCEPT ![c] = Read(file)]
               /\ GoTo(c, "open")
               /\ overlapped' = (overlapped \/ \E d \in Clients \ {c} : InSection(d))
      <3>1. \A d \in Clients \ {c} : ~InSection(d)
          BY <2>3
      <3>2. pc'[c] = "open" /\ snap'[c] = file.doc
          BY <1>1, <2>3 DEF HandlerTypes, GoTo, Read
      <3> QED  BY <1>1, <1>2, <2>1, <3>1, <3>2 DEF Solo, Readable
    <2> QED  BY <2>1, <2>2, <2>3 DEF ReadFile
  <1>5. CASE InSection(c)
    <2>1. /\ \A d \in Clients \ {c} : ~InSection(d)' /\ Solo(d)'
          /\ snap[c] = file.doc
          /\ pc[c] = "write" => link[c] = "tmp" /\ tmp = Empty
          /\ pc[c] = "replace" => tmp = Holding(NewSecrets(c))
        BY <1>1, <1>2, <1>5 DEF Solo
    <2>2. CASE Open(c)
      <3>1. /\ pc'[c] = "write" /\ link'[c] = "tmp" /\ tmp' = Empty
            /\ UNCHANGED <<file, snap>>
          BY <1>1, <2>2 DEF Open, GoTo, HandlerTypes
      <3> QED  BY <1>1, <2>1, <3>1 DEF Solo, Readable
    <2>3. CASE Write(c)
      <3>1. pc[c] = "write" /\ pc'[c] = "replace" /\ UNCHANGED <<snap, req>>
          BY <1>1, <2>3 DEF Write, GoTo, HandlerTypes, At
      <3>2. tmp' = Holding(NewSecrets(c)) /\ UNCHANGED file
          BY <1>5, <2>1, <2>3, <3>1, WrittenFacts, NewSecretsFacts, NoneIsNoValue DEF Write
      <3> QED  BY <1>1, <2>1, <3>1, <3>2 DEF Solo, Readable, NewSecrets, Key
    <2>4. CASE Replace(c)
      <3>1. pc[c] = "replace" /\ pc'[c] = "idle"
          BY <1>1, <2>4, ReturnTypes DEF Replace, At
      <3>2. file' = Holding(NewSecrets(c))
        <4>1. tmp \in Files(Contents) /\ tmp = Holding(NewSecrets(c))
            BY <1>5, <2>1, <3>1, FileFacts, NewSecretsFacts
        <4> QED  BY <2>4, <4>1, NoneIsNoFile DEF Replace
      <3>3. Readable(file)'
          BY <3>2 DEF Readable, Holding
      <3> QED  BY <2>1, <3>1, <3>3 DEF Solo, InSection
    <2> QED  BY <1>5, <2>2, <2>3, <2>4 DEF HandlerStep, Begin, SetKeyring, GetKeyring,
             DeleteKeyring, Fallback, Found, ReadFile, At, InSection
  <1> QED  BY <1>3, <1>4, <1>5

\* What a handler in the section does to the file: nothing, until it replaces it.
LEMMA SectionStep ==
    ASSUME Typed, OneWriter, NEW c \in Clients, HandlerStep(c), ~overlapped
    PROVE  IF pc[c] = "replace" THEN Replace(c) /\ file' = Holding(NewSecrets(c))
           ELSE file' = file
  <1>1. HandlerTypes /\ Solo(c)
      BY DEF OneWriter, Typed
  <1>2. CASE pc[c] = "replace"
    <2>1. Replace(c) /\ InSection(c)
        BY <1>2 DEF HandlerStep, Begin, SetKeyring, GetKeyring, DeleteKeyring, Fallback, Found,
           ReadFile, Open, Write, At, InSection
    <2>2. tmp \in Files(Contents) /\ tmp = Holding(NewSecrets(c))
        BY <1>1, <1>2, <2>1, FileFacts, NewSecretsFacts DEF Solo
    <2> QED  BY <1>2, <2>1, <2>2, NoneIsNoFile DEF Replace
  <1>3. CASE pc[c] = "write"
    <2>1. Write(c) /\ link[c] = "tmp"
        BY <1>1, <1>3 DEF HandlerStep, Begin, SetKeyring, GetKeyring, DeleteKeyring, Fallback, Found,
           ReadFile, Open, Replace, At, InSection, Solo
    <2> QED  BY <1>3, <2>1, NoneIsNoValue DEF Write
  <1>4. CASE pc[c] \notin {"write", "replace"}
      BY <1>4 DEF HandlerStep, Begin, SetKeyring, GetKeyring, DeleteKeyring, Fallback, Found,
         ReadFile, Open, Write, Replace, At, disk
  <1> QED  BY <1>2, <1>3, <1>4

-----------------------------------------------------------------------------
(* The other parts of the invariant, for a step of a handler.              *)

\* A deleted secret stays out of the keyring; it leaves the file with the
\* deletion, and comes back with nothing but another set_secret.
LEMMA ErasedKept ==
    ASSUME Typed, OneWriter, ErasedInv, NEW c \in Clients, HandlerStep(c)
    PROVE  ErasedInv'
  <1> SUFFICES ASSUME NEW k \in erased'
               PROVE  /\ keyring'[k] = None
                      /\ ~overlapped' => Read(file)'[k] = None \/ \E d \in Clients : Deleting(d, k)'
      BY DEF ErasedInv
  <1>1. /\ HandlerTypes /\ HandlerOK(c) /\ StoreTypes
        /\ \A d \in Clients \ {c} : Deleting(d, k)' <=> Deleting(d, k)
      BY OtherHandlers DEF Typed, Deleting, InSection, Key
  <1>2. k \in erased => /\ keyring[k] = None
                        /\ ~overlapped => Read(file)[k] = None \/ \E d \in Clients : Deleting(d, k)
      BY DEF ErasedInv
  <1>3. ASSUME k \in erased, keyring' = keyring, file' = file, Deleting(c, k) => Deleting(c, k)',
               overlapped => overlapped'
        PROVE  /\ keyring'[k] = None
               /\ ~overlapped' => Read(file)'[k] = None \/ \E d \in Clients : Deleting(d, k)'
      BY <1>1, <1>2, <1>3
  <1>4. overlapped => overlapped'
      BY OtherHandlers
  <1>5. ASSUME NEW r \in Calls, Begin(c, r)
        PROVE  k \in erased /\ keyring' = keyring /\ file' = file /\ ~Deleting(c, k)
      BY <1>5 DEF Begin, At, Deleting, InSection, disk
  <1>6. CASE GetKeyring(c) \/ Fallback(c) \/ Found(c)
    <2>1. k \in erased /\ keyring' = keyring /\ file' = file /\ ~Deleting(c, k)
        BY <1>6 DEF GetKeyring, Fallback, Found, At, Deleting, InSection, disk
    <2> QED  BY <1>3, <1>4, <2>1
  <1>7. CASE SetKeyring(c)
    <2>1. k \in erased /\ k # Key(c) /\ file' = file /\ ~Deleting(c, k)
        BY <1>7 DEF SetKeyring, At, Deleting, InSection
    <2>2. keyring'[k] = keyring[k]
        BY <1>1, <1>7, <2>1 DEF SetKeyring, StoreTypes, Contents, Documents
    <2> QED  BY <1>1, <1>2, <1>4, <2>1, <2>2
  <1>8. CASE DeleteKeyring(c)
    <2>1. file' = file /\ ~Deleting(c, k) /\ Key(c)' = Key(c) /\ req' = req /\ pc'[c] = "read"
          /\ req[c].op = "delete" /\ req[c] \in Calls
        BY <1>1, <1>8 DEF DeleteKeyring, At, Deleting, InSection, Key, GoTo, HandlerTypes, HandlerOK
    <2>2. CASE k = Key(c) /\ up
        BY <1>1, <1>8, <2>1, <2>2, CallFields
        DEF DeleteKeyring, Deleting, Key, StoreTypes, Contents, Documents
    <2>3. CASE ~(k = Key(c) /\ up)
      <3>1. k \in erased /\ keyring'[k] = keyring[k]
          BY <1>1, <1>8, <2>3 DEF DeleteKeyring, StoreTypes, Contents, Documents
      <3> QED  BY <1>1, <1>2, <1>4, <2>1, <3>1
    <2> QED  BY <2>2, <2>3
  <1>9. CASE ReadFile(c)
    <2>1. k \in erased /\ keyring' = keyring /\ file' = file
        BY <1>9 DEF ReadFile, disk
    <2>2. CASE req[c].op = "delete" /\ Read(file)[Key(c)] = None
        BY <1>1, <1>2, <1>4, <2>1, <2>2 DEF Deleting
    <2>3. CASE ~(req[c].op = "delete" /\ Read(file)[Key(c)] = None)
      <3>1. Deleting(c, k) => Deleting(c, k)'
          BY <1>1, <1>9, <2>3 DEF ReadFile, Deleting, Key, GoTo, HandlerTypes, InSection
      <3> QED  BY <1>3, <1>4, <2>1, <3>1
    <2> QED  BY <2>2, <2>3
  <1>10. CASE Open(c)
    <2>1. /\ k \in erased /\ keyring' = keyring /\ file' = file
          /\ Deleting(c, k) => Deleting(c, k)'
        BY <1>1, <1>10 DEF Open, Deleting, Key, GoTo, HandlerTypes, InSection
    <2> QED  BY <1>3, <1>4, <2>1
  <1>11. CASE Write(c)
    <2>1. /\ k \in erased /\ keyring' = keyring
          /\ Deleting(c, k) => Deleting(c, k)'
        BY <1>1, <1>11 DEF Write, Deleting, Key, GoTo, HandlerTypes, InSection
    <2>2. ~overlapped => file' = file
        BY <1>11, SectionStep DEF Write, At
    <2> QED  BY <1>1, <1>2, <1>4, <2>1, <2>2
  <1>12. CASE Replace(c)
    <2>1. /\ k \in erased /\ keyring' = keyring /\ pc[c] = "replace"
          /\ k = Key(c) => req[c].op # "set"
        BY <1>12 DEF Replace, At
    <2>2. CASE overlapped'
        BY <1>2, <2>1, <2>2
    <2>3. CASE ~overlapped'
      <3>1. ~overlapped /\ file' = Holding(NewSecrets(c)) /\ InSection(c)
          BY <1>4, <2>1, <2>3, SectionStep DEF InSection
      <3>2. Read(file)' = NewSecrets(c)
          BY <3>1, FileFacts, NewSecretsFacts DEF Read
      <3>3. CASE k = Key(c)
          BY <1>2, <2>1, <3>1, <3>2, <3>3, NewSecretsFacts, CallFields
      <3>4. CASE k # Key(c)
        <4>1. snap[c] = Read(file) /\ k \in Keys
            BY <1>1, <2>1, <3>1 DEF OneWriter, Solo, Read, StoreTypes
        <4>2. Read(file)'[k] = Read(file)[k] /\ ~Deleting(c, k)
            BY <3>1, <3>2, <3>4, <4>1, NewSecretsFacts DEF Deleting
        <4> QED  BY <1>1, <1>2, <2>1, <3>1, <4>2
      <3> QED  BY <2>1, <3>3, <3>4, <1>2
    <2> QED  BY <2>2, <2>3
  <1> QED  BY <1>3, <1>4, <1>5, <1>6, <1>7, <1>8, <1>9, <1>10, <1>11, <1>12 DEF HandlerStep

\* Which of the two stores is empty does not change while the keyring stays as it is.
LEMMA OneStoreKept ==
    ASSUME Typed, OneStore, NEW c \in Clients, HandlerStep(c)
    PROVE  OneStore'
  <1> SUFFICES ASSUME ~flapped' PROVE OneStore'
      BY DEF OneStore
  <1>1. HandlerTypes /\ ~flapped /\ up' = up /\ StoreTypes
      BY OtherHandlers DEF Typed
  <1>2. CASE ~up
    <2>1. keyring = EmptyDocument(Keys)
        BY <1>1, <1>2 DEF OneStore
    <2>2. keyring' = keyring
        BY <1>2 DEF HandlerStep, Begin, SetKeyring, GetKeyring, DeleteKeyring, Fallback, Found,
           ReadFile, Open, Write, Replace, disk
    <2> QED  BY <1>1, <1>2, <2>1, <2>2 DEF OneStore
  <1>3. CASE up
    <2>1. /\ file = Holding(EmptyDocument(Keys))
          /\ \A d \in Clients : ~InSection(d) /\ (pc[d] = "read" => req[d].op = "delete")
        BY <1>1, <1>3 DEF OneStore
    <2>2. \A d \in Clients \ {c} : ~InSection(d)' /\ (pc'[d] = "read" => req'[d].op = "delete")
        BY <2>1, OtherHandlers DEF InSection
    <2>3. file' = file /\ ~InSection(c)' /\ (pc'[c] = "read" => req'[c].op = "delete")
      <3>1. CASE pc[c] = "read"
        <4>1. ReadFile(c)
            BY <3>1 DEF HandlerStep, Begin, SetKeyring, GetKeyring, DeleteKeyring, Fallback, Found,
               Open, Write, Replace, At
        <4>2. req[c].op = "delete" /\ Key(c) \in Keys
            BY <1>1, <2>1, <3>1, CallFields DEF HandlerTypes, Key
        <4>3. Read(file)[Key(c)] = None
            BY <2>1, <4>2, FileFacts
        <4> QED  BY <1>1, <4>1, <4>2, <4>3, ReturnTypes DEF ReadFile, disk, InSection
      <3>2. CASE pc[c] # "read"
        <4>1. file' = file /\ ~InSection(c)'
            BY <2>1, <3>2, OutsideStep
        <4>2. pc'[c] = "read" => DeleteKeyring(c)
          <5>1. \A r \in Calls : Begin(c, r) => pc'[c] = "keyring"
              BY <1>1 DEF Begin, GoTo, HandlerTypes
          <5>2. SetKeyring(c) => pc'[c] = "idle"
              BY <1>1, <1>3, ReturnTypes DEF SetKeyring
          <5>3. GetKeyring(c) \/ Fallback(c) => pc'[c] \in {"fallback", "found"}
              BY <1>1 DEF GetKeyring, Fallback, GoTo, HandlerTypes
          <5>4. Found(c) => pc'[c] = "idle"
              BY <1>1, ReturnTypes DEF Found
          <5> QED  BY <2>1, <3>2, <5>1, <5>2, <5>3, <5>4
                   DEF HandlerStep, ReadFile, Open, Write, Replace, At, InSection
        <4> QED  BY <4>1, <4>2 DEF DeleteKeyring
      <3> QED  BY <3>1, <3>2
    <2> QED  BY <1>1, <1>3, <2>1, <2>2, <2>3 DEF OneStore
  <1> QED  BY <1>2, <1>3

\* What a look-up is about to find was there since it began: it looks at one store
\* while the other is empty.
LEMMA SeenKept ==
    ASSUME Typed, Typed', seen \in [Clients -> SUBSET (Secrets \cup {None})],
           OneStore, OneStore', SeenInv, NEW c \in Clients, HandlerStep(c), Observe
    PROVE  SeenInv'
  <1> SUFFICES ASSUME ~overlapped', ~flapped', NEW d \in Clients
               PROVE  /\ pc'[d] = "fallback" => Read(file)'[Key(d)'] \in seen'[d]
                      /\ pc'[d] = "found" => found'[d] \in seen'[d]
      BY DEF SeenInv
  <1>1. /\ HandlerTypes /\ HandlerTypes' /\ StoreTypes /\ ~overlapped /\ ~flapped /\ up' = up
        /\ HandlerOK(d)' /\ HandlerOK(d)
      BY OtherHandlers DEF Typed
  <1>2. SUFFICES ASSUME pc'[d] \in {"fallback", "found"}
                 PROVE  /\ pc'[d] = "fallback" => Read(file)'[Key(d)'] \in seen'[d]
                        /\ pc'[d] = "found" => found'[d] \in seen'[d]
      OBVIOUS
  <1>3. /\ req'[d].op = "get" /\ Key(d)' \in Keys
        /\ seen[d] \subseteq seen'[d] /\ Visible(Key(d))' \in seen'[d]
    <2>1. req'[d].op = "get"
        BY <1>1, <1>2 DEF HandlerOK
    <2>2. Key(d)' \in Keys
        BY <1>1, <2>1, CallFields DEF HandlerTypes, Key
    <2> QED  BY <2>1, <2>2, ObserveSeen
  <1>4. /\ pc[d] = "fallback" => Read(file)[Key(d)] \in seen[d]
        /\ pc[d] = "found" => found[d] \in seen[d]
      BY <1>1 DEF SeenInv
  <1>5. ASSUME pc[d] = "fallback", Key(d)' = Key(d) PROVE Read(file)'[Key(d)'] \in seen'[d]
    <2>1. CASE up
        BY <1>1, <1>3, <1>4, <1>5, <2>1 DEF OneStore
    <2>2. CASE ~up
        BY <1>1, <1>3, <2>2 DEF Visible
    <2> QED  BY <2>1, <2>2
  <1>6. CASE d # c
      BY <1>3, <1>4, <1>5, <1>6, OtherHandlers DEF Key
  <1>7. CASE d = c /\ GetKeyring(c)
    <2>1. UNCHANGED <<up, keyring, file, req>> /\ Key(c)' = Key(c)
        BY <1>7 DEF GetKeyring, disk, Key
    <2>2. CASE up /\ keyring[Key(c)] # None
        BY <1>1, <1>3, <1>7, <2>1, <2>2 DEF GetKeyring, Visible, GoTo, HandlerTypes
    <2>3. CASE ~(up /\ keyring[Key(c)] # None)
        BY <1>1, <1>3, <1>7, <2>1, <2>3 DEF GetKeyring, Visible, GoTo, HandlerTypes
    <2> QED  BY <2>2, <2>3
  <1>8. CASE d = c /\ Fallback(c)
    <2>1. /\ UNCHANGED <<file, req>> /\ Key(c)' = Key(c) /\ pc[c] = "fallback" /\ pc'[c] = "found"
          /\ found'[c] = Read(file)[Key(c)]
        BY <1>1, <1>8 DEF Fallback, disk, Key, GoTo, HandlerTypes, At
    <2> QED  BY <1>3, <1>4, <1>8, <2>1
  <1>9. CASE d = c /\ ~GetKeyring(c) /\ ~Fallback(c)
    <2>1. \A r \in Calls : Begin(c, r) => pc'[c] = "keyring"
        BY <1>1 DEF Begin, GoTo, HandlerTypes
    <2>2. SetKeyring(c) \/ ReadFile(c) => pc'[c] \in {"idle", "read", "open"}
        BY <1>1 DEF SetKeyring, ReadFile, Return, GoTo, HandlerTypes
    <2>3. DeleteKeyring(c) \/ Open(c) \/ Write(c) => pc'[c] \in {"read", "write", "replace"}
        BY <1>1 DEF DeleteKeyring, Open, Write, GoTo, HandlerTypes
    <2>4. Found(c) \/ Replace(c) => pc'[c] = "idle"
        BY <1>1, ReturnTypes DEF Found, Replace
    <2> QED  BY <1>2, <1>9, <2>1, <2>2, <2>3, <2>4 DEF HandlerStep
  <1> QED  BY <1>6, <1>7, <1>8, <1>9

-----------------------------------------------------------------------------
(* The invariant.                                                          *)

LEMMA StoreInit == Init => StoreInv
  <1> SUFFICES ASSUME Init PROVE StoreInv
      OBVIOUS
  <1>1. TypeOK /\ LinksLead
      BY StoreInitTypes
  <1>2. OneWriter /\ OneStore
      BY FileFacts DEF Init, OneWriter, Solo, OneStore, InSection
  <1>3. ErasedInv /\ SeenInv
      BY DEF Init, ErasedInv, SeenInv
  <1> QED  BY <1>1, <1>2, <1>3 DEF StoreInv

LEMMA StoreStep == StoreInv /\ [Next]_vars => StoreInv'
  <1> SUFFICES ASSUME StoreInv, [Next]_vars PROVE StoreInv'
      OBVIOUS
  <1>1. /\ TypeOK /\ LinksLead /\ OneWriter /\ ErasedInv /\ OneStore /\ SeenInv
        /\ Typed /\ seen \in [Clients -> SUBSET (Secrets \cup {None})]
        /\ TypeOK' /\ LinksLead' /\ Typed'
    <2>1. TypeOK /\ LinksLead /\ OneWriter /\ ErasedInv /\ OneStore /\ SeenInv
        BY DEF StoreInv
    <2>2. TypeOK' /\ LinksLead'
        BY <2>1, TypesStep
    <2>3. Typed'
        BY <2>2 DEF TypeOK, Typed, StoreTypes, HandlerTypes, Steps
    <2> QED  BY <2>1, <2>2, <2>3, TypeParts
  <1>2. ASSUME NEW c \in Clients, HandlerStep(c), Observe PROVE StoreInv'
    <2>1. OneWriter' /\ ErasedInv' /\ OneStore'
        BY <1>1, <1>2, OneWriterKept, ErasedKept, OneStoreKept
    <2>2. SeenInv'
        BY <1>1, <1>2, <2>1, SeenKept
    <2> QED  BY <1>1, <2>1, <2>2 DEF StoreInv
  <1>3. CASE Flap
    <2>1. /\ flapped' = TRUE
          /\ UNCHANGED <<keyring, file, tmp, pc, req, snap, link, found, overlapped, erased>>
        BY <1>3 DEF Flap, disk, locals
    <2>2. OneWriter'
        BY <1>1, <2>1 DEF OneWriter, Solo, InSection, NewSecrets, Key
    <2>3. ErasedInv'
        BY <1>1, <2>1 DEF ErasedInv, Deleting, InSection, Key
    <2> QED  BY <1>1, <2>1, <2>2, <2>3 DEF StoreInv, OneStore, SeenInv
  <1>4. CASE Crash
    <2>1. /\ pc' = [c \in Clients |-> "idle"] /\ erased' = erased \ {Key(c) : c \in Clients}
          /\ UNCHANGED <<up, keyring, file, tmp, overlapped, flapped>>
        BY <1>4 DEF Crash, disk
    <2>2. \A c \in Clients : pc'[c] = "idle" /\ ~InSection(c)'
        BY <2>1 DEF InSection
    <2>3. OneWriter'
        BY <1>1, <2>1, <2>2 DEF OneWriter, Solo
    <2>4. ErasedInv'
      <3>1. ASSUME NEW k \in erased' PROVE k \in erased /\ \A c \in Clients : ~Deleting(c, k)
          BY <2>1, <3>1 DEF Deleting
      <3> QED  BY <1>1, <2>1, <3>1 DEF ErasedInv
    <2>5. OneStore' /\ SeenInv'
        BY <1>1, <2>1, <2>2 DEF OneStore, SeenInv
    <2> QED  BY <1>1, <2>3, <2>4, <2>5 DEF StoreInv
  <1>5. CASE UNCHANGED vars
    <2>1. UNCHANGED <<up, keyring, file, tmp, pc, req, snap, link, found, overlapped, flapped,
                      erased, seen>>
        BY <1>5 DEF vars, disk, locals
    <2>2. OneWriter' /\ OneStore'
        BY <1>1, <2>1 DEF OneWriter, Solo, InSection, NewSecrets, Key, OneStore
    <2>3. ErasedInv' /\ SeenInv'
        BY <1>1, <2>1 DEF ErasedInv, Deleting, InSection, Key, SeenInv
    <2> QED  BY <1>1, <2>2, <2>3 DEF StoreInv
  <1> QED  BY <1>2, <1>3, <1>4, <1>5 DEF Next

\* The invariant holds in every reachable state.
THEOREM StoreInvariant == Spec => []StoreInv
  <1> QED  BY StoreInit, StoreStep, PTL DEF Spec

-----------------------------------------------------------------------------
(* What it implies.                                                        *)

\* TypeOK: types, a handler stands at a step of its call, and has a file open only
\* to write it (keyring_store.py).
THEOREM StoreTypeOK == Spec => []TypeOK
  <1>1. StoreInv => TypeOK
      BY DEF StoreInv
  <1> QED  BY <1>1, StoreInvariant, PTL

\* FileIntact: secrets.json can be read at every moment and after every crash, as
\* long as no two writers overlap (_write_file_secrets).
THEOREM FileStaysIntact == Spec => []FileIntact
  <1>1. StoreInv => FileIntact
      BY DEF StoreInv, OneWriter, FileIntact
  <1> QED  BY <1>1, StoreInvariant, PTL

\* DeletedForGood: a secret deleted from a keyring that worked is in neither store,
\* however the keyring comes and goes, until it is set again (delete_secret).
THEOREM DeletionLasts == Spec => []DeletedForGood
  <1>1. ASSUME StoreInv, ~overlapped, NEW k \in erased,
               \A c \in Clients : Key(c) # k \/ req[c].op = "get"
        PROVE  keyring[k] = None /\ Read(file)[k] = None
    <2>1. \A c \in Clients : ~Deleting(c, k)
        BY <1>1 DEF Deleting
    <2> QED  BY <1>1, <2>1 DEF StoreInv, ErasedInv
  <1>2. StoreInv => DeletedForGood
      BY <1>1 DEF DeletedForGood
  <1> QED  BY <1>2, StoreInvariant, PTL

\* ReadsCurrent: what get_secret finds in two looks, into the keyring and into the
\* file, is what the key had at one moment of the call.
THEOREM ReadsAreCurrent == Spec => []ReadsCurrent
  <1>1. StoreInv => ReadsCurrent
      BY DEF StoreInv, SeenInv, ReadsCurrent
  <1> QED  BY <1>1, StoreInvariant, PTL

-----------------------------------------------------------------------------
(* The store implements the vault.                                         *)

\* What the keys have, as the caller of the store sees it.
Secret == [k \in Keys |-> Visible(k)]

\* A step of a handler that spoils nothing changes one secret at most.
LEMMA OneSecretChanges ==
    ASSUME StoreInv, StoreInv', NEW c \in Clients, HandlerStep(c), ~overlapped', ~flapped'
    PROVE  \/ Secret' = Secret
           \/ \E k \in Keys, s \in Secrets \cup {None} : Secret' = [Secret EXCEPT ![k] = s]
  <1>1. /\ ~overlapped /\ ~flapped /\ up' = up /\ Typed /\ HandlerTypes /\ StoreTypes
        /\ OneWriter /\ OneStore /\ OneStore'
      BY OtherHandlers, TypeParts DEF StoreInv, Typed
  <1>2. CASE up
    <2>1. file' = file /\ \A k \in Keys : Read(file)[k] = None
        BY <1>1, <1>2, FileFacts DEF OneStore
    <2>2. CASE keyring' = keyring
        BY <1>1, <2>1, <2>2 DEF Secret, Visible
    <2>3. CASE SetKeyring(c) \/ DeleteKeyring(c)
      <3>1. req[c] \in Calls /\ Key(c) \in Keys /\ req[c].secret \in Secrets \cup {None}
            /\ (DeleteKeyring(c) => req[c].secret = None)
          BY <1>1, <2>3, CallFields
          DEF SetKeyring, DeleteKeyring, At, HandlerTypes, HandlerOK, Typed, Key
      <3>2. keyring' = [keyring EXCEPT ![Key(c)] = req[c].secret]
          BY <1>2, <2>3, <3>1 DEF SetKeyring, DeleteKeyring
      <3>3. \A k \in Keys : Secret[k] = keyring[k] /\ Secret'[k] = keyring'[k]
          BY <1>1, <1>2, <2>1 DEF Secret, Visible
      <3>4. \A k \in Keys : keyring'[k] = IF k = Key(c) THEN req[c].secret ELSE keyring[k]
          BY <1>1, <3>1, <3>2 DEF StoreTypes, Contents, Documents
      <3>5. Secret' = [Secret EXCEPT ![Key(c)] = req[c].secret]
          BY <3>3, <3>4 DEF Secret
      <3> QED  BY <3>1, <3>5
    <2> QED  BY <2>2, <2>3 DEF HandlerStep, Begin, GetKeyring, Fallback, Found, ReadFile, Open,
             Write, Replace, disk
  <1>3. CASE ~up
    <2>1. \A k \in Keys : Secret[k] = Read(file)[k] /\ Secret'[k] = Read(file)'[k]
        BY <1>1, <1>3 DEF Secret, Visible
    <2>2. CASE pc[c] # "replace"
      <3>1. file' = file
          BY <1>1, <2>2, SectionStep
      <3> QED  BY <1>1, <1>3, <3>1 DEF Secret, Visible
    <2>3. CASE pc[c] = "replace"
      <3>1. InSection(c) /\ file' = Holding(NewSecrets(c)) /\ snap[c] = Read(file)
          BY <1>1, <2>3, SectionStep DEF InSection, OneWriter, Solo, Read
      <3>2. Read(file)' = NewSecrets(c)
          BY <1>1, <3>1, FileFacts, NewSecretsFacts DEF Read
      <3>3. \A k \in Keys : Secret'[k] = IF k = Key(c) THEN req[c].secret ELSE Secret[k]
          BY <1>1, <2>1, <3>1, <3>2, NewSecretsFacts
      <3>4. Secret' = [Secret EXCEPT ![Key(c)] = req[c].secret]
          BY <3>3 DEF Secret
      <3>5. Key(c) \in Keys /\ req[c].secret \in Secrets \cup {None}
          BY <1>1, <3>1, NewSecretsFacts, CallFields
      <3> QED  BY <3>4, <3>5
    <2> QED  BY <2>2, <2>3
  <1> QED  BY <1>2, <1>3

\* Initially no key has a secret.
LEMMA VaultInit == Init => Vault!Init
  <1> SUFFICES ASSUME Init PROVE Vault!Init
      OBVIOUS
  <1>1. \A k \in Keys : Visible(k) = None
      BY FileFacts DEF Init, Visible
  <1> QED  BY <1>1 DEF Init, Vault!Init

\* Every step of the store is a step of the vault, or changes nothing in it.
LEMMA VaultStep ==
    ASSUME StoreInv, StoreInv', [Next]_vars
    PROVE  [Vault!Next]_<<Secret, overlapped \/ flapped>>
  <1>1. CASE overlapped' \/ flapped'
    <2>1. keyring' \in Contents /\ Read(file)' \in Contents
        BY FileFacts DEF StoreInv, TypeOK
    <2>2. Secret' \in Vault!Mappings
        BY <2>1 DEF Vault!Mappings, Secret, Visible, Contents, Documents
    <2>3. (overlapped' \/ flapped') = TRUE
        BY <1>1
    <2> QED  BY <2>2, <2>3 DEF Vault!Next, Vault!Spoil, Secret
  <1>2. CASE ~overlapped' /\ ~flapped'
    <2>1. ASSUME NEW c \in Clients, HandlerStep(c)
          PROVE  [Vault!Next]_<<Secret, overlapped \/ flapped>>
      <3>1. ~overlapped /\ ~flapped
          BY <1>2, <2>1, OtherHandlers, TypeParts DEF StoreInv
      <3>2. CASE Secret' = Secret
          BY <1>2, <3>1, <3>2
      <3>3. ASSUME NEW k \in Keys, NEW s \in Secrets \cup {None}, Secret' = [Secret EXCEPT ![k] = s]
            PROVE  Vault!Next
        <4>1. CASE s \in Secrets
            BY <1>2, <3>1, <3>3, <4>1 DEF Vault!Next, Vault!Put, Secret
        <4>2. CASE s = None
            BY <1>2, <3>1, <3>3, <4>2 DEF Vault!Next, Vault!Forget, Secret
        <4> QED  BY <4>1, <4>2
      <3> QED  BY <1>2, <2>1, <3>2, <3>3, OneSecretChanges
    <2>2. CASE Crash \/ UNCHANGED vars
      <3>1. UNCHANGED <<up, keyring, file, overlapped, flapped>>
          BY <2>2 DEF Crash, vars, disk
      <3>2. Secret' = Secret
          BY <3>1 DEF Secret, Visible
      <3> QED  BY <3>1, <3>2
    <2>3. ~Flap
        BY <1>2 DEF Flap
    <2> QED  BY <2>1, <2>2, <2>3 DEF Next
  <1> QED  BY <1>1, <1>2

\* IsVault: the store implements the vault; set_secret and delete_secret change one
\* secret, in one of their several steps, and a crash changes none, until a writer
\* overlaps with another or the keyring comes or goes (keyring_store.py).
THEOREM StoreIsVault == Spec => IsVault
  <1>1. StoreInv /\ StoreInv' /\ [Next]_vars => [Vault!Next]_<<Secret, overlapped \/ flapped>>
      BY VaultStep
  <1> QED  BY <1>1, VaultInit, StoreInvariant, PTL DEF Spec, IsVault, Vault!Spec, Secret
=============================================================================
