---------------------------- MODULE SecretStore -----------------------------
(***************************************************************************)
(* The secrets of API keys (src/src/opengeneral/keyring_store.py): the     *)
(* keyring of the operating system where it works, and secrets.json where  *)
(* it does not, used by concurrent handler threads.                        *)
(*                                                                         *)
(* Every call tries the keyring, which may be usable at one moment and not *)
(* at the next.  The file is read whole and replaced whole: by way of one  *)
(* temporary file, whose name all writers share.                           *)
(***************************************************************************)
EXTENDS ConfigFile

CONSTANTS Clients, Keys, Secrets

ASSUME NoneIsNoValue == None \notin Clients \cup Keys \cup Secrets \cup {"tmp", "file"}

Contents == Documents(Keys, Secrets)

ASSUME NoneIsNoFile == None \notin Contents \cup Files(Contents)

Calls == [op : {"set"}, key : Keys, secret : Secrets]
         \cup [op : {"get", "delete"}, key : Keys, secret : {None}]
NoCall == [op |-> "none", key |-> None, secret |-> None]

VARIABLES
    up,          \* the keyring is usable
    keyring,     \* what the keyring holds
    file,        \* secrets.json
    tmp,         \* secrets.json.tmp, None if there is none
    pc, req,     \* each handler's next step, and the call it makes
    snap,        \* what _read_file_secrets returned to it
    link,        \* the file its descriptor leads to: "tmp", "file", or none that has a name
    found,       \* what get_secret found
    \* Ghosts, read by properties only:
    overlapped,  \* two handlers were between reading and replacing secrets.json
    flapped,     \* the keyring became usable, or unusable
    erased,      \* keys deleted from a keyring that worked, and not set since
    seen         \* the secrets the key had since each get_secret began

disk   == <<keyring, file, tmp>>
locals == <<pc, req, snap, link, found>>
vars == <<up, disk, locals, overlapped, flapped, erased, seen>>

At(c, step) == pc[c] = step
GoTo(c, step) == pc' = [pc EXCEPT ![c] = step]
Key(c) == req[c].key

\* The handler is inside the read-modify-write of secrets.json.
InSection(c) == pc[c] \in {"open", "write", "replace"}

\* _read_file_secrets: a file that cannot be read holds nothing.
Read(f) == IF Readable(f) THEN f.doc ELSE EmptyDocument(Keys)

\* The secret a get_secret finds now.
Visible(k) == IF up /\ keyring[k] # None THEN keyring[k] ELSE Read(file)[k]

\* Mutant: the request is forgotten later, by the next.
ReturnKeepingCall(c) ==
    /\ GoTo(c, "idle")
    /\ snap' = [snap EXCEPT ![c] = None]
    /\ found' = [found EXCEPT ![c] = None]
    /\ UNCHANGED req

Return(c) ==
    /\ GoTo(c, "idle")
    /\ req' = [req EXCEPT ![c] = NoCall]
    /\ snap' = [snap EXCEPT ![c] = None]
    /\ found' = [found EXCEPT ![c] = None]

Init ==
    /\ up \in BOOLEAN
    /\ keyring = EmptyDocument(Keys)
    /\ file = Holding(EmptyDocument(Keys))
    /\ tmp = None
    /\ pc = [c \in Clients |-> "idle"]
    /\ req = [c \in Clients |-> NoCall]
    /\ snap = [c \in Clients |-> None]
    /\ link = [c \in Clients |-> None]
    /\ found = [c \in Clients |-> None]
    /\ overlapped = FALSE
    /\ flapped = FALSE
    /\ erased = {}
    /\ seen = [c \in Clients |-> {}]

Begin(c, r) ==
    /\ At(c, "idle")
    /\ req' = [req EXCEPT ![c] = r]
    /\ GoTo(c, "keyring")
    /\ UNCHANGED <<up, disk, snap, link, found, overlapped, flapped, erased>>

-----------------------------------------------------------------------------
(* The keyring first.                                                      *)

\* set_secret is done if the keyring takes the secret.
SetKeyring(c) ==
    /\ At(c, "keyring") /\ req[c].op = "set"
    /\ IF up
       THEN keyring' = [keyring EXCEPT ![Key(c)] = req[c].secret] /\ Return(c)
       ELSE GoTo(c, "read") /\ UNCHANGED <<keyring, req, snap, found>>
    /\ erased' = erased \ {Key(c)}
    /\ UNCHANGED <<up, file, tmp, link, overlapped, flapped>>

\* get_secret turns to the file if the keyring fails or has nothing.
GetKeyring(c) ==
    /\ At(c, "keyring") /\ req[c].op = "get"
    /\ IF up /\ keyring[Key(c)] # None
       THEN found' = [found EXCEPT ![c] = keyring[Key(c)]] /\ GoTo(c, "found")
       ELSE GoTo(c, "fallback") /\ UNCHANGED found
    /\ UNCHANGED <<up, disk, req, snap, link, overlapped, flapped, erased>>

\* Mutant: a deletion that the keyring took is done, like a set_secret.
DeleteKeyringOnly(c) ==
    /\ At(c, "keyring") /\ req[c].op = "delete"
    /\ IF up
       THEN /\ keyring' = [keyring EXCEPT ![Key(c)] = None]
            /\ erased' = erased \cup {Key(c)}
            /\ Return(c)
       ELSE GoTo(c, "read") /\ UNCHANGED <<keyring, erased, req, snap, found>>
    /\ UNCHANGED <<up, file, tmp, link, overlapped, flapped>>

\* delete_secret turns to the file in any case.
DeleteKeyring(c) ==
    /\ At(c, "keyring") /\ req[c].op = "delete"
    /\ IF up
       THEN /\ keyring' = [keyring EXCEPT ![Key(c)] = None]
            /\ erased' = erased \cup {Key(c)}
       ELSE UNCHANGED <<keyring, erased>>
    /\ GoTo(c, "read")
    /\ UNCHANGED <<up, file, tmp, req, snap, link, found, overlapped, flapped>>

-----------------------------------------------------------------------------
(* The file.                                                               *)

\* Mutant: get_secret trusts a usable keyring, and asks the file only without one.
FallbackIfDown(c) ==
    /\ At(c, "fallback")
    /\ found' = [found EXCEPT ![c] = IF up THEN Read(file)[Key(c)] ELSE None]
    /\ GoTo(c, "found")
    /\ UNCHANGED <<up, disk, req, snap, link, overlapped, flapped, erased>>

Fallback(c) ==
    /\ At(c, "fallback")
    /\ found' = [found EXCEPT ![c] = Read(file)[Key(c)]]
    /\ GoTo(c, "found")
    /\ UNCHANGED <<up, disk, req, snap, link, overlapped, flapped, erased>>

\* get_secret returns, or raises if it found nothing.
Found(c) ==
    /\ At(c, "found")
    /\ Return(c)
    /\ UNCHANGED <<up, disk, link, overlapped, flapped, erased>>

\* A deletion of what the file does not hold writes nothing.
ReadFile(c) ==
    /\ At(c, "read")
    /\ IF req[c].op = "delete" /\ Read(file)[Key(c)] = None
       THEN Return(c) /\ UNCHANGED overlapped
       ELSE /\ snap' = [snap EXCEPT ![c] = Read(file)]
            /\ GoTo(c, "open")
            /\ overlapped' = (overlapped \/ \E d \in Clients \ {c} : InSection(d))
            /\ UNCHANGED <<req, found>>
    /\ UNCHANGED <<up, disk, link, flapped, erased>>

\* Mutant: the file itself is opened and truncated.
OpenInPlace(c) ==
    /\ At(c, "open")
    /\ file' = Empty
    /\ tmp' = Empty
    /\ link' = [link EXCEPT ![c] = "tmp"]
    /\ GoTo(c, "write")
    /\ UNCHANGED <<up, keyring, req, snap, found, overlapped, flapped, erased>>

\* os.open creates or truncates the temporary file, whoever else has it open.
Open(c) ==
    /\ At(c, "open")
    /\ tmp' = Empty
    /\ link' = [link EXCEPT ![c] = "tmp"]
    /\ GoTo(c, "write")
    /\ UNCHANGED <<up, keyring, file, req, snap, found, overlapped, flapped, erased>>

\* Mutant: the file holds the last secret only.
NewSecretsOnly(c) == [EmptyDocument(Keys) EXCEPT ![Key(c)] = req[c].secret]

NewSecrets(c) == [snap[c] EXCEPT ![Key(c)] = req[c].secret]

\* The dump reaches the file that was opened, under whatever name it has now.
Write(c) ==
    /\ At(c, "write")
    /\ \/ /\ link[c] = "tmp"
          /\ tmp' \in Written(tmp, NewSecrets(c))
          /\ UNCHANGED file
       \/ /\ link[c] = "file"
          /\ file' \in Written(file, NewSecrets(c))
          /\ UNCHANGED tmp
       \/ link[c] = None /\ UNCHANGED <<tmp, file>>
    /\ link' = [link EXCEPT ![c] = None]
    /\ GoTo(c, "replace")
    /\ UNCHANGED <<up, keyring, req, snap, found, overlapped, flapped, erased>>

\* os.replace gives the temporary file its name, or fails because another
\* writer has done so.
Replace(c) ==
    /\ At(c, "replace")
    /\ IF tmp = None
       THEN UNCHANGED <<file, link>>
       ELSE /\ file' = tmp
            /\ link' = [d \in Clients |-> IF link[d] = "tmp" THEN "file" ELSE None]
    /\ tmp' = None
    /\ Return(c)
    /\ erased' = IF req[c].op = "set" THEN erased \ {Key(c)} ELSE erased
    /\ UNCHANGED <<up, keyring, overlapped, flapped>>

-----------------------------------------------------------------------------
(* The environment.                                                        *)

\* The Secret Service starts or ends, a session is unlocked, a call fails.
Flap ==
    /\ up' = ~up
    /\ flapped' = TRUE
    /\ UNCHANGED <<disk, locals, overlapped, erased>>

\* The daemon is killed, and started again.  A deletion it was at is not over.
Crash ==
    /\ pc' = [c \in Clients |-> "idle"]
    /\ req' = [c \in Clients |-> NoCall]
    /\ snap' = [c \in Clients |-> None]
    /\ link' = [c \in Clients |-> None]
    /\ found' = [c \in Clients |-> None]
    /\ erased' = erased \ {Key(c) : c \in Clients}
    /\ UNCHANGED <<up, disk, overlapped, flapped>>

HandlerStep(c) ==
    \/ \E r \in Calls : Begin(c, r)
    \/ SetKeyring(c) \/ GetKeyring(c) \/ DeleteKeyring(c)
    \/ Fallback(c) \/ Found(c)
    \/ ReadFile(c) \/ Open(c) \/ Write(c) \/ Replace(c)

\* The ghost follows what the key of each get_secret has, while it runs and the
\* store is not spoiled.
Observe ==
    seen' = [c \in Clients |-> IF req'[c].op = "get" /\ ~overlapped' /\ ~flapped'
                               THEN seen[c] \cup {Visible(k)' : k \in {req'[c].key}}
                               ELSE {}]

Next == ((\E c \in Clients : HandlerStep(c)) \/ Flap \/ Crash) /\ Observe

Spec == Init /\ [][Next]_vars

-----------------------------------------------------------------------------
(* Properties.                                                             *)

HandlerOK(c) ==
    /\ req[c] = NoCall <=> pc[c] = "idle"
    /\ InSection(c) => snap[c] \in Contents /\ req[c].op \in {"set", "delete"}
    /\ pc[c] \in {"fallback", "found"} => req[c].op = "get"
    /\ pc[c] = "read" => req[c].op \in {"set", "delete"}
    /\ link[c] # None => pc[c] = "write"

\* Types; a handler stands at a step of its call, and has a file open only to write it.
TypeOK ==
    /\ up \in BOOLEAN /\ overlapped \in BOOLEAN /\ flapped \in BOOLEAN
    /\ keyring \in Contents
    /\ file \in Files(Contents)
    /\ tmp \in Files(Contents) \cup {None}
    /\ pc \in [Clients -> {"idle", "keyring", "fallback", "found", "read", "open", "write",
                           "replace"}]
    /\ req \in [Clients -> Calls \cup {NoCall}]
    /\ snap \in [Clients -> Contents \cup {None}]
    /\ link \in [Clients -> {"tmp", "file", None}]
    /\ found \in [Clients -> Secrets \cup {None}]
    /\ erased \subseteq Keys
    /\ seen \in [Clients -> SUBSET (Secrets \cup {None})]
    /\ \A c \in Clients : HandlerOK(c)

\* The store is a vault, across crashes, as long as no two handlers rewrite
\* secrets.json at once and the keyring stays what it was when the daemon
\* first started: every secret changes alone and in one step, although a
\* change takes up to six (set_secret, delete_secret, _write_file_secrets).
Vault == INSTANCE SecretVault WITH
             secret <- [k \in Keys |-> Visible(k)], spoiled <- overlapped \/ flapped
IsVault == Vault!Spec

\* secrets.json can be read at every moment, and after a crash at any moment,
\* unlike the documents of the registry: only writers that overlap can spoil
\* it (_write_file_secrets).
FileIntact == ~overlapped => Readable(file)

\* A secret that was deleted from a keyring that worked is in neither store and
\* stays so until it is set again, wherever copies of it were left while the
\* keyring came and went (delete_secret).
DeletedForGood ==
    ~overlapped =>
        \A k \in erased : (\A c \in Clients : Key(c) # k \/ req[c].op = "get")
            => keyring[k] = None /\ Read(file)[k] = None

\* What get_secret returns, or the lack of it that it reports, is what the key
\* had at some moment of the call: its look into the keyring and its look into
\* the file are two steps, between which other handlers set and delete (get_secret).
ReadsCurrent ==
    ~overlapped /\ ~flapped =>
        \A c \in Clients : pc[c] = "found" => found[c] \in seen[c]
=============================================================================
