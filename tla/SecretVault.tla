---------------------------- MODULE SecretVault -----------------------------
(***************************************************************************)
(* What set_secret, get_secret and delete_secret promise their caller      *)
(* (src/src/opengeneral/keyring_store.py): a mapping from keys to secrets  *)
(* in which one secret changes at a time and all at once, and that outlives*)
(* the process.  The promise ends, once and for all, with the first event  *)
(* that spoils the store; SecretStore says which events those are.         *)
(***************************************************************************)
CONSTANTS Keys, Secrets, None

VARIABLES
    secret,      \* the secret each key has, or None
    spoiled      \* the promise has ended

Mappings == [Keys -> Secrets \cup {None}]

Init == secret = [k \in Keys |-> None] /\ spoiled = FALSE

\* set_secret takes effect.
Put(k, s) == ~spoiled /\ secret' = [secret EXCEPT ![k] = s] /\ UNCHANGED spoiled

\* delete_secret takes effect.
Forget(k) == ~spoiled /\ secret' = [secret EXCEPT ![k] = None] /\ UNCHANGED spoiled

Spoil == spoiled' = TRUE /\ secret' \in Mappings

Next == \/ \E k \in Keys : Forget(k) \/ \E s \in Secrets : Put(k, s)
        \/ Spoil

Spec == Init /\ [][Next]_<<secret, spoiled>>
=============================================================================
