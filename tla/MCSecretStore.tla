--------------------------- MODULE MCSecretStore ----------------------------
(***************************************************************************)
(* The secret store on a small instance: two handlers, two keys (so that   *)
(* one rewrite may lose the other's) and two secrets (an old and a new     *)
(* one), a keyring that comes and goes, and crashes.                       *)
(***************************************************************************)
EXTENDS SecretStore, TLC

\* Clients, keys and secrets are interchangeable.
Symmetry == Permutations(Clients) \cup Permutations(Keys) \cup Permutations(Secrets)
=============================================================================
