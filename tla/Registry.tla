------------------------------ MODULE Registry ------------------------------
(* The client registry of internal/idp: which client_ids are registered and  *)
(* how each authenticates at the token endpoint, the clients file that feeds *)
(* it, and the operation that applies a loaded file to it.                   *)
(*                                                                           *)
(* A *Client is immutable once registered, so a registry is a function from  *)
(* client_id to the kind of client registered under it. Secrets, redirect    *)
(* URIs and tiles travel with the kind and are not told apart.               *)
EXTENDS Naturals, Sequences

CONSTANTS ClientIDs,   \* every client_id the seed or a clients file may name
          Seeds        \* the client_ids compiled in by seedClients

ASSUME SeedsAssumption == Seeds \subseteq ClientIDs

(* Confidential is oidc.AuthMethodBasic, public is oidc.AuthMethodNone.      *)
RegisteredKinds == {"confidential", "public"}
Kinds == RegisteredKinds \cup {"absent"}
Registries == [ClientIDs -> Kinds]

Registered(reg) == {c \in ClientIDs : reg[c] # "absent"}

(* The one seeded client is confidential; the file contributes nothing yet.  *)
SeedClients == [c \in ClientIDs |-> IF c \in Seeds THEN "confidential" ELSE "absent"]

(* Mutant: a client the file no longer names is kept.                        *)
ReplaceFileClients_keepsOld(reg, file) ==
  [c \in ClientIDs |-> IF file[c] # "absent" THEN file[c] ELSE reg[c]]

(* The hot-reload apply step, one critical section of Storage.lock: every    *)
(* client that is not seeded is dropped, then the file's clients are stored, *)
(* over a seeded entry of the same id too.                                   *)
ReplaceFileClients(reg, file) ==
  [c \in ClientIDs |-> IF file[c] # "absent" THEN file[c]
                       ELSE IF c \in Seeds THEN reg[c]
                       ELSE "absent"]
-----------------------------------------------------------------------------
(* The clients file: missing, text that is no YAML list of clients, or a     *)
(* list of entries.                                                          *)
NoID == "no id"
MissingFile == [status |-> "missing", entries |-> <<>>]
BrokenFile == [status |-> "broken", entries |-> <<>>]
ListFile(entries) == [status |-> "list", entries |-> entries]

Entry(id, method, secret) ==
  [client_id |-> id, token_endpoint_auth_method |-> method, client_secret |-> secret]
Entries == [client_id : ClientIDs \cup {NoID}, token_endpoint_auth_method : STRING,
            client_secret : BOOLEAN]

(* token_endpoint_auth_method "" and client_secret_basic need a secret, none *)
(* must not have one, anything else is unsupported.                          *)
AuthMethodFromFile(fc) ==
  CASE fc.token_endpoint_auth_method \in {"", "client_secret_basic"} /\ fc.client_secret -> "confidential"
    [] fc.token_endpoint_auth_method = "none" /\ ~fc.client_secret -> "public"
    [] OTHER -> "error"

Accepted(fc) == fc.client_id # NoID /\ AuthMethodFromFile(fc) # "error"

(* A load is all or nothing: one rejected entry rejects the file.            *)
Loads(f) == f.status = "list" /\ \A i \in DOMAIN f.entries : Accepted(f.entries[i])

(* What a loaded file declares. ReplaceFileClients stores the entries in     *)
(* order, so the last entry of an id is the one that counts.                 *)
Declared(f) ==
  [c \in ClientIDs |->
     LET named == {i \in DOMAIN f.entries : f.entries[i].client_id = c}
     IN IF named = {} THEN "absent"
        ELSE AuthMethodFromFile(f.entries[CHOOSE i \in named : \A j \in named : j <= i])]
=============================================================================
