---------------------------- MODULE OidcProviders ----------------------------
(***************************************************************************)
(* The OpenID Connect providers: the list in the configuration row, the    *)
(* settings page that edits it, the file that seeds it at startup, and the *)
(* registry the process keeps in memory (auth/oidc.py): the fingerprint a  *)
(* provider was last registered with, and the two dictionaries of authlib, *)
(* the registered settings and the client built from them.                 *)
(*                                                                         *)
(* The list is one JSON column: it is read, changed in memory and written  *)
(* whole.  A provider's client_id, client_secret, discovery document and   *)
(* scope are one value, its client settings; of its other fields only      *)
(* auto_create_users matters, and the order of the list does not.          *)
(***************************************************************************)
EXTENDS Naturals

CONSTANTS Ids,          \* provider ids
          Clients,      \* client settings a provider may have
          NoClient,     \* no client settings
          Rows,         \* what an administrator may enter for a provider
          NoProvider,   \* the entry of an id that is not in the list
          File,         \* what the file of WG_IDP_CONFIG_FILE says of each id
          Admins,       \* settings pages open at once
          ServeWhileStarting  \* may requests be served before startup() returns?

Provider == [client: Clients, auto: BOOLEAN]
List     == [Ids -> Provider \cup {NoProvider}]

ASSUME OidcProvidersAssumption ==
  /\ NoClient \notin Clients
  /\ NoProvider \notin Provider
  /\ Ids # {}
  /\ Rows \subseteq Provider
  /\ File \in List
  /\ ServeWhileStarting \in BOOLEAN

VARIABLES providers,    \* openid_connect_providers of the configuration row
          reg,          \* the process's registry, by provider id
          admin,        \* local state of each settings page
          boot          \* local state of startup()

providerVars == <<providers, reg, admin, boot>>

MaybeClient == Clients \cup {NoClient}
Entry == [fingerprint: MaybeClient, config: MaybeClient, client: MaybeClient]

ProvidersTypeOK ==
  /\ providers \in List
  /\ reg \in [Ids -> Entry]
  /\ admin \in [Admins -> [pc: {"idle", "commit", "unregister"}, id: Ids,
                           row: Provider \cup {NoProvider}, list: List]]
  /\ boot \in [pc: {"down", "seed", "seed_commit", "load", "register", "up"}, list: List]

NoProviders  == [i \in Ids |-> NoProvider]
Unregistered == [fingerprint |-> NoClient, config |-> NoClient, client |-> NoClient]
EmptyReg     == [i \in Ids |-> Unregistered]
IdlePage     == [pc |-> "idle", id |-> CHOOSE i \in Ids : TRUE, row |-> NoProvider,
                 list |-> NoProviders]

ProvidersInit ==
  /\ providers = NoProviders
  /\ reg = EmptyReg
  /\ admin = [a \in Admins |-> IdlePage]
  /\ boot = [pc |-> "down", list |-> NoProviders]

Serving == boot.pc = "up" \/ (ServeWhileStarting /\ boot.pc # "down")

-----------------------------------------------------------------------------
(* The registry *)

\* _fingerprint: a digest of the client settings.
Fingerprint(p) == p.client

\* Mutant: the client built before stays.
Evict_Never(e) == e

\* oauth._clients.pop
Evict(e) == [e EXCEPT !.client = NoClient]

\* oauth.create_client: the client built before, or one built from the settings.
Build(e) == [e EXCEPT !.client = IF @ = NoClient THEN e.config ELSE @]

\* oauth.register stores the settings and creates the client.
Register(e, p) ==
  IF e.fingerprint = Fingerprint(p) THEN e
  ELSE Build([Evict(e) EXCEPT !.config = p.client, !.fingerprint = Fingerprint(p)])

-----------------------------------------------------------------------------
(* The settings page *)

\* A page saves a provider, or deletes one (row NoProvider): it reads the row ...
StartEdit(a) ==
  /\ Serving
  /\ admin[a].pc = "idle"
  /\ \E i \in Ids, r \in Rows \cup {NoProvider} :
       admin' = [admin EXCEPT ![a] = [pc |-> "commit", id |-> i, row |-> r,
                                      list |-> providers]]
  /\ UNCHANGED <<providers, reg, boot>>

\* What is in the row after a list that was read as old is stored as new: a
\* column equal to what was read is not written, but lists that are equal here
\* may differ in their order and in the fields left out.
Stored(old, new) == IF new = old THEN {providers, new} ELSE {new}

\* ... and commits the list with its change.
CommitEdit(a) ==
  LET p == admin[a] IN
  /\ p.pc = "commit"
  /\ IF p.row = NoProvider /\ p.list[p.id] = NoProvider
     THEN UNCHANGED providers
     ELSE providers' \in Stored(p.list, [p.list EXCEPT ![p.id] = p.row])
  /\ admin' = [admin EXCEPT ![a] = IF p.row = NoProvider
                                   THEN [IdlePage EXCEPT !.pc = "unregister", !.id = p.id]
                                   ELSE IdlePage]
  /\ UNCHANGED <<reg, boot>>

\* Mutant: _registered keeps the fingerprint.
Unregister_KeepsFingerprint(a) ==
  /\ admin[a].pc = "unregister"
  /\ reg' = [reg EXCEPT ![admin[a].id] = [@ EXCEPT !.config = NoClient, !.client = NoClient]]
  /\ admin' = [admin EXCEPT ![a] = IdlePage]
  /\ UNCHANGED <<providers, boot>>

\* unregister_provider, after the deletion is committed.
Unregister(a) ==
  /\ admin[a].pc = "unregister"
  /\ reg' = [reg EXCEPT ![admin[a].id] = Unregistered]
  /\ admin' = [admin EXCEPT ![a] = IdlePage]
  /\ UNCHANGED <<providers, boot>>

-----------------------------------------------------------------------------
(* Startup *)

\* _upsert_providers: entries of the file replace those with the same id.
Upsert(list) == [i \in Ids |-> IF File[i] # NoProvider THEN File[i] ELSE list[i]]

\* The process starts with an empty registry.
StartUp ==
  /\ boot.pc = "down"
  /\ boot' = [boot EXCEPT !.pc = IF File = NoProviders THEN "load" ELSE "seed"]
  /\ UNCHANGED <<providers, reg, admin>>

SeedRead ==
  /\ boot.pc = "seed"
  /\ boot' = [pc |-> "seed_commit", list |-> providers]
  /\ UNCHANGED <<providers, reg, admin>>

SeedCommit ==
  /\ boot.pc = "seed_commit"
  /\ providers' \in Stored(boot.list, Upsert(boot.list))
  /\ boot' = [pc |-> "load", list |-> NoProviders]
  /\ UNCHANGED <<reg, admin>>

\* register_providers reads the list once and then registers every provider.
LoadProviders ==
  /\ boot.pc = "load"
  /\ boot' = [pc |-> "register", list |-> providers]
  /\ UNCHANGED <<providers, reg, admin>>

RegisterProviders ==
  /\ boot.pc = "register"
  /\ reg' = [i \in Ids |-> IF boot.list[i] = NoProvider THEN reg[i]
                           ELSE Register(reg[i], boot.list[i])]
  /\ boot' = [pc |-> "up", list |-> NoProviders]
  /\ UNCHANGED <<providers, admin>>

ProvidersStep ==
  \/ \E a \in Admins : StartEdit(a) \/ CommitEdit(a) \/ Unregister(a)
  \/ StartUp \/ SeedRead \/ SeedCommit \/ LoadProviders \/ RegisterProviders

\* The process dies: what it kept in memory is gone, the row stays.
ProvidersCrash ==
  /\ boot.pc # "down"
  /\ reg' = EmptyReg
  /\ admin' = [a \in Admins |-> IdlePage]
  /\ boot' = [pc |-> "down", list |-> NoProviders]
  /\ UNCHANGED providers

=============================================================================
