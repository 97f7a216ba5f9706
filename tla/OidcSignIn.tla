----------------------------- MODULE OidcSignIn ------------------------------
(***************************************************************************)
(* Signing in with an OpenID Connect provider (pages/auth_oidc.py), the    *)
(* connections it leaves in the database, and the task that refreshes      *)
(* their tokens (tasks/oidc_refresh.py), beside the settings page and the  *)
(* startup of OidcProviders.                                               *)
(*                                                                         *)
(* PostgreSQL runs each statement on what is committed, and a statement    *)
(* that changes a row waits for the transaction that changed it before.    *)
(* The callback's query for connections first flushes the sign-in time it  *)
(* has set on the user (SQLAlchemy's autoflush), so it holds the user's    *)
(* row from that query to its commit.                                      *)
(*                                                                         *)
(* A refresh token is the number of the grant that issued it.  A provider  *)
(* may rotate a token when it is used; a new sign-in leaves earlier grants *)
(* as they are.                                                            *)
(***************************************************************************)
EXTENDS OidcProviders, FiniteSets

CONSTANTS Accounts,     \* users, by e-mail address
          Browsers,     \* sign-ins under way at once
          NoToken,      \* the provider sent no refresh token
          NoConn,       \* no connection
          NoAccount,    \* the user is not known yet
          MaxGrants,    \* bound: tokens issued
          MaxCrashes    \* bound: times the process dies

Grants     == 1..MaxGrants
MaybeToken == Grants \cup {NoToken}

ASSUME OidcSignInAssumption ==
  /\ MaxGrants \in Nat
  /\ MaxCrashes \in Nat
  /\ NoToken \notin Grants
  /\ NoConn \notin Grants
  /\ NoAccount \notin Accounts

Connection == [id: Grants, user: Accounts, provider: Ids, token: MaybeToken]

VARIABLES users,        \* committed state of each account: "absent", "active", "disabled"
          lock,         \* accounts whose row a sign-in's transaction holds
          connections,  \* the oidc_connections table
          sign,         \* local state of each sign-in
          refresher,    \* local state of the refresh task
          issued,       \* grants issued so far
          valid,        \* tokens the providers accept
          cut,          \* ghost: connections whose new token was lost on the way
          crashes       \* times the process has died

accountVars == <<users, lock, connections>>
grantVars   == <<issued, valid, cut>>
allVars     == <<providerVars, accountVars, sign, refresher, grantVars, crashes>>

\* The row of a connection is numbered by the grant it was first stored with.
SignIn == [pc: {"idle", "redirect", "at_provider", "callback", "exchange", "auto",
                "find_user", "create_user", "find_conn", "commit"},
           id: Ids, seen: Provider \cup {NoProvider}, client: MaybeClient,
           user: Accounts \cup {NoAccount}, grant: 0..MaxGrants, token: MaybeToken,
           auto: BOOLEAN, conn: Grants \cup {NoConn}]

Refresher == [pc: {"idle", "load", "next", "get", "commit"}, map: SUBSET Ids,
              queue: SUBSET Connection, conn: Grants \cup {NoConn},
              used: MaybeToken, answer: MaybeToken, loaded: MaybeToken]

TypeOK ==
  /\ ProvidersTypeOK
  /\ users \in [Accounts -> {"absent", "active", "disabled"}]
  /\ lock \subseteq Accounts
  /\ connections \subseteq Connection
  /\ sign \in [Browsers -> SignIn]
  /\ refresher \in Refresher
  /\ issued \in 0..MaxGrants
  /\ valid \subseteq Grants
  /\ cut \subseteq Grants
  /\ crashes \in 0..MaxCrashes

NoSignIn == [pc |-> "idle", id |-> CHOOSE i \in Ids : TRUE, seen |-> NoProvider,
             client |-> NoClient, user |-> NoAccount, grant |-> 0, token |-> NoToken,
             auto |-> FALSE, conn |-> NoConn]
IdleRefresher == [pc |-> "idle", map |-> {}, queue |-> {}, conn |-> NoConn,
                  used |-> NoToken, answer |-> NoToken, loaded |-> NoToken]

Init ==
  /\ ProvidersInit
  /\ users \in [Accounts -> {"absent", "active"}]
  /\ lock = {} /\ connections = {}
  /\ sign = [b \in Browsers |-> NoSignIn]
  /\ refresher = IdleRefresher
  /\ issued = 0 /\ valid = {} /\ cut = {}
  /\ crashes = 0

At(b, pc)     == sign[b].pc = pc
Become(b, s)  == sign' = [sign EXCEPT ![b] = s]
Finish(b)     == Become(b, NoSignIn)

-----------------------------------------------------------------------------
(* oidc_redirect and oidc_callback up to the exchange of the code *)

\* The browser asks to be sent to a provider; the row is read (load_providers).
StartSignIn(b) ==
  /\ Serving
  /\ At(b, "idle")
  /\ \E i \in Ids :
       Become(b, [NoSignIn EXCEPT !.pc = "redirect", !.id = i, !.seen = providers[i]])
  /\ UNCHANGED <<providerVars, accountVars, refresher, grantVars, crashes>>

\* The browser comes back with a code; the row is read again.
Callback(b) ==
  /\ Serving
  /\ At(b, "at_provider")
  /\ Become(b, [sign[b] EXCEPT !.pc = "callback", !.seen = providers[sign[b].id],
                               !.client = NoClient])
  /\ UNCHANGED <<providerVars, accountVars, refresher, grantVars, crashes>>

\* The rest of get_client, on the row that was read: register when the settings
\* differ, then take the client.
GetClient(b, next) ==
  LET s == sign[b]
      e == Build(Register(reg[s.id], s.seen))
  IN
  /\ IF s.seen = NoProvider
     THEN Finish(b) /\ UNCHANGED reg
     ELSE /\ reg' = [reg EXCEPT ![s.id] = e]
          /\ IF e.client = NoClient THEN Finish(b)
             ELSE Become(b, [s EXCEPT !.pc = next, !.client = e.client])
  /\ UNCHANGED <<providers, admin, boot, accountVars, refresher, grantVars, crashes>>

RedirectClient(b) == At(b, "redirect") /\ GetClient(b, "at_provider")
CallbackClient(b) == At(b, "callback") /\ GetClient(b, "exchange")

\* authorize_redirect or the user gives up; the exchange fails; no address is sent.
Abandon(b) ==
  /\ sign[b].pc \in {"at_provider", "exchange"}
  /\ Finish(b)
  /\ UNCHANGED <<providerVars, accountVars, refresher, grantVars, crashes>>

\* The provider answers with tokens and an address.
Exchange(b) ==
  /\ At(b, "exchange")
  /\ issued < MaxGrants
  /\ issued' = issued + 1
  /\ \E u \in Accounts, token \in {issued + 1, NoToken} :
       /\ Become(b, [NoSignIn EXCEPT !.pc = "auto", !.id = sign[b].id, !.user = u,
                                     !.grant = issued + 1, !.token = token])
       /\ valid' = valid \cup ({token} \ {NoToken})
  /\ UNCHANGED <<providerVars, accountVars, refresher, cut, crashes>>

\* get_provider_config: auto_create_users as it is now.
ReadAuto(b) ==
  LET p == providers[sign[b].id] IN
  /\ At(b, "auto")
  /\ Become(b, [sign[b] EXCEPT !.pc = "find_user",
                               !.auto = IF p = NoProvider THEN FALSE ELSE p.auto])
  /\ UNCHANGED <<providerVars, accountVars, refresher, grantVars, crashes>>

-----------------------------------------------------------------------------
(* The callback's transaction *)

FindUser(b) ==
  LET s == sign[b] IN
  /\ At(b, "find_user")
  /\ CASE users[s.user] = "active"             -> Become(b, [s EXCEPT !.pc = "find_conn", !.auto = FALSE])
       [] users[s.user] = "absent" /\ s.auto   -> Become(b, [s EXCEPT !.pc = "create_user", !.auto = FALSE])
       [] OTHER                                -> Finish(b)
  /\ UNCHANGED <<providerVars, accountVars, refresher, grantVars, crashes>>

\* The flush of the INSERT waits for another one of the same address, and fails
\* when the address is taken.  A user just inserted has no connection to find.
CreateUser(b) ==
  LET s == sign[b] IN
  /\ At(b, "create_user")
  /\ s.user \notin lock
  /\ IF users[s.user] = "absent"
     THEN lock' = lock \cup {s.user} /\ Become(b, [s EXCEPT !.pc = "commit"])
     ELSE Finish(b) /\ UNCHANGED lock
  /\ UNCHANGED <<providerVars, users, connections, refresher, grantVars, crashes>>

ConnectionsOf(u, i) == {c \in connections : c.user = u /\ c.provider = i}

\* Mutant: the query goes first, and the user's row is not held.
FindConn_NoFlush(b) ==
  LET s == sign[b] IN
  /\ At(b, "find_conn")
  /\ \/ ConnectionsOf(s.user, s.id) = {} /\ Become(b, [s EXCEPT !.pc = "commit"])
     \/ \E c \in ConnectionsOf(s.user, s.id) :
          Become(b, [s EXCEPT !.pc = "commit", !.conn = c.id])
  /\ UNCHANGED <<providerVars, accountVars, refresher, grantVars, crashes>>

\* The flush updates the user's row: it waits for the row, and raises when the
\* row that was found is gone.  Then the connection is looked up; two would raise.
FindConn(b) ==
  LET s == sign[b]
      found == ConnectionsOf(s.user, s.id)
  IN
  /\ At(b, "find_conn")
  /\ s.user \notin lock
  /\ IF s.user = NoAccount \/ Cardinality(found) > 1
     THEN Finish(b) /\ UNCHANGED lock
     ELSE /\ lock' = lock \cup {s.user}
          /\ \/ found = {} /\ Become(b, [s EXCEPT !.pc = "commit"])
             \/ \E c \in found : Become(b, [s EXCEPT !.pc = "commit", !.conn = c.id])
  /\ UNCHANGED <<providerVars, users, connections, refresher, grantVars, crashes>>

\* Store the tokens in the connection found, or in a new one.
CommitSignIn(b) ==
  LET s == sign[b] IN
  /\ At(b, "commit")
  /\ users' = [users EXCEPT ![s.user] = IF @ = "absent" THEN "active" ELSE @]
  /\ connections' =
       IF s.conn = NoConn
       THEN connections \cup {[id |-> s.grant, user |-> s.user, provider |-> s.id,
                               token |-> s.token]}
       ELSE {IF c.id = s.conn THEN [c EXCEPT !.token = s.token] ELSE c : c \in connections}
  /\ cut' = cut \ {s.conn}
  /\ lock' = lock \ {s.user}
  /\ Finish(b)
  /\ UNCHANGED <<providerVars, refresher, issued, valid, crashes>>

-----------------------------------------------------------------------------
(* Administrators add, delete, disable and enable users *)

\* An address that is being inserted by a sign-in is waited for, one that exists fails.
AddUser(u) ==
  /\ Serving
  /\ u \notin lock /\ users[u] = "absent"
  /\ users' = [users EXCEPT ![u] = "active"]
  /\ UNCHANGED <<providerVars, lock, connections, sign, refresher, grantVars, crashes>>

\* A sign-in that has found the row and not yet changed it will find it gone.
DeleteUser(u) ==
  /\ Serving
  /\ u \notin lock /\ users[u] # "absent"
  /\ users' = [users EXCEPT ![u] = "absent"]
  /\ connections' = {c \in connections : c.user # u}
  /\ sign' = [b \in Browsers |-> IF At(b, "find_conn") /\ sign[b].user = u
                                 THEN [sign[b] EXCEPT !.user = NoAccount] ELSE sign[b]]
  /\ UNCHANGED <<providerVars, lock, refresher, grantVars, crashes>>

SetDisabled(u) ==
  /\ Serving
  /\ u \notin lock /\ users[u] # "absent"
  /\ users' = [users EXCEPT ![u] = IF @ = "active" THEN "disabled" ELSE "active"]
  /\ UNCHANGED <<providerVars, lock, connections, sign, refresher, grantVars, crashes>>

-----------------------------------------------------------------------------
(* The refresh task *)

StartCycle ==
  /\ boot.pc = "up"
  /\ refresher.pc = "idle"
  /\ refresher' = [refresher EXCEPT !.pc = "load",
                                    !.map = {i \in Ids : providers[i] # NoProvider}]
  /\ UNCHANGED <<providerVars, accountVars, sign, grantVars, crashes>>

\* Connections without a token are left out.
LoadConnections ==
  LET found == {c \in connections : c.token # NoToken} IN
  /\ refresher.pc = "load"
  /\ refresher' = IF found = {} THEN IdleRefresher
                  ELSE [refresher EXCEPT !.pc = "next", !.queue = found]
  /\ UNCHANGED <<providerVars, accountVars, sign, grantVars, crashes>>

\* Go on with the connections that are left, or end the cycle.
Rest(queue) == IF queue = {} THEN IdleRefresher
               ELSE [refresher EXCEPT !.pc = "next", !.queue = queue, !.conn = NoConn,
                                      !.used = NoToken, !.answer = NoToken, !.loaded = NoToken]

\* The provider is gone from the list, or has no token endpoint, or refuses.
SkipConnection(c) ==
  /\ refresher' = Rest(refresher.queue \ {c})
  /\ UNCHANGED grantVars

\* The token that was read is used.  The provider may answer with a new one, and
\* then no longer accepts the one it replaces; when it does not, authlib's
\* refresh_token puts the one that was used into the answer.
UseToken(c) ==
  /\ c.provider \in refresher.map
  /\ c.token \in valid
  /\ \E answer \in {issued + 1, c.token} :
       /\ answer # c.token => issued < MaxGrants
       /\ refresher' = [refresher EXCEPT !.pc = "get", !.queue = @ \ {c}, !.conn = c.id,
                                         !.used = c.token, !.answer = answer]
       /\ IF answer = c.token THEN UNCHANGED <<issued, valid>>
          ELSE issued' = answer /\ valid' = (valid \ {c.token}) \cup {answer}
  /\ UNCHANGED cut

\* The provider has replaced the token.
Replaced == refresher.answer # refresher.used

RefreshToken ==
  /\ refresher.pc = "next"
  /\ \E c \in refresher.queue : SkipConnection(c) \/ UseToken(c)
  /\ UNCHANGED <<providerVars, accountVars, sign, crashes>>

\* session.get: a connection that is gone is skipped.
GetConnection ==
  /\ refresher.pc = "get"
  /\ \/ \E c \in connections :
          /\ c.id = refresher.conn
          /\ refresher' = [refresher EXCEPT !.pc = "commit", !.loaded = c.token]
     \/ /\ \A c \in connections : c.id # refresher.conn
        /\ refresher' = Rest(refresher.queue)
  /\ UNCHANGED <<providerVars, accountVars, sign, grantVars, crashes>>

\* The answer does not arrive, or storing it fails.
LoseAnswer ==
  /\ refresher.pc \in {"get", "commit"}
  /\ cut' = cut \cup (IF Replaced THEN {refresher.conn} ELSE {})
  /\ refresher' = Rest(refresher.queue)
  /\ UNCHANGED <<providerVars, accountVars, sign, issued, valid, crashes>>

\* Mutant: the new token is not stored.
StoreToken_Forgotten(c) == c

\* c.refresh_token = new_token.get("refresh_token", ...): the column is written
\* when the answer's token is not the one that was loaded.
StoreToken(c) ==
  IF c.id = refresher.conn /\ refresher.answer # refresher.loaded
  THEN [c EXCEPT !.token = refresher.answer] ELSE c

\* The commit; it raises when the row is gone.
CommitRefresh ==
  /\ refresher.pc = "commit"
  /\ connections' = {StoreToken(c) : c \in connections}
  /\ cut' = cut \ (IF refresher.answer # refresher.loaded THEN {refresher.conn} ELSE {})
  /\ refresher' = Rest(refresher.queue)
  /\ UNCHANGED <<providerVars, users, lock, sign, issued, valid, crashes>>

-----------------------------------------------------------------------------

\* The process dies: transactions are rolled back, browsers at the provider stay there.
Crash ==
  /\ crashes < MaxCrashes
  /\ crashes' = crashes + 1
  /\ ProvidersCrash
  /\ lock' = {}
  /\ sign' = [b \in Browsers |-> IF At(b, "at_provider") THEN sign[b] ELSE NoSignIn]
  /\ refresher' = IdleRefresher
  /\ cut' = cut \cup (IF refresher.pc \in {"get", "commit"} /\ Replaced
                      THEN {refresher.conn} ELSE {})
  /\ UNCHANGED <<users, connections, issued, valid>>

SignInStep(b) ==
  \/ StartSignIn(b) \/ RedirectClient(b) \/ Callback(b) \/ CallbackClient(b) \/ Abandon(b)
  \/ Exchange(b) \/ ReadAuto(b) \/ FindUser(b) \/ CreateUser(b) \/ FindConn(b)
  \/ CommitSignIn(b)

RefresherStep ==
  \/ StartCycle \/ LoadConnections \/ RefreshToken \/ GetConnection \/ LoseAnswer
  \/ CommitRefresh

Next ==
  \/ ProvidersStep /\ UNCHANGED <<accountVars, sign, refresher, grantVars, crashes>>
  \/ \E b \in Browsers : SignInStep(b)
  \/ \E u \in Accounts : AddUser(u) \/ DeleteUser(u) \/ SetDisabled(u)
  \/ RefresherStep
  \/ Crash

Spec == Init /\ [][Next]_allVars

-----------------------------------------------------------------------------

\* A sign-in always uses the settings it has just read from the database:
\* whatever the registry kept, and whichever edits, deletions and other
\* sign-ins of the same provider fall between two steps
\* (get_client: "resolved from the database on every call").
ClientAsConfigured ==
  \A b \in Browsers : sign[b].pc \in {"at_provider", "exchange"} =>
    sign[b].client = sign[b].seen.client

\* get_client has read a row and yet ends without a client.
RefusedThough(b) ==
  /\ sign[b].pc \in {"redirect", "callback"} /\ sign[b].seen # NoProvider
  /\ sign'[b] # sign[b] /\ sign'[b].client = NoClient
  /\ boot'.pc # "down"

\* A configured provider is never refused as "not registered": the registry
\* always yields a client for a row that was read (get_client after a provider
\* was saved, edited, deleted or saved again while the process runs).
ConfiguredIsUsable ==
  [][\A b \in Browsers : ~ RefusedThough(b)]_allVars

\* A user never has two connections to one provider, which would make every
\* later callback of that user fail (oidc_callback: scalar_one_or_none), although
\* nothing in the table forbids it.
OneConnection ==
  \A c, d \in connections : c.user = d.user /\ c.provider = d.provider => c = d

\* The token stored for a connection is one the provider still accepts, or the
\* refresh task is about to store its successor, or that was lost on the way:
\* a refresh and a sign-in that overlap never leave a used-up token behind
\* (_refresh_all, oidc_callback).
StoredTokenAccepted ==
  \A c \in connections :
    \/ c.token \in valid \cup {NoToken}
    \/ c.id \in cut
    \/ refresher.pc \in {"get", "commit"} /\ refresher.conn = c.id /\ Replaced

=============================================================================
