------------------------------ MODULE Accounts ------------------------------
(***************************************************************************)
(* The accounts, their roles and who may change them: the account page, on *)
(* which users delete their own account (pages/account.py), the users page *)
(* of the administrators (pages/admin/users.py), the REST API with its     *)
(* tokens (api/v0/users.py, api/deps.py, auth/api_token.py), and the       *)
(* administrator that startup creates in an empty table (auth/seed.py).    *)
(*                                                                         *)
(* A page acts on what it has read when it was built, and with the role    *)
(* the browser was given at sign-in; an API call reads the account it acts *)
(* for each time.  A handler that loads a row, changes it and commits is   *)
(* one step: only the columns it changed are written, and a row deleted    *)
(* meanwhile makes the commit fail, as if the handler had come too late.   *)
(***************************************************************************)
EXTENDS Naturals, FiniteSets

CONSTANTS Users,        \* accounts, by id: a deleted one does not come back
          Browsers,
          Tokens,       \* API tokens, by id
          Calls,        \* API calls that may be under way at once
          Nobody,       \* not an account
          MaxRestarts   \* bound: restarts of the process

VARIABLES users,        \* the users table: an Account for each id in it
          born,         \* ids given so far
          tokens,       \* the api_tokens table: the owner of each token in it
          expired,      \* tokens past expires_at
          session,      \* app.storage.user of each browser: account and role
          page,         \* what each browser shows: "none", "counting", "account", "edit"
          call,         \* how far each API call is: "none", "token", "admin"
          phase,        \* "starting", "seeding" or "up"
          restarts

vars == <<users, born, tokens, expired, session, page, call, phase, restarts>>

Roles   == {"admin", "unprivileged"}
Account == [role : Roles, enabled : BOOLEAN]

\* Administrators, enabled or not.
Admins == {u \in DOMAIN users : users[u].role = "admin"}

SignedOut == [user |-> Nobody, role |-> "unprivileged"]
NoPage    == [at |-> "none", user |-> Nobody, isAdmin |-> FALSE, isOnlyAdmin |-> FALSE]
NoCall    == [at |-> "none", user |-> Nobody]

Init ==
  /\ users = <<>> /\ born = {}
  /\ tokens = <<>> /\ expired = {}
  /\ session = [b \in Browsers |-> SignedOut]
  /\ page = [b \in Browsers |-> NoPage]
  /\ call = [c \in Calls |-> NoCall]
  /\ phase = "starting" /\ restarts = 0

Show(b, p) == page' = [page EXCEPT ![b] = p]

-----------------------------------------------------------------------------
(* Changes of the tables *)

Add(role) ==
  \E u \in Users \ born :
    /\ users' = [v \in DOMAIN users \cup {u} |->
                   IF v = u THEN [role |-> role, enabled |-> TRUE] ELSE users[v]]
    /\ born' = born \cup {u}

Write(u, row) == u \in DOMAIN users /\ users' = [users EXCEPT ![u] = row]

\* delete_user_and_cleanup: the deletion cascades to the tokens.
Remove(u) ==
  /\ users' = [v \in DOMAIN users \ {u} |-> users[v]]
  /\ tokens' = [t \in {t \in DOMAIN tokens : tokens[t] # u} |-> tokens[t]]

-----------------------------------------------------------------------------
(* Startup: requests are served while it runs *)

\* seed_admin: is there a user?
LookForUsers ==
  /\ phase = "starting"
  /\ phase' = IF users = <<>> THEN "seeding" ELSE "up"
  /\ UNCHANGED <<users, born, tokens, expired, session, page, call, restarts>>

SeedAdmin ==
  /\ phase = "seeding"
  /\ Add("admin")
  /\ phase' = "up"
  /\ UNCHANGED <<tokens, expired, session, page, call, restarts>>

\* The browsers keep their storage; pages and calls are gone.
Restart ==
  /\ restarts < MaxRestarts /\ restarts' = restarts + 1
  /\ phase' = "starting"
  /\ page' = [b \in Browsers |-> NoPage]
  /\ call' = [c \in Calls |-> NoCall]
  /\ UNCHANGED <<users, born, tokens, expired, session>>

-----------------------------------------------------------------------------
(* Browsers *)

\* Signing in records the role the account has now.
Login(b) ==
  /\ session[b] = SignedOut
  /\ \E u \in DOMAIN users :
       /\ users[u].enabled
       /\ session' = [session EXCEPT ![b] = [user |-> u, role |-> users[u].role]]
  /\ UNCHANGED <<users, born, tokens, expired, page, call, phase, restarts>>

Logout(b) ==
  /\ session[b] # SignedOut
  /\ session' = [session EXCEPT ![b] = SignedOut]
  /\ Show(b, NoPage)
  /\ UNCHANGED <<users, born, tokens, expired, call, phase, restarts>>

\* account_page reads the user; without one the page is an error.
OpenAccount(b) ==
  LET u == session[b].user IN
  /\ u \in DOMAIN users
  /\ Show(b, [at |-> "counting", user |-> u, isAdmin |-> users[u].role = "admin",
              isOnlyAdmin |-> FALSE])
  /\ UNCHANGED <<users, born, tokens, expired, session, call, phase, restarts>>

\* Further down it counts the administrators.
CountAdmins(b) ==
  /\ page[b].at = "counting"
  /\ Show(b, [page[b] EXCEPT !.at = "account",
                             !.isOnlyAdmin = page[b].isAdmin /\ Cardinality(Admins) <= 1])
  /\ UNCHANGED <<users, born, tokens, expired, session, call, phase, restarts>>

\* do_del: the button was enabled when the page was built.  An account that is
\* gone by now only ends the session.
DeleteOwnAccount(b) ==
  LET u == page[b].user IN
  /\ page[b].at = "account" /\ ~page[b].isOnlyAdmin
  /\ IF u \in DOMAIN users THEN Remove(u) ELSE UNCHANGED <<users, tokens>>
  /\ session' = [session EXCEPT ![b] = SignedOut]
  /\ Show(b, NoPage)
  /\ UNCHANGED <<born, expired, call, phase, restarts>>

\* create_token fails on the foreign key when the account is gone.
CreateToken(b) ==
  /\ page[b].at = "account" /\ page[b].user \in DOMAIN users
  /\ \E t \in Tokens \ (DOMAIN tokens \cup expired) :
       tokens' = [s \in DOMAIN tokens \cup {t} |-> IF s = t THEN page[b].user ELSE tokens[s]]
  /\ UNCHANGED <<users, born, expired, session, page, call, phase, restarts>>

\* delete_token leaves the tokens of others alone.
DeleteToken(b) ==
  /\ page[b].at = "account"
  /\ \E t \in DOMAIN tokens :
       /\ tokens[t] = page[b].user
       /\ tokens' = [s \in DOMAIN tokens \ {t} |-> tokens[s]]
  /\ UNCHANGED <<users, born, expired, session, page, call, phase, restarts>>

-----------------------------------------------------------------------------
(* The users page: _guard goes by the role in the browser's storage *)

CreateUser(b) ==
  /\ session[b].role = "admin"
  /\ \E role \in Roles : Add(role)
  /\ UNCHANGED <<tokens, expired, session, page, call, phase, restarts>>

OpenEdit(b) ==
  /\ session[b].role = "admin"
  /\ \E u \in DOMAIN users : Show(b, [NoPage EXCEPT !.at = "edit", !.user = u])
  /\ UNCHANGED <<users, born, tokens, expired, session, call, phase, restarts>>

\* save_edit writes what the form says, on one's own account too.
SaveEdit(b) ==
  /\ page[b].at = "edit"
  /\ \E row \in Account : Write(page[b].user, row)
  /\ Show(b, NoPage)
  /\ UNCHANGED <<born, tokens, expired, session, call, phase, restarts>>

\* delete_user: any account but one's own.
DeleteUser(b) ==
  /\ session[b].role = "admin"
  /\ \E u \in DOMAIN users \ {session[b].user} : Remove(u)
  /\ UNCHANGED <<born, expired, session, page, call, phase, restarts>>

-----------------------------------------------------------------------------
(* The REST API *)

TokenExpires ==
  /\ \E t \in DOMAIN tokens \ expired : expired' = expired \cup {t}
  /\ UNCHANGED <<users, born, tokens, session, page, call, phase, restarts>>

\* resolve_bearer_token finds the token, and it has not expired; other calls are
\* answered 401.
FindToken(c) ==
  /\ call[c] = NoCall
  /\ \E t \in DOMAIN tokens \ expired :
       call' = [call EXCEPT ![c] = [at |-> "token", user |-> tokens[t]]]
  /\ UNCHANGED <<users, born, tokens, expired, session, page, phase, restarts>>

\* It reads the account: one that is gone or disabled is answered 401, and
\* require_admin answers 403 to all but administrators.
FindCaller(c) ==
  LET u == call[c].user IN
  /\ call[c].at = "token"
  /\ call' = [call EXCEPT ![c] = IF u \in Admins /\ users[u].enabled
                                 THEN [at |-> "admin", user |-> u] ELSE NoCall]
  /\ UNCHANGED <<users, born, tokens, expired, session, page, phase, restarts>>

\* create_user, update_user or delete_user, of any account; a read, or an account
\* that does not exist, changes nothing.
Serve(c) ==
  /\ call[c].at = "admin"
  /\ \/ \E role \in Roles : Add(role) /\ UNCHANGED tokens
     \/ \E u \in Users, row \in Account : Write(u, row) /\ UNCHANGED <<born, tokens>>
     \/ \E u \in DOMAIN users : Remove(u) /\ UNCHANGED born
     \/ UNCHANGED <<users, born, tokens>>
  /\ call' = [call EXCEPT ![c] = NoCall]
  /\ UNCHANGED <<expired, session, page, phase, restarts>>

-----------------------------------------------------------------------------

BrowserStep(b) ==
  \/ Login(b) \/ Logout(b) \/ OpenAccount(b) \/ CountAdmins(b) \/ DeleteOwnAccount(b)
  \/ CreateToken(b) \/ DeleteToken(b) \/ CreateUser(b) \/ OpenEdit(b) \/ SaveEdit(b)
  \/ DeleteUser(b)

Next ==
  \/ LookForUsers \/ SeedAdmin \/ Restart
  \/ \E b \in Browsers : BrowserStep(b)
  \/ TokenExpires
  \/ \E c \in Calls : FindToken(c) \/ FindCaller(c) \/ Serve(c)

Spec == Init /\ [][Next]_vars

-----------------------------------------------------------------------------

\* "You are the only admin -- account deletion is disabled": nobody who is the
\* only administrator deletes the account from the account page (account_page,
\* confirm_delete, do_del).
OnlyAdminStays ==
  [][\A b \in Browsers : DeleteOwnAccount(b) => Admins # {page[b].user}]_vars

=============================================================================
