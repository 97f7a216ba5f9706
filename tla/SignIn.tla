------------------------------- MODULE SignIn -------------------------------
(***************************************************************************)
(* Signing in with a password and a second factor (pages/login.py,         *)
(* pages/mfa_challenge.py), with a link sent by e-mail (auth_magic.py) and *)
(* with SAML (auth_saml.py), in the tabs of one browser, beside the        *)
(* account page and the administrators that change the accounts.           *)
(*                                                                         *)
(* The tabs share app.storage.user.  A handler gives way to the others at  *)
(* each database call, and keeps what it has read: the account whose       *)
(* password was right, the methods found, the row it is about to update.   *)
(* An update of a row that is gone raises, which ends the handler before   *)
(* it touches the storage.  Wrong passwords and codes change nothing.      *)
(***************************************************************************)
CONSTANTS Users,     \* accounts, by id: a deleted one does not come back
          Methods,   \* second factors
          Totp,      \* those of them that are codes of an authenticator
          Tabs,      \* pages of the browser
          NoUser

ASSUME SignInAssumption == NoUser \notin Users /\ Totp \subseteq Methods

VARIABLES status,    \* the users table: "new" (not yet there), "active", "disabled", "gone"
          mfa,       \* the mfa_methods table
          session,   \* last_signed_in_at against the session duration: "never", "valid", "over"
          links,     \* accounts with a link that has not expired
          storage,   \* app.storage.user and the cookie session of the browser
          tabs       \* local state of each page

accountVars == <<status, mfa, session, links>>
signInVars  == <<accountVars, storage, tabs>>

MaybeUser == Users \cup {NoUser}

\* kept and owed are ghosts: the codes among the methods the account has had
\* ever since its password was accepted, for the pending and the last sign-in.
Storage == [user: MaybeUser, pending: MaybeUser, handover: MaybeUser,
            kept: SUBSET Totp, owed: SUBSET Totp]
Tab == [pc: {"idle", "login", "password_ok", "update", "challenge_load", "challenge",
             "code_ok", "link", "saml"},
        user: MaybeUser, methods: SUBSET Methods, new: BOOLEAN, kept: SUBSET Totp]

SignInTypeOK ==
  /\ status \in [Users -> {"new", "active", "disabled", "gone"}]
  /\ mfa \in [Users -> SUBSET Methods]
  /\ session \in [Users -> {"never", "valid", "over"}]
  /\ links \subseteq Users
  /\ storage \in Storage
  /\ tabs \in [Tabs -> Tab]

EmptyStorage == [user |-> NoUser, pending |-> NoUser, handover |-> NoUser,
                 kept |-> {}, owed |-> {}]
Blank == [pc |-> "idle", user |-> NoUser, methods |-> {}, new |-> FALSE, kept |-> {}]

SignInInit ==
  /\ status \in [Users -> {"new", "active"}]
  /\ mfa = [u \in Users |-> {}]
  /\ session = [u \in Users |-> "never"]
  /\ links = {}
  /\ storage = EmptyStorage
  /\ tabs = [t \in Tabs |-> Blank]

At(t, pc)    == tabs[t].pc = pc
Become(t, p) == tabs' = [tabs EXCEPT ![t] = p]
Leave(t)     == Become(t, Blank)
Exists(u)    == status[u] \in {"active", "disabled"}

\* The browser is signed in to u.
SignedIn(u, owed) == [storage EXCEPT !.user = u, !.owed = owed]

\* The statement that sets last_signed_in_at, when the row is still there.
RecordSignIn(u) ==
  /\ Exists(u)
  /\ session' = [session EXCEPT ![u] = "valid"]
  /\ UNCHANGED <<status, mfa, links>>

\* The row the handler would update is gone: the handler ends with an exception.
RowGone(t) ==
  /\ \/ tabs[t].pc \in {"password_ok", "update", "link"}
     \/ At(t, "saml") /\ ~tabs[t].new
  /\ ~Exists(tabs[t].user)
  /\ Leave(t)
  /\ UNCHANGED <<accountVars, storage>>

-----------------------------------------------------------------------------
(* login_page *)

OpenLogin(t) ==
  /\ At(t, "idle")
  /\ storage.user = NoUser
  /\ Become(t, [Blank EXCEPT !.pc = "login"])
  /\ UNCHANGED <<accountVars, storage>>

\* authenticate_user: the right password of an account that is not disabled.
PasswordAccepted(t) ==
  /\ At(t, "login")
  /\ \E u \in Users :
       /\ status[u] = "active"
       /\ Become(t, [Blank EXCEPT !.pc = "password_ok", !.user = u, !.kept = mfa[u] \cap Totp])
  /\ UNCHANGED <<accountVars, storage>>

\* Mutant: only security keys are looked for, as in the query of start_webauthn.
ReadMethods_KeysOnly(t) ==
  /\ At(t, "password_ok")
  /\ Exists(tabs[t].user)
  /\ Become(t, [tabs[t] EXCEPT !.pc = "update", !.methods = mfa[tabs[t].user] \ Totp])
  /\ UNCHANGED <<accountVars, storage>>

\* The methods are read, and then the row of the user.
ReadMethods(t) ==
  /\ At(t, "password_ok")
  /\ Exists(tabs[t].user)
  /\ Become(t, [tabs[t] EXCEPT !.pc = "update", !.methods = mfa[tabs[t].user]])
  /\ UNCHANGED <<accountVars, storage>>

\* The time of the sign-in is stored, and the sign-in completed or left pending.
FinishLogin(t) ==
  LET u == tabs[t].user IN
  /\ At(t, "update")
  /\ RecordSignIn(u)
  /\ storage' = IF tabs[t].methods = {} THEN SignedIn(u, tabs[t].kept)
                ELSE [storage EXCEPT !.pending = u, !.kept = tabs[t].kept]
  /\ Leave(t)

-----------------------------------------------------------------------------
(* mfa_challenge_page *)

OpenChallenge(t) ==
  /\ At(t, "idle")
  /\ storage.pending # NoUser
  /\ Become(t, [Blank EXCEPT !.pc = "challenge_load", !.user = storage.pending,
                             !.kept = storage.kept])
  /\ UNCHANGED <<accountVars, storage>>

\* _complete_login
CompleteLogin(t, owed) ==
  /\ storage' = [SignedIn(tabs[t].user, owed) EXCEPT !.pending = NoUser, !.kept = {}]
  /\ Leave(t)

\* The methods are read once, when the page is built; without a code among them
\* the sign-in completes.
LoadChallenge(t) ==
  LET codes == mfa[tabs[t].user] \cap Totp IN
  /\ At(t, "challenge_load")
  /\ IF codes = {} THEN CompleteLogin(t, tabs[t].kept)
     ELSE Become(t, [tabs[t] EXCEPT !.pc = "challenge", !.methods = codes]) /\ UNCHANGED storage
  /\ UNCHANGED accountVars

\* verify_code: the code of one of the methods the page has read.
EnterCode(t) ==
  /\ At(t, "challenge")
  /\ \E m \in tabs[t].methods :
       Become(t, [tabs[t] EXCEPT !.pc = "code_ok", !.methods = {m}])
  /\ UNCHANGED <<accountVars, storage>>

\* Its last use is stored, unless its row is gone: gone before it is read it is
\* passed over, gone between the reading and the commit the handler ends.
CodeAccepted(t) ==
  /\ At(t, "code_ok")
  /\ \/ CompleteLogin(t, {})
     \/ ~(tabs[t].methods \subseteq mfa[tabs[t].user]) /\ Leave(t) /\ UNCHANGED storage
  /\ UNCHANGED accountVars

\* Cancel (_cancel_mfa) clears the storage, and so does Logout (layout).
Clear(t) ==
  /\ \/ At(t, "challenge")
     \/ At(t, "idle") /\ storage.user # NoUser
  /\ storage' = [EmptyStorage EXCEPT !.handover = storage.handover]
  /\ Leave(t)
  /\ UNCHANGED accountVars

\* The page is closed.
Close(t) ==
  /\ tabs[t].pc \in {"login", "challenge"}
  /\ Leave(t)
  /\ UNCHANGED <<accountVars, storage>>

-----------------------------------------------------------------------------
(* magic_link_request_page, magic_link_verify_page, saml_callback *)

RequestLink ==
  /\ \E u \in Users : status[u] = "active" /\ links' = links \cup {u}
  /\ UNCHANGED <<status, mfa, session, storage, tabs>>

\* Fifteen minutes after the last one was sent.
LinkExpires ==
  /\ \E u \in links : links' = links \ {u}
  /\ UNCHANGED <<status, mfa, session, storage, tabs>>

\* The token is good and the row is read.
OpenLink(t) ==
  /\ At(t, "idle")
  /\ \E u \in links : status[u] = "active" /\ Become(t, [Blank EXCEPT !.pc = "link", !.user = u])
  /\ UNCHANGED <<accountVars, storage>>

FinishLink(t) ==
  /\ At(t, "link")
  /\ RecordSignIn(tabs[t].user)
  /\ storage' = SignedIn(tabs[t].user, {})
  /\ Leave(t)

\* The answer names an account; one that is not there may be created.
SamlCallback(t) ==
  /\ At(t, "idle")
  /\ \E u \in Users :
       /\ status[u] \in {"new", "active"}
       /\ Become(t, [Blank EXCEPT !.pc = "saml", !.user = u, !.new = status[u] = "new"])
  /\ UNCHANGED <<accountVars, storage>>

\* The commit; an insert fails when the address has come into use.
FinishSaml(t) ==
  LET u == tabs[t].user IN
  /\ At(t, "saml")
  /\ IF tabs[t].new
     THEN \/ /\ status[u] = "new"
             /\ status' = [status EXCEPT ![u] = "active"]
             /\ session' = [session EXCEPT ![u] = "valid"]
             /\ storage' = [storage EXCEPT !.handover = u]
             /\ UNCHANGED <<mfa, links>>
          \/ status[u] # "new" /\ UNCHANGED <<accountVars, storage>>
     ELSE RecordSignIn(u) /\ storage' = [storage EXCEPT !.handover = u]
  /\ Leave(t)

\* auth_complete_page moves the account from the cookie to the storage.
AuthComplete(t) ==
  /\ At(t, "idle")
  /\ storage.handover # NoUser
  /\ storage' = [SignedIn(storage.handover, {}) EXCEPT !.handover = NoUser]
  /\ UNCHANGED <<accountVars, tabs>>

-----------------------------------------------------------------------------
(* The account page and the administrators *)

\* Ghost: u no longer has the methods M.
Forget(u, M) ==
  /\ tabs' = [t \in Tabs |-> IF tabs[t].user = u THEN [tabs[t] EXCEPT !.kept = @ \ M]
                             ELSE tabs[t]]
  /\ storage' = IF storage.pending = u THEN [storage EXCEPT !.kept = @ \ M] ELSE storage

\* A TOTP method whose first code was right, or a security key.
AddMethod ==
  /\ \E u \in Users, m \in Methods :
       Exists(u) /\ m \notin mfa[u] /\ mfa' = [mfa EXCEPT ![u] = @ \cup {m}]
  /\ UNCHANGED <<status, session, links, storage, tabs>>

RemoveMethod ==
  /\ \E u \in Users : \E m \in mfa[u] :
       mfa' = [mfa EXCEPT ![u] = @ \ {m}] /\ Forget(u, {m})
  /\ UNCHANGED <<status, session, links>>

CreateUser ==
  /\ \E u \in Users : status[u] = "new" /\ status' = [status EXCEPT ![u] = "active"]
  /\ UNCHANGED <<mfa, session, links, storage, tabs>>

\* The switch in the administrators' form, or disabled_at through the REST API.
SetDisabled ==
  /\ \E u \in Users, s \in {"active", "disabled"} :
       Exists(u) /\ status[u] # s /\ status' = [status EXCEPT ![u] = s]
  /\ UNCHANGED <<mfa, session, links, storage, tabs>>

\* By an administrator: the row and, by cascade, its methods; browsers stay signed in.
DeleteUser(u) ==
  /\ Exists(u)
  /\ status' = [status EXCEPT ![u] = "gone"]
  /\ mfa' = [mfa EXCEPT ![u] = {}]
  /\ session' = [session EXCEPT ![u] = "never"]
  /\ Forget(u, Methods)
  /\ UNCHANGED links

TabStep(t) ==
  \/ OpenLogin(t) \/ PasswordAccepted(t) \/ ReadMethods(t) \/ FinishLogin(t) \/ RowGone(t)
  \/ OpenChallenge(t) \/ LoadChallenge(t) \/ EnterCode(t) \/ CodeAccepted(t)
  \/ Clear(t) \/ Close(t)
  \/ OpenLink(t) \/ FinishLink(t) \/ SamlCallback(t) \/ FinishSaml(t) \/ AuthComplete(t)

AccountStep ==
  RequestLink \/ LinkExpires \/ AddMethod \/ RemoveMethod \/ CreateUser \/ SetDisabled

-----------------------------------------------------------------------------
(* However the tabs of the browser and changes to the account interleave, a *)
(* sign-in with a password that asked for no code was to an account none of *)
(* whose authenticators it has had since the password was accepted          *)
(* (try_login, mfa_challenge_page).                                         *)
SecondFactorAsked == storage.owed = {}

=============================================================================
