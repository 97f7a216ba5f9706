----------------------------- MODULE OidcProofs ------------------------------
(***************************************************************************)
(* What OidcSignIn guarantees, for any numbers of providers, users,        *)
(* sign-ins, settings pages, grants and crashes, and whether or not        *)
(* requests are served while startup() runs.                               *)
(*                                                                         *)
(* TypeOK is inductive together with Held and RefreshHeld: a sign-in, or   *)
(* the refresh task, that will write to the database holds what it writes. *)
(***************************************************************************)
EXTENDS OidcSignIn, TLAPS

\* Steps at which the provider has issued a grant that is not yet stored.
Pending == {"auto", "find_user", "create_user", "find_conn", "commit"}

HeldBy(s) ==
  /\ s.pc \in Pending => s.grant \in Grants
  /\ s.pc \in Pending \ {"find_conn"} => s.user \in Accounts

Held == \A b \in Browsers : HeldBy(sign[b])

RefreshHeld == refresher.pc \in {"get", "commit"} => refresher.conn \in Grants

TypeInv == TypeOK /\ Held /\ RefreshHeld

\* A registry entry keeps its type and yields a client.
LEMMA EntryType ==
  ASSUME NEW e \in Entry, NEW p \in Provider
  PROVE  Register(e, p) \in Entry /\ Build(Register(e, p)) \in Entry
BY DEF Build, Register, Evict, Fingerprint, Entry, MaybeClient, Provider

LEMMA IdlePageType == IdlePage \in [pc: {"idle", "commit", "unregister"}, id: Ids,
                                    row: Provider \cup {NoProvider}, list: List]
<1>1. (CHOOSE i \in Ids : TRUE) \in Ids
  BY OidcProvidersAssumption
<1>2. NoProviders \in List
  BY DEF NoProviders, List
<1> QED
  BY <1>1, <1>2 DEF IdlePage

LEMMA NoSignInType == NoSignIn \in SignIn /\ HeldBy(NoSignIn) /\ NoSignIn.pc = "idle"
<1>1. (CHOOSE i \in Ids : TRUE) \in Ids
  BY OidcProvidersAssumption
<1>2. 0 \in 0..MaxGrants
  BY OidcSignInAssumption
<1> QED
  BY <1>1, <1>2 DEF NoSignIn, SignIn, HeldBy, Pending, MaybeClient, MaybeToken

LEMMA IdleRefresherType == IdleRefresher \in Refresher /\ IdleRefresher.pc = "idle"
BY DEF IdleRefresher, Refresher, MaybeToken

LEMMA RestType ==
  ASSUME refresher \in Refresher, NEW q \in SUBSET Connection
  PROVE  Rest(q) \in Refresher /\ Rest(q).pc \in {"idle", "next"}
BY IdleRefresherType DEF Rest, Refresher, MaybeToken

\* The initial state is typed.
LEMMA TypeInit == Init => TypeInv
<1> SUFFICES ASSUME Init PROVE TypeInv
  OBVIOUS
<1>1. NoProviders \in List
  BY DEF NoProviders, List
<1>2. EmptyReg \in [Ids -> Entry]
  BY DEF EmptyReg, Unregistered, Entry, MaybeClient
<1>3. ProvidersTypeOK
  BY <1>1, <1>2, IdlePageType DEF Init, ProvidersInit, ProvidersTypeOK
<1>4. sign \in [Browsers -> SignIn] /\ Held
  BY NoSignInType DEF Init, Held
<1>5. issued \in 0..MaxGrants /\ crashes \in 0..MaxCrashes
  BY OidcSignInAssumption DEF Init
<1>6. users \in [Accounts -> {"absent", "active", "disabled"}]
  BY DEF Init
<1> QED
  BY <1>3, <1>4, <1>5, <1>6, IdleRefresherType
     DEF Init, TypeInv, TypeOK, RefreshHeld, IdleRefresher

\* A sign-in that becomes a typed record leaves all sign-ins typed.
LEMMA BecomeType ==
  ASSUME sign \in [Browsers -> SignIn], Held,
         NEW b \in Browsers, NEW s \in SignIn, HeldBy(s), Become(b, s)
  PROVE  sign' \in [Browsers -> SignIn] /\ Held'
BY DEF Become, Held, HeldBy

LEMMA FinishType ==
  ASSUME sign \in [Browsers -> SignIn], Held, NEW b \in Browsers, Finish(b)
  PROVE  sign' \in [Browsers -> SignIn] /\ Held'
BY NoSignInType, BecomeType DEF Finish

-----------------------------------------------------------------------------
(* Providers *)

LEMMA StoredType ==
  ASSUME providers \in List, NEW old \in List, NEW new \in List
  PROVE  Stored(old, new) \subseteq List
BY DEF Stored

LEMMA TypeProviders ==
  ASSUME ProvidersTypeOK, ProvidersStep
  PROVE  ProvidersTypeOK'
<1> USE DEF ProvidersTypeOK
<1>0. NoProviders \in List /\ File \in List
  BY OidcProvidersAssumption DEF NoProviders, List
<1>1. ASSUME NEW a \in Admins, StartEdit(a) PROVE ProvidersTypeOK'
  BY <1>1, OidcProvidersAssumption DEF StartEdit
<1>2. ASSUME NEW a \in Admins, CommitEdit(a) PROVE ProvidersTypeOK'
  <2>1. [admin[a].list EXCEPT ![admin[a].id] = admin[a].row] \in List
    BY DEF List
  <2>2. providers' \in List
    BY <1>2, <2>1, StoredType DEF CommitEdit
  <2>3. [IdlePage EXCEPT !.pc = "unregister", !.id = admin[a].id]
          \in [pc: {"idle", "commit", "unregister"}, id: Ids,
               row: Provider \cup {NoProvider}, list: List]
    BY IdlePageType
  <2> QED
    BY <1>2, <2>2, <2>3, IdlePageType DEF CommitEdit
<1>3. ASSUME NEW a \in Admins, Unregister(a) PROVE ProvidersTypeOK'
  BY <1>3, IdlePageType DEF Unregister, Unregistered, Entry, MaybeClient
<1>4. CASE StartUp
  BY <1>4 DEF StartUp
<1>5. CASE SeedRead
  BY <1>5 DEF SeedRead
<1>6. CASE SeedCommit
  <2>1. Upsert(boot.list) \in List
    BY <1>0 DEF Upsert, List
  <2>2. providers' \in List
    BY <1>6, <2>1, StoredType DEF SeedCommit
  <2> QED
    BY <1>0, <1>6, <2>2 DEF SeedCommit
<1>7. CASE LoadProviders
  BY <1>7 DEF LoadProviders
<1>8. CASE RegisterProviders
  <2>1. ASSUME NEW i \in Ids, boot.list[i] # NoProvider
        PROVE  Register(reg[i], boot.list[i]) \in Entry
    <3>1. boot.list[i] \in Provider /\ reg[i] \in Entry
      BY <2>1 DEF List
    <3> QED
      BY <3>1, EntryType
  <2> QED
    BY <1>0, <1>8, <2>1 DEF RegisterProviders
<1> QED
  BY <1>1, <1>2, <1>3, <1>4, <1>5, <1>6, <1>7, <1>8 DEF ProvidersStep

-----------------------------------------------------------------------------
(* Sign-ins *)

\* What get_client leaves in the registry and in the sign-in.
LEMMA TypeGetClient ==
  ASSUME TypeInv, NEW b \in Browsers, NEW next \in {"at_provider", "exchange"}, GetClient(b, next)
  PROVE  reg' \in [Ids -> Entry] /\ sign' \in [Browsers -> SignIn] /\ Held'
<1> DEFINE s == sign[b]
           e == Build(Register(reg[s.id], s.seen))
<1>1. s \in SignIn /\ reg \in [Ids -> Entry] /\ s.id \in Ids
  BY DEF TypeInv, TypeOK, RefreshHeld, ProvidersTypeOK, SignIn
<1>2. CASE s.seen = NoProvider
  BY <1>1, <1>2, FinishType DEF GetClient, TypeInv, TypeOK
<1>3. CASE s.seen # NoProvider
  <2>1. s.seen \in Provider /\ reg[s.id] \in Entry
    BY <1>1, <1>3 DEF SignIn
  <2>2. e \in Entry
    BY <2>1, EntryType
  <2>3. reg' \in [Ids -> Entry]
    BY <1>1, <1>3, <2>2 DEF GetClient
  <2>4. [s EXCEPT !.pc = next, !.client = e.client] \in SignIn
    BY <1>1, <2>2 DEF SignIn, Entry
  <2>5. HeldBy([s EXCEPT !.pc = next, !.client = e.client])
    BY <1>1 DEF HeldBy, Pending, SignIn
  <2>6. Finish(b) \/ Become(b, [s EXCEPT !.pc = next, !.client = e.client])
    BY <1>3 DEF GetClient
  <2> QED
    BY <2>3, <2>4, <2>5, <2>6, BecomeType, FinishType DEF TypeInv, TypeOK
<1> QED
  BY <1>2, <1>3

LEMMA TypeSignInStep ==
  ASSUME TypeInv, NEW b \in Browsers, SignInStep(b)
  PROVE  TypeInv'
<1> DEFINE s == sign[b]
           SignTyped == sign' \in [Browsers -> SignIn] /\ Held'
<1>0. /\ s \in SignIn /\ HeldBy(s) /\ providers \in [Ids -> Provider \cup {NoProvider}]
      /\ sign \in [Browsers -> SignIn] /\ Held
      /\ issued \in 0..MaxGrants /\ MaxGrants \in Nat
  BY OidcSignInAssumption DEF TypeInv, TypeOK, RefreshHeld, ProvidersTypeOK, Held, List
<1>1. CASE StartSignIn(b)
  <2>1. PICK i \in Ids :
          Become(b, [NoSignIn EXCEPT !.pc = "redirect", !.id = i, !.seen = providers[i]])
    BY <1>1 DEF StartSignIn
  <2>2. [NoSignIn EXCEPT !.pc = "redirect", !.id = i, !.seen = providers[i]] \in SignIn
    BY <1>0, NoSignInType DEF SignIn
  <2>3. HeldBy([NoSignIn EXCEPT !.pc = "redirect", !.id = i, !.seen = providers[i]])
    BY NoSignInType DEF HeldBy, Pending, SignIn
  <2>4. SignTyped
    BY <1>0, <2>1, <2>2, <2>3, BecomeType
  <2> QED
    BY <1>1, <2>4 DEF StartSignIn, TypeInv, TypeOK, RefreshHeld, ProvidersTypeOK, providerVars, accountVars, grantVars
<1>2. CASE RedirectClient(b) \/ CallbackClient(b)
  <2>1. reg' \in [Ids -> Entry] /\ SignTyped
    BY <1>2, TypeGetClient DEF RedirectClient, CallbackClient
  <2> QED
    BY <1>2, <2>1 DEF RedirectClient, CallbackClient, GetClient, TypeInv, TypeOK, RefreshHeld, ProvidersTypeOK,
                      accountVars, grantVars
<1>3. CASE Callback(b)
  <2> DEFINE new == [s EXCEPT !.pc = "callback", !.seen = providers[s.id], !.client = NoClient]
  <2>1. new \in SignIn /\ HeldBy(new)
    BY <1>0 DEF SignIn, HeldBy, Pending, MaybeClient
  <2>2. SignTyped
    BY <1>0, <1>3, <2>1, BecomeType DEF Callback
  <2> QED
    BY <1>3, <2>2 DEF Callback, TypeInv, TypeOK, RefreshHeld, ProvidersTypeOK, providerVars, accountVars, grantVars
<1>4. CASE Abandon(b)
  <2>1. SignTyped
    BY <1>0, <1>4, FinishType DEF Abandon
  <2> QED
    BY <1>4, <2>1 DEF Abandon, TypeInv, TypeOK, RefreshHeld, ProvidersTypeOK, providerVars, accountVars, grantVars
<1>5. CASE Exchange(b)
  <2> DEFINE new(u, token) == [NoSignIn EXCEPT !.pc = "auto", !.id = s.id, !.user = u,
                                               !.grant = issued + 1, !.token = token]
  <2>1. issued' \in 0..MaxGrants /\ issued + 1 \in Grants /\ issued + 1 \in 0..MaxGrants
    BY <1>0, <1>5 DEF Exchange, Grants
  <2>2. PICK u \in Accounts, token \in {issued + 1, NoToken} :
          Become(b, new(u, token)) /\ valid' = valid \cup ({token} \ {NoToken})
    BY <1>5 DEF Exchange
  <2>3. new(u, token) \in SignIn
    BY <1>0, <2>1, NoSignInType DEF SignIn, MaybeToken
  <2>4. HeldBy(new(u, token))
    BY <2>1, NoSignInType DEF HeldBy, Pending, SignIn
  <2> HIDE DEF new
  <2>5. SignTyped
    BY <1>0, <2>2, <2>3, <2>4, BecomeType
  <2>6. valid' \subseteq Grants
    BY <2>1, <2>2 DEF TypeInv, TypeOK
  <2> QED
    BY <1>5, <2>1, <2>5, <2>6 DEF Exchange, TypeInv, TypeOK, RefreshHeld, ProvidersTypeOK, providerVars, accountVars
<1>6. CASE ReadAuto(b)
  <2> DEFINE p == providers[s.id]
             new == [s EXCEPT !.pc = "find_user", !.auto = IF p = NoProvider THEN FALSE ELSE p.auto]
  <2>1. (IF p = NoProvider THEN FALSE ELSE p.auto) \in BOOLEAN
    BY <1>0 DEF SignIn, Provider
  <2>2. new \in SignIn
    BY <1>0, <2>1 DEF SignIn
  <2>3. HeldBy(new)
    BY <1>0, <1>6 DEF ReadAuto, At, HeldBy, Pending, SignIn
  <2>4. SignTyped
    BY <1>0, <1>6, <2>2, <2>3, BecomeType DEF ReadAuto
  <2> QED
    BY <1>6, <2>4 DEF ReadAuto, TypeInv, TypeOK, RefreshHeld, ProvidersTypeOK, providerVars, accountVars, grantVars
<1>7. CASE FindUser(b)
  <2>1. [s EXCEPT !.pc = "find_conn", !.auto = FALSE] \in SignIn
        /\ [s EXCEPT !.pc = "create_user", !.auto = FALSE] \in SignIn
    BY <1>0 DEF SignIn
  <2>2. HeldBy([s EXCEPT !.pc = "find_conn", !.auto = FALSE])
        /\ HeldBy([s EXCEPT !.pc = "create_user", !.auto = FALSE])
    BY <1>0, <1>7 DEF FindUser, At, HeldBy, Pending, SignIn
  <2>3. \/ Finish(b)
        \/ Become(b, [s EXCEPT !.pc = "find_conn", !.auto = FALSE])
        \/ Become(b, [s EXCEPT !.pc = "create_user", !.auto = FALSE])
    BY <1>7 DEF FindUser
  <2>4. SignTyped
    BY <1>0, <2>1, <2>2, <2>3, BecomeType, FinishType
  <2> QED
    BY <1>7, <2>4 DEF FindUser, TypeInv, TypeOK, RefreshHeld, ProvidersTypeOK, providerVars, accountVars, grantVars
<1>8. CASE CreateUser(b)
  <2>1. s.user \in Accounts
    BY <1>0, <1>8 DEF CreateUser, At, HeldBy, Pending
  <2>2. [s EXCEPT !.pc = "commit"] \in SignIn /\ HeldBy([s EXCEPT !.pc = "commit"])
    BY <1>0, <1>8 DEF CreateUser, At, HeldBy, Pending, SignIn
  <2>3. SignTyped
    BY <1>0, <1>8, <2>2, BecomeType, FinishType DEF CreateUser
  <2> QED
    BY <1>8, <2>1, <2>3 DEF CreateUser, TypeInv, TypeOK, RefreshHeld, ProvidersTypeOK, providerVars, grantVars
<1>9. CASE FindConn(b)
  <2> DEFINE new(c) == [s EXCEPT !.pc = "commit", !.conn = c]
  <2>1. ASSUME s.user # NoAccount PROVE s.user \in Accounts
    BY <1>0, <2>1 DEF SignIn
  <2>2. [s EXCEPT !.pc = "commit"] \in SignIn
    BY <1>0 DEF SignIn
  <2>3. ASSUME NEW c \in ConnectionsOf(s.user, s.id) PROVE new(c.id) \in SignIn
    <3>1. c.id \in Grants
      BY DEF ConnectionsOf, TypeInv, TypeOK, Connection
    <3> QED
      BY <1>0, <3>1 DEF SignIn
  <2>4. ASSUME s.user # NoAccount PROVE HeldBy([s EXCEPT !.pc = "commit"])
    BY <1>0, <1>9, <2>1, <2>4 DEF FindConn, At, HeldBy, Pending, SignIn
  <2>5. ASSUME s.user # NoAccount, NEW c PROVE HeldBy(new(c))
    BY <1>0, <1>9, <2>1, <2>5 DEF FindConn, At, HeldBy, Pending, SignIn
  <2>6. \/ Finish(b)
        \/ s.user # NoAccount /\ Become(b, [s EXCEPT !.pc = "commit"])
        \/ s.user # NoAccount /\ \E c \in ConnectionsOf(s.user, s.id) : Become(b, new(c.id))
    BY <1>9 DEF FindConn
  <2> HIDE DEF new
  <2>7. SignTyped
    BY <1>0, <2>2, <2>3, <2>4, <2>5, <2>6, BecomeType, FinishType
  <2>8. lock' \subseteq Accounts
    BY <1>9, <2>1 DEF FindConn, TypeInv, TypeOK
  <2> QED
    BY <1>9, <2>7, <2>8 DEF FindConn, TypeInv, TypeOK, RefreshHeld, ProvidersTypeOK, providerVars, grantVars
<1>10. CASE CommitSignIn(b)
  <2>1. s.user \in Accounts /\ s.grant \in Grants
    BY <1>0, <1>10 DEF CommitSignIn, At, HeldBy, Pending
  <2>2. SignTyped
    BY <1>0, <1>10, FinishType DEF CommitSignIn
  <2>3. connections' \subseteq Connection
    <3>1. [id |-> s.grant, user |-> s.user, provider |-> s.id, token |-> s.token] \in Connection
      BY <1>0, <2>1 DEF SignIn, Connection
    <3>2. \A c \in connections : [c EXCEPT !.token = s.token] \in Connection
      BY <1>0 DEF TypeInv, TypeOK, SignIn, Connection
    <3> QED
      BY <1>10, <3>1, <3>2 DEF CommitSignIn, TypeInv, TypeOK
  <2>4. users' \in [Accounts -> {"absent", "active", "disabled"}]
    BY <1>10, <2>1 DEF CommitSignIn, TypeInv, TypeOK
  <2>5. lock' \subseteq Accounts /\ cut' \subseteq Grants
    BY <1>10 DEF CommitSignIn, TypeInv, TypeOK
  <2> QED
    BY <1>10, <2>2, <2>3, <2>4, <2>5 DEF CommitSignIn, TypeInv, TypeOK, RefreshHeld, ProvidersTypeOK, providerVars
<1> QED
  BY <1>1, <1>2, <1>3, <1>4, <1>5, <1>6, <1>7, <1>8, <1>9, <1>10 DEF SignInStep

-----------------------------------------------------------------------------
(* Administrators, the refresh task and the end of the process *)

LEMMA TypeUsers ==
  ASSUME TypeInv, NEW u \in Accounts, AddUser(u) \/ DeleteUser(u) \/ SetDisabled(u)
  PROVE  TypeInv'
<1>1. users' \in [Accounts -> {"absent", "active", "disabled"}]
  BY DEF TypeInv, TypeOK, AddUser, DeleteUser, SetDisabled
<1>2. connections' \subseteq Connection
  BY DEF TypeInv, TypeOK, AddUser, DeleteUser, SetDisabled
<1>3. sign' \in [Browsers -> SignIn] /\ Held'
  <2>1. ASSUME NEW b \in Browsers, At(b, "find_conn")
        PROVE  /\ [sign[b] EXCEPT !.user = NoAccount] \in SignIn
               /\ HeldBy([sign[b] EXCEPT !.user = NoAccount])
    BY <2>1 DEF TypeInv, TypeOK, Held, HeldBy, Pending, SignIn, At
  <2>2. CASE DeleteUser(u)
    BY <2>1, <2>2 DEF DeleteUser, TypeInv, TypeOK, Held
  <2>3. CASE AddUser(u) \/ SetDisabled(u)
    BY <2>3 DEF AddUser, SetDisabled, TypeInv, TypeOK, Held
  <2> QED
    BY <2>2, <2>3
<1> QED
  BY <1>1, <1>2, <1>3 DEF AddUser, DeleteUser, SetDisabled, TypeInv, TypeOK, RefreshHeld, ProvidersTypeOK, providerVars, grantVars

LEMMA TypeRefresher ==
  ASSUME TypeInv, RefresherStep
  PROVE  TypeInv'
<1> DEFINE Others == ProvidersTypeOK' /\ users' \in [Accounts -> {"absent", "active", "disabled"}]
                     /\ lock' \subseteq Accounts /\ sign' \in [Browsers -> SignIn] /\ Held'
                     /\ crashes' \in 0..MaxCrashes
<1>0. Others
  BY DEF RefresherStep, StartCycle, LoadConnections, RefreshToken, GetConnection, LoseAnswer,
         CommitRefresh, TypeInv, TypeOK, RefreshHeld, RefreshHeld, ProvidersTypeOK, Held, providerVars, accountVars
<1>a. refresher \in Refresher /\ connections \subseteq Connection /\ issued \in 0..MaxGrants
      /\ valid \subseteq Grants /\ cut \subseteq Grants /\ MaxGrants \in Nat
  BY OidcSignInAssumption DEF TypeInv, TypeOK, RefreshHeld
<1>1. CASE StartCycle
  <2>1. refresher' \in Refresher /\ RefreshHeld'
    BY <1>a, <1>1 DEF StartCycle, Refresher, RefreshHeld
  <2> QED
    BY <1>0, <1>a, <1>1, <2>1 DEF StartCycle, TypeInv, TypeOK, RefreshHeld, accountVars, grantVars
<1>2. CASE LoadConnections
  <2>1. refresher' \in Refresher /\ RefreshHeld'
    BY <1>a, <1>2, IdleRefresherType DEF LoadConnections, Refresher, RefreshHeld
  <2> QED
    BY <1>0, <1>a, <1>2, <2>1 DEF LoadConnections, TypeInv, TypeOK, RefreshHeld, accountVars, grantVars
<1>3. CASE RefreshToken
  <2>1. PICK c \in refresher.queue : SkipConnection(c) \/ UseToken(c)
    BY <1>3 DEF RefreshToken
  <2>2. refresher.queue \ {c} \in SUBSET Connection /\ c \in Connection
    BY <1>a DEF Refresher
  <2>3. CASE SkipConnection(c)
    <3>1. refresher' \in Refresher
      BY <1>a, <2>2, <2>3, RestType DEF SkipConnection
    <3>2. RefreshHeld'
      BY <1>a, <2>2, <2>3, RestType DEF SkipConnection, RefreshHeld
    <3> QED
      BY <1>0, <1>a, <1>3, <2>3, <3>1, <3>2 DEF SkipConnection, RefreshToken, TypeInv, TypeOK,
         accountVars, grantVars
  <2>4. CASE UseToken(c)
    <3>1. PICK answer \in {issued + 1, c.token} :
            /\ answer # c.token => issued < MaxGrants
            /\ refresher' = [refresher EXCEPT !.pc = "get", !.queue = @ \ {c}, !.conn = c.id,
                                              !.used = c.token, !.answer = answer]
            /\ IF answer = c.token THEN UNCHANGED <<issued, valid>>
               ELSE issued' = answer /\ valid' = (valid \ {c.token}) \cup {answer}
      BY <2>4 DEF UseToken
    <3>2. c.token \in Grants /\ answer \in Grants /\ Grants \subseteq MaybeToken
      BY <1>a, <2>4, <3>1 DEF UseToken, MaybeToken, Grants
    <3>3. refresher' \in Refresher /\ RefreshHeld'
      BY <1>a, <2>2, <3>1, <3>2 DEF Refresher, Connection, RefreshHeld
    <3>4. issued' \in 0..MaxGrants /\ valid' \subseteq Grants
      BY <1>a, <3>1, <3>2 DEF Grants
    <3> QED
      BY <1>0, <1>a, <1>3, <2>4, <3>3, <3>4 DEF UseToken, RefreshToken, TypeInv, TypeOK, RefreshHeld, accountVars
  <2> QED
    BY <2>1, <2>3, <2>4
<1>4. CASE GetConnection
  <2>1. refresher' \in Refresher /\ RefreshHeld'
    <3>1. /\ \A c \in connections : [refresher EXCEPT !.pc = "commit", !.loaded = c.token] \in Refresher
          /\ refresher.queue \in SUBSET Connection
      BY <1>a DEF Refresher, Connection
    <3> QED
      BY <1>4, <1>a, <3>1, RestType DEF GetConnection, RefreshHeld, TypeInv, Refresher
  <2> QED
    BY <1>0, <1>a, <1>4, <2>1 DEF GetConnection, TypeInv, TypeOK, RefreshHeld, accountVars, grantVars
<1>b. ASSUME refresher.pc \in {"get", "commit"}, NEW q, q = refresher.queue
      PROVE  Rest(q) \in Refresher /\ Rest(q).pc \in {"idle", "next"}
  BY <1>a, <1>b, RestType DEF Refresher
<1>5. CASE LoseAnswer
  <2>1. refresher' \in Refresher /\ RefreshHeld'
    BY <1>5, <1>b DEF LoseAnswer, RefreshHeld
  <2>2. cut' \subseteq Grants
    BY <1>a, <1>5 DEF LoseAnswer, RefreshHeld, TypeInv
  <2> QED
    BY <1>0, <1>a, <1>5, <2>1, <2>2 DEF LoseAnswer, TypeInv, TypeOK, RefreshHeld, accountVars
<1>6. CASE CommitRefresh
  <2>1. refresher' \in Refresher /\ RefreshHeld'
    BY <1>6, <1>b DEF CommitRefresh, RefreshHeld
  <2>2. connections' \subseteq Connection
    <3>1. ASSUME NEW c \in connections PROVE StoreToken(c) \in Connection
      <4>1. c \in Connection /\ refresher.answer \in MaybeToken
        BY <1>a DEF Refresher
      <4> QED
        BY <4>1 DEF StoreToken, Connection
    <3> QED
      BY <1>6, <3>1 DEF CommitRefresh
  <2>3. cut' \subseteq Grants
    BY <1>a, <1>6 DEF CommitRefresh
  <2> QED
    BY <1>0, <1>a, <1>6, <2>1, <2>2, <2>3 DEF CommitRefresh, TypeInv, TypeOK, RefreshHeld
<1> QED
  BY <1>1, <1>2, <1>3, <1>4, <1>5, <1>6 DEF RefresherStep

LEMMA TypeCrash ==
  ASSUME TypeInv, Crash
  PROVE  TypeInv'
<1>1. reg' \in [Ids -> Entry]
  BY DEF Crash, ProvidersCrash, EmptyReg, Unregistered, Entry, MaybeClient
<1>2. NoProviders \in List
  BY DEF NoProviders, List
<1>3. ProvidersTypeOK'
  BY <1>1, <1>2, IdlePageType DEF Crash, ProvidersCrash, ProvidersTypeOK, TypeInv, TypeOK
<1>4. sign' \in [Browsers -> SignIn] /\ Held'
  BY NoSignInType DEF Crash, TypeInv, TypeOK, Held
<1>5. cut' \subseteq Grants
  BY DEF Crash, TypeInv, TypeOK, RefreshHeld
<1>6. crashes' \in 0..MaxCrashes
  BY OidcSignInAssumption DEF Crash, TypeInv, TypeOK
<1> QED
  BY <1>3, <1>4, <1>5, <1>6, IdleRefresherType DEF Crash, TypeInv, TypeOK, RefreshHeld

LEMMA TypeStutter ==
  ASSUME TypeInv, UNCHANGED allVars
  PROVE  TypeInv'
BY DEF allVars, providerVars, accountVars, grantVars, TypeInv, TypeOK, RefreshHeld, Held,
       ProvidersTypeOK

\* Whatever sign-ins, refreshes, edits, deletions and crashes overlap, every
\* variable keeps its type, and what is about to be written is at hand.
THEOREM TypeCorrect == Spec => []TypeInv
<1>1. Init => TypeInv
  BY TypeInit
<1>2. TypeInv /\ [Next]_allVars => TypeInv'
  <2> SUFFICES ASSUME TypeInv, [Next]_allVars PROVE TypeInv'
    OBVIOUS
  <2>1. CASE ProvidersStep /\ UNCHANGED <<accountVars, sign, refresher, grantVars, crashes>>
    BY <2>1, TypeProviders DEF TypeInv, TypeOK, Held, RefreshHeld, accountVars, grantVars
  <2>2. CASE \E b \in Browsers : SignInStep(b)
    BY <2>2, TypeSignInStep
  <2>3. CASE \E u \in Accounts : AddUser(u) \/ DeleteUser(u) \/ SetDisabled(u)
    BY <2>3, TypeUsers
  <2>4. CASE RefresherStep
    BY <2>4, TypeRefresher
  <2>5. CASE Crash
    BY <2>5, TypeCrash
  <2>6. CASE UNCHANGED allVars
    BY <2>6, TypeStutter
  <2> QED
    BY <2>1, <2>2, <2>3, <2>4, <2>5, <2>6 DEF Next
<1> QED
  BY <1>1, <1>2, PTL DEF Spec

-----------------------------------------------------------------------------

-----------------------------------------------------------------------------
(* The registry: a client that is there was built from the settings whose  *)
(* fingerprint is there.                                                   *)

CoherentEntry(e) == e = Unregistered \/ (e.fingerprint \in Clients /\ e.client = e.fingerprint)

Coherent == \A i \in Ids : CoherentEntry(reg[i])

\* Registering settings yields their client, whatever a coherent registry held.
LEMMA RegisterYields ==
  ASSUME NEW e \in Entry, CoherentEntry(e), NEW p \in Provider
  PROVE  /\ CoherentEntry(Register(e, p)) /\ CoherentEntry(Build(Register(e, p)))
         /\ Build(Register(e, p)).client = p.client
<1>0. p.client \in Clients /\ NoClient \notin Clients /\ Unregistered.fingerprint = NoClient
  BY OidcProvidersAssumption DEF Provider, Unregistered
<1>1. CASE e.fingerprint = p.client
  BY <1>0, <1>1 DEF CoherentEntry, Register, Build, Fingerprint, Entry
<1>2. CASE e.fingerprint # p.client
  <2>1. Register(e, p) = [fingerprint |-> p.client, config |-> p.client, client |-> p.client]
    BY <1>0, <1>2 DEF Register, Build, Evict, Fingerprint, Entry
  <2> QED
    BY <1>0, <2>1 DEF CoherentEntry, Build
<1> QED
  BY <1>1, <1>2

\* get_client gives the client of the settings that were read.
LEMMA GetClientYields ==
  ASSUME TypeInv, Coherent, NEW b \in Browsers, NEW next \in {"at_provider", "exchange"},
         GetClient(b, next)
  PROVE  /\ Coherent'
         /\ \/ sign[b].seen = NoProvider /\ Finish(b)
            \/ /\ sign[b].seen \in Provider
               /\ Become(b, [sign[b] EXCEPT !.pc = next, !.client = sign[b].seen.client])
<1> DEFINE s == sign[b]
           e == Build(Register(reg[s.id], s.seen))
<1>0. s \in SignIn /\ reg \in [Ids -> Entry] /\ s.id \in Ids
  BY DEF TypeInv, TypeOK, ProvidersTypeOK, SignIn
<1>1. CASE s.seen = NoProvider
  BY <1>1 DEF GetClient, Coherent
<1>2. CASE s.seen # NoProvider
  <2>1. s.seen \in Provider /\ reg[s.id] \in Entry /\ CoherentEntry(reg[s.id])
    BY <1>0, <1>2 DEF SignIn, Coherent
  <2>2. CoherentEntry(e) /\ e.client = s.seen.client
    BY <2>1, RegisterYields
  <2>3. e.client # NoClient
    BY <2>1, <2>2, OidcProvidersAssumption DEF Provider
  <2>4. Become(b, [s EXCEPT !.pc = next, !.client = s.seen.client])
    BY <1>2, <2>2, <2>3 DEF GetClient
  <2>5. reg' = [reg EXCEPT ![s.id] = e]
    BY <1>2 DEF GetClient
  <2>6. Coherent'
    BY <1>0, <2>2, <2>5 DEF Coherent
  <2> QED
    BY <2>1, <2>4, <2>6
<1> QED
  BY <1>1, <1>2

LEMMA CoherentProviders ==
  ASSUME TypeInv, Coherent, ProvidersStep
  PROVE  Coherent'
<1>0. reg \in [Ids -> Entry] /\ boot.list \in List /\ \A a \in Admins : admin[a].id \in Ids
  BY DEF TypeInv, TypeOK, ProvidersTypeOK
<1>1. ASSUME NEW a \in Admins, StartEdit(a) \/ CommitEdit(a) PROVE Coherent'
  BY <1>1 DEF StartEdit, CommitEdit, Coherent
<1>2. ASSUME NEW a \in Admins, Unregister(a) PROVE Coherent'
  BY <1>0, <1>2 DEF Unregister, Coherent, CoherentEntry
<1>3. CASE StartUp \/ SeedRead \/ SeedCommit \/ LoadProviders
  BY <1>3 DEF StartUp, SeedRead, SeedCommit, LoadProviders, Coherent
<1>4. CASE RegisterProviders
  <2>1. ASSUME NEW i \in Ids PROVE CoherentEntry(reg'[i])
    <3>1. CASE boot.list[i] = NoProvider
      BY <1>4, <3>1 DEF RegisterProviders, Coherent
    <3>2. CASE boot.list[i] # NoProvider
      <4>1. boot.list[i] \in Provider /\ reg[i] \in Entry /\ CoherentEntry(reg[i])
        BY <1>0, <3>2 DEF List, Coherent
      <4> QED
        BY <1>4, <3>2, <4>1, RegisterYields DEF RegisterProviders
    <3> QED
      BY <3>1, <3>2
  <2> QED
    BY <2>1 DEF Coherent
<1> QED
  BY <1>1, <1>2, <1>3, <1>4 DEF ProvidersStep

RegistryInv == Coherent /\ ClientAsConfigured

LEMMA RegistryStep ==
  ASSUME TypeInv, RegistryInv, [Next]_allVars
  PROVE  RegistryInv'
<1> USE DEF RegistryInv
<1>0. sign \in [Browsers -> SignIn] /\ NoSignIn.pc = "idle"
  BY NoSignInType DEF TypeInv, TypeOK
<1>1. CASE ProvidersStep /\ UNCHANGED <<accountVars, sign, refresher, grantVars, crashes>>
  BY <1>1, CoherentProviders DEF ClientAsConfigured
<1>2. ASSUME NEW b \in Browsers, SignInStep(b) PROVE RegistryInv'
  <2>1. ASSUME NEW next \in {"at_provider", "exchange"}, GetClient(b, next) PROVE RegistryInv'
    <3>1. CASE Finish(b)
      BY <1>0, <2>1, <3>1, GetClientYields DEF Finish, Become, ClientAsConfigured
    <3>2. CASE Become(b, [sign[b] EXCEPT !.pc = next, !.client = sign[b].seen.client])
      <4>1. sign'[b].client = sign'[b].seen.client
        BY <1>0, <3>2 DEF Become, SignIn
      <4>2. \A o \in Browsers \ {b} : sign'[o] = sign[o]
        BY <1>0, <3>2 DEF Become
      <4> QED
        BY <2>1, <4>1, <4>2, GetClientYields DEF ClientAsConfigured
    <3> QED
      BY <2>1, <3>1, <3>2, GetClientYields
  <2>2. CASE StartSignIn(b) \/ Callback(b) \/ Abandon(b) \/ Exchange(b) \/ ReadAuto(b)
             \/ FindUser(b) \/ CreateUser(b) \/ FindConn(b) \/ CommitSignIn(b)
    <3>1. UNCHANGED reg
      BY <2>2 DEF StartSignIn, Callback, Abandon, Exchange, ReadAuto, FindUser, CreateUser,
                  FindConn, CommitSignIn, providerVars
    <3>2. \A o \in Browsers \ {b} : sign'[o] = sign[o]
      BY <1>0, <2>2 DEF StartSignIn, Callback, Abandon, Exchange, ReadAuto, FindUser, CreateUser,
                        FindConn, CommitSignIn, Become, Finish
    <3>3. sign'[b].pc \notin {"at_provider", "exchange"}
      <4>1. CASE StartSignIn(b)
        BY <1>0, <4>1, NoSignInType DEF StartSignIn, Become, SignIn
      <4>2. CASE Exchange(b)
        BY <1>0, <4>2, NoSignInType DEF Exchange, Become, SignIn
      <4>3. CASE Callback(b)
        BY <1>0, <4>3 DEF Callback, Become, SignIn
      <4>4. CASE Abandon(b)
        BY <1>0, <4>4 DEF Abandon, Finish, Become
      <4>5. CASE ReadAuto(b)
        BY <1>0, <4>5 DEF ReadAuto, Become, SignIn
      <4>6. CASE FindUser(b)
        <5>1. \/ Finish(b)
              \/ Become(b, [sign[b] EXCEPT !.pc = "find_conn", !.auto = FALSE])
              \/ Become(b, [sign[b] EXCEPT !.pc = "create_user", !.auto = FALSE])
          BY <4>6 DEF FindUser
        <5> QED
          BY <1>0, <5>1 DEF Finish, Become, SignIn
      <4>7. CASE CreateUser(b) \/ FindConn(b) \/ CommitSignIn(b)
        BY <1>0, <4>7 DEF CreateUser, FindConn, CommitSignIn, Finish, Become, SignIn
      <4> QED
        BY <2>2, <4>1, <4>2, <4>3, <4>4, <4>5, <4>6, <4>7
    <3> QED
      BY <3>1, <3>2, <3>3 DEF Coherent, ClientAsConfigured
  <2> QED
    BY <1>2, <2>1, <2>2 DEF SignInStep, RedirectClient, CallbackClient
<1>3. ASSUME NEW u \in Accounts, AddUser(u) \/ DeleteUser(u) \/ SetDisabled(u) PROVE RegistryInv'
  <2>1. UNCHANGED reg
    BY <1>3 DEF AddUser, DeleteUser, SetDisabled, providerVars
  <2>2. ASSUME NEW b \in Browsers, sign'[b].pc \in {"at_provider", "exchange"}
        PROVE  sign'[b] = sign[b]
    BY <1>0, <1>3, <2>2 DEF AddUser, DeleteUser, SetDisabled, At, SignIn
  <2> QED
    BY <2>1, <2>2 DEF Coherent, ClientAsConfigured
<1>4. CASE RefresherStep
  BY <1>4 DEF RefresherStep, StartCycle, LoadConnections, RefreshToken, GetConnection, LoseAnswer,
              CommitRefresh, providerVars, Coherent, ClientAsConfigured
<1>5. CASE Crash
  <2>1. Coherent'
    BY <1>5 DEF Crash, ProvidersCrash, EmptyReg, Coherent, CoherentEntry
  <2>2. ASSUME NEW b \in Browsers, sign'[b].pc \in {"at_provider", "exchange"}
        PROVE  sign'[b] = sign[b]
    BY <1>0, <1>5, <2>2 DEF Crash
  <2> QED
    BY <2>1, <2>2 DEF ClientAsConfigured
<1>6. CASE UNCHANGED allVars
  BY <1>6 DEF allVars, providerVars, Coherent, ClientAsConfigured
<1> QED
  BY <1>1, <1>2, <1>3, <1>4, <1>5, <1>6 DEF Next

LEMMA RegistryInit == Init => RegistryInv
<1> SUFFICES ASSUME Init PROVE RegistryInv
  OBVIOUS
<1>1. Coherent
  BY DEF Init, ProvidersInit, EmptyReg, Coherent, CoherentEntry
<1>2. ClientAsConfigured
  BY NoSignInType DEF Init, ClientAsConfigured
<1> QED
  BY <1>1, <1>2 DEF RegistryInv

\* A sign-in uses the client settings it has just read from the database,
\* whatever was registered before.
THEOREM PresentSettings == Spec => []ClientAsConfigured
<1>1. TypeInv /\ RegistryInv /\ [Next]_allVars => RegistryInv'
  BY RegistryStep
<1>2. RegistryInv => ClientAsConfigured
  BY DEF RegistryInv
<1> QED
  BY <1>1, <1>2, RegistryInit, TypeCorrect, PTL DEF Spec

LEMMA UsableStep ==
  ASSUME TypeInv, RegistryInv, [Next]_allVars, NEW o \in Browsers
  PROVE  ~ RefusedThough(o)
<1> SUFFICES ASSUME RefusedThough(o) PROVE FALSE
  OBVIOUS
<1>0. /\ sign \in [Browsers -> SignIn] /\ sign[o].pc \in {"redirect", "callback"}
      /\ sign[o].seen # NoProvider /\ sign'[o] # sign[o] /\ sign'[o].client = NoClient
      /\ boot'.pc # "down"
  BY DEF TypeInv, TypeOK, RefusedThough
<1>1. CASE UNCHANGED sign
  BY <1>0, <1>1
<1>2. ASSUME NEW b \in Browsers, SignInStep(b) PROVE FALSE
  <2>1. b = o
    BY <1>0, <1>2 DEF SignInStep, StartSignIn, RedirectClient, Callback, CallbackClient, GetClient,
          Abandon, Exchange, ReadAuto, FindUser, CreateUser, FindConn, CommitSignIn, Finish, Become
  <2>2. PICK next \in {"at_provider", "exchange"} : GetClient(o, next)
    BY <1>0, <1>2, <2>1 DEF SignInStep, StartSignIn, RedirectClient, Callback, CallbackClient,
          Abandon, Exchange, ReadAuto, FindUser, CreateUser, FindConn, CommitSignIn, At
  <2>3. /\ sign[o].seen \in Provider
        /\ Become(o, [sign[o] EXCEPT !.pc = next, !.client = sign[o].seen.client])
    BY <1>0, <2>2, GetClientYields DEF RegistryInv
  <2>4. sign'[o].client = sign[o].seen.client
    BY <1>0, <2>3 DEF Become, SignIn
  <2>5. sign[o].seen.client # NoClient
    BY <2>3, OidcProvidersAssumption DEF Provider
  <2> QED
    BY <1>0, <2>4, <2>5
<1>3. CASE \E u \in Accounts : AddUser(u) \/ DeleteUser(u) \/ SetDisabled(u)
  BY <1>0, <1>3 DEF AddUser, DeleteUser, SetDisabled, At
<1>4. CASE Crash
  BY <1>0, <1>4 DEF Crash, ProvidersCrash
<1>5. CASE RefresherStep
  BY <1>1, <1>5 DEF RefresherStep, StartCycle, LoadConnections, RefreshToken, GetConnection,
                    LoseAnswer, CommitRefresh
<1> QED
  BY <1>1, <1>2, <1>3, <1>4, <1>5 DEF Next, allVars

\* A provider that is in the row when get_client reads it is never refused as
\* "not registered", whatever edits and deletions came before or fall in between.
THEOREM ConfiguredUsable == Spec => ConfiguredIsUsable
<1>1. TypeInv /\ RegistryInv /\ [Next]_allVars => RegistryInv'
  BY RegistryStep
<1>2. TypeInv /\ RegistryInv /\ [Next]_allVars => [\A b \in Browsers : ~ RefusedThough(b)]_allVars
  BY UsableStep
<1> QED
  BY <1>1, <1>2, RegistryInit, TypeCorrect, PTL DEF Spec, ConfiguredIsUsable

-----------------------------------------------------------------------------
(* One connection of a user to a provider                                  *)

\* Who is about to commit holds the user's row, alone, and a connection it is
\* about to insert does not exist.
Serialized ==
  \A b \in Browsers : sign[b].pc = "commit" =>
    /\ sign[b].user \in lock
    /\ \A o \in Browsers : sign[o].pc = "commit" /\ sign[o].user = sign[b].user => o = b
    /\ sign[b].conn = NoConn =>
         \A c \in connections : ~ (c.user = sign[b].user /\ c.provider = sign[b].id)

Owned == \A c \in connections : users[c.user] # "absent"

ConnectionInv == Serialized /\ Owned /\ OneConnection

\* A step that leaves connections with their users and providers, keeps the
\* users that own one, and lets nobody come to the commit, preserves it.
LEMMA ConnectionsKept ==
  ASSUME TypeInv, ConnectionInv,
         \A c \in connections' : \E d \in connections : c.user = d.user /\ c.provider = d.provider,
         \A c, d \in connections' : c.user = d.user /\ c.provider = d.provider => c = d,
         \A c \in connections' : users'[c.user] # "absent",
         \A b \in Browsers : sign'[b].pc = "commit" => sign'[b] = sign[b] /\ sign[b].user \in lock'
  PROVE  ConnectionInv'
<1>1. Serialized'
  <2> SUFFICES ASSUME NEW b \in Browsers, sign'[b].pc = "commit"
               PROVE  /\ sign'[b].user \in lock'
                      /\ \A o \in Browsers : sign'[o].pc = "commit" /\ sign'[o].user = sign'[b].user
                                                => o = b
                      /\ sign'[b].conn = NoConn =>
                           \A c \in connections' : ~ (c.user = sign'[b].user /\ c.provider = sign'[b].id)
    BY DEF Serialized
  <2>1. sign'[b] = sign[b] /\ sign[b].user \in lock'
    OBVIOUS
  <2>2. \A o \in Browsers : sign'[o].pc = "commit" => sign'[o] = sign[o]
    OBVIOUS
  <2> QED
    BY <2>1, <2>2 DEF ConnectionInv, Serialized
<1> QED
  BY <1>1 DEF ConnectionInv, Owned, OneConnection

LEMMA ConnectionSignIn ==
  ASSUME TypeInv, ConnectionInv, NEW b \in Browsers, SignInStep(b)
  PROVE  ConnectionInv'
<1> DEFINE s == sign[b]
<1>0. /\ sign \in [Browsers -> SignIn] /\ s \in SignIn /\ connections \subseteq Connection
      /\ NoSignIn.pc = "idle" /\ NoConn \notin Grants /\ users \in [Accounts -> {"absent", "active", "disabled"}]
  BY NoSignInType, OidcSignInAssumption DEF TypeInv, TypeOK
<1>o. \A o \in Browsers \ {b} : sign'[o] = sign[o]
  BY <1>0 DEF SignInStep, StartSignIn, RedirectClient, Callback, CallbackClient, GetClient,
          Abandon, Exchange, ReadAuto, FindUser, CreateUser, FindConn, CommitSignIn, Finish, Become
<1>1. CASE UNCHANGED accountVars /\ sign'[b].pc # "commit"
  <2>1. \A o \in Browsers : sign'[o].pc = "commit" => sign'[o] = sign[o] /\ sign[o].user \in lock'
    BY <1>o, <1>1 DEF ConnectionInv, Serialized, accountVars
  <2>2. connections' = connections /\ users' = users
    BY <1>1 DEF accountVars
  <2>3. \A c \in connections' : \E d \in connections : c.user = d.user /\ c.provider = d.provider
    BY <2>2
  <2>4. \A c, d \in connections' : c.user = d.user /\ c.provider = d.provider => c = d
    BY <2>2 DEF ConnectionInv, OneConnection
  <2>5. \A c \in connections' : users'[c.user] # "absent"
    BY <2>2 DEF ConnectionInv, Owned
  <2> QED
    BY <2>1, <2>3, <2>4, <2>5, ConnectionsKept
<1>2. ASSUME Finish(b), UNCHANGED accountVars PROVE ConnectionInv'
  BY <1>0, <1>1, <1>2 DEF Finish, Become
<1>3. ASSUME NEW next, GetClient(b, next), next # "commit" PROVE ConnectionInv'
  <2>1. UNCHANGED accountVars
    BY <1>3 DEF GetClient, accountVars
  <2>2. PICK e : Finish(b) \/ Become(b, [s EXCEPT !.pc = next, !.client = e])
    BY <1>3 DEF GetClient
  <2>3. sign'[b].pc # "commit"
    BY <1>0, <1>3, <2>2 DEF Finish, Become, SignIn
  <2> QED
    BY <1>1, <2>1, <2>3
<1>4. CASE StartSignIn(b)
  BY <1>0, <1>1, <1>4, NoSignInType DEF StartSignIn, Become, SignIn
<1>5. CASE RedirectClient(b) \/ CallbackClient(b)
  BY <1>3, <1>5 DEF RedirectClient, CallbackClient
<1>6. CASE Callback(b)
  BY <1>0, <1>1, <1>6 DEF Callback, Become, SignIn
<1>7. CASE Abandon(b)
  BY <1>2, <1>7 DEF Abandon
<1>8. CASE Exchange(b)
  BY <1>0, <1>1, <1>8, NoSignInType DEF Exchange, Become, SignIn
<1>9. CASE ReadAuto(b)
  BY <1>0, <1>1, <1>9 DEF ReadAuto, Become, SignIn
<1>10. CASE FindUser(b)
  <2>1. UNCHANGED accountVars
    BY <1>10 DEF FindUser
  <2>2. \/ Finish(b)
        \/ Become(b, [s EXCEPT !.pc = "find_conn", !.auto = FALSE])
        \/ Become(b, [s EXCEPT !.pc = "create_user", !.auto = FALSE])
    BY <1>10 DEF FindUser
  <2>3. sign'[b].pc # "commit"
    BY <1>0, <2>2 DEF Finish, Become, SignIn
  <2> QED
    BY <1>1, <2>1, <2>3
<1>11. ASSUME s.user \in Accounts, s.user \notin lock, lock' = lock \cup {s.user},
              UNCHANGED <<users, connections>>, sign'[b].user = s.user, sign'[b].id = s.id,
              sign'[b].conn = NoConn =>
                \A c \in connections : ~ (c.user = s.user /\ c.provider = s.id)
       PROVE  ConnectionInv'
  <2>1. \A o \in Browsers \ {b} : sign[o].pc = "commit" => sign[o].user # s.user
    BY <1>11 DEF ConnectionInv, Serialized
  <2>2. Serialized'
    BY <1>o, <1>11, <2>1 DEF ConnectionInv, Serialized
  <2> QED
    BY <1>11, <2>2 DEF ConnectionInv, Owned, OneConnection
<1>12. CASE CreateUser(b)
  <2>1. s.user \in Accounts
    BY <1>12 DEF CreateUser, At, TypeInv, Held, HeldBy, Pending
  <2>2. CASE users[s.user] = "absent"
    <3>1. \A c \in connections : c.user # s.user
      BY <2>2 DEF ConnectionInv, Owned
    <3>2. sign'[b].user = s.user /\ sign'[b].id = s.id
      BY <1>0, <1>12, <2>2 DEF CreateUser, Become, SignIn
    <3> QED
      BY <1>11, <1>12, <2>1, <2>2, <3>1, <3>2 DEF CreateUser
  <2>3. CASE users[s.user] # "absent"
    BY <1>2, <1>12, <2>3 DEF CreateUser, accountVars
  <2> QED
    BY <2>2, <2>3
<1>13. CASE FindConn(b)
  <2> DEFINE found == ConnectionsOf(s.user, s.id)
  <2>1. CASE Finish(b) /\ UNCHANGED lock
    BY <1>2, <1>13, <2>1 DEF FindConn, accountVars
  <2>2. CASE s.user # NoAccount /\ lock' = lock \cup {s.user} /\ found = {}
             /\ Become(b, [s EXCEPT !.pc = "commit"])
    <3>1. s.user \in Accounts /\ sign'[b].user = s.user /\ sign'[b].id = s.id
      BY <1>0, <2>2 DEF Become, SignIn
    <3>2. \A c \in connections : ~ (c.user = s.user /\ c.provider = s.id)
      BY <2>2 DEF ConnectionsOf
    <3> QED
      BY <1>11, <1>13, <2>2, <3>1, <3>2 DEF FindConn
  <2>3. ASSUME s.user # NoAccount, lock' = lock \cup {s.user}, NEW c \in found,
               Become(b, [s EXCEPT !.pc = "commit", !.conn = c.id])
        PROVE  ConnectionInv'
    <3>1. s.user \in Accounts /\ sign'[b].user = s.user /\ sign'[b].id = s.id
      BY <1>0, <2>3 DEF Become, SignIn
    <3>2. c.id \in Grants
      BY <1>0 DEF ConnectionsOf, Connection
    <3>3. sign'[b].conn # NoConn
      BY <1>0, <2>3, <3>2 DEF Become, SignIn
    <3> QED
      BY <1>11, <1>13, <2>3, <3>1, <3>3 DEF FindConn
  <2> QED
    BY <1>13, <2>1, <2>2, <2>3 DEF FindConn
<1>14. CASE CommitSignIn(b)
  <2>1. s.pc = "commit" /\ s.user \in Accounts
    BY <1>14 DEF CommitSignIn, At, TypeInv, Held, HeldBy, Pending
  <2>2. sign'[b].pc # "commit"
    BY <1>0, <1>14 DEF CommitSignIn, Finish, Become
  <2>3. \A o \in Browsers \ {b} : sign[o].pc = "commit" => sign[o].user # s.user
    BY <2>1 DEF ConnectionInv, Serialized
  <2>4. \A u \in Accounts : users'[u] # "absent" <=> u = s.user \/ users[u] # "absent"
    BY <1>0, <1>14, <2>1 DEF CommitSignIn
  <2>5. CASE s.conn = NoConn
    <3> DEFINE new == [id |-> s.grant, user |-> s.user, provider |-> s.id, token |-> s.token]
    <3>1. connections' = connections \cup {new}
      BY <1>14, <2>5 DEF CommitSignIn
    <3>2. new.user = s.user /\ new.provider = s.id
      OBVIOUS
    <3> HIDE DEF new
    <3>3. \A c \in connections : ~ (c.user = s.user /\ c.provider = s.id)
      BY <2>1, <2>5 DEF ConnectionInv, Serialized
    <3>4. OneConnection'
      BY <3>1, <3>2, <3>3 DEF ConnectionInv, OneConnection
    <3>5. Owned'
      BY <1>0, <2>1, <2>4, <3>1, <3>2 DEF ConnectionInv, Owned, Connection
    <3>6. Serialized'
      <4>1. lock' = lock \ {s.user}
        BY <1>14 DEF CommitSignIn
      <4> QED
        BY <1>o, <2>2, <2>3, <3>1, <3>2, <4>1 DEF ConnectionInv, Serialized
    <3> QED
      BY <3>4, <3>5, <3>6 DEF ConnectionInv
  <2>6. CASE s.conn # NoConn
    <3> DEFINE new(c) == IF c.id = s.conn THEN [c EXCEPT !.token = s.token] ELSE c
    <3>1. connections' = {new(c) : c \in connections}
      BY <1>14, <2>6 DEF CommitSignIn
    <3>2. \A c \in connections : new(c).user = c.user /\ new(c).provider = c.provider
      BY <1>0 DEF Connection
    <3> HIDE DEF new
    <3>3. \A c \in connections' : \E d \in connections : c.user = d.user /\ c.provider = d.provider
      BY <3>1, <3>2
    <3>4. \A c, d \in connections' : c.user = d.user /\ c.provider = d.provider => c = d
      BY <3>1, <3>2 DEF ConnectionInv, OneConnection
    <3>5. \A c \in connections' : users'[c.user] # "absent"
      <4>1. \A c \in connections : c.user \in Accounts /\ users[c.user] # "absent"
        BY <1>0 DEF ConnectionInv, Owned, Connection
      <4> QED
        BY <2>4, <3>1, <3>2, <4>1
    <3>6. \A o \in Browsers : sign'[o].pc = "commit" => sign'[o] = sign[o] /\ sign[o].user \in lock'
      BY <1>o, <1>14, <2>2, <2>3 DEF CommitSignIn, ConnectionInv, Serialized
    <3> QED
      BY <3>3, <3>4, <3>5, <3>6, ConnectionsKept
  <2> QED
    BY <2>5, <2>6
<1> QED
  BY <1>4, <1>5, <1>6, <1>7, <1>8, <1>9, <1>10, <1>12, <1>13, <1>14 DEF SignInStep

LEMMA ConnectionStep ==
  ASSUME TypeInv, ConnectionInv, [Next]_allVars
  PROVE  ConnectionInv'
<1>0. /\ sign \in [Browsers -> SignIn] /\ connections \subseteq Connection
      /\ users \in [Accounts -> {"absent", "active", "disabled"}] /\ NoSignIn.pc = "idle"
      /\ \A c, d \in connections : c.user = d.user /\ c.provider = d.provider => c = d
      /\ \A c \in connections : c.user \in Accounts /\ users[c.user] # "absent"
  BY NoSignInType DEF TypeInv, TypeOK, ConnectionInv, Owned, OneConnection, Connection
<1>1. CASE UNCHANGED <<accountVars, sign>>
  BY <1>1 DEF accountVars, ConnectionInv, Serialized, Owned, OneConnection
<1>2. CASE \E b \in Browsers : SignInStep(b)
  BY <1>2, ConnectionSignIn
<1>3. ASSUME NEW u \in Accounts, DeleteUser(u) PROVE ConnectionInv'
  <2>1. connections' = {c \in connections : c.user # u}
    BY <1>3 DEF DeleteUser
  <2>2. \A c \in connections' : users'[c.user] # "absent"
    BY <1>0, <1>3, <2>1 DEF DeleteUser
  <2>3. \A b \in Browsers : sign'[b].pc = "commit" => sign'[b] = sign[b]
    BY <1>0, <1>3 DEF DeleteUser, At, SignIn
  <2>4. \A b \in Browsers : sign'[b].pc = "commit" => sign[b].user \in lock'
    BY <1>3, <2>3 DEF DeleteUser, ConnectionInv, Serialized
  <2> QED
    BY <1>0, <2>1, <2>2, <2>3, <2>4, ConnectionsKept
<1>4. ASSUME NEW u \in Accounts, AddUser(u) \/ SetDisabled(u) PROVE ConnectionInv'
  <2>1. \A a \in Accounts : users[a] # "absent" => users'[a] # "absent"
    BY <1>0, <1>4 DEF AddUser, SetDisabled
  <2>2. UNCHANGED <<connections, lock, sign>>
    BY <1>4 DEF AddUser, SetDisabled
  <2> QED
    BY <1>0, <2>1, <2>2 DEF ConnectionInv, Serialized, Owned, OneConnection
<1>5. CASE StartCycle \/ LoadConnections \/ RefreshToken \/ GetConnection \/ LoseAnswer
  BY <1>1, <1>5 DEF StartCycle, LoadConnections, RefreshToken, GetConnection, LoseAnswer
<1>6. CASE CommitRefresh
  <2>1. connections' = {StoreToken(c) : c \in connections} /\ UNCHANGED <<users, lock, sign>>
    BY <1>6 DEF CommitRefresh
  <2>2. \A c \in connections : StoreToken(c).user = c.user /\ StoreToken(c).provider = c.provider
    BY <1>0 DEF StoreToken, Connection
  <2>3. \A c \in connections' : \E d \in connections : c.user = d.user /\ c.provider = d.provider
    BY <2>1, <2>2
  <2>4. \A c, d \in connections' : c.user = d.user /\ c.provider = d.provider => c = d
    BY <1>0, <2>1, <2>2
  <2>5. \A c \in connections' : users'[c.user] # "absent"
    BY <1>0, <2>1, <2>2
  <2>6. \A b \in Browsers : sign'[b].pc = "commit" => sign'[b] = sign[b] /\ sign[b].user \in lock'
    BY <2>1 DEF ConnectionInv, Serialized
  <2> QED
    BY <2>3, <2>4, <2>5, <2>6, ConnectionsKept
<1>7. CASE Crash
  <2>1. \A b \in Browsers : sign'[b].pc # "commit"
    BY <1>0, <1>7 DEF Crash, At
  <2> QED
    BY <1>7, <2>1 DEF Crash, ConnectionInv, Serialized, Owned, OneConnection
<1> QED
  BY <1>1, <1>2, <1>3, <1>4, <1>5, <1>6, <1>7 DEF Next, RefresherStep, allVars

LEMMA ConnectionInit == Init => ConnectionInv
<1> SUFFICES ASSUME Init PROVE ConnectionInv
  OBVIOUS
<1>1. Serialized
  BY NoSignInType DEF Init, Serialized
<1> QED
  BY <1>1 DEF Init, ConnectionInv, Owned, OneConnection

\* However many sign-ins of one user overlap, the table never holds two
\* connections of a user to a provider, although no constraint forbids them.
THEOREM AtMostOneConnection == Spec => []OneConnection
<1>1. TypeInv /\ ConnectionInv /\ [Next]_allVars => ConnectionInv'
  BY ConnectionStep
<1>2. ConnectionInv => OneConnection
  BY DEF ConnectionInv
<1> QED
  BY <1>1, <1>2, ConnectionInit, TypeCorrect, PTL DEF Spec

-----------------------------------------------------------------------------
(* Refresh tokens                                                          *)
\* Where a connection's token may be read: the table and the task's queue.
Copies == connections \cup refresher.queue

Asked == refresher.pc \in {"get", "commit"}

\* Names in use were issued.
Known ==
  /\ \A c \in Copies : c.id \in 1..issued /\ c.token \in (1..issued) \cup {NoToken}
  /\ refresher.conn \in (1..issued) \cup {NoConn}
  /\ refresher.answer \in (1..issued) \cup {NoToken}
  /\ \A b \in Browsers : sign[b].pc \in Pending =>
       sign[b].grant \in 1..issued /\ sign[b].token \in {sign[b].grant, NoToken}

\* A grant that a sign-in has yet to store is nowhere else, and is accepted.
PendingApart ==
  \A b \in Browsers : sign[b].pc \in Pending =>
    /\ sign[b].token \in valid \cup {NoToken}
    /\ \A c \in Copies : c.id # sign[b].grant /\ c.token # sign[b].grant
    /\ refresher.conn # sign[b].grant /\ refresher.answer # sign[b].grant
    /\ \A o \in Browsers : sign[o].pc \in Pending /\ sign[o].grant = sign[b].grant => o = b

\* A token belongs to one connection.
OneOwner == \A c, d \in Copies : c.token = d.token /\ c.token # NoToken => c.id = d.id

\* An answer still to be stored is accepted.  It is nowhere else when it replaces
\* the token that was used, and it is that token, of the same connection, otherwise.
AnswerApart ==
  Asked =>
    /\ refresher.answer \in valid
    /\ \A c \in Copies : c.token = refresher.answer => ~ Replaced /\ c.id = refresher.conn
    /\ refresher.pc = "commit" /\ Replaced => refresher.loaded # refresher.answer

TokenInv == Known /\ PendingApart /\ OneOwner /\ AnswerApart /\ StoredTokenAccepted

LEMMA TokenInit == Init => TokenInv
<1> SUFFICES ASSUME Init PROVE TokenInv
  OBVIOUS
<1>1. \A b \in Browsers : sign[b].pc \notin Pending
  BY NoSignInType DEF Init, Pending
<1>2. Copies = {} /\ ~ Asked /\ connections = {}
      /\ refresher.conn = NoConn /\ refresher.answer = NoToken
  BY DEF Init, IdleRefresher, Copies, Asked
<1> QED
  BY <1>1, <1>2 DEF TokenInv, Known, PendingApart, OneOwner, AnswerApart, StoredTokenAccepted

\* The task keeps the answer it has, and has not loaded it from the row.
AnswerKept ==
  /\ refresher'.conn = refresher.conn
  /\ refresher'.answer = refresher.answer /\ refresher'.used = refresher.used
  /\ Asked' => Asked
  /\ refresher'.pc = "commit" /\ Replaced' => refresher'.loaded # refresher'.answer

AnswerDropped == refresher'.conn = NoConn /\ refresher'.answer = NoToken /\ ~ Asked'

\* A step that issues and revokes no token, stores none, and lets the sign-ins
\* and the refresh task keep or drop what they hold.
LEMMA TokensKept ==
  ASSUME TypeInv, TokenInv,
         issued' = issued, valid' = valid,
         connections' \subseteq connections, refresher'.queue \subseteq Copies,
         AnswerDropped \/ AnswerKept,
         \A b \in Browsers : sign'[b].pc \in Pending =>
            /\ sign[b].pc \in Pending
            /\ sign'[b].grant = sign[b].grant /\ sign'[b].token = sign[b].token,
         StoredTokenAccepted'
  PROVE  TokenInv'
<1>0. Copies' \subseteq Copies
  BY DEF Copies
<1>1. /\ NoConn \notin Grants /\ NoToken \notin Grants /\ 1..issued \subseteq Grants
      /\ issued \in 0..MaxGrants
  BY OidcSignInAssumption DEF Grants, TypeInv, TypeOK
<1>2. Known'
  BY <1>0 DEF TokenInv, Known, AnswerDropped, AnswerKept
<1>3. PendingApart'
  <2> SUFFICES ASSUME NEW b \in Browsers, sign'[b].pc \in Pending
               PROVE  /\ sign'[b].token \in valid' \cup {NoToken}
                      /\ \A c \in Copies' : c.id # sign'[b].grant /\ c.token # sign'[b].grant
                      /\ refresher'.conn # sign'[b].grant /\ refresher'.answer # sign'[b].grant
                      /\ \A o \in Browsers : sign'[o].pc \in Pending /\ sign'[o].grant = sign'[b].grant
                           => o = b
    BY DEF PendingApart
  <2>1. sign[b].pc \in Pending /\ sign'[b].grant = sign[b].grant /\ sign'[b].token = sign[b].token
        /\ sign[b].grant \in Grants
    BY <1>1 DEF TokenInv, Known
  <2>2. NoConn # sign[b].grant /\ NoToken # sign[b].grant
    BY <1>1, <2>1
  <2> QED
    BY <1>0, <2>1, <2>2 DEF TokenInv, PendingApart, AnswerDropped, AnswerKept
<1>4. OneOwner'
  BY <1>0 DEF TokenInv, OneOwner
<1>5. AnswerApart'
  BY <1>0 DEF TokenInv, AnswerApart, AnswerDropped, AnswerKept, Replaced
<1> QED
  BY <1>2, <1>3, <1>4, <1>5 DEF TokenInv

LEMMA AcceptedKept ==
  ASSUME TokenInv, valid' = valid, cut \subseteq cut', connections' \subseteq connections,
         \A c \in connections' : Asked /\ refresher.conn = c.id /\ Replaced =>
            c.id \in cut' \/ (Asked' /\ refresher'.conn = c.id /\ Replaced')
  PROVE  StoredTokenAccepted'
BY DEF TokenInv, StoredTokenAccepted, Asked

-----------------------------------------------------------------------------
(* Sign-ins *)

LEMMA TokenSignIn ==
  ASSUME TypeInv, TokenInv, NEW b \in Browsers, SignInStep(b)
  PROVE  TokenInv'
<1> DEFINE s == sign[b]
<1>0. /\ sign \in [Browsers -> SignIn] /\ s \in SignIn /\ NoSignIn.pc = "idle" /\ NoSignIn \in SignIn
      /\ issued \in 0..MaxGrants /\ MaxGrants \in Nat /\ NoConn \notin Grants /\ NoToken \notin Grants
      /\ connections \subseteq Connection /\ refresher.queue \subseteq Connection
  BY NoSignInType, OidcSignInAssumption DEF TypeInv, TypeOK, Refresher
<1>o. \A o \in Browsers \ {b} : sign'[o] = sign[o]
  BY <1>0 DEF SignInStep, StartSignIn, RedirectClient, Callback, CallbackClient, GetClient,
          Abandon, Exchange, ReadAuto, FindUser, CreateUser, FindConn, CommitSignIn, Finish, Become
<1>1. ASSUME UNCHANGED <<connections, refresher, grantVars>>,
             sign'[b].pc \in Pending => /\ s.pc \in Pending
                                        /\ sign'[b].grant = s.grant /\ sign'[b].token = s.token
      PROVE  TokenInv'
  <2>1. UNCHANGED <<connections, refresher, issued, valid, cut>>
    BY <1>1 DEF grantVars
  <2>2. \A o \in Browsers : sign'[o].pc \in Pending =>
          sign[o].pc \in Pending /\ sign'[o].grant = sign[o].grant /\ sign'[o].token = sign[o].token
    BY <1>o, <1>1
  <2>3. StoredTokenAccepted'
    BY <2>1 DEF TokenInv, StoredTokenAccepted, Replaced
  <2>4. refresher'.queue \subseteq Copies /\ AnswerKept
    BY <2>1 DEF Copies, Asked, AnswerKept, Replaced, TokenInv, AnswerApart
  <2> QED
    BY <2>1, <2>2, <2>3, <2>4, TokensKept
<1>2. ASSUME Finish(b), UNCHANGED <<connections, refresher, grantVars>> PROVE TokenInv'
  BY <1>0, <1>1, <1>2 DEF Finish, Become, Pending
<1>3. ASSUME NEW next \in {"at_provider", "exchange"}, GetClient(b, next) PROVE TokenInv'
  <2>1. UNCHANGED <<connections, refresher, grantVars>>
    BY <1>3 DEF GetClient, accountVars
  <2>2. PICK e : Finish(b) \/ Become(b, [s EXCEPT !.pc = next, !.client = e])
    BY <1>3 DEF GetClient
  <2>3. sign'[b].pc \notin Pending
    BY <1>0, <2>2 DEF Finish, Become, SignIn, Pending
  <2> QED
    BY <1>1, <2>1, <2>3
<1>4. CASE StartSignIn(b) \/ Callback(b)
  <2>1. UNCHANGED <<connections, refresher, grantVars>>
    BY <1>4 DEF StartSignIn, Callback, accountVars
  <2>2. CASE StartSignIn(b)
    BY <1>0, <1>1, <2>1, <2>2 DEF StartSignIn, Become, SignIn, Pending
  <2>3. CASE Callback(b)
    BY <1>0, <1>1, <2>1, <2>3 DEF Callback, Become, SignIn, Pending
  <2> QED
    BY <1>4, <2>2, <2>3
<1>5. CASE Abandon(b)
  BY <1>2, <1>5 DEF Abandon, accountVars
<1>6. CASE ReadAuto(b)
  <2>1. UNCHANGED <<connections, refresher, grantVars>>
    BY <1>6 DEF ReadAuto, accountVars
  <2>2. PICK auto : Become(b, [s EXCEPT !.pc = "find_user", !.auto = auto])
    BY <1>6 DEF ReadAuto
  <2>3. s.pc \in Pending /\ sign'[b].grant = s.grant /\ sign'[b].token = s.token
    BY <1>0, <1>6, <2>2 DEF ReadAuto, At, Become, SignIn, Pending
  <2> QED
    BY <1>1, <2>1, <2>3
<1>7. CASE FindUser(b)
  <2>1. UNCHANGED <<connections, refresher, grantVars>>
    BY <1>7 DEF FindUser, accountVars
  <2>2. \/ Finish(b)
        \/ \E pc \in Pending : Become(b, [s EXCEPT !.pc = pc, !.auto = FALSE])
    BY <1>7 DEF FindUser, Pending
  <2>3. ASSUME NEW pc \in Pending, Become(b, [s EXCEPT !.pc = pc, !.auto = FALSE])
        PROVE  s.pc \in Pending /\ sign'[b].grant = s.grant /\ sign'[b].token = s.token
    BY <1>0, <1>7, <2>3 DEF FindUser, At, Become, SignIn, Pending
  <2> QED
    BY <1>1, <1>2, <2>1, <2>2, <2>3
<1>8. CASE CreateUser(b)
  <2>1. UNCHANGED <<connections, refresher, grantVars>>
    BY <1>8 DEF CreateUser
  <2>2. Finish(b) \/ Become(b, [s EXCEPT !.pc = "commit"])
    BY <1>8 DEF CreateUser
  <2>3. ASSUME Become(b, [s EXCEPT !.pc = "commit"])
        PROVE  s.pc \in Pending /\ sign'[b].grant = s.grant /\ sign'[b].token = s.token
    BY <1>0, <1>8, <2>3 DEF CreateUser, At, Become, SignIn, Pending
  <2> QED
    BY <1>1, <1>2, <2>1, <2>2, <2>3
<1>9. CASE FindConn(b)
  <2>1. UNCHANGED <<connections, refresher, grantVars>>
    BY <1>9 DEF FindConn
  <2>2. \/ Finish(b)
        \/ Become(b, [s EXCEPT !.pc = "commit"])
        \/ \E c : Become(b, [s EXCEPT !.pc = "commit", !.conn = c])
    BY <1>9 DEF FindConn
  <2>3. ASSUME Become(b, [s EXCEPT !.pc = "commit"])
        PROVE  s.pc \in Pending /\ sign'[b].grant = s.grant /\ sign'[b].token = s.token
    BY <1>0, <1>9, <2>3 DEF FindConn, At, Become, SignIn, Pending
  <2>4. ASSUME NEW c, Become(b, [s EXCEPT !.pc = "commit", !.conn = c])
        PROVE  s.pc \in Pending /\ sign'[b].grant = s.grant /\ sign'[b].token = s.token
    BY <1>0, <1>9, <2>4 DEF FindConn, At, Become, SignIn, Pending
  <2> QED
    BY <1>1, <1>2, <2>1, <2>2, <2>3, <2>4
<1>10. CASE Exchange(b)
  <2>1. issued' = issued + 1 /\ UNCHANGED <<connections, refresher, cut>>
    BY <1>10 DEF Exchange, accountVars
  <2>2. PICK u \in Accounts, token \in {issued + 1, NoToken} :
          /\ Become(b, [NoSignIn EXCEPT !.pc = "auto", !.id = s.id, !.user = u,
                                        !.grant = issued + 1, !.token = token])
          /\ valid' = valid \cup ({token} \ {NoToken})
    BY <1>10 DEF Exchange
  <2>3. /\ sign'[b].grant = issued + 1 /\ sign'[b].token = token
        /\ sign'[b].pc \in Pending /\ s.pc \notin Pending
    BY <1>0, <1>10, <2>2 DEF Exchange, At, Become, SignIn, Pending
  <2>4. /\ issued + 1 \in 1..issued' /\ 1..issued \subseteq 1..issued' /\ issued + 1 \notin 1..issued
        /\ issued + 1 \in Grants
    BY <1>0, <1>10, <2>1 DEF Exchange, Grants
  <2>5. Copies' = Copies /\ Asked' = Asked /\ valid \subseteq valid'
    BY <2>1, <2>2 DEF Copies, Asked
  <2>6. Known'
    BY <1>o, <2>1, <2>2, <2>3, <2>4, <2>5 DEF TokenInv, Known
  <2>7. PendingApart'
    <3>1. ASSUME NEW o \in Browsers \ {b}, sign'[o].pc \in Pending
          PROVE  /\ sign'[o] = sign[o] /\ sign[o].pc \in Pending /\ sign[o].grant # issued + 1
                 /\ sign[o].token \in valid' \cup {NoToken}
      BY <1>o, <2>4, <2>5, <3>1 DEF TokenInv, Known, PendingApart
    <3>2. /\ \A c \in Copies : c.id # issued + 1 /\ c.token # issued + 1
          /\ refresher.conn # issued + 1 /\ refresher.answer # issued + 1
      BY <1>0, <2>4 DEF TokenInv, Known
    <3>3. token \in valid' \cup {NoToken}
      BY <2>2
    <3> QED
      BY <2>1, <2>3, <2>5, <3>1, <3>2, <3>3 DEF TokenInv, PendingApart
  <2>8. OneOwner' /\ AnswerApart' /\ StoredTokenAccepted'
    BY <2>1, <2>5 DEF TokenInv, OneOwner, AnswerApart, StoredTokenAccepted, Replaced
  <2> QED
    BY <2>6, <2>7, <2>8 DEF TokenInv
<1>11. CASE CommitSignIn(b)
  <2>1. /\ s.pc \in Pending /\ sign'[b].pc \notin Pending
        /\ UNCHANGED <<refresher, issued, valid>> /\ cut' = cut \ {s.conn}
    BY <1>0, <1>11 DEF CommitSignIn, At, Finish, Become, Pending
  <2>2. /\ s.grant \in 1..issued /\ s.token \in {s.grant, NoToken} /\ s.token \in valid \cup {NoToken}
        /\ s.grant # NoToken /\ 1..issued \subseteq Grants
        /\ \A c \in Copies : c.id # s.grant /\ c.token # s.grant
        /\ refresher.conn # s.grant /\ refresher.answer # s.grant
    BY <1>0, <2>1 DEF TokenInv, Known, PendingApart, Grants
  <2> DEFINE row == IF s.conn = NoConn THEN s.grant ELSE s.conn
             Written(c) == /\ c.token = s.token /\ c.id = row
                           /\ c.id = s.grant \/ \E d \in connections : d.id = c.id
  <2>3. ASSUME NEW c \in connections'
        PROVE  (c \in connections /\ c.id # s.conn) \/ Written(c)
    <3>1. CASE s.conn = NoConn
      <4>1. \A d \in connections : d.id # NoConn
        BY <1>0 DEF Connection
      <4> QED
        BY <1>11, <2>3, <3>1, <4>1 DEF CommitSignIn
    <3>2. CASE s.conn # NoConn
      <4>1. PICK d \in connections : c = IF d.id = s.conn THEN [d EXCEPT !.token = s.token] ELSE d
        BY <1>11, <2>3, <3>2 DEF CommitSignIn
      <4>2. d \in Connection
        BY <1>0
      <4> QED
        BY <3>2, <4>1, <4>2 DEF Connection
    <3> QED
      BY <3>1, <3>2
  <2>4. \A c \in Copies' : c \in Copies \/ Written(c)
    BY <2>1, <2>3 DEF Copies
  <2>5. ASSUME NEW c, Written(c)
        PROVE  /\ c.id \in 1..issued /\ c.token \in {s.grant, NoToken}
               /\ \A o \in Browsers : sign[o].pc \in Pending /\ o # b =>
                    c.id # sign[o].grant /\ c.token # sign[o].grant
    <3>1. c.id = s.grant \/ \E d \in Copies : d.id = c.id
      BY <2>5 DEF Copies
    <3>2. \A o \in Browsers : sign[o].pc \in Pending => sign[o].grant \in Grants
      BY <2>2 DEF TokenInv, Known
    <3>3. c.token \in {s.grant, NoToken}
      BY <2>2, <2>5
    <3> QED
      BY <1>0, <2>1, <2>2, <3>1, <3>2, <3>3 DEF TokenInv, Known, PendingApart
  <2>6. \A c, d : Written(c) /\ Written(d) => c.id = d.id /\ c.token = d.token
    OBVIOUS
  <2>7. \A c : Written(c) => c.token \in valid \cup {NoToken}
    BY <2>2
  <2> HIDE DEF Written
  <2>8. Known'
    <3>1. \A o \in Browsers : sign'[o].pc \in Pending => sign'[o] = sign[o] /\ sign[o].pc \in Pending
      BY <1>o, <2>1
    <3>2. \A c \in Copies' : c.id \in 1..issued /\ c.token \in (1..issued) \cup {NoToken}
      BY <2>2, <2>4, <2>5 DEF TokenInv, Known
    <3> QED
      BY <2>1, <3>1, <3>2 DEF TokenInv, Known
  <2>9. PendingApart'
    <3>1. ASSUME NEW o \in Browsers, sign'[o].pc \in Pending
          PROVE  /\ sign'[o] = sign[o] /\ sign[o].pc \in Pending /\ o # b
                 /\ \A c \in Copies' : c.id # sign[o].grant /\ c.token # sign[o].grant
      BY <1>o, <2>1, <2>4, <2>5, <3>1 DEF TokenInv, PendingApart
    <3> QED
      BY <2>1, <3>1 DEF TokenInv, PendingApart
  <2>10. OneOwner'
    <3> SUFFICES ASSUME NEW c \in Copies', NEW d \in Copies', c.token = d.token, c.token # NoToken
                 PROVE  c.id = d.id
      BY DEF OneOwner
    <3> QED
      BY <2>2, <2>4, <2>5, <2>6 DEF TokenInv, OneOwner
  <2>11. AnswerApart'
    <3>1. valid \subseteq Grants
      BY DEF TypeInv, TypeOK
    <3> QED
      BY <1>0, <2>1, <2>2, <2>4, <2>5, <3>1 DEF TokenInv, AnswerApart, Asked, Replaced
  <2>12. StoredTokenAccepted'
    BY <2>1, <2>3, <2>7 DEF TokenInv, StoredTokenAccepted, Replaced
  <2> QED
    BY <2>8, <2>9, <2>10, <2>11, <2>12 DEF TokenInv
<1> QED
  BY <1>3, <1>4, <1>5, <1>6, <1>7, <1>8, <1>9, <1>10, <1>11 DEF SignInStep, RedirectClient, CallbackClient

-----------------------------------------------------------------------------
(* The refresh task *)

LEMMA TokenUse ==
  ASSUME TypeInv, TokenInv, refresher.pc = "next", NEW c \in refresher.queue, UseToken(c),
         UNCHANGED <<connections, sign>>
  PROVE  TokenInv'
<1>0. /\ refresher \in Refresher /\ c \in Connection /\ c.id \in Grants /\ c \in Copies
      /\ issued \in 0..MaxGrants /\ MaxGrants \in Nat /\ NoToken \notin Grants /\ valid \subseteq Grants
      /\ sign \in [Browsers -> SignIn]
  BY OidcSignInAssumption DEF TypeInv, TypeOK, Refresher, Connection, Copies
<1>1. PICK answer \in {issued + 1, c.token} :
        /\ answer # c.token => issued < MaxGrants
        /\ refresher' = [refresher EXCEPT !.pc = "get", !.queue = @ \ {c}, !.conn = c.id,
                                          !.used = c.token, !.answer = answer]
        /\ IF answer = c.token THEN UNCHANGED <<issued, valid>>
           ELSE issued' = answer /\ valid' = (valid \ {c.token}) \cup {answer}
  BY DEF UseToken
<1>2. /\ refresher'.queue = refresher.queue \ {c} /\ refresher'.conn = c.id
      /\ refresher'.answer = answer /\ refresher'.used = c.token /\ refresher'.pc = "get"
      /\ Asked' /\ ~ Asked
  BY <1>0, <1>1 DEF Refresher, Asked
<1>3. Copies' \subseteq Copies /\ c.token \in valid /\ c.token # NoToken /\ cut' = cut
  BY <1>0, <1>2 DEF Copies, UseToken
<1>4. CASE answer = c.token
  <2>1. issued' = issued /\ valid' = valid
    BY <1>1, <1>4
  <2>2. Known' /\ OneOwner' /\ StoredTokenAccepted'
    BY <1>0, <1>2, <1>3, <1>4, <2>1 DEF TokenInv, Known, OneOwner, StoredTokenAccepted, Asked
  <2>4. AnswerApart'
    BY <1>0, <1>2, <1>3, <1>4, <2>1 DEF TokenInv, OneOwner, AnswerApart, Replaced
  <2>3. PendingApart'
    <3>1. \A b \in Browsers : sign[b].pc \in Pending => sign[b].grant # c.token /\ sign[b].grant # c.id
      BY <1>0 DEF TokenInv, PendingApart
    <3> QED
      BY <1>2, <1>3, <1>4, <2>1, <3>1 DEF TokenInv, PendingApart
  <2> QED
    BY <2>2, <2>3, <2>4 DEF TokenInv
<1>5. CASE answer # c.token
  <2>1. /\ issued' = issued + 1 /\ answer = issued + 1 /\ valid' = (valid \ {c.token}) \cup {issued + 1}
        /\ issued + 1 \in 1..issued' /\ 1..issued \subseteq 1..issued' /\ issued + 1 \notin 1..issued
        /\ issued + 1 # NoToken
    BY <1>0, <1>1, <1>5 DEF Grants
  <2>2. Known'
    BY <1>0, <1>2, <1>3, <2>1 DEF TokenInv, Known
  <2>3. PendingApart'
    <3> SUFFICES ASSUME NEW b \in Browsers, sign[b].pc \in Pending
                 PROVE  /\ sign[b].token \in valid' \cup {NoToken}
                        /\ c.id # sign[b].grant /\ issued + 1 # sign[b].grant
      BY <1>2, <1>3, <2>1 DEF TokenInv, PendingApart
    <3>1. /\ sign[b].grant \in 1..issued /\ sign[b].token \in {sign[b].grant, NoToken}
          /\ sign[b].token \in valid \cup {NoToken} /\ c.id # sign[b].grant /\ c.token # sign[b].grant
      BY <1>0 DEF TokenInv, Known, PendingApart
    <3> QED
      BY <1>3, <2>1, <3>1
  <2>4. OneOwner'
    BY <1>3 DEF TokenInv, OneOwner
  <2>5. AnswerApart'
    BY <1>2, <1>3, <2>1 DEF TokenInv, Known, AnswerApart, Replaced
  <2>6. StoredTokenAccepted'
    <3> SUFFICES ASSUME NEW d \in connections
                 PROVE  d.token \in valid' \cup {NoToken} \/ d.id \in cut' \/ d.id = c.id
      BY <1>2, <1>5, <2>1 DEF StoredTokenAccepted, Asked, Replaced
    <3>1. d.token \in valid \cup {NoToken} \/ d.id \in cut
      BY <1>2 DEF TokenInv, StoredTokenAccepted, Asked
    <3>2. d.token = c.token => d.id = c.id
      BY <1>0, <1>3 DEF TokenInv, OneOwner, Copies
    <3> QED
      BY <1>3, <2>1, <3>1, <3>2
  <2> QED
    BY <2>2, <2>3, <2>4, <2>5, <2>6 DEF TokenInv
<1> QED
  BY <1>4, <1>5

LEMMA TokenStored ==
  ASSUME TypeInv, TokenInv, CommitRefresh
  PROVE  TokenInv'
<1>0. /\ refresher \in Refresher /\ connections \subseteq Connection /\ NoToken \notin Grants
      /\ 1..issued \subseteq Grants /\ NoConn \notin Grants
      /\ Asked /\ refresher.conn \in Grants /\ UNCHANGED <<sign, issued, valid>>
      /\ connections' = {StoreToken(c) : c \in connections} /\ refresher' = Rest(refresher.queue)
      /\ refresher.pc = "commit" /\ valid \subseteq Grants
      /\ cut' = cut \ (IF refresher.answer # refresher.loaded THEN {refresher.conn} ELSE {})
  BY OidcSignInAssumption
     DEF TypeInv, TypeOK, RefreshHeld, CommitRefresh, Asked, Refresher, Grants
<1>1. refresher'.conn = NoConn /\ refresher'.answer = NoToken /\ ~ Asked'
      /\ refresher'.queue \subseteq refresher.queue
  BY <1>0 DEF Rest, IdleRefresher, Asked, Refresher
<1>2. ASSUME NEW c \in connections'
      PROVE  \E d \in connections :
               /\ c.id = d.id
               /\ \/ c = d /\ (d.id = refresher.conn => refresher.answer = refresher.loaded)
                  \/ d.id = refresher.conn /\ c.token = refresher.answer
  <2>1. PICK d \in connections : c = StoreToken(d)
    BY <1>0, <1>2
  <2>2. d \in Connection
    BY <1>0
  <2> QED
    BY <2>1, <2>2 DEF StoreToken, Connection
<1>3. ASSUME NEW c \in Copies'
      PROVE  \/ c \in Copies
             \/ /\ c.token = refresher.answer /\ c.id = refresher.conn
                /\ \E d \in Copies : d.id = c.id
  BY <1>1, <1>2, <1>3 DEF Copies
<1>4. Known'
  BY <1>0, <1>1, <1>3 DEF TokenInv, Known
<1>5. PendingApart'
  <2>1. \A b \in Browsers : sign[b].pc \in Pending => sign[b].grant \in Grants
    BY <1>0 DEF TokenInv, Known
  <2> QED
    BY <1>0, <1>1, <1>3, <2>1 DEF TokenInv, PendingApart
<1>6. OneOwner'
  <2> SUFFICES ASSUME NEW c \in Copies', NEW d \in Copies', c.token = d.token, c.token # NoToken
               PROVE  c.id = d.id
    BY DEF OneOwner
  <2> QED
    BY <1>0, <1>3 DEF TokenInv, OneOwner, AnswerApart
<1>7. AnswerApart'
  BY <1>1 DEF AnswerApart
<1>8. StoredTokenAccepted'
  <2> SUFFICES ASSUME NEW c \in connections' PROVE c.token \in valid \cup {NoToken} \/ c.id \in cut'
    BY <1>0 DEF StoredTokenAccepted
  <2> QED
    BY <1>0, <1>2 DEF TokenInv, StoredTokenAccepted, AnswerApart, Asked
<1> QED
  BY <1>4, <1>5, <1>6, <1>7, <1>8 DEF TokenInv

LEMMA TokenRefresher ==
  ASSUME TypeInv, TokenInv, RefresherStep
  PROVE  TokenInv'
<1>0. refresher \in Refresher /\ connections \subseteq Connection
  BY DEF TypeInv, TypeOK
<1>1. ASSUME UNCHANGED <<connections, sign, issued, valid>>, cut \subseteq cut',
             refresher'.queue \subseteq Copies,
             AnswerDropped \/ AnswerKept,
             \A c \in connections : Asked /\ refresher.conn = c.id /\ Replaced =>
               c.id \in cut' \/ (Asked' /\ refresher'.conn = c.id /\ Replaced')
      PROVE  TokenInv'
  <2>1. StoredTokenAccepted'
    BY <1>1, AcceptedKept
  <2> QED
    BY <1>1, <2>1, TokensKept
<1>2. ASSUME NEW q \in SUBSET Copies, refresher' = Rest(q)
      PROVE  refresher'.queue \subseteq Copies /\ AnswerDropped
  BY <1>0, <1>2 DEF Rest, IdleRefresher, Refresher, AnswerDropped, Asked
<1>3. CASE StartCycle
  <2>1. refresher'.queue = refresher.queue /\ AnswerKept /\ ~ Asked
    BY <1>0, <1>3 DEF StartCycle, Refresher, Asked, AnswerKept
  <2> QED
    BY <1>1, <1>3, <2>1 DEF StartCycle, accountVars, grantVars, Copies
<1>4. CASE LoadConnections
  <2>1. ~ Asked /\ refresher'.queue \subseteq connections /\ (AnswerDropped \/ AnswerKept)
    BY <1>0, <1>4 DEF LoadConnections, Refresher, Asked, IdleRefresher, AnswerDropped, AnswerKept
  <2> QED
    BY <1>1, <1>4, <2>1 DEF LoadConnections, accountVars, grantVars, Copies
<1>5. CASE RefreshToken
  <2>1. PICK c \in refresher.queue : SkipConnection(c) \/ UseToken(c)
    BY <1>5 DEF RefreshToken
  <2>2. CASE SkipConnection(c)
    <3>1. ~ Asked
      BY <1>5 DEF RefreshToken, Asked
    <3> QED
      BY <1>1, <1>2, <1>5, <2>2, <3>1 DEF RefreshToken, SkipConnection, accountVars, grantVars, Copies
  <2>3. CASE UseToken(c)
    BY <1>5, <2>3, TokenUse DEF RefreshToken, accountVars
  <2> QED
    BY <2>1, <2>2, <2>3
<1>6. CASE GetConnection
  <2>1. ASSUME NEW c \in connections,
               refresher' = [refresher EXCEPT !.pc = "commit", !.loaded = c.token]
        PROVE  TokenInv'
    <3>1. /\ refresher'.queue = refresher.queue /\ refresher'.conn = refresher.conn
          /\ refresher'.answer = refresher.answer /\ refresher'.used = refresher.used
          /\ refresher'.loaded = c.token /\ Asked /\ Asked' /\ c \in Copies
      BY <1>0, <1>6, <2>1 DEF GetConnection, Refresher, Asked, Copies
    <3>2. AnswerKept /\ Replaced' = Replaced
      BY <3>1 DEF AnswerKept, Replaced, TokenInv, AnswerApart
    <3> QED
      BY <1>1, <1>6, <3>1, <3>2 DEF GetConnection, accountVars, grantVars, Copies
  <2>2. ASSUME \A c \in connections : c.id # refresher.conn, refresher' = Rest(refresher.queue)
        PROVE  TokenInv'
    BY <1>1, <1>2, <1>6, <2>2 DEF GetConnection, accountVars, grantVars, Copies
  <2> QED
    BY <1>6, <2>1, <2>2 DEF GetConnection
<1>7. CASE LoseAnswer
  <2>1. UNCHANGED <<connections, sign, issued, valid>> /\ refresher' = Rest(refresher.queue)
        /\ cut \subseteq cut' /\ (Replaced => refresher.conn \in cut')
    BY <1>7 DEF LoseAnswer, accountVars
  <2>2. refresher'.queue \subseteq Copies /\ AnswerDropped
    BY <1>2, <2>1 DEF Copies
  <2> QED
    BY <1>1, <2>1, <2>2
<1>8. CASE CommitRefresh
  BY <1>8, TokenStored
<1> QED
  BY <1>3, <1>4, <1>5, <1>6, <1>7, <1>8 DEF RefresherStep

LEMMA TokenStep ==
  ASSUME TypeInv, TokenInv, [Next]_allVars
  PROVE  TokenInv'
<1>0. sign \in [Browsers -> SignIn] /\ NoSignIn.pc \notin Pending /\ Copies' = connections' \cup refresher'.queue
  BY NoSignInType DEF TypeInv, TypeOK, Pending, Copies
<1>1. CASE UNCHANGED <<connections, refresher, sign, grantVars>>
  BY <1>1 DEF grantVars, TokenInv, Known, PendingApart, OneOwner, AnswerApart, StoredTokenAccepted,
              Copies, Asked, Replaced
<1>2. CASE \E b \in Browsers : SignInStep(b)
  BY <1>2, TokenSignIn
<1>3. ASSUME NEW u \in Accounts, DeleteUser(u) PROVE TokenInv'
  <2>1. /\ UNCHANGED <<refresher, issued, valid, cut>> /\ connections' \subseteq connections
        /\ refresher'.queue \subseteq Copies /\ Asked' = Asked /\ Replaced' = Replaced /\ AnswerKept
    BY <1>3 DEF DeleteUser, grantVars, Copies, Asked, Replaced, AnswerKept, TokenInv, AnswerApart
  <2>2. \A b \in Browsers : sign'[b].pc = sign[b].pc /\ sign'[b].grant = sign[b].grant
                            /\ sign'[b].token = sign[b].token
    BY <1>0, <1>3 DEF DeleteUser, SignIn
  <2>3. StoredTokenAccepted'
    BY <2>1, AcceptedKept
  <2> QED
    BY <2>1, <2>2, <2>3, TokensKept
<1>4. ASSUME NEW u \in Accounts, AddUser(u) \/ SetDisabled(u) PROVE TokenInv'
  BY <1>1, <1>4 DEF AddUser, SetDisabled
<1>5. CASE RefresherStep
  BY <1>5, TokenRefresher
<1>6. CASE Crash
  <2>1. UNCHANGED <<connections, issued, valid>> /\ refresher' = IdleRefresher
        /\ cut' = cut \cup (IF Asked /\ Replaced THEN {refresher.conn} ELSE {})
    BY <1>6 DEF Crash, Asked
  <2>2. refresher'.queue = {} /\ AnswerDropped
    BY <2>1 DEF IdleRefresher, AnswerDropped, Asked
  <2>3. \A b \in Browsers : sign'[b].pc \notin Pending
    BY <1>0, <1>6 DEF Crash, At, Pending
  <2>4. StoredTokenAccepted'
    <3>1. cut \subseteq cut' /\ (Asked /\ Replaced => refresher.conn \in cut')
      BY <2>1
    <3> QED
      BY <2>1, <3>1, AcceptedKept
  <2> QED
    BY <2>1, <2>2, <2>3, <2>4, TokensKept
<1> QED
  BY <1>1, <1>2, <1>3, <1>4, <1>5, <1>6 DEF Next, allVars, accountVars

\* The token stored for a connection is accepted by its provider, or its
\* successor is about to be stored or was lost on the way: no overlap of
\* refreshes, sign-ins, deletions and crashes leaves a used-up token behind.
THEOREM StoredTokens == Spec => []StoredTokenAccepted
<1>1. TypeInv /\ TokenInv /\ [Next]_allVars => TokenInv'
  BY TokenStep
<1>2. TokenInv => StoredTokenAccepted
  BY DEF TokenInv
<1> QED
  BY <1>1, <1>2, TokenInit, TypeCorrect, PTL DEF Spec

=============================================================================
