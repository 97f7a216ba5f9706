-------------------------- MODULE VpnSessionProofs --------------------------
(***************************************************************************)
(* For any users, methods, tabs and devices: no password sign-in passes    *)
(* over an authenticator, and the expiry disconnects nobody whose session  *)
(* has not been over.                                                      *)
(*                                                                         *)
(* The ghost fields say which codes a sign-in must not pass over; Kept     *)
(* says that the account still has them wherever a page or the storage     *)
(* remembers them, and that what a page has read of the methods since      *)
(* includes them.  Chosen says that what a pass has read, however old,     *)
(* concerns only users whose session has been over.                        *)
(***************************************************************************)
EXTENDS VpnSession, TLAPS

TabOK(p) ==
  /\ p.pc \notin {"idle", "login"} => p.user \in Users
  /\ p.user \in Users => p.kept \subseteq mfa[p.user]
  /\ p.pc = "update" => p.kept \subseteq p.methods

StorageOK(s) == s.pending \in Users => s.kept \subseteq mfa[s.pending]

Kept == (\A t \in Tabs : TabOK(tabs[t])) /\ StorageOK(storage)

Chosen ==
  /\ due \subseteq lapsed
  /\ \A d \in rows : Owner[d] \in lapsed
  /\ \A u \in Users : session[u] = "over" => u \in lapsed

SignInInv == SignInTypeOK /\ Kept /\ SecondFactorAsked

-----------------------------------------------------------------------------
(* The tabs and the storage *)

TabsTyped == tabs \in [Tabs -> Tab] /\ \A t \in Tabs : TabOK(tabs[t])

LEMMA BlankType == Blank \in Tab /\ TabOK(Blank)
BY SignInAssumption DEF Blank, Tab, MaybeUser, TabOK

\* A page that gets a well-formed local state leaves the others alone.
LEMMA BecomeType ==
  ASSUME TabsTyped, NEW t \in Tabs, NEW p \in Tab, TabOK(p), Become(t, p), UNCHANGED mfa
  PROVE  TabsTyped'
BY DEF TabsTyped, Become, TabOK

LEMMA LeaveType ==
  ASSUME TabsTyped, NEW t \in Tabs, Leave(t), UNCHANGED mfa
  PROVE  TabsTyped'
BY BlankType, BecomeType DEF Leave

LEMMA TabType ==
  ASSUME SignInInv, NEW t \in Tabs
  PROVE  tabs[t] \in Tab /\ TabOK(tabs[t]) /\ TabsTyped
BY DEF SignInInv, SignInTypeOK, Kept, TabsTyped

\* Signing in with nothing owed keeps the storage well formed.
LEMMA SignedInType ==
  ASSUME storage \in Storage, StorageOK(storage), NEW u \in Users,
         storage' = SignedIn(u, {}), UNCHANGED mfa
  PROVE  storage' \in Storage /\ StorageOK(storage)' /\ SecondFactorAsked'
BY DEF SignedIn, Storage, StorageOK, MaybeUser, SecondFactorAsked

LEMMA CompleteLoginType ==
  ASSUME SignInInv, NEW t \in Tabs, tabs[t].user \in Users,
         CompleteLogin(t, {}), UNCHANGED mfa
  PROVE  TabsTyped' /\ storage' \in Storage /\ StorageOK(storage)' /\ SecondFactorAsked'
<1>1. TabsTyped'
  BY TabType, LeaveType DEF CompleteLogin
<1>2. storage \in Storage
  BY DEF SignInInv, SignInTypeOK
<1> QED
  BY <1>1, <1>2, SignInAssumption
  DEF CompleteLogin, SignedIn, Storage, StorageOK, MaybeUser, SecondFactorAsked

LEMMA RecordSignInType ==
  ASSUME SignInInv, NEW u \in Users, RecordSignIn(u)
  PROVE  /\ status' \in [Users -> {"new", "active", "disabled", "gone"}]
         /\ session' \in [Users -> {"never", "valid", "over"}]
         /\ UNCHANGED <<mfa, links>>
BY DEF RecordSignIn, SignInInv, SignInTypeOK

\* What a step that leaves the methods alone has to show.
LEMMA StepType ==
  ASSUME SignInInv, TabsTyped', storage' \in Storage, StorageOK(storage)', SecondFactorAsked',
         status' \in [Users -> {"new", "active", "disabled", "gone"}],
         session' \in [Users -> {"never", "valid", "over"}],
         links' \subseteq Users, UNCHANGED mfa
  PROVE  SignInInv'
BY DEF SignInInv, SignInTypeOK, Kept, TabsTyped

\* A step of a page that changes neither the accounts nor the storage.
LEMMA PageStepType ==
  ASSUME SignInInv, NEW t \in Tabs, NEW p \in Tab, TabOK(p), Become(t, p),
         UNCHANGED <<accountVars, storage>>
  PROVE  SignInInv'
<1>1. TabsTyped' BY TabType, BecomeType DEF accountVars
<1> QED
  BY <1>1, StepType
  DEF SignInInv, SignInTypeOK, Kept, accountVars, StorageOK, SecondFactorAsked

LEMMA LeaveStepType ==
  ASSUME SignInInv, NEW t \in Tabs, Leave(t), UNCHANGED <<accountVars, storage>>
  PROVE  SignInInv'
BY BlankType, PageStepType DEF Leave

-----------------------------------------------------------------------------
(* The steps of a page *)

LEMMA OpenLoginKeeps ==
  ASSUME SignInInv, NEW t \in Tabs, OpenLogin(t)
  PROVE  SignInInv'
<1> DEFINE p == [Blank EXCEPT !.pc = "login"]
<1>1. p \in Tab /\ TabOK(p) BY SignInAssumption DEF Blank, Tab, MaybeUser, TabOK
<1> QED BY <1>1, PageStepType DEF OpenLogin

LEMMA PasswordAcceptedKeeps ==
  ASSUME SignInInv, NEW t \in Tabs, PasswordAccepted(t)
  PROVE  SignInInv'
<1> DEFINE p(u) == [Blank EXCEPT !.pc = "password_ok", !.user = u, !.kept = mfa[u] \cap Totp]
<1>1. ASSUME NEW u \in Users
      PROVE  p(u) \in Tab /\ TabOK(p(u))
  BY SignInAssumption DEF Blank, Tab, MaybeUser, TabOK
<1> QED BY <1>1, PageStepType DEF PasswordAccepted

LEMMA ReadMethodsKeeps ==
  ASSUME SignInInv, NEW t \in Tabs, ReadMethods(t)
  PROVE  SignInInv'
<1> DEFINE p == [tabs[t] EXCEPT !.pc = "update", !.methods = mfa[tabs[t].user]]
<1>1. tabs[t] \in Tab /\ TabOK(tabs[t]) /\ tabs[t].user \in Users
  BY TabType DEF ReadMethods, At, TabOK
<1>2. mfa[tabs[t].user] \subseteq Methods
  BY <1>1 DEF SignInInv, SignInTypeOK
<1>3. p \in Tab /\ TabOK(p)
  BY <1>1, <1>2 DEF Tab, TabOK
<1> QED BY <1>3, PageStepType DEF ReadMethods

LEMMA FinishLoginKeeps ==
  ASSUME SignInInv, NEW t \in Tabs, FinishLogin(t)
  PROVE  SignInInv'
<1> DEFINE u == tabs[t].user
<1>1. /\ tabs[t] \in Tab /\ TabOK(tabs[t]) /\ TabsTyped
      /\ u \in Users /\ tabs[t].kept \subseteq tabs[t].methods
      /\ tabs[t].kept \subseteq mfa[u] /\ tabs[t].kept \subseteq Totp
  BY TabType DEF FinishLogin, At, TabOK, Tab
<1>2. /\ status' \in [Users -> {"new", "active", "disabled", "gone"}]
      /\ session' \in [Users -> {"never", "valid", "over"}]
      /\ UNCHANGED <<mfa, links>>
  BY <1>1, RecordSignInType DEF FinishLogin
<1>3. TabsTyped' BY <1>1, <1>2, LeaveType DEF FinishLogin
<1>4. storage \in Storage /\ StorageOK(storage) /\ storage.owed = {} /\ links \subseteq Users
  BY DEF SignInInv, SignInTypeOK, Kept, SecondFactorAsked
<1>5. storage' \in Storage /\ StorageOK(storage)' /\ SecondFactorAsked'
  <2>1. CASE tabs[t].methods = {}
    <3>1. tabs[t].kept = {} BY <1>1, <2>1
    <3>2. storage' = SignedIn(u, {}) BY <2>1, <3>1 DEF FinishLogin
    <3> QED BY <1>1, <1>2, <1>4, <3>2, SignedInType
  <2>2. CASE tabs[t].methods # {}
    <3>1. storage' = [storage EXCEPT !.pending = u, !.kept = tabs[t].kept]
      BY <2>2 DEF FinishLogin
    <3> QED
      BY <1>1, <1>2, <1>4, <3>1 DEF Storage, StorageOK, MaybeUser, SecondFactorAsked
  <2> QED BY <2>1, <2>2
<1> QED BY <1>2, <1>3, <1>4, <1>5, StepType

LEMMA OpenChallengeKeeps ==
  ASSUME SignInInv, NEW t \in Tabs, OpenChallenge(t)
  PROVE  SignInInv'
<1> DEFINE p == [Blank EXCEPT !.pc = "challenge_load", !.user = storage.pending,
                              !.kept = storage.kept]
<1>1. /\ storage.pending \in Users /\ storage.kept \subseteq mfa[storage.pending]
      /\ storage.kept \subseteq Totp
  BY DEF OpenChallenge, SignInInv, SignInTypeOK, Storage, MaybeUser, Kept, StorageOK
<1>2. p \in Tab /\ TabOK(p)
  BY <1>1, SignInAssumption DEF Blank, Tab, MaybeUser, TabOK
<1> QED BY <1>2, PageStepType DEF OpenChallenge

LEMMA LoadChallengeKeeps ==
  ASSUME SignInInv, NEW t \in Tabs, LoadChallenge(t)
  PROVE  SignInInv'
<1> DEFINE codes == mfa[tabs[t].user] \cap Totp
           p == [tabs[t] EXCEPT !.pc = "challenge", !.methods = codes]
<1>1. /\ tabs[t] \in Tab /\ TabOK(tabs[t]) /\ tabs[t].user \in Users
      /\ tabs[t].kept \subseteq codes
  BY TabType DEF LoadChallenge, At, TabOK, Tab
<1>2. CASE codes = {}
  <2>1. CompleteLogin(t, {}) /\ UNCHANGED accountVars
    BY <1>1, <1>2 DEF LoadChallenge
  <2>2. TabsTyped' /\ storage' \in Storage /\ StorageOK(storage)' /\ SecondFactorAsked'
    BY <1>1, <2>1, CompleteLoginType DEF accountVars
  <2> QED BY <2>1, <2>2, StepType DEF SignInInv, SignInTypeOK, accountVars
<1>3. CASE codes # {}
  <2>1. codes \subseteq Methods BY SignInAssumption
  <2>2. p \in Tab /\ TabOK(p) BY <1>1, <2>1 DEF Tab, TabOK
  <2> QED BY <1>3, <2>2, PageStepType DEF LoadChallenge
<1> QED BY <1>2, <1>3

LEMMA EnterCodeKeeps ==
  ASSUME SignInInv, NEW t \in Tabs, EnterCode(t)
  PROVE  SignInInv'
<1> DEFINE p(m) == [tabs[t] EXCEPT !.pc = "code_ok", !.methods = {m}]
<1>1. tabs[t] \in Tab /\ TabOK(tabs[t]) /\ At(t, "challenge")
  BY TabType DEF EnterCode
<1>2. ASSUME NEW m \in tabs[t].methods
      PROVE  p(m) \in Tab /\ TabOK(p(m))
  BY <1>1 DEF Tab, TabOK, At
<1> QED BY <1>2, PageStepType DEF EnterCode

LEMMA CodeAcceptedKeeps ==
  ASSUME SignInInv, NEW t \in Tabs, CodeAccepted(t)
  PROVE  SignInInv'
<1>1. tabs[t].user \in Users
  BY TabType DEF CodeAccepted, At, TabOK
<1>2. CASE CompleteLogin(t, {})
  <2>1. TabsTyped' /\ storage' \in Storage /\ StorageOK(storage)' /\ SecondFactorAsked'
    BY <1>1, <1>2, CompleteLoginType DEF CodeAccepted, accountVars
  <2> QED BY <2>1, StepType DEF CodeAccepted, SignInInv, SignInTypeOK, accountVars
<1>3. CASE Leave(t) /\ UNCHANGED storage
  BY <1>3, LeaveStepType DEF CodeAccepted
<1> QED BY <1>2, <1>3 DEF CodeAccepted

LEMMA ClearKeeps ==
  ASSUME SignInInv, NEW t \in Tabs, Clear(t)
  PROVE  SignInInv'
<1>1. TabsTyped' BY TabType, LeaveType DEF Clear, accountVars
<1>2. storage.handover \in MaybeUser
  BY DEF SignInInv, SignInTypeOK, Storage
<1>3. storage' \in Storage /\ StorageOK(storage)' /\ SecondFactorAsked'
  BY <1>2, SignInAssumption
  DEF Clear, EmptyStorage, Storage, MaybeUser, StorageOK, SecondFactorAsked
<1> QED BY <1>1, <1>3, StepType DEF Clear, SignInInv, SignInTypeOK, accountVars

LEMMA OpenLinkKeeps ==
  ASSUME SignInInv, NEW t \in Tabs, OpenLink(t)
  PROVE  SignInInv'
<1> DEFINE p(u) == [Blank EXCEPT !.pc = "link", !.user = u]
<1>1. ASSUME NEW u \in Users
      PROVE  p(u) \in Tab /\ TabOK(p(u))
  BY SignInAssumption DEF Blank, Tab, MaybeUser, TabOK
<1>2. links \subseteq Users BY DEF SignInInv, SignInTypeOK
<1> QED BY <1>1, <1>2, PageStepType DEF OpenLink

LEMMA FinishLinkKeeps ==
  ASSUME SignInInv, NEW t \in Tabs, FinishLink(t)
  PROVE  SignInInv'
<1>1. tabs[t].user \in Users /\ TabsTyped
  BY TabType DEF FinishLink, At, TabOK
<1>2. /\ status' \in [Users -> {"new", "active", "disabled", "gone"}]
      /\ session' \in [Users -> {"never", "valid", "over"}]
      /\ UNCHANGED <<mfa, links>>
  BY <1>1, RecordSignInType DEF FinishLink
<1>3. TabsTyped' BY <1>1, <1>2, LeaveType DEF FinishLink
<1>4. storage' \in Storage /\ StorageOK(storage)' /\ SecondFactorAsked'
  BY <1>1, <1>2, SignedInType DEF FinishLink, SignInInv, SignInTypeOK, Kept
<1> QED BY <1>2, <1>3, <1>4, StepType DEF SignInInv, SignInTypeOK

LEMMA SamlCallbackKeeps ==
  ASSUME SignInInv, NEW t \in Tabs, SamlCallback(t)
  PROVE  SignInInv'
<1> DEFINE p(u) == [Blank EXCEPT !.pc = "saml", !.user = u, !.new = status[u] = "new"]
<1>1. ASSUME NEW u \in Users
      PROVE  p(u) \in Tab /\ TabOK(p(u))
  BY SignInAssumption DEF Blank, Tab, MaybeUser, TabOK
<1> QED BY <1>1, PageStepType DEF SamlCallback

LEMMA FinishSamlKeeps ==
  ASSUME SignInInv, NEW t \in Tabs, FinishSaml(t)
  PROVE  SignInInv'
<1> DEFINE u == tabs[t].user
<1>1. u \in Users /\ TabsTyped
  BY TabType DEF FinishSaml, At, TabOK
<1>2. /\ status' \in [Users -> {"new", "active", "disabled", "gone"}]
      /\ session' \in [Users -> {"never", "valid", "over"}]
      /\ UNCHANGED <<mfa, links>>
  BY <1>1, RecordSignInType DEF FinishSaml, accountVars, SignInInv, SignInTypeOK
<1>3. TabsTyped' BY <1>1, <1>2, LeaveType DEF FinishSaml
<1>4. storage' = storage \/ storage' = [storage EXCEPT !.handover = u]
  BY DEF FinishSaml
<1>5. storage' \in Storage /\ StorageOK(storage)' /\ SecondFactorAsked'
  BY <1>1, <1>2, <1>4
  DEF SignInInv, SignInTypeOK, Kept, Storage, MaybeUser, StorageOK, SecondFactorAsked
<1> QED BY <1>2, <1>3, <1>5, StepType DEF SignInInv, SignInTypeOK

LEMMA AuthCompleteKeeps ==
  ASSUME SignInInv, NEW t \in Tabs, AuthComplete(t)
  PROVE  SignInInv'
<1>1. storage \in Storage /\ storage.handover \in Users
  BY DEF AuthComplete, SignInInv, SignInTypeOK, Storage, MaybeUser
<1>2. storage' \in Storage /\ StorageOK(storage)' /\ SecondFactorAsked'
  BY <1>1 DEF AuthComplete, SignedIn, Storage, MaybeUser, StorageOK, SecondFactorAsked,
              SignInInv, Kept, accountVars
<1>3. TabsTyped'
  BY TabType DEF AuthComplete, accountVars, TabsTyped, TabOK
<1> QED BY <1>2, <1>3, StepType DEF AuthComplete, SignInInv, SignInTypeOK, accountVars

LEMMA TabStepKeeps ==
  ASSUME SignInInv, NEW t \in Tabs, TabStep(t)
  PROVE  SignInInv'
<1>1. CASE RowGone(t) BY <1>1, LeaveStepType DEF RowGone
<1>2. CASE Close(t) BY <1>2, LeaveStepType DEF Close
<1> QED
  BY <1>1, <1>2, OpenLoginKeeps, PasswordAcceptedKeeps, ReadMethodsKeeps, FinishLoginKeeps,
     OpenChallengeKeeps, LoadChallengeKeeps, EnterCodeKeeps, CodeAcceptedKeeps, ClearKeeps,
     OpenLinkKeeps, FinishLinkKeeps, SamlCallbackKeeps, FinishSamlKeeps, AuthCompleteKeeps
  DEF TabStep

-----------------------------------------------------------------------------
(* The changes to an account *)

\* A user loses methods, and the ghosts forget them.
LEMMA ForgetType ==
  ASSUME SignInInv, NEW u \in Users, NEW M \in SUBSET Methods,
         mfa' = [mfa EXCEPT ![u] = @ \ M], Forget(u, M)
  PROVE  /\ TabsTyped' /\ storage' \in Storage /\ StorageOK(storage)' /\ SecondFactorAsked'
         /\ mfa' \in [Users -> SUBSET Methods]
<1>1. mfa \in [Users -> SUBSET Methods] BY DEF SignInInv, SignInTypeOK
<1>2. mfa' \in [Users -> SUBSET Methods] BY <1>1
<1>3. \A v \in Users : mfa'[v] = IF v = u THEN mfa[v] \ M ELSE mfa[v]
  BY <1>1
<1>4. ASSUME NEW t \in Tabs
      PROVE  tabs'[t] \in Tab /\ TabOK(tabs[t])'
  <2>1. tabs[t] \in Tab /\ TabOK(tabs[t]) BY TabType
  <2>2. CASE tabs[t].user = u
    <3>1. tabs'[t] = [tabs[t] EXCEPT !.kept = @ \ M] BY <2>2 DEF Forget
    <3>2. tabs'[t] \in Tab BY <2>1, <3>1 DEF Tab
    <3>3. /\ tabs'[t].pc = tabs[t].pc /\ tabs'[t].user = u /\ tabs'[t].kept = tabs[t].kept \ M
          /\ tabs'[t].methods = tabs[t].methods
      BY <2>1, <2>2, <3>1 DEF Tab
    <3> QED BY <1>3, <2>1, <2>2, <3>2, <3>3 DEF TabOK
  <2>3. CASE tabs[t].user # u
    <3>1. tabs'[t] = tabs[t] BY <2>3 DEF Forget
    <3> QED BY <1>3, <2>1, <2>3, <3>1 DEF TabOK
  <2> QED BY <2>2, <2>3
<1>5. tabs' \in [Tabs -> Tab]
  BY <1>4 DEF Forget
<1>6. storage \in Storage /\ StorageOK(storage) /\ storage.owed = {}
  BY DEF SignInInv, SignInTypeOK, Kept, SecondFactorAsked
<1>7. storage' \in Storage /\ StorageOK(storage)' /\ SecondFactorAsked'
  <2>1. CASE storage.pending = u
    <3>1. storage' = [storage EXCEPT !.kept = @ \ M] BY <2>1 DEF Forget
    <3> QED BY <1>3, <1>6, <2>1, <3>1 DEF Storage, StorageOK, SecondFactorAsked
  <2>2. CASE storage.pending # u
    <3>1. storage' = storage BY <2>2 DEF Forget
    <3> QED BY <1>3, <1>6, <2>2, <3>1 DEF StorageOK, SecondFactorAsked
  <2> QED BY <2>1, <2>2
<1> QED BY <1>2, <1>4, <1>5, <1>7 DEF TabsTyped

LEMMA RemoveMethodKeeps == SignInInv /\ RemoveMethod => SignInInv'
<1> SUFFICES ASSUME SignInInv, RemoveMethod PROVE SignInInv' OBVIOUS
<1>1. PICK u \in Users :
        \E m \in mfa[u] : mfa' = [mfa EXCEPT ![u] = @ \ {m}] /\ Forget(u, {m})
  BY DEF RemoveMethod
<1>2. PICK m \in mfa[u] : mfa' = [mfa EXCEPT ![u] = @ \ {m}] /\ Forget(u, {m})
  BY <1>1
<1>3. {m} \in SUBSET Methods
  BY DEF SignInInv, SignInTypeOK
<1>4. /\ TabsTyped' /\ storage' \in Storage /\ StorageOK(storage)' /\ SecondFactorAsked'
      /\ mfa' \in [Users -> SUBSET Methods]
  BY <1>2, <1>3, ForgetType
<1> QED BY <1>4 DEF RemoveMethod, SignInInv, SignInTypeOK, Kept, TabsTyped

LEMMA DeleteUserKeeps ==
  ASSUME SignInInv, NEW u \in Users, DeleteUser(u)
  PROVE  SignInInv'
<1>1. mfa' = [mfa EXCEPT ![u] = @ \ Methods]
  BY DEF DeleteUser, SignInInv, SignInTypeOK
<1>2. /\ TabsTyped' /\ storage' \in Storage /\ StorageOK(storage)' /\ SecondFactorAsked'
      /\ mfa' \in [Users -> SUBSET Methods]
  BY <1>1, ForgetType DEF DeleteUser
<1>3. /\ status' \in [Users -> {"new", "active", "disabled", "gone"}]
      /\ session' \in [Users -> {"never", "valid", "over"}]
      /\ links' \subseteq Users
  BY DEF DeleteUser, SignInInv, SignInTypeOK
<1> QED BY <1>2, <1>3 DEF SignInInv, SignInTypeOK, Kept, TabsTyped

\* A new method only adds to what an account has.
LEMMA AddMethodKeeps == SignInInv /\ AddMethod => SignInInv'
<1> SUFFICES ASSUME SignInInv, AddMethod PROVE SignInInv' OBVIOUS
<1>1. PICK u \in Users, m \in Methods : mfa' = [mfa EXCEPT ![u] = @ \cup {m}]
  BY DEF AddMethod
<1>2. mfa' \in [Users -> SUBSET Methods] /\ \A v \in Users : mfa[v] \subseteq mfa'[v]
  BY <1>1 DEF SignInInv, SignInTypeOK
<1>3. UNCHANGED <<status, session, links, storage, tabs>>
  BY DEF AddMethod
<1>4. \A t \in Tabs : TabOK(tabs[t])'
  BY <1>2, <1>3 DEF SignInInv, Kept, TabOK
<1>5. StorageOK(storage)' /\ SecondFactorAsked'
  BY <1>2, <1>3 DEF SignInInv, Kept, StorageOK, SecondFactorAsked
<1> QED BY <1>2, <1>3, <1>4, <1>5 DEF SignInInv, SignInTypeOK, Kept

\* Changes to the accounts that touch neither the methods nor the browser.
LEMMA AccountsType ==
  ASSUME SignInInv, UNCHANGED <<mfa, storage, tabs>>,
         status' \in [Users -> {"new", "active", "disabled", "gone"}],
         session' \in [Users -> {"never", "valid", "over"}],
         links' \subseteq Users
  PROVE  SignInInv'
BY DEF SignInInv, SignInTypeOK, Kept, TabOK, StorageOK, SecondFactorAsked

LEMMA AccountStepKeeps == SignInInv /\ AccountStep => SignInInv'
<1> SUFFICES ASSUME SignInInv, AccountStep PROVE SignInInv' OBVIOUS
<1> USE DEF SignInInv, SignInTypeOK
<1>1. CASE RequestLink BY <1>1, AccountsType DEF RequestLink
<1>2. CASE LinkExpires BY <1>2, AccountsType DEF LinkExpires
<1>3. CASE CreateUser BY <1>3, AccountsType DEF CreateUser
<1>4. CASE SetDisabled BY <1>4, AccountsType DEF SetDisabled
<1> QED
  BY <1>1, <1>2, <1>3, <1>4, AddMethodKeeps, RemoveMethodKeeps DEF AccountStep

-----------------------------------------------------------------------------
(* The expiry and the rest of the system *)

LEMMA RestartKeeps == SignInInv /\ Restart => SignInInv'
<1> SUFFICES ASSUME SignInInv, Restart PROVE SignInInv' OBVIOUS
<1>1. tabs' \in [Tabs -> Tab] /\ \A t \in Tabs : TabOK(tabs[t])'
  BY BlankType DEF Restart, accountVars, TabOK, Blank
<1> QED
  BY <1>1 DEF Restart, accountVars, SignInInv, SignInTypeOK, Kept, StorageOK, SecondFactorAsked

LEMMA SignInStep == SignInInv /\ [Next]_allVars => SignInInv'
<1> SUFFICES ASSUME SignInInv, [Next]_allVars PROVE SignInInv' OBVIOUS
<1>1. CASE UNCHANGED signInVars
  BY <1>1 DEF signInVars, accountVars, SignInInv, SignInTypeOK, Kept, TabOK, StorageOK,
              SecondFactorAsked
<1>2. CASE SessionEnds
  BY <1>2, AccountsType DEF SessionEnds, SignInInv, SignInTypeOK
<1>3. CASE RemoveUser
  BY <1>3, DeleteUserKeeps DEF RemoveUser
<1>4. CASE Pass \/ SaveDuration \/ ConnectDevice \/ RemoveDevice \/ UNCHANGED allVars
  BY <1>1, <1>4 DEF Pass, StartPass, ReadDevices, RemoveExpired, SaveDuration, ConnectDevice,
                    RemoveDevice, allVars
<1> QED
  BY <1>2, <1>3, <1>4, RestartKeeps, TabStepKeeps, AccountStepKeeps DEF Next

LEMMA SignInStart == Init => SignInInv
<1> SUFFICES ASSUME Init PROVE SignInInv OBVIOUS
<1>1. storage \in Storage /\ StorageOK(storage) /\ SecondFactorAsked
  BY SignInAssumption
  DEF Init, SignInInit, EmptyStorage, Storage, MaybeUser, StorageOK, SecondFactorAsked
<1>2. tabs \in [Tabs -> Tab] /\ \A t \in Tabs : TabOK(tabs[t])
  BY BlankType DEF Init, SignInInit
<1> QED BY <1>1, <1>2 DEF Init, SignInInit, SignInInv, SignInTypeOK, Kept

\* However many tabs, accounts and methods there are, and however their changes
\* interleave, a sign-in with a password passes over no authenticator that the
\* account has had since the password was accepted (try_login,
\* mfa_challenge_page).
THEOREM NoFactorSkipped == Spec => []SecondFactorAsked
<1>1. SignInInv => SecondFactorAsked BY DEF SignInInv
<1> QED BY <1>1, SignInStart, SignInStep, PTL DEF Spec

-----------------------------------------------------------------------------
(* Who is disconnected *)

\* Steps of sign-ins and accounts make no session over.
NoneEnds == \A u \in Users : session'[u] = "over" => session[u] = "over"

LEMMA TabStepEndsNone == SignInInv /\ (\E t \in Tabs : TabStep(t)) => NoneEnds
<1> SUFFICES ASSUME SignInInv, NEW t \in Tabs, TabStep(t) PROVE NoneEnds OBVIOUS
<1>1. session \in [Users -> {"never", "valid", "over"}] BY DEF SignInInv, SignInTypeOK
<1>2. ASSUME NEW u, session' = [session EXCEPT ![u] = "valid"] PROVE NoneEnds
  BY <1>1, <1>2 DEF NoneEnds
<1>3. ASSUME NEW u, RecordSignIn(u) PROVE NoneEnds
  BY <1>2, <1>3 DEF RecordSignIn
<1>4. CASE UNCHANGED accountVars BY <1>4 DEF accountVars, NoneEnds
<1>5. CASE FinishLogin(t) \/ FinishLink(t)
  BY <1>3, <1>5 DEF FinishLogin, FinishLink
<1>6. CASE FinishSaml(t)
  BY <1>2, <1>3, <1>4, <1>6 DEF FinishSaml
<1> QED
  BY <1>4, <1>5, <1>6
  DEF TabStep, OpenLogin, PasswordAccepted, ReadMethods, RowGone, OpenChallenge, LoadChallenge,
      EnterCode, CodeAccepted, Clear, Close, OpenLink, SamlCallback, AuthComplete

LEMMA AccountStepEndsNone == AccountStep => NoneEnds
BY DEF AccountStep, RequestLink, LinkExpires, AddMethod, RemoveMethod, CreateUser, SetDisabled,
       NoneEnds

ExpiryInv == SignInInv /\ lapsed \subseteq Users /\ Chosen /\ UnexpiredStayConnected

\* Steps that only take away sessions that are over, and touch no device.
LEMMA ElsewhereKeeps ==
  ASSUME ExpiryInv, NoneEnds, UNCHANGED vpnVars
  PROVE  Chosen' /\ UnexpiredStayConnected'
BY DEF ExpiryInv, NoneEnds, vpnVars, Chosen, UnexpiredStayConnected

LEMMA ExpiryStep == ExpiryInv /\ [Next]_allVars => ExpiryInv'
<1> SUFFICES ASSUME ExpiryInv, [Next]_allVars
             PROVE  lapsed' \subseteq Users /\ Chosen' /\ UnexpiredStayConnected'
  BY SignInStep DEF ExpiryInv
<1> DEFINE Goal == lapsed' \subseteq Users /\ Chosen' /\ UnexpiredStayConnected'
<1>1. /\ session \in [Users -> {"never", "valid", "over"}] /\ lapsed \subseteq Users
      /\ Chosen /\ UnexpiredStayConnected
  BY DEF ExpiryInv, SignInInv, SignInTypeOK
<1>2. CASE StartPass
  BY <1>1, <1>2 DEF StartPass, Expired, signInVars, accountVars, Chosen, UnexpiredStayConnected
<1>3. CASE ReadDevices
  BY <1>1, <1>3 DEF ReadDevices, signInVars, accountVars, Chosen, UnexpiredStayConnected
<1>4. CASE RemoveExpired
  BY <1>1, <1>4 DEF RemoveExpired, signInVars, accountVars, Chosen, UnexpiredStayConnected
<1>5. CASE SessionEnds
  <2>1. PICK u \in Users :
          session' = [session EXCEPT ![u] = "over"] /\ lapsed' = lapsed \cup {u}
    BY <1>5 DEF SessionEnds
  <2>2. UNCHANGED <<devices, peers, due, rows>> BY <1>5 DEF SessionEnds
  <2>3. \A v \in Users : session'[v] = "over" => v \in lapsed'
    BY <1>1, <2>1 DEF Chosen
  <2> QED BY <1>1, <2>1, <2>2, <2>3 DEF Chosen, UnexpiredStayConnected
<1>6. CASE SaveDuration \/ UNCHANGED allVars
  BY <1>1, <1>6
  DEF SaveDuration, allVars, vpnVars, signInVars, accountVars, Chosen, UnexpiredStayConnected
<1>7. CASE ConnectDevice
  BY <1>1, <1>7 DEF ConnectDevice, signInVars, accountVars, Chosen, UnexpiredStayConnected
<1>8. CASE RemoveDevice
  BY <1>1, <1>8 DEF RemoveDevice, signInVars, accountVars, Chosen, UnexpiredStayConnected
<1>9. CASE RemoveUser
  <2>1. PICK u \in Users :
          /\ session' = [session EXCEPT ![u] = "never"]
          /\ devices' = {d \in devices : Owner[d] # u}
          /\ peers' = {d \in peers : Owner[d] # u}
    BY <1>9 DEF RemoveUser, DeleteUser
  <2>2. UNCHANGED <<due, rows, lapsed>> BY <1>9 DEF RemoveUser
  <2>3. \A v \in Users : session'[v] = "over" => session[v] = "over"
    BY <1>1, <2>1
  <2> QED BY <1>1, <2>1, <2>2, <2>3 DEF Chosen, UnexpiredStayConnected
<1>10. CASE Restart
  BY <1>1, <1>10 DEF Restart, accountVars, Chosen, UnexpiredStayConnected
<1>11. CASE (\E t \in Tabs : TabStep(t)) /\ UNCHANGED vpnVars
  BY <1>1, <1>11, TabStepEndsNone, ElsewhereKeeps DEF ExpiryInv, vpnVars
<1>12. CASE AccountStep /\ UNCHANGED vpnVars
  BY <1>1, <1>12, AccountStepEndsNone, ElsewhereKeeps DEF vpnVars
<1> QED
  BY <1>2, <1>3, <1>4, <1>5, <1>6, <1>7, <1>8, <1>9, <1>10, <1>11, <1>12 DEF Next, Pass

\* The expiry disconnects a device only of users whose session has been over
\* since the last start, however old what the pass has read may be: every other
\* device in the database is a peer (_expire_sessions).
THEOREM ExpirySparesOthers == Spec => []UnexpiredStayConnected
<1>1. Init => ExpiryInv
  BY SignInStart DEF Init, SignInInit, ExpiryInv, Chosen, UnexpiredStayConnected
<1>2. ExpiryInv => UnexpiredStayConnected
  BY DEF ExpiryInv
<1> QED BY <1>1, <1>2, ExpiryStep, PTL DEF Spec

=============================================================================
