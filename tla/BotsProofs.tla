----------------------------- MODULE BotsProofs -----------------------------
(***************************************************************************)
(* Proofs about Personalities and RuntimeSync, for any personalities,      *)
(* accounts, channels, files and requests: one main personality, channels  *)
(* apart, accounts that fit, the runtime flag, and pulls that lose no text.*)
(***************************************************************************)
EXTENDS RuntimeSync, FiniteSetTheorems, TLAPS

StoreOK ==
  /\ identity \in [Ids -> Identity \cup {None}]
  /\ account \in [Accounts -> Account \cup {None}]
  /\ config \in Config
  /\ dirty \in BOOLEAN

\* OneMainPersonality without counting: no two main ones, and one as soon as
\* there is anybody.
MainInv ==
  /\ Existing # {} => Mains # {}
  /\ \A i, j \in Mains : i = j
  /\ Mains \subseteq Active
  /\ config.mode = "single" => Active = Mains

PeopleInv == StoreOK /\ MainInv /\ ChannelsDistinct /\ BoundAccountFits

-----------------------------------------------------------------------------
(* What the requests write is well typed. *)

LEMMA RowsAreNotNull ==
  /\ \A r \in Identity : r # None
  /\ \A r \in Account : r # None
  /\ \A r \in RuntimeContents : r # None
BY NullAssumption

\* What a request makes of the two columns.
LEMMA BindingsTyped ==
  ASSUME NEW old, old.account \in Accounts \cup {None}, old.profile \in Accounts \cup {None},
         NEW p, NEW acct \in Given, NEW profile \in Given, NEW b \in Bindings(old, p, acct, profile)
  PROVE  b.account \in Accounts \cup {None} /\ b.profile \in Accounts \cup {None}
<1>1. OfProvider(p) \subseteq Accounts /\ Fallback(p) \subseteq Accounts
  BY DEF Fallback, ActiveOf, OfProvider
<1> QED
  BY <1>1 DEF Bindings, Binding, Given

LEMMA FirstBindingsTyped ==
  ASSUME NEW p, NEW acct \in Accounts \cup {"keep"}, NEW profile \in Accounts \cup {None},
         NEW b \in Bindings(Unbound, p, acct, profile)
  PROVE  b.account \in Accounts \cup {None} /\ b.profile \in Accounts \cup {None}
BY BindingsTyped DEF Unbound, Given

\* Requests that change identities only.
LEMMA IdentitiesStayTyped ==
  ASSUME StoreOK, NEW i \in Ids,
         \/ Create(i) \/ Update(i) \/ TopicLock(i) \/ SetImage(i) \/ Delete(i)
         \/ Activate(i) \/ Deactivate(i) \/ MakeMain(i)
  PROVE  StoreOK'
<1>1. /\ account' \in [Accounts -> Account \cup {None}] /\ config' \in Config
      /\ dirty' \in BOOLEAN
  BY DEF StoreOK, Create, Update, TopicLock, SetImage, Delete, Activate, Deactivate, MakeMain,
         OnlyIdentities, markRuntimeDirty
<1>2. identity' \in [Ids -> Identity \cup {None}]
  <2>1. CASE Create(i)
    <3>1. PICK p \in Providers \cup {None}, acct \in Accounts \cup {"keep"},
               profile \in Accounts \cup {None}, ch \in Channels \cup {None} :
            \E b \in Bindings(Unbound, p, acct, profile) :
              /\ Fits(p, b.account)
              /\ identity' = [identity EXCEPT ![i] = [active |-> Active = {}, main |-> Active = {},
                   text |-> 0, image |-> 0, channel |-> ch, provider |-> p,
                   account |-> b.account, profile |-> b.profile]]
      BY <2>1, Zenon DEF Create
    <3>2. PICK a \in Accounts \cup {None}, q \in Accounts \cup {None} :
              identity' = [identity EXCEPT ![i] = [active |-> Active = {}, main |-> Active = {},
                text |-> 0, image |-> 0, channel |-> ch, provider |-> p, account |-> a, profile |-> q]]
      BY <3>1, FirstBindingsTyped
    <3>3. (Active = {}) \in BOOLEAN
      OBVIOUS
    <3>. QED BY <3>2, <3>3 DEF StoreOK, Identity, Bit
  <2>2. CASE Update(i)
    <3>1. identity[i] \in Identity
      BY <2>2 DEF Update, StoreOK, Existing
    <3>2. CASE identity' = [identity EXCEPT ![i].text = 1 - @]
      BY <3>1, <3>2 DEF StoreOK, Identity, Bit
    <3>3. CASE \E ch \in Channels \cup {None} : identity' = [identity EXCEPT ![i].channel = ch]
      BY <3>1, <3>3 DEF StoreOK, Identity
    <3>4. ASSUME NEW p \in Providers \cup {None}, NEW acct \in Given, NEW profile \in Given,
                 NEW b \in Bindings(identity[i], p, acct, profile),
                 identity' = [identity EXCEPT ![i].provider = p, ![i].account = b.account, ![i].profile = b.profile]
          PROVE  identity' \in [Ids -> Identity \cup {None}]
      <4>1. b.account \in Accounts \cup {None} /\ b.profile \in Accounts \cup {None}
        BY <3>1, BindingsTyped DEF Identity
      <4>2. PICK a \in Accounts \cup {None}, q \in Accounts \cup {None} :
              identity' = [identity EXCEPT ![i].provider = p, ![i].account = a, ![i].profile = q]
        BY <3>4, <4>1
      <4>3. [[[identity[i] EXCEPT !.provider = p] EXCEPT !.account = a] EXCEPT !.profile = q] \in Identity
        BY <3>1 DEF Identity
      <4>4. identity' = [identity EXCEPT ![i] = [[[identity[i] EXCEPT !.provider = p] EXCEPT !.account = a] EXCEPT !.profile = q]]
        BY <4>2
      <4>. QED BY <4>3, <4>4 DEF StoreOK
    <3>. QED BY <2>2, <3>2, <3>3, <3>4 DEF Update
  <2>3. CASE TopicLock(i)
    BY <2>3 DEF TopicLock, Existing, StoreOK, Identity, Bit
  <2>4. CASE SetImage(i)
    BY <2>4 DEF SetImage, Existing, StoreOK, Identity, Bit
  <2>5. CASE Delete(i)
    BY <2>5 DEF Delete, StoreOK
  <2>6. ASSUME NEW on PROVE SetActive(on) \in [Ids -> Identity \cup {None}]
    <3>1. ASSUME NEW j \in Existing
          PROVE  [identity[j] EXCEPT !.active = j \in on] \in Identity
      <4>1. identity[j] \in Identity /\ (j \in on) \in BOOLEAN
        BY DEF StoreOK, Existing
      <4>2. ASSUME NEW r \in Identity, NEW b \in BOOLEAN PROVE [r EXCEPT !.active = b] \in Identity
        BY DEF Identity
      <4>. QED BY <4>1, <4>2
    <3>. QED BY <3>1 DEF SetActive
  <2>7. OneMain(i) \in [Ids -> Identity \cup {None}] /\ MainAlone(i) \in [Ids -> Identity \cup {None}]
    <3>1. ASSUME NEW j \in Existing
          PROVE  /\ [identity[j] EXCEPT !.main = (j = i)] \in Identity
                 /\ [identity[j] EXCEPT !.main = (j = i), !.active = (j = i)] \in Identity
      BY DEF StoreOK, Existing, Identity
    <3>. QED BY <3>1 DEF OneMain, MainAlone
  <2>8. CASE Activate(i)
    BY <2>6, <2>7, <2>8 DEF Activate
  <2>9. CASE Deactivate(i)
    BY <2>6, <2>9 DEF Deactivate
  <2>10. CASE MakeMain(i)
    <3>1. [OneMain(i) EXCEPT ![i].active = TRUE] \in [Ids -> Identity \cup {None}]
      <4>1. OneMain(i)[i] \in Identity
        <5>1. i \in Ids /\ i \in Existing /\ identity[i] \in Identity /\ identity[i] # None
          BY <2>10 DEF MakeMain, StoreOK, Existing
        <5>2. OneMain(i)[i] = [identity[i] EXCEPT !.main = (i = i)]
          BY <5>1 DEF OneMain
        <5>3. ASSUME NEW r \in Identity, NEW b \in BOOLEAN PROVE [r EXCEPT !.main = b] \in Identity
          BY DEF Identity
        <5>. QED BY <5>1, <5>2, <5>3
      <4>. QED BY <2>7, <4>1 DEF Identity
    <3>. QED BY <2>7, <2>10, <3>1 DEF MakeMain
  <2>. QED BY <2>1, <2>2, <2>3, <2>4, <2>5, <2>8, <2>9, <2>10
<1>. QED BY <1>1, <1>2 DEF StoreOK

\* Requests on accounts, and on files.
AccountRequest ==
  \/ \E a \in Accounts : \/ ActivateAccount(a) \/ DeleteAccount(a) \/ CreateProfile(a)
                         \/ UpdateProfile(a) \/ ActivateProfile(a) \/ DeleteProfile(a)
  \/ \E a \in Accounts, p \in Providers : CreateAccount(a, p) \/ PutCredentials(a, p) \/ UpdateAccount(a, p)
  \/ \E p \in Providers : ActivateProvider(p)
FileRequest == \E i \in Ids : SaveFile(i) \/ DeleteFile(i) \/ Regenerate(i)
IdentityRequest ==
  \E i \in Ids : \/ Create(i) \/ Update(i) \/ TopicLock(i) \/ SetImage(i) \/ Delete(i)
                 \/ Activate(i) \/ Deactivate(i) \/ MakeMain(i)

LEMMA AdministerSplits ==
  Administer => \/ IdentityRequest \/ FileRequest \/ AccountRequest \/ SetConfig
                \/ \E mode \in Modes : SetMode(mode)
BY DEF Administer, IdentityRequest, FileRequest, AccountRequest

LEMMA SoleActiveTyped ==
  ASSUME StoreOK, NEW a \in Accounts, account[a] # None
  PROVE  SoleActive(a) \in [Accounts -> Account \cup {None}]
<1>1. ASSUME NEW r \in Account, NEW b \in BOOLEAN PROVE [r EXCEPT !.active = b] \in Account
  BY DEF Account
<1>2. ASSUME NEW b \in Accounts, account[b] # None PROVE account[b] \in Account
  BY <1>2 DEF StoreOK
<1>3. ASSUME NEW b \in Accounts, b # a PROVE SoleActive(a)[b] \in Account \cup {None}
  BY <1>1, <1>2, <1>3 DEF SoleActive, OfProvider, StoreOK
<1>4. SoleActive(a)[a] \in Account
  BY <1>1, <1>2 DEF SoleActive
<1>. QED BY <1>3, <1>4 DEF SoleActive

\* What a configuration may name.
LEMMA ProviderConfigTyped ==
  ASSUME StoreOK, NEW p \in Providers \cup {None}, NEW a \in Accounts \cup {None},
         NEW profile \in Accounts \cup {None}, setRuntimeProviderConfig(p, a, profile)
  PROVE  config' \in Config /\ config'.mode = config.mode
BY DEF setRuntimeProviderConfig, StoreOK, Config

\* An account request leaves identities and the mode alone, and an account
\* that is bound keeps its provider.
LEMMA AccountsStayTyped ==
  ASSUME StoreOK, AccountRequest
  PROVE  /\ StoreOK' /\ UNCHANGED identity /\ config'.mode = config.mode
         /\ \A a \in Accounts : account[a] # None /\ Assigned(a) =>
              account'[a] # None /\ account'[a].provider = account[a].provider
<1> DEFINE Kept == \A b \in Accounts : account[b] # None /\ Assigned(b) =>
              account'[b] # None /\ account'[b].provider = account[b].provider
           Goal == /\ account' \in [Accounts -> Account \cup {None}] /\ config' \in Config
                   /\ config'.mode = config.mode /\ Kept
<1>1. ASSUME NEW a \in Accounts, account[a] # None, account' = SoleActive(a)
      PROVE  account' \in [Accounts -> Account \cup {None}] /\ Kept
  <2>1. account' \in [Accounts -> Account \cup {None}]
    BY <1>1, SoleActiveTyped
  <2>2. ASSUME NEW b \in Accounts, account[b] # None
        PROVE  account'[b] # None /\ account'[b].provider = account[b].provider
    <3>1. account[b] \in Account
      BY <2>2 DEF StoreOK
    <3>2. ASSUME NEW r \in Account, NEW v \in BOOLEAN
          PROVE  [r EXCEPT !.active = v] # None /\ [r EXCEPT !.active = v].provider = r.provider
      <4>1. [r EXCEPT !.active = v] \in Account /\ [r EXCEPT !.active = v].provider = r.provider
        BY DEF Account
      <4>. QED BY <4>1, RowsAreNotNull
    <3>3. \/ account'[b] = [account[b] EXCEPT !.active = TRUE]
          \/ account'[b] = [account[b] EXCEPT !.active = FALSE]
          \/ account'[b] = account[b]
      BY <1>1 DEF SoleActive
    <3>. QED BY <2>2, <3>1, <3>2, <3>3
  <2>. QED BY <2>1, <2>2
<1>2. ASSUME NEW a \in Accounts, account[a] = None,
             NEW r \in Account, account' = [account EXCEPT ![a] = r]
      PROVE  account' \in [Accounts -> Account \cup {None}] /\ Kept
  BY <1>2, RowsAreNotNull DEF StoreOK
<1>3. ASSUME NEW a \in Accounts, account[a] # None, account' = [account EXCEPT ![a].key = 1 - @]
      PROVE  account' \in [Accounts -> Account \cup {None}] /\ Kept
  <2>1. account[a] \in Account
    BY <1>3 DEF StoreOK
  <2>2. [account[a] EXCEPT !.key = 1 - @] \in Account
        /\ [account[a] EXCEPT !.key = 1 - @].provider = account[a].provider
    BY <2>1 DEF Account, Bit
  <2>. QED BY <1>3, <2>2, RowsAreNotNull DEF StoreOK
<1>4. ASSUME NEW a \in Accounts, ~Assigned(a), account' = [account EXCEPT ![a] = None]
      PROVE  account' \in [Accounts -> Account \cup {None}] /\ Kept
  BY <1>4 DEF StoreOK
<1>5. UNCHANGED config => config' \in Config /\ config'.mode = config.mode
  BY DEF StoreOK
<1>6. ASSUME NEW a \in Accounts, ActivateAccount(a) \/ ActivateProfile(a) PROVE Goal
  <2>1. account[a] # None /\ account' = SoleActive(a)
    BY <1>6 DEF ActivateAccount, ActivateProfile, OfProvider
  <2>2. account[a].provider \in Providers
    BY <2>1 DEF StoreOK, Account
  <2>3. \/ setRuntimeProviderConfig(account[a].provider, a, None)
        \/ setRuntimeProviderConfig("openrouter", a, a)
    BY <1>6 DEF ActivateAccount, ActivateProfile
  <2>. QED BY <1>1, <2>1, <2>2, <2>3, ProviderConfigTyped, PersonalitiesAssumption
<1>7. ASSUME NEW a \in Accounts, DeleteAccount(a) \/ DeleteProfile(a) PROVE Goal
  BY <1>4, <1>5, <1>7 DEF DeleteAccount, DeleteProfile
<1>8. ASSUME NEW a \in Accounts, CreateProfile(a) PROVE Goal
  <2>1. [provider |-> "openrouter", active |-> FALSE, key |-> 0] \in Account
    BY PersonalitiesAssumption DEF Account, Bit
  <2>. QED BY <1>2, <1>5, <1>8, <2>1 DEF CreateProfile
<1>9. ASSUME NEW a \in Accounts, UpdateProfile(a) PROVE Goal
  BY <1>3, <1>5, <1>9 DEF UpdateProfile, OfProvider
<1>10. ASSUME NEW a \in Accounts, NEW p \in Providers, CreateAccount(a, p) PROVE Goal
  <2>1. (ActiveOf(p) = {}) \in BOOLEAN
    OBVIOUS
  <2>2. [provider |-> p, active |-> ActiveOf(p) = {}, key |-> 0] \in Account
    BY <2>1 DEF Account, Bit
  <2>3. config' \in Config /\ config'.mode = config.mode
    BY <1>5, <1>10, ProviderConfigTyped DEF CreateAccount
  <2>. QED BY <1>2, <1>10, <2>2, <2>3 DEF CreateAccount
<1>11. ASSUME NEW a \in Accounts, NEW p \in Providers, PutCredentials(a, p) PROVE Goal
  <2>1. [provider |-> p, active |-> TRUE, key |-> 0] \in Account
    BY DEF Account, Bit
  <2>. QED BY <1>2, <1>3, <1>5, <1>11, <2>1 DEF PutCredentials, OfProvider
<1>12. ASSUME NEW a \in Accounts, NEW p \in Providers, UpdateAccount(a, p) PROVE Goal
  <2>1. account[a] \in Account /\ account[a] # None
    BY <1>12 DEF UpdateAccount, StoreOK
  <2>2. account' = [account EXCEPT ![a].provider = p, ![a].key = 1 - @]
    BY <1>12 DEF UpdateAccount
  <2>3. account'[a] \in Account /\ account'[a].provider = p
    BY <2>1, <2>2 DEF StoreOK, Account, Bit
  <2>4. account[a].provider # p => ~Assigned(a)
    BY <1>12 DEF UpdateAccount
  <2>5. account' \in [Accounts -> Account \cup {None}] /\ Kept
    BY <2>1, <2>2, <2>3, <2>4, RowsAreNotNull DEF StoreOK
  <2>. QED BY <1>5, <1>12, <2>5 DEF UpdateAccount
<1>13. ASSUME NEW p \in Providers, ActivateProvider(p) PROVE Goal
  <2>1. PICK a \in OfProvider(p) : account' = SoleActive(a) /\ setRuntimeProviderConfig(p, a, None)
    BY <1>13 DEF ActivateProvider
  <2>2. a \in Accounts /\ account[a] # None
    BY DEF OfProvider
  <2>. QED BY <1>1, <2>1, <2>2, ProviderConfigTyped
<1>14. Goal
  BY <1>6, <1>7, <1>8, <1>9, <1>10, <1>11, <1>12, <1>13 DEF AccountRequest
<1>15. UNCHANGED identity /\ dirty' = TRUE
  BY DEF AccountRequest, OnlyAccounts, markRuntimeDirty, ActivateAccount, DeleteAccount,
         CreateProfile, UpdateProfile, ActivateProfile, DeleteProfile, CreateAccount,
         PutCredentials, UpdateAccount, ActivateProvider
<1>. QED BY <1>14, <1>15 DEF StoreOK

LEMMA ConfigStaysTyped ==
  ASSUME StoreOK, SetConfig
  PROVE  StoreOK' /\ UNCHANGED <<identity, account>> /\ config'.mode = config.mode
<1>1. config' \in Config /\ config'.mode = config.mode
  <2>1. CASE config' = [config EXCEPT !.rules = 1 - @]
    BY <2>1 DEF StoreOK, Config, Bit
  <2>3. CASE config' = [config EXCEPT !.reload = ~@]
    <3>1. CASE config.reload
      <4>1. config' = [config EXCEPT !.reload = FALSE]
        BY <2>3, <3>1
      <4>. QED BY <4>1 DEF StoreOK, Config
    <3>2. CASE ~config.reload
      <4>1. config' = [config EXCEPT !.reload = TRUE]
        BY <2>3, <3>2
      <4>. QED BY <4>1 DEF StoreOK, Config
    <3>. QED BY <3>1, <3>2
  <2>2. CASE \E p \in Providers \cup {None}, a, profile \in Accounts \cup {None} :
               setRuntimeProviderConfig(p, a, profile)
    BY <2>2, ProviderConfigTyped
  <2>. QED BY <2>1, <2>2, <2>3 DEF SetConfig
<1>. QED BY <1>1 DEF SetConfig, OnlyAccounts, markRuntimeDirty, StoreOK

LEMMA ModeTyped ==
  ASSUME StoreOK, NEW mode \in Modes, SetMode(mode)
  PROVE  StoreOK' /\ config'.mode = mode
<1>1. config' \in Config /\ config'.mode = mode
  BY DEF SetMode, StoreOK, Config
<1>2. ASSUME NEW j \in Existing PROVE [identity[j] EXCEPT !.active = j \in Mains] \in Identity
  <2>1. identity[j] \in Identity /\ (j \in Mains) \in BOOLEAN
    BY DEF StoreOK, Existing
  <2>2. ASSUME NEW r \in Identity, NEW b \in BOOLEAN PROVE [r EXCEPT !.active = b] \in Identity
    BY DEF Identity
  <2>. QED BY <2>1, <2>2
<1>3. identity' \in [Ids -> Identity \cup {None}]
  BY <1>2 DEF SetMode, SetActive, StoreOK
<1>. QED BY <1>1, <1>3 DEF SetMode, markRuntimeDirty, StoreOK

-----------------------------------------------------------------------------
(* Who is main, active, and on which channel, after a request. *)

\* Nobody comes, goes, or changes what counts here.
SameRoles ==
  /\ UNCHANGED Existing
  /\ \A j \in Existing : /\ identity'[j].active = identity[j].active
                         /\ identity'[j].main = identity[j].main
                         /\ identity'[j].channel = identity[j].channel

LEMMA RolesKept ==
  ASSUME MainInv, ChannelsDistinct, SameRoles, config'.mode = config.mode
  PROVE  MainInv' /\ ChannelsDistinct'
<1>1. Existing' = Existing /\ Active' = Active /\ Mains' = Mains
  BY DEF SameRoles, Active, Mains
<1>2. Active \subseteq Existing
  BY DEF Active
<1>. QED BY <1>1, <1>2 DEF MainInv, ChannelsDistinct, SameRoles

\* The rows there are, after their roles have been written.
SameRest(j) ==
  /\ identity'[j].channel = identity[j].channel
  /\ identity'[j].provider = identity[j].provider
  /\ identity'[j].account = identity[j].account

LEMMA RolesWritten ==
  ASSUME StoreOK, NEW on, NEW i \in Ids
  PROVE  /\ identity' = SetActive(on) =>
              /\ Existing' = Existing /\ Active' = Existing \cap on /\ Mains' = Mains
              /\ \A j \in Existing : SameRest(j)
         /\ identity' = MainAlone(i) =>
              /\ Existing' = Existing /\ Active' = Existing \cap {i} /\ Mains' = Existing \cap {i}
              /\ \A j \in Existing : SameRest(j)
         /\ identity' = [OneMain(i) EXCEPT ![i].active = TRUE] /\ i \in Existing =>
              /\ Existing' = Existing /\ Active' = Active \cup {i} /\ Mains' = {i}
              /\ \A j \in Existing : SameRest(j)
<1>2. ASSUME NEW j \in Existing PROVE j \in Ids /\ identity[j] \in Identity
  BY DEF StoreOK, Existing
<1>3. ASSUME identity' = SetActive(on)
      PROVE  /\ Existing' = Existing /\ Active' = Existing \cap on /\ Mains' = Mains
             /\ \A j \in Existing : SameRest(j)
  <2>1. \A j \in Ids \ Existing : identity'[j] = None
    BY <1>3 DEF SetActive
  <2>2. ASSUME NEW j \in Existing
        PROVE  /\ identity'[j] # None /\ identity'[j].main = identity[j].main
               /\ identity'[j].active = (j \in on)
               /\ SameRest(j)
    <3>1. identity'[j] = [identity[j] EXCEPT !.active = j \in on]
      BY <1>2, <1>3 DEF SetActive
    <3>2. CASE j \in on
      <4>0. (j \in on) = TRUE
        BY <3>2
      <4>1. identity'[j] = [identity[j] EXCEPT !.active = TRUE]
        BY <3>1, <4>0, Zenon
      <4>2. identity'[j] \in Identity
        BY <1>2, <4>1 DEF Identity
      <4>. QED BY <1>2, <3>2, <4>1, <4>2, RowsAreNotNull DEF Identity, SameRest
    <3>3. CASE j \notin on
      <4>0. (j \in on) = FALSE
        BY <3>3
      <4>1. identity'[j] = [identity[j] EXCEPT !.active = FALSE]
        BY <3>1, <4>0
      <4>2. identity'[j] \in Identity
        BY <1>2, <4>1 DEF Identity
      <4>. QED BY <1>2, <3>3, <4>0, <4>1, <4>2, RowsAreNotNull DEF Identity, SameRest
    <3>. QED BY <3>2, <3>3
  <2>. QED BY <2>1, <2>2 DEF Existing, Active, Mains
<1>4. ASSUME identity' = MainAlone(i)
      PROVE  /\ Existing' = Existing /\ Active' = Existing \cap {i} /\ Mains' = Existing \cap {i}
             /\ \A j \in Existing : SameRest(j)
  <2>1. \A j \in Ids \ Existing : identity'[j] = None
    BY <1>4 DEF MainAlone
  <2>2. ASSUME NEW j \in Existing
        PROVE  /\ identity'[j] # None /\ identity'[j].main = (j = i)
               /\ identity'[j].active = (j = i)
               /\ SameRest(j)
    <3>1. identity'[j] = [identity[j] EXCEPT !.main = (j = i), !.active = (j = i)]
      BY <1>2, <1>4 DEF MainAlone
    <3>2. CASE j = i
      <4>1. identity'[j] = [identity[j] EXCEPT !.main = TRUE, !.active = TRUE]
        BY <3>1, <3>2
      <4>2. identity'[j] \in Identity
        BY <1>2, <4>1 DEF Identity
      <4>. QED BY <1>2, <3>2, <4>1, <4>2, RowsAreNotNull DEF Identity, SameRest
    <3>3. CASE j # i
      <4>1. identity'[j] = [identity[j] EXCEPT !.main = FALSE, !.active = FALSE]
        BY <3>1, <3>3
      <4>2. identity'[j] \in Identity
        BY <1>2, <4>1 DEF Identity
      <4>. QED BY <1>2, <3>3, <4>1, <4>2, RowsAreNotNull DEF Identity, SameRest
    <3>. QED BY <3>2, <3>3
  <2>. QED BY <2>1, <2>2 DEF Existing, Active, Mains
<1>5. ASSUME identity' = [OneMain(i) EXCEPT ![i].active = TRUE], i \in Existing
      PROVE  /\ Existing' = Existing /\ Active' = Active \cup {i} /\ Mains' = {i}
             /\ \A j \in Existing : SameRest(j)
  <2>1. \A j \in Ids \ Existing : identity'[j] = None
    BY <1>5 DEF OneMain
  <2>2. ASSUME NEW j \in Existing, j # i
        PROVE  /\ identity'[j] # None /\ identity'[j].main = FALSE
               /\ identity'[j].active = identity[j].active
               /\ SameRest(j)
    <3>1. identity'[j] = [identity[j] EXCEPT !.main = FALSE]
      <4>1. identity'[j] = [identity[j] EXCEPT !.main = (j = i)]
        BY <1>2, <1>5, <2>2 DEF OneMain
      <4>. QED BY <2>2, <4>1
    <3>2. identity'[j] \in Identity
      BY <1>2, <3>1 DEF Identity
    <3>. QED BY <1>2, <3>1, <3>2, RowsAreNotNull DEF Identity, SameRest
  <2>3. /\ identity'[i] # None /\ identity'[i].main /\ identity'[i].active
        /\ SameRest(i)
    <3>1. OneMain(i)[i] = [identity[i] EXCEPT !.main = TRUE]
      <4>1. OneMain(i)[i] = [identity[i] EXCEPT !.main = (i = i)]
        BY <1>2, <1>5 DEF OneMain
      <4>. QED BY <4>1
    <3>2. identity'[i] = [[identity[i] EXCEPT !.main = TRUE] EXCEPT !.active = TRUE]
      BY <1>5, <3>1 DEF OneMain
    <3>4. [identity[i] EXCEPT !.main = TRUE] \in Identity
      BY <1>2, <1>5 DEF Identity
    <3>5. /\ [identity[i] EXCEPT !.main = TRUE].main = TRUE
          /\ [identity[i] EXCEPT !.main = TRUE].channel = identity[i].channel
          /\ [identity[i] EXCEPT !.main = TRUE].provider = identity[i].provider
          /\ [identity[i] EXCEPT !.main = TRUE].account = identity[i].account
      BY <1>2, <1>5 DEF Identity
    <3>6. ASSUME NEW r \in Identity
          PROVE  /\ [r EXCEPT !.active = TRUE] \in Identity
                 /\ [r EXCEPT !.active = TRUE].active = TRUE
                 /\ [r EXCEPT !.active = TRUE].main = r.main
                 /\ [r EXCEPT !.active = TRUE].channel = r.channel
                 /\ [r EXCEPT !.active = TRUE].provider = r.provider
                 /\ [r EXCEPT !.active = TRUE].account = r.account
      BY DEF Identity
    <3>3. /\ identity'[i] \in Identity /\ identity'[i].active = TRUE
          /\ identity'[i].main = TRUE /\ SameRest(i)
      BY <3>2, <3>4, <3>5, <3>6 DEF SameRest
    <3>. QED BY <3>3, RowsAreNotNull
  <2>. QED BY <1>5, <2>1, <2>2, <2>3 DEF Existing, Active, Mains
<1>. QED BY <1>3, <1>4, <1>5

\* The identifier of one personality is changed, to one no active one has.
LEMMA ChannelMoved ==
  ASSUME NEW i \in Existing, NEW ch, config.mode = "multi" \/ Active \subseteq {i}, ChannelsDistinct,
         i \in Active => ~Conflict(i, ch), UNCHANGED Active,
         \A j \in Active : identity'[j].channel = IF j = i THEN ch ELSE identity[j].channel
  PROVE  ChannelsDistinct'
<1>1. ASSUME NEW j \in Active, NEW k \in Active, identity'[j].channel = identity'[k].channel
      PROVE  j = k \/ identity'[j].channel = None
  <2>1. CASE j # i /\ k # i
    BY <1>1, <2>1 DEF ChannelsDistinct
  <2>2. CASE j = i /\ k # i
    <3>1. config.mode = "multi" /\ ~Conflict(i, ch)
      BY <2>2
    <3>2. identity[k].channel = ch /\ identity'[j].channel = ch
      BY <1>1, <2>2
    <3>. QED BY <2>2, <3>1, <3>2 DEF Conflict
  <2>3. CASE j # i /\ k = i
    <3>1. config.mode = "multi" /\ ~Conflict(i, ch)
      BY <2>3
    <3>2. identity[j].channel = ch /\ identity'[j].channel = ch
      BY <1>1, <2>3
    <3>. QED BY <2>3, <3>1, <3>2 DEF Conflict
  <2>. QED BY <2>1, <2>2, <2>3
<1>. QED BY <1>1 DEF ChannelsDistinct

\* One personality more becomes active, with an identifier no active one has.
LEMMA ActiveJoined ==
  ASSUME NEW i \in Existing, config.mode = "multi", ChannelsDistinct,
         ~Conflict(i, identity[i].channel), Active' = Active \cup {i},
         \A j \in Existing : identity'[j].channel = identity[j].channel
  PROVE  ChannelsDistinct'
<1>0. Active \subseteq Existing
  BY DEF Active
<1>1. ASSUME NEW j \in Active \cup {i}, NEW k \in Active \cup {i},
             identity[j].channel = identity[k].channel
      PROVE  j = k \/ identity[j].channel = None
  <2>1. CASE j \in Active /\ k \in Active
    BY <1>1, <2>1 DEF ChannelsDistinct
  <2>2. CASE j = i /\ k # i
    BY <1>1, <2>2 DEF Conflict
  <2>3. CASE j # i /\ k = i
    BY <1>1, <2>3 DEF Conflict
  <2>. QED BY <1>1, <2>1, <2>2, <2>3
<1>. QED BY <1>0, <1>1 DEF ChannelsDistinct

LEMMA FewAreDistinct ==
  ASSUME \A i, j \in Active : i = j
  PROVE  ChannelsDistinct
BY DEF ChannelsDistinct

\* Each request on a personality leaves one main one and channels apart.
LEMMA RolesStay ==
  ASSUME PeopleInv, NEW i \in Ids,
         \/ Create(i) \/ Update(i) \/ TopicLock(i) \/ SetImage(i) \/ Delete(i)
         \/ Activate(i) \/ Deactivate(i) \/ MakeMain(i)
  PROVE  MainInv' /\ ChannelsDistinct'
<1> USE DEF PeopleInv
<1>1. config' = config /\ config.mode \in Modes
  BY DEF Create, Update, TopicLock, SetImage, Delete, Activate, Deactivate, MakeMain,
         OnlyIdentities, StoreOK, Config
<1>2. ASSUME NEW j \in Existing PROVE j \in Ids /\ identity[j] \in Identity /\ identity[j] # None
  BY DEF StoreOK, Existing
<1>3. Active \subseteq Existing /\ Mains \subseteq Existing /\ Existing \subseteq Ids
  BY DEF Active, Mains, Existing
<1>4. CASE Create(i)
  <2>1. PICK p \in Providers \cup {None}, acct \in Accounts \cup {"keep"},
             profile \in Accounts \cup {None}, ch \in Channels \cup {None} :
          \E b \in Bindings(Unbound, p, acct, profile) :
            /\ Fits(p, b.account)
            /\ identity' = [identity EXCEPT ![i] = [active |-> Active = {}, main |-> Active = {},
                 text |-> 0, image |-> 0, channel |-> ch, provider |-> p,
                 account |-> b.account, profile |-> b.profile]]
    BY <1>4, Zenon DEF Create
  <2>2. PICK a \in Accounts \cup {None}, q \in Accounts \cup {None} :
          identity' = [identity EXCEPT ![i] = [active |-> Active = {}, main |-> Active = {},
                 text |-> 0, image |-> 0, channel |-> ch, provider |-> p, account |-> a, profile |-> q]]
    BY <2>1, FirstBindingsTyped
  <2> DEFINE row == [active |-> Active = {}, main |-> Active = {},
                 text |-> 0, image |-> 0, channel |-> ch, provider |-> p, account |-> a, profile |-> q]
  <2>3. i \notin Existing
    BY <1>4 DEF Create
  <2>4. \A j \in Ids \ {i} : identity'[j] = identity[j]
    BY <2>2 DEF StoreOK
  <2>5. identity'[i] = row
    BY <2>2 DEF StoreOK
  <2>6. identity'[i].active = (Active = {}) /\ identity'[i].main = (Active = {})
    BY <2>5
  <2>7. identity'[i] # None
    <3>2. (Active = {}) \in BOOLEAN
      OBVIOUS
    <3>3. row \in Identity
      BY <3>2 DEF Identity, Bit
    <3>. QED BY <2>5, <3>3, RowsAreNotNull
  <2>8. Existing' = Existing \cup {i}
    BY <1>3, <2>3, <2>4, <2>7 DEF Existing
  <2>9. CASE Active = {}
    <3>1. Active' = {i} /\ Mains' = {i}
      BY <1>3, <2>3, <2>4, <2>6, <2>8, <2>9 DEF Active, Mains, MainInv
    <3>. QED BY <3>1, <2>8, FewAreDistinct DEF MainInv, ChannelsDistinct
  <2>10. CASE Active # {}
    <3>1. Active' = Active
      BY <1>3, <2>3, <2>4, <2>6, <2>8, <2>10 DEF Active
    <3>2. Mains' = Mains
      BY <1>3, <2>3, <2>4, <2>6, <2>8, <2>10 DEF Mains
    <3>3. Mains # {} /\ i \notin Active
      BY <1>3, <2>3, <2>10 DEF MainInv
    <3>4. \A j \in Active : identity'[j] = identity[j]
      BY <1>3, <2>4, <3>3
    <3>. QED BY <1>1, <3>1, <3>2, <3>3, <3>4 DEF MainInv, ChannelsDistinct
  <2>. QED BY <2>9, <2>10
<1>5. CASE Update(i)
  <2>0. i \in Existing
    BY <1>5 DEF Update
  <2>1. CASE identity' = [identity EXCEPT ![i].text = 1 - @]
    <3>1. identity'[i] # None
      BY <1>2, <2>0, <2>1, RowsAreNotNull DEF Identity, Bit, StoreOK
    <3>2. SameRoles
      BY <1>2, <2>0, <2>1, <3>1 DEF SameRoles, Existing, StoreOK, Identity
    <3>. QED BY <1>1, <3>2, RolesKept
  <2>2. ASSUME NEW ch \in Channels \cup {None}, i \in Active => ~Conflict(i, ch),
               identity' = [identity EXCEPT ![i].channel = ch]
        PROVE  MainInv' /\ ChannelsDistinct'
    <3>1. identity'[i] # None
      BY <1>2, <2>0, <2>2, RowsAreNotNull DEF Identity, StoreOK
    <3>2. Existing' = Existing /\ Active' = Active /\ Mains' = Mains
      BY <1>2, <2>0, <2>2, <3>1 DEF Existing, Active, Mains, StoreOK, Identity
    <3>3. \A j \in Active : identity'[j].channel = IF j = i THEN ch ELSE identity[j].channel
      BY <1>2, <1>3, <2>0, <2>2 DEF StoreOK, Identity
    <3>4. MainInv'
      BY <1>1, <3>2 DEF MainInv
    <3>5. CASE config.mode = "multi"
      BY <2>0, <2>2, <3>2, <3>3, <3>4, <3>5, ChannelMoved
    <3>6. CASE config.mode = "single"
      BY <3>2, <3>4, <3>6 DEF MainInv, ChannelsDistinct
    <3>. QED BY <1>1, <3>4, <3>5, <3>6 DEF Modes
  <2>3. ASSUME NEW p \in Providers \cup {None}, NEW a \in Accounts \cup {None}, NEW q \in Accounts \cup {None},
               identity' = [identity EXCEPT ![i].provider = p, ![i].account = a, ![i].profile = q]
        PROVE  MainInv' /\ ChannelsDistinct'
    <3> DEFINE row == [[[identity[i] EXCEPT !.provider = p] EXCEPT !.account = a] EXCEPT !.profile = q]
    <3>1. row \in Identity /\ row.active = identity[i].active /\ row.main = identity[i].main
          /\ row.channel = identity[i].channel
      BY <1>2, <2>0 DEF Identity
    <3>2. identity' = [identity EXCEPT ![i] = row]
      BY <2>3
    <3> HIDE DEF row
    <3>3. identity'[i] = row /\ \A j \in Ids \ {i} : identity'[j] = identity[j]
      BY <1>2, <2>0, <3>2 DEF StoreOK
    <3>4. SameRoles
      BY <1>2, <2>0, <3>1, <3>3, RowsAreNotNull DEF SameRoles, Existing
    <3>. QED BY <1>1, <3>4, RolesKept
  <2>4. ASSUME NEW p \in Providers \cup {None}, NEW acct \in Given, NEW profile \in Given,
               NEW b \in Bindings(identity[i], p, acct, profile),
               identity' = [identity EXCEPT ![i].provider = p, ![i].account = b.account, ![i].profile = b.profile]
        PROVE  MainInv' /\ ChannelsDistinct'
    <3>1. identity[i] \in Identity
      BY <1>2, <2>0
    <3>2. b.account \in Accounts \cup {None} /\ b.profile \in Accounts \cup {None}
      BY <3>1, BindingsTyped DEF Identity
    <3>. QED BY <2>3, <2>4, <3>2
  <2>5. \/ identity' = [identity EXCEPT ![i].text = 1 - @]
        \/ \E ch \in Channels \cup {None} :
             (i \in Active => ~Conflict(i, ch)) /\ identity' = [identity EXCEPT ![i].channel = ch]
        \/ \E p \in Providers \cup {None}, acct, profile \in Given :
             \E b \in Bindings(identity[i], p, acct, profile) :
               identity' = [identity EXCEPT ![i].provider = p, ![i].account = b.account, ![i].profile = b.profile]
    BY <1>5, Zenon DEF Update
  <2>. QED BY <2>1, <2>2, <2>4, <2>5
<1>6. CASE TopicLock(i) \/ SetImage(i)
  <2>0. i \in Existing
    BY <1>6 DEF TopicLock, SetImage
  <2>1. \/ identity' = [identity EXCEPT ![i].text = 1 - @]
        \/ identity' = [identity EXCEPT ![i].image = 1 - @]
    BY <1>6 DEF TopicLock, SetImage
  <2>2. ASSUME identity' = [identity EXCEPT ![i].text = 1 - @] PROVE SameRoles
    <3>0. identity[i] \in Identity /\ i \in Existing
      BY <1>2, <2>0
    <3>1. identity'[i] \in Identity
      BY <2>2, <3>0 DEF Identity, Bit, StoreOK
    <3>2. identity'[i] # None
      BY <3>1, RowsAreNotNull
    <3>. QED BY <1>2, <2>2, <3>0, <3>2 DEF SameRoles, Existing, StoreOK, Identity
  <2>4. ASSUME identity' = [identity EXCEPT ![i].image = 1 - @] PROVE SameRoles
    <3>0. identity[i] \in Identity /\ i \in Existing
      BY <1>2, <2>0
    <3>1. identity'[i] \in Identity
      BY <2>4, <3>0 DEF Identity, Bit, StoreOK
    <3>2. identity'[i] # None
      BY <3>1, RowsAreNotNull
    <3>. QED BY <1>2, <2>4, <3>0, <3>2 DEF SameRoles, Existing, StoreOK, Identity
  <2>3. SameRoles
    BY <2>1, <2>2, <2>4
  <2>. QED BY <1>1, <2>3, RolesKept
<1>7. CASE Delete(i)
  <2>1. /\ i \in Existing /\ ~identity[i].active /\ ~identity[i].main
        /\ identity' = [identity EXCEPT ![i] = None]
    BY <1>7 DEF Delete
  <2>2. Existing' = Existing \ {i} /\ \A j \in Existing \ {i} : identity'[j] = identity[j]
    BY <1>3, <2>1 DEF Existing, StoreOK
  <2>3. i \notin Active /\ i \notin Mains
    BY <2>1 DEF Active, Mains
  <2>4. Active' = Active /\ Mains' = Mains
    BY <1>3, <2>2, <2>3 DEF Active, Mains
  <2>. QED BY <1>1, <1>3, <2>2, <2>3, <2>4 DEF MainInv, ChannelsDistinct
<1>8. CASE Activate(i)
  <2>1. i \in Existing /\ ~Conflict(i, identity[i].channel)
    BY <1>8 DEF Activate
  <2>2. CASE config.mode = "multi"
    <3>1. identity' = SetActive(Active \cup {i})
      BY <1>8, <2>2 DEF Activate
    <3>2. /\ Existing' = Existing /\ Active' = Existing \cap (Active \cup {i}) /\ Mains' = Mains
          /\ \A j \in Existing : identity'[j].channel = identity[j].channel
      BY <3>1, RolesWritten DEF SameRest
    <3>3. Active' = Active \cup {i}
      BY <1>3, <2>1, <3>2
    <3>4. ChannelsDistinct'
      BY <2>1, <2>2, <3>2, <3>3, ActiveJoined
    <3>. QED BY <1>1, <2>2, <3>2, <3>3, <3>4 DEF MainInv
  <2>3. CASE config.mode # "multi"
    <3>1. identity' = MainAlone(i)
      BY <1>8, <2>3 DEF Activate
    <3>2. Existing' = Existing /\ Active' = {i} /\ Mains' = {i}
      BY <2>1, <3>1, RolesWritten DEF SameRest
    <3>. QED BY <3>2 DEF MainInv, ChannelsDistinct
  <2>. QED BY <2>2, <2>3
<1>9. CASE Deactivate(i)
  <2>1. i \in Existing /\ ~identity[i].main /\ identity' = SetActive(Active \ {i})
    BY <1>9 DEF Deactivate, Deactivatable
  <2>2. /\ Existing' = Existing /\ Active' = Existing \cap (Active \ {i}) /\ Mains' = Mains
        /\ \A j \in Existing : identity'[j].channel = identity[j].channel
    BY <2>1, RolesWritten DEF SameRest
  <2>3. i \notin Mains /\ Active' = Active \ {i}
    BY <1>3, <2>1, <2>2 DEF Mains
  <2>. QED BY <1>1, <1>3, <2>2, <2>3 DEF MainInv, ChannelsDistinct
<1>10. CASE MakeMain(i)
  <2>1. i \in Existing /\ ~Conflict(i, identity[i].channel)
    BY <1>10 DEF MakeMain
  <2>2. CASE config.mode = "single"
    <3>1. identity' = MainAlone(i)
      BY <1>10, <2>2 DEF MakeMain
    <3>2. Existing' = Existing /\ Active' = {i} /\ Mains' = {i}
      BY <2>1, <3>1, RolesWritten DEF SameRest
    <3>. QED BY <3>2 DEF MainInv, ChannelsDistinct
  <2>3. CASE config.mode = "multi"
    <3>1. identity' = [OneMain(i) EXCEPT ![i].active = TRUE]
      BY <1>10, <2>3 DEF MakeMain
    <3>2. /\ Existing' = Existing /\ Active' = Active \cup {i} /\ Mains' = {i}
          /\ \A j \in Existing : identity'[j].channel = identity[j].channel
      BY <2>1, <3>1, RolesWritten DEF SameRest
    <3>3. ChannelsDistinct'
      BY <2>1, <2>3, <3>2, ActiveJoined
    <3>. QED BY <1>1, <2>3, <3>2, <3>3 DEF MainInv
  <2>. QED BY <1>1, <2>2, <2>3 DEF Modes
<1>. QED BY <1>4, <1>5, <1>6, <1>7, <1>8, <1>9, <1>10

LEMMA ModeKeepsRoles ==
  ASSUME PeopleInv, NEW mode \in Modes, SetMode(mode)
  PROVE  MainInv' /\ ChannelsDistinct'
<1> USE DEF PeopleInv
<1>1. config'.mode = mode
  BY ModeTyped
<1>2. Active \subseteq Existing /\ Mains \subseteq Existing
  BY DEF Active, Mains
<1>3. CASE mode = "single" /\ Mains # {}
  <2>1. identity' = SetActive(Mains)
    BY <1>3 DEF SetMode
  <2>2. PICK m \in Ids : m \in Mains
    BY <1>3 DEF Mains, Existing
  <2>3. Existing' = Existing /\ Active' = Existing \cap Mains /\ Mains' = Mains
    BY <2>1, <2>2, RolesWritten DEF SameRest
  <2>. QED BY <1>2, <2>3 DEF MainInv, ChannelsDistinct
<1>4. CASE ~(mode = "single" /\ Mains # {})
  <2>1. UNCHANGED identity
    BY <1>4 DEF SetMode
  <2>2. UNCHANGED <<Existing, Active, Mains>>
    BY <2>1 DEF Existing, Active, Mains
  <2>3. mode = "single" => Active = {} /\ Mains = {}
    BY <1>2, <1>4 DEF MainInv
  <2>. QED BY <1>1, <2>1, <2>2, <2>3 DEF MainInv, ChannelsDistinct
<1>. QED BY <1>3, <1>4

-----------------------------------------------------------------------------
(* The account a personality is bound to. *)

LEMMA BindingsStay ==
  ASSUME PeopleInv, IdentityRequest
  PROVE  BoundAccountFits'
<1> USE DEF PeopleInv
<1> PICK i \in Ids : \/ Create(i) \/ Update(i) \/ TopicLock(i) \/ SetImage(i) \/ Delete(i)
                     \/ Activate(i) \/ Deactivate(i) \/ MakeMain(i)
  BY DEF IdentityRequest
<1>1. UNCHANGED account
  BY DEF Create, Update, TopicLock, SetImage, Delete, Activate, Deactivate, MakeMain, OnlyIdentities
<1>2. \A p : OfProvider(p)' = OfProvider(p)
  BY <1>1 DEF OfProvider
<1>3. ASSUME NEW j \in Existing PROVE j \in Ids /\ identity[j] \in Identity
  BY DEF StoreOK, Existing
<1> DEFINE FitsNow(j) == Fits(identity[j].provider, identity[j].account)
<1>4. ASSUME NEW j \in Existing, identity'[j].provider = identity[j].provider,
             identity'[j].account = identity[j].account
      PROVE  FitsNow(j)'
  <2>1. FitsNow(j)
    BY DEF BoundAccountFits
  <2>. QED BY <1>2, <1>4, <2>1 DEF Fits
<1>5. ASSUME NEW j \in Ids, NEW p, NEW a, identity'[j].provider = p, identity'[j].account = a, Fits(p, a)
      PROVE  FitsNow(j)'
  BY <1>2, <1>5 DEF Fits
<1>6. ASSUME Existing' \subseteq Existing,
             \A j \in Existing' : identity'[j].provider = identity[j].provider
                                /\ identity'[j].account = identity[j].account
      PROVE  BoundAccountFits'
  BY <1>4, <1>6 DEF BoundAccountFits
<1>7. CASE Create(i)
  <2>1. PICK p \in Providers \cup {None}, acct \in Accounts \cup {"keep"},
             profile \in Accounts \cup {None}, ch \in Channels \cup {None} :
          \E b \in Bindings(Unbound, p, acct, profile) :
            /\ Fits(p, b.account)
            /\ identity' = [identity EXCEPT ![i] = [active |-> Active = {}, main |-> Active = {},
                 text |-> 0, image |-> 0, channel |-> ch, provider |-> p,
                 account |-> b.account, profile |-> b.profile]]
    BY <1>7, Zenon DEF Create
  <2>2. PICK b \in Bindings(Unbound, p, acct, profile) :
          /\ Fits(p, b.account)
          /\ identity' = [identity EXCEPT ![i] = [active |-> Active = {}, main |-> Active = {},
                 text |-> 0, image |-> 0, channel |-> ch, provider |-> p,
                 account |-> b.account, profile |-> b.profile]]
    BY <2>1
  <2>3. identity'[i].provider = p /\ identity'[i].account = b.account
    BY <2>2 DEF StoreOK
  <2>4. FitsNow(i)'
    BY <1>5, <2>2, <2>3
  <2>5. \A j \in Ids \ {i} : identity'[j] = identity[j]
    BY <2>2 DEF StoreOK
  <2>6. ASSUME NEW j \in Existing', j # i PROVE FitsNow(j)'
    <3>1. j \in Existing /\ identity'[j] = identity[j]
      BY <2>5, <2>6 DEF Existing
    <3>. QED BY <1>4, <3>1
  <2>. QED BY <2>4, <2>6 DEF BoundAccountFits
<1>8. CASE Update(i)
  <2>0. i \in Existing
    BY <1>8 DEF Update
  <2>1. CASE \/ identity' = [identity EXCEPT ![i].text = 1 - @]
             \/ \E ch \in Channels \cup {None} : identity' = [identity EXCEPT ![i].channel = ch]
    <3>1. \A j \in Existing : identity'[j].provider = identity[j].provider
                            /\ identity'[j].account = identity[j].account
      BY <1>3, <2>0, <2>1 DEF StoreOK, Identity
    <3>2. Existing' \subseteq Existing
      BY <2>0, <2>1 DEF Existing, StoreOK
    <3>. QED BY <1>6, <3>1, <3>2
  <2>2. ASSUME NEW p, NEW a, NEW q, Fits(identity'[i].provider, identity'[i].account),
               identity' = [identity EXCEPT ![i].provider = p, ![i].account = a, ![i].profile = q]
        PROVE  BoundAccountFits'
    <3>2. FitsNow(i)'
      BY <1>5, <2>2
    <3>3. \A j \in Ids \ {i} : identity'[j] = identity[j]
      BY <2>2 DEF StoreOK
    <3>4. ASSUME NEW j \in Existing', j # i PROVE FitsNow(j)'
      <4>1. j \in Existing /\ identity'[j] = identity[j]
        BY <3>3, <3>4 DEF Existing
      <4>. QED BY <1>4, <4>1
    <3>. QED BY <3>2, <3>4 DEF BoundAccountFits
  <2>3. /\ Fits(identity'[i].provider, identity'[i].account)
        /\ \/ identity' = [identity EXCEPT ![i].text = 1 - @]
           \/ \E ch \in Channels \cup {None} : identity' = [identity EXCEPT ![i].channel = ch]
           \/ \E p \in Providers \cup {None}, acct, profile \in Given :
                \E b \in Bindings(identity[i], p, acct, profile) :
                  identity' = [identity EXCEPT ![i].provider = p, ![i].account = b.account, ![i].profile = b.profile]
    BY <1>8, Zenon DEF Update
  <2>4. ASSUME NEW p, NEW acct, NEW profile, NEW b,
               identity' = [identity EXCEPT ![i].provider = p, ![i].account = b.account, ![i].profile = b.profile]
        PROVE  BoundAccountFits'
    <3> DEFINE a == b.account  q == b.profile
    <3>1. identity' = [identity EXCEPT ![i].provider = p, ![i].account = a, ![i].profile = q]
      BY <2>4
    <3> HIDE DEF a, q
    <3>. QED BY <2>2, <2>3, <3>1, Zenon
  <2>5. CASE \E p \in Providers \cup {None}, acct, profile \in Given :
               \E b \in Bindings(identity[i], p, acct, profile) :
                 identity' = [identity EXCEPT ![i].provider = p, ![i].account = b.account, ![i].profile = b.profile]
    BY <2>4, <2>5, Zenon
  <2>. QED BY <2>1, <2>3, <2>5, Zenon
<1>9. CASE TopicLock(i) \/ SetImage(i)
  <2>0. i \in Existing
    BY <1>9 DEF TopicLock, SetImage
  <2>1. \/ identity' = [identity EXCEPT ![i].text = 1 - @]
        \/ identity' = [identity EXCEPT ![i].image = 1 - @]
    BY <1>9 DEF TopicLock, SetImage
  <2>2. Existing' \subseteq Existing
    BY <2>0, <2>1 DEF Existing, StoreOK
  <2>3. \A j \in Existing : identity'[j].provider = identity[j].provider
                          /\ identity'[j].account = identity[j].account
    BY <1>3, <2>0, <2>1 DEF StoreOK, Identity
  <2>. QED BY <1>6, <2>2, <2>3
<1>10. CASE Delete(i)
  <2>1. identity' = [identity EXCEPT ![i] = None]
    BY <1>10 DEF Delete
  <2>2. Existing' \subseteq Existing \ {i} /\ \A j \in Ids \ {i} : identity'[j] = identity[j]
    BY <2>1 DEF Existing, StoreOK
  <2>. QED BY <1>3, <1>6, <2>2
<1>11. CASE Activate(i) \/ Deactivate(i) \/ MakeMain(i)
  <2>0. i \in Existing
    BY <1>11 DEF Activate, Deactivate, MakeMain
  <2>1. \/ \E on : identity' = SetActive(on)
        \/ identity' = MainAlone(i)
        \/ identity' = [OneMain(i) EXCEPT ![i].active = TRUE]
    BY <1>11 DEF Activate, Deactivate, MakeMain
  <2>2. ASSUME NEW on, identity' = SetActive(on)
        PROVE  BoundAccountFits'
    BY <1>6, <2>2, RolesWritten DEF SameRest
  <2>3. CASE identity' = MainAlone(i)
    BY <1>6, <2>3, RolesWritten DEF SameRest
  <2>5. CASE \E on : identity' = SetActive(on)
    BY <2>2, <2>5
  <2>4. CASE identity' = [OneMain(i) EXCEPT ![i].active = TRUE]
    BY <1>6, <2>0, <2>4, RolesWritten DEF SameRest
  <2>. QED BY <2>1, <2>3, <2>4, <2>5
<1>. QED BY <1>7, <1>8, <1>9, <1>10, <1>11

LEMMA BindingsKept ==
  ASSUME PeopleInv, UNCHANGED identity,
         \A a \in Accounts : account[a] # None /\ Assigned(a) =>
            account'[a] # None /\ account'[a].provider = account[a].provider
  PROVE  BoundAccountFits'
<1> USE DEF PeopleInv
<1>1. ASSUME NEW j \in Existing, identity[j].account # None
      PROVE  /\ identity[j].provider # None
             /\ identity[j].account \in OfProvider(identity[j].provider)'
  <2>1. /\ identity[j].provider # None
        /\ identity[j].account \in OfProvider(identity[j].provider)
    BY <1>1 DEF BoundAccountFits, Fits
  <2>2. Assigned(identity[j].account)
    BY DEF Assigned
  <2>. QED BY <2>1, <2>2 DEF OfProvider
<1>2. Existing' = Existing
  BY DEF Existing
<1>. QED BY <1>1, <1>2 DEF BoundAccountFits, Fits

LEMMA ModeKeepsBindings ==
  ASSUME PeopleInv, NEW mode \in Modes, SetMode(mode)
  PROVE  BoundAccountFits'
<1> USE DEF PeopleInv
<1>1. UNCHANGED account
  BY DEF SetMode
<1>2. CASE identity' = SetActive(Mains) /\ Mains # {}
  <2>1. PICK m \in Ids : m \in Mains
    BY <1>2 DEF Mains, Existing
  <2>2. Existing' = Existing /\ \A j \in Existing : SameRest(j)
    BY <1>2, <2>1, RolesWritten
  <2>3. \A p : OfProvider(p)' = OfProvider(p)
    BY <1>1 DEF OfProvider
  <2>. QED BY <2>2, <2>3 DEF SameRest, BoundAccountFits, Fits
<1>3. CASE UNCHANGED identity
  BY <1>1, <1>3, BindingsKept
<1>. QED BY <1>2, <1>3 DEF SetMode

\* One administrator's request.
LEMMA PeopleStep ==
  ASSUME PeopleInv, Administer
  PROVE  PeopleInv'
<1>1. CASE IdentityRequest
  <2>1. StoreOK'
    BY <1>1, IdentitiesStayTyped DEF PeopleInv, IdentityRequest
  <2>2. MainInv' /\ ChannelsDistinct'
    BY <1>1, RolesStay DEF IdentityRequest
  <2>. QED BY <1>1, <2>1, <2>2, BindingsStay DEF PeopleInv
<1>2. ASSUME UNCHANGED identity, config'.mode = config.mode, StoreOK',
             \A a \in Accounts : account[a] # None /\ Assigned(a) =>
               account'[a] # None /\ account'[a].provider = account[a].provider
      PROVE  PeopleInv'
  <2>1. SameRoles
    BY <1>2 DEF SameRoles, Existing
  <2>. QED BY <1>2, <2>1, RolesKept, BindingsKept DEF PeopleInv
<1>3. CASE FileRequest
  <2>1. UNCHANGED <<identity, account, config>> /\ dirty' = TRUE
    BY <1>3 DEF FileRequest, SaveFile, DeleteFile, Regenerate, markRuntimeDirty
  <2>. QED BY <1>2, <2>1 DEF PeopleInv, StoreOK
<1>4. CASE AccountRequest
  BY <1>2, <1>4, AccountsStayTyped DEF PeopleInv
<1>5. CASE SetConfig
  BY <1>2, <1>5, ConfigStaysTyped DEF PeopleInv
<1>6. CASE \E mode \in Modes : SetMode(mode)
  BY <1>6, ModeTyped, ModeKeepsRoles, ModeKeepsBindings DEF PeopleInv
<1>. QED BY <1>1, <1>3, <1>4, <1>5, <1>6, AdministerSplits

-----------------------------------------------------------------------------
(* The runtime and its bundle. *)

\* The rest of the state.  What a synchronisation has still to do, and that it
\* wrote, is only there while it pulls.  What the runtime writes is never nothing.
Texts == RuntimeContents \cup {None}
Reports == [id : Ids, path : Paths, now : RuntimeContents, base : Texts]
SyncStages == {"idle", "ask", "pull", "reload", "answer"}
FilesOK ==
  /\ file \in [Ids -> [Paths -> Contents \cup {None}]]
  /\ copies \in [Ids -> SUBSET RuntimeContents]
RuntimeOK ==
  /\ DOMAIN loaded \subseteq Ids
  /\ work \in [Ids -> [Paths -> Texts]]
  /\ \A i \in DOMAIN loaded : /\ loaded[i].rules \in Bit
                              /\ loaded[i].files \in [Paths -> Texts]
                              /\ \A p \in Paths : work[i][p] = None => loaded[i].files[p] = None
SyncOK ==
  /\ sync \in [at : SyncStages, todo : SUBSET Reports, wrote : BOOLEAN]
  /\ sync.at # "pull" => sync = [Idle EXCEPT !.at = sync.at]

\* Between the load and the answer, and as long as the flag is down and the
\* pull has written nothing, the runtime has what the store says.
UpToDate ==
  /\ sync.at = "answer" => loaded = Bundle
  /\ ~dirty /\ ~sync.wrote => loaded = Bundle

BotsTypeInv == PeopleInv /\ FilesOK /\ RuntimeOK /\ SyncOK
BotsInv == BotsTypeInv /\ UpToDate

LEMMA ShownTyped ==
  ASSUME NEW p, NEW content \in Contents, NEW rules \in Bit
  PROVE  /\ Shown(p, content, rules) \in RuntimeContents
         /\ Content(Shown(p, content, rules)) = content
BY DEF Shown, RuntimeContents, Content

LEMMA BundleTyped ==
  ASSUME StoreOK, FilesOK
  PROVE  /\ DOMAIN Bundle = Runs /\ Runs \subseteq Ids
         /\ \A i \in Runs : Bundle[i].rules \in Bit /\ Bundle[i].files \in [Paths -> Texts]
<1>1. Runs \subseteq Ids
  BY DEF Runs, Active, Mains, Existing
<1>2. config.rules \in Bit
  BY DEF StoreOK, Config
<1>3. DOMAIN Bundle = Runs
  BY DEF Bundle
<1>4. ASSUME NEW i \in Runs PROVE Bundle[i].rules \in Bit /\ Bundle[i].files \in [Paths -> Texts]
  <2>1. /\ Bundle[i].rules = config.rules
        /\ Bundle[i].files = [p \in Paths |-> IF file[i][p] = None THEN None
                                            ELSE Shown(p, file[i][p], config.rules)]
    BY DEF Bundle
  <2>2. ASSUME NEW p \in Paths, file[i][p] # None
        PROVE  Shown(p, file[i][p], config.rules) \in Texts
    <3>1. file[i][p] \in Contents
      BY <1>1, <2>2 DEF FilesOK
    <3>. QED BY <1>2, <3>1, ShownTyped DEF Texts
  <2>. QED BY <1>2, <2>1, <2>2 DEF Texts
<1>. QED BY <1>1, <1>3, <1>4

LEMMA LoadsTyped ==
  ASSUME StoreOK, FilesOK, RuntimeLoads
  PROVE  RuntimeOK'
<1>1. loaded' = Bundle /\ work' = [i \in Ids |-> IF i \in Runs THEN Bundle[i].files ELSE NoFiles]
  BY DEF RuntimeLoads
<1>2. NoFiles \in [Paths -> Texts]
  BY DEF NoFiles, Texts
<1>3. /\ DOMAIN loaded' \subseteq Ids /\ work' \in [Ids -> [Paths -> Texts]]
  BY <1>1, <1>2, BundleTyped
<1>4. ASSUME NEW i \in DOMAIN loaded'
      PROVE  /\ loaded'[i].rules \in Bit /\ loaded'[i].files \in [Paths -> Texts]
             /\ work'[i] = loaded'[i].files
  BY <1>1, <1>4, BundleTyped
<1>. QED BY <1>3, <1>4 DEF RuntimeOK

\* The credentials depend on the accounts, the configuration and the row.
LEMMA CredentialsKept ==
  ASSUME UNCHANGED <<account, config>>, NEW j, identity'[j] = identity[j]
  PROVE  Credentials(j)' = Credentials(j)
<1> DEFINE Of(p) == {a \in Accounts : account[a] # None /\ account[a].provider = p}
           On(p) == {a \in Of(p) : account[a].active}
           Used == {p \in Providers : Of(p) # {}}
           Fall == IF config.provider # None THEN config.provider
                   ELSE IF Used = {} THEN None ELSE First(Used)
           FallId == IF config.account # None THEN config.account ELSE config.profile
           P == IF identity[j].provider # None THEN identity[j].provider ELSE Fall
           Own == IF P = "openrouter" THEN identity[j].profile ELSE None
           Common == IF P = Fall THEN FallId ELSE None
           Rest == IF Own # None THEN Own ELSE Common
           Wanted == IF identity[j].account # None THEN identity[j].account ELSE Rest
           Among == IF Wanted \in Of(P) THEN {Wanted} ELSE IF On(P) # {} THEN On(P) ELSE Of(P)
           Cred == IF P = None \/ Among = {} THEN None
                   ELSE <<P, First(Among), account[First(Among)].key>>
<1>1. Credentials(j) = Cred /\ Credentials(j)' = Cred'
  BY DEF Credentials, Chosen, fallbackProvider, fallbackProviderAccountId, OfProvider, ActiveOf
<1>2. \A p : Of(p)' = Of(p) /\ On(p)' = On(p)
  OBVIOUS
<1>3. Used' = Used
  BY <1>2
<1>4. Fall' = Fall
  <2> HIDE DEF Used
  <2>. QED BY <1>3 DEF First
<1>5. P' = P /\ FallId' = FallId
  BY <1>4
<1>6. Wanted' = Wanted
  <2> HIDE DEF P, Fall, FallId
  <2>. QED BY <1>4, <1>5
<1>7. Among' = Among
  <2> HIDE DEF P, Wanted, Of, On
  <2>. QED BY <1>2, <1>5, <1>6
<1>8. Cred' = Cred
  <2> HIDE DEF P, Among
  <2>. QED BY <1>5, <1>7 DEF First
<1> HIDE DEF Cred
<1>. QED BY <1>1, <1>8

LEMMA BundleKept ==
  ASSUME UNCHANGED <<identity, account, config, file, copies>>
  PROVE  Bundle' = Bundle
<1>1. Runs' = Runs
  BY DEF Runs, Active, Mains, Existing
<1>2. \A j : Credentials(j)' = Credentials(j)
  BY CredentialsKept
<1>. QED BY <1>1, <1>2 DEF Bundle, Shown

\* A picture of a personality that does not run is not in the bundle.
LEMMA UnusedImage ==
  ASSUME StoreOK, MainInv, NEW i \in Ids, SetImage(i), ~identity[i].active
  PROVE  Bundle' = Bundle
<1>1. /\ i \in Existing /\ identity' = [identity EXCEPT ![i].image = 1 - @]
      /\ UNCHANGED <<account, config, file, copies>>
  BY DEF SetImage, Filed
<1>2. \A j \in Ids \ {i} : identity'[j] = identity[j]
  BY <1>1 DEF StoreOK
<1>3. /\ identity[i] # None /\ identity'[i] # None
      /\ identity'[i].active = identity[i].active /\ identity'[i].main = identity[i].main
  <2>1. identity[i] \in Identity /\ identity[i] # None
    BY <1>1 DEF Existing, StoreOK
  <2>2. identity'[i] \in Identity
    BY <1>1, <2>1 DEF StoreOK, Identity, Bit
  <2>. QED BY <1>1, <2>1, <2>2, RowsAreNotNull DEF StoreOK, Identity
<1>4. Existing' = Existing
  BY <1>2, <1>3 DEF Existing
<1>5. Active' = Active /\ Mains' = Mains
  BY <1>2, <1>3, <1>4 DEF Active, Mains, Existing
<1>6. Runs' = Runs
  BY <1>1, <1>5 DEF Runs
<1>7. i \notin Runs /\ Runs \subseteq Ids
  BY DEF Runs, MainInv, Active, Existing
<1>8. ASSUME NEW j \in Runs PROVE Credentials(j)' = Credentials(j)
  <2>1. identity'[j] = identity[j]
    BY <1>2, <1>7
  <2>. QED BY <1>1, <2>1, CredentialsKept
<1>9. ASSUME NEW j \in Runs PROVE identity'[j] = identity[j]
  BY <1>2, <1>7
<1>. QED BY <1>1, <1>6, <1>8, <1>9 DEF Bundle, Shown

-----------------------------------------------------------------------------
(* The steps. *)

LEMMA BotsInit == Init => BotsInv
<1> SUFFICES ASSUME Init PROVE BotsInv
  OBVIOUS
<1> USE DEF Init, PersonalitiesInit
<1>1. Existing = {} /\ Active = {} /\ Mains = {}
  BY DEF Existing, Active, Mains
<1>2. StoreOK
  BY DEF StoreOK, Config, Modes, Bit
<1>3. PeopleInv
  BY <1>1, <1>2 DEF PeopleInv, MainInv, ChannelsDistinct, BoundAccountFits
<1>4. FilesOK
  BY DEF FilesOK, NoFiles
<1>5. DOMAIN loaded = {}
  OBVIOUS
<1>6. work \in [Ids -> [Paths -> Texts]]
  BY DEF NoWork, NoFiles, Texts
<1>7. RuntimeOK
  BY <1>5, <1>6 DEF RuntimeOK
<1>8. SyncOK
  BY DEF SyncOK, Idle, SyncStages
<1>9. UpToDate
  <2>1. Runs = {}
    BY <1>1 DEF Runs
  <2>2. Bundle = <<>>
    BY <2>1 DEF Bundle
  <2>. QED BY <2>2 DEF UpToDate, Idle
<1>. QED BY <1>3, <1>4, <1>7, <1>8, <1>9 DEF BotsInv, BotsTypeInv

LEMMA FilesStayTyped ==
  ASSUME FilesOK, Administer
  PROVE  FilesOK'
<1> USE PersonalitiesAssumption DEF FilesOK
<1>1. ASSUME NEW i \in Ids, Create(i) PROVE FilesOK'
  BY <1>1 DEF Create
<1>2. ASSUME NEW i \in Ids, Delete(i) PROVE FilesOK'
  BY <1>2 DEF Delete, Cascade, NoFiles
<1>3. ASSUME NEW i \in Ids, SaveFile(i) PROVE FilesOK'
  BY <1>3 DEF SaveFile, saveIdentityFile
<1>4. ASSUME NEW i \in Ids, DeleteFile(i) PROVE FilesOK'
  <2>1. CASE \E p \in Paths : saveIdentityFile(i, p, None) /\ UNCHANGED copies
    BY <2>1 DEF saveIdentityFile
  <2>2. ASSUME NEW copy \in copies[i], copies' = [copies EXCEPT ![i] = @ \ {copy}], UNCHANGED file
        PROVE  FilesOK'
    <3>1. copies[i] \ {copy} \in SUBSET RuntimeContents
      OBVIOUS
    <3>. QED BY <2>2, <3>1
  <2>. QED BY <1>4, <2>1, <2>2 DEF DeleteFile
<1>5. ASSUME NEW i \in Ids, Regenerate(i) PROVE FilesOK'
  <2>1. PICK force \in BOOLEAN :
          file' = [file EXCEPT ![i] = [p \in Paths |->
                     IF p \in Managed /\ (force \/ @[p] = None) THEN Default ELSE @[p]]]
    BY <1>5 DEF Regenerate
  <2>2. \A p \in Paths : file[i][p] \in Contents \cup {None}
    OBVIOUS
  <2>3. [p \in Paths |-> IF p \in Managed /\ (force \/ file[i][p] = None) THEN Default ELSE file[i][p]]
          \in [Paths -> Contents \cup {None}]
    BY <2>2
  <2>4. file' \in [Ids -> [Paths -> Contents \cup {None}]]
    BY <2>1, <2>3
  <2>. QED BY <1>5, <2>4 DEF Regenerate
<1>6. ASSUME UNCHANGED <<file, copies>> PROVE FilesOK'
  BY <1>6
<1>7. \/ \E i \in Ids : Create(i) \/ Delete(i) \/ SaveFile(i) \/ DeleteFile(i) \/ Regenerate(i)
      \/ UNCHANGED <<file, copies>>
  BY DEF Administer, Update, TopicLock, SetImage, Activate, Deactivate, MakeMain, SetMode, SetConfig,
         ActivateAccount, DeleteAccount, CreateProfile, UpdateProfile, ActivateProfile,
         DeleteProfile, CreateAccount, PutCredentials, UpdateAccount, ActivateProvider,
         OnlyIdentities, OnlyAccounts, Filed
<1>. QED BY <1>1, <1>2, <1>3, <1>4, <1>5, <1>6, <1>7

\* A request raises the flag, or leaves the bundle as it is.
LEMMA RequestsRaiseTheFlag ==
  ASSUME PeopleInv, Administer
  PROVE  dirty' = TRUE \/ (dirty' = dirty /\ Bundle' = Bundle)
<1>1. ASSUME NEW i \in Ids, SetImage(i), ~identity[i].active
      PROVE  dirty' = dirty /\ Bundle' = Bundle
  BY <1>1, UnusedImage DEF SetImage, PeopleInv, StoreOK
<1>2. ASSUME NEW i \in Ids, SetImage(i), identity[i].active
      PROVE  dirty' = TRUE
  BY <1>2 DEF SetImage, PeopleInv, StoreOK
<1>3. dirty' = TRUE \/ \E i \in Ids : SetImage(i)
  BY DEF Administer, Create, Update, TopicLock, Delete, Activate, Deactivate, MakeMain,
         SaveFile, DeleteFile, Regenerate, SetMode, SetConfig,
         ActivateAccount, DeleteAccount, CreateProfile, UpdateProfile, ActivateProfile,
         DeleteProfile, CreateAccount, PutCredentials, UpdateAccount, ActivateProvider,
         OnlyIdentities, OnlyAccounts, markRuntimeDirty
<1>. QED BY <1>1, <1>2, <1>3

\* The statements of POST /sync and the runtime leave the roles alone.
LEMMA StoreKept ==
  ASSUME PeopleInv, UNCHANGED <<identity, account, config>>, dirty' \in BOOLEAN
  PROVE  PeopleInv'
BY DEF PeopleInv, StoreOK, MainInv, ChannelsDistinct, BoundAccountFits, Fits, OfProvider,
       Existing, Active, Mains

LEMMA FailedKeeps ==
  ASSUME BotsInv, markRuntimeSyncFailed
  PROVE  BotsInv'
<1> USE DEF BotsInv, BotsTypeInv, markRuntimeSyncFailed, Apart, Filed
<1>1. PeopleInv'
  BY StoreKept
<1>2. FilesOK' /\ RuntimeOK'
  BY DEF FilesOK, RuntimeOK
<1>3. SyncOK' /\ UpToDate'
  BY DEF SyncOK, UpToDate, Idle, SyncStages
<1>. QED BY <1>1, <1>2, <1>3

LEMMA AdministerKeeps ==
  ASSUME BotsInv, Synchronising("idle"), Administer, UNCHANGED rvars
  PROVE  BotsInv'
<1> USE DEF BotsInv, BotsTypeInv, rvars
<1>1. PeopleInv' /\ FilesOK'
  BY PeopleStep, FilesStayTyped
<1>2. RuntimeOK' /\ SyncOK'
  BY DEF RuntimeOK, SyncOK
<1>3. UpToDate'
  <2>1. dirty' = TRUE \/ (dirty' = dirty /\ Bundle' = Bundle)
    BY RequestsRaiseTheFlag
  <2>2. sync' = sync /\ loaded' = loaded /\ sync.at = "idle"
    BY DEF Synchronising
  <2>. QED BY <2>1, <2>2 DEF UpToDate
<1>. QED BY <1>1, <1>2, <1>3

LEMMA BotWritesKeeps ==
  ASSUME BotsInv, BotWrites
  PROVE  BotsInv'
<1> USE DEF BotsInv, BotsTypeInv
<1>1. UNCHANGED <<identity, account, config, file, copies, dirty, loaded, sync>>
  BY DEF BotWrites, store
<1>2. PICK i \in DOMAIN loaded, p \in Paths, content \in Contents :
        work' = [work EXCEPT ![i][p] = Shown(p, content, loaded[i].rules)]
  BY DEF BotWrites
<1>3. i \in Ids /\ loaded[i].rules \in Bit
  BY DEF RuntimeOK
<1> DEFINE new == Shown(p, content, loaded[i].rules)
<1>4. new \in RuntimeContents /\ new # None
  BY <1>3, ShownTyped, RowsAreNotNull
<1> HIDE DEF new
<1>5. work' = [work EXCEPT ![i][p] = new]
  BY <1>2 DEF new
<1>6. work' \in [Ids -> [Paths -> Texts]]
  BY <1>3, <1>4, <1>5 DEF RuntimeOK, Texts
<1>7. \A j \in Ids, q \in Paths : work'[j][q] = IF j = i /\ q = p THEN new ELSE work[j][q]
  BY <1>3, <1>5 DEF RuntimeOK
<1>8. RuntimeOK'
  BY <1>1, <1>4, <1>6, <1>7 DEF RuntimeOK
<1>9. PeopleInv' /\ FilesOK' /\ SyncOK'
  BY <1>1, StoreKept DEF FilesOK, SyncOK, PeopleInv, StoreOK
<1>10. Bundle' = Bundle
  BY <1>1, BundleKept
<1>. QED BY <1>1, <1>8, <1>9, <1>10 DEF UpToDate

LEMMA LoadKeeps ==
  ASSUME BotsInv, RuntimeLoads, UNCHANGED store, SyncOK'
  PROVE  BotsInv'
<1> USE DEF BotsInv, BotsTypeInv, store
<1>1. RuntimeOK'
  BY LoadsTyped DEF PeopleInv
<1>2. PeopleInv' /\ FilesOK'
  BY StoreKept DEF FilesOK, PeopleInv, StoreOK
<1>3. Bundle' = Bundle
  BY BundleKept
<1>4. UpToDate'
  BY <1>3 DEF UpToDate, RuntimeLoads
<1>. QED BY <1>1, <1>2, <1>4

LEMMA ReportsTyped ==
  ASSUME RuntimeOK
  PROVE  Reported \subseteq Reports
<1> SUFFICES ASSUME NEW i \in DOMAIN loaded, NEW p \in Paths, work[i][p] # loaded[i].files[p]
             PROVE  [id |-> i, path |-> p, now |-> work[i][p], base |-> loaded[i].files[p]] \in Reports
  BY DEF Reported, Changes
<1>1. i \in Ids /\ work[i][p] \in Texts /\ loaded[i].files[p] \in Texts
  BY DEF RuntimeOK
<1>2. work[i][p] # None
  BY DEF RuntimeOK
<1>. QED BY <1>1, <1>2 DEF Reports, Texts

LEMMA StagesKeep ==
  ASSUME BotsInv, BeginSync \/ AskForChanges \/ markRuntimePullResult \/ markRuntimeSynced
  PROVE  BotsInv'
<1> USE DEF BotsInv, BotsTypeInv
<1>1. UNCHANGED <<identity, account, config, file, copies, loaded, work>>
  BY DEF BeginSync, AskForChanges, markRuntimePullResult, markRuntimeSynced, Apart, Filed, store
<1>2. dirty \in BOOLEAN /\ sync.wrote \in BOOLEAN
  BY DEF PeopleInv, StoreOK, SyncOK
<1>3. dirty' \in BOOLEAN
  BY <1>2 DEF BeginSync, AskForChanges, markRuntimePullResult, markRuntimeSynced, store
<1>4. PeopleInv' /\ FilesOK' /\ RuntimeOK'
  BY <1>1, <1>3, StoreKept DEF FilesOK, RuntimeOK
<1>5. Bundle' = Bundle
  BY <1>1, BundleKept
<1>6. SyncOK'
  <2>1. CASE BeginSync
    BY <2>1 DEF BeginSync, SyncOK, SyncStages, Idle, Synchronising
  <2>2. CASE AskForChanges
    BY <2>2, ReportsTyped DEF AskForChanges, SyncOK, SyncStages, Idle, Synchronising
  <2>3. CASE markRuntimePullResult
    BY <2>3 DEF markRuntimePullResult, SyncOK, SyncStages, Idle, Synchronising
  <2>4. CASE markRuntimeSynced
    BY <2>4 DEF markRuntimeSynced, SyncOK, SyncStages, Idle, Synchronising
  <2>. QED BY <2>1, <2>2, <2>3, <2>4
<1>7. UpToDate'
  <2>1. CASE BeginSync
    BY <1>1, <1>5, <2>1 DEF BeginSync, SyncOK, UpToDate, Idle, Synchronising
  <2>2. CASE AskForChanges
    <3>1. sync' = [sync EXCEPT !.at = "pull", !.todo = Reported] /\ dirty' = dirty
      BY <2>2 DEF AskForChanges, store
    <3>2. sync'.at = "pull" /\ sync'.wrote = sync.wrote
      BY <3>1 DEF SyncOK
    <3>. QED BY <1>1, <1>5, <3>1, <3>2 DEF UpToDate
  <2>3. CASE markRuntimePullResult
    <3>1. dirty' = (dirty \/ sync.wrote) /\ sync'.at \in {"idle", "reload"}
      BY <2>3 DEF markRuntimePullResult, Idle
    <3>. QED BY <1>1, <1>2, <1>5, <3>1 DEF UpToDate
  <2>4. CASE markRuntimeSynced
    <3>1. sync.at = "answer" /\ sync'.at = "idle"
      BY <2>4 DEF markRuntimeSynced, Answered, Synchronising, Idle
    <3>. QED BY <1>1, <1>5, <3>1 DEF UpToDate
  <2>. QED BY <2>1, <2>2, <2>3, <2>4
<1>. QED BY <1>4, <1>6, <1>7

LEMMA PullFileKeeps ==
  ASSUME BotsInv, PullFile
  PROVE  BotsInv'
<1> USE DEF BotsInv, BotsTypeInv
<1>1. sync.at = "pull" /\ UNCHANGED <<identity, account, config, dirty, loaded, work>>
  BY DEF PullFile, Synchronising, Apart
<1>2. PICK ch \in sync.todo :
        /\ sync' = [sync EXCEPT !.todo = @ \ {ch}, !.wrote = @ \/ Wrote(ch)]
        /\ IF ~Wrote(ch) THEN UNCHANGED Filed
           ELSE IF BasedOnCurrent(ch) THEN saveIdentityFile(ch.id, ch.path, Content(ch.now)) /\ UNCHANGED copies
           ELSE copies' = [copies EXCEPT ![ch.id] = @ \cup {ch.now}] /\ UNCHANGED file
  BY DEF PullFile
<1>3. ch \in Reports
  BY DEF SyncOK
<1>4. ch.id \in Ids /\ ch.path \in Paths /\ ch.now \in RuntimeContents
  BY <1>3 DEF Reports
<1>5. Content(ch.now) \in Contents
  BY <1>4 DEF Content, RuntimeContents
<1>6. FilesOK'
  BY <1>2, <1>4, <1>5 DEF FilesOK, Filed, saveIdentityFile
<1>7. PeopleInv' /\ RuntimeOK'
  BY <1>1, StoreKept DEF RuntimeOK, PeopleInv, StoreOK
<1>8. PICK b \in BOOLEAN : b = (sync.wrote \/ Wrote(ch))
  OBVIOUS
<1>9. sync'.at = "pull" /\ sync'.wrote = (sync.wrote \/ Wrote(ch)) /\ sync'.todo = sync.todo \ {ch}
  BY <1>1, <1>2 DEF SyncOK
<1>10. SyncOK'
  <2>1. sync' = [sync EXCEPT !.todo = @ \ {ch}, !.wrote = b]
    BY <1>2, <1>8
  <2>. QED BY <1>1, <2>1 DEF SyncOK
<1>11. ~Wrote(ch) => Bundle' = Bundle
  BY <1>1, <1>2, BundleKept DEF Filed
<1>12. UpToDate'
  BY <1>1, <1>9, <1>11 DEF UpToDate
<1>. QED BY <1>6, <1>7, <1>10, <1>12

LEMMA BotsStep == BotsInv /\ [Next]_vars => BotsInv'
<1> SUFFICES ASSUME BotsInv, [Next]_vars PROVE BotsInv'
  OBVIOUS
<1>1. CASE Synchronising("idle") /\ Administer /\ UNCHANGED rvars
  BY <1>1, AdministerKeeps
<1>2. CASE BotWrites
  BY <1>2, BotWritesKeeps
<1>3. CASE RuntimeStarts
  BY <1>3, LoadKeeps DEF RuntimeStarts, BotsInv, BotsTypeInv, SyncOK
<1>4. CASE BeginSync \/ AskForChanges \/ markRuntimePullResult \/ markRuntimeSynced
  BY <1>4, StagesKeep
<1>5. CASE PullFails \/ ReloadFails
  BY <1>5, FailedKeeps DEF PullFails, ReloadFails
<1>6. CASE PullFile
  BY <1>6, PullFileKeeps
<1>7. CASE Reload
  <2>1. SyncOK'
    BY <1>7 DEF Reload, BotsInv, BotsTypeInv, SyncOK, Idle, SyncStages, Synchronising
  <2>. QED BY <1>7, <2>1, LoadKeeps DEF Reload
<1>8. CASE UNCHANGED vars
  <2>1. BotsTypeInv'
    BY <1>8, StoreKept DEF vars, store, rvars, BotsInv, BotsTypeInv, FilesOK, RuntimeOK, SyncOK, PeopleInv, StoreOK
  <2>2. Bundle' = Bundle
    BY <1>8, BundleKept DEF vars, store
  <2>. QED BY <1>8, <2>1, <2>2 DEF vars, store, rvars, BotsInv, UpToDate
<1>. QED BY <1>1, <1>2, <1>3, <1>4, <1>5, <1>6, <1>7, <1>8 DEF Next

-----------------------------------------------------------------------------

LEMMA BotsAlways == Spec => []BotsInv
BY BotsInit, BotsStep, PTL DEF Spec

\* As soon as there is a personality exactly one is the main one and active, and
\* alone so in the mode with one, whatever is created, switched, edited,
\* deleted, and synchronised, in any order (buildRuntimeBundle).
THEOREM MainIsUnique == Spec => []OneMainPersonality
<1>1. BotsInv => OneMainPersonality
  <2> SUFFICES ASSUME BotsInv PROVE OneMainPersonality
    OBVIOUS
  <2>1. MainInv
    BY DEF BotsInv, BotsTypeInv, PeopleInv
  <2>2. ASSUME Existing # {} PROVE Cardinality(Mains) = 1
    <3>1. PICK m \in Mains : TRUE
      BY <2>1, <2>2 DEF MainInv
    <3>2. Mains = {m}
      BY <2>1, <3>1 DEF MainInv
    <3>. QED BY <3>2, FS_Singleton
  <2>. QED BY <2>1, <2>2 DEF MainInv, OneMainPersonality
<1>. QED BY <1>1, BotsAlways, PTL

\* No two active personalities use one channel identifier
\* (assertNoChannelIdentifierConflict).
THEOREM ChannelsStayDistinct == Spec => []ChannelsDistinct
<1>1. BotsInv => ChannelsDistinct
  BY DEF BotsInv, BotsTypeInv, PeopleInv
<1>. QED BY <1>1, BotsAlways, PTL

\* A personality's account exists and is its provider's, through edits of both
\* (PUT and POST /identities, /provider-accounts and /openrouter-profiles).
THEOREM BoundAccountsFit == Spec => []BoundAccountFits
<1>1. BotsInv => BoundAccountFits
  BY DEF BotsInv, BotsTypeInv, PeopleInv
<1>. QED BY <1>1, BotsAlways, PTL

\* While no synchronisation is under way and the flag is down the runtime has
\* what the store says, whatever call failed and whatever answer was lost.
THEOREM BehindMeansDirty == Spec => []BehindIsDirty
<1>1. BotsInv => BehindIsDirty
  BY DEF BotsInv, BotsTypeInv, UpToDate, BehindIsDirty, SyncOK, Synchronising, Idle
<1>. QED BY <1>1, BotsAlways, PTL

\* A pull gives up neither the store's text nor the bot's
\* (applyRuntimeWorkspacePull).
THEOREM PullsKeepTexts == Spec => PullKeepsBothTexts
<1> DEFINE Kept == \A ch \in TakenFrom(sync'.todo) : ch.id \in Active =>
       LET old == file[ch.id][ch.path]  new == file'[ch.id][ch.path] IN
       /\ new # old => old = None \/ (ch.base # None /\ Content(ch.base) = old)
       /\ new = Content(ch.now) \/ ch.now \in copies'[ch.id]
<1>1. ASSUME BotsInv, PullFile PROVE Kept
  <2> USE DEF BotsInv, BotsTypeInv
  <2>1. PICK ch \in sync.todo :
        /\ sync' = [sync EXCEPT !.todo = @ \ {ch}, !.wrote = @ \/ Wrote(ch)]
        /\ IF ~Wrote(ch) THEN UNCHANGED Filed
           ELSE IF BasedOnCurrent(ch) THEN saveIdentityFile(ch.id, ch.path, Content(ch.now)) /\ UNCHANGED copies
           ELSE copies' = [copies EXCEPT ![ch.id] = @ \cup {ch.now}] /\ UNCHANGED file
    BY <1>1 DEF PullFile
  <2>2. ch \in Reports
    BY <1>1 DEF SyncOK
  <2>3. ch.id \in Ids /\ ch.path \in Paths /\ ch.now \in RuntimeContents
    BY <2>2 DEF Reports
  <2>4. TakenFrom(sync'.todo) \subseteq {ch}
    BY <1>1, <2>1 DEF TakenFrom, SyncOK
  <2> DEFINE old == file[ch.id][ch.path]
             new == file'[ch.id][ch.path]
  <2>5. old \in Contents \cup {None} /\ config.rules \in Bit
    BY <1>1, <2>3 DEF FilesOK, PeopleInv, StoreOK, Config
  <2>6. old # None => Current(ch) # None /\ Content(Current(ch)) = old
    BY <2>5, ShownTyped, RowsAreNotNull DEF Current
  <2>7. CASE ch.id \in Active /\ ~Wrote(ch)
    <3>1. new = old /\ Same(ch)
      BY <2>1, <2>7 DEF Wrote, Filed
    <3>. QED BY <2>4, <2>6, <3>1 DEF Same
  <2>8. CASE Wrote(ch) /\ BasedOnCurrent(ch)
    <3>1. file' = [file EXCEPT ![ch.id][ch.path] = Content(ch.now)]
      BY <2>1, <2>8 DEF saveIdentityFile
    <3>2. new = Content(ch.now)
      BY <1>1, <2>3, <3>1 DEF FilesOK
    <3>3. old = None \/ (ch.base # None /\ Content(ch.base) = old)
      BY <2>6, <2>8 DEF BasedOnCurrent
    <3>. QED BY <2>4, <3>2, <3>3
  <2>9. CASE Wrote(ch) /\ ~BasedOnCurrent(ch)
    <3>1. copies' = [copies EXCEPT ![ch.id] = @ \cup {ch.now}] /\ UNCHANGED file
      BY <2>1, <2>9
    <3>2. ch.now \in copies'[ch.id]
      BY <1>1, <2>3, <3>1 DEF FilesOK
    <3>. QED BY <2>4, <3>1, <3>2
  <2>. QED BY <2>4, <2>7, <2>8, <2>9
<1>2. ASSUME BotsInv, [Next]_vars, ~PullFile PROVE Kept
  <2>1. sync.todo = sync'.todo \/ sync.todo = {}
    BY <1>2 DEF BotsInv, BotsTypeInv, SyncOK, Idle, Next, vars, rvars, BotWrites, RuntimeStarts, BeginSync,
           PullFails, AskForChanges, markRuntimePullResult, Reload, ReloadFails, markRuntimeSynced,
           markRuntimeSyncFailed, Synchronising, Answered
  <2>. QED BY <2>1 DEF TakenFrom
<1>3. ASSUME BotsInv, [Next]_vars PROVE [Kept]_vars
  BY <1>1, <1>2, <1>3
<1>. QED BY <1>3, BotsAlways, PTL DEF PullKeepsBothTexts, Spec
=============================================================================
