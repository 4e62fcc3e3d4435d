--------------------------- MODULE Personalities ---------------------------
(***************************************************************************)
(* The bot manager's store (modules/bot-manager): personalities with their *)
(* workspace files, provider accounts, the general configuration, and the  *)
(* flag that says the runtime does not have it all yet.  One administrator *)
(* works at a time.  The statements of a request are one step: beside them *)
(* only the runtime reads this store (RuntimeSync), and every request ends *)
(* by raising the flag, which only a later request can lower.              *)
(*                                                                         *)
(* What a value says is abstracted to whether it changed: a text, a key, a *)
(* picture, the rules are 0 or 1.  The import of an archive is left out.   *)
(***************************************************************************)
EXTENDS Integers, FiniteSets

CONSTANTS
  Ids,           \* personalities that may exist
  Accounts, Named, Providers,  \* provider accounts; those named "default"
  Channels,      \* channel identifiers, a bot token for instance
  Paths, Managed,  \* workspace files; those the rules are written into
  Contents, Default,  \* what a file may say; the generated text
  Offered,       \* requests of this instance
  MaxRequests,   \* bound
  None

ASSUME PersonalitiesAssumption ==
  /\ Named \subseteq Accounts /\ Managed \subseteq Paths /\ Default \in Contents
  /\ None \notin Accounts \cup Providers \cup Channels \cup Contents
  /\ MaxRequests \in Nat /\ "openrouter" \in Providers

VARIABLES
  identity,  \* rows, None if there is none
  account,   \* rows, None if there is none
  config,    \* the general configuration
  file,      \* workspace files, None if there is none
  copies,    \* conflict copies, under paths of their own
  dirty,     \* runtimeDirty
  asked      \* requests made, a bound

store == <<identity, account, config, file, copies, dirty, asked>>

Bit == {0, 1}
Modes == {"single", "multi"}
Shown(p, content, rules) == <<content, IF p \in Managed THEN rules ELSE None>>
RuntimeContents == Contents \X (Bit \cup {None})
Identity == [active : BOOLEAN, main : BOOLEAN, text : Bit, image : Bit,
             channel : Channels \cup {None}, provider : Providers \cup {None},
             account : Accounts \cup {None},    \* runtimeProviderAccountId
             profile : Accounts \cup {None}]    \* runtimeOpenRouterProfileId
Account == [provider : Providers, active : BOOLEAN, key : Bit]
Config == [mode : Modes, provider : Providers \cup {None}, account : Accounts \cup {None},
           profile : Accounts \cup {None}, rules : Bit, reload : BOOLEAN]

ASSUME NullAssumption == None \notin Identity \cup Account \cup RuntimeContents

Existing == {i \in Ids : identity[i] # None}
Active == {i \in Existing : identity[i].active}
Mains == {i \in Existing : identity[i].main}
OfProvider(p) == {a \in Accounts : account[a] # None /\ account[a].provider = p}
ActiveOf(p) == {a \in OfProvider(p) : account[a].active}
NoFiles == [p \in Paths |-> None]

PersonalitiesInit ==
  /\ identity = [i \in Ids |-> None] /\ account = [a \in Accounts |-> None]
  /\ config = [mode |-> "single", provider |-> None, account |-> None, profile |-> None,
               rules |-> 0, reload |-> TRUE]
  /\ file = [i \in Ids |-> NoFiles] /\ copies = [i \in Ids |-> {}]
  /\ dirty = FALSE /\ asked = 0

Request(op) == op \in Offered /\ asked < MaxRequests /\ asked' = asked + 1
markRuntimeDirty == dirty' = TRUE
Filed == <<file, copies>>
setRuntimeProviderConfig(p, a, profile) ==
  config' = [config EXCEPT !.provider = p, !.account = a, !.profile = profile]
OnlyIdentities == markRuntimeDirty /\ UNCHANGED <<account, config, Filed>>
OnlyAccounts == markRuntimeDirty /\ UNCHANGED <<identity, Filed>>

\* --- which personalities are active, and which is the main one ---

SetActive(on) == [i \in Ids |-> IF i \in Existing THEN [identity[i] EXCEPT !.active = i \in on] ELSE None]
OneMain(i) == [j \in Ids |-> IF j \in Existing THEN [identity[j] EXCEPT !.main = (j = i)] ELSE None]
\* In the mode with one personality the others end with the change.
MainAlone(i) == [j \in Ids |-> IF j \in Existing
                   THEN [identity[j] EXCEPT !.main = (j = i), !.active = (j = i)] ELSE None]

\* With several active, none may use the identifier of another.
ConflictUnseen(i, ch) == FALSE    \* bug: identifiers are not compared
Conflict(i, ch) == config.mode = "multi" /\ ch # None
                     /\ \E j \in Active \ {i} : identity[j].channel = ch

Activate(i) ==
  /\ Request("activate") /\ i \in Existing /\ ~Conflict(i, identity[i].channel)
  /\ identity' = IF config.mode = "multi" THEN SetActive(Active \cup {i}) ELSE MainAlone(i)
  /\ OnlyIdentities

\* bug: the main personality may be switched off
AnyDeactivated(i) == TRUE
Deactivatable(i) == ~identity[i].main
Deactivate(i) ==
  /\ Request("deactivate") /\ i \in Existing /\ Deactivatable(i)
  /\ identity' = SetActive(Active \ {i}) /\ OnlyIdentities

MakeMain(i) ==
  /\ Request("main") /\ i \in Existing /\ ~Conflict(i, identity[i].channel)
  /\ identity' = IF config.mode = "single" THEN MainAlone(i)
                 ELSE [OneMain(i) EXCEPT ![i].active = TRUE]
  /\ OnlyIdentities

\* PUT /general-config.  The body is the whole configuration, and may carry
\* an account that an older copy of it named.
SetMode(mode) ==
  /\ Request("mode") /\ config' = [config EXCEPT !.mode = mode]
  /\ identity' = IF mode = "single" /\ Mains # {} THEN SetActive(Mains) ELSE identity
  /\ markRuntimeDirty /\ UNCHANGED <<account, Filed>>
SetConfig ==
  /\ Request("config")
  /\ \/ config' = [config EXCEPT !.rules = 1 - @]
     \/ config' = [config EXCEPT !.reload = ~@]
     \/ \E p \in Providers \cup {None}, a, profile \in Accounts \cup {None} :
          setRuntimeProviderConfig(p, a, profile)
  /\ OnlyAccounts /\ UNCHANGED account

\* --- the rows of personalities ---

\* What a request sends for either column of the binding: nothing ("keep"), the
\* empty id, or the id of an account, be there one or not.  For openrouter the
\* profile stands in for an account that was not sent.  An account is looked
\* for when the provider changes, or when both ids are sent empty.
Given == Accounts \cup {None, "keep"}
Fallback(p) == IF ActiveOf(p) = {} THEN OfProvider(p) ELSE ActiveOf(p)
Binding(a, profile) == [account |-> a, profile |-> profile]
Bindings(old, p, acct, profile) ==
  LET own(id) == IF p = old.provider THEN id ELSE None
      a == IF acct # "keep" THEN acct
           ELSE IF profile # "keep" /\ p = "openrouter" THEN profile ELSE own(old.account)
      kept == IF profile = "keep" THEN own(old.profile) ELSE IF p = "openrouter" THEN profile ELSE None
      rebind == p # None /\ a = None /\ (p # old.provider \/ (acct = None /\ profile = None))
  IN IF rebind /\ OfProvider(p) # {}
     THEN {Binding(f, IF p = "openrouter" THEN f ELSE kept) : f \in Fallback(p)}
     ELSE {Binding(a, kept)}
Unbound == [provider |-> None, account |-> None, profile |-> None]
Fits(p, a) == a # None => p # None /\ a \in OfProvider(p)

\* At a creation an empty account counts as none sent.
Create(i) ==
  /\ Request("create") /\ i \notin Existing
  /\ \E p \in Providers \cup {None}, acct \in Accounts \cup {"keep"}, profile \in Accounts \cup {None},
        ch \in Channels \cup {None} :
       \E b \in Bindings(Unbound, p, acct, profile) :
         /\ Fits(p, b.account)
         /\ identity' = [identity EXCEPT ![i] = [active |-> Active = {}, main |-> Active = {},
              text |-> 0, image |-> 0, channel |-> ch, provider |-> p,
              account |-> b.account, profile |-> b.profile]]
  /\ file' = [file EXCEPT ![i] = [p \in Paths |-> IF p \in Managed THEN Default ELSE None]]
  /\ markRuntimeDirty /\ UNCHANGED <<account, config, copies>>

\* Only the account is looked up; a profile beside an empty account is stored
\* whatever it names.
Update(i) ==
  /\ Request("update") /\ i \in Existing
  /\ \/ identity' = [identity EXCEPT ![i].text = 1 - @]
     \/ \E ch \in Channels \cup {None} :
          /\ i \in Active => ~Conflict(i, ch)
          /\ identity' = [identity EXCEPT ![i].channel = ch]
     \/ \E p \in Providers \cup {None}, acct, profile \in Given :
          \E b \in Bindings(identity[i], p, acct, profile) :
            identity' = [identity EXCEPT ![i].provider = p, ![i].account = b.account, ![i].profile = b.profile]
  /\ Fits(identity'[i].provider, identity'[i].account)
  /\ OnlyIdentities

TopicLock(i) ==    \* PUT /identities/:id/telegram/topic-lock
  /\ Request("lock") /\ i \in Existing
  /\ identity' = [identity EXCEPT ![i].text = 1 - @] /\ OnlyIdentities

\* A picture of a personality that does not run is nothing the runtime lacks.
SetImage(i) ==
  /\ Request("image") /\ i \in Existing
  /\ identity' = [identity EXCEPT ![i].image = 1 - @]
  /\ dirty' = (dirty \/ identity[i].active) /\ UNCHANGED <<account, config, Filed>>

Cascade(i) == file' = [file EXCEPT ![i] = NoFiles] /\ copies' = [copies EXCEPT ![i] = {}]
Delete(i) ==
  /\ Request("delete") /\ i \in Existing /\ ~identity[i].active /\ ~identity[i].main
  /\ identity' = [identity EXCEPT ![i] = None] /\ Cascade(i)
  /\ markRuntimeDirty /\ UNCHANGED <<account, config>>

\* --- workspace files; only those of the runtime may be deleted ---

saveIdentityFile(i, p, content) == file' = [file EXCEPT ![i][p] = content]
SaveFile(i) ==
  /\ Request("save") /\ i \in Existing
  /\ \E p \in Paths, content \in Contents : saveIdentityFile(i, p, content)
  /\ markRuntimeDirty /\ UNCHANGED <<identity, account, config, copies>>
DeleteFile(i) ==
  /\ Request("unlink") /\ i \in Existing
  /\ \/ \E p \in Paths \ Managed : /\ file[i][p] # None
                                   /\ saveIdentityFile(i, p, None) /\ UNCHANGED copies
     \/ \E copy \in copies[i] : copies' = [copies EXCEPT ![i] = @ \ {copy}] /\ UNCHANGED file
  /\ markRuntimeDirty /\ UNCHANGED <<identity, account, config>>
\* The safe mode leaves what somebody wrote.
Regenerate(i) ==
  /\ Request("regenerate") /\ i \in Existing
  /\ \E force \in BOOLEAN :
       file' = [file EXCEPT ![i] = [p \in Paths |->
                  IF p \in Managed /\ (force \/ @[p] = None) THEN Default ELSE @[p]]]
  /\ markRuntimeDirty /\ UNCHANGED <<identity, account, config, copies>>

\* --- provider accounts ---

Unique(a, p) == a \in Named => OfProvider(p) \cap Named \subseteq {a}
SoleActive(a) == [b \in Accounts |->
  IF b = a THEN [account[b] EXCEPT !.active = TRUE]
  ELSE IF b \in OfProvider(account[a].provider) THEN [account[b] EXCEPT !.active = FALSE]
  ELSE account[b]]

CreateAccount(a, p) ==
  /\ Request("account") /\ account[a] = None /\ Unique(a, p)
  /\ account' = [account EXCEPT ![a] = [provider |-> p, active |-> ActiveOf(p) = {}, key |-> 0]]
  /\ IF ActiveOf(p) = {} THEN setRuntimeProviderConfig(p, a, None) ELSE UNCHANGED config
  /\ OnlyAccounts
\* POST /openrouter-profiles
CreateProfile(a) ==
  /\ Request("profile") /\ account[a] = None /\ Unique(a, "openrouter")
  /\ account' = [account EXCEPT ![a] = [provider |-> "openrouter", active |-> FALSE, key |-> 0]]
  /\ OnlyAccounts /\ UNCHANGED config
\* PUT /credentials, on the account named "default"
PutCredentials(a, p) ==
  /\ Request("credentials") /\ a \in Named
  /\ \/ /\ a \in OfProvider(p)
        /\ account' = [account EXCEPT ![a].key = 1 - @]
     \/ /\ account[a] = None /\ Unique(a, p)
        /\ account' = [account EXCEPT ![a] = [provider |-> p, active |-> TRUE, key |-> 0]]
  /\ OnlyAccounts /\ UNCHANGED config

NotAssigned(a) == FALSE    \* bug: the personalities are not asked
Assigned(a) == \E i \in Existing : a \in {identity[i].account, identity[i].profile}
UpdateAccount(a, p) ==
  /\ Request("rekey") /\ account[a] # None /\ Unique(a, p)
  /\ account[a].provider # p => ~account[a].active /\ ~Assigned(a)
  /\ account' = [account EXCEPT ![a].provider = p, ![a].key = 1 - @]
  /\ OnlyAccounts /\ UNCHANGED config
\* PUT /openrouter-profiles/:id
UpdateProfile(a) ==
  /\ Request("profile") /\ a \in OfProvider("openrouter")
  /\ account' = [account EXCEPT ![a].key = 1 - @] /\ OnlyAccounts /\ UNCHANGED config
ActivateAccount(a) ==
  /\ Request("choose") /\ account[a] # None /\ account' = SoleActive(a)
  /\ setRuntimeProviderConfig(account[a].provider, a, None) /\ OnlyAccounts
\* PATCH /openrouter-profiles/:id/activate
ActivateProfile(a) ==
  /\ Request("profile") /\ a \in OfProvider("openrouter") /\ account' = SoleActive(a)
  /\ setRuntimeProviderConfig("openrouter", a, a) /\ OnlyAccounts
\* PATCH /credentials/:provider/activate
ActivateProvider(p) ==
  /\ Request("provider")
  /\ \E a \in OfProvider(p) :
       /\ OfProvider(p) \cap Named # {} => a \in Named
       /\ account' = SoleActive(a) /\ setRuntimeProviderConfig(p, a, None)
  /\ OnlyAccounts
DeleteAccount(a) ==
  /\ Request("drop") /\ account[a] # None
  /\ ~account[a].active /\ a \notin {config.account, config.profile} /\ ~Assigned(a)
  /\ account' = [account EXCEPT ![a] = None] /\ OnlyAccounts /\ UNCHANGED config
\* DELETE /openrouter-profiles/:id looks at the profile in use only.
DeleteProfile(a) ==
  /\ Request("profile") /\ a \in OfProvider("openrouter")
  /\ ~account[a].active /\ config.profile # a /\ ~Assigned(a)
  /\ account' = [account EXCEPT ![a] = None] /\ OnlyAccounts /\ UNCHANGED config

Administer ==
  \/ \E i \in Ids : \/ Create(i) \/ Update(i) \/ TopicLock(i) \/ SetImage(i) \/ Delete(i)
                    \/ Activate(i) \/ Deactivate(i) \/ MakeMain(i)
                    \/ SaveFile(i) \/ DeleteFile(i) \/ Regenerate(i)
  \/ \E mode \in Modes : SetMode(mode)
  \/ SetConfig
  \/ \E a \in Accounts : \/ ActivateAccount(a) \/ DeleteAccount(a) \/ CreateProfile(a)
                         \/ UpdateProfile(a) \/ ActivateProfile(a) \/ DeleteProfile(a)
  \/ \E a \in Accounts, p \in Providers : CreateAccount(a, p) \/ PutCredentials(a, p) \/ UpdateAccount(a, p)
  \/ \E p \in Providers : ActivateProvider(p)

\* --- properties ---

\* (buildRuntimeBundle, ensureMainIdentity) As soon as there is a personality
\* exactly one is the main one, and it is active; in the mode with one active
\* personality no other is.  Creating, switching, deleting and changing the
\* mode each rely on the others for it.
OneMainPersonality ==
  /\ Existing # {} => Cardinality(Mains) = 1
  /\ Mains \subseteq Active
  /\ config.mode = "single" => Active = Mains

\* (assertNoChannelIdentifierConflict) No two active personalities share the
\* identifier of a channel, whichever of PUT /identities/:id, the activation,
\* the choice of a main one and the switch of modes came first.
ChannelsDistinct ==
  \A i, j \in Active : identity[i].channel = identity[j].channel => i = j \/ identity[i].channel = None

\* (PUT and POST /identities, PUT and DELETE /provider-accounts) The account
\* a personality names (runtimeProviderAccountId) exists and belongs to the
\* personality's provider, though accounts change provider and are deleted and
\* either id may be sent without the other.  The profile beside it need not.
BoundAccountFits == \A i \in Existing : Fits(identity[i].provider, identity[i].account)
=============================================================================
