---------------------------- MODULE RuntimeSync ----------------------------
(***************************************************************************)
(* The bot runtime and POST /sync: pull what the runtime changed in its    *)
(* workspaces, then have it load the store anew.  The runtime (external)   *)
(* reads the store with GET /runtime/bundle, when it is told to reload and *)
(* when it starts; its bots write to their workspaces at any time.  Calls  *)
(* to it fail, and so do their answers.                                    *)
(***************************************************************************)
EXTENDS Personalities

CONSTANTS MaxEdits, MaxStarts, MaxFaults    \* bounds: of bots' edits, starts, lost calls

ASSUME RuntimeSyncAssumption == MaxEdits \in Nat /\ MaxStarts \in Nat /\ MaxFaults \in Nat

VARIABLES
  loaded,  \* the bundle the runtime has
  work,    \* its workspaces: what its files say now
  sync,    \* the administrator's request to synchronise
  edits, starts, faults

rvars == <<loaded, work, sync, edits, starts, faults>>
vars == <<store, rvars>>

Counters == <<edits, starts, faults>>
Idle == [at |-> "idle", todo |-> {}, wrote |-> FALSE]
NoWork == [i \in Ids |-> NoFiles]

\* --- the bundle ---

First(accounts) == CHOOSE a \in accounts : TRUE
Chosen(id, otherwise) == IF id # None THEN id ELSE otherwise
fallbackProvider == Chosen(config.provider,
  LET used == {p \in Providers : OfProvider(p) # {}} IN IF used = {} THEN None ELSE First(used))
fallbackProviderAccountId == Chosen(config.account, config.profile)
\* runtimeCredentialsForIdentity: the account bound, else the one chosen for
\* all, else one that is active, else any of the provider.
Credentials(i) ==
  LET p == Chosen(identity[i].provider, fallbackProvider)
      profile == IF p = "openrouter" THEN identity[i].profile ELSE None
      chosen == IF p = fallbackProvider THEN fallbackProviderAccountId ELSE None
      wanted == Chosen(identity[i].account, Chosen(profile, chosen))
      among == IF wanted \in OfProvider(p) THEN {wanted}
               ELSE IF ActiveOf(p) # {} THEN ActiveOf(p) ELSE OfProvider(p)
  IN IF p = None \/ among = {} THEN None
     ELSE <<p, First(among), account[First(among)].key>>

Runs == IF config.mode = "multi" THEN Active ELSE Mains
Bundle == [i \in Runs |->
  [main |-> identity[i].main, text |-> identity[i].text, image |-> identity[i].image,
   channel |-> identity[i].channel, rules |-> config.rules, credentials |-> Credentials(i),
   bound |-> <<identity[i].provider, identity[i].account, identity[i].profile>>,
   files |-> [p \in Paths |-> IF file[i][p] = None THEN None ELSE Shown(p, file[i][p], config.rules)],
   copies |-> copies[i]]]

RuntimeLoads ==
  /\ Runs # {} /\ loaded' = Bundle
  /\ work' = [i \in Ids |-> IF i \in Runs THEN Bundle[i].files ELSE NoFiles]

\* --- the runtime ---

BotWrites ==
  /\ edits < MaxEdits /\ edits' = edits + 1
  /\ \E i \in DOMAIN loaded, p \in Paths, content \in Contents :
       work' = [work EXCEPT ![i][p] = Shown(p, content, loaded[i].rules)]
  /\ UNCHANGED <<store, loaded, sync, starts, faults>>

RuntimeStarts ==
  /\ starts < MaxStarts /\ starts' = starts + 1
  /\ RuntimeLoads /\ UNCHANGED <<store, sync, edits, faults>>

\* What the workspaces hold that was not loaded, with what it was written over.
Changes == {[id |-> i, path |-> p, now |-> work[i][p], base |-> loaded[i].files[p]] :
              i \in DOMAIN loaded, p \in Paths}
Reported == {ch \in Changes : ch.now # ch.base}

\* --- POST /sync ---

Synchronising(at) == sync.at = at
Apart == UNCHANGED <<identity, account, config, asked>>

markRuntimeSyncFailed ==
  /\ dirty' = TRUE /\ sync' = Idle /\ Apart /\ UNCHANGED <<Filed, loaded, work>>
Fault == faults < MaxFaults /\ faults' = faults + 1 /\ UNCHANGED <<edits, starts>>

BeginSync ==
  /\ Synchronising("idle") /\ Request("sync")
  /\ IF Runs = {} THEN dirty' = TRUE /\ sync' = Idle
     ELSE sync' = [sync EXCEPT !.at = "ask"] /\ UNCHANGED dirty
  /\ UNCHANGED <<identity, account, config, Filed, loaded, work, Counters>>

\* One of the calls that read the runtime fails.
PullFails == Synchronising("ask") /\ Fault /\ markRuntimeSyncFailed
AskForChanges ==
  /\ Synchronising("ask") /\ sync' = [sync EXCEPT !.at = "pull", !.todo = Reported]
  /\ UNCHANGED <<store, loaded, work, Counters>>

Content(runtimeContent) == runtimeContent[1]    \* toStoredWorkspaceContent
Current(ch) == Shown(ch.path, file[ch.id][ch.path], config.rules)
Same(ch) == file[ch.id][ch.path] # None
              /\ (Current(ch) = ch.now \/ file[ch.id][ch.path] = Content(ch.now))
\* bug: whatever the bot wrote over, its text is taken
LatestWins(ch) == TRUE
BasedOnCurrent(ch) == file[ch.id][ch.path] = None \/ Current(ch) = ch.base

Wrote(ch) == ch.id \in Active /\ ~Same(ch)

PullFile ==
  /\ Synchronising("pull")
  /\ \E ch \in sync.todo :
       /\ sync' = [sync EXCEPT !.todo = @ \ {ch}, !.wrote = @ \/ Wrote(ch)]
       /\ IF ~Wrote(ch) THEN UNCHANGED Filed
          ELSE IF BasedOnCurrent(ch) THEN saveIdentityFile(ch.id, ch.path, Content(ch.now)) /\ UNCHANGED copies
          ELSE copies' = [copies EXCEPT ![ch.id] = @ \cup {ch.now}] /\ UNCHANGED file
  /\ Apart /\ UNCHANGED <<dirty, loaded, work, Counters>>

markRuntimePullResult ==
  /\ Synchronising("pull") /\ sync.todo = {} /\ dirty' = (dirty \/ sync.wrote)
  /\ sync' = IF config.reload THEN [Idle EXCEPT !.at = "reload"] ELSE Idle
  /\ Apart /\ UNCHANGED <<Filed, loaded, work, Counters>>

Reload == /\ Synchronising("reload") /\ RuntimeLoads /\ sync' = [sync EXCEPT !.at = "answer"]
          /\ UNCHANGED <<store, Counters>>
\* The call is lost, or its answer.
ReloadFails == sync.at \in {"reload", "answer"} /\ Fault /\ markRuntimeSyncFailed
\* bug: to have sent the call is taken for its success
Sent == sync.at \in {"reload", "answer"}
Answered == Synchronising("answer")
markRuntimeSynced ==
  /\ Answered /\ dirty' = FALSE /\ sync' = Idle
  /\ Apart /\ UNCHANGED <<Filed, loaded, work, Counters>>

-----------------------------------------------------------------------------
Init == /\ PersonalitiesInit /\ loaded = <<>> /\ work = NoWork /\ sync = Idle
        /\ edits = 0 /\ starts = 0 /\ faults = 0

Next ==
  \/ Synchronising("idle") /\ Administer /\ UNCHANGED rvars
  \/ BotWrites \/ RuntimeStarts
  \/ BeginSync \/ PullFails \/ AskForChanges \/ PullFile \/ markRuntimePullResult
  \/ Reload \/ ReloadFails \/ markRuntimeSynced

Spec == Init /\ [][Next]_vars

\* --- properties ---

\* (runtimeDirty) When no synchronisation is under way and the flag is down,
\* the runtime has exactly what the store would send it: every file, text,
\* picture, account and rule, after any failed or half-done synchronisation.
BehindIsDirty == Synchronising("idle") /\ ~dirty => loaded = Bundle

\* (applyRuntimeWorkspacePull) A pull gives up nobody's text: what the store
\* had makes way only for a text that was written over it, and what the bot
\* wrote is stored in its place or as a copy.
TakenFrom(todo) == sync.todo \ todo
PullKeepsBothTexts ==
  [][\A ch \in TakenFrom(sync'.todo) : ch.id \in Active =>
       LET old == file[ch.id][ch.path]  new == file'[ch.id][ch.path] IN
       /\ new # old => old = None \/ (ch.base # None /\ Content(ch.base) = old)
       /\ new = Content(ch.now) \/ ch.now \in copies'[ch.id]]_vars
=============================================================================
