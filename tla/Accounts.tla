------------------------------ MODULE Accounts ------------------------------
(***************************************************************************)
(* The account row and the rules every router applies to it: who may       *)
(* moderate whom, which clearance may be granted, what a change of status  *)
(* and a confirmed report write.  Pure operators; the modules that         *)
(* interleave requests over the rows EXTEND this one.                      *)
(***************************************************************************)
EXTENDS Integers

CONSTANTS
  Passwords,   \* what hashes to something a login can match
  DemoteAt,    \* REPORT_AUTO_DEMOTE_THRESHOLD, 2 in the code
  BanAt        \* REPORT_AUTO_BAN_THRESHOLD, 4 in the code

ASSUME ThresholdAssumption == /\ DemoteAt \in Nat /\ BanAt \in Nat
                              /\ 0 < DemoteAt /\ DemoteAt < BanAt

Levels == 0 .. 7
Roles == {"guest", "personel", "security", "admin", "author"}
Statuses == {"absent", "active", "suspended", "banned", "deleted"}

\* "until" is statusExpiresAt against the clock: none, still ahead, passed.
Account == [status : Statuses, until : {"none", "ahead", "passed"},
            password : Passwords, level : Levels, role : Roles,
            strikes : Nat, tier : 0 .. 2]

Lower(l) == IF l > 1 THEN l - 1 ELSE 1

roleForLevel(l) == IF l >= 7 THEN "admin" ELSE IF l <= 0 THEN "guest" ELSE "personel"

\* normalizeUserRole: the role a request acts with.
normalizeUserRole(a) ==
  IF a.role \in {"author", "security"} THEN a.role
  ELSE IF a.level \in 1 .. 6 /\ a.role = "guest" THEN "guest" ELSE roleForLevel(a.level)

resolvePersonnelRole(l, wanted) ==
  IF l <= 0 THEN "guest" ELSE IF wanted = "security" THEN "security"
  ELSE IF l >= 7 THEN (IF wanted = "author" THEN "author" ELSE "admin") ELSE "personel"

highestManageableLevel(l) == IF l = 6 THEN 5 ELSE l

\* canModerateAccount for two different accounts.
canModerateAccount(actor, target) ==
  /\ actor.level >= 6 /\ target.role \notin {"author", "security"}
  /\ actor.level = 6 => target.level < 6
  /\ actor.level >= 7 /\ normalizeUserRole(actor) # "author" => target.level < 7

hasPl7MaintenanceAccess(a) ==
  \/ normalizeUserRole(a) = "security"
  \/ a.level >= 7 /\ normalizeUserRole(a) \in {"author", "admin"}

\* isPl7ProtectedTarget
Protected(a) == a.level >= 7 /\ a.role \in {"author", "security"}

\* The checks of POST / on the clearance it hands out, and of PUT /:id on the
\* one it leaves; PUT lets an author create authors and protects PL7 from PL6.
MayGrant(actor, level, role) ==
  /\ level <= highestManageableLevel(actor.level)
  /\ role = "author" /\ level >= 7 => normalizeUserRole(actor) = "author"
  /\ role = "security" => actor.level >= 7 /\ level >= 7

MayEdit(actor, target) ==
  /\ Protected(target) => /\ actor.level >= 7
                          /\ normalizeUserRole(actor) \in {"author", "security"}
  /\ actor.level = 6 => target.level < 7

\* An expired suspension or ban, which every read of the account lifts.
Due(a) == a.status \in {"suspended", "banned"} /\ a.until = "passed"

\* user.update of updateAccountStatus
WithStatus(a, status, until) ==
  [a EXCEPT !.status = status,
            !.until = IF status \in {"active", "deleted"} THEN "none" ELSE until,
            !.level = IF status = "deleted" THEN 0 ELSE @,
            !.role = IF status = "deleted" THEN "guest" ELSE @]

\* user.update of applyConfirmedReportDiscipline: absolute values, computed
\* from the row "old" its caller read, written over the row "a" of now.
AutoAction(old) ==
  IF old.strikes + 1 >= BanAt /\ old.tier < 2 THEN "auto-ban"
  ELSE IF old.strikes + 1 >= DemoteAt /\ old.tier < 1 THEN "auto-demote" ELSE "none"

\* Mutant: a demotion is not remembered.
TierOfBans(old) == IF AutoAction(old) = "auto-ban" THEN 2 ELSE old.tier
NewTier(old) == IF AutoAction(old) = "auto-ban" THEN 2
                ELSE IF AutoAction(old) = "auto-demote" THEN 1 ELSE old.tier

Disciplined(a, old) ==
  LET act == AutoAction(old)
      status == IF act = "auto-ban" THEN "banned" ELSE old.status
      level == IF act = "auto-demote" THEN Lower(old.level) ELSE old.level
  IN [a EXCEPT !.strikes = old.strikes + 1,
               !.tier = NewTier(old),
               !.level = level,
               !.role = IF act = "auto-demote" THEN roleForLevel(level) ELSE old.role,
               !.status = status,
               !.until = IF act # "none" /\ status # "active" THEN "none" ELSE @]
=============================================================================
