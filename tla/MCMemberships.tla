--------------------------- MODULE MCMemberships ---------------------------
(* TLC instances of Memberships. *)
EXTENDS Memberships, TLC

CONSTANTS w1, w2

Account(level, track) == [exists |-> TRUE, active |-> TRUE, level |-> level, track |-> track]
Staff == [ann |-> Account(3, "field"), bob |-> Account(7, "field"),
          eve |-> [Account(0, "field") EXCEPT !.exists = FALSE]]
Names == {"ann", "bob", "eve"}
TwoTracks == {"field", "mechanic"}
OneTeam == {"team"}
Clearances == {0, 3}
Every == {"transfer", "clearance", "executive", "add", "remove", "personal", "teamwork"}
OneLister == {w1}
TwoWorkers == {w1, w2}
=============================================================================
