------------------------------ MODULE Realtime ------------------------------
(***************************************************************************)
(* Realtime events (realtime/events.ts, realtime/websocket.ts) and the     *)
(* presence they announce (modules/presence).  The server keeps the last   *)
(* events of each user in memory, under one sequence for all; a browser    *)
(* tab whose socket broke opens another one and asks for what came after   *)
(* the last event it had.  A server that restarts has forgotten all.       *)
(*                                                                         *)
(* The tab (external) opens a socket when it has none, sends chat.resume   *)
(* once on each, and moves its cursor only when that has been answered.    *)
(***************************************************************************)
EXTENDS Integers, Sequences, FiniteSets

CONSTANTS
  Users, Viewers,  \* users; those of a level that sees presence
  Tabs, UserOf,    \* browser tabs, and the user of each
  Sockets,         \* sockets that may be open or half open at a time
  MaxHistory,      \* MAX_EVENT_HISTORY
  MaxEvents, MaxOpens, MaxRestarts,  \* bounds
  None

ASSUME RealtimeAssumption ==
  /\ Viewers \subseteq Users /\ UserOf \in [Tabs -> Users] /\ None \notin Sockets \cup Tabs
  /\ IsFiniteSet(Sockets)
  /\ MaxHistory \in Nat \ {0} /\ MaxEvents \in Nat /\ MaxOpens \in Nat /\ MaxRestarts \in Nat

VARIABLES
  sequence,  \* realtimeSequence
  history,   \* eventHistoryByUsername: sets, as events are pushed in the order of their numbers
  socket,    \* where each socket is, whose, and the frames on their way to the tab
  clientsByUsername,  \* the Set of sockets the map has for each user, {} without entry
  held,      \* the Set each socket's unregister closed over, which the map may have no more
  presence,  \* presenceByUsername: sessions counted, 0 without entry, and if seen lately
  tab,       \* the tabs
  told,      \* history: what this server has told each user, forgetting nothing
  events, opens, restarts

registry == <<clientsByUsername, held>>
vars == <<sequence, history, socket, registry, presence, tab, told, events, opens, restarts>>

\* What is told is the number its telling began with: each of the viewers is
\* told under a number of their own.
Event(n, what) == [seq |-> n, what |-> what]
Answered == Event(0, 0)    \* socket.resume.completed
Free == [at |-> "free", tab |-> None, wire |-> <<>>]
Gone == [sessions |-> 0, lately |-> FALSE]
NewTab == [on |-> None, asked |-> FALSE, resumed |-> FALSE, cursor |-> 0, got |-> {},
           stale |-> FALSE]    \* its cursor counts the events of an earlier server
\* A tab without socket asks anew on its next one.
Left(row) == [row EXCEPT !.on = None, !.asked = FALSE, !.resumed = FALSE]

User(s) == UserOf[socket[s].tab]
Wire(t) == {socket[tab[t].on].wire[k] : k \in DOMAIN socket[tab[t].on].wire}

\* --- the registered sockets; one that broke is among them until its teardown ---

Registered == UNION {clientsByUsername[u] : u \in Users}
\* The socket joins the Set of its user, or a new one; all who hold that Set
\* see it (two Sets have no member in common, so its members tell which it is).
registerRealtimeClient(s) ==
  LET before == clientsByUsername[User(s)]
      clients == before \cup {s}
  IN /\ clientsByUsername' = [clientsByUsername EXCEPT ![User(s)] = clients]
     /\ held' = [r \in Sockets |-> IF r = s \/ held[r] \cap before # {} THEN clients ELSE held[r]]
\* bug: the entry goes though others are in the Set
AlwaysDelete(s) == TRUE
\* The Set a socket held may be empty, and the map have another for its user by now.
LastOfSet(s) == held[s] \ {s} = {}
unregister(s, next) ==
  /\ clientsByUsername' = [clientsByUsername EXCEPT ![User(s)] = IF LastOfSet(s) THEN {} ELSE @ \ {s}]
  /\ held' = [r \in Sockets |-> IF r = s /\ next = "free" THEN {} ELSE held[r] \ {s}]

\* --- telling an event: the last number, the histories and the sockets ---

Kept(entries) == {e \in entries : Cardinality({f \in entries : f.seq > e.seq}) < MaxHistory}
\* bug: an event is remembered only while nobody is there to be told
RememberAbsent(u, new, frames) ==
  IF \E s \in DOMAIN frames : User(s) = u THEN history[u] ELSE Kept(history[u] \cup new)
rememberEvent(u, new, frames) == Kept(history[u] \cup new)
\* A frame written to a socket that broke goes nowhere.
send(row, frame) == IF row.at = "open" THEN [row EXCEPT !.wire = Append(@, frame)] ELSE row
\* The users are told new[u] under `count` numbers, by a frame for each socket.
Tell(sockets, count, new, frames) ==
  /\ sequence' = sequence + count
  /\ history' = [u \in Users |-> rememberEvent(u, new[u], frames)]
  /\ told' = [u \in Users |-> told[u] \cup new[u]]
  /\ socket' = [s \in Sockets |-> IF s \in DOMAIN frames THEN send(sockets[s], frames[s]) ELSE sockets[s]]
Silently(sockets) == socket' = sockets /\ UNCHANGED <<sequence, history, told>>

emitToUser(u) ==
  LET e == Event(sequence + 1, sequence + 1)
  IN Tell(socket, 1, [v \in Users |-> IF v = u THEN {e} ELSE {}], [s \in clientsByUsername[u] |-> e])
\* One event for each of the clients, remembered for its user, in some order.
Numberings(S) == {number \in [S -> 1 .. Cardinality(S)] : \A r, s \in S : number[r] = number[s] => r = s}
emitToMatchingClients(sockets, clients) ==
  \E number \in Numberings(clients) :
    LET frames == [s \in clients |-> Event(sequence + number[s], sequence + 1)]
    IN Tell(sockets, Cardinality(clients),
            [u \in Users |-> {frames[s] : s \in {c \in clients : User(c) = u}}], frames)
OfViewers(sockets) == {s \in sockets : User(s) \in Viewers}

Emit(u) ==
  /\ events < MaxEvents /\ events' = events + 1 /\ emitToUser(u)
  /\ UNCHANGED <<registry, presence, tab, opens, restarts>>

\* --- presence ---

Online(p, u) == p[u].sessions > 0 /\ p[u].lately
Pruned == [u \in Users |-> IF Online(presence, u) THEN presence[u] ELSE Gone]
markPresenceOnline(u) == [Pruned EXCEPT ![u] = [sessions |-> @.sessions + 1, lately |-> TRUE]]
heartbeatPresence(u) == [Pruned EXCEPT ![u] =
  [sessions |-> IF @.sessions = 0 THEN 1 ELSE @.sessions, lately |-> TRUE]]
markPresenceOffline(u) ==
  [presence EXCEPT ![u] = IF @.sessions <= 1 THEN Gone ELSE [@ EXCEPT !.sessions = @ - 1, !.lately = TRUE]]

\* POST of the heartbeat; only a change is told
Heartbeat(u) ==
  /\ presence' = heartbeatPresence(u) /\ presence' # presence
  /\ IF Pruned[u] = Gone THEN emitToMatchingClients(socket, OfViewers(Registered)) ELSE Silently(socket)
  /\ events < MaxEvents /\ events' = events + 1 /\ UNCHANGED <<registry, tab, opens, restarts>>
\* ACTIVE_WINDOW_MS without a sign of the user
FallSilent(u) ==
  /\ presence[u].lately /\ presence' = [presence EXCEPT ![u].lately = FALSE]
  /\ events < MaxEvents /\ events' = events + 1
  /\ UNCHANGED <<sequence, history, told, socket, registry, tab, opens, restarts>>

\* --- a socket ---

OpenSocket(t, s) ==
  /\ tab[t].on = None /\ socket[s] = Free /\ opens < MaxOpens /\ opens' = opens + 1
  /\ socket' = [socket EXCEPT ![s] = [at |-> "asking", tab |-> t, wire |-> <<>>]]
  /\ tab' = [tab EXCEPT ![t].on = s]
  /\ UNCHANGED <<sequence, history, told, registry, presence, events, restarts>>

\* authenticate has read the account; the socket is registered, then its user
\* marked online.
Attach(s) ==
  /\ socket[s].at = "asking"
  /\ registerRealtimeClient(s) /\ presence' = markPresenceOnline(User(s))
  /\ LET sockets == [socket EXCEPT ![s].at = "open"] IN
     IF Pruned[User(s)] = Gone
     THEN emitToMatchingClients(sockets, OfViewers(Registered')) ELSE Silently(sockets)
  /\ UNCHANGED <<tab, events, opens, restarts>>
Reject(s) ==
  /\ socket[s].at = "asking" /\ socket' = [socket EXCEPT ![s] = Free]
  /\ tab' = [tab EXCEPT ![socket[s].tab] = Left(@)]
  /\ UNCHANGED <<sequence, history, told, registry, presence, events, opens, restarts>>

\* handleClientEvent, chat.resume
NotLast(e, after) == e.seq > after + 1    \* bug: off by one
After(e, after) == e.seq > after
\* The ways to write out a set of events, the lowest number first: there is one.
InOrder(S) ==
  {replay \in [1 .. Cardinality(S) -> S] :
     /\ \A e \in S : \E i \in DOMAIN replay : replay[i] = e
     /\ \A i, j \in DOMAIN replay : i < j => replay[i].seq < replay[j].seq}
replayRealtimeEvents(u, after) == InOrder({e \in history[u] : After(e, after)})
Resume(t) ==
  /\ tab[t].on # None /\ ~tab[t].asked
  /\ LET s == tab[t].on IN
     /\ socket[s].at = "open"
     /\ \E replay \in replayRealtimeEvents(User(s), tab[t].cursor) :
          socket' = [socket EXCEPT ![s].wire = Append(@ \o replay, Answered)]
  /\ tab' = [tab EXCEPT ![t].asked = TRUE]
  /\ UNCHANGED <<sequence, history, told, registry, presence, events, opens, restarts>>

Greatest(got, n) == IF \E e \in got : e.seq > n THEN (CHOOSE e \in got : \A f \in got : f.seq <= e.seq).seq ELSE n
Receive(t) ==
  /\ tab[t].on # None
  /\ LET s == tab[t].on IN
     /\ socket[s].wire # <<>> /\ socket' = [socket EXCEPT ![s].wire = Tail(@)]
     /\ LET e == Head(socket[s].wire)
            got == IF e = Answered THEN tab[t].got ELSE tab[t].got \cup {e}
            resumed == tab[t].resumed \/ e = Answered
        IN tab' = [tab EXCEPT ![t].got = got, ![t].resumed = resumed,
                     ![t].cursor = IF resumed THEN Greatest(got, @) ELSE @]
  /\ UNCHANGED <<sequence, history, told, registry, presence, events, opens, restarts>>

\* The network, the tab or invalidateRealtimeSessions ends a socket; what was
\* on its way may not arrive.
Break(s) ==
  /\ socket[s].at = "open" /\ socket' = [socket EXCEPT ![s].at = "broken", ![s].wire = <<>>]
  /\ tab' = [tab EXCEPT ![socket[s].tab] = Left(@)]
  /\ UNCHANGED <<sequence, history, told, registry, presence, events, opens, restarts>>
\* The teardown runs on 'error' and again on 'close': the second unregister
\* finds the Set empty that its socket was the last of, and takes whatever Set
\* the user has in the map from it, that of a newer socket too.
Teardown(s) ==
  /\ socket[s].at \in {"broken", "closing"} /\ presence' = markPresenceOffline(User(s))
  /\ \E next \in {"free", "closing"} :
       /\ next = "closing" => socket[s].at = "broken"
       /\ unregister(s, next)
       /\ LET sockets == [socket EXCEPT ![s] = IF next = "free" THEN Free ELSE [@ EXCEPT !.at = "closing"]]
              left == presence[User(s)].sessions = 1
          IN IF left THEN emitToMatchingClients(sockets, OfViewers(Registered')) ELSE Silently(sockets)
  /\ UNCHANGED <<tab, events, opens, restarts>>

Restart ==
  /\ restarts < MaxRestarts /\ restarts' = restarts + 1
  /\ sequence' = 0 /\ history' = [u \in Users |-> {}] /\ told' = [u \in Users |-> {}]
  /\ socket' = [s \in Sockets |-> Free] /\ presence' = [u \in Users |-> Gone]
  /\ clientsByUsername' = [u \in Users |-> {}] /\ held' = [s \in Sockets |-> {}]
  /\ tab' = [t \in Tabs |-> [Left(tab[t]) EXCEPT !.got = {}, !.stale = @ \/ tab[t].cursor > 0]]
  /\ UNCHANGED <<events, opens>>
ReloadPage(t) ==
  /\ tab[t].on = None /\ tab[t] # NewTab /\ tab' = [tab EXCEPT ![t] = NewTab]
  /\ UNCHANGED <<sequence, history, told, socket, registry, presence, events, opens, restarts>>

-----------------------------------------------------------------------------
Init ==
  /\ sequence = 0 /\ history = [u \in Users |-> {}]
  /\ told = [u \in Users |-> {}] /\ socket = [s \in Sockets |-> Free]
  /\ clientsByUsername = [u \in Users |-> {}] /\ held = [s \in Sockets |-> {}]
  /\ presence = [u \in Users |-> Gone] /\ tab = [t \in Tabs |-> NewTab]
  /\ events = 0 /\ opens = 0 /\ restarts = 0

Next ==
  \/ \E u \in Users : Emit(u) \/ Heartbeat(u) \/ FallSilent(u)
  \/ \E s \in Sockets : Attach(s) \/ Reject(s) \/ Break(s) \/ Teardown(s)
  \/ \E t \in Tabs : Resume(t) \/ Receive(t) \/ ReloadPage(t) \/ \E s \in Sockets : OpenSocket(t, s)
  \/ Restart

Spec == Init /\ [][Next]_vars

\* --- properties ---

\* What a tab has been told: all but what the server may have forgotten.
Due(u) == {e \in told[u] : Cardinality({f \in told[u] : f.seq > e.seq}) < MaxHistory}
Seen(t, e) == \E g \in tab[t].got : g.what = e.what

\* (replayRealtimeEvents, rememberEvent) A cursor passes over nothing: of the
\* events the user has been told, those up to a tab's cursor the tab has seen,
\* though they were told to a socket that had broken, or to none.
CursorSkipsNothing ==
  \A t \in Tabs : ~tab[t].stale => \A e \in Due(UserOf[t]) : e.seq <= tab[t].cursor => Seen(t, e)

\* (handleClientEvent, chat.resume) Once a tab's resume has been served, every
\* event its user has been told has come or is on its way, those told while
\* the resume was outstanding too, for as long as its socket is registered.
ResumeFillsGap ==
  \A t \in Tabs : ~tab[t].stale /\ tab[t].asked /\ tab[t].on \in clientsByUsername[UserOf[t]] =>
    \A e \in Due(UserOf[t]) : Seen(t, e) \/ \E w \in Wire(t) : w.what = e.what

\* (registerRealtimeClient's unregister) An open socket drops out of the map only
\* when a socket of its user that was not in the map is torn down.
DroppedByOldSockets ==
  [][\A s \in Registered \ Registered' : socket[s].at = "open" /\ socket'[s].at = "open" =>
       \E r \in Sockets \ Registered : User(r) = User(s) /\ Teardown(r)]_vars
=============================================================================
