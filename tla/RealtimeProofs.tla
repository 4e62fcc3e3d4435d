--------------------------- MODULE RealtimeProofs ---------------------------
(***************************************************************************)
(* Proofs about Realtime: a cursor never passes over an event and a served *)
(* resume leaves no gap, for any users, tabs, sockets and history length,  *)
(* through broken sockets, tabs loaded anew and restarts of the server.    *)
(***************************************************************************)
EXTENDS Realtime, WellFoundedInduction, FiniteSetTheorems, SequenceTheorems, TLAPS

Numbers == Nat \ {0}
Events == [seq : Numbers, what : Numbers]
Frames == Events \cup {Answered}
SocketRows == [at : {"free", "asking", "open", "broken", "closing"}, tab : Tabs \cup {None}, wire : Seq(Frames)]
TabRows == [on : Sockets \cup {None}, asked : BOOLEAN, resumed : BOOLEAN, cursor : Nat,
            got : SUBSET Events, stale : BOOLEAN]

TypesOK ==
  /\ sequence \in Nat
  /\ history \in [Users -> SUBSET Events] /\ told \in [Users -> SUBSET Events]
  /\ \A u \in Users : IsFiniteSet(told[u])
  /\ socket \in [Sockets -> SocketRows] /\ tab \in [Tabs -> TabRows]

\* What has been told is numbered without gap: a telling begins after all the
\* numbers of the tellings before it.
Numbered(u) ==
  /\ \A e \in told[u] : e.what <= e.seq /\ e.seq <= sequence
  /\ \A a, b \in told[u] : a.what < b.what => a.seq < b.what
Remembered(u) == history[u] \subseteq told[u] /\ Due(u) \subseteq history[u]

\* A tab and its socket are each other's; one that asked has an open socket.
Linked(t, sockets) ==
  /\ tab[t].resumed => tab[t].asked
  /\ tab[t].asked => tab[t].on # None
  /\ tab[t].on # None => /\ sockets[tab[t].on].tab = t
                         /\ sockets[tab[t].on].at \in {"asking", "open"}
                         /\ tab[t].asked => sockets[tab[t].on].at = "open"
Has(t) == tab[t].got \subseteq told[UserOf[t]] /\ (~tab[t].stale => tab[t].cursor <= sequence)

\* What comes after the answer of a resume is newer than all that came before.
Late(row, wire, k) == row.resumed \/ \E j \in 1 .. k - 1 : wire[j] = Answered
Newest(row, wire, k) ==
  /\ \A g \in row.got : g.seq < wire[k].seq
  /\ \A j \in 1 .. k - 1 : wire[j].seq < wire[k].seq
SentOn(row, known, wire) ==
  /\ \A k \in 1 .. Len(wire) : wire[k] # Answered => wire[k] \in known
  /\ ~row.asked => \A k \in 1 .. Len(wire) : wire[k] # Answered
  /\ \A k \in 1 .. Len(wire) : wire[k] # Answered /\ Late(row, wire, k) => Newest(row, wire, k)
Sent(t) == tab[t].on # None => SentOn(tab[t], told[UserOf[t]], socket[tab[t].on].wire)

\* The map has each user's sockets.
MappedIn(map, sockets) ==
  /\ map \in [Users -> SUBSET Sockets]
  /\ \A u \in Users : \A s \in map[u] : /\ UserOf[sockets[s].tab] = u
                                        /\ sockets[s].at \in {"open", "broken"}
Mapped == MappedIn(clientsByUsername, socket)

\* What a tab misses whose socket has dropped out of the map is newer than all
\* that it has and that is on its way.
Missed(t, e) ==
  /\ tab[t].on \notin clientsByUsername[UserOf[t]]
  /\ tab[t].cursor < e.seq
  /\ \A g \in tab[t].got : g.seq < e.seq
  /\ \A w \in Wire(t) : w.seq < e.seq
Skips(t) == ~tab[t].stale => \A e \in Due(UserOf[t]) : e.seq <= tab[t].cursor => Seen(t, e)
Gap(t) == ~tab[t].stale /\ tab[t].on # None /\ tab[t].asked =>
            \A e \in Due(UserOf[t]) : Seen(t, e) \/ (\E w \in Wire(t) : w.what = e.what) \/ Missed(t, e)

UsersOK == \A u \in Users : Numbered(u) /\ Remembered(u)
TabOK(t) == Linked(t, socket) /\ Has(t) /\ Sent(t) /\ Skips(t) /\ Gap(t)
TabsOK == \A t \in Tabs : TabOK(t)
RealtimeInv == TypesOK /\ UsersOK /\ TabsOK /\ Mapped

\* The sockets the map has hold the Set it has for their user.
HoldersOK ==
  /\ held \in [Sockets -> SUBSET Sockets]
  /\ \A u \in Users : \A s \in clientsByUsername[u] : held[s] = clientsByUsername[u]
Asking == \A s \in Sockets : socket[s].at = "asking" => socket[s].tab \in Tabs
RegistryInv == RealtimeInv /\ HoldersOK /\ Asking

-----------------------------------------------------------------------------
\* --- sets of numbers and of events ---

LEMMA GreatestNumber ==
  ASSUME NEW n \in Nat, NEW S, S \subseteq 0 .. n, S # {}
  PROVE  \E x \in S : \A y \in S : y <= x
<1> DEFINE T == {n - x : x \in S}
           R == OpToRel(<, Nat)
<1>1. T \subseteq Nat /\ T # {}
  <2>1. \A x \in S : n - x \in Nat
    OBVIOUS
  <2> QED
    BY <2>1
<1>2. IsWellFoundedOn(R, Nat)
  BY NatLessThanWellFounded
<1>3. \A x, y \in Nat : y < x => <<y, x>> \in R
  BY DEF OpToRel
<1> HIDE DEF R
<1>4. PICK m \in T : \A k \in T : ~ (<<k, m>> \in R)
  BY <1>1, <1>2, WFMin
<1>5. PICK x \in S : m = n - x
  OBVIOUS
<1>6. ASSUME NEW y \in S PROVE y <= x
  <2>1. n - y \in T /\ n - y \in Nat /\ m \in Nat /\ ~ (n - y < m)
    BY <1>1, <1>3, <1>4
  <2> QED
    BY <2>1, <1>5
<1> QED
  BY <1>6

\* The greatest number of the events a tab got, if it is above n.
LEMMA GreatestIs ==
  ASSUME NEW got, got \subseteq Events, NEW top \in Nat, \A g \in got : g.seq <= top,
         NEW n \in Nat
  PROVE  /\ Greatest(got, n) \in Nat
         /\ \/ Greatest(got, n) = n
            \/ /\ Greatest(got, n) > n
               /\ \E g \in got : Greatest(got, n) = g.seq
<1>1. CASE ~ \E e \in got : e.seq > n
  BY <1>1 DEF Greatest
<1>2. CASE \E e \in got : e.seq > n
  <2> DEFINE S == {e.seq : e \in got}
             G == CHOOSE e \in got : \A f \in got : f.seq <= e.seq
  <2>1. S \subseteq 0 .. top /\ S # {}
    BY <1>2 DEF Events, Numbers
  <2>2. PICK x \in S : \A y \in S : y <= x
    BY <2>1, GreatestNumber
  <2>3. PICK e \in got : e.seq = x
    OBVIOUS
  <2>4. \E d \in got : \A f \in got : f.seq <= d.seq
    BY <2>2, <2>3
  <2>5. G \in got /\ \A f \in got : f.seq <= G.seq
    BY <2>4
  <2>6. Greatest(got, n) = G.seq
    BY <1>2 DEF Greatest
  <2>7. G.seq \in Nat /\ \A f \in got : f.seq \in Nat
    BY <2>5 DEF Events, Numbers
  <2> HIDE DEF G
  <2> QED
    BY <1>2, <2>5, <2>6, <2>7
<1> QED
  BY <1>1, <1>2

\* Fewer events are above e in a part of a set.
LEMMA FewerAbove ==
  ASSUME NEW S, NEW T, S \subseteq T, IsFiniteSet(T), NEW e,
         Cardinality({f \in T : f.seq > e.seq}) < MaxHistory
  PROVE  Cardinality({f \in S : f.seq > e.seq}) < MaxHistory
<1>1. IsFiniteSet({f \in T : f.seq > e.seq})
  BY FS_Subset
<1>2. {f \in S : f.seq > e.seq} \subseteq {f \in T : f.seq > e.seq}
  OBVIOUS
<1>3. Cardinality({f \in S : f.seq > e.seq}) <= Cardinality({f \in T : f.seq > e.seq})
  BY <1>1, <1>2, FS_Subset
<1>4. Cardinality({f \in S : f.seq > e.seq}) \in Nat /\ Cardinality({f \in T : f.seq > e.seq}) \in Nat
  BY <1>1, <1>2, FS_Subset, FS_CardinalityType
<1> QED
  BY <1>3, <1>4, RealtimeAssumption

LEMMA KeptIsPart == ASSUME NEW S PROVE Kept(S) \subseteq S
BY DEF Kept

-----------------------------------------------------------------------------
\* --- telling ---

\* The sockets and the map as a handler leaves them before it tells: a tab
\* that asked has its socket still, and it does not come into the map again.
Rewired(sockets) ==
  /\ sockets \in [Sockets -> SocketRows] /\ MappedIn(clientsByUsername', sockets)
  /\ \A t \in Tabs : tab[t].asked /\ tab[t].on \in clientsByUsername'[UserOf[t]] =>
       tab[t].on \in clientsByUsername[UserOf[t]]
  /\ \A t \in Tabs : /\ Linked(t, sockets)
                     /\ tab[t].on # None => sockets[tab[t].on].wire = socket[tab[t].on].wire
\* Who is told: the users of new, over sockets that include those of their tabs.
Telling(count, new, frames) ==
  /\ count \in Nat /\ new \in [Users -> SUBSET Events]
  /\ \A u \in Users : /\ IsFiniteSet(new[u])
                      /\ \A e \in new[u] : e.what = sequence + 1 /\ e.seq \in sequence + 1 .. sequence + count
  /\ \A s \in DOMAIN frames : frames[s] \in Events
  /\ \A t \in Tabs : /\ tab[t].on \in DOMAIN frames =>
                          frames[tab[t].on] \in new[UserOf[t]] /\ tab[t].on \in clientsByUsername'[UserOf[t]]
                     /\ tab[t].on \in clientsByUsername'[UserOf[t]] /\ new[UserOf[t]] # {} =>
                          tab[t].on \in DOMAIN frames

LEMMA TellTypes ==
  ASSUME RealtimeInv, NEW sockets, NEW count, NEW new, NEW frames,
         Rewired(sockets), Telling(count, new, frames), Tell(sockets, count, new, frames), tab' = tab
  PROVE  TypesOK'
<1> USE DEF RealtimeInv, TypesOK, Rewired, Telling, Tell
<1>1. sequence' \in Nat /\ told' \in [Users -> SUBSET Events] /\ tab' \in [Tabs -> TabRows]
  OBVIOUS
<1>2. history' \in [Users -> SUBSET Events]
  <2>1. ASSUME NEW u \in Users PROVE rememberEvent(u, new[u], frames) \subseteq Events
    BY KeptIsPart DEF rememberEvent
  <2> QED
    BY <2>1
<1>3. \A u \in Users : IsFiniteSet(told'[u])
  BY FS_Union
<1>4. socket' \in [Sockets -> SocketRows]
  <2>1. ASSUME NEW s \in Sockets, s \in DOMAIN frames PROVE send(sockets[s], frames[s]) \in SocketRows
    <3>1. sockets[s].wire \in Seq(Frames) /\ frames[s] \in Frames
      BY <2>1 DEF SocketRows, Frames
    <3>2. Append(sockets[s].wire, frames[s]) \in Seq(Frames)
      BY <3>1
    <3> QED
      BY <3>2 DEF send, SocketRows
  <2> QED
    BY <2>1
<1> QED
  BY <1>1, <1>2, <1>3, <1>4

LEMMA TellUsers ==
  ASSUME RealtimeInv, NEW sockets, NEW count, NEW new, NEW frames,
         Rewired(sockets), Telling(count, new, frames), Tell(sockets, count, new, frames), tab' = tab
  PROVE  /\ UsersOK'
         /\ \A u \in Users : Due(u)' \subseteq Due(u) \cup new[u]
<1> SUFFICES ASSUME NEW u \in Users
             PROVE  Numbered(u)' /\ Remembered(u)' /\ Due(u)' \subseteq Due(u) \cup new[u]
  BY DEF UsersOK
<1>1. /\ sequence \in Nat /\ count \in Nat /\ sequence' = sequence + count
      /\ history[u] \subseteq told[u] /\ told[u] \subseteq Events /\ IsFiniteSet(told[u])
      /\ told'[u] = told[u] \cup new[u] /\ new[u] \subseteq Events /\ IsFiniteSet(new[u])
      /\ history'[u] = Kept(history[u] \cup new[u])
      /\ Numbered(u) /\ Due(u) \subseteq history[u]
      /\ \A e \in new[u] : e.what = sequence + 1 /\ e.seq \in sequence + 1 .. sequence + count
  BY DEF RealtimeInv, TypesOK, UsersOK, Remembered, Telling, Tell, rememberEvent
<1>2. Numbered(u)'
  <2>1. \A e \in told[u] \cup new[u] : e.seq \in Nat /\ e.what \in Nat
    BY <1>1 DEF Events, Numbers
  <2>2. \A e \in told'[u] : e.what <= e.seq /\ e.seq <= sequence'
    BY <1>1, <2>1 DEF Numbered
  <2>3. ASSUME NEW a \in told'[u], NEW b \in told'[u], a.what < b.what PROVE a.seq < b.what
    BY <1>1, <2>1, <2>3 DEF Numbered
  <2> QED
    BY <2>2, <2>3 DEF Numbered
<1>3. IsFiniteSet(told'[u])
  <2>1. IsFiniteSet(told[u] \cup new[u])
    BY <1>1, FS_Union
  <2> QED
    BY <1>1, <2>1
<1>4. Due(u)' \subseteq Due(u) \cup new[u]
  <2> SUFFICES ASSUME NEW e \in Due(u)', e \in told[u] PROVE e \in Due(u)
    BY <1>1 DEF Due
  <2>1. Cardinality({f \in told'[u] : f.seq > e.seq}) < MaxHistory /\ told[u] \subseteq told'[u]
    BY <1>1 DEF Due
  <2> QED
    BY <1>3, <2>1, FewerAbove DEF Due
<1>5. Due(u)' \subseteq history'[u]
  <2> SUFFICES ASSUME NEW e \in Due(u)' PROVE e \in Kept(history[u] \cup new[u])
    BY <1>1
  <2>1. e \in history[u] \cup new[u]
    BY <1>1, <1>4
  <2>2. Cardinality({f \in told'[u] : f.seq > e.seq}) < MaxHistory /\ history[u] \cup new[u] \subseteq told'[u]
    BY <1>1 DEF Due
  <2>3. Cardinality({f \in history[u] \cup new[u] : f.seq > e.seq}) < MaxHistory
    BY <1>3, <2>2, FewerAbove
  <2> QED
    BY <2>1, <2>3 DEF Kept
<1>6. history'[u] \subseteq told'[u]
  BY <1>1, KeptIsPart
<1> QED
  BY <1>2, <1>4, <1>5, <1>6 DEF Remembered

\* What becomes of the frames of a tab: nothing, or one more, which a tab that
\* asked is sent whenever its user is told something while the map has its socket.
LEMMA TellWires ==
  ASSUME RealtimeInv, NEW sockets, NEW count, NEW new, NEW frames,
         Rewired(sockets), Telling(count, new, frames), Tell(sockets, count, new, frames), tab' = tab,
         NEW t \in Tabs, tab[t].on # None
  PROVE  LET wire == socket[tab[t].on].wire
             wire1 == socket'[tab[t].on].wire
         IN \/ /\ wire1 = wire
               /\ tab[t].asked /\ tab[t].on \in clientsByUsername'[UserOf[t]] => new[UserOf[t]] = {}
            \/ tab[t].on \in clientsByUsername'[UserOf[t]] /\ \E f \in new[UserOf[t]] : wire1 = Append(wire, f)
<1> DEFINE s == tab[t].on
<1>1. s \in Sockets /\ sockets[s].wire = socket[s].wire
  BY DEF RealtimeInv, TypesOK, TabRows, Rewired
<1>2. tab[t].asked => sockets[s].at = "open"
  BY DEF Rewired, Linked
<1>3. socket'[s] = IF s \in DOMAIN frames THEN send(sockets[s], frames[s]) ELSE sockets[s]
  BY <1>1 DEF Tell
<1>4. /\ s \in DOMAIN frames => frames[s] \in new[UserOf[t]] /\ s \in clientsByUsername'[UserOf[t]]
      /\ s \in clientsByUsername'[UserOf[t]] /\ new[UserOf[t]] # {} => s \in DOMAIN frames
  BY DEF Telling
<1>5. CASE s \in DOMAIN frames /\ sockets[s].at = "open"
  <2>1. sockets[s] \in SocketRows
    BY <1>1 DEF Rewired
  <2>2. socket'[s].wire = Append(sockets[s].wire, frames[s])
    BY <1>3, <1>5, <2>1 DEF send, SocketRows
  <2> QED
    BY <1>1, <1>4, <1>5, <2>2
<1>6. CASE ~ (s \in DOMAIN frames /\ sockets[s].at = "open")
  <2>1. socket'[s].wire = socket[s].wire
    BY <1>1, <1>3, <1>6 DEF send
  <2> QED
    BY <1>2, <1>4, <1>6, <2>1
<1> QED
  BY <1>5, <1>6

\* A frame newer than all that was told may follow what is on its way.
LEMMA NewerFollows ==
  ASSUME NEW row, NEW known, NEW known1, known \subseteq known1, known1 \subseteq Events,
         NEW wire \in Seq(Frames), NEW f \in known1, SentOn(row, known, wire),
         row.got \subseteq known, \A e \in known : e.seq < f.seq
  PROVE  SentOn(row, known1, Append(wire, f))
<1> DEFINE longer == Append(wire, f)
<1>1. Len(wire) \in Nat /\ longer \in Seq(Frames) /\ Len(longer) = Len(wire) + 1
  BY DEF Frames
<1>2. \A k \in 1 .. Len(wire) : longer[k] = wire[k] /\ wire[k] \in Frames
  OBVIOUS
<1>3. longer[Len(wire) + 1] = f /\ f # Answered
  BY DEF Events, Numbers, Answered, Event
<1> HIDE DEF longer
<1>4. \A k \in 1 .. Len(longer) : k \in 1 .. Len(wire) \/ k = Len(wire) + 1
  BY <1>1
<1>5. ASSUME NEW k \in 1 .. Len(longer), longer[k] # Answered PROVE longer[k] \in known1
  BY <1>2, <1>3, <1>4, <1>5 DEF SentOn
<1>6. ASSUME ~row.asked, NEW k \in 1 .. Len(longer) PROVE longer[k] # Answered
  BY <1>2, <1>3, <1>4, <1>6 DEF SentOn
<1>7. ASSUME NEW k \in 1 .. Len(longer), longer[k] # Answered, Late(row, longer, k)
      PROVE  Newest(row, longer, k)
  <2>1. CASE k \in 1 .. Len(wire)
    <3>1. \A j \in 1 .. k - 1 : longer[j] = wire[j]
      BY <1>1, <1>2, <2>1
    <3>2. Late(row, wire, k)
      BY <1>7, <3>1 DEF Late
    <3>3. Newest(row, wire, k)
      BY <1>2, <1>7, <2>1, <3>2 DEF SentOn
    <3> QED
      BY <1>2, <2>1, <3>1, <3>3 DEF Newest
  <2>2. CASE k = Len(wire) + 1
    <3>1. \A j \in 1 .. k - 1 : longer[j] = wire[j] /\ j \in 1 .. Len(wire)
      BY <1>1, <1>2, <2>2
    <3>2. ASSUME NEW j \in 1 .. k - 1 PROVE longer[j].seq < f.seq
      <4>1. CASE wire[j] = Answered
        BY <3>1, <4>1 DEF Answered, Event, Events, Numbers
      <4>2. CASE wire[j] # Answered
        BY <3>1, <4>2 DEF SentOn
      <4> QED
        BY <4>1, <4>2
    <3> QED
      BY <1>3, <2>2, <3>2 DEF Newest
  <2> QED
    BY <1>4, <2>1, <2>2
<1> QED
  BY <1>5, <1>6, <1>7 DEF SentOn, longer

\* Lemma: an appended frame is the last of the longer wire (an emit writes to the end of a socket's queue).
LEMMA AppendedLast ==
  ASSUME NEW F, NEW w \in Seq(F), NEW f \in F
  PROVE  Append(w, f)[Len(w) + 1] = f /\ Len(w) + 1 \in DOMAIN Append(w, f)
<1>1. Append(w, f) \in Seq(F) /\ Len(w) \in Nat /\ Len(Append(w, f)) = Len(w) + 1
  OBVIOUS
<1>2. DOMAIN Append(w, f) = 1 .. Len(w) + 1
  BY <1>1
<1>3. Append(w, f)[Len(w) + 1] = f
  OBVIOUS
<1> QED
  BY <1>1, <1>2, <1>3

\* Lemma: telling a user one more event keeps each of that user's tabs in order.
LEMMA TellTabs ==
  ASSUME RealtimeInv, NEW sockets, NEW count, NEW new, NEW frames,
         Rewired(sockets), Telling(count, new, frames), Tell(sockets, count, new, frames), tab' = tab
  PROVE  TabsOK'
<1> SUFFICES ASSUME NEW t \in Tabs
             PROVE  Linked(t, socket)' /\ Has(t)' /\ Sent(t)' /\ Skips(t)' /\ Gap(t)'
  BY DEF TabsOK, TabOK
<1> DEFINE u == UserOf[t]
           s == tab[t].on
           wire == socket[s].wire
           wire1 == socket'[s].wire
<1>1. /\ u \in Users /\ sequence \in Nat /\ count \in Nat /\ sequence' = sequence + count
      /\ told[u] \subseteq Events /\ new[u] \subseteq Events /\ told'[u] = told[u] \cup new[u]
      /\ tab \in [Tabs -> TabRows] /\ socket \in [Sockets -> SocketRows] /\ sockets \in [Sockets -> SocketRows]
      /\ Numbered(u) /\ Linked(t, sockets) /\ Has(t) /\ Sent(t) /\ Skips(t) /\ Gap(t)
      /\ \A e \in new[u] : e.what = sequence + 1 /\ e.seq \in sequence + 1 .. sequence + count
  BY RealtimeAssumption DEF RealtimeInv, TypesOK, UsersOK, TabsOK, TabOK, Telling, Tell, Rewired
<1>2. Due(u)' \subseteq Due(u) \cup new[u]
  BY <1>1, TellUsers
<1>3. /\ \A e \in told[u] : e.seq \in Nat /\ e.seq <= sequence
      /\ \A e \in new[u] : e.seq \in Nat /\ e.seq > sequence
  BY <1>1 DEF Numbered, Events, Numbers
<1>4. s # None => \/ wire1 = wire /\ (tab[t].asked /\ s \in clientsByUsername'[u] => new[u] = {})
                  \/ s \in clientsByUsername'[u] /\ \E f \in new[u] : wire1 = Append(wire, f)
  BY TellWires
<1>5. s # None => s \in Sockets /\ wire \in Seq(Frames)
  BY <1>1 DEF TabRows, SocketRows
<1>6. Linked(t, socket)'
  <2>1. s # None => socket'[s].at = sockets[s].at /\ socket'[s].tab = sockets[s].tab
    BY <1>1, <1>5 DEF Tell, send, SocketRows
  <2> QED
    BY <1>1, <2>1 DEF Linked
<1>7. Has(t)'
  BY <1>1 DEF Has, TabRows
<1>8. Sent(t)'
  <2> SUFFICES ASSUME s # None PROVE SentOn(tab[t], told'[u], wire1)
    BY DEF Sent
  <2>1. SentOn(tab[t], told[u], wire) /\ wire \in Seq(Frames)
    BY <1>1, <1>5 DEF Sent
  <2>2. CASE wire1 = wire
    BY <1>1, <2>1, <2>2 DEF SentOn
  <2>3. ASSUME NEW f \in new[u], wire1 = Append(wire, f) PROVE SentOn(tab[t], told'[u], wire1)
    <3>1. told'[u] \subseteq Events /\ told[u] \subseteq told'[u] /\ f \in told'[u]
      BY <1>1
    <3>2. tab[t].got \subseteq told[u] /\ \A e \in told[u] : e.seq < f.seq
      BY <1>1, <1>3 DEF Has
    <3>3. SentOn(tab[t], told'[u], Append(wire, f))
      BY <2>1, <3>1, <3>2, NewerFollows
    <3> QED
      BY <2>3, <3>3
  <2> QED
    BY <1>4, <2>2, <2>3
<1>9. Skips(t)'
  <2> SUFFICES ASSUME ~tab[t].stale, NEW e \in Due(u)', e.seq <= tab[t].cursor PROVE Seen(t, e)'
    BY DEF Skips
  <2>1. tab[t].cursor \in Nat /\ tab[t].cursor <= sequence
    BY <1>1 DEF Has, TabRows
  <2>2. e \in Due(u)
    BY <1>1, <1>2, <1>3, <2>1
  <2> QED
    BY <1>1, <2>2 DEF Skips, Seen
<1>10. Gap(t)'
  <2> SUFFICES ASSUME ~tab[t].stale, s # None, tab[t].asked, NEW e \in Due(u)'
               PROVE  Seen(t, e)' \/ (\E w \in Wire(t)' : w.what = e.what) \/ Missed(t, e)'
    BY DEF Gap
  <2>1. \A w \in Wire(t) : w \in Wire(t)'
    <3>1. ASSUME NEW f \in new[u], wire1 = Append(wire, f), NEW k \in DOMAIN wire
          PROVE  wire[k] = wire1[k] /\ k \in DOMAIN wire1
      BY <1>5, <3>1
    <3> QED
      BY <1>4, <3>1 DEF Wire
  <2>2. CASE e \in Due(u) /\ ~Missed(t, e)
    BY <1>1, <2>1, <2>2 DEF Gap, Seen
  <2>3. CASE s \notin clientsByUsername'[u] /\ wire1 = wire /\ (e \in new[u] \/ Missed(t, e))
    <3>1. Wire(t)' = Wire(t)
      BY <1>5, <2>3 DEF Wire
    <3>2. ASSUME e \in new[u]
          PROVE  /\ tab[t].cursor < e.seq
                 /\ \A g \in tab[t].got : g.seq < e.seq
                 /\ \A w \in Wire(t) : w.seq < e.seq
      <4>1. e.seq \in Nat /\ e.seq > sequence /\ tab[t].cursor \in Nat /\ tab[t].cursor <= sequence
        BY <1>1, <1>3, <3>2 DEF Has, TabRows
      <4>2. \A g \in tab[t].got : g.seq \in Nat /\ g.seq <= sequence
        BY <1>1, <1>3 DEF Has
      <4>3. \A k \in 1 .. Len(wire) : wire[k] = Answered \/ wire[k] \in told[u]
        BY <1>1 DEF Sent, SentOn
      <4>4. Answered.seq = 0
        BY DEF Answered, Event
      <4>5. \A w \in Wire(t) : w = Answered \/ w \in told[u]
        BY <1>5, <4>3 DEF Wire
      <4> QED
        BY <1>1, <1>3, <4>1, <4>2, <4>4, <4>5
    <3> QED
      BY <2>3, <3>1, <3>2 DEF Missed
  <2>4. CASE s \in clientsByUsername'[u] /\ (e \in new[u] \/ Missed(t, e))
    <3>1. e \in new[u]
      BY <2>4 DEF Rewired, Missed
    <3>2. PICK f \in new[u] : wire1 = Append(wire, f)
      BY <1>4, <2>4, <3>1
    <3>3. wire1[Len(wire) + 1] = f /\ Len(wire) + 1 \in DOMAIN wire1
      <4>1. wire \in Seq(Frames) /\ f \in Frames
        BY <1>1, <1>5, <3>2 DEF Frames
      <4> QED
        BY <3>2, <4>1, AppendedLast
    <3>4. f.what = e.what
      BY <1>1, <3>1
    <3> QED
      BY <3>3, <3>4 DEF Wire
  <2>5. s \notin clientsByUsername'[u] => wire1 = wire
    BY <1>4
  <2> QED
    BY <1>2, <1>4, <2>2, <2>3, <2>4, <2>5
<1> QED
  BY <1>6, <1>7, <1>8, <1>9, <1>10

LEMMA TellKeeps ==
  ASSUME RealtimeInv, NEW sockets, NEW count, NEW new, NEW frames,
         Rewired(sockets), Telling(count, new, frames), Tell(sockets, count, new, frames), tab' = tab
  PROVE  RealtimeInv'
<1>1. Mapped'
  <2>1. ASSUME NEW s \in Sockets PROVE socket'[s].tab = sockets[s].tab /\ socket'[s].at = sockets[s].at
    <3>1. sockets[s] \in SocketRows
      BY DEF Rewired
    <3>2. socket'[s] = sockets[s] \/ socket'[s] = send(sockets[s], frames[s])
      BY DEF Tell
    <3> QED
      BY <3>1, <3>2 DEF send, SocketRows
  <2>2. MappedIn(clientsByUsername', sockets)
    BY DEF Rewired
  <2> QED
    BY <2>1, <2>2 DEF Mapped, MappedIn
<1> QED
  BY <1>1, TellTypes, TellUsers, TellTabs DEF RealtimeInv

LEMMA SilentlyKeeps ==
  ASSUME RealtimeInv, NEW sockets, Rewired(sockets), Silently(sockets), tab' = tab
  PROVE  RealtimeInv'
<1>1. TypesOK'
  BY DEF RealtimeInv, TypesOK, Rewired, Silently
<1>2. UsersOK'
  BY DEF RealtimeInv, UsersOK, Numbered, Remembered, Due, Silently
<1>3. ASSUME NEW t \in Tabs PROVE Linked(t, socket)' /\ Has(t)' /\ Sent(t)' /\ Skips(t)' /\ Gap(t)'
  <2>1. /\ Linked(t, sockets) /\ Has(t) /\ Sent(t) /\ Skips(t) /\ Gap(t)
        /\ tab[t].on # None => socket'[tab[t].on].wire = socket[tab[t].on].wire
        /\ told' = told /\ sequence' = sequence /\ socket' = sockets
    BY DEF RealtimeInv, TabsOK, TabOK, Rewired, Silently
  <2>2. Linked(t, socket)' /\ Has(t)'
    BY <2>1 DEF Linked, Has
  <2>3. Sent(t)'
    BY <2>1 DEF Sent
  <2>4. Skips(t)'
    BY <2>1 DEF Skips, Due, Seen
  <2>5. tab[t].asked /\ tab[t].on \in clientsByUsername'[UserOf[t]] => tab[t].on \in clientsByUsername[UserOf[t]]
    BY DEF Rewired
  <2>6. Gap(t)'
    BY <2>1, <2>5 DEF Gap, Missed, Due, Seen, Wire
  <2> QED
    BY <2>1, <2>2, <2>3, <2>4, <2>6
<1>4. Mapped'
  BY DEF Mapped, Rewired, Silently
<1> QED
  BY <1>1, <1>2, <1>3, <1>4 DEF RealtimeInv, TabsOK, TabOK

-----------------------------------------------------------------------------
\* --- the handlers ---

LEMMA SocketIsRewired ==
  ASSUME RealtimeInv, clientsByUsername' = clientsByUsername
  PROVE  Rewired(socket)
BY DEF RealtimeInv, TypesOK, TabsOK, TabOK, Mapped, MappedIn, Rewired

LEMMA ToUserKeeps ==
  ASSUME RealtimeInv, NEW u \in Users, emitToUser(u), tab' = tab, clientsByUsername' = clientsByUsername
  PROVE  RealtimeInv'
<1> DEFINE e == Event(sequence + 1, sequence + 1)
           new == [v \in Users |-> IF v = u THEN {e} ELSE {}]
           frames == [s \in clientsByUsername[u] |-> e]
<1>1. Tell(socket, 1, new, frames)
  BY DEF emitToUser
<1>2. sequence \in Nat /\ e \in Events /\ e.what = sequence + 1 /\ e.seq = sequence + 1
  BY DEF RealtimeInv, TypesOK, Event, Events, Numbers
<1>3. \A v \in Users : IsFiniteSet(new[v])
  BY FS_Singleton, FS_EmptySet
<1>4. ASSUME NEW t \in Tabs
      PROVE  /\ tab[t].on \in DOMAIN frames =>
                  frames[tab[t].on] \in new[UserOf[t]] /\ tab[t].on \in clientsByUsername'[UserOf[t]]
             /\ tab[t].on \in clientsByUsername'[UserOf[t]] /\ new[UserOf[t]] # {} => tab[t].on \in DOMAIN frames
  <2>1. Linked(t, socket) /\ UserOf[t] \in Users /\ Mapped
    BY RealtimeAssumption DEF RealtimeInv, TabsOK, TabOK
  <2>2. tab[t].on \in clientsByUsername[u] => UserOf[t] = u
    BY <2>1, RealtimeAssumption DEF Linked, Mapped, MappedIn
  <2> QED
    BY <2>1, <2>2
<1>5. Telling(1, new, frames)
  <2>1. \A v \in Users : \A x \in new[v] : x = e
    OBVIOUS
  <2>2. new \in [Users -> SUBSET Events] /\ \A s \in DOMAIN frames : frames[s] \in Events
    BY <1>2
  <2> HIDE DEF new, frames, e
  <2> QED
    BY <1>2, <1>3, <1>4, <2>1, <2>2 DEF Telling
<1> HIDE DEF new, frames
<1> QED
  BY <1>1, <1>5, SocketIsRewired, TellKeeps

\* A part of the sockets has finitely many frames.
LEMMA FinitelyManyFrames ==
  ASSUME NEW clients, clients \subseteq Sockets, NEW frames
  PROVE  IsFiniteSet({frames[s] : s \in clients})
<1> DEFINE image == {frames[s] : s \in clients}
           f == [s \in clients |-> frames[s]]
<1>1. IsFiniteSet(clients)
  BY RealtimeAssumption, FS_Subset
<1>2. f \in Surjection(clients, image)
  BY DEF Surjection
<1> HIDE DEF f, image
<1>3. IsFiniteSet(image)
  BY <1>1, <1>2, FS_Surjection
<1> QED
  BY <1>3 DEF image

\* Of the users who see presence every tab is told whose socket is in the map.
LEMMA ToMatchingKeeps ==
  ASSUME RealtimeInv, NEW sockets, NEW clients, Rewired(sockets),
         clients \subseteq UNION {clientsByUsername'[u] : u \in Users},
         UNION {clientsByUsername'[u] : u \in Users} \subseteq Sockets,
         \A c \in clients : User(c) \in Viewers,
         \A c \in UNION {clientsByUsername'[u] : u \in Users} : User(c) \in Viewers => c \in clients,
         \A u \in Users : \A c \in clientsByUsername'[u] : User(c) = u,
         emitToMatchingClients(sockets, clients), tab' = tab
  PROVE  RealtimeInv'
<1>1. PICK number \in Numberings(clients) :
        LET frames == [s \in clients |-> Event(sequence + number[s], sequence + 1)]
        IN Tell(sockets, Cardinality(clients),
                [u \in Users |-> {frames[s] : s \in {c \in clients : User(c) = u}}], frames)
  BY DEF emitToMatchingClients
<1> DEFINE frames == [s \in clients |-> Event(sequence + number[s], sequence + 1)]
           told1(u) == {frames[s] : s \in {c \in clients : User(c) = u}}
           new == [u \in Users |-> told1(u)]
<1>2. Tell(sockets, Cardinality(clients), new, frames)
  BY <1>1
<1>3. sequence \in Nat /\ Cardinality(clients) \in Nat
  BY RealtimeAssumption, FS_Subset, FS_CardinalityType DEF RealtimeInv, TypesOK
<1>4. ASSUME NEW s \in clients
      PROVE  /\ frames[s] \in Events /\ frames[s].what = sequence + 1
             /\ frames[s].seq \in sequence + 1 .. sequence + Cardinality(clients)
  <2>1. number[s] \in 1 .. Cardinality(clients)
    BY <1>1 DEF Numberings
  <2> QED
    BY <1>3, <2>1 DEF Event, Events, Numbers
<1>5. DOMAIN frames = clients
  OBVIOUS
<1>6. \A u \in Users : IsFiniteSet(told1(u))
  <2> SUFFICES ASSUME NEW u \in Users PROVE IsFiniteSet(told1(u))
    OBVIOUS
  <2> DEFINE part == {c \in clients : User(c) = u}
  <2>1. part \subseteq Sockets
    OBVIOUS
  <2> HIDE DEF part, frames
  <2>2. IsFiniteSet({frames[s] : s \in part})
    BY <2>1, FinitelyManyFrames
  <2> QED
    BY <2>2 DEF part
<1> HIDE DEF frames
<1>7. ASSUME NEW t \in Tabs
      PROVE  /\ tab[t].on \in clients =>
                  frames[tab[t].on] \in told1(UserOf[t]) /\ tab[t].on \in clientsByUsername'[UserOf[t]]
             /\ tab[t].on \in clientsByUsername'[UserOf[t]] /\ told1(UserOf[t]) # {} => tab[t].on \in clients
  <2>1. Linked(t, socket) /\ UserOf[t] \in Users
    BY RealtimeAssumption DEF RealtimeInv, TabsOK, TabOK
  <2>2. tab[t].on \in clients => User(tab[t].on) = UserOf[t]
    <3>1. tab[t].on \in clients => tab[t].on # None
      BY RealtimeAssumption
    <3> QED
      BY <2>1, <3>1 DEF Linked, User
  <2>3. ASSUME tab[t].on \in clients PROVE tab[t].on \in clientsByUsername'[UserOf[t]]
    <3>1. PICK u \in Users : tab[t].on \in clientsByUsername'[u]
      BY <2>3
    <3> QED
      BY <2>2, <2>3, <3>1
  <2>4. ASSUME tab[t].on \in clientsByUsername'[UserOf[t]], NEW e \in told1(UserOf[t])
        PROVE  tab[t].on \in clients
    <3>1. UserOf[t] \in Viewers
      <4>1. PICK s \in clients : User(s) = UserOf[t]
        BY <2>4
      <4> QED
        BY <4>1
    <3> QED
      BY <2>1, <2>4, <3>1
  <2> QED
    BY <2>2, <2>3, <2>4
<1>8. Telling(Cardinality(clients), new, frames)
  <2>1. \A u \in Users : \A e \in told1(u) : \E s \in clients : e = frames[s]
    OBVIOUS
  <2>2. \A u \in Users : told1(u) \subseteq Events
    BY <1>4, <2>1
  <2>3. \A u \in Users : \A e \in told1(u) :
          e.what = sequence + 1 /\ e.seq \in sequence + 1 .. sequence + Cardinality(clients)
    BY <1>4, <2>1
  <2>4. \A t \in Tabs : UserOf[t] \in Users
    BY RealtimeAssumption
  <2> HIDE DEF told1
  <2>5. new \in [Users -> SUBSET Events] /\ \A u \in Users : new[u] = told1(u)
    BY <2>2
  <2> HIDE DEF new
  <2> QED
    BY <1>3, <1>4, <1>5, <1>6, <1>7, <2>3, <2>4, <2>5 DEF Telling
<1> HIDE DEF new
<1> QED
  BY <1>2, <1>8, TellKeeps

\* The presence of a user is told to the sockets the map has.
LEMMA ToViewersKeeps ==
  ASSUME RealtimeInv, NEW sockets, Rewired(sockets),
         \A u \in Users : \A s \in clientsByUsername'[u] : sockets[s].tab = socket[s].tab,
         emitToMatchingClients(sockets, OfViewers(Registered')), tab' = tab
  PROVE  RealtimeInv'
<1>1. \A u \in Users : \A c \in clientsByUsername'[u] : c \in Sockets /\ User(c) = u
  BY DEF Rewired, MappedIn, User
<1>2. Registered' = UNION {clientsByUsername'[u] : u \in Users}
  BY DEF Registered
<1> DEFINE clients == OfViewers(Registered')
<1>3. /\ clients \subseteq Registered' /\ \A c \in clients : User(c) \in Viewers
      /\ \A c \in Registered' : User(c) \in Viewers => c \in clients
  BY DEF OfViewers
<1>4. Registered' \subseteq Sockets
  BY <1>1, <1>2
<1> HIDE DEF clients
<1>5. clients \subseteq Sockets
  BY <1>3, <1>4
<1> QED
  BY <1>1, <1>2, <1>3, <1>4, <1>5, ToMatchingKeeps DEF clients

LEMMA HeartbeatKeeps == ASSUME RealtimeInv, NEW u \in Users, Heartbeat(u) PROVE RealtimeInv'
<1>1. Rewired(socket) /\ tab' = tab /\ Registered' = Registered
  BY SocketIsRewired DEF Heartbeat, registry, Registered
<1> QED
  BY <1>1, SilentlyKeeps, ToViewersKeeps DEF Heartbeat

\* What a socket's registration does to the map.
LEMMA Registration ==
  ASSUME RealtimeInv, NEW s \in Sockets, registerRealtimeClient(s)
  PROVE  /\ clientsByUsername' \in [Users -> SUBSET Sockets]
         /\ \A u \in Users : clientsByUsername'[u] \subseteq clientsByUsername[u] \cup {s}
         /\ \A u \in Users : s \in clientsByUsername'[u] => s \in clientsByUsername[u] \/ u = User(s)
BY DEF registerRealtimeClient, RealtimeInv, Mapped, MappedIn

LEMMA Removal ==
  ASSUME RealtimeInv, NEW s \in Sockets, NEW next, unregister(s, next)
  PROVE  /\ clientsByUsername' \in [Users -> SUBSET Sockets]
         /\ \A u \in Users : clientsByUsername'[u] \subseteq clientsByUsername[u] \ {s}
BY DEF unregister, RealtimeInv, Mapped, MappedIn, User

LEMMA AttachKeeps == ASSUME RealtimeInv, NEW s \in Sockets, Attach(s) PROVE RealtimeInv'
<1> DEFINE sockets == [socket EXCEPT ![s].at = "open"]
<1>1. tab' = tab /\ (Silently(sockets) \/ emitToMatchingClients(sockets, OfViewers(Registered')))
  BY DEF Attach
<1>2. socket \in [Sockets -> SocketRows] /\ socket[s].at = "asking"
  BY DEF Attach, RealtimeInv, TypesOK
<1>3. Rewired(sockets)
  <2>1. sockets \in [Sockets -> SocketRows]
    BY <1>2 DEF SocketRows
  <2>2. ASSUME NEW t \in Tabs
        PROVE  /\ Linked(t, sockets)
               /\ tab[t].on # None => sockets[tab[t].on].wire = socket[tab[t].on].wire
               /\ tab[t].asked => tab[t].on # s
    <3>1. Linked(t, socket) /\ tab[t].on \in Sockets \cup {None}
      BY DEF RealtimeInv, TypesOK, TabRows, TabsOK, TabOK
    <3>2. tab[t].on # None => /\ sockets[tab[t].on].tab = socket[tab[t].on].tab
                              /\ sockets[tab[t].on].wire = socket[tab[t].on].wire
                              /\ sockets[tab[t].on].at \in {socket[tab[t].on].at, "open"}
      BY <1>2, <3>1 DEF SocketRows
    <3>3. tab[t].asked => tab[t].on # s
      BY <1>2, <3>1 DEF Linked
    <3> HIDE DEF sockets
    <3> QED
      BY <3>1, <3>2, <3>3 DEF Linked
  <2>3. /\ clientsByUsername' \in [Users -> SUBSET Sockets]
        /\ \A u \in Users : clientsByUsername'[u] \subseteq clientsByUsername[u] \cup {s}
        /\ \A u \in Users : s \in clientsByUsername'[u] => s \in clientsByUsername[u] \/ u = User(s)
    BY Registration DEF Attach
  <2>4. MappedIn(clientsByUsername', sockets)
    <3> SUFFICES ASSUME NEW u \in Users, NEW c \in clientsByUsername'[u]
                 PROVE  UserOf[sockets[c].tab] = u /\ sockets[c].at \in {"open", "broken"}
      BY <2>3 DEF MappedIn
    <3>1. CASE c = s
      <4>1. s \notin clientsByUsername[u]
        BY <1>2 DEF RealtimeInv, Mapped, MappedIn
      <4>2. UserOf[socket[s].tab] = u
        BY <2>3, <3>1, <4>1 DEF User
      <4> QED
        BY <1>2, <3>1, <4>2 DEF SocketRows
    <3>2. CASE c # s
      <4>1. c \in clientsByUsername[u] /\ c \in Sockets /\ sockets[c] = socket[c]
        BY <1>2, <2>3, <3>2
      <4> QED
        BY <4>1 DEF RealtimeInv, Mapped, MappedIn
    <3> QED
      BY <3>1, <3>2
  <2> QED
    BY <2>1, <2>2, <2>3, <2>4, RealtimeAssumption DEF Rewired
<1>4. \A c \in Sockets : sockets[c].tab = socket[c].tab
  BY <1>2 DEF SocketRows
<1>5. \A u \in Users : clientsByUsername'[u] \subseteq Sockets
  BY <1>3 DEF Rewired, MappedIn
<1> HIDE DEF sockets
<1> QED
  BY <1>1, <1>3, <1>4, <1>5, RealtimeAssumption, ToViewersKeeps, SilentlyKeeps

LEMMA TeardownKeeps == ASSUME RealtimeInv, NEW s \in Sockets, Teardown(s) PROVE RealtimeInv'
<1> DEFINE row(next) == IF next = "free" THEN Free ELSE [socket[s] EXCEPT !.at = "closing"]
           sockets(next) == [socket EXCEPT ![s] = IF next = "free" THEN Free ELSE [@ EXCEPT !.at = "closing"]]
<1>1. PICK next \in {"free", "closing"} :
        /\ unregister(s, next)
        /\ Silently(sockets(next)) \/ emitToMatchingClients(sockets(next), OfViewers(Registered'))
  BY DEF Teardown
<1>2. /\ tab' = tab /\ socket \in [Sockets -> SocketRows] /\ socket[s].at \in {"broken", "closing"}
      /\ \A t \in Tabs : Linked(t, socket) /\ tab[t].on \in Sockets \cup {None}
  BY DEF Teardown, RealtimeInv, TypesOK, TabRows, TabsOK, TabOK
<1>3. \A t \in Tabs : tab[t].on # s
  BY <1>2, RealtimeAssumption DEF Linked
<1>4. Rewired(sockets(next))
  <2>1. row(next) \in SocketRows
    BY <1>2 DEF SocketRows, Free
  <2>2. sockets(next) = [socket EXCEPT ![s] = row(next)]
    BY <1>2
  <2> HIDE DEF row, sockets
  <2>3. sockets(next) \in [Sockets -> SocketRows] /\ \A c \in Sockets : c # s => sockets(next)[c] = socket[c]
    BY <1>2, <2>1, <2>2
  <2>4. /\ clientsByUsername' \in [Users -> SUBSET Sockets]
        /\ \A u \in Users : clientsByUsername'[u] \subseteq clientsByUsername[u] \ {s}
    BY <1>1, Removal
  <2>5. MappedIn(clientsByUsername', sockets(next))
    BY <2>3, <2>4 DEF RealtimeInv, Mapped, MappedIn
  <2> QED
    <3>1. \A t \in Tabs : Linked(t, sockets(next)) /\ (tab[t].on # None => sockets(next)[tab[t].on].wire = socket[tab[t].on].wire)
      BY <1>2, <1>3, <2>3 DEF Linked
    <3>2. \A t \in Tabs : tab[t].on \in clientsByUsername'[UserOf[t]] => tab[t].on \in clientsByUsername[UserOf[t]]
      BY <2>4, RealtimeAssumption
    <3> QED
      BY <2>3, <2>5, <3>1, <3>2 DEF Rewired
<1>5. \A u \in Users : \A c \in clientsByUsername'[u] : c \in Sockets /\ sockets(next)[c] = socket[c]
  BY <1>1, <1>2, Removal
<1> HIDE DEF sockets
<1> QED
  BY <1>1, <1>2, <1>4, <1>5, ToViewersKeeps, SilentlyKeeps

\* --- the steps that tell nothing ---

Quiet == UNCHANGED <<sequence, history, told, clientsByUsername>>

LEMMA QuietUsers == ASSUME UsersOK, Quiet PROVE UsersOK'
BY DEF UsersOK, Numbered, Remembered, Due, Quiet

LEMMA QuietMap ==
  ASSUME RealtimeInv, Quiet,
         \A s \in Sockets : socket[s].at \in {"open", "broken"} =>
           socket'[s].tab = socket[s].tab /\ socket'[s].at \in {"open", "broken"}
  PROVE  Mapped'
BY DEF RealtimeInv, Mapped, MappedIn, Quiet

LEMMA QuietTab ==
  ASSUME RealtimeInv, Quiet, NEW t \in Tabs, tab'[t] = tab[t],
         tab[t].on # None => socket'[tab[t].on] = socket[tab[t].on]
  PROVE  TabOK(t)'
<1>1. Linked(t, socket) /\ Has(t) /\ Sent(t) /\ Skips(t) /\ Gap(t)
  BY DEF RealtimeInv, TabsOK, TabOK
<1>2. Linked(t, socket)' /\ Has(t)'
  BY <1>1 DEF Linked, Has, Quiet
<1>3. Sent(t)'
  BY <1>1 DEF Sent, Quiet
<1>4. Skips(t)' /\ Gap(t)'
  BY <1>1 DEF Skips, Gap, Missed, Due, Seen, Wire, Quiet
<1> QED
  BY <1>2, <1>3, <1>4 DEF TabOK

\* A tab without a socket that keeps what it has.
LEMMA LeftTab ==
  ASSUME RealtimeInv, Quiet, NEW t \in Tabs, tab'[t] = Left(tab[t])
  PROVE  TabOK(t)'
<1>1. Has(t) /\ Skips(t) /\ tab[t] \in TabRows
  BY DEF RealtimeInv, TypesOK, TabsOK, TabOK
<1>2. /\ tab'[t].on = None /\ ~tab'[t].asked /\ ~tab'[t].resumed
      /\ tab'[t].got = tab[t].got /\ tab'[t].cursor = tab[t].cursor /\ tab'[t].stale = tab[t].stale
  BY <1>1 DEF Left, TabRows
<1>3. Has(t)'
  BY <1>1, <1>2 DEF Has, Quiet
<1>4. Skips(t)'
  BY <1>1, <1>2 DEF Skips, Due, Seen, Quiet
<1>5. Linked(t, socket)' /\ Sent(t)' /\ Gap(t)'
  BY <1>2 DEF Linked, Sent, Gap
<1> QED
  BY <1>3, <1>4, <1>5 DEF TabOK

\* A socket that goes takes its tab off it.
LEMMA EndKeeps ==
  ASSUME RealtimeInv, Quiet, NEW s \in Sockets, socket[s].tab \in Tabs \cup {None},
         socket' \in [Sockets -> SocketRows], \A c \in Sockets : c # s => socket'[c] = socket[c],
         tab' = [tab EXCEPT ![socket[s].tab] = Left(@)],
         socket[s].at \in {"open", "broken"} => socket'[s].tab = socket[s].tab /\ socket'[s].at = "broken"
  PROVE  RealtimeInv'
<1>1. tab \in [Tabs -> TabRows] /\ \A t \in Tabs : Linked(t, socket) /\ tab[t] \in TabRows
  BY DEF RealtimeInv, TypesOK, TabsOK, TabOK
<1>2. \A t \in Tabs : Left(tab[t]) \in TabRows
  BY <1>1 DEF Left, TabRows
<1>3. TypesOK'
  BY <1>1, <1>2 DEF RealtimeInv, TypesOK, Quiet
<1>4. ASSUME NEW t \in Tabs PROVE TabOK(t)'
  <2>1. CASE t = socket[s].tab
    BY <1>1, <2>1, LeftTab
  <2>2. CASE t # socket[s].tab
    <3>1. tab'[t] = tab[t] /\ (tab[t].on # None => tab[t].on # s)
      BY <1>1, <2>2 DEF Linked
    <3>2. tab[t].on # None => socket'[tab[t].on] = socket[tab[t].on]
      BY <1>1, <3>1 DEF TabRows
    <3> QED
      BY <3>1, <3>2, QuietTab
  <2> QED
    BY <2>1, <2>2
<1>5. Mapped'
  BY QuietMap
<1> QED
  BY <1>3, <1>4, <1>5, QuietUsers DEF RealtimeInv, TabsOK

LEMMA BreakKeeps == ASSUME RealtimeInv, NEW s \in Sockets, Break(s) PROVE RealtimeInv'
<1>1. /\ socket[s] \in SocketRows /\ socket \in [Sockets -> SocketRows]
      /\ socket' = [socket EXCEPT ![s].at = "broken", ![s].wire = <<>>]
      /\ tab' = [tab EXCEPT ![socket[s].tab] = Left(@)] /\ Quiet
  BY DEF Break, Quiet, registry, RealtimeInv, TypesOK
<1>2. socket' \in [Sockets -> SocketRows]
  <2>1. ASSUME NEW row \in SocketRows PROVE [row EXCEPT !.at = "broken"] \in SocketRows
    BY DEF SocketRows
  <2>2. ASSUME NEW row \in SocketRows, NEW wire \in Seq(Frames) PROVE [row EXCEPT !.wire = wire] \in SocketRows
    BY DEF SocketRows
  <2> HIDE DEF SocketRows
  <2>3. [[socket[s] EXCEPT !.at = "broken"] EXCEPT !.wire = <<>>] \in SocketRows
    <3>1. <<>> \in Seq(Frames)
      OBVIOUS
    <3> QED
      BY <1>1, <2>1, <2>2, <3>1
  <2>4. socket' = [socket EXCEPT ![s] = [[socket[s] EXCEPT !.at = "broken"] EXCEPT !.wire = <<>>]]
    BY <1>1
  <2> QED
    BY <1>1, <2>3, <2>4
<1>3. socket'[s].at = "broken" /\ socket'[s].tab = socket[s].tab
  BY <1>1 DEF SocketRows
<1> QED
  BY <1>1, <1>2, <1>3, EndKeeps DEF SocketRows

LEMMA RejectKeeps == ASSUME RealtimeInv, NEW s \in Sockets, Reject(s) PROVE RealtimeInv'
<1>1. /\ socket[s] \in SocketRows /\ socket \in [Sockets -> SocketRows] /\ socket[s].at = "asking"
      /\ socket' = [socket EXCEPT ![s] = Free]
      /\ tab' = [tab EXCEPT ![socket[s].tab] = Left(@)] /\ Quiet
  BY DEF Reject, Quiet, registry, RealtimeInv, TypesOK
<1>2. socket' \in [Sockets -> SocketRows]
  BY <1>1 DEF SocketRows, Free
<1> QED
  BY <1>1, <1>2, EndKeeps DEF SocketRows

LEMMA OpenKeeps ==
  ASSUME RealtimeInv, NEW t \in Tabs, NEW s \in Sockets, OpenSocket(t, s)
  PROVE  RealtimeInv'
<1> DEFINE row == [at |-> "asking", tab |-> t, wire |-> <<>>]
<1>1. /\ tab \in [Tabs -> TabRows] /\ socket \in [Sockets -> SocketRows] /\ Quiet
      /\ tab[t].on = None /\ socket[s].at = "free"
      /\ socket' = [socket EXCEPT ![s] = row] /\ tab' = [tab EXCEPT ![t].on = s]
      /\ \A x \in Tabs : TabOK(x) /\ tab[x] \in TabRows
  BY DEF OpenSocket, Quiet, registry, Free, RealtimeInv, TypesOK, TabsOK
<1>2. row \in SocketRows
  BY DEF SocketRows
<1>3. tab'[t] = [tab[t] EXCEPT !.on = s] /\ tab'[t] \in TabRows /\ \A x \in Tabs : x # t => tab'[x] = tab[x]
  BY <1>1 DEF TabRows
<1>4. TypesOK'
  BY <1>1, <1>2, <1>3 DEF RealtimeInv, TypesOK, Quiet
<1>5. ASSUME NEW x \in Tabs, x # t PROVE TabOK(x)'
  <2>1. tab[x].on # None => tab[x].on # s /\ tab[x].on \in Sockets
    BY <1>1 DEF TabOK, Linked, TabRows
  <2> QED
    BY <1>1, <1>3, <1>5, <2>1, QuietTab
<1>6. TabOK(t)'
  <2>1. Linked(t, socket) /\ Has(t) /\ Skips(t)
    BY <1>1 DEF TabOK
  <2>2. /\ tab'[t].on = s /\ ~tab'[t].asked /\ ~tab'[t].resumed /\ socket'[s] = row
        /\ tab'[t].got = tab[t].got /\ tab'[t].cursor = tab[t].cursor /\ tab'[t].stale = tab[t].stale
    BY <1>1, <1>3, <2>1 DEF Linked, TabRows
  <2>3. Linked(t, socket)' /\ Gap(t)'
    BY <2>2 DEF Linked, Gap
  <2>4. Has(t)'
    BY <1>1, <2>1, <2>2 DEF Has, Quiet
  <2>5. Skips(t)'
    BY <1>1, <2>1, <2>2 DEF Skips, Due, Seen, Quiet
  <2>6. Sent(t)'
    <3>1. socket'[tab'[t].on].wire = <<>>
      BY <2>2
    <3>2. SentOn(tab'[t], told'[UserOf[t]], <<>>)
      BY DEF SentOn
    <3> QED
      BY <3>1, <3>2 DEF Sent
  <2> QED
    BY <2>3, <2>4, <2>5, <2>6 DEF TabOK
<1>7. Mapped'
  BY <1>1, QuietMap
<1> QED
  BY <1>1, <1>4, <1>5, <1>6, <1>7, QuietUsers DEF RealtimeInv, TabsOK

LEMMA ReloadKeeps == ASSUME RealtimeInv, NEW t \in Tabs, ReloadPage(t) PROVE RealtimeInv'
<1>1. /\ tab \in [Tabs -> TabRows] /\ Quiet /\ socket' = socket /\ tab' = [tab EXCEPT ![t] = NewTab]
      /\ sequence \in Nat /\ told[UserOf[t]] \subseteq Events
  BY RealtimeAssumption DEF ReloadPage, Quiet, registry, RealtimeInv, TypesOK
<1>2. NewTab \in TabRows
  BY DEF NewTab, TabRows
<1>3. TypesOK'
  BY <1>1, <1>2 DEF RealtimeInv, TypesOK, Quiet
<1>4. tab'[t] = NewTab /\ \A x \in Tabs : x # t => tab'[x] = tab[x]
  BY <1>1
<1>5. TabOK(t)'
  <2>1. Linked(t, socket)' /\ Sent(t)' /\ Gap(t)'
    BY <1>4 DEF NewTab, Linked, Sent, Gap
  <2>2. Has(t)'
    BY <1>1, <1>4 DEF NewTab, Has, Quiet
  <2>3. Skips(t)'
    BY <1>1, <1>4 DEF NewTab, Skips, Due, Quiet, Events, Numbers
  <2> QED
    BY <2>1, <2>2, <2>3 DEF TabOK
<1>6. Mapped'
  BY <1>1, QuietMap
<1> QED
  BY <1>1, <1>3, <1>4, <1>5, <1>6, QuietTab, QuietUsers DEF RealtimeInv, TabsOK

LEMMA RestartKeeps == ASSUME RealtimeInv, Restart PROVE RealtimeInv'
<1>1. /\ tab \in [Tabs -> TabRows]
      /\ sequence' = 0 /\ history' = [u \in Users |-> {}] /\ told' = [u \in Users |-> {}]
      /\ socket' = [s \in Sockets |-> Free] /\ clientsByUsername' = [u \in Users |-> {}]
      /\ tab' = [t \in Tabs |-> [Left(tab[t]) EXCEPT !.got = {}, !.stale = @ \/ tab[t].cursor > 0]]
  BY DEF Restart, RealtimeInv, TypesOK
<1>2. ASSUME NEW t \in Tabs
      PROVE  /\ tab'[t] \in TabRows /\ tab'[t].on = None /\ ~tab'[t].asked /\ ~tab'[t].resumed /\ tab'[t].got = {}
             /\ ~tab'[t].stale => tab'[t].cursor = 0
  <2>1. tab[t] \in TabRows
    BY <1>1
  <2>2. tab'[t] = [on |-> None, asked |-> FALSE, resumed |-> FALSE, cursor |-> tab[t].cursor, got |-> {},
                   stale |-> tab[t].stale \/ tab[t].cursor > 0]
    BY <1>1, <2>1 DEF Left, TabRows
  <2>3. (tab[t].stale \/ tab[t].cursor > 0) \in BOOLEAN /\ tab[t].cursor \in Nat
    BY <2>1 DEF TabRows
  <2> HIDE DEF TabRows
  <2>4. tab'[t] \in TabRows
    BY <2>2, <2>3 DEF TabRows
  <2>5. ~tab'[t].stale => tab'[t].cursor = 0
    <3> SUFFICES ASSUME tab'[t].cursor # 0 PROVE tab'[t].stale
      OBVIOUS
    <3>1. tab[t].cursor > 0
      BY <2>2, <2>3
    <3>2. tab'[t].stale = (tab[t].stale \/ tab[t].cursor > 0)
      BY <2>2
    <3> QED
      BY <3>1, <3>2
  <2> QED
    BY <2>2, <2>4, <2>5
<1>3. Free \in SocketRows
  BY DEF SocketRows, Free
<1>4. TypesOK'
  BY <1>1, <1>2, <1>3, FS_EmptySet DEF TypesOK
<1>5. UsersOK'
  BY <1>1 DEF UsersOK, Numbered, Remembered, Due
<1>6. TabsOK'
  <2> SUFFICES ASSUME NEW t \in Tabs PROVE TabOK(t)'
    BY DEF TabsOK
  <2>1. told'[UserOf[t]] = {} /\ sequence' = 0
    BY <1>1, RealtimeAssumption
  <2>2. Linked(t, socket)' /\ Has(t)'
    BY <1>2, <2>1 DEF Linked, Has
  <2>3. Sent(t)' /\ Gap(t)'
    BY <1>2 DEF Sent, Gap
  <2>4. Skips(t)'
    BY <2>1 DEF Skips, Due
  <2> QED
    BY <2>2, <2>3, <2>4 DEF TabOK
<1>7. Mapped'
  BY <1>1 DEF Mapped, MappedIn
<1> QED
  BY <1>4, <1>5, <1>6, <1>7 DEF RealtimeInv

\* The frames of a resume: what was on its way, what is replayed, the answer.
LEMMA ReplayedFrames ==
  ASSUME NEW wire \in Seq(Frames), NEW replay \in Seq(Events)
  PROVE  LET longer == Append(wire \o replay, Answered)
         IN /\ longer \in Seq(Frames) /\ Len(longer) = Len(wire) + Len(replay) + 1
            /\ \A k \in 1 .. Len(wire) : longer[k] = wire[k]
            /\ \A i \in 1 .. Len(replay) : longer[Len(wire) + i] = replay[i]
<1>1. replay \in Seq(Frames)
  BY DEF Frames
<1>2. /\ wire \o replay \in Seq(Frames) /\ Len(wire \o replay) = Len(wire) + Len(replay)
      /\ Len(wire) \in Nat /\ Len(replay) \in Nat
  BY <1>1
<1>3. /\ \A k \in 1 .. Len(wire) : (wire \o replay)[k] = wire[k]
      /\ \A i \in 1 .. Len(replay) : (wire \o replay)[Len(wire) + i] = replay[i]
  BY <1>1
<1> DEFINE both == wire \o replay
           longer == Append(both, Answered)
<1>4. both \in Seq(Frames) /\ Answered \in Frames
  BY <1>2 DEF Frames
<1> HIDE DEF both
<1>5. /\ longer \in Seq(Frames) /\ Len(longer) = Len(both) + 1
      /\ \A k \in 1 .. Len(both) : longer[k] = both[k]
  BY <1>4
<1> HIDE DEF longer
<1>6. ASSUME NEW k \in 1 .. Len(wire) PROVE longer[k] = wire[k]
  <2>1. k \in 1 .. Len(both)
    BY <1>2 DEF both
  <2>2. both[k] = wire[k]
    BY <1>3 DEF both
  <2> QED
    BY <1>5, <2>1, <2>2
<1>7. ASSUME NEW i \in 1 .. Len(replay) PROVE longer[Len(wire) + i] = replay[i]
  <2>1. Len(wire) + i \in 1 .. Len(both)
    BY <1>2 DEF both
  <2> QED
    BY <1>3, <1>5, <2>1 DEF both
<1> QED
  BY <1>2, <1>5, <1>6, <1>7 DEF both, longer

LEMMA ReplayedAreSent ==
  ASSUME NEW row, NEW row1, NEW known, known \subseteq Events, NEW wire \in Seq(Frames),
         NEW replay \in Seq(Events), \A i \in 1 .. Len(replay) : replay[i] \in known,
         SentOn(row, known, wire), ~row.asked, ~row.resumed, row1.asked, ~row1.resumed
  PROVE  SentOn(row1, known, Append(wire \o replay, Answered))
<1> DEFINE longer == Append(wire \o replay, Answered)
           before == Len(wire) + Len(replay)
<1>1. /\ Len(longer) = before + 1 /\ Len(wire) \in Nat /\ Len(replay) \in Nat
      /\ \A k \in 1 .. Len(wire) : longer[k] = wire[k]
      /\ \A i \in 1 .. Len(replay) : longer[Len(wire) + i] = replay[i]
      /\ longer[before + 1] = Answered
  <2>1. wire \o replay \in Seq(Frames) /\ Len(wire \o replay) = before
    BY DEF Frames
  <2>2. Append(wire \o replay, Answered)[Len(wire \o replay) + 1] = Answered
    BY <2>1
  <2> QED
    BY <2>1, <2>2, ReplayedFrames
<1> HIDE DEF longer
<1>2. \A e \in known : e # Answered
  BY DEF Events, Numbers, Answered, Event
<1>3. ASSUME NEW k \in 1 .. before PROVE longer[k] \in known /\ longer[k] # Answered
  <2>1. CASE k \in 1 .. Len(wire)
    BY <1>1, <2>1 DEF SentOn
  <2>2. CASE k \notin 1 .. Len(wire)
    <3>1. k - Len(wire) \in 1 .. Len(replay) /\ k = Len(wire) + (k - Len(wire))
      BY <1>1, <2>2
    <3>2. longer[k] = replay[k - Len(wire)]
      BY <1>1, <3>1
    <3> QED
      BY <1>2, <3>1, <3>2
  <2> QED
    BY <2>1, <2>2
<1>4. \A k \in 1 .. Len(longer) : longer[k] # Answered => k \in 1 .. before
  BY <1>1
<1>5. ASSUME NEW k \in 1 .. Len(longer), longer[k] # Answered, Late(row1, longer, k) PROVE FALSE
  <2>1. PICK j \in 1 .. k - 1 : longer[j] = Answered
    BY <1>5 DEF Late
  <2>2. j \in 1 .. before
    BY <1>1, <1>4, <1>5, <2>1
  <2> QED
    BY <1>3, <2>1, <2>2
<1>6. SentOn(row1, known, longer)
  BY <1>3, <1>4, <1>5 DEF SentOn
<1> QED
  BY <1>6 DEF longer

LEMMA ResumeKeeps == ASSUME RealtimeInv, NEW t \in Tabs, Resume(t) PROVE RealtimeInv'
<1> DEFINE s == tab[t].on
           u == UserOf[t]
           wire == socket[s].wire
<1>1. /\ tab \in [Tabs -> TabRows] /\ socket \in [Sockets -> SocketRows] /\ Quiet
      /\ s # None /\ ~tab[t].asked /\ socket[s].at = "open" /\ tab' = [tab EXCEPT ![t].asked = TRUE]
      /\ \A x \in Tabs : TabOK(x) /\ tab[x] \in TabRows
      /\ u \in Users /\ told[u] \subseteq Events /\ IsFiniteSet(told[u])
      /\ history[u] \subseteq told[u] /\ Due(u) \subseteq history[u]
  BY RealtimeAssumption DEF Resume, Quiet, registry, RealtimeInv, TypesOK, TabsOK, UsersOK, Remembered
<1>2. s \in Sockets /\ socket[s] \in SocketRows /\ wire \in Seq(Frames) /\ User(s) = u
  BY <1>1 DEF TabRows, SocketRows, TabOK, Linked, User
<1>3. PICK replay \in replayRealtimeEvents(u, tab[t].cursor) :
        socket' = [socket EXCEPT ![s].wire = Append(@ \o replay, Answered)]
  BY <1>2 DEF Resume
<1> DEFINE S == {e \in history[u] : After(e, tab[t].cursor)}
           longer == Append(wire \o replay, Answered)
<1>4. /\ replay \in Seq(Events) /\ \A i \in 1 .. Len(replay) : replay[i] \in told[u]
      /\ \A e \in S : \E i \in 1 .. Len(replay) : replay[i] = e
  <2>1. /\ replay \in [1 .. Cardinality(S) -> S]
        /\ \A e \in S : \E i \in 1 .. Cardinality(S) : replay[i] = e
    BY <1>3 DEF replayRealtimeEvents, InOrder
  <2>2. S \subseteq told[u] /\ S \subseteq Events
    BY <1>1
  <2>3. Cardinality(S) \in Nat
    BY <1>1, <2>2, FS_Subset, FS_CardinalityType
  <2> HIDE DEF S
  <2>4. replay \in Seq(Events) /\ Len(replay) = Cardinality(S)
    BY <2>1, <2>2, <2>3
  <2> QED
    BY <2>1, <2>2, <2>4
<1>5. longer \in Seq(Frames)
  BY <1>2, <1>4, ReplayedFrames
<1>6. /\ tab'[t] = [tab[t] EXCEPT !.asked = TRUE] /\ tab'[t] \in TabRows
      /\ \A x \in Tabs : x # t => tab'[x] = tab[x]
  BY <1>1 DEF TabRows
<1>7. /\ socket'[s] = [socket[s] EXCEPT !.wire = longer]
      /\ \A c \in Sockets : c # s => socket'[c] = socket[c]
  BY <1>1, <1>2, <1>3
<1>8. TypesOK'
  <2>1. [socket[s] EXCEPT !.wire = longer] \in SocketRows
    <3>1. ASSUME NEW row \in SocketRows, NEW w \in Seq(Frames) PROVE [row EXCEPT !.wire = w] \in SocketRows
      BY DEF SocketRows
    <3> HIDE DEF longer
    <3> QED
      BY <1>2, <1>5, <3>1
  <2>2. socket' = [socket EXCEPT ![s] = [socket[s] EXCEPT !.wire = longer]]
    BY <1>3
  <2> HIDE DEF longer
  <2> QED
    BY <1>1, <1>2, <1>6, <2>1, <2>2 DEF RealtimeInv, TypesOK, Quiet
<1>9. ASSUME NEW x \in Tabs, x # t PROVE TabOK(x)'
  <2>1. tab[x].on # None => tab[x].on # s /\ tab[x].on \in Sockets
    BY <1>1, <1>9 DEF TabOK, Linked, TabRows
  <2> QED
    BY <1>1, <1>6, <1>7, <1>9, <2>1, QuietTab
<1>10. TabOK(t)'
  <2>1. Linked(t, socket) /\ Has(t) /\ Sent(t) /\ Skips(t) /\ tab[t] \in TabRows
    BY <1>1 DEF TabOK
  <2>2. /\ tab'[t].on = s /\ tab'[t].asked /\ ~tab[t].resumed /\ ~tab'[t].resumed
        /\ tab'[t].got = tab[t].got /\ tab'[t].cursor = tab[t].cursor /\ tab'[t].stale = tab[t].stale
    BY <1>1, <1>6, <2>1 DEF Linked, TabRows
  <2>3. socket'[s].wire = longer /\ socket'[s].at = "open" /\ socket'[s].tab = socket[s].tab
    BY <1>1, <1>2, <1>7 DEF SocketRows
  <2>4. Linked(t, socket)'
    BY <1>1, <2>1, <2>2, <2>3 DEF Linked
  <2>5. Has(t)' /\ Skips(t)'
    BY <1>1, <2>1, <2>2 DEF Has, Skips, Due, Seen, Quiet
  <2>6. Sent(t)'
    <3>1. SentOn(tab[t], told[u], wire)
      BY <1>1, <2>1 DEF Sent
    <3>2. SentOn(tab'[t], told[u], longer)
      BY <1>1, <1>2, <1>4, <2>2, <3>1, ReplayedAreSent
    <3> HIDE DEF longer
    <3> QED
      BY <1>1, <2>2, <2>3, <3>2 DEF Sent, Quiet
  <2>7. Gap(t)'
    <3> SUFFICES ASSUME ~tab[t].stale, NEW e \in Due(u)
                 PROVE  Seen(t, e) \/ \E w \in Wire(t)' : w.what = e.what
      BY <1>1, <2>2 DEF Gap, Missed, Due, Seen, Quiet
    <3>1. e \in history[u] /\ e.seq \in Nat /\ tab[t].cursor \in Nat
      BY <1>1, <2>1 DEF Events, Numbers, TabRows
    <3>2. CASE e.seq <= tab[t].cursor
      BY <2>1, <3>2 DEF Skips
    <3>3. CASE ~(e.seq <= tab[t].cursor)
      <4>1. PICK i \in 1 .. Len(replay) : replay[i] = e
        BY <1>4, <3>1, <3>3 DEF After
      <4>2. longer[Len(wire) + i] = e /\ Len(longer) = Len(wire) + Len(replay) + 1
        BY <1>2, <1>4, <4>1, ReplayedFrames
      <4>3. Len(wire) \in Nat /\ Len(replay) \in Nat /\ DOMAIN longer = 1 .. Len(longer)
        BY <1>2, <1>4, <1>5
      <4> HIDE DEF longer
      <4>4. Len(wire) + i \in DOMAIN longer
        BY <4>2, <4>3
      <4> QED
        BY <2>2, <2>3, <4>2, <4>4 DEF Wire
    <3> QED
      BY <3>2, <3>3
  <2> QED
    BY <2>4, <2>5, <2>6, <2>7 DEF TabOK
<1>11. Mapped'
  <2>1. \A c \in Sockets : socket'[c].tab = socket[c].tab /\ socket'[c].at = socket[c].at
    BY <1>2, <1>7 DEF SocketRows
  <2> QED
    BY <1>1, <2>1, QuietMap
<1> QED
  BY <1>1, <1>8, <1>9, <1>10, <1>11, QuietUsers DEF RealtimeInv, TabsOK

\* What a tab makes of a frame.
GotAfter(row, e) == IF e = Answered THEN row.got ELSE row.got \cup {e}

\* The frames behind the one that is read keep their place among all.
LEMMA ReadOn ==
  ASSUME NEW row, NEW row1, NEW known, known \subseteq Events, NEW wire \in Seq(Frames), wire # <<>>,
         SentOn(row, known, wire), row1.asked = row.asked,
         row1.got = GotAfter(row, Head(wire)),
         row1.resumed => row.resumed \/ Head(wire) = Answered
  PROVE  SentOn(row1, known, Tail(wire))
<1>1. /\ Len(wire) \in Nat /\ Len(wire) >= 1 /\ Len(Tail(wire)) = Len(wire) - 1
      /\ \A k \in 1 .. Len(wire) - 1 : Tail(wire)[k] = wire[k + 1]
      /\ Head(wire) = wire[1]
  BY DEF Frames
<1>2. \A k \in 1 .. Len(Tail(wire)) : Tail(wire)[k] = wire[k + 1] /\ k + 1 \in 1 .. Len(wire)
  BY <1>1
<1>3. ASSUME NEW k \in 1 .. Len(Tail(wire)), Tail(wire)[k] # Answered PROVE Tail(wire)[k] \in known
  BY <1>2, <1>3 DEF SentOn
<1>4. ASSUME ~row1.asked, NEW k \in 1 .. Len(Tail(wire)) PROVE Tail(wire)[k] # Answered
  BY <1>2, <1>4 DEF SentOn
<1>5. ASSUME NEW k \in 1 .. Len(Tail(wire)), Tail(wire)[k] # Answered, Late(row1, Tail(wire), k)
      PROVE  Newest(row1, Tail(wire), k)
  <2>1. \A j \in 1 .. k - 1 : Tail(wire)[j] = wire[j + 1] /\ j + 1 \in 1 .. (k + 1) - 1
    BY <1>1, <1>2
  <2>2. 1 \in 1 .. (k + 1) - 1
    OBVIOUS
  <2>3. Late(row, wire, k + 1)
    BY <1>1, <1>5, <2>1, <2>2 DEF Late
  <2>4. Newest(row, wire, k + 1)
    BY <1>2, <1>5, <2>3 DEF SentOn
  <2>5. \A g \in row1.got : g.seq < wire[k + 1].seq
    BY <1>1, <2>2, <2>4 DEF Newest, GotAfter
  <2> QED
    BY <1>2, <2>1, <2>4, <2>5 DEF Newest
<1> QED
  BY <1>3, <1>4, <1>5 DEF SentOn

\* The argument of the cursor: what it comes to pass over has come.  An event
\* that were still on its way would be newer than all that came, as the resume
\* was answered; the tellings do not overlap, so it has come in another telling.
LEMMA NothingOvertakes ==
  ASSUME NEW known, known \subseteq Events,
         \A e \in known : e.what <= e.seq,
         \A a, b \in known : a.what < b.what => a.seq < b.what,
         NEW f \in known, NEW g \in known, NEW w \in known,
         w.what = f.what, f.seq <= g.seq, g.seq < w.seq
  PROVE  g.what = f.what
<1>1. /\ f.seq \in Nat /\ g.seq \in Nat /\ w.seq \in Nat /\ f.what \in Nat /\ g.what \in Nat
      /\ f.what <= f.seq
  BY DEF Events, Numbers
<1>2. CASE g.what < f.what
  BY <1>1, <1>2
<1>3. CASE w.what < g.what
  BY <1>1, <1>3
<1> QED
  BY <1>1, <1>2, <1>3

LEMMA ReceiveKeeps == ASSUME RealtimeInv, NEW t \in Tabs, Receive(t) PROVE RealtimeInv'
<1> DEFINE s == tab[t].on
           u == UserOf[t]
           wire == socket[s].wire
           head == Head(wire)
           got == GotAfter(tab[t], head)
           resumed == tab[t].resumed \/ head = Answered
           cursor == IF resumed THEN Greatest(got, tab[t].cursor) ELSE tab[t].cursor
<1>1. /\ tab \in [Tabs -> TabRows] /\ socket \in [Sockets -> SocketRows] /\ Quiet /\ sequence \in Nat
      /\ s # None /\ wire # <<>> /\ socket' = [socket EXCEPT ![s].wire = Tail(@)]
      /\ tab' = [tab EXCEPT ![t].got = got, ![t].resumed = resumed, ![t].cursor = cursor]
      /\ \A x \in Tabs : TabOK(x) /\ tab[x] \in TabRows
      /\ u \in Users /\ told[u] \subseteq Events /\ Numbered(u)
  BY RealtimeAssumption DEF Receive, GotAfter, Quiet, registry, RealtimeInv, TypesOK, TabsOK, UsersOK
<1>2. /\ s \in Sockets /\ socket[s] \in SocketRows /\ wire \in Seq(Frames) /\ Tail(wire) \in Seq(Frames)
      /\ Len(wire) \in Nat /\ Len(wire) >= 1 /\ head = wire[1]
      /\ Len(Tail(wire)) = Len(wire) - 1
      /\ \A k \in 1 .. Len(Tail(wire)) : Tail(wire)[k] = wire[k + 1]
  BY <1>1 DEF TabRows, SocketRows
<1>3. /\ Linked(t, socket) /\ Has(t) /\ Skips(t) /\ Gap(t) /\ tab[t] \in TabRows
      /\ SentOn(tab[t], told[u], wire)
  BY <1>1 DEF TabOK, Sent
<1>4. head # Answered => head \in told[u]
  BY <1>2, <1>3 DEF SentOn
<1>5. got \subseteq told[u] /\ tab[t].got \subseteq got
  BY <1>3, <1>4 DEF GotAfter, Has
<1>6. \A e \in told[u] : e.seq \in Nat /\ e.what \in Nat /\ e.what >= 1 /\ e.seq <= sequence
  BY <1>1 DEF Numbered, Events, Numbers
<1>7. /\ cursor \in Nat
      /\ \/ cursor = tab[t].cursor
         \/ resumed /\ cursor > tab[t].cursor /\ \E g \in got : cursor = g.seq
  <2>1. got \subseteq Events /\ \A g \in got : g.seq <= sequence
    BY <1>1, <1>5, <1>6
  <2>2. tab[t].cursor \in Nat
    BY <1>3 DEF TabRows
  <2> HIDE DEF got, resumed
  <2> QED
    BY <1>1, <2>1, <2>2, GreatestIs
<1> HIDE DEF cursor, got
<1>8. resumed => tab[t].asked
  <2>1. head = Answered => tab[t].asked
    BY <1>2, <1>3 DEF SentOn
  <2> QED
    BY <1>3, <2>1 DEF Linked
<1>9. /\ tab'[t].on = s /\ tab'[t].asked = tab[t].asked /\ tab'[t].stale = tab[t].stale
      /\ tab'[t].got = got /\ tab'[t].resumed = resumed /\ tab'[t].cursor = cursor
      /\ tab' \in [Tabs -> TabRows]
      /\ \A x \in Tabs : x # t => tab'[x] = tab[x]
  <2> DEFINE row == [[[tab[t] EXCEPT !.got = got] EXCEPT !.resumed = resumed] EXCEPT !.cursor = cursor]
  <2>1. resumed \in BOOLEAN /\ got \in SUBSET Events
    BY <1>1, <1>3, <1>5 DEF TabRows
  <2> HIDE DEF resumed
  <2>2. row.on = s /\ row.asked = tab[t].asked /\ row.stale = tab[t].stale
    BY <1>3 DEF TabRows
  <2>3. row.got = got /\ row.resumed = resumed /\ row.cursor = cursor
    BY <1>3 DEF TabRows
  <2>4. row \in TabRows
    BY <1>3, <1>7, <2>1 DEF TabRows
  <2>5. tab' = [tab EXCEPT ![t] = row]
    BY <1>1
  <2> HIDE DEF row
  <2>6. tab'[t] = row /\ tab' \in [Tabs -> TabRows] /\ \A x \in Tabs : x # t => tab'[x] = tab[x]
    BY <1>1, <2>4, <2>5
  <2> QED
    BY <2>2, <2>3, <2>6
<1>10. /\ socket'[s] = [socket[s] EXCEPT !.wire = Tail(wire)]
       /\ \A c \in Sockets : c # s => socket'[c] = socket[c]
  BY <1>1, <1>2
<1>11. TypesOK'
  <2>1. [socket[s] EXCEPT !.wire = Tail(wire)] \in SocketRows
    <3>1. ASSUME NEW row \in SocketRows, NEW w \in Seq(Frames) PROVE [row EXCEPT !.wire = w] \in SocketRows
      BY DEF SocketRows
    <3> QED
      BY <1>2, <3>1
  <2>2. socket' = [socket EXCEPT ![s] = [socket[s] EXCEPT !.wire = Tail(wire)]]
    BY <1>1
  <2> QED
    BY <1>1, <1>2, <1>9, <2>1, <2>2 DEF RealtimeInv, TypesOK, Quiet
<1>12. ASSUME NEW x \in Tabs, x # t PROVE TabOK(x)'
  <2>1. tab[x].on # None => tab[x].on # s /\ tab[x].on \in Sockets
    BY <1>1, <1>12 DEF TabOK, Linked, TabRows
  <2> QED
    BY <1>1, <1>9, <1>10, <1>12, <2>1, QuietTab
<1>13. socket'[s].wire = Tail(wire) /\ socket'[s].at = socket[s].at /\ socket'[s].tab = socket[s].tab
  BY <1>2, <1>10 DEF SocketRows
<1>14. Linked(t, socket)'
  BY <1>1, <1>3, <1>8, <1>9, <1>13 DEF Linked
<1>15. \A e \in told[u] : Seen(t, e) => Seen(t, e)'
  BY <1>5, <1>9 DEF Seen
<1>16. Sent(t)'
  <2>1. SentOn(tab'[t], told[u], Tail(wire))
    BY <1>1, <1>2, <1>3, <1>9, ReadOn DEF got
  <2> QED
    BY <1>1, <1>9, <1>13, <2>1 DEF Sent, Quiet
<1>17. ASSUME ~tab[t].stale, tab[t].asked, NEW e \in Due(u), ~Seen(t, e)', ~Missed(t, e)
       PROVE  \E k \in 1 .. Len(Tail(wire)) : Tail(wire)[k].what = e.what
  <2>1. e \in told[u] /\ e.what >= 1
    BY <1>6 DEF Due
  <2>2. PICK k \in 1 .. Len(wire) : wire[k].what = e.what
    <3>1. \E w \in Wire(t) : w.what = e.what
      BY <1>1, <1>3, <1>15, <1>17, <2>1 DEF Gap
    <3>2. DOMAIN wire = 1 .. Len(wire)
      BY <1>2
    <3>3. Wire(t) = {wire[k] : k \in DOMAIN wire}
      BY <1>3 DEF Wire
    <3> QED
      BY <3>1, <3>2, <3>3
  <2>3. k # 1
    <3>1. ASSUME k = 1 PROVE FALSE
      <4>1. head # Answered
        BY <1>2, <2>1, <2>2, <3>1 DEF Answered, Event
      <4>2. head \in got
        BY <4>1 DEF got, GotAfter
      <4> QED
        BY <1>2, <1>9, <1>17, <2>2, <3>1, <4>2 DEF Seen
    <3> QED
      BY <3>1
  <2>4. k - 1 \in 1 .. Len(Tail(wire)) /\ (k - 1) + 1 = k
    BY <1>2, <2>3
  <2> QED
    BY <1>2, <2>2, <2>4
\* What it misses is newer than the frame it reads, too.
<1>22. ASSUME NEW e \in Due(u), Missed(t, e)
        PROVE  Missed(t, e)' /\ cursor < e.seq
  <2>1. e.seq \in Nat /\ \A g \in tab[t].got : g.seq < e.seq
    BY <1>6, <1>22 DEF Due, Missed
  <2>2. \A k \in 1 .. Len(wire) : wire[k].seq < e.seq
    BY <1>2, <1>22 DEF Missed, Wire
  <2>3. \A g \in got : g.seq < e.seq
    BY <1>2, <2>1, <2>2 DEF got, GotAfter
  <2>4. cursor < e.seq
    BY <1>7, <1>22, <2>3 DEF Missed
  <2>5. \A w \in Wire(t)' : w.seq < e.seq
    <3>1. DOMAIN Tail(wire) = 1 .. Len(Tail(wire)) /\ \A k \in 1 .. Len(Tail(wire)) : k + 1 \in 1 .. Len(wire)
      BY <1>2
    <3>2. \A k \in DOMAIN Tail(wire) : Tail(wire)[k].seq < e.seq
      BY <1>2, <2>2, <3>1
    <3> QED
      BY <1>9, <1>13, <3>2 DEF Wire
  <2>6. tab'[t].on \notin clientsByUsername'[u]
    BY <1>1, <1>9, <1>22 DEF Missed, Quiet
  <2> QED
    BY <1>9, <2>3, <2>4, <2>5, <2>6 DEF Missed
<1>18. Gap(t)'
  <2> SUFFICES ASSUME ~tab[t].stale, tab[t].asked, NEW e \in Due(u), ~Seen(t, e)', ~Missed(t, e)
               PROVE  \E w \in Wire(t)' : w.what = e.what
    BY <1>1, <1>9, <1>22 DEF Gap, Due, Quiet
  <2>1. PICK k \in 1 .. Len(Tail(wire)) : Tail(wire)[k].what = e.what
    BY <1>17
  <2>2. k \in DOMAIN Tail(wire)
    BY <1>2
  <2> QED
    BY <1>9, <1>13, <2>1, <2>2 DEF Wire
<1>19. Has(t)'
  BY <1>1, <1>3, <1>5, <1>6, <1>7, <1>9 DEF Has, Quiet
<1>20. Skips(t)'
  <2> SUFFICES ASSUME ~tab[t].stale, NEW e \in Due(u), e.seq <= cursor, ~Seen(t, e)'
               PROVE  FALSE
    BY <1>1, <1>9 DEF Skips, Due, Quiet
  <2>1. e \in told[u]
    BY DEF Due
  <2>2. ~(e.seq <= tab[t].cursor)
    BY <1>3, <1>15, <2>1 DEF Skips
  <2>3. PICK g \in got : cursor = g.seq
    BY <1>7, <2>2
  <2>4. resumed
    BY <1>7, <2>2
  <2>5. PICK k \in 1 .. Len(Tail(wire)) : Tail(wire)[k].what = e.what
    <3>1. ~Missed(t, e)
      <4>1. cursor \in Nat /\ e.seq \in Nat /\ e.seq <= cursor
        BY <1>6, <1>7, <2>1
      <4> QED
        BY <1>22, <4>1
    <3> QED
      BY <1>8, <1>17, <2>4, <3>1
  <2> DEFINE w == Tail(wire)[k]
  <2>6. w = wire[k + 1] /\ k + 1 \in 1 .. Len(wire)
    BY <1>2
  <2>7. w # Answered
    BY <1>6, <2>1, <2>5 DEF Answered, Event
  <2>8. w \in told[u] /\ Newest(tab'[t], Tail(wire), k)
    <3>1. SentOn(tab'[t], told[u], Tail(wire))
      BY <1>1, <1>2, <1>3, <1>9, ReadOn DEF got
    <3>2. Late(tab'[t], Tail(wire), k)
      BY <1>9, <2>4 DEF Late
    <3> QED
      BY <2>7, <3>1, <3>2 DEF SentOn
  <2>9. g.seq < w.seq /\ g \in told[u]
    BY <1>5, <1>9, <2>3, <2>8 DEF Newest
  <2> HIDE DEF w
  <2>10. g.what = e.what
    <3>1. /\ \A x \in told[u] : x.what <= x.seq
          /\ \A a, b \in told[u] : a.what < b.what => a.seq < b.what
      BY <1>1 DEF Numbered
    <3>2. w.what = e.what /\ e.seq <= g.seq
      BY <2>3, <2>5 DEF w
    <3>3. told[u] \subseteq Events /\ w \in told[u]
      BY <1>1, <2>8 DEF w
    <3> QED
      BY <2>1, <2>9, <3>1, <3>2, <3>3, NothingOvertakes
  <2> QED
    BY <1>9, <2>3, <2>10 DEF Seen
<1>21. Mapped'
  <2>1. \A c \in Sockets : socket'[c].tab = socket[c].tab /\ socket'[c].at = socket[c].at
    BY <1>10, <1>13
  <2> QED
    BY <1>1, <2>1, QuietMap
<1> QED
  BY <1>1, <1>11, <1>12, <1>14, <1>16, <1>18, <1>19, <1>20, <1>21, QuietUsers DEF RealtimeInv, TabsOK, TabOK

-----------------------------------------------------------------------------
\* --- the specification ---

LEMMA RealtimeInit == Init => RealtimeInv
<1> SUFFICES ASSUME Init PROVE RealtimeInv
  OBVIOUS
<1>1. /\ sequence = 0 /\ history = [u \in Users |-> {}] /\ told = [u \in Users |-> {}]
      /\ socket = [s \in Sockets |-> Free] /\ tab = [t \in Tabs |-> NewTab]
      /\ clientsByUsername = [u \in Users |-> {}]
  BY DEF Init
<1>2. Free \in SocketRows /\ NewTab \in TabRows
  BY DEF Free, NewTab, SocketRows, TabRows
<1>3. TypesOK
  BY <1>1, <1>2, FS_EmptySet DEF TypesOK
<1>4. UsersOK
  BY <1>1 DEF UsersOK, Numbered, Remembered, Due
<1>5. ASSUME NEW t \in Tabs PROVE TabOK(t)
  <2>1. tab[t] = NewTab /\ told[UserOf[t]] = {}
    BY <1>1, RealtimeAssumption
  <2>2. Linked(t, socket) /\ Sent(t) /\ Gap(t)
    BY <2>1 DEF NewTab, Linked, Sent, Gap
  <2>3. Has(t)
    <3>1. tab[t].got = {} /\ tab[t].cursor = 0
      BY <2>1 DEF NewTab
    <3> QED
      BY <1>1, <3>1 DEF Has
  <2>4. Skips(t)
    BY <2>1 DEF Skips, Due
  <2> QED
    BY <2>2, <2>3, <2>4 DEF TabOK
<1>6. Mapped
  BY <1>1 DEF Mapped, MappedIn
<1> QED
  BY <1>3, <1>4, <1>5, <1>6 DEF RealtimeInv, TabsOK

LEMMA RealtimeStep == RealtimeInv /\ [Next]_vars => RealtimeInv'
<1> SUFFICES ASSUME RealtimeInv, [Next]_vars PROVE RealtimeInv'
  OBVIOUS
<1>1. ASSUME NEW u \in Users, Emit(u) PROVE RealtimeInv'
  BY <1>1, ToUserKeeps DEF Emit, registry
<1>2. ASSUME NEW u \in Users, Heartbeat(u) PROVE RealtimeInv'
  BY <1>2, HeartbeatKeeps
<1>3. ASSUME NEW u \in Users, FallSilent(u) PROVE RealtimeInv'
  <2>1. Silently(socket) /\ tab' = tab /\ clientsByUsername' = clientsByUsername
    BY <1>3 DEF FallSilent, registry, Silently
  <2> QED
    BY <2>1, SocketIsRewired, SilentlyKeeps
<1>4. ASSUME NEW s \in Sockets, Attach(s) \/ Reject(s) \/ Break(s) \/ Teardown(s) PROVE RealtimeInv'
  BY <1>4, AttachKeeps, RejectKeeps, BreakKeeps, TeardownKeeps
<1>5. ASSUME NEW t \in Tabs, Resume(t) \/ Receive(t) \/ ReloadPage(t) PROVE RealtimeInv'
  BY <1>5, ResumeKeeps, ReceiveKeeps, ReloadKeeps
<1>6. ASSUME NEW t \in Tabs, NEW s \in Sockets, OpenSocket(t, s) PROVE RealtimeInv'
  BY <1>6, OpenKeeps
<1>7. CASE Restart
  BY <1>7, RestartKeeps
<1>8. CASE UNCHANGED vars
  <2>1. Silently(socket) /\ tab' = tab /\ clientsByUsername' = clientsByUsername
    BY <1>8 DEF vars, registry, Silently
  <2> QED
    BY <2>1, SocketIsRewired, SilentlyKeeps
<1> QED
  BY <1>1, <1>2, <1>3, <1>4, <1>5, <1>6, <1>7, <1>8 DEF Next

LEMMA RealtimeAlways == Spec => []RealtimeInv
BY RealtimeInit, RealtimeStep, PTL DEF Spec

\* A tab's cursor passes over no event its user has been told (but for those
\* the history has dropped), however sockets break, resumes and events cross,
\* and sessions come and go.
THEOREM CursorsSkipNothing == Spec => []CursorSkipsNothing
<1>1. RealtimeInv => CursorSkipsNothing
  BY DEF RealtimeInv, TabsOK, TabOK, Skips, CursorSkipsNothing
<1> QED
  BY <1>1, RealtimeAlways, PTL

\* Once a resume has been served nothing is missing: every event the user
\* has been told has come or is on its way over the open socket, for as long as
\* the map has it.
THEOREM ResumesFillGaps == Spec => []ResumeFillsGap
<1>1. RealtimeInv => ResumeFillsGap
  <2> SUFFICES ASSUME RealtimeInv, NEW t \in Tabs, ~tab[t].stale, tab[t].asked,
                      tab[t].on \in clientsByUsername[UserOf[t]], NEW e \in Due(UserOf[t])
               PROVE  Seen(t, e) \/ \E w \in Wire(t) : w.what = e.what
    BY DEF ResumeFillsGap
  <2>1. Linked(t, socket) /\ Gap(t) /\ ~Missed(t, e)
    BY DEF RealtimeInv, TabsOK, TabOK, Missed
  <2> QED
    BY <2>1 DEF Linked, Gap
<1> QED
  BY <1>1, RealtimeAlways, PTL

-----------------------------------------------------------------------------
\* --- the registry ---

LEMMA RegistrationHolds ==
  ASSUME RegistryInv, NEW s \in Sockets, User(s) \in Users, registerRealtimeClient(s)
  PROVE  HoldersOK'
<1> DEFINE before == clientsByUsername[User(s)]
           clients == before \cup {s}
<1>1. /\ clientsByUsername \in [Users -> SUBSET Sockets] /\ held \in [Sockets -> SUBSET Sockets]
      /\ \A u \in Users : \A c \in clientsByUsername[u] : User(c) = u /\ held[c] = clientsByUsername[u]
      /\ clientsByUsername' = [clientsByUsername EXCEPT ![User(s)] = clients]
      /\ held' = [r \in Sockets |-> IF r = s \/ held[r] \cap before # {} THEN clients ELSE held[r]]
  BY DEF RegistryInv, RealtimeInv, Mapped, MappedIn, HoldersOK, registerRealtimeClient, User
<1>2. held' \in [Sockets -> SUBSET Sockets]
  BY <1>1
<1>3. ASSUME NEW c \in clients PROVE held'[c] = clientsByUsername'[User(s)]
  BY <1>1, <1>3
<1>4. ASSUME NEW u \in Users, u # User(s), NEW c \in clientsByUsername'[u], c # s
      PROVE  held'[c] = clientsByUsername'[u]
  <2>1. clientsByUsername'[u] = clientsByUsername[u] /\ held[c] = clientsByUsername[u] /\ c \in Sockets
    BY <1>1, <1>4
  <2>2. clientsByUsername[u] \cap before = {}
    BY <1>1, <1>4
  <2> QED
    BY <1>1, <1>4, <2>1, <2>2
<1>5. ASSUME NEW u \in Users, u # User(s) PROVE s \notin clientsByUsername'[u]
  BY <1>1, <1>5
<1> QED
  BY <1>1, <1>2, <1>3, <1>4, <1>5 DEF HoldersOK

LEMMA RemovalHolds ==
  ASSUME RegistryInv, NEW s \in Sockets, NEW next, unregister(s, next)
  PROVE  HoldersOK'
<1>1. /\ clientsByUsername \in [Users -> SUBSET Sockets] /\ held \in [Sockets -> SUBSET Sockets]
      /\ \A u \in Users : \A c \in clientsByUsername[u] : User(c) = u /\ held[c] = clientsByUsername[u]
      /\ held' = [r \in Sockets |-> IF r = s /\ next = "free" THEN {} ELSE held[r] \ {s}]
  BY DEF RegistryInv, RealtimeInv, Mapped, MappedIn, HoldersOK, unregister, User
<1>2. ASSUME NEW u \in Users
      PROVE  clientsByUsername'[u] = {} \/ clientsByUsername'[u] = clientsByUsername[u] \ {s}
  BY <1>1 DEF unregister
<1>3. held' \in [Sockets -> SUBSET Sockets]
  BY <1>1
<1>4. ASSUME NEW u \in Users, NEW c \in clientsByUsername'[u] PROVE held'[c] = clientsByUsername'[u]
  <2>1. clientsByUsername'[u] = clientsByUsername[u] \ {s} /\ c \in clientsByUsername[u] /\ c # s
    BY <1>2, <1>4
  <2>2. c \in Sockets /\ held'[c] = held[c] \ {s}
    BY <1>1, <2>1
  <2> QED
    BY <1>1, <2>1, <2>2
<1> QED
  BY <1>3, <1>4 DEF HoldersOK

\* Only a socket just opened comes to ask.
AskingBefore ==
  \A c \in Sockets : socket'[c].at = "asking" => socket[c].at = "asking" /\ socket'[c].tab = socket[c].tab

LEMMA TellAsks ==
  ASSUME NEW sockets, sockets \in [Sockets -> SocketRows], NEW count, NEW new, NEW frames,
         Tell(sockets, count, new, frames) \/ Silently(sockets),
         \A c \in Sockets : sockets[c].at = "asking" => socket[c].at = "asking" /\ sockets[c].tab = socket[c].tab
  PROVE  AskingBefore
<1>1. ASSUME NEW c \in Sockets PROVE socket'[c].at = sockets[c].at /\ socket'[c].tab = sockets[c].tab
  <2>1. sockets[c] \in SocketRows
    OBVIOUS
  <2>2. socket'[c] = sockets[c] \/ socket'[c] = send(sockets[c], frames[c])
    BY DEF Tell, Silently
  <2> QED
    BY <2>1, <2>2 DEF send, SocketRows
<1> QED
  BY <1>1 DEF AskingBefore

LEMMA MatchingAsks ==
  ASSUME NEW sockets, sockets \in [Sockets -> SocketRows], NEW clients,
         emitToMatchingClients(sockets, clients) \/ Silently(sockets),
         \A c \in Sockets : sockets[c].at = "asking" => socket[c].at = "asking" /\ sockets[c].tab = socket[c].tab
  PROVE  AskingBefore
BY TellAsks DEF emitToMatchingClients

LEMMA RegistryStep == RegistryInv /\ [Next]_vars => HoldersOK' /\ Asking'
<1> SUFFICES ASSUME RegistryInv, [Next]_vars PROVE HoldersOK' /\ Asking'
  OBVIOUS
<1>1. socket \in [Sockets -> SocketRows] /\ Asking
  BY DEF RegistryInv, RealtimeInv, TypesOK
<1>2. ASSUME NEW s \in Sockets, Attach(s) PROVE HoldersOK' /\ Asking'
  <2> DEFINE sockets == [socket EXCEPT ![s].at = "open"]
  <2>1. User(s) \in Users
    BY <1>1, <1>2, RealtimeAssumption DEF Attach, Asking, User
  <2>2. sockets \in [Sockets -> SocketRows] /\ \A c \in Sockets : sockets[c].tab = socket[c].tab
    BY <1>1 DEF SocketRows
  <2>3. \A c \in Sockets : sockets[c].at = "asking" => socket[c].at = "asking"
    BY <1>1, <1>2 DEF Attach, SocketRows
  <2>4. Silently(sockets) \/ emitToMatchingClients(sockets, OfViewers(Registered'))
    BY <1>2 DEF Attach
  <2> HIDE DEF sockets
  <2>5. AskingBefore
    BY <2>2, <2>3, <2>4, MatchingAsks
  <2> QED
    BY <1>1, <1>2, <2>1, <2>5, RegistrationHolds DEF Attach, Asking, AskingBefore
<1>3. ASSUME NEW s \in Sockets, Teardown(s) PROVE HoldersOK' /\ Asking'
  <2> DEFINE sockets(next) == [socket EXCEPT ![s] = IF next = "free" THEN Free ELSE [@ EXCEPT !.at = "closing"]]
  <2>1. PICK next \in {"free", "closing"} :
          /\ unregister(s, next)
          /\ Silently(sockets(next)) \/ emitToMatchingClients(sockets(next), OfViewers(Registered'))
    BY <1>3 DEF Teardown
  <2>2. sockets(next) \in [Sockets -> SocketRows]
    <3>1. Free \in SocketRows /\ [socket[s] EXCEPT !.at = "closing"] \in SocketRows
      BY <1>1 DEF SocketRows, Free
    <3> HIDE DEF SocketRows
    <3> QED
      BY <1>1, <3>1
  <2>3. \A c \in Sockets : sockets(next)[c].at = "asking" => c # s
    BY <1>1, <2>1 DEF SocketRows, Free
  <2>4. \A c \in Sockets : c # s => sockets(next)[c] = socket[c]
    BY <1>1
  <2> HIDE DEF sockets
  <2>5. AskingBefore
    BY <2>1, <2>2, <2>3, <2>4, MatchingAsks
  <2> QED
    BY <1>1, <2>1, <2>5, RemovalHolds DEF Asking, AskingBefore
<1>4. CASE Restart
  BY <1>4 DEF Restart, HoldersOK, Asking, Free
<1>5. ASSUME UNCHANGED registry, AskingBefore PROVE HoldersOK' /\ Asking'
  BY <1>1, <1>5 DEF RegistryInv, HoldersOK, registry, Asking, AskingBefore
<1>6. ASSUME NEW u \in Users, Emit(u) \/ Heartbeat(u) PROVE HoldersOK' /\ Asking'
  <2>1. AskingBefore
    BY <1>1, <1>6, TellAsks, MatchingAsks DEF Emit, emitToUser, Heartbeat
  <2> QED
    BY <1>5, <1>6, <2>1 DEF Emit, Heartbeat
<1>7. ASSUME NEW u \in Users, FallSilent(u) PROVE HoldersOK' /\ Asking'
  BY <1>5, <1>7 DEF FallSilent, AskingBefore
<1>8. ASSUME NEW s \in Sockets, Reject(s) \/ Break(s) PROVE HoldersOK' /\ Asking'
  <2>1. /\ \A c \in Sockets : c # s => socket'[c] = socket[c]
        /\ socket'[s].at # "asking"
    <3>1. CASE Reject(s)
      BY <1>1, <3>1 DEF Reject, Free
    <3>2. CASE Break(s)
      <4>1. socket[s] \in SocketRows
        BY <1>1
      <4> QED
        BY <1>1, <3>2, <4>1 DEF Break, SocketRows
    <3> QED
      BY <1>8, <3>1, <3>2
  <2>2. AskingBefore
    BY <2>1 DEF AskingBefore
  <2> QED
    BY <1>5, <1>8, <2>2 DEF Reject, Break
<1>9. ASSUME NEW t \in Tabs, Resume(t) \/ Receive(t) PROVE HoldersOK' /\ Asking'
  <2>1. ASSUME NEW s, NEW wire, socket' = [socket EXCEPT ![s].wire = wire] PROVE AskingBefore
    BY <1>1, <2>1 DEF AskingBefore, SocketRows
  <2>2. \E wire : socket' = [socket EXCEPT ![tab[t].on].wire = wire]
    BY <1>9 DEF Resume, Receive
  <2> QED
    BY <1>5, <1>9, <2>1, <2>2 DEF Resume, Receive
<1>10. ASSUME NEW t \in Tabs, ReloadPage(t) PROVE HoldersOK' /\ Asking'
  BY <1>5, <1>10 DEF ReloadPage, AskingBefore
<1>11. ASSUME NEW t \in Tabs, NEW s \in Sockets, OpenSocket(t, s) PROVE HoldersOK' /\ Asking'
  BY <1>1, <1>11 DEF OpenSocket, RegistryInv, HoldersOK, registry, Asking
<1>12. CASE UNCHANGED vars
  BY <1>5, <1>12 DEF vars, AskingBefore
<1> QED
  BY <1>2, <1>3, <1>4, <1>6, <1>7, <1>8, <1>9, <1>10, <1>11, <1>12 DEF Next

\* While a socket is in the map its unregister holds the very Set the map has, so
\* it takes no other socket out with it: an open socket drops out of the map
\* only by the teardown of one of its user's that is not in it.
THEOREM OpenSocketsStay == Spec => DroppedByOldSockets
<1>1. Init => RegistryInv
  <2>1. Init => HoldersOK
    BY DEF Init, HoldersOK
  <2>2. Init => Asking
    BY DEF Init, Asking, Free
  <2> QED
    BY <2>1, <2>2, RealtimeInit DEF RegistryInv
<1>2. RegistryInv /\ [Next]_vars => RegistryInv'
  BY RealtimeStep, RegistryStep DEF RegistryInv
<1> DEFINE Stays == \A s \in Registered \ Registered' : socket[s].at = "open" /\ socket'[s].at = "open" =>
                       \E r \in Sockets \ Registered : User(r) = User(s) /\ Teardown(r)
<1>3. RegistryInv /\ [Next]_vars => [Stays]_vars
  <2> SUFFICES ASSUME RegistryInv, Next, NEW s \in Registered \ Registered',
                      socket[s].at = "open", socket'[s].at = "open"
               PROVE  \E r \in Sockets \ Registered : User(r) = User(s) /\ Teardown(r)
    BY DEF Registered
  <2>1. /\ clientsByUsername \in [Users -> SUBSET Sockets] /\ held \in [Sockets -> SUBSET Sockets]
        /\ \A u \in Users : \A c \in clientsByUsername[u] :
             User(c) = u /\ held[c] = clientsByUsername[u] /\ c \in Sockets
    BY DEF RegistryInv, RealtimeInv, Mapped, MappedIn, HoldersOK, User
  <2>2. PICK u \in Users : s \in clientsByUsername[u] /\ s \notin clientsByUsername'[u]
    BY DEF Registered
  <2>3. User(s) = u /\ s \in Sockets
    BY <2>1, <2>2
  <2>4. ~ UNCHANGED registry
    BY <2>2 DEF registry
  <2>5. ASSUME NEW r \in Sockets, Attach(r) PROVE FALSE
    BY <2>1, <2>2, <2>5 DEF Attach, registerRealtimeClient
  <2>6. ASSUME Restart PROVE FALSE
    BY <2>3, <2>6 DEF Restart, Free
  <2>7. PICK r \in Sockets : Teardown(r)
    BY <2>4, <2>5, <2>6 DEF Next, Emit, Heartbeat, FallSilent, Reject, Break, Resume, Receive, ReloadPage, OpenSocket
  <2>8. PICK next \in {"free", "closing"} : unregister(r, next)
    BY <2>7 DEF Teardown
  <2>9. r # s
    BY <2>7 DEF Teardown
  <2>10. User(r) = u /\ LastOfSet(r)
    BY <2>1, <2>2, <2>8, <2>9 DEF unregister
  <2>11. r \notin clientsByUsername[u]
    BY <2>1, <2>2, <2>9, <2>10 DEF LastOfSet
  <2>12. r \notin Registered
    BY <2>1, <2>10, <2>11 DEF Registered
  <2> QED
    BY <2>3, <2>7, <2>10, <2>12
<1>4. Spec => [][Stays]_vars
  BY <1>1, <1>2, <1>3, PTL DEF Spec
<1> QED
  BY <1>4 DEF DroppedByOldSockets
=============================================================================
