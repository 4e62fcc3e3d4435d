----------------------------- MODULE MessageLog -----------------------------
(***************************************************************************)
(* What a conversation promises about its messages: a log in which every   *)
(* message has a place of its own for as long as the conversation exists,  *)
(* and a message a client names is in it once however often it is sent.    *)
(* A group's log opens with a line of the system.                          *)
(***************************************************************************)
EXTENDS Integers

CONSTANTS Talks, Places, Names, Authors, System
VARIABLE log   \* log[t]: a function from taken places to <<author, name>>
Unnamed == "unnamed"

Opened == [p \in {0} |-> <<System, Unnamed>>]

Init == log \in [Talks -> {<<>>, Opened}]

Post(t, place, author, name) ==
  /\ place \notin DOMAIN log[t]
  /\ name # Unnamed => \A p \in DOMAIN log[t] : log[t][p][2] # name
  /\ log' = [log EXCEPT ![t] = [p \in DOMAIN @ \cup {place} |->
                                  IF p = place THEN <<author, name>> ELSE @[p]]]

\* Conversations end, several at once when they are reset, and groups begin.
Turn(ended, begun) ==
  /\ \A t \in begun : log[t] = <<>>
  /\ log' = [t \in Talks |-> IF t \in ended THEN <<>> ELSE IF t \in begun THEN Opened ELSE log[t]]

Next == \/ \E ended, begun \in SUBSET Talks : Turn(ended, begun)
        \/ \E t \in Talks, p \in Places, a \in Authors, n \in Names : Post(t, p, a, n)
Spec == Init /\ [][Next]_log
=============================================================================
