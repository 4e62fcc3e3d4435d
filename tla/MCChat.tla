------------------------------- MODULE MCChat -------------------------------
(* TLC instances of ChatMessages. *)
EXTENDS ChatMessages, TLC

CONSTANTS tab1, tab2

Tabs == {tab1, tab2}
Names == {"ann", "bob", "eve"}
Rooms == {"first", "second"}
Is(role, status) == [role |-> role, status |-> status]
OneGroup == [t \in Talks |->
  IF t = "first"
  THEN [kind |-> "group", members |-> ("ann" :> Is("owner", "active")) @@ ("bob" :> Is("member", "active"))
                                      @@ ("eve" :> Is("member", "invited"))]
  ELSE [kind |-> "none", members |-> Nobody]]
OneBot == {"bot"}
OneId == {"id1"}
Talking == {"post", "edit", "unsend", "read", "policy", "silence", "leave", "reset"}
Everything == Talking \cup {"dm", "group", "invite", "accept", "reject", "kick", "delete", "role", "bar"}
TabSymmetry == Permutations(Tabs)
=============================================================================
