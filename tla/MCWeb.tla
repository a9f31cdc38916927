------------------------------- MODULE MCWeb --------------------------------
(***************************************************************************)
(* Instances of Web for TLC.  A behaviour has one of five sets of bounds:  *)
(* many logins in one process, one session over three processes, or longer *)
(* over two, one session with two requests at a time, and one with a chat. *)
(***************************************************************************)
EXTENDS Web, TLC

CONSTANTS t1, t2, r1, r2, home, office, admin, p1

TwoTokens == {t1, t2}
TwoRequests == {r1, r2}
OneChat == {r1}
TwoIPs == {home, office}
SameAddress == Permutations({home, office})
OneUser == {admin}
OneProbe == {p1}

FiveBounds ==
    {[clock |-> 4, logins |-> 4, sessions |-> 0, ends |-> 0,
      requests |-> {r1, r2}, chats |-> FALSE],
     [clock |-> 3, logins |-> 1, sessions |-> 1, ends |-> 2,
      requests |-> {r1}, chats |-> FALSE],
     [clock |-> 4, logins |-> 1, sessions |-> 1, ends |-> 1,
      requests |-> {r1}, chats |-> FALSE],
     [clock |-> 3, logins |-> 1, sessions |-> 1, ends |-> 1,
      requests |-> {r1, r2}, chats |-> FALSE],
     [clock |-> 1, logins |-> 1, sessions |-> 1, ends |-> 0,
      requests |-> {r1}, chats |-> TRUE]}

\* No history; the prompt is its last turn already; more turns than are kept.
ThreeHistories ==
    {<<>>, <<Message("user", "p")>>,
     <<Message("user", "q"), Message("assistant", "a"), Message("user", "q")>>}
OnePrompt == {"p"}

\* Two pieces of one call, and another call in one piece.
ThreeDeltas ==
    {[index |-> 0, id |-> "a", name |-> "get_metrics", args |-> <<Head2>>],
     [index |-> 0, id |-> "", name |-> "", args |-> <<Tail2>>],
     [index |-> 1, id |-> "b", name |-> "other", args |-> Whole]}
=============================================================================
