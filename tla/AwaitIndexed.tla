---------------------------- MODULE AwaitIndexed ----------------------------
(* What waiting for the indexer promises, without polls, targets or           *)
(* deadlines: a program that sent a transaction may be told "ok" only once    *)
(* the indexer shows that transaction, and may be told "error" at any time.   *)
EXTENDS Naturals

VARIABLES
    sent,       \* number of transactions on chain up to the program's own; 0: none
    shown,      \* number of transactions the indexer shows
    answer      \* "none", "ok" or "error"

vars == <<sent, shown, answer>>

Init == /\ sent = 0
        /\ shown \in Nat
        /\ answer = "none"

\* The transaction lands behind everything the indexer can show.
Send == /\ sent = 0
        /\ sent' > shown
        /\ sent' \in Nat
        /\ UNCHANGED <<shown, answer>>

Show == /\ shown' = shown + 1
        /\ UNCHANGED <<sent, answer>>

Ok == /\ sent # 0 /\ answer = "none"
      /\ shown >= sent
      /\ answer' = "ok"
      /\ UNCHANGED <<sent, shown>>

Fail == /\ sent # 0 /\ answer = "none"
        /\ answer' = "error"
        /\ UNCHANGED <<sent, shown>>

Next == Send \/ Show \/ Ok \/ Fail

Spec == Init /\ [][Next]_vars
=============================================================================
