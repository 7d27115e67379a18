------------------------------- MODULE Gather -------------------------------
(***************************************************************************)
(* What GetNodeResources and GetPodResources promise their caller, with no *)
(* goroutine, channel or map: a list of names is asked for, each is looked *)
(* up once, and the call answers once - with all the rows in the order of  *)
(* the list, or with a failure that happened, or because time ran out.     *)
(***************************************************************************)
EXTENDS SequencesExt

CONSTANT Item

VARIABLES
  asked,     \* has the list of names been obtained?
  order,     \* the names, in display order
  found,     \* the names whose row has been made
  expired,   \* has the deadline passed?
  faulty,    \* has a request to the API server failed?
  answer     \* what the call returned

gatherVars == <<asked, order, found, expired, faulty, answer>>

Refusal(kind) == [kind |-> kind, rows |-> <<>>]
NoAnswer == Refusal("none")
Rows(s) == [kind |-> "rows", rows |-> s]

Init ==
  /\ asked = FALSE
  /\ order = <<>>
  /\ found = {}
  /\ expired = FALSE
  /\ faulty = FALSE
  /\ answer = NoAnswer

\* The names become known: some of the items, each once, in some order.
Ask ==
  /\ ~asked /\ answer = NoAnswer
  /\ asked' = TRUE
  /\ order' \in SetToAllKPermutations(Item)
  /\ UNCHANGED <<found, expired, faulty, answer>>

\* A row is made, even if nobody waits for it any more.
Find(x) ==
  /\ x \in ToSet(order) \ found
  /\ found' = found \cup {x}
  /\ UNCHANGED <<asked, order, expired, faulty, answer>>

Break ==
  /\ faulty' = TRUE
  /\ UNCHANGED <<asked, order, found, expired, answer>>

Expire ==
  /\ expired' = TRUE
  /\ UNCHANGED <<asked, order, found, faulty, answer>>

\* One answer: every row in order, or a failure (perhaps of this very step).
Respond ==
  /\ answer = NoAnswer
  /\ faulty' \in {faulty, TRUE}
  /\ \/ asked /\ found = ToSet(order) /\ answer' = Rows(order)
     \/ faulty' /\ answer' = Refusal("api")
     \/ expired /\ answer' = Refusal("deadline")
  /\ UNCHANGED <<asked, order, found, expired>>

Next == Ask \/ (\E x \in Item : Find(x)) \/ Break \/ Expire \/ Respond

Spec == Init /\ [][Next]_gatherVars
=============================================================================
