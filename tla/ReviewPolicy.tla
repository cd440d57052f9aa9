---------------------------- MODULE ReviewPolicy ----------------------------
(***************************************************************************)
(* What the review workflow promises about one work product: it moves      *)
(* between the review states one decision at a time, and its history holds *)
(* one entry for each decision, the hash before and the hash after it.  An *)
(* approved product never changes again.                                   *)
(***************************************************************************)
EXTENDS Sequences

CONSTANTS Products, Contents, NoContent

VARIABLES
  product,   \* what the reviewer sees: status and content
  history    \* the review events, oldest first

policyVars == <<product, history>>

Unborn == [status |-> "absent", content |-> NoContent]

\* review.transition: <<before, after>>
Moves ==
  ({"needs_review", "draft"} \X {"approved", "rejected", "needs_review"})
    \cup ({"needs_review", "rejected"} \X {"draft"})

PolicyInit ==
  /\ product = [p \in Products |-> Unborn]
  /\ history = [p \in Products |-> <<>>]

Materialize(p) ==
  /\ product[p] = Unborn
  /\ \E s \in {"draft", "needs_review"}, c \in Contents :
       product' = [product EXCEPT ![p] = [status |-> s, content |-> c]]
  /\ UNCHANGED history

\* Only a decision that leaves the product reviewable may change its content.
Decide(p) ==
  \E s \in {"approved", "rejected", "needs_review", "draft"}, c \in Contents :
    LET after == [status |-> s, content |-> c]
    IN  /\ <<product[p].status, s>> \in Moves
        /\ s # "needs_review" => c = product[p].content
        /\ product' = [product EXCEPT ![p] = after]
        /\ history' = [history EXCEPT ![p] =
                         Append(@, [before |-> product[p], after |-> after])]

PolicyNext == \E p \in Products : Materialize(p) \/ Decide(p)

PolicySpec == PolicyInit /\ [][PolicyNext]_policyVars
=============================================================================
