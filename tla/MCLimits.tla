------------------------------ MODULE MCLimits ------------------------------
(* Instances of Limits for TLC. *)
EXTENDS Limits, TLC

CONSTANTS ann, ben, post

Plain == [verb |-> "publish", account |-> ann, target |-> NoTarget, owned |-> FALSE,
          promotional |-> FALSE, refused |-> FALSE, review |-> FALSE]
Reply == [Plain EXCEPT !.verb = "comment", !.target = post]

\* Publications and replies of two accounts, promotional or not, for review or not.
MixedAsks == {Plain, [Plain EXCEPT !.promotional = TRUE], Reply,
              [Reply EXCEPT !.account = ben], [Reply EXCEPT !.account = ben, !.review = TRUE],
              [Plain EXCEPT !.refused = TRUE],
              [Plain EXCEPT !.verb = "read"]}
Same == Permutations(Requests) \cup Permutations(Processes)

PlainAsks == {Plain}

\* Comments have no limit but the one of account ben.
Limited == [verb \in Verbs |-> IF verb = "comment" THEN NoLimit ELSE 2]
Lowered == [x \in Accounts |-> [verb \in Verbs |-> IF x = ben THEN 1 ELSE NoLimit]]

Once == [verb \in Verbs |-> 1]
AsGiven == [x \in Accounts |-> [verb \in Verbs |-> NoLimit]]
=============================================================================
