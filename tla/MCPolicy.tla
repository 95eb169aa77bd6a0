------------------------------ MODULE MCPolicy ------------------------------
(* Instances of Policy for TLC. *)
EXTENDS Policy

All(n) == [v \in Verbs |-> n]

\* Every field of an override alone, on either side of the platforms' values.
Single == {NoOverrides,
           [NoOverrides EXCEPT !.rate = All(1)],
           [NoOverrides EXCEPT !.rate = [v \in {"comment", "monitor"} |-> 100]],
           [NoOverrides EXCEPT !.bot = TRUE],
           [NoOverrides EXCEPT !.label = TRUE],
           [NoOverrides EXCEPT !.ratio = 3],
           [NoOverrides EXCEPT !.ratio = 20],
           [NoOverrides EXCEPT !.all = TRUE]}

AsDefined == {NoOverrides}

\* A limit of nothing.
Zero == {NoOverrides, [NoOverrides EXCEPT !.rate = All(0)]}

SomeConsents == {Scopes, {"publish", "read"}}

\* Below, at and above the platforms' limits.
FewUses == {0, 1, 12}

\* Nothing yet; enough other writes for a ratio of 9, not of 20; one promotional.
FewLedgers == {<<0, 0>>, <<0, 9>>, <<1, 9>>}
=============================================================================
