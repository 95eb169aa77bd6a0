----------------------------- MODULE MCLifecycle -----------------------------
(* Instances of Lifecycle for TLC. *)
EXTENDS Lifecycle

CONSTANTS c1, c2, c3, c4

\* Once the account is registered, a connect (or a second registration of the
\* same handle) and two calls of any operation overlap freely.
Four == {c1, c2, c3, c4}
FourOps == [c \in Four |-> IF c = c1 THEN {"register"}
                           ELSE IF c = c2 THEN {"register", "connect"}
                           ELSE Ops \ {"register"}]

\* A disconnect beside an authorization, no patch.
RaceOps == [c \in Four |-> CASE c = c1 -> {"register"} [] c = c2 -> {"connect"}
                             [] c = c3 -> {"authorize"} [] c = c4 -> {"disconnect"}]

\* A retirement, and two more operations on the status.
RetireOps == [c \in Four |-> CASE c = c1 -> {"register"} [] c = c2 -> {"retire"}
                               [] OTHER -> {"revoke", "patch"}]
=============================================================================
