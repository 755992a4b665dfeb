--------------------------- MODULE MCSessionStore ---------------------------
(* A few exchanges, a HAR file of one entry, one or two users.             *)
EXTENDS SessionStore, TLC

CONSTANTS u1, u2

MCNone      == {}
MCTwo       == {1, 2}
MCThree     == {1, 2, 3}
MCHar       == {4}
MCOneUser   == {u1}
MCTwoUsers  == {u1, u2}
MCAll       == AllOps
MCCounted   == {"create", "delete", "import"}
Symmetric   == Permutations(Users)
=============================================================================
