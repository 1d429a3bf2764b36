---------------------------- MODULE MCListUsers ----------------------------
(* A small instance of ListUsers. *)
EXTENDS ListUsers

CONSTANTS u1, u2, u3, u4

\* Three drivers, and one who has yet to register.
MCRegistered == <<u1, u2, u3>>

\* Unset, negative, one user, and more than the cap.
MCLimits == {-1, 0, 1, 5}

\* Unset, the three statuses, and a number of none.
MCFilters == {0, 1, 2, 3, 7}
=============================================================================
