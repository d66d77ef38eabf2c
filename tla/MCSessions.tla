---------------------------- MODULE MCSessions ----------------------------
(***************************************************************************)
(* An instance of Sessions for TLC: a local administrator and OAuth users. *)
(***************************************************************************)
EXTENDS Sessions

Local == [u \in LocalUsers |-> "admin"]

\* What an administrator makes of an OAuth user, who is a user after the first login.
UserOrAdmin == {{"user"}, {"admin"}}

===========================================================================
