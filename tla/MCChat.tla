------------------------------- MODULE MCChat -------------------------------
(***************************************************************************)
(* Chat on a small instance.  The names to choose from are one, and the    *)
(* same with the first number the server puts behind a name: a user may    *)
(* choose what the server makes up for another.  One client never reads.   *)
(***************************************************************************)
EXTENDS Chat

Chosen == {<<"bob">>, Numbered(<<"bob">>, 1)}
Unfit == <<"?">>
=============================================================================
