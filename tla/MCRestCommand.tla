----------------------------- MODULE MCRestCommand -----------------------------
(* An instance of RestCommand for TLC: a listing, then a change. *)
EXTENDS RestCommand

OneChange == {2}
=============================================================================
