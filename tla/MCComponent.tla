---------------------------- MODULE MCComponent -----------------------------
(* Small instances of Component. *)
EXTENDS Component

=============================================================================
