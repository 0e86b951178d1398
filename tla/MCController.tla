------------------------------ MODULE MCController ------------------------------
(* Small instances of Controller for TLC. *)
EXTENDS Controller

AnyStart == {Legacy, NoKit, 1}
=============================================================================
