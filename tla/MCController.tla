---------------------------- MODULE MCController ----------------------------
(***************************************************************************)
(* Small instances of Controller.                                          *)
(***************************************************************************)
EXTENDS ControllerInvariant

AllKinds == {Kinds}
=============================================================================
