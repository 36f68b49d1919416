---------------------------- MODULE MCC360Runtime ----------------------------
(***************************************************************************)
(* Small instances of C360Runtime for TLC.                                 *)
(***************************************************************************)
EXTENDS C360Runtime

BindKinds == {"readonly"}
=============================================================================
