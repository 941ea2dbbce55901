------------------------------ MODULE MCDispatch -------------------------------
(* Small instances of Dispatch; the constants are given in the cfg files.     *)
EXTENDS Dispatch
================================================================================
