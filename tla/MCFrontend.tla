------------------------------ MODULE MCFrontend ------------------------------
(* Small instances of Frontend for TLC. *)
EXTENDS Frontend
===============================================================================
