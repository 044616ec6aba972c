----------------------------- MODULE MCJobRouter ------------------------------
(* An instance of JobRouter for TLC; its one constant is given in the cfg. *)
EXTENDS JobRouter
===============================================================================
