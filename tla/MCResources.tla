----------------------------- MODULE MCResources -----------------------------
(* Resources on a daemon that may lack, or fail, any of its routes.         *)
EXTENDS Resources

AnyMissing == Routes
=============================================================================
