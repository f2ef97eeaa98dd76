-------------------------- MODULE MCAsyncInjection --------------------------
(***************************************************************************)
(* AsyncInjection on small instances.                                      *)
(***************************************************************************)
EXTENDS AsyncInjection

CONSTANTS u1, k1, t1
=============================================================================
