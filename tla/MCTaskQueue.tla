---------------------------- MODULE MCTaskQueue ----------------------------
(* Small instances of TaskQueue for TLC. *)
EXTENDS TaskQueue, TLC

CONSTANTS t1, t2, g1, u1, c1, c2

\* One target of one user, which both uploads are for.
OneOwner == g1 :> u1
=============================================================================
