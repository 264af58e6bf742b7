---------------------------- MODULE MCWalCommit -----------------------------
(***************************************************************************)
(* Small instances of WalCommit.                                           *)
(***************************************************************************)
EXTENDS WalCommit, TLC

CONSTANTS h1, h2, kv1, kv2

(***************************************************************************)
(* One commit with both pairs, one that shares a pair with it.             *)
(***************************************************************************)
MCKVsOf == (h1 :> {kv1, kv2}) @@ (h2 :> {kv2})

MCRequests == {<<h1>>, <<h1, h1>>, <<h1, h2>>}
MCSingle == {<<h1>>, <<h2>>}
=============================================================================
