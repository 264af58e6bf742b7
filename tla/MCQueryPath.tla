----------------------------- MODULE MCQueryPath ----------------------------
(***************************************************************************)
(* Small instances of QueryPath.                                           *)
(***************************************************************************)
EXTENDS QueryPath, TLC

CONSTANTS h1, h2, kv1, kv2

MCKVsOf == (h1 :> {kv1, kv2}) @@ (h2 :> {kv2})

(***************************************************************************)
(* The first commit has its first pair twice.                              *)
(***************************************************************************)
MCRepeats == (h1 :> (kv1 :> 2 @@ kv2 :> 1)) @@ (h2 :> (kv1 :> 1 @@ kv2 :> 1))

MCDistance == (h1 :> 2) @@ (h2 :> 1)

MCSingle == {<<h1>>, <<h2>>}
=============================================================================
