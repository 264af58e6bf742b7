----------------------------- MODULE MCStorage ------------------------------
(***************************************************************************)
(* A small instance of Storage: one handle that stores, one that loads.    *)
(***************************************************************************)
EXTENDS Storage

CONSTANTS w, r

MCHandle == {w, r}
MCWriters == {w}
=============================================================================
