------------------------- MODULE MCFetcherConnection -------------------------
(* The instances of FetcherConnection for TLC. *)
EXTENDS FetcherConnection
=============================================================================
