---------------------------- MODULE MCVenueClient ----------------------------
(***************************************************************************)
(* A client for TLC with a plain handler for messages of type A and a      *)
(* coroutine for every message, one task that waits for an A and one that  *)
(* waits for either.                                                       *)
(***************************************************************************)
EXTENDS VenueClient

CONSTANTS plain, coroutine, c1, c2

MCSubscriptions == {<<"A", plain>>, <<"*", coroutine>>}

MCWaits == {<<c1, "A">>, <<c2, "A">>, <<c2, "B">>}
=============================================================================
