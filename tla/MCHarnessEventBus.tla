-------------------------- MODULE MCHarnessEventBus --------------------------
(***************************************************************************)
(* A small instance of the event bus: a queue holds two events, or one     *)
(* long and one short event by bytes, so that either bound may be the one  *)
(* that bites, and four events pass, enough for a reader cut at a bound to *)
(* be outlived by the other one.                                           *)
(***************************************************************************)
EXTENDS HarnessEventBus

CONSTANTS r1, r2, t1
=============================================================================
