----------------------------- MODULE MCStartup -----------------------------
(* Startup with a timer, a keyboard and a disk controller. *)
EXTENDS Startup

AnyMask == SUBSET IRQs
=============================================================================
