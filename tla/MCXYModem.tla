----------------------------- MODULE MCXYModem ------------------------------
(* TLC instance of XYModem. *)
EXTENDS XYModem

\* A first file long enough for its block numbers to wrap, and a short one.
MCFiles == <<5, 1>>

=============================================================================
