-------------------------- MODULE MCDesktopIntent --------------------------
(***************************************************************************)
(* Instances of DesktopIntent for TLC.  Two delays stand for the schedule: *)
(* the immediate attempt and every later one.                              *)
(***************************************************************************)
EXTENDS DesktopIntent, TLC

MCDelays == <<0, 2>>

=============================================================================
