------------------------------ MODULE MCGroup -------------------------------
(* Group for TLC, with units of time that keep the order of the durations: *)
(* elections are faster than pings and pings than the loss of a member.    *)
EXTENDS Group
=============================================================================
