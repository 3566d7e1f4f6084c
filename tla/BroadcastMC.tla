---------------------------- MODULE BroadcastMC -----------------------------
(***************************************************************************)
(* A small instance of Broadcast: two sockets of one hub and one of        *)
(* another.                                                                *)
(***************************************************************************)
EXTENDS Broadcast

CONSTANTS a1, a2, b1, hubA, hubB

MCHubOf == [s \in {a1, a2, b1} |-> IF s = b1 THEN hubB ELSE hubA]
MCMaxCast == [h \in {hubA, hubB} |-> IF h = hubA THEN 4 ELSE 1]
=============================================================================
