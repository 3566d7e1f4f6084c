---------------------------- MODULE HubClientMC -----------------------------
(***************************************************************************)
(* A small instance of HubClient: two connections, the first with an order *)
(* of messages to keep.                                                    *)
(***************************************************************************)
EXTENDS HubClient

MCMaxMsg == <<2, 1>>
MCMaxSaid == <<1, 1>>
=============================================================================
