----------------------------- MODULE MCDabRadio -----------------------------
(***************************************************************************)
(* Two channels: one with a service, the other without any.                *)
(***************************************************************************)
EXTENDS DabRadio

MCServicesOf == <<{11}, {}>>

=============================================================================
