------------------------------- MODULE MCVPN --------------------------------
(***************************************************************************)
(* VPNProfile for TLC: an authority that signed itself, and one whose      *)
(* issuer nobody has.                                                      *)
(***************************************************************************)
EXTENDS VPNProfile, TLC

CONSTANTS ca, tls, key, lower, upper, root, stranger

MCIssuer == (root :> root) @@ (stranger :> NoBlock)
=============================================================================
