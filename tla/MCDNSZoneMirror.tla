-------------------------- MODULE MCDNSZoneMirror --------------------------
(* Model-checking instances of DNSZoneMirror; the bounds are in the cfgs.  *)
EXTENDS DNSZoneMirror, TLC

(* DNSZone names and zone names are interchangeable in safety runs. *)
Symmetric == Permutations(CRs) \cup Permutations(Names)
=============================================================================
