------------------------- MODULE MCDNSRecordMirror -------------------------
(* Model-checking instances of DNSRecordMirror; the bounds are in the cfgs. *)
EXTENDS DNSRecordMirror
=============================================================================
