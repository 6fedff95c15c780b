---------------------------- MODULE MCCertificates ----------------------------
(* Certificates of two nodes that name the same files, or one of them a template. *)
EXTENDS Certificates

MCModes == {<<"acme", x>> : x \in {"acme", "self", "none", "bad"}} \cup {<<"self", "self">>}

Names(raw, parsed) == [raw |-> raw, parsed |-> parsed, user |-> "u"]
MCLayouts == {<<Names("f", "f"), second>> : second \in {Names("f", "f"), Names("{}", "f")}}
=============================================================================
