------------------------------- MODULE MCReload -------------------------------
(* Reload with two configurations of a core and one or two nodes, one with two *)
(* cores, one without a core and one that does not parse.                      *)
EXTENDS Reload

Node1 == [tag |-> "n1", dns |-> "d1"]
Node2 == [tag |-> "n2", dns |-> ""]
Content(ok, cores, ns) == [ok |-> ok, conf |-> [cores |-> cores, nodes |-> ns]]

MCFirst == Content(TRUE, <<"xray">>, <<Node1, Node2>>)
MCContents == {
    MCFirst,
    Content(TRUE, <<"sing">>, <<Node2>>),
    Content(FALSE, <<"xray">>, <<Node1>>),
    Content(TRUE, <<>>, <<Node1>>),
    Content(TRUE, <<"xray", "sing">>, <<Node1>>),
    Content(TRUE, <<"xray">>, <<Node1, [tag |-> "n2", dns |-> "d2"]>>)}
=============================================================================
