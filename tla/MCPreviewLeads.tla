--------------------------- MODULE MCPreviewLeads ---------------------------
(***************************************************************************)
(* Small instances of PreviewLeads: two agents, two or three leads, one    *)
(* disposition per outcome.                                                *)
(***************************************************************************)
EXTENDS PreviewLeads, TLC

CONSTANTS l1, l2, l3, a1, a2

TwoLeads   == {l1, l2}
TwoInOrder == {<<l1, l2>>}
ThreeLeads   == {l1, l2, l3}
ThreeInOrder == {<<l1, l2>>, <<l1, l3>>, <<l2, l3>>}
TwoAgents  == {a1, a2}

MCDispositions == {"Spoke", "Do Not Call"}
MCCategory == ("Spoke" :> "success") @@ ("Do Not Call" :> "dnc")
=============================================================================
