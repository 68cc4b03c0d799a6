----------------------------- MODULE MCDialLoop -----------------------------
(***************************************************************************)
(* Small instances of DialLoop: three leads, one of them on the DNC list,  *)
(* two agents.                                                             *)
(***************************************************************************)
EXTENDS DialLoop, TLC

CONSTANTS l1, l2, d1, a1, a2

MCLeads  == {l1, l2, d1}
MCDnc    == {d1}
MCOrder  == <<l1, l2>>
MCAgents == {a1, a2}
MCOneAgent == {a1}
=============================================================================
