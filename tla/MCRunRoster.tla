---------------------------- MODULE MCRunRoster -----------------------------
(***************************************************************************)
(* Small instances of RunRoster: two Console tabs, of two agents or of one *)
(* who has refreshed the Console.                                          *)
(***************************************************************************)
EXTENDS RunRoster, TLC

CONSTANTS s1, s2, a1, a2

TwoTabs   == {s1, s2}

\* One agent with both tabs.
OneAgent  == {a1}
SameAgent == (s1 :> a1) @@ (s2 :> a1)

\* Two agents with a tab each.
TwoAgents == {a1, a2}
ATabEach  == (s1 :> a1) @@ (s2 :> a2)

\* The renamings of tabs and agents that keep each tab with its agent.
Renamings ==
  {f \in Permutations(Sessions \cup Exts) :
     \A s \in Sessions : f[s] \in Sessions /\ ExtOf[f[s]] = f[ExtOf[s]]}
=============================================================================
