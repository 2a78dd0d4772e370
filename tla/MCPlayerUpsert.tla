--------------------------- MODULE MCPlayerUpsert ---------------------------
(* PlayerUpsert on small instances. *)
EXTENDS PlayerUpsert, TLC

CONSTANTS upper, lower, g1, g2, f1, s1, s2

MCCalls == {g1, g2, f1, s1, s2}

\* The two spellings of one pseudo.
MCPseudos == {upper, lower}
MCNormal == [p \in MCPseudos |-> upper]

MCKind == g1 :> "create_or_get" @@ g2 :> "create_or_get" @@ f1 :> "flush"
          @@ s1 :> "start" @@ s2 :> "start"

\* Four calls race for one player, g2 under the other spelling, of which s2
\* makes a player of its own.
MCWants == g1 :> upper @@ g2 :> lower @@ f1 :> upper @@ s1 :> upper @@ s2 :> lower
=============================================================================
