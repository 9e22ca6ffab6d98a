----------------------------- MODULE MCProgress -----------------------------
(***************************************************************************)
(* An instance of Progress for TLC.                                        *)
(***************************************************************************)
EXTENDS Progress, TLC

CONSTANTS
    n1, n2,     \* nodes, of Scaling
    p1, p2      \* keys, of Ranking

TwoNodes == {n1, n2}
TwoPeers == {p1, p2}

\* Every node ranks itself first.
MCSorted == n1 :> <<n1, n2>> @@ n2 :> <<n2, n1>>

\* Times that vary from ping to ping, and may be the same for both peers.
MCRtt == p1 :> {1, 2} @@ p2 :> {2, 3}

\* Two services; in docker-compose.yaml the gateway depends on prometheus.
MCOrder == <<"prometheus", "gateway">>

\* The rankings of this instance name every node once.
ASSUME RankingsComplete == Scale!SortedCompletely
=============================================================================
