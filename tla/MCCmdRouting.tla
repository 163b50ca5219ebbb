--------------------------- MODULE MCCmdRouting ---------------------------
(* Instances of CmdRouting: a and b in one thread, c in another.           *)
EXTENDS CmdRouting

CONSTANTS a, b, c, g1, g2, client, nowhere

TwoExtensions == {a, c}
ThreeExtensions == {a, b, c}
TwoGroups == {g1, g2}
Groups == [x \in Extension |-> IF x = c THEN g2 ELSE g1]

\* The numbers of requests: at most two in all, none from b.
Total(v) == v[a] + v[c] + v[client]
TwoInAll == {v \in [Sender -> 0..2] : Total(v) <= 2 /\ \A s \in Sender \ {a, c, client} : v[s] = 0}
OneEach == {v \in TwoInAll : \A s \in Sender : v[s] <= 1 /\ v[client] = 0}
TwoFromAOrClient == {v \in TwoInAll : Total(v) \in {v[a], v[client]}}
=============================================================================
