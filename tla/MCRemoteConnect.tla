-------------------------- MODULE MCRemoteConnect --------------------------
(* Instances of RemoteConnect: a is tried three times, b twice.            *)
EXTENDS RemoteConnect

CONSTANTS a, b

TwoRemotes == {a, b}
Retries == [r \in Remote |-> IF r = a THEN 2 ELSE 1]
=============================================================================
