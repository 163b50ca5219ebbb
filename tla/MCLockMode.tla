----------------------------- MODULE MCLockMode -----------------------------
(* Outer threads for the runs of LockMode: o1 and o2 share a proxy.        *)
EXTENDS LockMode

CONSTANTS o1, o2, o3, p1, p2

ThreeThreads == {o1, o2, o3}
TwoProxies == {p1, p2}
SharedAndOwn == [t \in Outer |-> IF t = o3 THEN p2 ELSE p1]
=============================================================================
