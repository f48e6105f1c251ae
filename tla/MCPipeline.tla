----------------------------- MODULE MCPipeline -----------------------------
(* Small instances of ReviewPipeline for TLC.                              *)
EXTENDS ReviewPipeline, TLC

CONSTANTS a, b, c, m, d, d2, p1, p2, w1, w2, e1, e2, em, mr

(* a, b and c are deliveries of webhooks, m is a manual trigger, d and d2  *)
(* are deletions of the project.                                           *)
OnRequests(f, default) ==
    [q \in Requests |-> IF q \in DOMAIN f THEN f[q] ELSE default]
OnRecords(f, default) ==
    [q \in Records |-> IF q \in DOMAIN f THEN f[q] ELSE default]

TwoProcesses == OnRequests(b :> p2 @@ d2 :> p2, p1)
OneProcess   == OnRequests(<<>>, p1)
OwnProcess   == [q \in Requests |-> q]

SameEventId     == OnRecords(m :> em, e1)
DistinctEventId == OnRecords(b :> e2 @@ m :> em, e1)
OneSubject      == OnRecords(<<>>, mr)
=============================================================================
