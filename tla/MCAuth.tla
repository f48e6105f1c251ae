------------------------------- MODULE MCAuth -------------------------------
(* Small instances of AuthSessions for TLC.                                *)
EXTENDS AuthSessions, TLC

CONSTANTS l1, r1, r2, o1, v1, e1, d1, p1, p2

(* l1 logs in, r1 and r2 refresh, o1 logs out, v1 disables the user, e1    *)
(* enables and d1 deletes the user.                                        *)
TwoProcesses == [q \in Requests |-> IF q \in {v1, e1} THEN p2 ELSE p1]
OwnProcess   == [q \in Requests |-> q]

Disabling == [q \in Revocations |-> "disable"]

(* Any two refreshes may be exchanged: one process serves both.            *)
AnyOrder == Permutations(Refreshes)
==============================================================================
